------------------------------ MODULE AppRegistry ------------------------------
(***************************************************************************)
(* The application registry of one tenant (internal/store/app_store.go, the *)
(* create, update, delete, enable and disable handlers of                   *)
(* internal/api/app_handlers.go).                                           *)
(*                                                                         *)
(* An application is an item, a SAML configuration item and a marker that   *)
(* reserves its entityID. The markers are the only conditional writes;      *)
(* everything else is read, changed and written back, and the three kinds   *)
(* of item are kept in step by the order of the calls and by rollbacks. An  *)
(* Admin is one request of the management API in flight, one action per     *)
(* table call. Tenants share no item and no marker.                         *)
(***************************************************************************)
EXTENDS Naturals, FiniteSets

CONSTANTS
  App,        \* application IDs, random: each is used once
  Entity,     \* SAML entityIDs
  Blank,      \* the empty entityID
  Admin,      \* requests in flight
  Fault,      \* what may go wrong
  None

\* "put" and "delete": a call fails and changes nothing; "crash": a request is
\* cut off. A call whose error ends the request at once, without another write,
\* is a "crash" before it.
FaultKind == {"put", "delete", "crash"}

ASSUME ConstantsAssumption ==
  /\ Blank \notin Entity /\ None \notin App \cup Entity \cup {Blank}
  /\ Fault \subseteq FaultKind

EntityID == Entity \cup {Blank}
Status == {"active", "disabled"}

\* appItem: its EntityID (and GSI1 key) and its Application.
AppItem == [entity : EntityID, status : Status]

ASSUME NoneIsNoItem == None \notin AppItem /\ <<None>> \notin EntityID \cup {None}

CreatePC == {"reserve", "putNew", "putNewConfig"}
UpdatePC == {"getApp", "getKeys", "putApp"}
RenamePC == {"getOld", "reserveNew", "putConfig", "putRaw", "releaseOld"}
DeletePC == {"getDeleted", "deleteApp", "deleteConfig", "releaseLast"}
PC == {"idle", "rollback"} \cup CreatePC \cup UpdatePC \cup RenamePC \cup DeletePC

\* A request: its application; the entityID of its SAML block, if it has one;
\* the status it sets, if any; and the item it has read or is to write.
Job == [pc : PC, app : App \cup {None}, entity : EntityID \cup {None},
        status : Status \cup {None}, item : AppItem \cup {None}]

VARIABLES
  apps,       \* APP# items
  configs,    \* APP#..#SAML items: the entityID they hold
  marker,     \* ENTITYUNIQUE# items: the application they reserve for
  job,
  (* history, read by the properties and by the choice of fresh IDs *)
  created,    \* IDs generated
  deleted,    \* applications whose item was deleted
  damaged,    \* applications of a request that failed or was cut off half-way
  mixed,      \* applications two requests were about at the same time
  had         \* the entityIDs ever reserved for each application

items == <<apps, configs, marker>>
started == <<created, mixed>>   \* changed only where a request begins
vars == <<apps, configs, marker, job, created, deleted, damaged, mixed, had>>

Idle == [pc |-> "idle", app |-> None, entity |-> None, status |-> None,
         item |-> None]

Init ==
  /\ apps = [a \in App |-> None]
  /\ configs = [a \in App |-> None]
  /\ marker = [e \in EntityID |-> None]
  /\ job = [h \in Admin |-> Idle]
  /\ created = {} /\ deleted = {} /\ damaged = {} /\ mixed = {}
  /\ had = [a \in App |-> {}]

-----------------------------------------------------------------------------
(* Helpers *)

Finish(h) == job' = [job EXCEPT ![h] = Idle]
Goto(h, pc) == job' = [job EXCEPT ![h].pc = pc]

\* The request ends with an error after it has written something.
Damage(h) == Finish(h) /\ damaged' = damaged \cup {job[h].app}

Busy(a) == \E h \in Admin : job[h].app = a

\* The random ID of an application can be named once its item is there.
Known(a) == apps[a] # None \/ a \in deleted

\* A request about a known application arrives, whatever others are about it.
Begin(h, pc, a, entity, status) ==
  /\ job[h].pc = "idle"
  /\ Known(a)
  /\ job' = [job EXCEPT ![h] = [Idle EXCEPT !.pc = pc, !.app = a,
                                !.entity = entity, !.status = status]]
  /\ mixed' = IF Busy(a) THEN mixed \cup {a} ELSE mixed
  /\ UNCHANGED <<items, created, deleted, damaged, had>>

\* The reservation of e is written for request h, which goes on.
Mark(h, e, pc) ==
  /\ marker' = [marker EXCEPT ![e] = job[h].app]
  /\ had' = [had EXCEPT ![job[h].app] = @ \cup ({e} \cap Entity)]
  /\ Goto(h, pc)

\* Mutant: a Put without attribute_not_exists.
Reserve_Put(h, pc) == Mark(h, job[h].entity, pc)

\* PutIfNotExists of the uniqueness marker; ErrConditionFailed ends the request.
Reserve(h, pc) ==
  LET e == job[h].entity IN
  \/ marker[e] = None /\ Mark(h, e, pc)
  \/ marker[e] # None /\ Finish(h) /\ UNCHANGED <<marker, had>>

\* Delete of a marker, unconditional and its error dropped; the request ends.
Release(h, e) ==
  \/ marker' = [marker EXCEPT ![e] = None] /\ Finish(h) /\ UNCHANGED damaged
  \/ "delete" \in Fault /\ Damage(h) /\ UNCHANGED marker

\* The reads of a missing application end the request.
Missing(h) ==
  /\ apps[job[h].app] = None
  /\ Finish(h)

-----------------------------------------------------------------------------
(* Create *)

\* The create handler: a SAML application with an entityID or a blank one (no
\* SAML block), or, without an entity, an OIDC application.
StartCreate(h, a, entity) ==
  /\ job[h].pc = "idle"
  /\ a \notin created
  /\ created' = created \cup {a}
  /\ job' = [job EXCEPT ![h] =
       [Idle EXCEPT !.pc = IF entity = None THEN "putNew" ELSE "reserve",
                    !.app = a, !.entity = entity]]
  /\ UNCHANGED <<items, deleted, damaged, mixed, had>>

ReserveFirst(h) ==
  /\ job[h].pc = "reserve"
  /\ Reserve(h, "putNew")
  /\ UNCHANGED <<apps, configs, started, deleted, damaged>>

NewItem(entity) ==
  [entity |-> IF entity = None THEN Blank ELSE entity, status |-> "active"]

\* The application item; an error rolls the reservation back.
PutNew(h) ==
  LET a == job[h].app  e == job[h].entity IN
  /\ job[h].pc = "putNew"
  /\ \/ /\ apps' = [apps EXCEPT ![a] = NewItem(e)]
        /\ IF e = None THEN Finish(h) ELSE Goto(h, "putNewConfig")
     \/ /\ "put" \in Fault
        /\ IF e = None THEN Finish(h) ELSE Goto(h, "rollback")
        /\ UNCHANGED apps
  /\ UNCHANGED <<configs, marker, started, deleted, damaged, had>>

\* Mutant: a failed create or rename keeps its reservation.
Rollback_Forgotten(h) ==
  /\ job[h].pc = "rollback"
  /\ Finish(h)
  /\ UNCHANGED <<items, started, deleted, damaged, had>>

\* Create and UpdateSAMLConfig: the reservation of a failed request goes.
Rollback(h) ==
  /\ job[h].pc = "rollback"
  /\ Release(h, job[h].entity)
  /\ UNCHANGED <<apps, configs, started, deleted, had>>

\* The SAML configuration; its error leaves the application without one.
PutNewConfig(h) ==
  LET a == job[h].app IN
  /\ job[h].pc = "putNewConfig"
  /\ \/ /\ configs' = [configs EXCEPT ![a] = job[h].entity]
        /\ Finish(h)
        /\ UNCHANGED damaged
     \/ "put" \in Fault /\ Damage(h) /\ UNCHANGED configs
  /\ UNCHANGED <<apps, marker, started, deleted, had>>

-----------------------------------------------------------------------------
(* Update, SetStatus *)

\* The update handler, with a SAML block that has an entityID or without one.
StartUpdate(h, a, entity) == Begin(h, "getApp", a, entity, None)

\* The enable and disable handlers.
StartSetStatus(h, a, status) == Begin(h, "getApp", a, None, status)

\* Mutant: an update resets the status.
GetApp_Reactivates(h) ==
  /\ job[h].pc = "getApp"
  /\ \/ Missing(h)
     \/ /\ apps[job[h].app] # None
        /\ job' = [job EXCEPT ![h].pc = "getKeys",
             ![h].item = [apps[job[h].app] EXCEPT !.status =
                            IF job[h].status = None THEN "active"
                            ELSE job[h].status]]
  /\ UNCHANGED <<items, started, deleted, damaged, had>>

\* The first Get of the handler, or of SetStatus, which changes the status.
GetApp(h) ==
  /\ job[h].pc = "getApp"
  /\ \/ Missing(h)
     \/ /\ apps[job[h].app] # None
        /\ job' = [job EXCEPT ![h].pc = "getKeys",
             ![h].item = [apps[job[h].app] EXCEPT !.status =
                            IF job[h].status = None THEN @ ELSE job[h].status]]
  /\ UNCHANGED <<items, started, deleted, damaged, had>>

\* Mutant: the keys are not read again.
GetKeys_Blank(h) ==
  /\ job[h].pc = "getKeys"
  /\ job' = [job EXCEPT ![h].pc = "putApp", ![h].item.entity = Blank]
  /\ UNCHANGED <<items, started, deleted, damaged, had>>

\* Update reads the item again to keep its entityID and GSI keys.
GetKeys(h) ==
  /\ job[h].pc = "getKeys"
  /\ \/ Missing(h)
     \/ /\ apps[job[h].app] # None
        /\ job' = [job EXCEPT ![h].pc = "putApp",
                              ![h].item.entity = apps[job[h].app].entity]
  /\ UNCHANGED <<items, started, deleted, damaged, had>>

\* Update writes the item back; UpdateSAMLConfig follows if there is a SAML
\* block.
PutApp(h) ==
  /\ job[h].pc = "putApp"
  /\ \/ /\ apps' = [apps EXCEPT ![job[h].app] = job[h].item]
        /\ IF job[h].entity = None THEN Finish(h) ELSE Goto(h, "getOld")
     \/ "put" \in Fault /\ Finish(h) /\ UNCHANGED apps
  /\ UNCHANGED <<configs, marker, started, deleted, damaged, had>>

-----------------------------------------------------------------------------
(* UpdateSAMLConfig *)

\* The item with the previous entityID; a changed one is reserved first.
GetOld(h) ==
  LET item == apps[job[h].app] IN
  /\ job[h].pc = "getOld"
  /\ \/ Missing(h)
     \/ /\ item # None
        /\ job' = [job EXCEPT ![h].item = item,
             ![h].pc = IF item.entity = job[h].entity THEN "putConfig"
                       ELSE "reserveNew"]
  /\ UNCHANGED <<items, started, deleted, damaged, had>>

ReserveNew(h) ==
  /\ job[h].pc = "reserveNew"
  /\ Reserve(h, "putConfig")
  /\ UNCHANGED <<apps, configs, started, deleted, damaged>>

\* The SAML configuration; an error rolls a new reservation back.
PutConfig(h) ==
  LET a == job[h].app  e == job[h].entity IN
  /\ job[h].pc = "putConfig"
  /\ \/ /\ configs' = [configs EXCEPT ![a] = e]
        /\ Goto(h, "putRaw")
     \/ /\ "put" \in Fault
        /\ IF e = job[h].item.entity THEN Finish(h) ELSE Goto(h, "rollback")
        /\ UNCHANGED configs
  /\ UNCHANGED <<apps, marker, started, deleted, damaged, had>>

\* Mutant: the item keeps its entityID and GSI key.
PutRaw_OldKeys(h) ==
  LET a == job[h].app  e == job[h].entity  old == job[h].item.entity IN
  /\ job[h].pc = "putRaw"
  /\ apps' = [apps EXCEPT ![a] = job[h].item]
  /\ IF old \notin {Blank, e} THEN Goto(h, "releaseOld") ELSE Finish(h)
  /\ UNCHANGED <<configs, marker, started, deleted, damaged, had>>

\* The item read before, with the new entityID; the old one is released unless
\* it is blank or the same. An error leaves the configuration ahead of the item.
PutRaw(h) ==
  LET a == job[h].app  e == job[h].entity  old == job[h].item.entity IN
  /\ job[h].pc = "putRaw"
  /\ \/ /\ apps' = [apps EXCEPT ![a] = [job[h].item EXCEPT !.entity = e]]
        /\ IF old \notin {Blank, e} THEN Goto(h, "releaseOld") ELSE Finish(h)
        /\ UNCHANGED damaged
     \/ "put" \in Fault /\ Damage(h) /\ UNCHANGED apps
  /\ UNCHANGED <<configs, marker, started, deleted, had>>

ReleaseOld(h) ==
  /\ job[h].pc = "releaseOld"
  /\ Release(h, job[h].item.entity)
  /\ UNCHANGED <<apps, configs, started, deleted, had>>

-----------------------------------------------------------------------------
(* Delete *)

StartDelete(h, a) == Begin(h, "getDeleted", a, None, None)

\* The item is read for its entityID ...
GetDeleted(h) ==
  /\ job[h].pc = "getDeleted"
  /\ \/ Missing(h)
     \/ /\ apps[job[h].app] # None
        /\ job' = [job EXCEPT ![h].pc = "deleteApp", ![h].item = apps[job[h].app]]
  /\ UNCHANGED <<items, started, deleted, damaged, had>>

\* ... and deleted, which succeeds also when it is no longer there ...
DeleteApp(h) ==
  LET a == job[h].app IN
  /\ job[h].pc = "deleteApp"
  /\ apps' = [apps EXCEPT ![a] = None]
  /\ deleted' = deleted \cup {a}
  /\ Goto(h, "deleteConfig")
  /\ UNCHANGED <<configs, marker, started, damaged, had>>

\* ... then, best-effort, its configuration and its reservation.
DeleteConfig(h) ==
  LET a == job[h].app IN
  /\ job[h].pc = "deleteConfig"
  /\ \/ configs' = [configs EXCEPT ![a] = None] /\ UNCHANGED damaged
     \/ "delete" \in Fault /\ damaged' = damaged \cup {a} /\ UNCHANGED configs
  /\ IF job[h].item.entity = Blank THEN Finish(h) ELSE Goto(h, "releaseLast")
  /\ UNCHANGED <<apps, marker, started, deleted, had>>

ReleaseLast(h) ==
  /\ job[h].pc = "releaseLast"
  /\ Release(h, job[h].item.entity)
  /\ UNCHANGED <<apps, configs, started, deleted, had>>

\* A Lambda is cut off, or a call fails whose error ends the request.
Crash(h) ==
  /\ "crash" \in Fault
  /\ job[h].pc # "idle"
  /\ Damage(h)
  /\ UNCHANGED <<items, started, deleted, had>>

-----------------------------------------------------------------------------

Start(h, a) ==
  \/ \E entity \in EntityID \cup {None} : StartCreate(h, a, entity)
  \/ \E entity \in Entity \cup {None} : StartUpdate(h, a, entity)
  \/ \E status \in Status : StartSetStatus(h, a, status)
  \/ StartDelete(h, a)

Next == \E h \in Admin :
  \/ \E a \in App : Start(h, a)
  \/ ReserveFirst(h) \/ PutNew(h) \/ PutNewConfig(h) \/ Rollback(h)
  \/ GetApp(h) \/ GetKeys(h) \/ PutApp(h)
  \/ GetOld(h) \/ ReserveNew(h) \/ PutConfig(h) \/ PutRaw(h) \/ ReleaseOld(h)
  \/ GetDeleted(h) \/ DeleteApp(h) \/ DeleteConfig(h) \/ ReleaseLast(h)
  \/ Crash(h)

Spec == Init /\ [][Next]_vars

-----------------------------------------------------------------------------
(* Properties *)

\* Every variable has its type.
TypeOK ==
  /\ apps \in [App -> AppItem \cup {None}]
  /\ configs \in [App -> EntityID \cup {None}]
  /\ marker \in [EntityID -> App \cup {None}]
  /\ job \in [Admin -> Job]
  /\ created \subseteq App /\ deleted \subseteq App /\ damaged \subseteq App
  /\ mixed \subseteq App /\ had \in [App -> SUBSET Entity]

\* The entityIDs whose reservation may have been deleted by a request that read
\* its application before another request changed it.
Suspect == UNION {had[a] : a \in mixed}

\* "(tenant, entityID) [is] the enforced uniqueness boundary": two applications
\* of a tenant never hold one entityID, whatever creates, renames and deletes
\* run meanwhile and wherever they are cut off, except an entityID that was
\* once reserved for an application with overlapping requests.
EntityIDsUnique ==
  \A a, b \in App :
    /\ apps[a] # None /\ apps[b] # None
    /\ apps[a].entity = apps[b].entity /\ apps[a].entity # Blank
    => a = b \/ apps[a].entity \in Suspect

Agree(a) ==
  \/ apps[a] = None /\ configs[a] = None
  \/ apps[a] # None /\ configs[a] = apps[a].entity
  \/ apps[a] # None /\ configs[a] = None /\ apps[a].entity = Blank

\* An application's SAML configuration carries the entityID it is found under,
\* and a deleted application has none left (GetByTenantEntityID reads one and
\* then the other), except where a request failed half-way or two overlapped;
\* requests about other applications do no harm.
ConfigsAgree == \A a \in App \ (damaged \cup mixed) : ~Busy(a) => Agree(a)

\* No entityID is reserved for nobody: a failed or refused create or rename
\* and a delete give it back, except where they were cut off or overlapped
\* another request about the application.
NoOrphans ==
  \A e \in Entity : LET a == marker[e] IN
    \/ a = None \/ a \in damaged \cup mixed \/ Busy(a)
    \/ apps[a] # None /\ apps[a].entity = e

AskedFor(a, status) ==
  \E h \in Admin : /\ job[h].pc = "putApp" /\ job[h].app = a
                   /\ job[h].status = status

StatusAsked(a) ==
  apps[a] # None /\ apps'[a] # None /\ apps'[a].status # apps[a].status =>
    AskedFor(a, apps'[a].status) \/ a \in mixed

\* A disabled application stays so until someone enables it, though every
\* update writes the status back: only a request to that effect changes it, or
\* one that overlapped another about the application and undoes its work.
StatusOnPurpose == [][\A a \in App : StatusAsked(a)]_vars

\* Where the directory has an application: under its entityID, nowhere yet, or
\* nowhere any more.
Entry == [a \in App |-> IF apps[a] # None THEN apps[a].entity
                        ELSE IF a \in deleted THEN <<None>> ELSE None]

Directory == INSTANCE EntityDirectory WITH
               Unborn <- None, Gone <- <<None>>, entry <- Entry,
               claimed <- had, loose <- mixed

\* The registry is a directory of single steps: an entityID is claimed and taken
\* only while no application has it, updates move none and deleted applications
\* stay deleted; applications with overlapping requests are loose in it.
ImplementsDirectory == Directory!Spec

=============================================================================
