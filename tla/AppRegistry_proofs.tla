-------------------------- MODULE AppRegistry_proofs --------------------------
(***************************************************************************)
(* Theorems about AppRegistry, for any applications, entityIDs, requests    *)
(* and faults. The inductive invariant IInv says what each request in flight *)
(* knows (JobOK) and what is true of each application (AppOK): of all of     *)
(* them, that what they hold they once reserved, and of those without        *)
(* overlapping requests, that nobody else changed it. A step is a step of    *)
(* one request; it touches its own application and the reservations of       *)
(* suspect entityIDs only (Touches), so each action is examined for that     *)
(* request and application.                                                 *)
(***************************************************************************)
EXTENDS AppRegistry, TLAPS

-----------------------------------------------------------------------------
(* The inductive invariant *)

\* What the SAML block of a request may be at each of its steps.
EntityKnown(j) ==
  /\ j.pc \in {"reserve", "putNewConfig", "rollback"} => j.entity \in EntityID
  /\ j.pc \in RenamePC \ {"releaseOld"} => j.entity \in Entity
  /\ j.pc \in UpdatePC => j.entity \in Entity \cup {None}

\* What a request has read or reserved, its application once had.
OnceHad(j) ==
  /\ j.pc \in {"reserve", "putNew"} => apps[j.app] = None /\ j.app \notin deleted
  /\ /\ j.pc \in {"putNew", "putNewConfig", "putConfig", "putRaw", "rollback"}
     /\ j.entity \in Entity
     => j.entity \in had[j.app]
  /\ j.pc \in {"getKeys", "putApp", "reserveNew", "putConfig", "putRaw", "releaseOld",
               "deleteApp", "deleteConfig", "releaseLast"} =>
       /\ j.item \in AppItem
       /\ j.item.entity \in had[j.app] \cup {Blank}
  /\ j.pc = "reserveNew" => j.entity # j.item.entity
  /\ j.pc \in {"releaseOld", "releaseLast"} => j.item.entity \in Entity

\* Without overlap, what it has read is still so.
ItemKnown(j) ==
  /\ j.pc = "putNewConfig" => apps[j.app] = NewItem(j.entity)
  /\ j.pc \in {"getKeys", "putApp"} =>
       /\ apps[j.app] \in AppItem
       /\ j.item.entity = apps[j.app].entity
       /\ j.item.status \in {apps[j.app].status, j.status}
  /\ j.pc \in {"reserveNew", "putConfig", "putRaw", "deleteApp"} => apps[j.app] = j.item

\* Which reservations it has to give back, and that they are its own.
Reserved(j) ==
  /\ j.pc \in {"putNew", "putConfig", "putRaw", "rollback"} /\ j.entity \in Entity \ Suspect =>
       marker[j.entity] = j.app
  /\ j.pc = "rollback" => apps[j.app] = None \/ apps[j.app].entity # j.entity
  /\ j.pc = "releaseOld" => apps[j.app] # None /\ apps[j.app].entity # j.item.entity
  /\ j.pc \in {"deleteConfig", "releaseLast"} => apps[j.app] = None
  /\ /\ j.pc \in {"releaseOld", "deleteConfig", "releaseLast"}
     /\ j.item.entity \in Entity \ Suspect
     => marker[j.item.entity] = j.app

\* How far the configuration is from the item.
ConfigKnown(j) ==
  /\ j.pc = "putNewConfig" => configs[j.app] = None
  /\ j.pc = "putRaw" => configs[j.app] = j.entity
  /\ j.pc \notin {"putNewConfig", "putRaw", "deleteConfig"} => Agree(j.app)

JobOK(h) ==
  /\ job[h].app = None <=> job[h].pc = "idle"
  /\ job[h].app # None =>
       /\ job[h].app \in created
       /\ EntityKnown(job[h]) /\ OnceHad(job[h])
       /\ job[h].app \notin mixed => ItemKnown(job[h]) /\ Reserved(job[h])
       /\ job[h].app \notin damaged \cup mixed => ConfigKnown(job[h])

\* The reservation of e is the business of request h.
Keeps(h, e) ==
  \/ job[h].pc \in {"putNew", "putConfig", "putRaw", "rollback"} /\ job[h].entity = e
  \/ /\ job[h].pc \in {"releaseOld", "deleteConfig", "releaseLast"}
     /\ job[h].item.entity = e

AppOK(a) ==
  /\ Known(a) => a \in created
  /\ a \in mixed => Known(a)
  /\ apps[a] # None /\ a \in deleted => a \in mixed
  /\ apps[a] # None /\ apps[a].entity \in Entity =>
       /\ apps[a].entity \in had[a]
       /\ apps[a].entity \in Suspect \/ marker[apps[a].entity] = a
  /\ ~Busy(a) /\ a \notin damaged \cup mixed => Agree(a)
  /\ \A e \in Entity : marker[e] = a /\ a \notin damaged \cup mixed =>
       \/ apps[a] # None /\ apps[a].entity = e
       \/ \E h \in Admin : job[h].app = a /\ Keeps(h, e)

\* Two requests about an application make it a mixed one.
OneJob == \A h, k \in Admin :
  job[h].app = job[k].app /\ job[h].app # None => h = k \/ job[h].app \in mixed

IInv ==
  /\ TypeOK
  /\ OneJob
  /\ \A h \in Admin : JobOK(h)
  /\ \A a \in App : AppOK(a)

-----------------------------------------------------------------------------
(* A step of one request *)

\* Nothing changes but request h, what belongs to application a, and the
\* reservations of suspect entityIDs, which may go.
Touches(h, a) ==
  /\ \A k \in Admin \ {h} : job'[k] = job[k]
  /\ had[a] \subseteq had'[a] /\ (a \in mixed => a \in mixed')
  /\ \A b \in App \ {a} :
       /\ apps'[b] = apps[b] /\ configs'[b] = configs[b] /\ had'[b] = had[b]
       /\ b \in created' <=> b \in created
       /\ b \in deleted' <=> b \in deleted
       /\ b \in damaged' <=> b \in damaged
       /\ b \in mixed' <=> b \in mixed
       /\ \A e \in Entity :
            /\ marker'[e] = b => marker[e] = b
            /\ marker[e] = b => marker'[e] = b \/ e \in Suspect'

\* No other request is about application a.
Alone(h, a) == \A k \in Admin \ {h} : job[k].app # a

\* A suspect entityID stays so.
LEMMA SuspectGrows ==
  ASSUME TypeOK, NEW h, NEW a \in App, Touches(h, a) PROVE Suspect \subseteq Suspect'
<1> SUFFICES ASSUME NEW e \in Suspect PROVE e \in Suspect'
  OBVIOUS
<1>1. PICK b \in mixed : e \in had[b]
  BY DEF Suspect
<1>2. b \in mixed' /\ e \in had'[b]
  BY <1>1 DEF Touches, TypeOK
<1> QED
  BY <1>2 DEF Suspect

\* What is known of the requests about other applications, and of those
\* applications, survives a step that touches a, and so does what is known of
\* another request about a if a is mixed.
LEMMA Frame ==
  ASSUME IInv, NEW h \in Admin, NEW a \in App, Touches(h, a),
         a \notin mixed' => Alone(h, a), a \in mixed' => Known(a),
         a \in created => a \in created',
         job[h].app \in {a, None}, job'[h].app \in {a, None},
         TypeOK', JobOK(h)', AppOK(a)'
  PROVE  IInv'
<1>0. Suspect \subseteq Suspect'
  BY SuspectGrows DEF IInv
<1>1. OneJob'
  <2> SUFFICES ASSUME NEW k \in Admin, NEW l \in Admin, job'[k].app = job'[l].app,
                      job'[k].app # None, k # l, job'[k].app \notin mixed'
               PROVE  FALSE
    BY DEF OneJob
  <2>1. CASE k # h /\ l # h
    <3>1. job'[k] = job[k] /\ job'[l] = job[l] /\ job[k].app \in App
      BY <2>1 DEF Touches, IInv, TypeOK, Job
    <3>2. job[k].app \notin mixed
      BY <3>1 DEF Touches
    <3> QED
      BY <3>1, <3>2 DEF IInv, OneJob
  <2>2. CASE k = h \/ l = h
    BY <2>2 DEF Touches, Alone
  <2> QED
    BY <2>1, <2>2
<1>2. ASSUME NEW k \in Admin PROVE JobOK(k)'
  <2>1. CASE k = h
    BY <2>1
  <2>2. CASE k # h /\ job[k].app = None
    BY <2>2 DEF IInv, JobOK, Touches
  <2>3. CASE k # h /\ job[k].app # None
    <3> DEFINE b == job[k].app
    <3>1. job'[k] = job[k] /\ JobOK(k) /\ job[k] \in Job /\ b \in App
      BY <2>3 DEF IInv, Touches, TypeOK, Job
    <3>2. CASE b = a
      <4>1. a \in mixed' /\ Known(a) /\ had[a] \subseteq had'[a] /\ a \in created'
        BY <2>3, <3>1, <3>2 DEF Alone, Touches, JobOK
      <4>2. EntityKnown(job[k])' /\ job[k].pc \notin {"reserve", "putNew"}
        BY <2>3, <3>1, <3>2, <4>1 DEF JobOK, EntityKnown, OnceHad, Known
      <4>3. OnceHad(job[k])'
        BY <2>3, <3>1, <3>2, <4>1, <4>2 DEF JobOK, OnceHad
      <4> QED
        BY <2>3, <3>1, <3>2, <4>1, <4>2, <4>3 DEF JobOK
    <3>3. CASE b # a
      <4>1. /\ apps'[b] = apps[b] /\ configs'[b] = configs[b] /\ had'[b] = had[b]
            /\ b \in created' <=> b \in created
            /\ b \in deleted' <=> b \in deleted
            /\ b \in damaged' <=> b \in damaged
            /\ b \in mixed' <=> b \in mixed
            /\ \A e \in Entity : marker[e] = b => marker'[e] = b \/ e \in Suspect'
        BY <3>1, <3>3 DEF Touches
      <4>2. EntityKnown(job[k])' /\ OnceHad(job[k])'
        BY <2>3, <3>1, <4>1 DEF JobOK, EntityKnown, OnceHad
      <4>3. b \notin mixed' => ItemKnown(job[k])'
        BY <2>3, <3>1, <4>1 DEF JobOK, ItemKnown, NewItem
      <4>4. b \notin mixed' => Reserved(job[k])'
        BY <1>0, <2>3, <3>1, <4>1 DEF JobOK, Reserved
      <4>5. b \notin damaged' \cup mixed' => ConfigKnown(job[k])'
        BY <2>3, <3>1, <4>1 DEF JobOK, ConfigKnown, Agree
      <4> QED
        BY <2>3, <3>1, <4>1, <4>2, <4>3, <4>4, <4>5 DEF JobOK
    <3> QED
      BY <3>2, <3>3
  <2> QED
    BY <2>1, <2>2, <2>3
<1>3. ASSUME NEW b \in App PROVE AppOK(b)'
  <2>1. CASE b = a
    BY <2>1
  <2>2. CASE b # a
    <3>1. /\ apps'[b] = apps[b] /\ configs'[b] = configs[b] /\ had'[b] = had[b]
          /\ b \in created' <=> b \in created
          /\ b \in deleted' <=> b \in deleted
          /\ b \in damaged' <=> b \in damaged
          /\ b \in mixed' <=> b \in mixed
          /\ \A e \in Entity : marker'[e] = b => marker[e] = b
          /\ \A e \in Entity : marker[e] = b => marker'[e] = b \/ e \in Suspect'
      BY <2>2 DEF Touches
    <3>2. AppOK(b) /\ b # None
      BY ConstantsAssumption DEF IInv
    <3>3. \A k \in Admin : job[k].app = b => job'[k] = job[k]
      BY <2>2, <3>2 DEF Touches
    <3>4. Busy(b) => Busy(b)'
      BY <3>3 DEF Busy
    <3>5. \A e \in Entity : (\E k \in Admin : job[k].app = b /\ Keeps(k, e))
                             => (\E k \in Admin : job[k].app = b /\ Keeps(k, e))'
      BY <3>3 DEF Keeps
    <3> QED
      BY <1>0, <3>1, <3>2, <3>4, <3>5 DEF AppOK, Agree, Known
  <2> QED
    BY <2>1, <2>2
<1> QED
  BY <1>1, <1>2, <1>3 DEF IInv

\* A request in flight and its application; no other is about it unless it is
\* mixed, and then it is no longer in the making.
LEMMA Own ==
  ASSUME IInv, NEW h \in Admin, job[h].pc # "idle"
  PROVE  /\ job[h] \in Job /\ job[h].app \in App /\ job[h].app # None
         /\ job[h].app \in created
         /\ JobOK(h) /\ AppOK(job[h].app)
         /\ job[h].app \notin mixed => Alone(h, job[h].app)
         /\ job[h].app \in mixed => Known(job[h].app) /\ had[job[h].app] \subseteq Suspect
<1>1. job[h] \in Job /\ JobOK(h)
  BY DEF IInv, TypeOK
<1>2. job[h].app # None /\ job[h].app \in App /\ job[h].app \in created
  BY <1>1 DEF JobOK, Job
<1>3. AppOK(job[h].app)
  BY <1>2 DEF IInv
<1>4. job[h].app \notin mixed => Alone(h, job[h].app)
  BY <1>2 DEF IInv, OneJob, Alone
<1>5. job[h].app \in mixed => Known(job[h].app) /\ had[job[h].app] \subseteq Suspect
  BY <1>3 DEF AppOK, Suspect
<1> QED
  BY <1>1, <1>2, <1>3, <1>4, <1>5

-----------------------------------------------------------------------------
(* The actions preserve the invariant. Each lemma shows that the action keeps *)
(* the types, touches its own application alone, and leaves behind a request  *)
(* and an application as the invariant describes them; Frame does the rest.  *)

LEMMA ReserveFirstOK ==
  ASSUME IInv, NEW h \in Admin, NEW a \in App, job[h].app = a, ReserveFirst(h)
  PROVE  IInv'
<1> USE ConstantsAssumption, NoneIsNoItem DEF items, started, Idle
<1>1. job[h].pc # "idle"
  BY DEF ReserveFirst
<1>2. /\ job[h] \in Job /\ a # None /\ a \in created
      /\ JobOK(h) /\ AppOK(a) /\ TypeOK
      /\ a \notin mixed => Alone(h, a)
      /\ a \in mixed => Known(a) /\ had[a] \subseteq Suspect
  BY <1>1, Own DEF IInv
<1>0. mixed' = mixed /\ created' = created
  BY DEF ReserveFirst
<1>3. \/ /\ marker[job[h].entity] = None
         /\ marker' = [marker EXCEPT ![job[h].entity] = a]
         /\ had' = [had EXCEPT ![a] = @ \cup ({job[h].entity} \cap Entity)]
         /\ job' = [job EXCEPT ![h].pc = "putNew"]
      \/ UNCHANGED <<marker, had>> /\ job' = [job EXCEPT ![h] = Idle]
  BY <1>2 DEF ReserveFirst, Reserve, Mark, Goto, Finish
<1>4. job[h].entity \in EntityID /\ UNCHANGED <<apps, configs, deleted, damaged>>
  BY <1>2 DEF ReserveFirst, JobOK, EntityKnown, RenamePC, EntityID
<1>5. /\ TypeOK' /\ job'[h].app \in {a, None}
      /\ job'[h].pc # "idle" => job'[h] = [job[h] EXCEPT !.pc = "putNew"]
  BY <1>0, <1>2, <1>3, <1>4 DEF TypeOK, Job, PC, CreatePC
<1>6. Touches(h, a)
  BY <1>0, <1>2, <1>3, <1>4 DEF Touches, TypeOK, EntityID
<1>7. Suspect \subseteq Suspect'
  BY <1>2, <1>6, SuspectGrows
<1>8. JobOK(h)'
  <2>1. CASE job'[h].app = None
    BY <1>2, <1>3, <2>1 DEF JobOK, TypeOK, Job
  <2>2. CASE job'[h].app # None
    <3>1. /\ marker[job[h].entity] = None
          /\ marker' = [marker EXCEPT ![job[h].entity] = a]
          /\ had' = [had EXCEPT ![a] = @ \cup ({job[h].entity} \cap Entity)]
          /\ job' = [job EXCEPT ![h].pc = "putNew"]
      BY <1>2, <1>3, <2>2 DEF TypeOK
    <3>2. job'[h] = [job[h] EXCEPT !.pc = "putNew"]
      BY <1>2, <3>1 DEF TypeOK
    <3>3. /\ job'[h].pc = "putNew" /\ job'[h].app = a /\ job'[h].entity = job[h].entity
          /\ marker'[job[h].entity] = a
          /\ job[h].entity \in Entity => job[h].entity \in had'[a]
      BY <1>2, <1>4, <3>1, <3>2 DEF TypeOK, Job
    <3>4. /\ apps[a] = None /\ a \notin deleted
          /\ a \notin damaged \cup mixed => Agree(a)
      BY <1>2 DEF ReserveFirst, JobOK, OnceHad, ConfigKnown
    <3> QED
      BY <1>0, <1>2, <1>4, <3>3, <3>4 DEF JobOK, EntityKnown, OnceHad, ItemKnown, Reserved,
         ConfigKnown, Agree, UpdatePC, RenamePC
  <2> QED
    BY <2>1, <2>2
<1>9. AppOK(a)'
  <2>1. \A e \in Entity : marker'[e] = a =>
          \/ marker[e] = a
          \/ job'[h].app = a /\ Keeps(h, e)'
    BY <1>2, <1>3, <1>4 DEF TypeOK, Keeps, Job, EntityID
  <2>2. \A e \in Entity : marker[e] = a => marker'[e] = a
    BY <1>2, <1>3, <1>4 DEF TypeOK, EntityID
  <2>3. /\ a \in mixed => Known(a)'
        /\ Known(a)' => a \in created'
        /\ apps'[a] # None /\ a \in deleted' => a \in mixed'
        /\ had[a] \subseteq had'[a]
    BY <1>0, <1>2, <1>4, <1>6 DEF AppOK, Known, Touches
  <2>4. a \notin damaged' \cup mixed' => Agree(a)'
    BY <1>0, <1>2, <1>4 DEF ReserveFirst, JobOK, ConfigKnown, Agree
  <2>5. ASSUME NEW e \in Entity, marker'[e] = a, a \notin damaged' \cup mixed'
        PROVE  \/ apps'[a] # None /\ apps'[a].entity = e
               \/ \E k \in Admin : job'[k].app = a /\ Keeps(k, e)'
    <3>1. CASE marker[e] = a
      <4>1. \A k \in Admin : ~(job[k].app = a /\ Keeps(k, e))
        BY <1>0, <1>2, <2>5 DEF Alone, Keeps, ReserveFirst
      <4> QED
        BY <1>0, <1>2, <1>4, <2>5, <3>1, <4>1 DEF AppOK
    <3>2. CASE marker[e] # a
      BY <2>1, <2>5, <3>2
    <3> QED
      BY <3>1, <3>2
  <2> QED
    BY <1>0, <1>2, <1>4, <1>7, <2>2, <2>3, <2>4, <2>5 DEF AppOK
<1> QED
  BY <1>0, <1>2, <1>5, <1>6, <1>8, <1>9, Frame

LEMMA PutNewOK ==
  ASSUME IInv, NEW h \in Admin, NEW a \in App, job[h].app = a, PutNew(h)
  PROVE  IInv'
<1> USE ConstantsAssumption, NoneIsNoItem DEF items, started, Idle
<1>1. job[h].pc # "idle"
  BY DEF PutNew
<1>2. /\ job[h] \in Job /\ a # None /\ a \in created
      /\ JobOK(h) /\ AppOK(a) /\ TypeOK
      /\ a \notin mixed => Alone(h, a)
      /\ a \in mixed => Known(a) /\ had[a] \subseteq Suspect
  BY <1>1, Own DEF IInv
<1>7. a \notin mixed /\ Alone(h, a)
  BY <1>2 DEF PutNew, JobOK, OnceHad, Known
<1>0. mixed' = mixed /\ created' = created /\ had' = had /\ Suspect' = Suspect
  BY DEF PutNew, Suspect
<1>3. TypeOK' /\ job'[h].app \in {a, None}
  BY <1>2 DEF PutNew, NewItem, Goto, Finish, TypeOK, Job, AppItem, EntityID, Status, PC,
     CreatePC
<1>4. Touches(h, a)
  BY <1>0, <1>2 DEF PutNew, Goto, Finish, Touches, TypeOK
<1>5. JobOK(h)'
  BY <1>0, <1>2, <1>3 DEF PutNew, Goto, Finish, TypeOK, Job, JobOK, OnceHad, EntityKnown, ItemKnown,
     Reserved, ConfigKnown, Agree, UpdatePC, RenamePC
<1>6. AppOK(a)'
  <2>1. CASE apps' = apps
    <3>1. UNCHANGED <<apps, configs, marker, created, deleted, damaged>>
      BY <2>1 DEF PutNew
    <3>2. a \notin damaged => Agree(a)
      BY <1>2, <1>7 DEF PutNew, JobOK, OnceHad, ConfigKnown
    <3>3. \A e \in Entity : Keeps(h, e) => Keeps(h, e)' /\ job'[h].app = a
      <4>1. NewItem(job[h].entity) # apps[a]
        BY <1>2 DEF PutNew, NewItem, JobOK, OnceHad, ItemKnown, Job, AppItem, EntityID, Status
      <4>2. apps' # [apps EXCEPT ![a] = NewItem(job[h].entity)]
        BY <1>2, <2>1, <4>1 DEF TypeOK
      <4>3. job[h].entity # None => job' = [job EXCEPT ![h].pc = "rollback"]
        BY <4>2 DEF PutNew, Goto
      <4>4. job[h].entity # None => job'[h] = [job[h] EXCEPT !.pc = "rollback"]
        BY <1>2, <4>3 DEF TypeOK
      <4> QED
        BY <1>2, <4>4 DEF PutNew, Keeps, Job
    <3> QED
      BY <1>0, <1>2, <1>7, <3>1, <3>2, <3>3 DEF AppOK, Known, Agree, Alone
  <2>2. CASE apps' = [apps EXCEPT ![a] = NewItem(job[h].entity)]
    <3>1. apps'[a] = NewItem(job[h].entity) /\ apps'[a] \in AppItem
      BY <1>2, <2>2 DEF TypeOK, NewItem, Job, AppItem, EntityID, Status
    <3>2. job[h].entity # None => apps'[a].entity = job[h].entity
      BY <3>1 DEF NewItem
    <3>3. apps'[a].entity \in Entity =>
            /\ apps'[a].entity \in had[a]
            /\ apps'[a].entity \in Suspect \/ marker[apps'[a].entity] = a
      BY <1>2, <1>7, <3>1 DEF NewItem, PutNew, JobOK, OnceHad, Reserved
    <3>4. a \notin damaged => configs[a] = None
      BY <1>2, <1>7 DEF PutNew, JobOK, OnceHad, ConfigKnown, Agree
    <3>5. ~Busy(a)' => job[h].entity = None
      <4>1. job[h].entity # None => job'[h].app = a
        BY <1>2 DEF PutNew, Goto, TypeOK, Job
      <4> QED
        BY <4>1 DEF Busy
    <3>6. \A e \in Entity : marker[e] = a /\ a \notin damaged => apps'[a].entity = e
      BY <1>2, <1>7, <3>2 DEF PutNew, JobOK, OnceHad, ItemKnown, AppOK, Known, Keeps, Alone
    <3> QED
      BY <1>0, <1>2, <1>7, <3>1, <3>3, <3>4, <3>5, <3>6 DEF PutNew, NewItem, AppOK, Known,
         JobOK, OnceHad, ItemKnown, Agree, AppItem
  <2> QED
    BY <2>1, <2>2 DEF PutNew
<1> QED
  BY <1>0, <1>2, <1>3, <1>4, <1>5, <1>6, Frame

LEMMA RollbackOK ==
  ASSUME IInv, NEW h \in Admin, NEW a \in App, job[h].app = a, Rollback(h)
  PROVE  IInv'
<1> USE ConstantsAssumption, NoneIsNoItem DEF items, started, Idle
<1>1. job[h].pc # "idle"
  BY DEF Rollback
<1>2. /\ job[h] \in Job /\ a # None /\ a \in created
      /\ JobOK(h) /\ AppOK(a) /\ TypeOK
      /\ a \notin mixed => Alone(h, a)
      /\ a \in mixed => Known(a) /\ had[a] \subseteq Suspect
  BY <1>1, Own DEF IInv
<1>0. mixed' = mixed /\ created' = created /\ had' = had /\ Suspect' = Suspect
  BY DEF Rollback, Suspect
<1>3. TypeOK' /\ job'[h].app \in {a, None}
  BY <1>2 DEF Rollback, Release, Finish, Damage, TypeOK, Job, EntityID, PC, JobOK, OnceHad, EntityKnown
<1>4. Touches(h, a)
  BY <1>0, <1>2 DEF Rollback, Release, Finish, Damage, Touches, TypeOK,
     JobOK, OnceHad, Reserved, EntityID, AppItem
<1>5. JobOK(h)'
  BY <1>0, <1>2, <1>3 DEF Rollback, Release, Finish, Damage, TypeOK, JobOK, OnceHad, EntityKnown,
     ItemKnown, Reserved, RenamePC
<1>6. AppOK(a)'
  BY <1>0, <1>2, <1>3, <1>5 DEF Rollback, Release, Damage, TypeOK, EntityID, JobOK, OnceHad, Reserved,
     ConfigKnown, Agree, AppOK, Known, Keeps, Alone
<1> QED
  BY <1>0, <1>2, <1>3, <1>4, <1>5, <1>6, Frame

LEMMA PutNewConfigOK ==
  ASSUME IInv, NEW h \in Admin, NEW a \in App, job[h].app = a, PutNewConfig(h)
  PROVE  IInv'
<1> USE ConstantsAssumption, NoneIsNoItem DEF items, started, Idle
<1>1. job[h].pc # "idle"
  BY DEF PutNewConfig
<1>2. /\ job[h] \in Job /\ a # None /\ a \in created
      /\ JobOK(h) /\ AppOK(a) /\ TypeOK
      /\ a \notin mixed => Alone(h, a)
      /\ a \in mixed => Known(a) /\ had[a] \subseteq Suspect
  BY <1>1, Own DEF IInv
<1>0. mixed' = mixed /\ created' = created /\ had' = had /\ Suspect' = Suspect
  BY DEF PutNewConfig, Suspect
<1>3. TypeOK' /\ job'[h].app \in {a, None}
  BY <1>2 DEF PutNewConfig, Finish, Damage, TypeOK, Job, Status, PC
<1>4. Touches(h, a)
  BY <1>0, <1>2 DEF PutNewConfig, Finish, Damage, Touches, TypeOK
<1>5. JobOK(h)'
  BY <1>0, <1>2, <1>3 DEF PutNewConfig, Finish, Damage, TypeOK, JobOK, OnceHad, EntityKnown, ItemKnown,
     Reserved, RenamePC
<1>6. AppOK(a)'
  <2>0. /\ UNCHANGED <<apps, marker, deleted>>
        /\ a \in damaged => a \in damaged'
        /\ Known(a)' <=> Known(a)
    BY DEF PutNewConfig, Damage, Known
  <2>1. CASE a \in mixed
    BY <1>0, <1>2, <2>0, <2>1 DEF AppOK
  <2>2. CASE a \notin mixed
    <3>1. apps[a] = NewItem(job[h].entity) /\ job[h].entity \in EntityID
      BY <1>2, <2>2 DEF PutNewConfig, JobOK, EntityKnown, ItemKnown
    <3>2. apps[a] # None /\ apps[a].entity = job[h].entity
      BY <3>1 DEF NewItem, AppItem, EntityID, Status
    <3>3. a \notin damaged' => configs'[a] = job[h].entity
      BY <1>2 DEF PutNewConfig, Damage, TypeOK
    <3>4. \A e \in Entity : marker[e] = a /\ a \notin damaged => apps[a].entity = e
      BY <1>2, <2>2, <3>2 DEF PutNewConfig, AppOK, Keeps, Alone
    <3> QED
      BY <1>0, <1>2, <2>0, <2>2, <3>2, <3>3, <3>4 DEF AppOK, Agree
  <2> QED
    BY <2>1, <2>2
<1> QED
  BY <1>0, <1>2, <1>3, <1>4, <1>5, <1>6, Frame

LEMMA GetAppOK ==
  ASSUME IInv, NEW h \in Admin, NEW a \in App, job[h].app = a, GetApp(h)
  PROVE  IInv'
<1> USE ConstantsAssumption, NoneIsNoItem DEF items, started, Idle
<1>1. job[h].pc # "idle"
  BY DEF GetApp
<1>2. /\ job[h] \in Job /\ a # None /\ a \in created
      /\ JobOK(h) /\ AppOK(a) /\ TypeOK
      /\ a \notin mixed => Alone(h, a)
      /\ a \in mixed => Known(a) /\ had[a] \subseteq Suspect
  BY <1>1, Own DEF IInv
<1>0. mixed' = mixed /\ created' = created /\ had' = had /\ Suspect' = Suspect
  BY DEF GetApp, Suspect
<1>3. TypeOK' /\ job'[h].app \in {a, None}
  BY <1>2 DEF GetApp, Missing, Finish, TypeOK, Job, PC, UpdatePC
<1>4. Touches(h, a)
  BY <1>0, <1>2 DEF GetApp, Missing, Finish, Touches, TypeOK
<1>5. JobOK(h)'
  <2>1. CASE Missing(h)
    BY <1>2, <2>1 DEF Missing, Finish, TypeOK, JobOK
  <2>2. CASE ~Missing(h)
    <3> DEFINE status == IF job[h].status = None THEN apps[a].status ELSE job[h].status
               item == [apps[a] EXCEPT !.status = status]
    <3>1. /\ job' = [job EXCEPT ![h].pc = "getKeys", ![h].item = item]
          /\ apps[a] \in AppItem /\ job[h].pc = "getApp"
          /\ UNCHANGED <<apps, configs, marker, deleted, damaged>>
      BY <1>2, <2>2 DEF GetApp, TypeOK
    <3>2. /\ item \in AppItem /\ item.entity = apps[a].entity
          /\ item.status \in {apps[a].status, job[h].status}
      BY <1>2, <3>1 DEF AppItem, Job
    <3> HIDE DEF item
    <3>3. /\ job'[h].pc = "getKeys" /\ job'[h].app = a /\ job'[h].item = item
          /\ job'[h].entity = job[h].entity /\ job'[h].status = job[h].status
      BY <1>2, <3>1 DEF TypeOK, Job
    <3>4. item.entity \in had[a] \cup {Blank}
      BY <1>2, <3>1, <3>2 DEF AppOK, AppItem, EntityID
    <3> QED
      BY <1>0, <1>2, <3>1, <3>2, <3>3, <3>4 DEF JobOK, EntityKnown, OnceHad, ItemKnown, Reserved,
         ConfigKnown, Agree, UpdatePC, RenamePC
  <2> QED
    BY <2>1, <2>2
<1>6. AppOK(a)'
  BY <1>0, <1>2, <1>3, <1>5 DEF GetApp, JobOK, OnceHad, ConfigKnown, Agree, AppOK, Known, Keeps, Alone
<1> QED
  BY <1>0, <1>2, <1>3, <1>4, <1>5, <1>6, Frame

LEMMA GetKeysOK ==
  ASSUME IInv, NEW h \in Admin, NEW a \in App, job[h].app = a, GetKeys(h)
  PROVE  IInv'
<1> USE ConstantsAssumption, NoneIsNoItem DEF items, started, Idle
<1>1. job[h].pc # "idle"
  BY DEF GetKeys
<1>2. /\ job[h] \in Job /\ a # None /\ a \in created
      /\ JobOK(h) /\ AppOK(a) /\ TypeOK
      /\ a \notin mixed => Alone(h, a)
      /\ a \in mixed => Known(a) /\ had[a] \subseteq Suspect
  BY <1>1, Own DEF IInv
<1>0. mixed' = mixed /\ created' = created /\ had' = had /\ Suspect' = Suspect
  BY DEF GetKeys, Suspect
<1>3. /\ job[h].pc = "getKeys" /\ job[h].item \in AppItem
      /\ UNCHANGED <<apps, configs, marker, deleted, damaged>>
      /\ apps[a] # None => apps[a] \in AppItem
  BY <1>2 DEF GetKeys, JobOK, OnceHad, TypeOK
<1>4. \/ job' = [job EXCEPT ![h] = Idle]
      \/ /\ job' = [job EXCEPT ![h].pc = "putApp", ![h].item.entity = apps[a].entity]
         /\ apps[a] \in AppItem
  BY <1>2, <1>3 DEF GetKeys, Missing, Finish
<1> DEFINE item == [job[h].item EXCEPT !.entity = apps[a].entity]
<1>5. /\ job'[h] # Idle => /\ job'[h] = [job[h] EXCEPT !.pc = "putApp", !.item = item]
                           /\ apps[a] \in AppItem
      /\ \A k \in Admin \ {h} : job'[k] = job[k]
  BY <1>2, <1>4 DEF TypeOK, Job
<1>6. apps[a] \in AppItem => /\ item \in AppItem /\ item.entity = apps[a].entity
                             /\ item.status = job[h].item.status
  BY <1>3 DEF AppItem
<1> HIDE DEF item
<1>7. job'[h] # Idle => /\ job'[h].pc = "putApp" /\ job'[h].app = a /\ job'[h].item = item
                        /\ job'[h].entity = job[h].entity /\ job'[h].status = job[h].status
                        /\ job'[h] \in Job
  BY <1>2, <1>5, <1>6 DEF Job, PC, UpdatePC
<1>8. job' \in [Admin -> Job]
  <2>1. Idle \in Job
    BY DEF Job, PC
  <2> QED
    BY <1>2, <1>4, <1>5, <1>7, <2>1 DEF TypeOK
<1>9. TypeOK' /\ job'[h].app \in {a, None}
  BY <1>0, <1>2, <1>3, <1>7, <1>8 DEF TypeOK
<1>10. Touches(h, a)
  BY <1>0, <1>2, <1>3, <1>5 DEF Touches, TypeOK
<1>11. JobOK(h)'
  <2>1. CASE job'[h] = Idle
    BY <1>2, <2>1 DEF JobOK
  <2>2. CASE job'[h] # Idle
    <3>1. item.entity \in had[a] \cup {Blank}
      BY <1>2, <1>5, <1>6, <2>2 DEF AppOK, AppItem, EntityID
    <3> QED
      BY <1>0, <1>2, <1>3, <1>5, <1>6, <1>7, <2>2, <3>1 DEF JobOK, EntityKnown, OnceHad, ItemKnown,
         Reserved, ConfigKnown, Agree, UpdatePC, RenamePC
  <2> QED
    BY <2>1, <2>2
<1>12. AppOK(a)'
  <2>1. a \notin damaged \cup mixed => Agree(a)
    BY <1>2, <1>3 DEF JobOK, ConfigKnown
  <2>2. \A e \in Entity : ~Keeps(h, e)
    BY <1>3 DEF Keeps
  <2> QED
    BY <1>0, <1>2, <1>3, <2>1, <2>2 DEF AppOK, Known, Agree, Alone
<1> QED
  BY <1>0, <1>2, <1>9, <1>10, <1>11, <1>12, Frame

LEMMA PutAppOK ==
  ASSUME IInv, NEW h \in Admin, NEW a \in App, job[h].app = a, PutApp(h)
  PROVE  IInv'
<1> USE ConstantsAssumption, NoneIsNoItem DEF items, started, Idle
<1>1. job[h].pc # "idle"
  BY DEF PutApp
<1>2. /\ job[h] \in Job /\ a # None /\ a \in created
      /\ JobOK(h) /\ AppOK(a) /\ TypeOK
      /\ a \notin mixed => Alone(h, a)
      /\ a \in mixed => Known(a) /\ had[a] \subseteq Suspect
  BY <1>1, Own DEF IInv
<1>0. mixed' = mixed /\ created' = created /\ had' = had /\ Suspect' = Suspect
  BY DEF PutApp, Suspect
<1>3. TypeOK' /\ job'[h].app \in {a, None}
  BY <1>2 DEF PutApp, Finish, Goto, TypeOK, Job, PC, RenamePC
<1>4. Touches(h, a)
  BY <1>0, <1>2 DEF PutApp, Finish, Goto, Touches, TypeOK
<1>5. JobOK(h)'
  BY <1>0, <1>2, <1>3 DEF PutApp, Finish, Goto, TypeOK, Job, JobOK, OnceHad, EntityKnown, ItemKnown,
     Reserved, ConfigKnown, Agree, UpdatePC, RenamePC
<1>6. AppOK(a)'
  <2>1. /\ job[h].pc = "putApp" /\ job[h].item \in AppItem
        /\ job[h].item.entity \in had[a] \cup {Blank} /\ UNCHANGED <<configs, marker, deleted, damaged>>
        /\ apps'[a] = job[h].item \/ apps'[a] = apps[a]
    BY <1>2 DEF PutApp, JobOK, OnceHad, TypeOK
  <2>2. Entity \subseteq EntityID /\ Blank \notin Entity
    BY DEF EntityID
  <2>3. CASE a \in mixed
    BY <1>0, <1>2, <2>1, <2>2, <2>3 DEF AppOK, Known
  <2>4. CASE a \notin mixed
    <3>1. apps[a] # None /\ apps'[a] # None /\ apps'[a].entity = apps[a].entity
      BY <1>2, <2>1, <2>4 DEF JobOK, ItemKnown
    <3>2. a \notin damaged => Agree(a)
      BY <1>2, <2>1, <2>4 DEF JobOK, ConfigKnown
    <3>3. \A e \in Entity : ~Keeps(h, e)
      BY <2>1 DEF Keeps
    <3> QED
      BY <1>0, <1>2, <2>1, <2>4, <3>1, <3>2, <3>3 DEF AppOK, Known, Agree, Alone
  <2> QED
    BY <2>3, <2>4
<1> QED
  BY <1>0, <1>2, <1>3, <1>4, <1>5, <1>6, Frame

LEMMA GetOldOK ==
  ASSUME IInv, NEW h \in Admin, NEW a \in App, job[h].app = a, GetOld(h)
  PROVE  IInv'
<1> USE ConstantsAssumption, NoneIsNoItem DEF items, started, Idle
<1>1. job[h].pc # "idle"
  BY DEF GetOld
<1>2. /\ job[h] \in Job /\ a # None /\ a \in created
      /\ JobOK(h) /\ AppOK(a) /\ TypeOK
      /\ a \notin mixed => Alone(h, a)
      /\ a \in mixed => Known(a) /\ had[a] \subseteq Suspect
  BY <1>1, Own DEF IInv
<1>0. mixed' = mixed /\ created' = created /\ had' = had /\ Suspect' = Suspect
  BY DEF GetOld, Suspect
<1>3. TypeOK' /\ job'[h].app \in {a, None}
  BY <1>2 DEF GetOld, Missing, Finish, TypeOK, Job, PC
<1>4. Touches(h, a)
  BY <1>0, <1>2 DEF GetOld, Missing, Finish, Touches, TypeOK
<1>5. JobOK(h)'
  BY <1>0, <1>2, <1>3 DEF GetOld, Missing, Finish, TypeOK, Job, JobOK, OnceHad, EntityKnown, ItemKnown,
     Reserved, RenamePC
<1>6. AppOK(a)'
  BY <1>0, <1>2, <1>3, <1>5 DEF GetOld, JobOK, OnceHad, ConfigKnown, Agree, AppOK, Known, Keeps, Alone
<1> QED
  BY <1>0, <1>2, <1>3, <1>4, <1>5, <1>6, Frame

LEMMA ReserveNewOK ==
  ASSUME IInv, NEW h \in Admin, NEW a \in App, job[h].app = a, ReserveNew(h)
  PROVE  IInv'
<1> USE ConstantsAssumption, NoneIsNoItem DEF items, started, Idle
<1>1. job[h].pc # "idle"
  BY DEF ReserveNew
<1>2. /\ job[h] \in Job /\ a # None /\ a \in created
      /\ JobOK(h) /\ AppOK(a) /\ TypeOK
      /\ a \notin mixed => Alone(h, a)
      /\ a \in mixed => Known(a) /\ had[a] \subseteq Suspect
  BY <1>1, Own DEF IInv
<1>0. mixed' = mixed /\ created' = created
  BY DEF ReserveNew
<1>3. \/ /\ marker[job[h].entity] = None
         /\ marker' = [marker EXCEPT ![job[h].entity] = a]
         /\ had' = [had EXCEPT ![a] = @ \cup ({job[h].entity} \cap Entity)]
         /\ job' = [job EXCEPT ![h].pc = "putConfig"]
      \/ UNCHANGED <<marker, had>> /\ job' = [job EXCEPT ![h] = Idle]
  BY <1>2 DEF ReserveNew, Reserve, Mark, Goto, Finish
<1>4. job[h].entity \in EntityID /\ UNCHANGED <<apps, configs, deleted, damaged>>
  BY <1>2 DEF ReserveNew, JobOK, EntityKnown, RenamePC, EntityID
<1>5. /\ TypeOK' /\ job'[h].app \in {a, None}
      /\ job'[h].pc # "idle" => job'[h] = [job[h] EXCEPT !.pc = "putConfig"]
  BY <1>0, <1>2, <1>3, <1>4 DEF TypeOK, Job, PC, RenamePC, DeletePC
<1>6. Touches(h, a)
  BY <1>0, <1>2, <1>3, <1>4 DEF Touches, TypeOK, EntityID
<1>7. Suspect \subseteq Suspect'
  BY <1>2, <1>6, SuspectGrows
<1>8. JobOK(h)'
  <2>1. CASE job'[h].app = None
    BY <1>2, <1>3, <2>1 DEF JobOK, TypeOK, Job
  <2>2. CASE job'[h].app # None
    <3>1. /\ marker[job[h].entity] = None
          /\ marker' = [marker EXCEPT ![job[h].entity] = a]
          /\ had' = [had EXCEPT ![a] = @ \cup ({job[h].entity} \cap Entity)]
          /\ job' = [job EXCEPT ![h].pc = "putConfig"]
      BY <1>2, <1>3, <2>2 DEF TypeOK
    <3>2. job'[h] = [job[h] EXCEPT !.pc = "putConfig"]
      BY <1>2, <3>1 DEF TypeOK
    <3>3. /\ job'[h].pc = "putConfig" /\ job'[h].app = a /\ job'[h].entity = job[h].entity
          /\ job'[h].item = job[h].item /\ marker'[job[h].entity] = a
          /\ had[a] \subseteq had'[a]
          /\ job[h].entity \in Entity => job[h].entity \in had'[a]
      BY <1>2, <1>4, <3>1, <3>2 DEF TypeOK, Job
    <3>4. /\ job[h].entity \in Entity /\ job[h].item \in AppItem
          /\ job[h].item.entity \in had[a] \cup {Blank}
          /\ a \notin mixed => apps[a] = job[h].item
          /\ a \notin damaged \cup mixed => Agree(a)
      BY <1>2 DEF ReserveNew, JobOK, EntityKnown, OnceHad, ItemKnown, ConfigKnown, RenamePC
    <3> QED
      BY <1>0, <1>2, <1>4, <3>3, <3>4 DEF JobOK, EntityKnown, OnceHad, ItemKnown, Reserved,
         ConfigKnown, Agree, UpdatePC, RenamePC
  <2> QED
    BY <2>1, <2>2
<1>9. AppOK(a)'
  <2>1. \A e \in Entity : marker'[e] = a =>
          \/ marker[e] = a
          \/ job'[h].app = a /\ Keeps(h, e)'
    BY <1>2, <1>3, <1>4 DEF TypeOK, Keeps, Job, EntityID
  <2>2. \A e \in Entity : marker[e] = a => marker'[e] = a
    BY <1>2, <1>3, <1>4 DEF TypeOK, EntityID
  <2>3. /\ a \in mixed => Known(a)'
        /\ Known(a)' => a \in created'
        /\ apps'[a] # None /\ a \in deleted' => a \in mixed'
        /\ had[a] \subseteq had'[a]
    BY <1>0, <1>2, <1>4, <1>6 DEF AppOK, Known, Touches
  <2>4. a \notin damaged' \cup mixed' => Agree(a)'
    BY <1>0, <1>2, <1>4 DEF ReserveNew, JobOK, ConfigKnown, Agree
  <2>5. ASSUME NEW e \in Entity, marker'[e] = a, a \notin damaged' \cup mixed'
        PROVE  \/ apps'[a] # None /\ apps'[a].entity = e
               \/ \E k \in Admin : job'[k].app = a /\ Keeps(k, e)'
    <3>1. CASE marker[e] = a
      <4>1. \A k \in Admin : ~(job[k].app = a /\ Keeps(k, e))
        BY <1>0, <1>2, <2>5 DEF Alone, Keeps, ReserveNew
      <4> QED
        BY <1>0, <1>2, <1>4, <2>5, <3>1, <4>1 DEF AppOK
    <3>2. CASE marker[e] # a
      BY <2>1, <2>5, <3>2
    <3> QED
      BY <3>1, <3>2
  <2> QED
    BY <1>0, <1>2, <1>4, <1>7, <2>2, <2>3, <2>4, <2>5 DEF AppOK
<1> QED
  BY <1>0, <1>2, <1>5, <1>6, <1>8, <1>9, Frame

LEMMA PutConfigOK ==
  ASSUME IInv, NEW h \in Admin, NEW a \in App, job[h].app = a, PutConfig(h)
  PROVE  IInv'
<1> USE ConstantsAssumption, NoneIsNoItem DEF items, started, Idle
<1>1. job[h].pc # "idle"
  BY DEF PutConfig
<1>2. /\ job[h] \in Job /\ a # None /\ a \in created
      /\ JobOK(h) /\ AppOK(a) /\ TypeOK
      /\ a \notin mixed => Alone(h, a)
      /\ a \in mixed => Known(a) /\ had[a] \subseteq Suspect
  BY <1>1, Own DEF IInv
<1>0. mixed' = mixed /\ created' = created /\ had' = had /\ Suspect' = Suspect
  BY DEF PutConfig, Suspect
<1>3. TypeOK' /\ job'[h].app \in {a, None}
  BY <1>2 DEF PutConfig, Goto, Finish, TypeOK, Job, PC, RenamePC
<1>4. Touches(h, a)
  BY <1>0, <1>2 DEF PutConfig, Goto, Finish, Touches, TypeOK
<1>5. JobOK(h)'
  BY <1>0, <1>2, <1>3 DEF PutConfig, Goto, Finish, TypeOK, Job, JobOK, OnceHad, EntityKnown, ItemKnown,
     Reserved, ConfigKnown, Agree, RenamePC
<1>6. AppOK(a)'
  BY <1>0, <1>2, <1>3, <1>5 DEF PutConfig, Goto, TypeOK, Job, JobOK, OnceHad, ItemKnown, ConfigKnown,
     Agree, AppOK, Known, Busy, Keeps, Alone
<1> QED
  BY <1>0, <1>2, <1>3, <1>4, <1>5, <1>6, Frame

LEMMA PutRawOK ==
  ASSUME IInv, NEW h \in Admin, NEW a \in App, job[h].app = a, PutRaw(h)
  PROVE  IInv'
<1> USE ConstantsAssumption, NoneIsNoItem DEF items, started, Idle
<1>1. job[h].pc # "idle"
  BY DEF PutRaw
<1>2. /\ job[h] \in Job /\ a # None /\ a \in created
      /\ JobOK(h) /\ AppOK(a) /\ TypeOK
      /\ a \notin mixed => Alone(h, a)
      /\ a \in mixed => Known(a) /\ had[a] \subseteq Suspect
  BY <1>1, Own DEF IInv
<1>0. mixed' = mixed /\ created' = created /\ had' = had /\ Suspect' = Suspect
  BY DEF PutRaw, Suspect
<1> DEFINE e == job[h].entity  old == job[h].item.entity
           item == [job[h].item EXCEPT !.entity = e]
<1>3. /\ job[h].pc = "putRaw" /\ job[h].item \in AppItem /\ e \in Entity /\ e \in had[a]
      /\ old \in had[a] \cup {Blank}
      /\ a \notin mixed => apps[a] = job[h].item /\ (e \in Suspect \/ marker[e] = a)
      /\ a \notin damaged \cup mixed => configs[a] = e
  BY <1>2 DEF PutRaw, JobOK, EntityKnown, OnceHad, ItemKnown, Reserved, ConfigKnown, RenamePC
<1>4. item \in AppItem /\ item.entity = e /\ item # None
  BY <1>3 DEF AppItem, EntityID
<1>5. \/ /\ apps' = [apps EXCEPT ![a] = item] /\ damaged' = damaged
         /\ old \notin {Blank, e} /\ job' = [job EXCEPT ![h].pc = "releaseOld"]
      \/ /\ apps' = [apps EXCEPT ![a] = item] /\ damaged' = damaged
         /\ old \in {Blank, e} /\ job' = [job EXCEPT ![h] = Idle]
      \/ apps' = apps /\ damaged' = damaged \cup {a} /\ job' = [job EXCEPT ![h] = Idle]
  BY <1>2 DEF PutRaw, Goto, Finish, Damage
<1>6. UNCHANGED <<configs, marker, deleted>>
  BY DEF PutRaw
<1> HIDE DEF item
<1>7. TypeOK' /\ job'[h].app \in {a, None}
  BY <1>0, <1>2, <1>4, <1>5, <1>6 DEF TypeOK, Job, PC, RenamePC
<1>8. Touches(h, a)
  BY <1>0, <1>2, <1>5, <1>6 DEF Touches, TypeOK
<1>9. JobOK(h)'
  <2>1. CASE job'[h].app = None
    BY <1>2, <1>5, <2>1 DEF JobOK, TypeOK, Job
  <2>2. CASE job'[h].app # None
    <3>1. /\ job' = [job EXCEPT ![h].pc = "releaseOld"] /\ apps'[a] = item
          /\ old \notin {Blank, e} /\ damaged' = damaged
      BY <1>2, <1>5, <2>2 DEF TypeOK
    <3>2. /\ job'[h].pc = "releaseOld" /\ job'[h].app = a /\ job'[h].item = job[h].item
          /\ job'[h].entity = e
      BY <1>2, <3>1 DEF TypeOK, Job
    <3>3. old \in Entity /\ (a \notin mixed /\ old \notin Suspect => marker[old] = a)
      BY <1>2, <1>3, <3>1 DEF AppItem, EntityID, AppOK
    <3> QED
      BY <1>0, <1>2, <1>3, <1>4, <1>6, <3>1, <3>2, <3>3 DEF JobOK, EntityKnown, OnceHad, ItemKnown,
         Reserved, ConfigKnown, Agree, UpdatePC, RenamePC
  <2> QED
    BY <2>1, <2>2
<1>10. AppOK(a)'
  <2>1. apps'[a] = apps[a] \/ apps'[a] = item
    BY <1>2, <1>5 DEF TypeOK
  <2>2. CASE a \in mixed
    BY <1>0, <1>2, <1>3, <1>4, <1>6, <2>1, <2>2 DEF AppOK, Known
  <2>3. CASE a \notin mixed /\ a \in damaged'
    BY <1>0, <1>2, <1>3, <1>4, <1>6, <2>1, <2>3 DEF AppOK, Known
  <2>4. CASE a \notin mixed /\ a \notin damaged'
    <3>1. apps'[a] = item /\ a \notin damaged
      BY <1>2, <1>5, <2>4 DEF TypeOK
    <3>2. ASSUME NEW f \in Entity, marker[f] = a, f # e
          PROVE  job'[h].app = a /\ Keeps(h, f)'
      <4>1. f = old
        BY <1>2, <1>3, <2>4, <3>1, <3>2 DEF AppOK, Keeps, Alone
      <4>2. job' = [job EXCEPT ![h].pc = "releaseOld"]
        BY <1>5, <2>4, <3>2, <4>1, ConstantsAssumption
      <4>3. /\ job'[h].pc = "releaseOld" /\ job'[h].app = a /\ job'[h].item = job[h].item
        BY <1>2, <4>2 DEF TypeOK, Job
      <4> QED
        BY <4>1, <4>3 DEF Keeps
    <3> QED
      BY <1>0, <1>2, <1>3, <1>4, <1>6, <2>4, <3>1, <3>2 DEF AppOK, Known, Agree
  <2> QED
    BY <2>2, <2>3, <2>4
<1> QED
  BY <1>0, <1>2, <1>7, <1>8, <1>9, <1>10, Frame

LEMMA ReleaseOldOK ==
  ASSUME IInv, NEW h \in Admin, NEW a \in App, job[h].app = a, ReleaseOld(h)
  PROVE  IInv'
<1> USE ConstantsAssumption, NoneIsNoItem DEF items, started, Idle
<1>1. job[h].pc # "idle"
  BY DEF ReleaseOld
<1>2. /\ job[h] \in Job /\ a # None /\ a \in created
      /\ JobOK(h) /\ AppOK(a) /\ TypeOK
      /\ a \notin mixed => Alone(h, a)
      /\ a \in mixed => Known(a) /\ had[a] \subseteq Suspect
  BY <1>1, Own DEF IInv
<1>0. mixed' = mixed /\ created' = created /\ had' = had /\ Suspect' = Suspect
  BY DEF ReleaseOld, Suspect
<1>3. TypeOK' /\ job'[h].app \in {a, None}
  BY <1>2 DEF ReleaseOld, Release, Finish, Damage, TypeOK, Job, AppItem, EntityID, PC
<1>4. Touches(h, a)
  BY <1>0, <1>2 DEF ReleaseOld, Release, Finish, Damage, Touches, TypeOK,
     JobOK, OnceHad, Reserved, EntityID, AppItem
<1>5. JobOK(h)'
  BY <1>0, <1>2, <1>3 DEF ReleaseOld, Release, Finish, Damage, TypeOK, JobOK, OnceHad, EntityKnown,
     ItemKnown, Reserved, RenamePC
<1>6. AppOK(a)'
  BY <1>0, <1>2, <1>3, <1>5 DEF ReleaseOld, Release, Damage, TypeOK, EntityID, JobOK, OnceHad, Reserved,
     ConfigKnown, Agree, AppOK, Known, Keeps, Alone
<1> QED
  BY <1>0, <1>2, <1>3, <1>4, <1>5, <1>6, Frame

LEMMA GetDeletedOK ==
  ASSUME IInv, NEW h \in Admin, NEW a \in App, job[h].app = a, GetDeleted(h)
  PROVE  IInv'
<1> USE ConstantsAssumption, NoneIsNoItem DEF items, started, Idle
<1>1. job[h].pc # "idle"
  BY DEF GetDeleted
<1>2. /\ job[h] \in Job /\ a # None /\ a \in created
      /\ JobOK(h) /\ AppOK(a) /\ TypeOK
      /\ a \notin mixed => Alone(h, a)
      /\ a \in mixed => Known(a) /\ had[a] \subseteq Suspect
  BY <1>1, Own DEF IInv
<1>0. mixed' = mixed /\ created' = created /\ had' = had /\ Suspect' = Suspect
  BY DEF GetDeleted, Suspect
<1>3. TypeOK' /\ job'[h].app \in {a, None}
  BY <1>2 DEF GetDeleted, Missing, Finish, TypeOK, Job, PC, DeletePC
<1>4. Touches(h, a)
  BY <1>0, <1>2 DEF GetDeleted, Missing, Finish, Touches, TypeOK
<1>5. JobOK(h)'
  <2>1. CASE Missing(h)
    BY <1>2, <2>1 DEF Missing, Finish, TypeOK, JobOK
  <2>2. CASE ~Missing(h)
    <3>1. /\ job' = [job EXCEPT ![h].pc = "deleteApp", ![h].item = apps[a]]
          /\ apps[a] \in AppItem /\ job[h].pc = "getDeleted"
          /\ UNCHANGED <<apps, configs, marker, deleted, damaged>>
      BY <1>2, <2>2 DEF GetDeleted, TypeOK
    <3>2. /\ job'[h].pc = "deleteApp" /\ job'[h].app = a /\ job'[h].item = apps[a]
      BY <1>2, <3>1 DEF TypeOK, Job
    <3>3. apps[a].entity \in had[a] \cup {Blank}
      BY <1>2, <3>1 DEF AppOK, AppItem, EntityID
    <3> QED
      BY <1>0, <1>2, <3>1, <3>2, <3>3 DEF JobOK, EntityKnown, OnceHad, ItemKnown, Reserved,
         ConfigKnown, Agree, UpdatePC, RenamePC
  <2> QED
    BY <2>1, <2>2
<1>6. AppOK(a)'
  BY <1>0, <1>2, <1>3, <1>5 DEF GetDeleted, JobOK, OnceHad, ConfigKnown, Agree, AppOK, Known, Keeps, Alone
<1> QED
  BY <1>0, <1>2, <1>3, <1>4, <1>5, <1>6, Frame

LEMMA DeleteAppOK ==
  ASSUME IInv, NEW h \in Admin, NEW a \in App, job[h].app = a, DeleteApp(h)
  PROVE  IInv'
<1> USE ConstantsAssumption, NoneIsNoItem DEF items, started, Idle
<1>1. job[h].pc # "idle"
  BY DEF DeleteApp
<1>2. /\ job[h] \in Job /\ a # None /\ a \in created
      /\ JobOK(h) /\ AppOK(a) /\ TypeOK
      /\ a \notin mixed => Alone(h, a)
      /\ a \in mixed => Known(a) /\ had[a] \subseteq Suspect
  BY <1>1, Own DEF IInv
<1>0. mixed' = mixed /\ created' = created /\ had' = had /\ Suspect' = Suspect
  BY DEF DeleteApp, Suspect
<1>3. TypeOK' /\ job'[h].app \in {a, None}
  BY <1>2 DEF DeleteApp, Goto, TypeOK, Job, PC, CreatePC, DeletePC
<1>4. Touches(h, a)
  BY <1>0, <1>2 DEF DeleteApp, Goto, Touches
<1>5. JobOK(h)'
  <2>1. /\ job' = [job EXCEPT ![h].pc = "deleteConfig"] /\ apps' = [apps EXCEPT ![a] = None]
        /\ UNCHANGED <<configs, marker, damaged>>
    BY <1>2 DEF DeleteApp, Goto
  <2>2. job'[h] = [job[h] EXCEPT !.pc = "deleteConfig"] /\ apps'[a] = None
    BY <1>2, <2>1 DEF TypeOK
  <2>3. /\ job'[h].pc = "deleteConfig" /\ job'[h].app = a /\ job'[h].item = job[h].item
    BY <1>2, <2>2 DEF Job
  <2>4. /\ job[h].item \in AppItem /\ job[h].item.entity \in had[a] \cup {Blank}
        /\ a \notin mixed => apps[a] = job[h].item
    BY <1>2 DEF DeleteApp, JobOK, OnceHad, ItemKnown
  <2>5. job[h].item.entity \in Entity \ Suspect /\ a \notin mixed => marker[job[h].item.entity] = a
    BY <1>2, <2>4 DEF AppOK
  <2> QED
    BY <1>0, <1>2, <2>1, <2>2, <2>3, <2>4, <2>5 DEF JobOK, EntityKnown, OnceHad, ItemKnown,
       Reserved, ConfigKnown, UpdatePC, RenamePC
<1>6. AppOK(a)'
  BY <1>0, <1>2, <1>3, <1>5 DEF DeleteApp, Goto, TypeOK, JobOK, OnceHad, ItemKnown, AppOK, Known, Busy, Keeps
<1> QED
  BY <1>0, <1>2, <1>3, <1>4, <1>5, <1>6, Frame

LEMMA DeleteConfigOK ==
  ASSUME IInv, NEW h \in Admin, NEW a \in App, job[h].app = a, DeleteConfig(h)
  PROVE  IInv'
<1> USE ConstantsAssumption, NoneIsNoItem DEF items, started, Idle
<1>1. job[h].pc # "idle"
  BY DEF DeleteConfig
<1>2. /\ job[h] \in Job /\ a # None /\ a \in created
      /\ JobOK(h) /\ AppOK(a) /\ TypeOK
      /\ a \notin mixed => Alone(h, a)
      /\ a \in mixed => Known(a) /\ had[a] \subseteq Suspect
  BY <1>1, Own DEF IInv
<1>0. mixed' = mixed /\ created' = created /\ had' = had /\ Suspect' = Suspect
  BY DEF DeleteConfig, Suspect
<1>3. TypeOK' /\ job'[h].app \in {a, None}
  BY <1>2 DEF DeleteConfig, Goto, Finish, TypeOK, Job, AppItem, PC, DeletePC
<1>4. Touches(h, a)
  BY <1>0, <1>2 DEF DeleteConfig, Goto, Finish, Touches, TypeOK
<1>5. /\ job[h].pc = "deleteConfig" /\ job[h].item \in AppItem
      /\ job[h].item.entity \in had[a] \cup {Blank}
      /\ a \notin mixed => apps[a] = None
      /\ job[h].item.entity \in Entity \ Suspect /\ a \notin mixed =>
           marker[job[h].item.entity] = a
      /\ UNCHANGED <<apps, marker, deleted>>
      /\ a \in damaged => a \in damaged'
      /\ a \in damaged' \/ configs'[a] = None
  BY <1>2 DEF DeleteConfig, JobOK, OnceHad, Reserved, TypeOK
<1>6. \/ /\ job[h].item.entity = Blank /\ job'[h] = Idle
      \/ /\ job[h].item.entity \in Entity
         /\ job'[h].pc = "releaseLast" /\ job'[h].app = a /\ job'[h].item = job[h].item
  <2>1. job[h].item.entity \in EntityID
    BY <1>5 DEF AppItem
  <2> QED
    BY <1>2, <2>1 DEF DeleteConfig, Goto, Finish, TypeOK, Job, EntityID
<1>7. JobOK(h)'
  BY <1>0, <1>2, <1>5, <1>6 DEF JobOK, EntityKnown, OnceHad, ItemKnown, Reserved, ConfigKnown,
     Agree, UpdatePC, RenamePC
<1>8. AppOK(a)'
  <2>1. CASE a \in damaged' \cup mixed
    BY <1>0, <1>2, <1>5, <2>1 DEF AppOK, Known
  <2>2. CASE a \notin damaged' \cup mixed
    <3>1. Agree(a)'
      BY <1>5, <2>2 DEF Agree
    <3>2. ASSUME NEW e \in Entity, marker[e] = a PROVE job'[h].app = a /\ Keeps(h, e)'
      <4>1. e = job[h].item.entity
        BY <1>2, <1>5, <2>2, <3>2 DEF AppOK, Keeps, Alone
      <4> QED
        BY <1>6, <3>2, <4>1 DEF Keeps
    <3> QED
      BY <1>0, <1>2, <1>5, <2>2, <3>1, <3>2 DEF AppOK, Known
  <2> QED
    BY <2>1, <2>2
<1> QED
  BY <1>0, <1>2, <1>3, <1>4, <1>7, <1>8, Frame

LEMMA ReleaseLastOK ==
  ASSUME IInv, NEW h \in Admin, NEW a \in App, job[h].app = a, ReleaseLast(h)
  PROVE  IInv'
<1> USE ConstantsAssumption, NoneIsNoItem DEF items, started, Idle
<1>1. job[h].pc # "idle"
  BY DEF ReleaseLast
<1>2. /\ job[h] \in Job /\ a # None /\ a \in created
      /\ JobOK(h) /\ AppOK(a) /\ TypeOK
      /\ a \notin mixed => Alone(h, a)
      /\ a \in mixed => Known(a) /\ had[a] \subseteq Suspect
  BY <1>1, Own DEF IInv
<1>0. mixed' = mixed /\ created' = created /\ had' = had /\ Suspect' = Suspect
  BY DEF ReleaseLast, Suspect
<1>3. TypeOK' /\ job'[h].app \in {a, None}
  BY <1>2 DEF ReleaseLast, Release, Finish, Damage, TypeOK, Job, AppItem, EntityID, PC,
     RenamePC
<1>4. Touches(h, a)
  BY <1>0, <1>2 DEF ReleaseLast, Release, Finish, Damage, Touches, TypeOK,
     JobOK, OnceHad, Reserved, EntityID, AppItem
<1>5. JobOK(h)'
  BY <1>0, <1>2, <1>3 DEF ReleaseLast, Release, Finish, Damage, TypeOK, JobOK, OnceHad, EntityKnown,
     ItemKnown, Reserved, RenamePC
<1>6. AppOK(a)'
  BY <1>0, <1>2, <1>3, <1>5 DEF ReleaseLast, Release, Damage, TypeOK, EntityID, JobOK, OnceHad, Reserved,
     ConfigKnown, Agree, AppOK, Known, Keeps, Alone
<1> QED
  BY <1>0, <1>2, <1>3, <1>4, <1>5, <1>6, Frame

LEMMA CrashOK ==
  ASSUME IInv, NEW h \in Admin, NEW a \in App, job[h].app = a, Crash(h)
  PROVE  IInv'
<1> USE ConstantsAssumption, NoneIsNoItem DEF items, started, Idle
<1>1. job[h].pc # "idle"
  BY DEF Crash
<1>2. /\ job[h] \in Job /\ a # None /\ a \in created
      /\ JobOK(h) /\ AppOK(a) /\ TypeOK
      /\ a \notin mixed => Alone(h, a)
      /\ a \in mixed => Known(a) /\ had[a] \subseteq Suspect
  BY <1>1, Own DEF IInv
<1>0. mixed' = mixed /\ created' = created /\ had' = had /\ Suspect' = Suspect
  BY DEF Crash, Suspect
<1>3. TypeOK' /\ job'[h].app \in {a, None}
  BY <1>2 DEF Crash, Finish, Damage, TypeOK, Job, PC
<1>4. Touches(h, a)
  BY <1>0, <1>2 DEF Crash, Finish, Damage, Touches
<1>5. JobOK(h)'
  BY <1>0, <1>2, <1>3 DEF Crash, Finish, Damage, JobOK, OnceHad, EntityKnown, ItemKnown, Reserved, RenamePC
<1>6. AppOK(a)'
  BY <1>0, <1>2, <1>3, <1>5 DEF Crash, Damage, AppOK, Known
<1> QED
  BY <1>0, <1>2, <1>3, <1>4, <1>5, <1>6, Frame

\* A new request; an application others are about becomes a mixed one.
LEMMA BeginOK ==
  ASSUME IInv, NEW h \in Admin, NEW a \in App,
         NEW pc \in {"getApp", "getDeleted"}, NEW entity \in Entity \cup {None},
         NEW status \in Status \cup {None}, Begin(h, pc, a, entity, status)
  PROVE  IInv'
<1> DEFINE new == [Idle EXCEPT !.pc = pc, !.app = a, !.entity = entity, !.status = status]
<1> USE ConstantsAssumption DEF items
<1>1. TypeOK /\ JobOK(h) /\ AppOK(a) /\ Known(a) /\ a # None
  BY DEF IInv, Begin
<1>2. job[h].app = None /\ a \in created
  BY <1>1 DEF JobOK, Begin, AppOK
<1>3. job' = [job EXCEPT ![h] = new] /\ job'[h] = new
  BY <1>1 DEF Begin, TypeOK
<1>4. /\ new.pc = pc /\ new.app = a /\ new.entity = entity /\ new.status = status
      /\ new.item = None /\ new \in Job
  BY DEF Idle, Job, PC, UpdatePC, DeletePC, EntityID
<1> HIDE DEF new
<1>5. TypeOK'
  BY <1>1, <1>3, <1>4 DEF TypeOK, Begin
<1>6. Touches(h, a)
  BY <1>1, <1>3 DEF Touches, TypeOK, Begin
<1>7. Suspect \subseteq Suspect'
  BY <1>1, <1>6, SuspectGrows
<1>8. /\ UNCHANGED <<apps, configs, marker, created, deleted, damaged, had>>
      /\ a \in mixed' \/ (~Busy(a) /\ a \notin mixed)
  BY DEF Begin
<1>9. a \notin mixed' => Alone(h, a)
  BY <1>8 DEF Alone, Busy
<1>10. JobOK(h)'
  <2>1. a \notin damaged \cup mixed' => Agree(a)
    BY <1>1, <1>8 DEF AppOK
  <2> QED
    BY <1>1, <1>2, <1>3, <1>4, <1>8, <2>1 DEF JobOK, EntityKnown, OnceHad, ItemKnown, Reserved,
       ConfigKnown, Agree, UpdatePC, RenamePC
<1>11. AppOK(a)'
  <2>1. Known(a)' /\ (a \in mixed => a \in mixed')
    BY <1>1, <1>6, <1>8 DEF Known, Touches
  <2>2. Busy(a)'
    BY <1>3, <1>4 DEF Busy
  <2>3. a \notin mixed' => \A k \in Admin : job[k].app # a
    BY <1>8 DEF Busy
  <2> QED
    BY <1>1, <1>2, <1>7, <1>8, <2>1, <2>2, <2>3 DEF AppOK
<1> QED
  BY <1>1, <1>2, <1>3, <1>4, <1>5, <1>6, <1>8, <1>9, <1>10, <1>11, Frame

LEMMA StartCreateOK ==
  ASSUME IInv, NEW h \in Admin, NEW a \in App, NEW entity \in EntityID \cup {None},
         StartCreate(h, a, entity)
  PROVE  IInv'
<1> DEFINE new == [Idle EXCEPT !.pc = IF entity = None THEN "putNew" ELSE "reserve",
                               !.app = a, !.entity = entity]
<1> USE ConstantsAssumption DEF items
<1>1. TypeOK /\ JobOK(h) /\ AppOK(a) /\ a # None /\ a \notin created
  BY DEF IInv, StartCreate
<1>2. \A k \in Admin : job[k].app # a
  BY <1>1 DEF IInv, JobOK
<1>3. Alone(h, a) /\ job[h].app = None
  BY <1>1, <1>2 DEF Alone, JobOK, StartCreate
<1>4. job' = [job EXCEPT ![h] = new] /\ job'[h] = new /\ a \in created'
  BY <1>1 DEF StartCreate, TypeOK
<1>5. /\ new.pc = IF entity = None THEN "putNew" ELSE "reserve"
      /\ new.app = a /\ new.entity = entity /\ new.item = None /\ new \in Job
  BY DEF Idle, Job, PC, CreatePC
<1> HIDE DEF new
<1>6. TypeOK'
  BY <1>1, <1>4, <1>5 DEF TypeOK, StartCreate
<1>7. Touches(h, a)
  BY <1>1, <1>4 DEF Touches, TypeOK, StartCreate
<1>8. /\ apps[a] = None /\ a \notin deleted /\ a \notin mixed
      /\ a \notin damaged => Agree(a)
  BY <1>1, <1>2 DEF AppOK, Known, Busy
<1>9. UNCHANGED <<apps, configs, marker, deleted, damaged, mixed, had>> /\ Suspect' = Suspect
  BY DEF StartCreate, Suspect
<1>10. JobOK(h)'
  BY <1>1, <1>4, <1>5, <1>8, <1>9 DEF JobOK, EntityKnown, OnceHad, ItemKnown, Reserved,
     ConfigKnown, Agree, UpdatePC, RenamePC
<1>11. AppOK(a)'
  <2>1. Busy(a)' /\ ~Known(a)'
    BY <1>4, <1>5, <1>8, <1>9 DEF Busy, Known
  <2> QED
    BY <1>1, <1>2, <1>8, <1>9, <2>1 DEF AppOK, Known
<1> QED
  BY <1>3, <1>4, <1>5, <1>6, <1>7, <1>8, <1>9, <1>10, <1>11, Frame

LEMMA StartOK ==
  ASSUME IInv, NEW h \in Admin, NEW a \in App, Start(h, a)
  PROVE  IInv'
<1>1. CASE \E entity \in EntityID \cup {None} : StartCreate(h, a, entity)
  BY <1>1, StartCreateOK
<1>2. CASE \E entity \in Entity \cup {None} : StartUpdate(h, a, entity)
  BY <1>2, BeginOK DEF StartUpdate
<1>3. CASE \E status \in Status : StartSetStatus(h, a, status)
  BY <1>3, BeginOK DEF StartSetStatus
<1>4. CASE StartDelete(h, a)
  BY <1>4, BeginOK DEF StartDelete
<1> QED
  BY <1>1, <1>2, <1>3, <1>4 DEF Start

-----------------------------------------------------------------------------
(* The theorems *)

LEMMA InitOK == Init => IInv
<1> SUFFICES ASSUME Init PROVE IInv
  OBVIOUS
<1> USE ConstantsAssumption, NoneIsNoItem
<1>1. TypeOK
  BY DEF Init, TypeOK, Idle, Job, PC
<1>2. \A h \in Admin : job[h] = Idle
  BY DEF Init
<1>3. \A h \in Admin : JobOK(h)
  BY <1>2 DEF JobOK, Idle
<1>4. \A a \in App : AppOK(a)
  BY DEF Init, AppOK, Agree, EntityID, Known
<1> QED
  BY <1>1, <1>2, <1>3, <1>4 DEF IInv, OneJob, Idle

\* A step of a request in flight.
Step(h) ==
  \/ ReserveFirst(h) \/ PutNew(h) \/ PutNewConfig(h) \/ Rollback(h)
  \/ GetApp(h) \/ GetKeys(h) \/ PutApp(h)
  \/ GetOld(h) \/ ReserveNew(h) \/ PutConfig(h) \/ PutRaw(h) \/ ReleaseOld(h)
  \/ GetDeleted(h) \/ DeleteApp(h) \/ DeleteConfig(h) \/ ReleaseLast(h)
  \/ Crash(h)

LEMMA StepActive == ASSUME NEW h \in Admin, Step(h) PROVE job[h].pc # "idle"
  BY DEF Step, ReserveFirst, PutNew, PutNewConfig, Rollback, GetApp, GetKeys, PutApp, GetOld,
     ReserveNew, PutConfig, PutRaw, ReleaseOld, GetDeleted, DeleteApp, DeleteConfig,
     ReleaseLast, Crash

LEMMA NextSteps == Next => \E h \in Admin : Step(h) \/ \E a \in App : Start(h, a)
  BY DEF Next, Step

LEMMA StepOK == ASSUME IInv, NEW h \in Admin, Step(h) PROVE IInv'
<1>1. job[h].app \in App
  BY Own, StepActive
<1>2. CASE ReserveFirst(h) \/ PutNew(h) \/ PutNewConfig(h) \/ Rollback(h)
  BY <1>1, <1>2, ReserveFirstOK, PutNewOK, PutNewConfigOK, RollbackOK
<1>3. CASE GetApp(h) \/ GetKeys(h) \/ PutApp(h)
  BY <1>1, <1>3, GetAppOK, GetKeysOK, PutAppOK
<1>4. CASE GetOld(h) \/ ReserveNew(h) \/ PutConfig(h) \/ PutRaw(h) \/ ReleaseOld(h)
  BY <1>1, <1>4, GetOldOK, ReserveNewOK, PutConfigOK, PutRawOK, ReleaseOldOK
<1>5. CASE GetDeleted(h) \/ DeleteApp(h) \/ DeleteConfig(h) \/ ReleaseLast(h)
  BY <1>1, <1>5, GetDeletedOK, DeleteAppOK, DeleteConfigOK, ReleaseLastOK
<1>6. CASE Crash(h)
  BY <1>1, <1>6, CrashOK
<1> QED
  BY <1>2, <1>3, <1>4, <1>5, <1>6 DEF Step

LEMMA StutterOK == ASSUME IInv, UNCHANGED vars PROVE IInv'
<1>1. Suspect' = Suspect
  BY DEF vars, Suspect
<1> QED
  BY <1>1 DEF IInv, vars, items, TypeOK, OneJob, JobOK, EntityKnown, OnceHad, ItemKnown,
     Reserved, ConfigKnown, AppOK, Agree, Busy, Keeps, Known

\* The inductive invariant holds in every reachable state, for any applications,
\* entityIDs, requests, overlaps of them and faults.
THEOREM Invariance == Spec => []IInv
<1>1. IInv /\ [Next]_vars => IInv'
  BY NextSteps, StepOK, StartOK, StutterOK
<1> QED
  BY <1>1, InitOK, PTL DEF Spec

\* Every variable keeps its type.
THEOREM TypeCorrect == Spec => []TypeOK
<1>1. IInv => TypeOK
  BY DEF IInv
<1> QED
  BY <1>1, Invariance, PTL

\* Two applications of a tenant never hold one entityID, unless it was once
\* reserved for an application with overlapping requests: what an application
\* holds is reserved for it, and a reservation names one application.
THEOREM Uniqueness == Spec => []EntityIDsUnique
<1>1. IInv => EntityIDsUnique
  <2> SUFFICES ASSUME IInv, NEW a \in App, NEW b \in App,
                      apps[a] # None, apps[b] # None, apps[a].entity = apps[b].entity,
                      apps[a].entity # Blank, apps[a].entity \notin Suspect
               PROVE  a = b
    BY DEF EntityIDsUnique
  <2>1. apps[a].entity \in Entity
    BY DEF IInv, TypeOK, AppItem, EntityID
  <2> QED
    BY <2>1 DEF IInv, AppOK
<1> QED
  BY <1>1, Invariance, PTL

\* An application's configuration carries its entityID, and a deleted one has
\* none left, once no request is about it, if none failed half-way or overlapped
\* another; what happens to other applications does not matter.
THEOREM Agreement == Spec => []ConfigsAgree
<1>1. IInv => ConfigsAgree
  BY DEF IInv, AppOK, ConfigsAgree
<1> QED
  BY <1>1, Invariance, PTL

\* An entityID is reserved for an application that has it or that a request is
\* still about, unless one was cut off or overlapped another.
THEOREM GivenBack == Spec => []NoOrphans
<1>1. IInv => NoOrphans
  <2> SUFFICES ASSUME IInv, NEW e \in Entity, marker[e] # None,
                      marker[e] \notin damaged \cup mixed, ~Busy(marker[e])
               PROVE  apps[marker[e]] # None /\ apps[marker[e]].entity = e
    BY DEF NoOrphans
  <2>1. marker[e] \in App
    BY DEF IInv, TypeOK, EntityID
  <2> QED
    BY <2>1 DEF IInv, AppOK, Busy
<1> QED
  BY <1>1, Invariance, PTL

-----------------------------------------------------------------------------
(* Steps that change an application's item *)

\* The others leave the items alone.
LEMMA ItemSteps ==
  ASSUME NEW h \in Admin, Step(h), UNCHANGED <<apps, deleted>> => FALSE
  PROVE  PutNew(h) \/ PutApp(h) \/ PutRaw(h) \/ DeleteApp(h)
  BY DEF Step, ReserveFirst, PutNewConfig, Rollback, GetApp, GetKeys, GetOld, ReserveNew,
     PutConfig, ReleaseOld, GetDeleted, DeleteConfig, ReleaseLast, Crash, items

LEMMA StartItems ==
  ASSUME NEW h \in Admin, NEW a \in App, Start(h, a)
  PROVE  UNCHANGED <<apps, deleted, had>> /\ (mixed' = mixed \/ (Known(a) /\ mixed' = mixed \cup {a}))
  BY DEF Start, StartCreate, StartUpdate, StartSetStatus, StartDelete, Begin, items

LEMMA PutNewItem ==
  ASSUME IInv, NEW h \in Admin, PutNew(h)
  PROVE  LET a == job[h].app IN
         /\ a \in App /\ apps[a] = None /\ a \notin deleted /\ a \notin mixed
         /\ job[h].entity \in Entity => job[h].entity \in had[a]
         /\ job[h].entity \in Entity \ Suspect => marker[job[h].entity] = a
         /\ UNCHANGED <<deleted, had, mixed>>
         /\ \/ apps' = [apps EXCEPT ![a] = NewItem(job[h].entity)]
            \/ apps' = apps
<1>1. job[h].pc # "idle" /\ job[h].pc = "putNew"
  BY DEF PutNew
<1>2. apps[job[h].app] = None /\ job[h].app \notin deleted /\ job[h].app \notin mixed
  BY <1>1, Own DEF JobOK, OnceHad, Known
<1> QED
  BY <1>1, <1>2, Own DEF PutNew, JobOK, OnceHad, Reserved, started

LEMMA PutAppItem ==
  ASSUME IInv, NEW h \in Admin, PutApp(h)
  PROVE  LET a == job[h].app IN
         /\ a \in App /\ UNCHANGED <<deleted, had, mixed>>
         /\ job[h].pc = "putApp" /\ job[h].item \in AppItem
         /\ job[h].item.entity \in had[a] \cup {Blank}
         /\ a \notin mixed => /\ apps[a] # None
                              /\ job[h].item.entity = apps[a].entity
                              /\ job[h].item.status \in {apps[a].status, job[h].status}
         /\ apps' = [apps EXCEPT ![a] = job[h].item] \/ apps' = apps
<1>1. job[h].pc # "idle" /\ job[h].pc = "putApp"
  BY DEF PutApp
<1> QED
  BY <1>1, Own, NoneIsNoItem DEF PutApp, JobOK, OnceHad, ItemKnown, started

LEMMA PutRawItem ==
  ASSUME IInv, NEW h \in Admin, PutRaw(h)
  PROVE  LET a == job[h].app IN
         /\ a \in App /\ UNCHANGED <<deleted, had, mixed>>
         /\ job[h].item \in AppItem /\ job[h].entity \in Entity /\ job[h].entity \in had[a]
         /\ a \notin mixed => /\ apps[a] = job[h].item
                              /\ job[h].entity \in Suspect \/ marker[job[h].entity] = a
         /\ \/ apps' = [apps EXCEPT ![a] = [job[h].item EXCEPT !.entity = job[h].entity]]
            \/ apps' = apps
<1>1. job[h].pc # "idle" /\ job[h].pc = "putRaw"
  BY DEF PutRaw
<1> QED
  BY <1>1, Own DEF PutRaw, JobOK, EntityKnown, OnceHad, ItemKnown, Reserved, RenamePC, started

LEMMA DeleteAppItem ==
  ASSUME IInv, NEW h \in Admin, DeleteApp(h)
  PROVE  LET a == job[h].app IN
         /\ a \in App /\ (a \notin mixed => apps[a] \in AppItem)
         /\ UNCHANGED <<had, mixed>>
         /\ apps' = [apps EXCEPT ![a] = None] /\ deleted' = deleted \cup {a}
<1>1. job[h].pc # "idle" /\ job[h].pc = "deleteApp"
  BY DEF DeleteApp
<1> QED
  BY <1>1, Own DEF DeleteApp, JobOK, OnceHad, ItemKnown, started

\* Only a request to enable or disable an application changes its status, if no
\* two requests about it overlapped: everything else writes back what it has
\* read, and nobody wrote in between.
THEOREM OnPurpose == Spec => StatusOnPurpose
<1>1. ASSUME IInv, Next PROVE \A a \in App : StatusAsked(a)
  <2> SUFFICES ASSUME NEW b \in App, apps[b] # None, apps'[b] # None, b \notin mixed,
                      apps'[b].status # apps[b].status
               PROVE  AskedFor(b, apps'[b].status)
    BY DEF StatusAsked
  <2>1. PICK h \in Admin : Step(h)
    BY <1>1, NextSteps, StartItems
  <2>2. PutNew(h) \/ PutApp(h) \/ PutRaw(h) \/ DeleteApp(h)
    BY <2>1, ItemSteps
  <2>3. apps \in [App -> AppItem \cup {None}]
    BY <1>1 DEF IInv, TypeOK
  <2>4. ~PutNew(h) /\ ~DeleteApp(h)
    BY <1>1, <2>3, PutNewItem, DeleteAppItem
  <2>5. ~PutRaw(h)
    <3> SUFFICES ASSUME PutRaw(h) PROVE FALSE
      OBVIOUS
    <3> DEFINE a == job[h].app  new == [job[h].item EXCEPT !.entity = job[h].entity]
    <3>1. /\ a \in App /\ job[h].item \in AppItem /\ (a \notin mixed => apps[a] = job[h].item)
          /\ apps' = [apps EXCEPT ![a] = new] \/ apps' = apps
      BY <1>1, PutRawItem
    <3>2. new.status = job[h].item.status
      BY <3>1 DEF AppItem
    <3> HIDE DEF new
    <3> QED
      BY <2>3, <3>1, <3>2
  <2>6. PutApp(h)
    BY <2>2, <2>4, <2>5
  <2> QED
    BY <1>1, <2>1, <2>3, <2>6, PutAppItem DEF AskedFor
<1>2. IInv /\ [Next]_vars => [\A a \in App : StatusAsked(a)]_vars
  BY <1>1
<1> QED
  BY <1>2, Invariance, PTL DEF StatusOnPurpose, Spec

-----------------------------------------------------------------------------
(* The registry implements the directory *)

LEMMA EntryTyped ==
  ASSUME IInv, NEW a \in App
  PROVE  /\ apps[a] # None => Entry[a] = apps[a].entity /\ Entry[a] \in EntityID
         /\ apps[a] = None => Entry[a] \notin EntityID
         /\ Known(a) => Entry[a] # None
  BY ConstantsAssumption, NoneIsNoItem DEF IInv, TypeOK, Entry, AppItem, EntityID, Known

LEMMA SameOpen == Directory!Open = Suspect /\ Directory!EntityID = EntityID
  BY DEF Directory!Open, Suspect, Directory!EntityID, EntityID

\* A reservation leaves an entityID to its owner, none leaves it to everyone.
LEMMA ReservedFree ==
  ASSUME IInv, NEW a \in App, NEW e \in Entity, Entry[a] # e,
         e \in Suspect \/ marker[e] \in {a, None}
  PROVE  Directory!Free(e)
<1> SUFFICES ASSUME NEW b \in App, Entry[b] = e, e \notin Suspect PROVE FALSE
  BY SameOpen DEF Directory!Free
<1>1. apps[b] # None /\ apps[b].entity = e
  BY EntryTyped DEF EntityID
<1> QED
  BY <1>1, ConstantsAssumption DEF IInv, AppOK

\* A reservation that is made is a claim, the others change nothing.
LEMMA ClaimStep ==
  ASSUME IInv, NEW h \in Admin, ReserveFirst(h) \/ ReserveNew(h)
  PROVE  Directory!Next \/ UNCHANGED <<Entry, had, mixed>>
<1> DEFINE a == job[h].app  e == job[h].entity
<1>1. UNCHANGED <<apps, deleted, mixed>> /\ UNCHANGED Entry
  BY DEF ReserveFirst, ReserveNew, Entry, started
<1>2. \/ had' = had
      \/ marker[e] = None /\ had' = [had EXCEPT ![a] = @ \cup ({e} \cap Entity)]
  BY DEF ReserveFirst, ReserveNew, Reserve, Mark
<1>3. a \in App
  BY Own DEF ReserveFirst, ReserveNew
<1>4. CASE e \notin Entity \/ had' = had
  <2>1. e \notin Entity => {e} \cap Entity = {}
    OBVIOUS
  <2>2. ASSUME e \notin Entity PROVE had' = had
    <3>1. had \in [App -> SUBSET Entity] /\ had[a] \cup ({e} \cap Entity) = had[a]
      BY <1>3, <2>1, <2>2 DEF IInv, TypeOK
    <3>2. had = [had EXCEPT ![a] = had[a]]
      BY <3>1
    <3> QED
      BY <1>2, <3>1, <3>2
  <2> QED
    BY <1>1, <1>4, <2>2
<1>5. CASE e \in Entity /\ had' # had
  <2>1. marker[e] = None /\ had' = [had EXCEPT ![a] = @ \cup {e}]
    <3>1. {e} \cap Entity = {e}
      BY <1>5
    <3> QED
      BY <1>2, <1>5, <3>1
  <2>2. Directory!Free(e)
    <3>1. e \in Suspect \/ \A b \in App : Entry[b] # e
      <4> SUFFICES ASSUME NEW b \in App, Entry[b] = e, e \notin Suspect PROVE FALSE
        OBVIOUS
      <4>1. apps[b] # None /\ apps[b].entity = e
        BY <1>5, EntryTyped DEF EntityID
      <4> QED
        BY <1>5, <2>1, <4>1, ConstantsAssumption DEF IInv, AppOK
    <3> QED
      BY <3>1, SameOpen DEF Directory!Free
  <2> QED
    BY <1>1, <1>3, <1>5, <2>1, <2>2 DEF Directory!Next, Directory!Claim
<1> QED
  BY <1>4, <1>5

LEMMA DirectoryStep ==
  ASSUME IInv, NEW h \in Admin, Step(h)
  PROVE  Directory!Next \/ UNCHANGED <<Entry, had, mixed>>
<1> DEFINE a == job[h].app  e == job[h].entity
<1> USE ConstantsAssumption, NoneIsNoItem, SameOpen
<1>0. apps \in [App -> AppItem \cup {None}] /\ Entity \subseteq EntityID /\ Blank \in EntityID
      /\ Blank \notin Entity /\ had \in [App -> SUBSET Entity]
  BY DEF IInv, TypeOK, EntityID
<1>1. CASE UNCHANGED <<apps, deleted>> /\ ~ReserveFirst(h) /\ ~ReserveNew(h)
  BY <1>1 DEF Entry, Step, PutNew, PutNewConfig, Rollback, GetApp, GetKeys, PutApp, GetOld,
     PutConfig, PutRaw, ReleaseOld, GetDeleted, DeleteApp, DeleteConfig, ReleaseLast, Crash,
     started
<1>2. CASE PutNew(h) /\ apps' # apps
  <2>1. /\ a \in App /\ apps[a] = None /\ a \notin deleted
        /\ UNCHANGED <<deleted, had, mixed>>
        /\ e \in Entity => e \in had[a]
        /\ e \in Entity \ Suspect => marker[e] = a
        /\ apps' = [apps EXCEPT ![a] = NewItem(e)]
    BY <1>2, PutNewItem
  <2>2. Entry[a] = None /\ NewItem(e) # None /\ NewItem(e).entity \in EntityID
    BY <1>2, <2>1, Own DEF Entry, NewItem, Job, AppItem, EntityID, Status, PutNew
  <2>3. Entry' = [Entry EXCEPT ![a] = NewItem(e).entity]
    BY <1>0, <2>1, <2>2 DEF Entry
  <2>4. NewItem(e).entity \in Entity =>
          NewItem(e).entity \in had[a] /\ Directory!Free(NewItem(e).entity)
    <3>1. NewItem(e).entity \in Entity => NewItem(e).entity = e /\ e # None
      BY DEF NewItem
    <3> QED
      BY <2>1, <2>2, <3>1, ReservedFree
  <2> QED
    BY <2>1, <2>2, <2>3, <2>4 DEF Directory!Next, Directory!Register
<1>3. CASE PutApp(h) /\ apps' # apps
  <2>1. /\ a \in App /\ UNCHANGED <<deleted, had, mixed>>
        /\ job[h].item \in AppItem /\ job[h].item.entity \in had[a] \cup {Blank}
        /\ a \notin mixed => apps[a] # None /\ job[h].item.entity = apps[a].entity
        /\ apps' = [apps EXCEPT ![a] = job[h].item]
    BY <1>3, PutAppItem
  <2>2. Entry' = [Entry EXCEPT ![a] = job[h].item.entity]
    BY <1>0, <2>1 DEF Entry
  <2>3. CASE a \in mixed
    BY <1>0, <2>1, <2>2, <2>3 DEF Directory!Next, Directory!Stray
  <2>4. CASE a \notin mixed
    BY <1>0, <2>1, <2>2, <2>4 DEF Entry
  <2> QED
    BY <2>3, <2>4
<1>4. CASE PutRaw(h) /\ apps' # apps
  <2>1. /\ a \in App /\ UNCHANGED <<deleted, had, mixed>>
        /\ job[h].item \in AppItem /\ e \in Entity /\ e \in had[a]
        /\ a \notin mixed => apps[a] = job[h].item /\ (e \in Suspect \/ marker[e] = a)
        /\ apps' = [apps EXCEPT ![a] = [job[h].item EXCEPT !.entity = e]]
    BY <1>4, PutRawItem
  <2>2. apps'[a] # None /\ apps'[a].entity = e
    BY <1>0, <2>1 DEF AppItem
  <2>3. Entry' = [Entry EXCEPT ![a] = e]
    BY <1>0, <2>1, <2>2 DEF Entry
  <2>4. CASE a \in mixed
    BY <1>0, <2>1, <2>3, <2>4 DEF Directory!Next, Directory!Stray
  <2>5. CASE a \notin mixed /\ Entry[a] = e
    BY <2>1, <2>3, <2>5 DEF Entry
  <2>6. CASE a \notin mixed /\ Entry[a] # e
    <3>1. Directory!Free(e) /\ Entry[a] \in EntityID
      BY <2>1, <2>6, ReservedFree, EntryTyped
    <3> QED
      BY <2>1, <2>3, <3>1 DEF Directory!Next, Directory!Rename
  <2> QED
    BY <2>4, <2>5, <2>6
<1>5. CASE DeleteApp(h)
  <2>1. /\ a \in App /\ (a \notin mixed => apps[a] \in AppItem) /\ UNCHANGED <<had, mixed>>
        /\ apps' = [apps EXCEPT ![a] = None] /\ deleted' = deleted \cup {a}
    BY <1>5, DeleteAppItem
  <2>2. Entry' = [Entry EXCEPT ![a] = <<None>>]
    BY <1>0, <2>1 DEF Entry
  <2>3. CASE a \in mixed
    BY <2>1, <2>2, <2>3 DEF Directory!Next, Directory!Stray
  <2>4. CASE a \notin mixed
    BY <2>1, <2>2, <2>4, EntryTyped DEF Directory!Next, Directory!Remove
  <2> QED
    BY <2>3, <2>4
<1>6. CASE ReserveFirst(h) \/ ReserveNew(h)
  BY <1>6, ClaimStep
<1>7. CASE (PutNew(h) \/ PutApp(h) \/ PutRaw(h)) /\ apps' = apps
  BY <1>7, <1>1, <1>6, PutNewItem, PutAppItem, PutRawItem
<1> QED
  BY <1>1, <1>2, <1>3, <1>4, <1>5, <1>6, <1>7, ItemSteps

\* A request that finds another about its application makes it loose.
LEMMA LooseStep ==
  ASSUME IInv, NEW h \in Admin, NEW a \in App, Start(h, a)
  PROVE  Directory!Next \/ UNCHANGED <<Entry, had, mixed>>
<1>1. /\ UNCHANGED <<apps, deleted, had>>
      /\ mixed' = mixed \/ (Known(a) /\ mixed' = mixed \cup {a})
  BY StartItems
<1>2. UNCHANGED Entry
  BY <1>1 DEF Entry
<1>3. Known(a) => Entry[a] # None
  BY EntryTyped
<1> QED
  BY <1>1, <1>2, <1>3 DEF Directory!Next, Directory!Loosen

\* Every behaviour of the registry is one of the directory: creates, renames and
\* deletes take effect at one table call each, everything else is invisible.
THEOREM Implements == Spec => ImplementsDirectory
<1>1. Init => Directory!Init
  BY DEF Init, Directory!Init, Entry
<1>2. IInv /\ [Next]_vars => [Directory!Next]_(Directory!vars)
  <2>1. ASSUME IInv, Next PROVE Directory!Next \/ UNCHANGED <<Entry, had, mixed>>
    BY <2>1, NextSteps, DirectoryStep, LooseStep
  <2>2. UNCHANGED vars => UNCHANGED <<Entry, had, mixed>>
    BY DEF vars, Entry
  <2> QED
    BY <2>1, <2>2 DEF Directory!vars
<1> QED
  BY <1>1, <1>2, Invariance, PTL DEF Spec, ImplementsDirectory, Directory!Spec

=============================================================================
