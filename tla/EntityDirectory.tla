---------------------------- MODULE EntityDirectory ----------------------------
(***************************************************************************)
(* What a tenant's application registry promises the protocol Lambdas      *)
(* (GetByTenantEntityID): a directory in which claiming an entityID,        *)
(* registering, renaming and removing an application are single steps and   *)
(* an entityID leads to one application. The promise is not made to an      *)
(* application about which two requests were in flight at once: it is loose *)
(* from then on, and the entityIDs ever claimed for it are open to others.  *)
(* AppRegistry implements the directory by sequences of table calls.        *)
(***************************************************************************)
CONSTANTS App, Entity, Blank, Unborn, Gone

VARIABLES
  entry,      \* the entityID each application is found under
  claimed,    \* the entityIDs ever claimed for it
  loose       \* the loose applications

vars == <<entry, claimed, loose>>

EntityID == Entity \cup {Blank}

Open == UNION {claimed[a] : a \in loose}

\* No application has e, or it is open.
Free(e) == (\A a \in App : entry[a] # e) \/ e \in Open

Init ==
  /\ entry = [a \in App |-> Unborn]
  /\ claimed = [a \in App |-> {}]
  /\ loose = {}

Claim(a, e) ==
  /\ Free(e)
  /\ claimed' = [claimed EXCEPT ![a] = @ \cup {e}]
  /\ UNCHANGED <<entry, loose>>

\* An application without an entityID is found under none.
Register(a, e) ==
  /\ entry[a] = Unborn
  /\ e \in Entity => e \in claimed[a] /\ Free(e)
  /\ entry' = [entry EXCEPT ![a] = e]
  /\ UNCHANGED <<claimed, loose>>

Rename(a, e) ==
  /\ entry[a] \in EntityID
  /\ e \in claimed[a] /\ Free(e)
  /\ entry' = [entry EXCEPT ![a] = e]
  /\ UNCHANGED <<claimed, loose>>

\* A removed application does not come back, unless it is loose.
Remove(a) ==
  /\ entry[a] \in EntityID
  /\ entry' = [entry EXCEPT ![a] = Gone]
  /\ UNCHANGED <<claimed, loose>>

Loosen(a) ==
  /\ entry[a] # Unborn
  /\ loose' = loose \cup {a}
  /\ UNCHANGED <<entry, claimed>>

\* A loose application may be found under anything it ever claimed, or not.
Stray(a, e) ==
  /\ a \in loose
  /\ e \in claimed[a] \cup {Blank, Gone}
  /\ entry' = [entry EXCEPT ![a] = e]
  /\ UNCHANGED <<claimed, loose>>

Next == \E a \in App :
  \/ \E e \in EntityID : Register(a, e)
  \/ \E e \in Entity : Claim(a, e) \/ Rename(a, e)
  \/ \E e \in EntityID \cup {Gone} : Stray(a, e)
  \/ Remove(a) \/ Loosen(a)

Spec == Init /\ [][Next]_vars

=============================================================================
