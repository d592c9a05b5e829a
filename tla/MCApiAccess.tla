----------------------------- MODULE MCApiAccess -----------------------------
(* Small instances of ApiAccess. *)
EXTENDS ApiAccess, TLC

CONSTANT Visitor    \* a tenant that is not the default one

\* Two tenants' administrators, an operator without a tenant claim, and a global
\* operator; tokens that are expired or meant for another client are one more.
Caller == {[groups |-> {"Admins"}, claim |-> Visitor, valid |-> TRUE],
           [groups |-> {"Admins"}, claim |-> None, valid |-> TRUE],
          [groups |-> {"Operators"}, claim |-> None, valid |-> TRUE],
           [groups |-> {"Admins", "GlobalOperators"}, claim |-> None, valid |-> TRUE],
           [groups |-> {"Admins", "GlobalOperators"}, claim |-> Visitor, valid |-> FALSE]}

SomeTokens ==
  {[kid |-> k, groups |-> c.groups, claim |-> c.claim, valid |-> c.valid] :
     k \in Kid, c \in Caller}

Symmetry == Permutations(Kid) \cup Permutations(Request)

=============================================================================
