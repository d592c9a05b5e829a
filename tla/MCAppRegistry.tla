---------------------------- MODULE MCAppRegistry ----------------------------
(* Instances of AppRegistry for TLC.                                        *)
EXTENDS AppRegistry, TLC

\* At most one application half-written by a fault; overlapping requests about
\* at most one, then none half-written, and deletions while it is the only one.
Apart ==
  /\ Cardinality(damaged) <= 1
  /\ mixed # {} => /\ Cardinality(mixed) = 1 /\ damaged = {}
                   /\ deleted = {} \/ created = mixed

\* Applications, entityIDs and requests are interchangeable; the properties
\* checked under the symmetry are safety properties.
Symmetry == Permutations(App) \cup Permutations(Entity) \cup Permutations(Admin)
=============================================================================
