------------------------------ MODULE MCOnboarding ------------------------------
EXTENDS Onboarding, TLC, FiniteSets

\* The handlers are interchangeable, and so are the ExternalIDs and the roles.
Symmetry == Permutations(Handler) \cup Permutations(ExternalId)
            \cup Permutations(Role)

\* The run explores two ExternalIDs and requests of every kind that overlap,
\* with the mandatory pack alone; and selections that change under any one
\* other request, with one ExternalID.
Rows == {wizard} \cup {job[h].wizard : h \in Handler}
Names == {job[h].ext : h \in Handler} \cup {provider[r] : r \in Role}
         \cup {row.ext : row \in (Rows \cup {sources[i] : i \in SourceId}) \ {None}}
Selected == UNION ({job[h].packs : h \in Handler} \cup {row.packs : row \in Rows \ {None}})
OneChange ==
  Selected \ {Core} # {} =>
    /\ Cardinality(Names \ {None}) <= 1
    /\ tenant = None \/ tenant.phase # "none"
    /\ Cardinality({h \in Handler : job[h].pc \notin {"idle", "packs"}}) <= 1

=================================================================================
