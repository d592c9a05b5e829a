---------------------------- MODULE MCOIDCTokens ----------------------------
(***************************************************************************)
(* Small instances of OIDCTokens. c1 belongs to tenant t1; with two        *)
(* clients, c2 belongs to t2 and each tenant's issuer is foreign to the    *)
(* other's client.                                                         *)
(***************************************************************************)
EXTENDS OIDCTokens, TLC, SequencesExt

CONSTANTS t1, t2, c1, c2,
          MaxMishaps,     \* tokens expired, writes lost, applications inactive
          MaxDangling     \* index rows left behind by a dead token

MCTenantOf == [c \in Client |-> IF c = c1 THEN t1 ELSE t2]

Dangling == {row \in index :
              ~Live(row.ref) /\ \A h \in Handler : job[h].inhand # row.ref}

\* Every kind of mishap, MaxMishaps of them.
Bound ==
  /\ Cardinality(expired) + Cardinality(lost) + Cardinality(Client \ active)
       <= MaxMishaps
  /\ Cardinality(Dangling) <= MaxDangling

\* Token values are interchangeable: they are minted in one order.
Order == SetToSeq(Token)
InOrder == minted = {Order[i] : i \in 1..Cardinality(minted)}

\* The tokens after the first two are for rotations, one at a time, beside a
\* logout or a revocation and with no mishap.
Granting == {h \in Handler : job[h].pc \in GrantPC \cup RefreshPC}
OneRotation ==
  Cardinality(minted) > 2 =>
    /\ expired \cup lost = {} /\ active = Client /\ Dangling = {}
    /\ Cardinality(Granting) <= 1
    /\ Cardinality({h \in Handler : job[h].pc \in LogoutPC \cup RevokePC}) <= 1
    /\ \A h \in Granting : job[h].inhand # NoToken

\* The only mishaps are writes lost.
LossesOnly == expired = {} /\ active = Client

Symmetry == Permutations(Token) \cup Permutations(Handler)

\* A run may leave endpoints out.
Skip(pc) == \A h \in Handler : job'[h].pc # pc
NoRevoke == Skip("getRevoked")

=============================================================================
