---------------------------- MODULE MCCertRotation ----------------------------
(* Small instances of CertRotation. *)
EXTENDS CertRotation, TLC

Symmetry == Permutations(Serial) \cup Permutations(Process)

\* One kind of fault in a behaviour: a failed call or a death, a certificate a
\* check could not read, or keys a discovery instance could not load.
OneFault ==
  IF skipped THEN past \cap {"failed", "blind"} = {}
  ELSE ~ ({"failed", "blind"} \subseteq past)

=============================================================================
