------------------------------ MODULE MCSessions ------------------------------
(* Model values for the TLC runs of Sessions. *)
EXTENDS Sessions, TLC

CONSTANTS s1, s2, s3, r1, r2, p1, p2

\* Sound for the safety properties these runs check.
Symmetry == Permutations({s1, s2, s3}) \cup Permutations({r1, r2}) \cup Permutations(Passwords)

=============================================================================
