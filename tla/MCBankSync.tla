----------------------------- MODULE MCBankSync -----------------------------
(* Model values, bounds and symmetry for the TLC runs of BankSync. *)
EXTENDS BankSync, TLC

CONSTANTS l1, l2

Symmetry == Permutations(Reqs) \cup Permutations(Txns)

\* Enough updates for three pages of one link.
DeepFeed == [l \in Links |-> 3]

\* Two links that connect and end together; one of them has something to synchronise.
ShallowFeed == l1 :> 1 @@ l2 :> 0

=============================================================================
