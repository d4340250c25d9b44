-------------------------- MODULE MCStatementQueue --------------------------
(* Model values for the TLC run of StatementQueue. *)
EXTENDS StatementQueue

CONSTANTS w1, w2, f1, f2

=============================================================================
