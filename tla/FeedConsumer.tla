---------------------------- MODULE FeedConsumer ----------------------------
(***************************************************************************)
(* What a synchronised bank link promises, without pages, leases or        *)
(* concurrent requests: updates of a growing feed are delivered in any     *)
(* order and as often as needed, and a position is acknowledged only when  *)
(* every update up to it has been delivered.  An acknowledgement may be    *)
(* withdrawn; a delivery may not.                                          *)
(***************************************************************************)
EXTENDS Naturals

CONSTANT Sources

VARIABLES
    known,      \* updates published for each source
    delivered,  \* positions delivered so far
    acked       \* the acknowledged position

vars == <<known, delivered, acked>>

Init ==
    /\ known = [s \in Sources |-> 0]
    /\ delivered = [s \in Sources |-> {}]
    /\ acked = [s \in Sources |-> 0]

Grow(s) ==
    /\ known' = [known EXCEPT ![s] = @ + 1]
    /\ UNCHANGED <<delivered, acked>>

Deliver(s) ==
    /\ \E new \in SUBSET (1..known[s]) : delivered' = [delivered EXCEPT ![s] = @ \cup new]
    /\ UNCHANGED <<known, acked>>

Acknowledge(s) ==
    /\ \E n \in 0..known[s] :
         /\ 1..n \subseteq delivered[s]
         /\ acked' = [acked EXCEPT ![s] = n]
    /\ UNCHANGED <<known, delivered>>

Next == \E s \in Sources : Grow(s) \/ Deliver(s) \/ Acknowledge(s)

Spec == Init /\ [][Next]_vars

=============================================================================
