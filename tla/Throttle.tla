------------------------------- MODULE Throttle -------------------------------
(***************************************************************************)
(* The fixed-window rate limit that all API instances share in one row per *)
(* client and route: each increment is a transaction of three statements,  *)
(* next to others, to transactions that are lost, and to the retention     *)
(* that deletes the row.                                                   *)
(***************************************************************************)
EXTENDS Naturals, Sequences, FiniteSets

CONSTANTS
    Hits,           \* transactions that run side by side
    Limit, Ttl, BlockFor,
    Retention,      \* how long after its times a row is kept
    MaxNow          \* bound: the clock

ASSUME ThrottleAssumption ==
    /\ {Limit, Ttl, BlockFor, Retention, MaxNow} \subseteq Nat
    /\ Limit > 0 /\ BlockFor >= Ttl /\ Ttl > 0

NoBucket == [hits |-> 0]
NoHit == [pc |-> "idle"]
Unblocked == 0

VARIABLES
    clock,     \* the database's clock, from 1
    bucket,    \* rate_limit_buckets, the committed row
    hit,       \* the transactions
    admitted   \* the requests that were let in, by the time of the decision

throttleVars == <<clock, bucket, hit, admitted>>

InTransaction(h, pc) == hit[h].pc = pc
Shifts(h, q) == hit' = [hit EXCEPT ![h] = q]
\* Who has inserted or locked the row keeps it to the end of his transaction.
Held == \E h \in Hits : hit[h].pc \in {"inserted", "locked"}

ThrottleInit ==
    /\ clock = 1
    /\ bucket = NoBucket
    /\ hit = [h \in Hits |-> NoHit]
    /\ admitted = <<>>

-----------------------------------------------------------------------------
(* increment *)

\* INSERT ... ON CONFLICT DO NOTHING; while another insert of the row is not committed, it waits.
Insert(h) ==
    /\ InTransaction(h, "idle")
    /\ bucket = NoBucket => ~ Held
    /\ Shifts(h, [pc |-> IF bucket = NoBucket THEN "inserted" ELSE "found"])
    /\ UNCHANGED <<clock, bucket, admitted>>

NewBucket == [hits |-> 0, windowEnds |-> clock, blockedUntil |-> Unblocked]

\* Mutant: the row is read without a lock.
SelectOnly(h) ==
    /\ \/ InTransaction(h, "found") \/ InTransaction(h, "inserted")
    /\ LET row == IF InTransaction(h, "inserted") THEN NewBucket ELSE bucket IN
       Shifts(h, IF row = NoBucket THEN NoHit ELSE [pc |-> "read", row |-> row, at |-> clock])
    /\ UNCHANGED <<clock, bucket, admitted>>

\* SELECT ... FOR UPDATE; a row that has been deleted since the insert found it fails the request.
SelectForUpdate(h) ==
    /\ \/ InTransaction(h, "found") /\ ~ Held
       \/ InTransaction(h, "inserted")
    /\ LET row == IF InTransaction(h, "inserted") THEN NewBucket ELSE bucket IN
       Shifts(h, IF row = NoBucket THEN NoHit ELSE [pc |-> "locked", row |-> row, at |-> clock])
    /\ UNCHANGED <<clock, bucket, admitted>>

\* The decision, the update and the commit.
Count(h) ==
    LET row == hit[h].row
        at == hit[h].at
        blocked == row.blockedUntil > at
        reset == row.blockedUntil # Unblocked \/ row.windowEnds <= at
        total == IF reset THEN 1 ELSE row.hits + 1 IN
    /\ hit[h].pc \in {"locked", "read"}
    /\ bucket' = IF blocked THEN row
                 ELSE [hits |-> total,
                       windowEnds |-> IF reset THEN at + Ttl ELSE row.windowEnds,
                       blockedUntil |-> IF total > Limit THEN at + BlockFor ELSE Unblocked]
    /\ admitted' = IF ~ blocked /\ total <= Limit THEN Append(admitted, at) ELSE admitted
    /\ Shifts(h, NoHit)
    /\ UNCHANGED clock

\* The connection is lost, or the process dies: the transaction is rolled back.
HitFails(h) ==
    /\ ~ InTransaction(h, "idle")
    /\ Shifts(h, NoHit)
    /\ UNCHANGED <<clock, bucket, admitted>>

\* Each thousandth increment deletes what is long over.
DeleteStale ==
    /\ bucket # NoBucket /\ ~ Held
    /\ bucket.windowEnds + Retention < clock /\ bucket.blockedUntil + Retention < clock
    /\ bucket' = NoBucket
    /\ UNCHANGED <<clock, hit, admitted>>

ClockTicks ==
    /\ clock < MaxNow
    /\ clock' = clock + 1
    /\ UNCHANGED <<bucket, hit, admitted>>

ThrottleNext ==
    \/ \E h \in Hits : Insert(h) \/ SelectForUpdate(h) \/ Count(h) \/ HitFails(h)
    \/ DeleteStale \/ ClockTicks

ThrottleSpec == ThrottleInit /\ [][ThrottleNext]_throttleVars

-----------------------------------------------------------------------------
(* Properties *)

\* Every variable keeps its type.
ThrottleTypeOK ==
    /\ clock \in 1..MaxNow
    /\ bucket = NoBucket \/ bucket \in [hits : 1..Limit + 1, windowEnds : 1..MaxNow + Ttl,
                                        blockedUntil : 0..MaxNow + BlockFor]
    /\ \A h \in Hits : hit[h].pc \in {"idle", "found", "inserted", "locked"}

\* docs/08: "fixed-window counters and block state are atomic across API instances": in any stretch of
\* Ttl no more than the requests of two adjoining windows are let in, whoever fails or is deleted.
TwoWindowsAtMost ==
    \A t \in 1..MaxNow :
        Cardinality({i \in DOMAIN admitted : t <= admitted[i] /\ admitted[i] < t + Ttl}) <= 2 * Limit

=============================================================================
