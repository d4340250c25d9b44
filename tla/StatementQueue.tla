---------------------------- MODULE StatementQueue ----------------------------
(***************************************************************************)
(* The life of an uploaded statement up to its review: enqueue with its    *)
(* quota, the claim function with expiry and exhaustion, the workers that  *)
(* analyse a source, and the user who deletes the source or the import     *)
(* under their hands.                                                      *)
(*                                                                         *)
(* A claim has no owner: a worker that outlives its five minutes goes on   *)
(* beside its successor, and each write decides by the row's status alone. *)
(* Clocks are reduced to the comparisons the SQL makes: stale, expired.    *)
(* Imports of one user are numbered in the order of created_at.            *)
(***************************************************************************)
EXTENDS Naturals, FiniteSets

CONSTANTS
    Workers,      \* server processes, each with its running flag
    Files,        \* distinct contents (statement_hash)
    MaxImports,   \* bound: rows of statement_imports
    MaxAttempts,  \* claims of one import (3 in the code)
    MaxActive,    \* unfinished imports one user may have (MAX_ACTIVE_IMPORTS, 5)
    Batch         \* imports one claim may take (25 in the code)

ASSUME StatementQueueAssumption ==
    /\ MaxAttempts \in Nat \ {0}
    /\ Batch \in Nat \ {0}
    /\ {MaxImports, MaxActive} \subseteq Nat

Imports == 1..MaxImports

VARIABLES
    status,   \* statement_imports.status; "none" before the upload
    file,     \* statement_hash
    source,   \* encrypted_source IS NOT NULL
    attempts, \* claims so far
    stale,    \* processing_started_at is more than five minutes ago
    expired,  \* source_expires_at has passed
    rows,     \* extractions that have inserted their rows
    audit,    \* kinds of statement_import_events
    worker    \* what each worker is doing

vars == <<status, file, source, attempts, stale, expired, rows, audit, worker>>
queue == <<status, file, source, attempts, stale, expired, rows, audit>>

-----------------------------------------------------------------------------
(* Domains and helpers *)

Status == {"none", "queued", "processing", "ready", "approved", "failed", "deleted"}
Event == {"created", "processed", "approved", "source_deleted", "deleted", "failed"}
Worker == [pc : {"idle", "next", "analyze", "fail"}, held : SUBSET Imports, job : 0..MaxImports]

Free == [pc |-> "idle", held |-> {}, job |-> 0]
At(w, where) == worker[w].pc = where
Becomes(w, q) == worker' = [worker EXCEPT ![w] = q]

\* processQueued is over for the current import.
NextJob(w, i) ==
    LET left == worker[w].held \ {i} IN
    Becomes(w, [pc |-> IF left = {} THEN "idle" ELSE "next", held |-> left, job |-> 0])

Unfinished(i) == status[i] \in {"queued", "processing"}
Record(S, kind) == audit' = [i \in Imports |-> IF i \in S THEN audit[i] \cup {kind} ELSE audit[i]]
SetStatus(i, s) == status' = [status EXCEPT ![i] = s]

Init ==
    /\ status = [i \in Imports |-> "none"]
    /\ file \in [Imports -> Files]
    /\ source = [i \in Imports |-> FALSE]
    /\ attempts = [i \in Imports |-> 0]
    /\ stale = [i \in Imports |-> FALSE]
    /\ expired = [i \in Imports |-> FALSE]
    /\ rows = [i \in Imports |-> 0]
    /\ audit = [i \in Imports |-> {}]
    /\ worker = [w \in Workers |-> Free]

-----------------------------------------------------------------------------
(* The user *)

Active == {i \in Imports : Unfinished(i) /\ source[i]}

\* enqueue: the quota under the advisory lock, then the unique index on the hash; what failed may come again.
Enqueue(i) ==
    /\ status[i] = "none"
    /\ \A j \in 1..(i - 1) : status[j] # "none"
    /\ Cardinality(Active) < MaxActive
    /\ \A j \in Imports : file[j] = file[i] => status[j] \in {"none", "failed", "deleted"}
    /\ SetStatus(i, "queued")
    /\ source' = [source EXCEPT ![i] = TRUE]
    /\ Record({i}, "created")
    /\ UNCHANGED <<file, attempts, stale, expired, rows, worker>>

\* deleteSource asks nothing about the processing.
DeleteSource(i) ==
    /\ status[i] \notin {"none", "deleted"}
    /\ source[i]
    /\ source' = [source EXCEPT ![i] = FALSE]
    /\ Record({i}, "source_deleted")
    /\ UNCHANGED <<status, file, attempts, stale, expired, rows, worker>>

Delete(i) ==
    /\ status[i] \notin {"none", "deleted"}
    /\ SetStatus(i, "deleted")
    /\ source' = [source EXCEPT ![i] = FALSE]
    /\ Record({i}, "deleted")
    /\ UNCHANGED <<file, attempts, stale, expired, rows, worker>>

\* finalize; StatementReview has the detail.
Approve(i) ==
    /\ status[i] = "ready"
    /\ SetStatus(i, "approved")
    /\ Record({i}, "approved")
    /\ UNCHANGED <<file, source, attempts, stale, expired, rows, worker>>

-----------------------------------------------------------------------------
(* finverse_claim_statement_imports *)

Overdue == {i \in Imports : source[i] /\ expired[i]}

\* Mutant: an import whose last worker died is left alone.
NeverExhausted == {}

Exhausted == {i \in Imports \ Overdue :
                /\ status[i] = "processing"
                /\ attempts[i] >= MaxAttempts
                /\ source[i]
                /\ stale[i]}

Claimable == {i \in Imports \ Overdue :
                /\ source[i]
                /\ attempts[i] < MaxAttempts
                /\ status[i] = "queued" \/ (status[i] = "processing" /\ stale[i])}

Oldest(S) == {i \in S : Cardinality({j \in S : j < i}) < Batch}

\* Mutant: the attempts are counted down.
ClaimCountsDown(w) ==
    LET taken == Oldest(Claimable) IN
    /\ At(w, "idle")
    /\ taken # {}
    /\ status' = [i \in Imports |-> IF i \in taken THEN "processing" ELSE status[i]]
    /\ attempts' = [i \in Imports |-> attempts[i] - (IF i \in taken THEN 1 ELSE 0)]
    /\ Becomes(w, [Free EXCEPT !.pc = "next", !.held = taken])
    /\ UNCHANGED <<file, source, stale, expired, rows, audit>>

\* One call: overdue sources are destroyed, exhausted jobs given up, the oldest others claimed.
\* A row another transaction holds is skipped and found by the next call.
Claim(w) ==
    LET taken == Oldest(Claimable)
        ended == {i \in Overdue : Unfinished(i)} \cup Exhausted IN
    /\ At(w, "idle")
    /\ Overdue \cup Exhausted \cup taken # {}
    /\ status' = [i \in Imports |-> IF i \in ended THEN "failed"
                                    ELSE IF i \in taken THEN "processing" ELSE status[i]]
    /\ source' = [i \in Imports |-> source[i] /\ i \notin Overdue \cup Exhausted]
    /\ attempts' = [i \in Imports |-> attempts[i] + (IF i \in taken THEN 1 ELSE 0)]
    /\ stale' = [i \in Imports |-> stale[i] /\ i \notin Overdue \cup Exhausted \cup taken]
    /\ audit' = [i \in Imports |-> audit[i]
                    \cup (IF i \in Overdue THEN {"source_deleted"} ELSE {})
                    \cup (IF i \in Exhausted THEN {"failed"} ELSE {})]
    /\ Becomes(w, IF taken = {} THEN Free ELSE [Free EXCEPT !.pc = "next", !.held = taken])
    /\ UNCHANGED <<file, expired, rows>>

-----------------------------------------------------------------------------
(* processQueued *)

\* The source is read; when that throws, the import is left to the next claim.
Fetch(w, i) ==
    /\ At(w, "next")
    /\ i \in worker[w].held
    /\ \/ Becomes(w, [worker[w] EXCEPT !.job = i,
                        !.pc = IF status[i] = "processing" /\ source[i] THEN "analyze" ELSE "fail"])
       \/ NextJob(w, i)
    /\ UNCHANGED queue

\* Anything in the try block throws: the decryption, the analysis, completeProcessing.
AnalysisFails(w) ==
    /\ At(w, "analyze")
    /\ Becomes(w, [worker[w] EXCEPT !.pc = "fail"])
    /\ UNCHANGED queue

\* Mutant: rows are stored for every import that is still there.
CompleteAnyway(w) ==
    LET i == worker[w].job IN
    /\ At(w, "analyze")
    /\ NextJob(w, i)
    /\ status[i] # "deleted"
    /\ SetStatus(i, "ready")
    /\ stale' = [stale EXCEPT ![i] = FALSE]
    /\ rows' = [rows EXCEPT ![i] = @ + 1]
    /\ Record({i}, "processed")
    /\ UNCHANGED <<file, source, attempts, expired>>

\* completeProcessing: rows, counts, status and event in one transaction, if still processing.
Complete(w) ==
    LET i == worker[w].job IN
    /\ At(w, "analyze")
    /\ NextJob(w, i)
    /\ \/ /\ status[i] = "processing"
          /\ SetStatus(i, "ready")
          /\ stale' = [stale EXCEPT ![i] = FALSE]
          /\ rows' = [rows EXCEPT ![i] = @ + 1]
          /\ Record({i}, "processed")
          /\ UNCHANGED <<file, source, attempts, expired>>
       \/ /\ status[i] # "processing"
          /\ UNCHANGED queue

\* Mutant: whatever has become of the import, it is marked failed.
FailAnyway(w) ==
    LET i == worker[w].job IN
    /\ At(w, "fail")
    /\ NextJob(w, i)
    /\ SetStatus(i, "failed")
    /\ stale' = [stale EXCEPT ![i] = FALSE]
    /\ Record({i}, "failed")
    /\ UNCHANGED <<file, source, attempts, expired, rows>>

\* failProcessing, if still processing; when it throws, the import is left to the next claim.
Fail(w) ==
    LET i == worker[w].job IN
    /\ At(w, "fail")
    /\ NextJob(w, i)
    /\ \/ /\ status[i] = "processing"
          /\ SetStatus(i, "failed")
          /\ stale' = [stale EXCEPT ![i] = FALSE]
          /\ Record({i}, "failed")
          /\ UNCHANGED <<file, source, attempts, expired, rows>>
       \/ UNCHANGED queue

-----------------------------------------------------------------------------
(* Time and faults *)

\* Five minutes since the claim, whether or not its worker is still busy.
ClaimAges(i) ==
    /\ status[i] = "processing"
    /\ ~ stale[i]
    /\ stale' = [stale EXCEPT ![i] = TRUE]
    /\ UNCHANGED <<status, file, source, attempts, expired, rows, audit, worker>>

\* Ninety days since the upload.
SourceExpires(i) ==
    /\ source[i]
    /\ ~ expired[i]
    /\ expired' = [expired EXCEPT ![i] = TRUE]
    /\ UNCHANGED <<status, file, source, attempts, stale, rows, audit, worker>>

\* The process dies with everything it has claimed.
Crash(w) ==
    /\ ~ At(w, "idle")
    /\ Becomes(w, Free)
    /\ UNCHANGED queue

Work(w) ==
    \/ Claim(w)
    \/ \E i \in Imports : Fetch(w, i)
    \/ Complete(w) \/ AnalysisFails(w) \/ Fail(w)

Next ==
    \/ \E i \in Imports : Enqueue(i) \/ DeleteSource(i) \/ Delete(i) \/ Approve(i)
    \/ \E w \in Workers : Work(w) \/ Crash(w)
    \/ \E i \in Imports : ClaimAges(i) \/ SourceExpires(i)

\* The ten second timer of every process claims again and again, a worker that runs goes on,
\* and five minutes pass.  Users owe nothing, and nothing bounds the crashes.
Fairness ==
    /\ \A w \in Workers : WF_vars(Work(w))
    /\ \A i \in Imports : WF_vars(ClaimAges(i))

Spec == Init /\ [][Next]_vars /\ Fairness

-----------------------------------------------------------------------------
(* Properties *)

\* Every variable keeps its type: the columns of the schema and the workers' locals.
TypeOK ==
    /\ status \in [Imports -> Status]
    /\ file \in [Imports -> Files]
    /\ source \in [Imports -> BOOLEAN]
    /\ attempts \in [Imports -> 0..MaxAttempts]
    /\ stale \in [Imports -> BOOLEAN]
    /\ expired \in [Imports -> BOOLEAN]
    /\ rows \in [Imports -> Nat]
    /\ audit \in [Imports -> SUBSET Event]
    /\ worker \in [Workers -> Worker]

\* Row ids are random, so nothing but the status keeps a worker that was overtaken from adding
\* its rows to those of its successor: an import is extracted at most once, it has rows exactly
\* when it was processed, and its audit trail never tells of two outcomes.
OneOutcome ==
    \A i \in Imports :
        /\ rows[i] = (IF "processed" \in audit[i] THEN 1 ELSE 0)
        /\ ~ {"processed", "failed"} \subseteq audit[i]
        /\ status[i] \in {"ready", "approved"} => rows[i] = 1
        /\ status[i] \in {"none", "queued", "processing", "failed"} => rows[i] = 0

\* A late worker, a late failure or an expiry never reopens or overturns what is settled: a
\* reviewable import can only be approved or deleted, and the other ends only be deleted.
SettledStays ==
    [][\A i \in Imports :
        /\ status[i] = "ready" => status'[i] \in {"ready", "approved", "deleted"}
        /\ status[i] \in {"approved", "failed"} => status'[i] \in {status[i], "deleted"}
        /\ status[i] = "deleted" => status'[i] = "deleted"]_vars

\* However many workers die, a queued import leaves the queue, unless its source was deleted by
\* the user: that import no claim will ever see again.
ImportsSettle ==
    \A i \in Imports : (Unfinished(i) /\ source[i]) ~> (~ Unfinished(i) \/ ~ source[i])

=============================================================================
