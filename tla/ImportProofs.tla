---------------------------- MODULE ImportProofs ----------------------------
(***************************************************************************)
(* Proofs about the imports: StatementQueue for any number of workers,     *)
(* files, imports and attempts, and CsvImports for any rows a file can     *)
(* have and any number of requests that commit it.                         *)
(***************************************************************************)
EXTENDS StatementQueue, CsvImports, FiniteSetTheorems, WellFoundedInduction, TLAPS

\* What OneOutcome needs to be inductive: nothing has ended before it has ended.
Pending == \A i \in Imports :
    status[i] \in {"none", "queued", "processing"} => "failed" \notin audit[i]

\* A worker that analyses or fails has a job.
Busy == \A w \in Workers : worker[w].pc \in {"analyze", "fail"} => worker[w].job \in Imports

IInv == TypeOK /\ OneOutcome /\ Pending /\ Busy

-----------------------------------------------------------------------------
(* Types *)

\* Whatever a runner turns to, it stays a worker, and only its own entry changes.
LEMMA WorkerTypes ==
  ASSUME TypeOK, NEW w \in Workers
  PROVE  /\ Free \in Worker
         /\ \A H \in SUBSET Imports : [Free EXCEPT !.pc = "next", !.held = H] \in Worker
         /\ \A i \in Imports, p \in {"analyze", "fail"} :
              [worker[w] EXCEPT !.job = i, !.pc = p] \in Worker
         /\ [worker[w] EXCEPT !.pc = "fail"] \in Worker
         /\ \A i : [pc |-> IF worker[w].held \ {i} = {} THEN "idle" ELSE "next",
                    held |-> worker[w].held \ {i}, job |-> 0] \in Worker
         /\ worker[w].job \in 0..MaxImports
         /\ \A q \in Worker : Becomes(w, q) => worker' \in [Workers -> Worker]
<1>1. MaxImports \in Nat
  BY StatementQueueAssumption
<1>2. worker[w] \in Worker /\ worker[w].held \in SUBSET Imports
  BY DEF TypeOK, Worker
<1>3. Free \in Worker
  BY <1>1 DEF Free, Worker
<1>4. ASSUME NEW H \in SUBSET Imports
      PROVE  [Free EXCEPT !.pc = "next", !.held = H] \in Worker
  <2>1. \A q \in Worker : [q EXCEPT !.pc = "next", !.held = H] \in Worker
    BY DEF Worker
  <2> QED
    BY <1>3, <2>1
<1>5. ASSUME NEW i \in Imports, NEW p \in {"analyze", "fail"}
      PROVE  [worker[w] EXCEPT !.job = i, !.pc = p] \in Worker
  <2>1. i \in 0..MaxImports
    BY <1>1 DEF Imports
  <2>2. p \in {"idle", "next", "analyze", "fail"}
    OBVIOUS
  <2>3. \A q \in Worker, j \in 0..MaxImports, pc \in {"idle", "next", "analyze", "fail"} :
          [q EXCEPT !.job = j, !.pc = pc] \in Worker
    BY DEF Worker
  <2> QED
    BY <1>2, <2>1, <2>2, <2>3
<1>6. [worker[w] EXCEPT !.pc = "fail"] \in Worker
  BY <1>2 DEF Worker
<1>7. ASSUME NEW i
      PROVE  [pc |-> IF worker[w].held \ {i} = {} THEN "idle" ELSE "next",
              held |-> worker[w].held \ {i}, job |-> 0] \in Worker
  BY <1>1, <1>2 DEF Worker
<1>8. worker[w].job \in 0..MaxImports
  BY <1>2 DEF Worker
<1>9. ASSUME NEW q \in Worker, Becomes(w, q)
      PROVE  worker' \in [Workers -> Worker]
  BY <1>9 DEF Becomes, TypeOK
<1> QED
  BY <1>3, <1>4, <1>5, <1>6, <1>7, <1>8, <1>9

\* The end of a job leaves every worker a worker.
LEMMA NextJobTypes ==
  ASSUME TypeOK, NEW w \in Workers, NEW i, NextJob(w, i)
  PROVE  worker' \in [Workers -> Worker]
  BY WorkerTypes DEF NextJob

\* An audit entry of a known kind keeps the audit trail's type.
LEMMA RecordTypes ==
  ASSUME TypeOK, NEW S, NEW kind \in Event, Record(S, kind)
  PROVE  audit' \in [Imports -> SUBSET Event]
<1>1. \A i \in Imports : audit[i] \in SUBSET Event
  BY DEF TypeOK
<1>2. \A i \in Imports : (IF i \in S THEN audit[i] \cup {kind} ELSE audit[i]) \in SUBSET Event
  BY <1>1
<1> QED
  BY <1>2 DEF Record

\* A new status keeps the type of the column.
LEMMA StatusTypes ==
  ASSUME TypeOK, NEW i, NEW s \in Status, SetStatus(i, s)
  PROVE  status' \in [Imports -> Status]
  BY DEF SetStatus, TypeOK

\* The users' calls keep the types.
LEMMA UserTypes ==
  ASSUME TypeOK, NEW i \in Imports, Enqueue(i) \/ DeleteSource(i) \/ Delete(i) \/ Approve(i)
  PROVE  TypeOK'
<1> {"created", "source_deleted", "deleted", "approved"} \subseteq Event
  BY DEF Event
<1> {"queued", "deleted", "approved"} \subseteq Status
  BY DEF Status
<1>1. CASE Enqueue(i)
  BY <1>1, RecordTypes, StatusTypes DEF Enqueue, TypeOK
<1>2. CASE DeleteSource(i)
  BY <1>2, RecordTypes DEF DeleteSource, TypeOK
<1>3. CASE Delete(i)
  BY <1>3, RecordTypes, StatusTypes DEF Delete, TypeOK
<1>4. CASE Approve(i)
  BY <1>4, RecordTypes, StatusTypes DEF Approve, TypeOK
<1> QED
  BY <1>1, <1>2, <1>3, <1>4

\* The three sets of a claim concern imports, and only unfinished ones are claimed or given up.
LEMMA ClaimSets ==
  ASSUME TypeOK
  PROVE  /\ Overdue \subseteq Imports
         /\ Exhausted \subseteq Imports
         /\ \A i \in Exhausted : status[i] = "processing"
         /\ Oldest(Claimable) \subseteq Imports
         /\ \A i \in Oldest(Claimable) : /\ status[i] \in {"queued", "processing"}
                                         /\ attempts[i] < MaxAttempts
  BY DEF Overdue, Exhausted, Claimable, Oldest

\* A claim keeps the types: nobody is claimed once more than the attempts allow.
LEMMA ClaimTypes ==
  ASSUME TypeOK, NEW w \in Workers, Claim(w)
  PROVE  TypeOK'
<1> DEFINE taken == Oldest(Claimable)
           ended == {i \in Overdue : Unfinished(i)} \cup Exhausted
<1>1. taken \subseteq Imports /\ \A i \in taken : attempts[i] < MaxAttempts
  BY ClaimSets
<1>2. status' \in [Imports -> Status]
  <2>1. \A i \in Imports : (IF i \in ended THEN "failed"
                            ELSE IF i \in taken THEN "processing" ELSE status[i]) \in Status
    BY DEF TypeOK, Status
  <2>2. status' = [i \in Imports |-> IF i \in ended THEN "failed"
                                     ELSE IF i \in taken THEN "processing" ELSE status[i]]
    BY DEF Claim
  <2> QED
    BY <2>1, <2>2
<1>3. attempts' \in [Imports -> 0..MaxAttempts]
  <2>1. MaxAttempts \in Nat
    BY StatementQueueAssumption
  <2>2. ASSUME NEW i \in Imports
        PROVE  attempts[i] + (IF i \in taken THEN 1 ELSE 0) \in 0..MaxAttempts
    BY <1>1, <2>1 DEF TypeOK
  <2>3. attempts' = [i \in Imports |-> attempts[i] + (IF i \in taken THEN 1 ELSE 0)]
    BY DEF Claim
  <2> QED
    BY <2>2, <2>3
<1>4. source' \in [Imports -> BOOLEAN] /\ stale' \in [Imports -> BOOLEAN]
  BY DEF Claim
<1>5. audit' \in [Imports -> SUBSET Event]
  <2>1. ASSUME NEW i \in Imports
        PROVE  (audit[i] \cup (IF i \in Overdue THEN {"source_deleted"} ELSE {})
                         \cup (IF i \in Exhausted THEN {"failed"} ELSE {})) \in SUBSET Event
    BY DEF TypeOK, Event
  <2> QED
    BY <2>1 DEF Claim
<1>6. worker' \in [Workers -> Worker]
  BY <1>1, WorkerTypes DEF Claim
<1> QED
  BY <1>2, <1>3, <1>4, <1>5, <1>6 DEF Claim, TypeOK

\* processQueued keeps the types.
LEMMA WorkTypes ==
  ASSUME TypeOK, NEW w \in Workers,
         (\E i \in Imports : Fetch(w, i)) \/ Complete(w) \/ AnalysisFails(w) \/ Fail(w)
  PROVE  TypeOK'
<1> {"processed", "failed"} \subseteq Event /\ {"ready", "failed"} \subseteq Status
  BY DEF Event, Status
<1>1. ASSUME NEW i \in Imports, Fetch(w, i)
      PROVE  TypeOK'
  <2>1. worker' \in [Workers -> Worker]
    BY <1>1, WorkerTypes, NextJobTypes DEF Fetch
  <2> QED
    BY <1>1, <2>1 DEF Fetch, queue, TypeOK
<1>2. CASE AnalysisFails(w)
  BY <1>2, WorkerTypes DEF AnalysisFails, queue, TypeOK
<1>3. CASE Complete(w)
  <2>1. worker' \in [Workers -> Worker]
    BY <1>3, NextJobTypes DEF Complete
  <2>2. rows' \in [Imports -> Nat]
    BY <1>3 DEF Complete, queue, TypeOK
  <2>3. CASE status[worker[w].job] = "processing"
    BY <1>3, <2>1, <2>2, <2>3, RecordTypes, StatusTypes DEF Complete, TypeOK
  <2>4. CASE status[worker[w].job] # "processing"
    BY <1>3, <2>1, <2>4 DEF Complete, queue, TypeOK
  <2> QED
    BY <2>3, <2>4
<1>4. CASE Fail(w)
  <2>1. worker' \in [Workers -> Worker]
    BY <1>4, NextJobTypes DEF Fail
  <2>2. CASE UNCHANGED queue
    BY <2>1, <2>2 DEF queue, TypeOK
  <2>3. CASE ~ UNCHANGED queue
    BY <1>4, <2>1, <2>3, RecordTypes, StatusTypes DEF Fail, TypeOK
  <2> QED
    BY <2>2, <2>3
<1> QED
  BY <1>1, <1>2, <1>3, <1>4

\* Every step keeps the types.
LEMMA TypesStep == TypeOK /\ [Next]_vars => TypeOK'
<1> SUFFICES ASSUME TypeOK, [Next]_vars PROVE TypeOK'
  OBVIOUS
<1>1. ASSUME NEW i \in Imports, Enqueue(i) \/ DeleteSource(i) \/ Delete(i) \/ Approve(i)
      PROVE  TypeOK'
  BY <1>1, UserTypes
<1>2. ASSUME NEW w \in Workers, Work(w)
      PROVE  TypeOK'
  BY <1>2, ClaimTypes, WorkTypes DEF Work
<1>3. ASSUME NEW w \in Workers, Crash(w)
      PROVE  TypeOK'
  BY <1>3, WorkerTypes DEF Crash, queue, TypeOK
<1>4. ASSUME NEW i \in Imports, ClaimAges(i)
      PROVE  TypeOK'
  BY <1>4 DEF ClaimAges, TypeOK
<1>5. ASSUME NEW i \in Imports, SourceExpires(i)
      PROVE  TypeOK'
  BY <1>5 DEF SourceExpires, TypeOK
<1>6. CASE UNCHANGED vars
  BY <1>6 DEF vars, TypeOK
<1> QED
  BY <1>1, <1>2, <1>3, <1>4, <1>5, <1>6 DEF Next

\* The initial state has the types of the schema's defaults.
LEMMA TypesInit == Init => TypeOK
<1> SUFFICES ASSUME Init PROVE TypeOK
  OBVIOUS
<1>1. MaxAttempts \in Nat /\ MaxImports \in Nat /\ 0 \in 0..MaxAttempts
  BY StatementQueueAssumption
<1>2. Free \in Worker
  BY <1>1 DEF Free, Worker
<1> QED
  BY <1>1, <1>2 DEF Init, TypeOK, Status

\* Every variable keeps its type, however the workers die and overtake each other.
THEOREM TypeCorrect == Spec => []TypeOK
<1>1. TypeOK /\ [Next]_vars => TypeOK'
  BY TypesStep
<1> QED
  BY TypesInit, <1>1, PTL DEF Spec

-----------------------------------------------------------------------------
(* One outcome *)

\* The invariant looks at one import at a time.
One(s, r, a) ==
    /\ r = (IF "processed" \in a THEN 1 ELSE 0)
    /\ ~ {"processed", "failed"} \subseteq a
    /\ s \in {"ready", "approved"} => r = 1
    /\ s \in {"none", "queued", "processing", "failed"} => r = 0
    /\ s \in {"none", "queued", "processing"} => "failed" \notin a

\* The two invariants, import by import.
LEMMA OneRestated == OneOutcome /\ Pending <=> \A i \in Imports : One(status[i], rows[i], audit[i])
  BY DEF OneOutcome, Pending, One

\* The events that are no outcome, and the changes of status that settle nothing anew.
LEMMA OneKept ==
  ASSUME NEW s, NEW r, NEW a, One(s, r, a)
  PROVE  /\ \A e \in {"created", "source_deleted", "deleted", "approved"} : One(s, r, a \cup {e})
         /\ s = "none" => One("queued", r, a \cup {"created"})
         /\ One("deleted", r, a \cup {"deleted"})
         /\ s = "ready" => One("approved", r, a \cup {"approved"})
         /\ s = "processing" => One("ready", r + 1, a \cup {"processed"})
         /\ s = "processing" => One("failed", r, a \cup {"failed"})
         /\ s \in {"queued", "processing"} => One("processing", r, a) /\ One("failed", r, a)
  BY DEF One

\* A step of the user, or of a worker, on one import.
LEMMA OneImport ==
  ASSUME TypeOK, NEW i \in Imports, NEW s \in Status, NEW e \in Event, NEW r,
         SetStatus(i, s), Record({i}, e), rows' = [rows EXCEPT ![i] = r],
         \A j \in Imports : One(status[j], rows[j], audit[j]),
         One(s, r, audit[i] \cup {e})
  PROVE  \A j \in Imports : One(status'[j], rows'[j], audit'[j])
<1>1. status'[i] = s /\ rows'[i] = r /\ audit'[i] = audit[i] \cup {e}
  BY DEF SetStatus, Record, TypeOK
<1>2. \A j \in Imports \ {i} : status'[j] = status[j] /\ rows'[j] = rows[j] /\ audit'[j] = audit[j]
  BY DEF SetStatus, Record, TypeOK
<1> QED
  BY <1>1, <1>2

\* Each user's call keeps one outcome per import.
LEMMA UserOutcome ==
  ASSUME TypeOK, NEW i \in Imports, Enqueue(i) \/ DeleteSource(i) \/ Delete(i) \/ Approve(i),
         \A j \in Imports : One(status[j], rows[j], audit[j])
  PROVE  \A j \in Imports : One(status'[j], rows'[j], audit'[j])
<1> {"created", "source_deleted", "deleted", "approved"} \subseteq Event
  BY DEF Event
<1> {"queued", "deleted", "approved"} \subseteq Status
  BY DEF Status
<1>0. rows = [rows EXCEPT ![i] = rows[i]] /\ status = [status EXCEPT ![i] = status[i]] /\ status[i] \in Status
  BY DEF TypeOK
<1>1. CASE Enqueue(i)
  BY <1>0, <1>1, OneKept, OneImport DEF Enqueue
<1>2. CASE DeleteSource(i)
  BY <1>0, <1>2, OneKept, OneImport DEF DeleteSource, SetStatus
<1>3. CASE Delete(i)
  BY <1>0, <1>3, OneKept, OneImport DEF Delete
<1>4. CASE Approve(i)
  BY <1>0, <1>4, OneKept, OneImport DEF Approve
<1> QED
  BY <1>1, <1>2, <1>3, <1>4

\* A claim keeps one outcome per import: it ends or takes only what has none.
LEMMA ClaimOutcome ==
  ASSUME TypeOK, NEW w \in Workers, Claim(w),
         \A j \in Imports : One(status[j], rows[j], audit[j])
  PROVE  \A j \in Imports : One(status'[j], rows'[j], audit'[j])
<1> DEFINE taken == Oldest(Claimable)
           ended == {i \in Overdue : Unfinished(i)} \cup Exhausted
<1> SUFFICES ASSUME NEW j \in Imports PROVE One(status'[j], rows'[j], audit'[j])
  OBVIOUS
<1>0. One(status[j], rows[j], audit[j]) /\ rows'[j] = rows[j]
  BY DEF Claim
<1>1. status'[j] = IF j \in ended THEN "failed"
                   ELSE IF j \in taken THEN "processing" ELSE status[j]
  BY DEF Claim
<1>2. audit'[j] = audit[j] \cup (IF j \in Overdue THEN {"source_deleted"} ELSE {})
                           \cup (IF j \in Exhausted THEN {"failed"} ELSE {})
  BY DEF Claim
<1>3. /\ j \in Exhausted => status[j] = "processing" /\ j \notin Overdue
      /\ j \in taken => status[j] \in {"queued", "processing"} /\ j \notin Overdue
  BY ClaimSets DEF Exhausted, Oldest, Claimable
<1>4. CASE j \in Exhausted
  <2>1. status'[j] = "failed" /\ audit'[j] = audit[j] \cup {"failed"}
    BY <1>1, <1>2, <1>3, <1>4
  <2>2. One("failed", rows[j], audit[j] \cup {"failed"})
    BY <1>0, <1>3, <1>4, OneKept
  <2> QED
    BY <1>0, <2>1, <2>2
<1>5. CASE j \in Overdue
  <2>1. audit'[j] = audit[j] \cup {"source_deleted"}
    BY <1>2, <1>3, <1>5
  <2>2. status'[j] = status[j] \/ (status'[j] = "failed" /\ status[j] \in {"queued", "processing"})
    BY <1>1, <1>3, <1>5 DEF Unfinished
  <2>3. One(status'[j], rows[j], audit[j])
    BY <1>0, <2>2, OneKept DEF One
  <2>4. One(status'[j], rows[j], audit[j] \cup {"source_deleted"})
    BY <2>3, OneKept
  <2> QED
    BY <1>0, <2>1, <2>4 DEF One
<1>6. CASE j \notin Exhausted \cup Overdue
  <2>1. audit'[j] = audit[j]
    BY <1>2, <1>6
  <2>2. status'[j] = IF j \in taken THEN "processing" ELSE status[j]
    BY <1>1, <1>6
  <2>3. One(status'[j], rows[j], audit[j])
    BY <1>0, <1>3, <2>2, OneKept DEF One
  <2> QED
    BY <1>0, <2>1, <2>3 DEF One
<1> QED
  BY <1>4, <1>5, <1>6

\* A worker keeps one outcome per import: both of its writes ask whether one is still due.
LEMMA WorkOutcome ==
  ASSUME TypeOK, Busy, NEW w \in Workers,
         (\E i \in Imports : Fetch(w, i)) \/ Complete(w) \/ AnalysisFails(w) \/ Fail(w),
         \A j \in Imports : One(status[j], rows[j], audit[j])
  PROVE  \A j \in Imports : One(status'[j], rows'[j], audit'[j])
<1> {"processed", "failed"} \subseteq Event /\ {"ready", "failed"} \subseteq Status
  BY DEF Event, Status
<1> DEFINE i == worker[w].job
<1>1. CASE UNCHANGED queue
  BY <1>1 DEF queue
<1>2. CASE Complete(w) /\ ~ UNCHANGED queue
  <2>1. i \in Imports
    BY <1>2 DEF Complete, Busy, At
  <2>2. One("ready", rows[i] + 1, audit[i] \cup {"processed"})
    BY <1>2, <2>1, OneKept DEF Complete
  <2>3. rows' = [rows EXCEPT ![i] = rows[i] + 1] /\ SetStatus(i, "ready") /\ Record({i}, "processed")
    BY <1>2, <2>1 DEF Complete
  <2> QED
    BY <2>1, <2>2, <2>3, OneImport
<1>3. CASE Fail(w) /\ ~ UNCHANGED queue
  <2>1. i \in Imports
    BY <1>3 DEF Fail, Busy, At
  <2>2. One("failed", rows[i], audit[i] \cup {"failed"})
    BY <1>3, <2>1, OneKept DEF Fail
  <2>3. rows' = [rows EXCEPT ![i] = rows[i]] /\ SetStatus(i, "failed") /\ Record({i}, "failed")
    BY <1>3, <2>1 DEF Fail, TypeOK
  <2> QED
    BY <2>1, <2>2, <2>3, OneImport
<1> QED
  BY <1>1, <1>2, <1>3 DEF Fetch, AnalysisFails

\* Only Fetch and AnalysisFails lead to the steps that need a job.
LEMMA BusyStep == TypeOK /\ Busy /\ [Next]_vars => Busy'
<1> SUFFICES ASSUME TypeOK, Busy, [Next]_vars PROVE Busy'
  OBVIOUS
<1>1. ASSUME NEW w \in Workers, NEW q, Becomes(w, q), q.pc \in {"analyze", "fail"} => q.job \in Imports
      PROVE  Busy'
  BY <1>1 DEF Becomes, Busy, TypeOK
<1>2. ASSUME NEW w \in Workers, NEW i, NextJob(w, i)
      PROVE  Busy'
  BY <1>1, <1>2 DEF NextJob
<1>3. ASSUME NEW w \in Workers, Claim(w)
      PROVE  Busy'
  <2>1. /\ Free.pc = "idle"
        /\ [Free EXCEPT !.pc = "next", !.held = Oldest(Claimable)].pc = "next"
    BY DEF Free
  <2> QED
    BY <1>1, <1>3, <2>1 DEF Claim
<1>4. ASSUME NEW w \in Workers, NEW i \in Imports, Fetch(w, i)
      PROVE  Busy'
  <2>1. worker[w] \in Worker
    BY DEF TypeOK
  <2>2. \A p : [worker[w] EXCEPT !.job = i, !.pc = p].job = i
    BY <2>1 DEF Worker
  <2> QED
    BY <1>1, <1>2, <1>4, <2>2 DEF Fetch
<1>5. ASSUME NEW w \in Workers, AnalysisFails(w)
      PROVE  Busy'
  <2>1. worker[w] \in Worker /\ worker[w].job \in Imports
    BY <1>5 DEF TypeOK, AnalysisFails, At, Busy
  <2>2. [worker[w] EXCEPT !.pc = "fail"].job = worker[w].job
    BY <2>1 DEF Worker
  <2> QED
    BY <1>1, <1>5, <2>1, <2>2 DEF AnalysisFails
<1>6. ASSUME NEW w \in Workers, Crash(w)
      PROVE  Busy'
  BY <1>1, <1>6 DEF Crash, Free
<1>7. ASSUME worker' = worker
      PROVE  Busy'
  BY <1>7 DEF Busy
<1> QED
  BY <1>2, <1>3, <1>4, <1>5, <1>6, <1>7
  DEF Next, Work, Complete, Fail, Enqueue, DeleteSource, Delete, Approve, ClaimAges, SourceExpires, vars

\* The strengthened invariant is inductive.
LEMMA InvariantStep == IInv /\ [Next]_vars => IInv'
<1> SUFFICES ASSUME IInv, [Next]_vars PROVE IInv'
  OBVIOUS
<1>1. TypeOK' /\ Busy'
  BY TypesStep, BusyStep DEF IInv
<1>2. \A j \in Imports : One(status[j], rows[j], audit[j])
  BY OneRestated DEF IInv
<1>3. \A j \in Imports : One(status'[j], rows'[j], audit'[j])
  <2>1. ASSUME NEW i \in Imports, Enqueue(i) \/ DeleteSource(i) \/ Delete(i) \/ Approve(i)
        PROVE  \A j \in Imports : One(status'[j], rows'[j], audit'[j])
    BY <1>2, <2>1, UserOutcome DEF IInv
  <2>2. ASSUME NEW w \in Workers, Work(w)
        PROVE  \A j \in Imports : One(status'[j], rows'[j], audit'[j])
    BY <1>2, <2>2, ClaimOutcome, WorkOutcome DEF IInv, Work
  <2>3. ASSUME UNCHANGED <<status, rows, audit>>
        PROVE  \A j \in Imports : One(status'[j], rows'[j], audit'[j])
    BY <1>2, <2>3
  <2> QED
    BY <2>1, <2>2, <2>3 DEF Next, Crash, ClaimAges, SourceExpires, queue, vars
<1>4. OneOutcome' /\ Pending'
  BY <1>3 DEF OneOutcome, Pending, One
<1> QED
  BY <1>1, <1>4 DEF IInv

\* Nothing has been uploaded at first.
LEMMA InvariantInit == Init => IInv
<1> SUFFICES ASSUME Init PROVE IInv
  OBVIOUS
<1>1. OneOutcome /\ Pending
  BY DEF Init, OneOutcome, Pending
<1>2. Busy
  BY DEF Init, Busy, Free
<1> QED
  BY <1>1, <1>2, TypesInit DEF IInv

\* However late a worker is, an import is extracted at most once and never tells of two outcomes.
THEOREM OneOutcomeHolds == Spec => []OneOutcome
<1>1. IInv => OneOutcome
  BY DEF IInv
<1> QED
  BY InvariantInit, InvariantStep, <1>1, PTL DEF Spec

-----------------------------------------------------------------------------
(* What is settled stays *)

\* The step property of one import.
Kept(s, t) ==
    /\ s = "ready" => t \in {"ready", "approved", "deleted"}
    /\ s \in {"approved", "failed"} => t \in {s, "deleted"}
    /\ s = "deleted" => t = "deleted"

\* Every write of a status asks for one that is not settled, except the user's deletion.
LEMMA KeptStep ==
  ASSUME TypeOK, Busy, [Next]_vars, NEW j \in Imports
  PROVE  Kept(status[j], status'[j])
<1>1. ASSUME NEW i \in Imports, NEW s, SetStatus(i, s), Kept(status[i], s)
      PROVE  Kept(status[j], status'[j])
  BY <1>1 DEF SetStatus, TypeOK, Kept
<1>2. ASSUME NEW i \in Imports, Enqueue(i) \/ Delete(i) \/ Approve(i)
      PROVE  Kept(status[j], status'[j])
  BY <1>1, <1>2 DEF Enqueue, Delete, Approve, Kept
<1>3. ASSUME NEW w \in Workers, Claim(w)
      PROVE  Kept(status[j], status'[j])
  <2> DEFINE taken == Oldest(Claimable)
             ended == {i \in Overdue : Unfinished(i)} \cup Exhausted
  <2>1. status'[j] = IF j \in ended THEN "failed"
                     ELSE IF j \in taken THEN "processing" ELSE status[j]
    BY <1>3 DEF Claim
  <2>2. j \in ended \cup taken => status[j] \in {"queued", "processing"}
    BY ClaimSets DEF Unfinished
  <2> QED
    BY <2>1, <2>2 DEF Kept
<1>4. ASSUME NEW w \in Workers, Complete(w) \/ Fail(w)
      PROVE  Kept(status[j], status'[j])
  <2>1. worker[w].job \in Imports
    BY <1>4 DEF Complete, Fail, At, Busy
  <2>2. CASE status' = status
    BY <2>2 DEF Kept
  <2>3. CASE status' # status
    BY <1>1, <1>4, <2>1, <2>3 DEF Complete, Fail, queue, Kept
  <2> QED
    BY <2>2, <2>3
<1>5. ASSUME status' = status
      PROVE  Kept(status[j], status'[j])
  BY <1>5 DEF Kept
<1> QED
  BY <1>2, <1>3, <1>4, <1>5
  DEF Next, Work, DeleteSource, Fetch, AnalysisFails, Crash, ClaimAges, SourceExpires, queue, vars

\* No late worker, late failure or expiry reopens or overturns what is settled.
THEOREM SettledStaysHolds == Spec => SettledStays
<1>1. TypeOK /\ Busy /\ [Next]_vars =>
        [\A i \in Imports :
            /\ status[i] = "ready" => status'[i] \in {"ready", "approved", "deleted"}
            /\ status[i] \in {"approved", "failed"} => status'[i] \in {status[i], "deleted"}
            /\ status[i] = "deleted" => status'[i] = "deleted"]_vars
  BY KeptStep DEF Kept
<1>2. IInv => TypeOK /\ Busy
  BY DEF IInv
<1> QED
  BY InvariantInit, InvariantStep, <1>1, <1>2, PTL DEF Spec, SettledStays

-----------------------------------------------------------------------------
(* Numbers *)

\* Of some numbers one is the least.
LEMMA LeastNumber ==
  ASSUME NEW S, S \subseteq Nat, S # {}
  PROVE  \E m \in S : \A k \in S : m <= k
<1> DEFINE R == OpToRel(<, Nat)
<1>1. IsWellFoundedOn(R, Nat)
  BY NatLessThanWellFounded
<1>2. \A x, y \in Nat : x < y => <<x, y>> \in R
  <2> SUFFICES ASSUME NEW x \in Nat, NEW y \in Nat, x < y
               PROVE  <<x, y>> \in R
    OBVIOUS
  <2>1. <<x, y>> \in {ss \in Nat \X Nat : ss[1] < ss[2]}
    OBVIOUS
  <2> QED
    BY <2>1 DEF OpToRel
<1> HIDE DEF R
<1>3. PICK x \in S : \A y \in S : ~ (<<y, x>> \in R)
  <2>1. \E x \in S : \A y \in S : ~ (<<y, x>> \in R)
    BY <1>1, WFMin
  <2> QED
    BY <2>1
<1>4. \A y \in S : x <= y
  <2> SUFFICES ASSUME NEW y \in S, ~ (x <= y)
               PROVE  FALSE
    OBVIOUS
  <2>1. x \in Nat /\ y \in Nat
    OBVIOUS
  <2>2. y < x
    BY <2>1
  <2>3. <<y, x>> \in R
    BY <1>2, <2>1, <2>2
  <2> QED
    BY <1>3, <2>3
<1> QED
  BY <1>3, <1>4

\* Of the numbers, one that is in S has one below it that is, or 0 is; so all are when 0 is and each
\* takes the next along.
LEMMA AllNumbers ==
  ASSUME NEW S, 0 \in S, \A n \in Nat : n \in S => n + 1 \in S
  PROVE  Nat \subseteq S
<1> DEFINE Bad == {n \in Nat : n \notin S}
<1> SUFFICES ASSUME Bad # {} PROVE FALSE
  OBVIOUS
<1>1. PICK m \in Bad : \A k \in Bad : m <= k
  <2>1. Bad \subseteq Nat
    OBVIOUS
  <2> HIDE DEF Bad
  <2> QED
    BY <2>1, LeastNumber
<1>2. m \in Nat /\ m \notin S
  OBVIOUS
<1>3. m # 0
  BY <1>2
<1>4. m - 1 \in Nat /\ m = (m - 1) + 1
  BY <1>2, <1>3
<1>5. m - 1 \in S
  <2>1. ~ (m <= m - 1)
    BY <1>2
  <2>2. m - 1 \notin Bad
    BY <2>1, <1>1
  <2> QED
    BY <2>2, <1>4
<1>6. (m - 1) + 1 \in S
  BY <1>4, <1>5
<1> QED
  BY <1>2, <1>4, <1>6

-----------------------------------------------------------------------------
(* CsvImports: the review *)

\* A number among those that are not smaller than it.
LEMMA GreatestOf ==
  ASSUME NEW S, S \subseteq Nat, NEW n \in S, \A k \in S : k <= n
  PROVE  Max(S) = n
<1>1. \E m \in S : \A k \in S : m >= k
  <2>1. \A k \in S : n >= k
    OBVIOUS
  <2> QED
    BY <2>1
<1>2. Max(S) \in S /\ \A k \in S : Max(S) >= k
  BY <1>1 DEF Max
<1>3. Max(S) >= n /\ Max(S) <= n /\ Max(S) \in Nat /\ n \in Nat
  BY <1>2
<1> QED
  BY <1>3

\* Two rows are alike, whichever one looks at first, and a row is like itself.
LEMMA DuplicatesEachOther ==
  ASSUME NEW f \in Facts, NEW g \in Facts
  PROVE  Duplicates(f, f) /\ (Duplicates(f, g) => Duplicates(g, f))
<1>1. f.day \in Int /\ g.day \in Int
  BY CsvImportsAssumption
<1>2. DaysApart(f.day, f.day) = 0 /\ DaysApart(f.day, g.day) = DaysApart(g.day, f.day)
  BY <1>1 DEF DaysApart
<1>3. Similarity(f.words, f.words) = 100
  BY DEF Similarity
<1>4. Similarity(f.words, g.words) = Similarity(g.words, f.words)
  <2> DEFINE a == f.words
             b == g.words
  <2>1. a \cap b = b \cap a /\ {a, b} = {b, a} /\ {Cardinality(a), Cardinality(b)} = {Cardinality(b), Cardinality(a)}
    OBVIOUS
  <2>2. Cardinality(a \cap b) = Cardinality(b \cap a)
    BY <2>1, Zenon
  <2>3. Max({Cardinality(a), Cardinality(b)}) = Max({Cardinality(b), Cardinality(a)})
    BY <2>1, Zenon
  <2>4. {} \in {a, b} <=> {} \in {b, a}
    OBVIOUS
  <2> HIDE DEF a, b
  <2>5. (100 * Cardinality(a \cap b)) \div Max({Cardinality(a), Cardinality(b)})
          = (100 * Cardinality(b \cap a)) \div Max({Cardinality(b), Cardinality(a)})
    BY <2>2, <2>3, Zenon
  <2>6. Similarity(a, b) = Similarity(b, a)
    BY <2>4, <2>5, Zenon DEF Similarity
  <2> QED
    BY <2>6 DEF a, b
<1>5. Confidence(f, g) = Confidence(g, f)
  <2>1. f.amount # g.amount <=> g.amount # f.amount
    OBVIOUS
  <2> QED
    BY <1>2, <1>4, <2>1, Zenon DEF Confidence
<1>6. Confidence(f, f) = 100
  BY <1>2, <1>3 DEF Confidence
<1> QED
  BY <1>5, <1>6 DEF Duplicates

\* What the fold of the review says of the rows at the places of a set.
Accept(held, S, i) == IF FindDuplicate(sheet[i], held \cup {sheet[j] : j \in S}) THEN S ELSE S \cup {i}
Places == [i \in DOMAIN sheet |-> i]
Reviews(held, g, D) ==
    g = [s \in SUBSET D |-> IF s = {} THEN {} ELSE Accept(held, g[s \ {Max(s)}], Places[Max(s)])]

LEMMA ReviewIs ==
  ASSUME NEW held
  PROVE  ReviewImport(held) = (CHOOSE g : Reviews(held, g, DOMAIN Places))[DOMAIN Places]
  BY DEF ReviewImport, FoldLeftDomain, FoldLeft, MapThenFoldSet, Reviews, Accept, Places

\* The fold is defined, and so says what it is meant to say.
LEMMA ReviewExists ==
  ASSUME NEW held, NEW n \in Nat
  PROVE  \E g : Reviews(held, g, 1..n)
<1> DEFINE Good == {m \in Nat : \E g : Reviews(held, g, 1..m)}
           With(g, s) == IF s = {} THEN {} ELSE Accept(held, g[s \ {Max(s)}], Places[Max(s)])
<1>1. 0 \in Good
  <2> DEFINE g == [s \in SUBSET (1..0) |-> {}]
  <2>1. \A s \in SUBSET (1..0) : s = {} /\ g[s] = {}
    OBVIOUS
  <2>2. g = [s \in SUBSET (1..0) |-> With(g, s)]
    BY <2>1
  <2>3. Reviews(held, g, 1..0)
    BY <2>2 DEF Reviews
  <2> QED
    BY <2>3
<1>2. \A m \in Nat : m \in Good => m + 1 \in Good
  <2> SUFFICES ASSUME NEW m \in Nat, NEW g, Reviews(held, g, 1..m)
               PROVE  \E h : Reviews(held, h, 1..(m + 1))
    OBVIOUS
  <2> DEFINE D == 1..(m + 1)
             h == [s \in SUBSET D |-> IF m + 1 \in s THEN With(g, s) ELSE g[s]]
  <2>1. \A s \in SUBSET (1..m) : g[s] = With(g, s)
    BY Zenon DEF Reviews
  <2>2. \A s \in SUBSET D : h[s] = IF m + 1 \in s THEN With(g, s) ELSE g[s]
    OBVIOUS
  <2>3. h = [s \in SUBSET D |-> h[s]]
    OBVIOUS
  <2>4. \A s \in SUBSET D : m + 1 \notin s => s \in SUBSET (1..m)
    OBVIOUS
  <2> HIDE DEF h
  <2>5. ASSUME NEW s \in SUBSET D  PROVE h[s] = With(h, s)
    <3> DEFINE r == s \ {Max(s)}
    <3>1. CASE s = {}
      <4>1. h[s] = g[s] /\ s \in SUBSET (1..m)
        BY <2>2, <2>4, <3>1
      <4>2. g[s] = {}
        BY <2>1, <3>1, <4>1
      <4> QED
        BY <3>1, <4>1, <4>2
    <3>2. CASE s # {}
      <4>1. h[s] = With(g, s)
        BY <2>1, <2>2, <2>4
      <4>2. r \in SUBSET (1..m)
        <5>1. CASE m + 1 \in s
          <6>1. s \subseteq Nat /\ \A k \in s : k <= m + 1
            OBVIOUS
          <6>2. Max(s) = m + 1
            BY <5>1, <6>1, GreatestOf
          <6> QED
            BY <6>2
        <5>2. CASE m + 1 \notin s
          BY <2>4, <5>2
        <5> QED
          BY <5>1, <5>2
      <4>3. m + 1 \notin r /\ r \in SUBSET D
        BY <4>2
      <4> HIDE DEF r
      <4>4. h[r] = g[r]
        BY <2>2, <4>3
      <4>5. With(g, s) = Accept(held, g[r], Places[Max(s)]) /\ With(h, s) = Accept(held, h[r], Places[Max(s)])
        BY <3>2, Zenon DEF r
      <4> QED
        BY <4>1, <4>4, <4>5, Zenon
    <3> QED
      BY <3>1, <3>2
  <2> HIDE DEF With
  <2>6. h = [s \in SUBSET D |-> With(h, s)]
    BY <2>3, <2>5
  <2>7. Reviews(held, h, D)
    BY <2>6 DEF Reviews, With
  <2> QED
    BY <2>7
<1>3. Nat \subseteq Good
  <2> HIDE DEF Good
  <2> QED
    BY <1>1, <1>2, AllNumbers
<1> QED
  BY <1>3


\* The rows a review lets in are like no row of the ledger, and like no other of them.
Distinct(held, S) ==
    /\ \A i \in S : ~ FindDuplicate(sheet[i], held)
    /\ \A i, j \in S : Duplicates(sheet[i], sheet[j]) => i = j

LEMMA AcceptKeeps ==
  ASSUME sheet \in [1..FileRows -> Facts], NEW held, NEW S \in SUBSET (1..FileRows), NEW i \in 1..FileRows,
         Distinct(held, S)
  PROVE  Accept(held, S, i) \in SUBSET (S \cup {i}) /\ Distinct(held, Accept(held, S, i))
<1>1. CASE FindDuplicate(sheet[i], held \cup {sheet[j] : j \in S})
  BY <1>1 DEF Accept
<1>2. CASE ~ FindDuplicate(sheet[i], held \cup {sheet[j] : j \in S})
  <2>1. ~ FindDuplicate(sheet[i], held) /\ \A j \in S : ~ Duplicates(sheet[i], sheet[j])
    BY <1>2 DEF FindDuplicate
  <2>2. \A j \in S : ~ Duplicates(sheet[j], sheet[i])
    BY <2>1, DuplicatesEachOther
  <2>3. Distinct(held, S \cup {i})
    BY <2>1, <2>2 DEF Distinct
  <2> QED
    BY <1>2, <2>3 DEF Accept
<1> QED
  BY <1>1, <1>2

LEMMA ReviewIsDistinct ==
  ASSUME sheet \in [1..FileRows -> Facts], NEW held
  PROVE  ReviewImport(held) \in SUBSET (1..FileRows) /\ Distinct(held, ReviewImport(held))
<1> DEFINE D == 1..FileRows
           g == CHOOSE g : Reviews(held, g, D)
           Good == {n \in Nat : n <= FileRows => g[1..n] \in SUBSET (1..n) /\ Distinct(held, g[1..n])}
<1>1. DOMAIN Places = D /\ DOMAIN sheet = D /\ FileRows \in Nat /\ \A i \in D : Places[i] = i
  BY CsvImportsAssumption DEF Places
<1>2. ReviewImport(held) = g[D]
  BY <1>1, ReviewIs, Zenon
<1>3. Reviews(held, g, D)
  BY <1>1, ReviewExists
<1> HIDE DEF g
<1>4. \A s \in SUBSET D : g[s] = IF s = {} THEN {} ELSE Accept(held, g[s \ {Max(s)}], Places[Max(s)])
  BY <1>3, Zenon DEF Reviews
<1>5. 0 \in Good
  <2>1. 1..0 = {} /\ 1..0 \in SUBSET D
    OBVIOUS
  <2>2. g[1..0] = {}
    BY <1>4, <2>1
  <2> QED
    BY <2>1, <2>2 DEF Distinct
<1>6. \A n \in Nat : n \in Good => n + 1 \in Good
  <2> SUFFICES ASSUME NEW n \in Nat, n \in Good, n + 1 <= FileRows
               PROVE  g[1..(n + 1)] \in SUBSET (1..(n + 1)) /\ Distinct(held, g[1..(n + 1)])
    OBVIOUS
  <2> DEFINE s == 1..(n + 1)
             i == n + 1
  <2>1. g[1..n] \in SUBSET (1..n) /\ Distinct(held, g[1..n])
    BY <1>1
  <2>2. s \in SUBSET D /\ s # {} /\ i \in s /\ i \in D /\ s \subseteq Nat /\ (\A k \in s : k <= i)
        /\ s \ {i} = 1..n /\ 1..n \in SUBSET D
    BY <1>1
  <2> HIDE DEF s, i
  <2>3. Max(s) = i
    BY <2>2, GreatestOf
  <2>4. g[s] = Accept(held, g[s \ {i}], i)
    BY <1>1, <1>4, <2>2, <2>3
  <2>5. g[s] = Accept(held, g[1..n], i)
    BY <2>2, <2>4, Zenon
  <2>6. g[1..n] \in SUBSET D
    BY <2>1, <2>2
  <2>7. g[s] \in SUBSET (g[1..n] \cup {i}) /\ Distinct(held, g[s])
    BY <2>1, <2>2, <2>5, <2>6, AcceptKeeps
  <2>8. g[s] \in SUBSET s
    BY <2>1, <2>2, <2>7
  <2> QED
    BY <2>7, <2>8 DEF s
<1>7. FileRows \in Good
  <2>1. Nat \subseteq Good
    <3> HIDE DEF Good
    <3> QED
      BY <1>5, <1>6, AllNumbers
  <2> QED
    BY <1>1, <2>1
<1> QED
  BY <1>1, <1>2, <1>7

\* As many rows as places were let in.
LEMMA ChosenCount ==
  ASSUME sheet \in [1..FileRows -> Facts], NEW held
  PROVE  LET S == ReviewImport(held)
             chosen == {sheet[i] : i \in S} IN
         /\ chosen \in SUBSET Facts /\ Cardinality(S) \in Nat /\ Cardinality(S) = Cardinality(chosen)
         /\ \A f \in chosen : /\ ~ FindDuplicate(f, held)
                              /\ \A g \in chosen : Duplicates(f, g) => f = g
<1> DEFINE S == ReviewImport(held)
           chosen == {sheet[i] : i \in S}
           row == [i \in S |-> sheet[i]]
<1>1. S \in SUBSET (1..FileRows) /\ Distinct(held, S)
  BY ReviewIsDistinct
<1>2. IsFiniteSet(S) /\ Cardinality(S) \in Nat
  <2>1. IsFiniteSet(1..FileRows)
    BY FS_Interval, CsvImportsAssumption
  <2> QED
    BY <1>1, <2>1, FS_Subset, FS_CardinalityType
<1> HIDE DEF S
<1>3. \A i, j \in S : sheet[i] = sheet[j] => i = j
  <2> SUFFICES ASSUME NEW i \in S, NEW j \in S, sheet[i] = sheet[j]
               PROVE  i = j
    OBVIOUS
  <2>1. sheet[i] \in Facts
    BY <1>1
  <2>2. Duplicates(sheet[i], sheet[j])
    BY <2>1, DuplicatesEachOther
  <2> QED
    BY <1>1, <2>2 DEF Distinct
<1>4. row \in Bijection(S, chosen)
  BY <1>3 DEF Bijection, Injection, Surjection, IsInjective
<1>5. ExistsBijection(S, chosen)
  BY <1>4 DEF ExistsBijection
<1>6. Cardinality(chosen) = Cardinality(S)
  BY <1>2, <1>5, FS_Bijection
<1>7. \A f \in chosen : ~ FindDuplicate(f, held) /\ \A g \in chosen : Duplicates(f, g) => f = g
  BY <1>1 DEF Distinct
<1>8. chosen \in SUBSET Facts
  BY <1>1
<1> QED
  BY <1>2, <1>6, <1>7, <1>8 DEF S


-----------------------------------------------------------------------------
(* CsvImports: the imports of a file *)

Rows == [fact : Facts, batch : Nat]
Import == [status : {"committed", "reverted"}, rows : SUBSET Facts, imported : Nat,
            before : SUBSET Facts, overtaken : BOOLEAN]
Committing == [pc : {"idle", "write"}, read : SUBSET Facts, overtaken : BOOLEAN]

CsvImportsTypeOK ==
    /\ sheet \in [1..FileRows -> Facts]
    /\ ledger \in SUBSET Rows
    /\ batch \in Seq(Import)
    /\ commit \in [Commits -> Committing]

\* A row of the file is in the ledger once, from an import that stands.
OnceEach == \A t, u \in {t \in ledger : t.batch # Bank} : t.fact = u.fact => t = u
Standing == \A t \in ledger : t.batch # Bank => /\ t.batch \in DOMAIN batch
                                                /\ batch[t.batch].status = "committed"

\* What an import wrote, and what it wrote it over.
CountedRight(x) ==
    /\ x.imported = Cardinality(x.rows)
    /\ ~ x.overtaken => \A f \in x.rows : /\ ~ FindDuplicate(f, x.before)
                                          /\ \A g \in x.rows : Duplicates(f, g) => f = g
Counted == \A b \in DOMAIN batch : CountedRight(batch[b])

\* Whoever is about to write and was not overtaken has read the ledger as it is.
ReadIsLedger == \A r \in Commits : commit[r].pc = "write" /\ ~ commit[r].overtaken
                                     => commit[r].read = {t.fact : t \in ledger}

CsvImportsInv == CsvImportsTypeOK /\ OnceEach /\ Standing /\ Counted /\ ReadIsLedger

LEMMA CsvImportsStart == CsvImportsInit => CsvImportsInv
<1> SUFFICES ASSUME CsvImportsInit  PROVE CsvImportsInv
  OBVIOUS
<1>1. CsvImportsTypeOK
  BY DEF CsvImportsInit, CsvImportsTypeOK, Committing, Idle
<1>2. OnceEach /\ Standing /\ Counted /\ ReadIsLedger
  BY DEF CsvImportsInit, OnceEach, Standing, Counted, ReadIsLedger, Idle
<1> QED
  BY <1>1, <1>2 DEF CsvImportsInv

\* Whoever was between reading and writing knows that somebody wrote.
LEMMA AllOvertaken ==
  ASSUME commit \in [Commits -> Committing]
  PROVE  /\ Overtaken \in [Commits -> Committing]
         /\ \A r \in Commits : Overtaken[r].pc = "write" => Overtaken[r].overtaken
  BY DEF Overtaken, Committing

\* A read, and a death, touch nothing but the commit.
LEMMA ReadKeeps ==
  ASSUME CsvImportsInv, NEW r \in Commits, ReadLedger(r) \/ Die(r)
  PROVE  CsvImportsInv'
<1>1. UNCHANGED <<sheet, ledger, batch>>
  BY DEF ReadLedger, Die
<1>2. commit' \in [Commits -> Committing]
  <2>1. {t.fact : t \in ledger} \in SUBSET Facts
    BY DEF CsvImportsInv, CsvImportsTypeOK, Rows
  <2>2. Idle \in Committing /\ [pc |-> "write", read |-> {t.fact : t \in ledger}, overtaken |-> FALSE] \in Committing
    BY <2>1 DEF Idle, Committing
  <2> QED
    BY <2>2 DEF ReadLedger, Die, CsvImportsInv, CsvImportsTypeOK
<1>3. ReadIsLedger'
  <2> SUFFICES ASSUME NEW q \in Commits, commit'[q].pc = "write", ~ commit'[q].overtaken
               PROVE  commit'[q].read = {t.fact : t \in ledger'}
    BY DEF ReadIsLedger
  <2> DEFINE held == {t.fact : t \in ledger}
  <2>1. commit \in [Commits -> Committing] /\ {t.fact : t \in ledger'} = held
    BY <1>1 DEF CsvImportsInv, CsvImportsTypeOK
  <2>2. commit[q].pc = "write" /\ ~ commit[q].overtaken => commit[q].read = held
    BY DEF CsvImportsInv, ReadIsLedger
  <2> HIDE DEF held
  <2>3. CASE commit' = [commit EXCEPT ![r] = [pc |-> "write", read |-> held, overtaken |-> FALSE]]
    BY <2>1, <2>2, <2>3
  <2>4. CASE commit' = [commit EXCEPT ![r] = Idle]
    BY <2>1, <2>2, <2>4 DEF Idle
  <2> QED
    BY <2>3, <2>4 DEF ReadLedger, Die, held
<1>4. (OnceEach /\ Standing /\ Counted)'
  BY <1>1 DEF CsvImportsInv, OnceEach, Standing, Counted, CountedRight
<1> QED
  BY <1>1, <1>2, <1>3, <1>4 DEF CsvImportsInv, CsvImportsTypeOK

LEMMA CommitKeeps ==
  ASSUME CsvImportsInv, NEW r \in Commits, CommitBatch(r)
  PROVE  CsvImportsInv'
<1> DEFINE S == ReviewImport(commit[r].read)
           id == Len(batch) + 1
           chosen == {sheet[i] : i \in S}
           held == {t.fact : t \in ledger}
           new == [status |-> "committed", rows |-> chosen, imported |-> Cardinality(S),
                   before |-> held, overtaken |-> commit[r].overtaken]
<1>1. commit[r] \in Committing /\ commit[r].pc = "write"
  BY DEF CsvImportsInv, CsvImportsTypeOK, CommitBatch
<1>2. /\ chosen \in SUBSET Facts /\ Cardinality(S) \in Nat /\ Cardinality(S) = Cardinality(chosen)
      /\ \A f \in chosen : /\ ~ FindDuplicate(f, commit[r].read)
                           /\ \A g \in chosen : Duplicates(f, g) => f = g
  BY ChosenCount DEF CsvImportsInv, CsvImportsTypeOK
<1>3. /\ ledger' = {t \in ledger : t.batch = Bank \/ t.fact \notin chosen}
                   \cup {[fact |-> f, batch |-> id] : f \in chosen}
      /\ batch' = Append(batch, new)
      /\ commit' = [Overtaken EXCEPT ![r] = Idle]
      /\ UNCHANGED sheet
  BY DEF CommitBatch
<1>4. held \in SUBSET Facts
  BY DEF CsvImportsInv, CsvImportsTypeOK, Rows
<1>5. ~ commit[r].overtaken => held = commit[r].read
  BY <1>1 DEF CsvImportsInv, ReadIsLedger
<1>6. CountedRight(new)
  <2>1. new.imported = Cardinality(new.rows)
    BY <1>2
  <2>2. ASSUME ~ commit[r].overtaken, NEW f \in chosen
        PROVE  ~ FindDuplicate(f, held) /\ \A g \in chosen : Duplicates(f, g) => f = g
    BY <1>2, <1>5, <2>2, Zenon
  <2> HIDE DEF chosen, S, held
  <2> QED
    BY <2>1, <2>2 DEF CountedRight
<1> HIDE DEF S, chosen, held
<1>7. new \in Import
  BY <1>1, <1>2, <1>4 DEF Import, Committing
<1> HIDE DEF new
<1>8. /\ batch \in Seq(Import) /\ Len(batch) \in Nat /\ DOMAIN batch = 1..Len(batch)
      /\ id \in Nat /\ id # Bank /\ id \notin DOMAIN batch
  BY DEF CsvImportsInv, CsvImportsTypeOK, Bank
<1>9. /\ batch' \in Seq(Import) /\ DOMAIN batch' = DOMAIN batch \cup {id} /\ batch'[id] = new
      /\ \A b \in DOMAIN batch : batch'[b] = batch[b]
  BY <1>3, <1>7, <1>8
<1> HIDE DEF id
<1>10. ledger' \in SUBSET Rows
  BY <1>2, <1>3, <1>8 DEF CsvImportsInv, CsvImportsTypeOK, Rows
<1>11. commit' \in [Commits -> Committing] /\ \A q \in Commits : commit'[q].pc = "write" => commit'[q].overtaken
  BY <1>3, AllOvertaken DEF Idle, Committing, CsvImportsInv, CsvImportsTypeOK
<1>12. CsvImportsTypeOK'
  BY <1>3, <1>9, <1>10, <1>11 DEF CsvImportsInv, CsvImportsTypeOK
<1>13. \A t \in ledger' : t.batch # Bank => \/ t \in ledger /\ t.fact \notin chosen
                                            \/ t.fact \in chosen /\ t.batch = id /\ t = [fact |-> t.fact, batch |-> id]
  BY <1>3
<1>14. OnceEach'
  <2> SUFFICES ASSUME NEW t \in ledger', NEW u \in ledger', t.batch # Bank, u.batch # Bank, t.fact = u.fact
               PROVE  t = u
    BY DEF OnceEach
  <2>1. CASE t.fact \in chosen
    BY <1>13, <2>1
  <2>2. CASE t.fact \notin chosen
    BY <1>13, <2>2 DEF CsvImportsInv, OnceEach
  <2> QED
    BY <2>1, <2>2
<1>15. Standing'
  <2> SUFFICES ASSUME NEW t \in ledger', t.batch # Bank
               PROVE  t.batch \in DOMAIN batch' /\ batch'[t.batch].status = "committed"
    BY DEF Standing
  <2>1. CASE t \in ledger
    BY <1>9, <2>1 DEF CsvImportsInv, Standing
  <2>2. CASE t.batch = id
    BY <1>9, <2>2 DEF new
  <2> QED
    BY <1>13, <2>1, <2>2
<1>16. Counted'
  <2> SUFFICES ASSUME NEW b \in DOMAIN batch'  PROVE CountedRight(batch'[b])
    BY DEF Counted, CountedRight
  <2>1. CASE b = id
    BY <1>6, <1>9, <2>1, Zenon
  <2>2. CASE b \in DOMAIN batch
    <3>1. CountedRight(batch[b])
      BY <2>2 DEF CsvImportsInv, Counted
    <3> QED
      BY <1>9, <2>2, <3>1, Zenon
  <2> QED
    BY <1>9, <2>1, <2>2
<1>17. ReadIsLedger'
  BY <1>11 DEF ReadIsLedger
<1> QED
  BY <1>12, <1>14, <1>15, <1>16, <1>17 DEF CsvImportsInv

LEMMA BankKeeps ==
  ASSUME CsvImportsInv, NEW f \in Facts, BankSends(f)
  PROVE  CsvImportsInv'
<1>1. /\ ledger' = ledger \cup {[fact |-> f, batch |-> Bank]}
      /\ commit' = Overtaken /\ sheet' = sheet /\ batch' = batch
  BY DEF BankSends
<1>2. commit' \in [Commits -> Committing] /\ \A q \in Commits : commit'[q].pc = "write" => commit'[q].overtaken
  BY <1>1, AllOvertaken DEF CsvImportsInv, CsvImportsTypeOK
<1>3. CsvImportsTypeOK'
  BY <1>1, <1>2 DEF CsvImportsInv, CsvImportsTypeOK, Rows, Bank
<1>4. \A t \in ledger' : t.batch # Bank => t \in ledger
  BY <1>1
<1>5. OnceEach'
  BY <1>4 DEF CsvImportsInv, OnceEach
<1>6. Standing' /\ Counted'
  BY <1>1, <1>4 DEF CsvImportsInv, Standing, Counted, CountedRight
<1>7. ReadIsLedger'
  BY <1>2 DEF ReadIsLedger
<1> QED
  BY <1>3, <1>5, <1>6, <1>7 DEF CsvImportsInv

LEMMA RevertKeeps ==
  ASSUME CsvImportsInv, NEW b \in DOMAIN batch, Revert(b)
  PROVE  CsvImportsInv'
<1> DEFINE undone == [batch[b] EXCEPT !.status = "reverted"]
<1>1. /\ ledger' = {t \in ledger : t.batch # b} /\ batch' = [batch EXCEPT ![b] = undone]
      /\ commit' = Overtaken /\ sheet' = sheet
  BY DEF Revert
<1>2. commit' \in [Commits -> Committing] /\ \A q \in Commits : commit'[q].pc = "write" => commit'[q].overtaken
  BY <1>1, AllOvertaken DEF CsvImportsInv, CsvImportsTypeOK
<1>3. /\ batch[b] \in Import /\ undone \in Import
      /\ undone.rows = batch[b].rows /\ undone.imported = batch[b].imported
      /\ undone.before = batch[b].before /\ undone.overtaken = batch[b].overtaken
  <2>1. batch[b] \in Import
    <3> HIDE DEF Import
    <3> QED
      BY DEF CsvImportsInv, CsvImportsTypeOK
  <2> QED
    BY <2>1 DEF Import
<1>4. CountedRight(batch[b]) /\ CountedRight(undone)
  <2>1. CountedRight(batch[b])
    BY DEF CsvImportsInv, Counted
  <2> HIDE DEF undone
  <2> QED
    BY <1>3, <2>1 DEF CountedRight
<1> HIDE DEF undone
<1>5. batch' \in Seq(Import) /\ DOMAIN batch' = DOMAIN batch /\ batch'[b] = undone
      /\ \A c \in DOMAIN batch : c # b => batch'[c] = batch[c]
  BY <1>1, <1>3 DEF CsvImportsInv, CsvImportsTypeOK
<1>6. CsvImportsTypeOK'
  BY <1>1, <1>2, <1>5 DEF CsvImportsInv, CsvImportsTypeOK
<1>7. OnceEach'
  BY <1>1 DEF CsvImportsInv, OnceEach
<1>8. Standing'
  BY <1>1, <1>5 DEF CsvImportsInv, Standing
<1>9. Counted'
  <2> SUFFICES ASSUME NEW c \in DOMAIN batch  PROVE CountedRight(batch'[c])
    BY <1>5 DEF Counted, CountedRight
  <2>1. CASE c = b
    BY <1>4, <1>5, <2>1, Zenon
  <2>2. CASE c # b
    <3>1. CountedRight(batch[c])
      BY DEF CsvImportsInv, Counted
    <3> QED
      BY <1>5, <2>2, <3>1, Zenon
  <2> QED
    BY <2>1, <2>2
<1>10. ReadIsLedger'
  BY <1>2 DEF ReadIsLedger
<1> QED
  BY <1>6, <1>7, <1>8, <1>9, <1>10 DEF CsvImportsInv

\* However commits of one file, reverts and the bank overlap, the ledger has a row of the file once,
\* nothing of an import that was undone, and no lookalikes from an import nobody overtook.
THEOREM RowsImportedOnce == CsvImportsSpec => []ImportedOnce
<1>1. CsvImportsInit => CsvImportsInv
  BY CsvImportsStart
<1>2. CsvImportsInv /\ [CsvImportsNext]_csvImportsVars => CsvImportsInv'
  <2> SUFFICES ASSUME CsvImportsInv, [CsvImportsNext]_csvImportsVars
               PROVE  CsvImportsInv'
    OBVIOUS
  <2>1. CASE UNCHANGED csvImportsVars
    BY <2>1 DEF csvImportsVars, CsvImportsInv, CsvImportsTypeOK, OnceEach, Standing, Counted, CountedRight, ReadIsLedger
  <2>2. ASSUME NEW r \in Commits, ReadLedger(r) \/ Die(r)  PROVE CsvImportsInv'
    BY <2>2, ReadKeeps
  <2>3. ASSUME NEW r \in Commits, CommitBatch(r)  PROVE CsvImportsInv'
    BY <2>3, CommitKeeps
  <2>4. ASSUME NEW f \in Facts, BankSends(f)  PROVE CsvImportsInv'
    BY <2>4, BankKeeps
  <2>5. ASSUME NEW b \in DOMAIN batch, Revert(b)  PROVE CsvImportsInv'
    BY <2>5, RevertKeeps
  <2> QED
    BY <2>1, <2>2, <2>3, <2>4, <2>5 DEF CsvImportsNext
<1>3. CsvImportsInv => ImportedOnce
  <2> SUFFICES ASSUME CsvImportsInv  PROVE ImportedOnce
    OBVIOUS
  <2>1. OnceEach /\ Standing /\ Counted
    BY DEF CsvImportsInv
  <2>2. \A b \in DOMAIN batch : CountedRight(batch[b])
    BY <2>1 DEF Counted
  <2> QED
    BY <2>1, <2>2 DEF ImportedOnce, OnceEach, Standing, CountedRight
<1> QED
  BY <1>1, <1>2, <1>3, PTL DEF CsvImportsSpec

=============================================================================
