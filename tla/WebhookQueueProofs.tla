------------------------- MODULE WebhookQueueProofs -------------------------
(***************************************************************************)
(* Proofs about WebhookQueue for any links, processes, users and bounds.   *)
(***************************************************************************)
EXTENDS WebhookQueue, SequenceTheorems, TLAPS

-----------------------------------------------------------------------------
(* Rows and runners *)

\* An UPDATE of some rows (claim, purge) leaves a table of jobs, as long as it was.
LEMMA RowsStayRows ==
  ASSUME jobs \in Seq(Job), NEW f, DOMAIN f = DOMAIN jobs,
         f = [j \in DOMAIN jobs |-> f[j]], \A j \in DOMAIN jobs : f[j] \in Job
  PROVE  f \in Seq(Job) /\ Len(f) = Len(jobs)
<1>1. DOMAIN jobs = 1..Len(jobs) /\ Len(jobs) \in Nat
  BY LenProperties
<1>2. f \in [1..Len(jobs) -> Job]
  BY <1>1
<1> QED
  BY <1>1, <1>2

\* Changing the state, the attempts or the timers of a row leaves it a row.
LEMMA RowStaysRow ==
  ASSUME NEW row \in Job
  PROVE  /\ [row EXCEPT !.status = "purged"] \in Job
         /\ [row EXCEPT !.status = "completed"] \in Job
         /\ \A s \in {"failed", "pending"} : [row EXCEPT !.status = s, !.due = FALSE] \in Job
         /\ [row EXCEPT !.status = "processing", !.attempts = @ + 1, !.stale = FALSE] \in Job
         /\ [row EXCEPT !.due = TRUE] \in Job
         /\ [row EXCEPT !.stale = TRUE] \in Job
<1>1. /\ [row EXCEPT !.status = "purged"] \in Job
      /\ [row EXCEPT !.status = "completed"] \in Job
  BY DEF Job
<1>2. ASSUME NEW s \in {"failed", "pending"}
      PROVE  [row EXCEPT !.status = s, !.due = FALSE] \in Job
  BY DEF Job
<1>3. [row EXCEPT !.status = "processing", !.attempts = @ + 1, !.stale = FALSE] \in Job
  <2>1. row.attempts + 1 \in Nat
    BY DEF Job
  <2>2. ASSUME NEW n \in Nat
        PROVE  [row EXCEPT !.status = "processing", !.attempts = n, !.stale = FALSE] \in Job
    BY DEF Job
  <2> QED
    BY <2>1, <2>2
<1>4. [row EXCEPT !.due = TRUE] \in Job /\ [row EXCEPT !.stale = TRUE] \in Job
  BY DEF Job
<1> QED
  BY <1>1, <1>2, <1>3, <1>4

\* Each row of a table of jobs is a job.
LEMMA RowsAreRows ==
  ASSUME NEW s \in Seq(Job)
  PROVE  /\ DOMAIN s = 1..Len(s) /\ Len(s) \in Nat
         /\ \A j \in DOMAIN s : /\ s[j] \in Job
                               /\ s[j].link \in Links
                               /\ s[j].news \in Nat
                               /\ s[j].attempts \in Nat
<1>1. s \in [1..Len(s) -> Job] /\ DOMAIN s = 1..Len(s) /\ Len(s) \in Nat
  BY LenProperties
<1>2. ASSUME NEW j \in DOMAIN s
      PROVE  s[j] \in Job
  BY <1>1, <1>2
<1> QED
  BY <1>1, <1>2 DEF Job

\* Going on in a handler leaves a runner a runner, and so does taking up a job or a link.
LEMMA RunnerStaysRunner ==
  /\ Free \in Runner
  /\ \A q \in Runner : \A p \in {"idle", "next", "pages", "settle", "complete", "fail", "retry"} :
       /\ [q EXCEPT !.pc = p] \in Runner
       /\ \A l \in Links : \A j \in 0..MaxJobs :
            [q EXCEPT !.pc = p, !.link = l, !.job = j] \in Runner
       /\ \A l \in Links : [Free EXCEPT !.pc = p, !.link = l] \in Runner
       /\ \A h \in [1..MaxJobs -> Nat] : [Free EXCEPT !.pc = p, !.held = h] \in Runner
<1>1. MaxJobs \in Nat
  BY QueueAssumption
<1>2. Free \in Runner
  BY <1>1 DEF Free, Runner
<1>3. ASSUME NEW q \in Runner,
             NEW p \in {"idle", "next", "pages", "settle", "complete", "fail", "retry"}
      PROVE  /\ [q EXCEPT !.pc = p] \in Runner
             /\ \A l \in Links : \A j \in 0..MaxJobs :
                  [q EXCEPT !.pc = p, !.link = l, !.job = j] \in Runner
  BY DEF Runner
<1>4. ASSUME NEW p \in {"idle", "next", "pages", "settle", "complete", "fail", "retry"}
      PROVE  /\ \A l \in Links : [Free EXCEPT !.pc = p, !.link = l] \in Runner
             /\ \A h \in [1..MaxJobs -> Nat] : [Free EXCEPT !.pc = p, !.held = h] \in Runner
  BY <1>2 DEF Runner
<1> QED
  BY <1>2, <1>3, <1>4

\* A row and the updates it announces never change; it is completed by a worker that has
\* finished its sync; a new row announces what is published by then.
RowsKept ==
    \A j \in DOMAIN jobs :
        /\ j \in DOMAIN jobs'
        /\ jobs'[j].link = jobs[j].link
        /\ jobs'[j].news = jobs[j].news
        /\ jobs'[j].status = "completed" =>
             \/ jobs[j].status = "completed"
             \/ \E w \in Workers : At(w, "complete") /\ runner[w].job = j
RowsAdded ==
    \A j \in DOMAIN jobs' \ DOMAIN jobs :
        jobs'[j].status = "pending" /\ jobs'[j].news <= news[jobs'[j].link]

\* What one UPDATE of a single row does to the table.
LEMMA OneRow ==
  ASSUME jobs \in Seq(Job), NEW k \in DOMAIN jobs, NEW row \in Job,
         row.link = jobs[k].link, row.news = jobs[k].news,
         row.status = "completed" => \/ jobs[k].status = "completed"
                                     \/ \E w \in Workers : At(w, "complete") /\ runner[w].job = k,
         jobs' = [jobs EXCEPT ![k] = row]
  PROVE  jobs' \in Seq(Job) /\ Len(jobs') = Len(jobs) /\ RowsKept /\ RowsAdded
<1>1. DOMAIN jobs = 1..Len(jobs)
  BY LenProperties
<1>2. jobs' \in Seq(Job) /\ Len(jobs') = Len(jobs)
  BY <1>1, ExceptSeq
<1>3. DOMAIN jobs' = DOMAIN jobs
  OBVIOUS
<1> QED
  BY <1>2, <1>3 DEF RowsKept, RowsAdded

\* The effect of every step on the table of jobs.
LEMMA StepJobs ==
  ASSUME TypeOK, Next
  PROVE  /\ jobs' \in Seq(Job) /\ Len(jobs') <= MaxJobs
         /\ RowsKept /\ RowsAdded
<1>0. /\ jobs \in Seq(Job) /\ Len(jobs) <= MaxJobs /\ Len(jobs) \in Nat
      /\ DOMAIN jobs = 1..Len(jobs)
      /\ \A j \in DOMAIN jobs : jobs[j] \in Job
      /\ MaxJobs \in Nat
  BY LenProperties, ElementOfSeq, QueueAssumption DEF TypeOK
<1>1. CASE UNCHANGED jobs
  BY <1>0, <1>1 DEF RowsKept, RowsAdded
<1>2. ASSUME NEW f, f = [j \in DOMAIN jobs |-> f[j]],
             \A j \in DOMAIN jobs : f[j] \in Job /\ f[j].link = jobs[j].link
                                       /\ f[j].news = jobs[j].news
                                       /\ (f[j].status = "completed" => jobs[j].status = "completed"),
             jobs' = f
      PROVE  jobs' \in Seq(Job) /\ Len(jobs') <= MaxJobs /\ RowsKept /\ RowsAdded
  <2>1. f \in Seq(Job) /\ Len(f) = Len(jobs)
    BY <1>0, <1>2, RowsStayRows
  <2>2. DOMAIN f = DOMAIN jobs
    BY <1>2
  <2> QED
    BY <1>0, <1>2, <2>1, <2>2 DEF RowsKept, RowsAdded
<1>3. ASSUME NEW l \in Links, jobs' = Purged(l)
      PROVE  jobs' \in Seq(Job) /\ Len(jobs') <= MaxJobs /\ RowsKept /\ RowsAdded
  <2> DEFINE f == Purged(l)
  <2>1. f = [j \in DOMAIN jobs |-> f[j]]
    BY DEF Purged
  <2>2. ASSUME NEW j \in DOMAIN jobs
        PROVE  f[j] \in Job /\ f[j].link = jobs[j].link /\ f[j].news = jobs[j].news
               /\ (f[j].status = "completed" => jobs[j].status = "completed")
    <3>1. jobs[j] \in Job /\ [jobs[j] EXCEPT !.status = "purged"] \in Job
      BY <1>0, RowStaysRow
    <3> QED
      BY <3>1 DEF Purged, Job
  <2> HIDE DEF f
  <2> QED
    BY <1>2, <1>3, <2>1, <2>2 DEF f
<1>4. ASSUME NEW l \in Links, AcceptWebhook(l)
      PROVE  jobs' \in Seq(Job) /\ Len(jobs') <= MaxJobs /\ RowsKept /\ RowsAdded
  <2> DEFINE new == [link |-> l, status |-> "pending", attempts |-> 0, due |-> TRUE,
                     stale |-> FALSE, hour |-> hour, news |-> news[l]]
  <2>1. new \in Job /\ new.link = l /\ new.status = "pending" /\ new.news = news[l] /\ news[l] \in Nat
    BY DEF Job, TypeOK
  <2>2. jobs' = Append(jobs, new) /\ Len(jobs) < MaxJobs
    BY <1>4 DEF AcceptWebhook
  <2> HIDE DEF new
  <2>3. /\ jobs' \in Seq(Job) /\ Len(jobs') = Len(jobs) + 1
        /\ \A j \in 1..Len(jobs) : jobs'[j] = jobs[j]
        /\ jobs'[Len(jobs) + 1] = new
    BY <1>0, <2>1, <2>2, AppendProperties
  <2>4. DOMAIN jobs' = 1..(Len(jobs) + 1)
    BY <2>3, LenProperties
  <2>5. DOMAIN jobs' \ DOMAIN jobs = {Len(jobs) + 1}
    BY <1>0, <2>4
  <2>6. RowsKept
    BY <1>0, <2>3, <2>4 DEF RowsKept
  <2>7. RowsAdded
    BY <1>0, <2>1, <2>3, <2>5 DEF RowsAdded
  <2> QED
    BY <1>0, <2>2, <2>3, <2>6, <2>7
<1>5. ASSUME NEW w \in Workers, Claim(w)
      PROVE  jobs' \in Seq(Job) /\ Len(jobs') <= MaxJobs /\ RowsKept /\ RowsAdded
  <2> DEFINE taken == Oldest({j \in DOMAIN jobs : Claimable(j)})
             f == [j \in DOMAIN jobs |->
                     IF j \in taken
                     THEN [jobs[j] EXCEPT !.status = "processing", !.attempts = @ + 1, !.stale = FALSE]
                     ELSE jobs[j]]
  <2>1. jobs' = f
    BY <1>5 DEF Claim
  <2>2. f = [j \in DOMAIN jobs |-> f[j]]
    OBVIOUS
  <2>3. ASSUME NEW j \in DOMAIN jobs
        PROVE  f[j] \in Job /\ f[j].link = jobs[j].link /\ f[j].news = jobs[j].news
               /\ (f[j].status = "completed" => jobs[j].status = "completed")
    <3>1. jobs[j] \in Job
          /\ [jobs[j] EXCEPT !.status = "processing", !.attempts = @ + 1, !.stale = FALSE] \in Job
      BY <1>0, RowStaysRow
    <3> HIDE DEF taken
    <3> QED
      BY <3>1 DEF Job
  <2> HIDE DEF f
  <2> QED
    BY <1>2, <2>1, <2>2, <2>3
<1>6. ASSUME NEW w \in Workers, NEW row \in Job,
             row.link = jobs[runner[w].job].link, row.news = jobs[runner[w].job].news,
             row.status = "completed" => At(w, "complete"),
             SetJob(runner[w].job, row), runner[w].job \in DOMAIN jobs
      PROVE  jobs' \in Seq(Job) /\ Len(jobs') <= MaxJobs /\ RowsKept /\ RowsAdded
  <2> DEFINE k == runner[w].job
  <2>1. CASE jobs[k].status = "purged"
    <3>1. jobs' = [jobs EXCEPT ![k] = jobs[k]]
      BY <1>6, <2>1 DEF SetJob
    <3>2. jobs' = jobs
      BY <1>0, <1>6, <3>1
    <3> QED
      BY <1>1, <3>2
  <2>2. CASE jobs[k].status # "purged"
    <3>1. jobs' = [jobs EXCEPT ![k] = row]
      BY <1>6, <2>2 DEF SetJob
    <3> QED
      BY <1>0, <1>6, <3>1, OneRow
  <2> QED
    BY <2>1, <2>2
<1>7. ASSUME NEW w \in Workers, CompleteJob(w)
      PROVE  jobs' \in Seq(Job) /\ Len(jobs') <= MaxJobs /\ RowsKept /\ RowsAdded
  <2> DEFINE k == runner[w].job
             row == [jobs[k] EXCEPT !.status = "completed"]
  <2>1. CASE SetJob(k, row) /\ k \in DOMAIN jobs
    <3>0. jobs[k] \in Job
      BY <1>0, <2>1
    <3>1. row \in Job /\ row.link = jobs[k].link /\ row.news = jobs[k].news
      <4>1. row \in Job
        BY <3>0, RowStaysRow
      <4>2. row.link = jobs[k].link /\ row.news = jobs[k].news
        BY <3>0 DEF Job
      <4> QED
        BY <4>1, <4>2
    <3>2. At(w, "complete")
      BY <1>7 DEF CompleteJob
    <3> HIDE DEF row
    <3> QED
      BY <1>6, <2>1, <3>1, <3>2
  <2>2. CASE SetJob(k, row) /\ k \notin DOMAIN jobs
    BY <1>0, <1>1, <2>2 DEF SetJob
  <2> QED
    BY <1>1, <1>7, <2>1, <2>2 DEF CompleteJob
<1>8. ASSUME NEW w \in Workers, RetryJob(w)
      PROVE  jobs' \in Seq(Job) /\ Len(jobs') <= MaxJobs /\ RowsKept /\ RowsAdded
  <2> DEFINE k == runner[w].job
             s == IF Terminal(runner[w].held[k]) THEN "failed" ELSE "pending"
             row == [jobs[k] EXCEPT !.status = s, !.due = FALSE]
  <2>0. SetJob(k, row) /\ s \in {"failed", "pending"}
    BY <1>8 DEF RetryJob
  <2> HIDE DEF s
  <2>1. CASE k \in DOMAIN jobs
    <3>0. jobs[k] \in Job
      BY <1>0, <2>1
    <3>1. row \in Job /\ row.link = jobs[k].link /\ row.news = jobs[k].news
          /\ row.status # "completed"
      <4>1. row \in Job
        BY <2>0, <3>0, RowStaysRow
      <4>2. row.link = jobs[k].link /\ row.news = jobs[k].news /\ row.status = s
        BY <3>0 DEF Job
      <4> QED
        BY <2>0, <4>1, <4>2
    <3> HIDE DEF row
    <3> QED
      BY <1>6, <2>0, <2>1, <3>1
  <2>2. CASE k \notin DOMAIN jobs
    BY <1>0, <1>1, <2>0, <2>2 DEF SetJob
  <2> QED
    BY <2>1, <2>2
<1>9. ASSUME NEW j \in DOMAIN jobs, JobDue(j) \/ JobStale(j)
      PROVE  jobs' \in Seq(Job) /\ Len(jobs') <= MaxJobs /\ RowsKept /\ RowsAdded
  <2>1. PICK row \in {[jobs[j] EXCEPT !.due = TRUE], [jobs[j] EXCEPT !.stale = TRUE]} :
            jobs' = [jobs EXCEPT ![j] = row]
    BY <1>9 DEF JobDue, JobStale
  <2>2. jobs[j] \in Job /\ row \in Job
    BY <1>0, RowStaysRow
  <2>3. row.link = jobs[j].link /\ row.news = jobs[j].news /\ row.status = jobs[j].status
    BY <2>2 DEF Job
  <2> QED
    BY <1>0, <2>1, <2>2, <2>3, OneRow
<1>10. ASSUME NEW l \in Links, PurgeLink(l) \/ EndLink(l)
       PROVE  jobs' = Purged(l) \/ UNCHANGED jobs
  BY <1>10 DEF PurgeLink, EndLink
<1>11. ASSUME NEW r \in Runners, Sync(r) \/ Abandon(r)
       PROVE  UNCHANGED jobs
  BY <1>11 DEF Sync, Pages, Settle, Fail, Abandon
<1>12. ASSUME NEW w \in Workers, NEW j \in DOMAIN jobs, StartJob(w, j) \/ ConflictJob(w, j)
       PROVE  UNCHANGED jobs
  BY <1>12 DEF StartJob, ConflictJob
<1>13. ASSUME NEW l \in Links, Publish(l) \/ RemoveItem(l) \/ LeaseAges(l)
       PROVE  UNCHANGED jobs
  BY <1>13 DEF Publish, RemoveItem, LeaseAges
<1>14. ASSUME NEW u \in Users, NEW l \in Links, StartManual(u, l)
       PROVE  UNCHANGED jobs
  BY <1>14 DEF StartManual
<1>15. ASSUME NextHour
       PROVE  UNCHANGED jobs
  BY <1>15 DEF NextHour
<1> QED
  BY <1>1, <1>3, <1>4, <1>5, <1>7, <1>8, <1>9, <1>10, <1>11, <1>12, <1>13, <1>14, <1>15
     DEF Next, Drain

-----------------------------------------------------------------------------
(* Types *)

\* What the steps of one runner do to all of them.
LEMMA BecomesRunner ==
  ASSUME runner \in [Runners -> Runner], NEW r \in Runners, NEW q \in Runner, Becomes(r, q)
  PROVE  /\ runner' \in [Runners -> Runner]
         /\ runner'[r] = q
         /\ \A s \in Runners \ {r} : runner'[s] = runner[s]
  BY DEF Becomes

\* The worker's loop goes on with the rest of its batch, or ends; either way it has no sync.
LEMMA NextJobRunner ==
  ASSUME TypeOK, NEW r \in Runners, NextJob(r)
  PROVE  /\ runner' \in [Runners -> Runner]
         /\ runner'[r].pc \in {"next", "idle"}
         /\ \A s \in Runners \ {r} : runner'[s] = runner[s]
<1> DEFINE rest == [runner[r].held EXCEPT ![runner[r].job] = 0]
           p == IF \E j \in DOMAIN rest : rest[j] > 0 THEN "next" ELSE "idle"
           q == [Free EXCEPT !.pc = p, !.held = rest]
<1>1. Becomes(r, q)
  BY DEF NextJob
<1>2. rest \in [1..MaxJobs -> Nat]
  BY DEF TypeOK, Runner
<1>3. p \in {"next", "idle"}
  OBVIOUS
<1> HIDE DEF rest, p
<1>4. q \in Runner
  BY <1>2, <1>3, RunnerStaysRunner
<1>5. q.pc = p
  BY DEF Free
<1> HIDE DEF q
<1>6. runner \in [Runners -> Runner]
  BY DEF TypeOK
<1> QED
  BY <1>1, <1>3, <1>4, <1>5, <1>6, BecomesRunner

\* Every step leaves the runners runners.
LEMMA StepRunners ==
  ASSUME TypeOK, Next
  PROVE  runner' \in [Runners -> Runner]
<1>0. /\ runner \in [Runners -> Runner]
      /\ Workers \subseteq Runners /\ Users \subseteq Runners
      /\ \A j \in DOMAIN jobs : j \in 0..MaxJobs /\ jobs[j].link \in Links
  <2>1. /\ DOMAIN jobs = 1..Len(jobs) /\ Len(jobs) \in Nat /\ Len(jobs) <= MaxJobs
        /\ \A j \in DOMAIN jobs : jobs[j] \in Job
        /\ MaxJobs \in Nat
    BY LenProperties, ElementOfSeq, QueueAssumption DEF TypeOK
  <2>2. \A j \in DOMAIN jobs : j \in 0..MaxJobs
    <3> SUFFICES ASSUME NEW j \in 1..Len(jobs)  PROVE j \in 0..MaxJobs
      BY <2>1
    <3> QED
      BY <2>1
  <2>3. \A j \in DOMAIN jobs : jobs[j].link \in Links
    BY <2>1 DEF Job
  <2>4. runner \in [Runners -> Runner]
    BY DEF TypeOK
  <2> QED
    BY <2>2, <2>3, <2>4 DEF Runners
<1>1. ASSUME NEW r \in Runners,
             NEW p \in {"idle", "next", "pages", "settle", "complete", "fail", "retry"}, Goto(r, p)
      PROVE  runner' \in [Runners -> Runner]
  <2>1. [runner[r] EXCEPT !.pc = p] \in Runner
    BY <1>0, RunnerStaysRunner
  <2> QED
    BY <1>0, <1>1, <2>1, BecomesRunner DEF Goto
<1>2. ASSUME NEW r \in Runners, Becomes(r, Free)
      PROVE  runner' \in [Runners -> Runner]
  BY <1>0, <1>2, RunnerStaysRunner, BecomesRunner
<1>3. ASSUME NEW w \in Workers, Claim(w)
      PROVE  runner' \in [Runners -> Runner]
  <2> DEFINE taken == Oldest({j \in DOMAIN jobs : Claimable(j)})
             h == [j \in DOMAIN Free.held |-> IF j \in taken THEN jobs[j].attempts + 1 ELSE 0]
             q == [Free EXCEPT !.pc = "next", !.held = h]
  <2>1. Becomes(w, q)
    BY <1>3 DEF Claim
  <2>2. taken \subseteq DOMAIN jobs
    BY DEF Oldest
  <2> HIDE DEF taken
  <2>3. \A j \in DOMAIN jobs : jobs[j].attempts \in Nat
    BY RowsAreRows DEF TypeOK
  <2>4. DOMAIN Free.held = 1..MaxJobs
    BY DEF Free
  <2>5. h \in [1..MaxJobs -> Nat]
    BY <2>2, <2>3, <2>4
  <2> HIDE DEF h
  <2>6. q \in Runner
    BY <2>5, RunnerStaysRunner
  <2> HIDE DEF q
  <2> QED
    BY <1>0, <2>1, <2>6, BecomesRunner
<1>4. ASSUME NEW w \in Workers, NEW j \in DOMAIN jobs, StartJob(w, j) \/ ConflictJob(w, j)
      PROVE  runner' \in [Runners -> Runner]
  <2>1. PICK p \in {"pages", "retry"} :
          Becomes(w, [runner[w] EXCEPT !.pc = p, !.link = jobs[j].link, !.job = j])
    BY <1>4 DEF StartJob, ConflictJob
  <2>2. [runner[w] EXCEPT !.pc = p, !.link = jobs[j].link, !.job = j] \in Runner
    BY <1>0, RunnerStaysRunner
  <2> QED
    BY <1>0, <2>1, <2>2, BecomesRunner
<1>5. ASSUME NEW w \in Workers, CompleteJob(w) \/ RetryJob(w)
      PROVE  runner' \in [Runners -> Runner]
  BY <1>0, <1>1, <1>5, NextJobRunner DEF CompleteJob, RetryJob
<1>6. ASSUME NEW u \in Users, NEW l \in Links, StartManual(u, l)
      PROVE  runner' \in [Runners -> Runner]
  <2>1. [Free EXCEPT !.pc = "pages", !.link = l] \in Runner
    BY RunnerStaysRunner
  <2> QED
    BY <1>0, <1>6, <2>1, BecomesRunner DEF StartManual
<1>7. ASSUME NEW r \in Runners, Sync(r)
      PROVE  runner' \in [Runners -> Runner]
  BY <1>1, <1>2, <1>7 DEF Sync, Pages, Settle, Fail, Afterwards
<1>8. ASSUME NEW r \in Runners, Abandon(r)
      PROVE  runner' \in [Runners -> Runner]
  BY <1>2, <1>8 DEF Abandon
<1>9. CASE UNCHANGED runner
  BY <1>0, <1>9
<1>10. ASSUME NEW l \in Links,
              Publish(l) \/ AcceptWebhook(l) \/ RemoveItem(l) \/ PurgeLink(l) \/ EndLink(l) \/ LeaseAges(l)
       PROVE  UNCHANGED runner
  BY <1>10 DEF Publish, AcceptWebhook, RemoveItem, PurgeLink, EndLink, LeaseAges
<1>11. ASSUME NEW j \in DOMAIN jobs, JobDue(j) \/ JobStale(j)
       PROVE  UNCHANGED runner
  BY <1>11 DEF JobDue, JobStale
<1>12. ASSUME NextHour
       PROVE  UNCHANGED runner
  BY <1>12 DEF NextHour
<1> QED
  BY <1>3, <1>4, <1>5, <1>6, <1>7, <1>8, <1>9, <1>10, <1>11, <1>12 DEF Next, Drain

\* The variables besides the jobs and the runners.
Rest ==
    /\ lease \in [Links -> {"free", "held", "gone"}]
    /\ aged \in [Links -> BOOLEAN]
    /\ item \in [Links -> {"live", "removed", "purged"}]
    /\ news \in [Links -> Nat]
    /\ synced \in [Links -> Nat]
    /\ hour \in Nat
    /\ faults \in Nat

\* Every step leaves the links, the provider and the clocks well typed.
LEMMA StepRest ==
  ASSUME TypeOK, Next
  PROVE  Rest'
<1>0. Rest
  BY DEF TypeOK, Rest
<1>1. ASSUME NEW l \in Links, Publish(l) \/ AcceptWebhook(l) \/ LeaseAges(l)
      PROVE  Rest'
  <2>1. CASE Publish(l)
    <3>1. news[l] + 1 \in Nat
      BY <1>0 DEF Rest
    <3> QED
      BY <1>0, <2>1, <3>1 DEF Publish, Rest
  <2>2. CASE AcceptWebhook(l)
    BY <1>0, <2>2 DEF AcceptWebhook, Rest
  <2>3. CASE LeaseAges(l)
    BY <1>0, <2>3 DEF LeaseAges, Rest
  <2> QED
    BY <1>1, <2>1, <2>2, <2>3
<1>2. ASSUME NEW l \in Links, RemoveItem(l) \/ PurgeLink(l)
      PROVE  Rest'
  BY <1>0, <1>2 DEF RemoveItem, PurgeLink, Rest
<1>3. ASSUME NEW l \in Links, EndLink(l)
      PROVE  Rest'
  BY <1>0, <1>3 DEF EndLink, Rest
<1>4. ASSUME NEW w \in Workers, Claim(w) \/ CompleteJob(w) \/ RetryJob(w)
      PROVE  Rest'
  BY <1>0, <1>4 DEF Claim, CompleteJob, RetryJob, Rest
<1>5. ASSUME NEW w \in Workers, NEW j \in DOMAIN jobs, StartJob(w, j) \/ ConflictJob(w, j)
      PROVE  Rest'
  BY <1>0, <1>5 DEF StartJob, ConflictJob, TakeLease, Rest
<1>6. ASSUME NEW u \in Users, NEW l \in Links, StartManual(u, l)
      PROVE  Rest'
  BY <1>0, <1>6 DEF StartManual, TakeLease, Rest
<1>7. ASSUME NEW r \in Runners, Pages(r)
      PROVE  Rest'
  BY <1>0, <1>7 DEF Pages, Rest
<1>8. ASSUME NEW r \in Runners, Settle(r) \/ Fail(r)
      PROVE  Rest'
  BY <1>0, <1>8 DEF Settle, Fail, Rest
<1>9. ASSUME NEW r \in Runners, Abandon(r)
      PROVE  Rest'
  BY <1>0, <1>9 DEF Abandon, Rest
<1>10. ASSUME NEW j \in DOMAIN jobs, JobDue(j) \/ JobStale(j)
       PROVE  Rest'
  BY <1>0, <1>10 DEF JobDue, JobStale, Rest
<1>11. ASSUME NextHour
       PROVE  Rest'
  BY <1>0, <1>11 DEF NextHour, Rest
<1> QED
  BY <1>1, <1>2, <1>3, <1>4, <1>5, <1>6, <1>7, <1>8, <1>9, <1>10, <1>11 DEF Next, Drain, Sync

\* Every reachable state of the queue, the links and the runners is well typed.
THEOREM QueueTypeCorrect == Spec => []TypeOK
<1>1. Init => TypeOK
  <2> SUFFICES ASSUME Init
               PROVE  TypeOK
    OBVIOUS
  <2>1. jobs \in Seq(Job) /\ Len(jobs) = 0
    BY EmptySeq DEF Init
  <2>2. MaxJobs \in Nat
    BY QueueAssumption
  <2>3. runner \in [Runners -> Runner]
    BY RunnerStaysRunner DEF Init
  <2> QED
    BY <2>1, <2>2, <2>3 DEF Init, TypeOK
<1>2. TypeOK /\ [Next]_vars => TypeOK'
  <2> SUFFICES ASSUME TypeOK, [Next]_vars
               PROVE  TypeOK'
    OBVIOUS
  <2>1. CASE Next
    BY <2>1, StepJobs, StepRunners, StepRest DEF TypeOK, Rest
  <2>2. CASE UNCHANGED vars
    BY <2>2 DEF vars, TypeOK
  <2> QED
    BY <2>1, <2>2
<1> QED
  BY <1>1, <1>2, PTL DEF Spec

-----------------------------------------------------------------------------
(* A completed job has been synchronised *)

Working == {"pages", "settle", "complete", "fail", "retry"}

\* Nothing is announced or delivered before it is published; a worker in the middle of a sync
\* syncs the link of its job, and past the last page it has delivered what the job announced.
NewsInv ==
    /\ \A l \in Links : synced[l] <= news[l]
    /\ \A j \in DOMAIN jobs : jobs[j].news <= news[jobs[j].link]
WorkInv ==
    \A w \in Workers : runner[w].pc \in Working =>
        /\ runner[w].job \in DOMAIN jobs
        /\ runner[w].link = jobs[runner[w].job].link
        /\ runner[w].pc \in {"settle", "complete"} =>
             synced[runner[w].link] >= jobs[runner[w].job].news

\* Published and delivered updates only grow, and delivery stays behind publication.
LEMMA StepNews ==
  ASSUME TypeOK, NewsInv, Next
  PROVE  \A l \in Links : /\ news'[l] >= news[l]
                          /\ synced'[l] >= synced[l]
                          /\ synced'[l] <= news'[l]
<1>0. news \in [Links -> Nat] /\ synced \in [Links -> Nat] /\ \A l \in Links : synced[l] <= news[l]
  BY DEF TypeOK, NewsInv
<1>1. CASE UNCHANGED <<news, synced>>
  BY <1>0, <1>1
<1>2. ASSUME NEW l \in Links, Publish(l)
      PROVE  \A k \in Links : news'[k] >= news[k] /\ synced'[k] >= synced[k] /\ synced'[k] <= news'[k]
  BY <1>0, <1>2 DEF Publish
<1>3. ASSUME NEW r \in Runners, Pages(r)
      PROVE  \A k \in Links : news'[k] >= news[k] /\ synced'[k] >= synced[k] /\ synced'[k] <= news'[k]
  BY <1>0, <1>3 DEF Pages
<1>4. ASSUME NEW l \in Links,
             AcceptWebhook(l) \/ LeaseAges(l) \/ RemoveItem(l) \/ PurgeLink(l) \/ EndLink(l)
      PROVE  UNCHANGED <<news, synced>>
  BY <1>4 DEF AcceptWebhook, LeaseAges, RemoveItem, PurgeLink, EndLink
<1>5. ASSUME NEW w \in Workers, Claim(w) \/ CompleteJob(w) \/ RetryJob(w)
      PROVE  UNCHANGED <<news, synced>>
  BY <1>5 DEF Claim, CompleteJob, RetryJob
<1>6. ASSUME NEW w \in Workers, NEW j \in DOMAIN jobs, StartJob(w, j) \/ ConflictJob(w, j)
      PROVE  UNCHANGED <<news, synced>>
  BY <1>6 DEF StartJob, ConflictJob
<1>7. ASSUME NEW u \in Users, NEW l \in Links, StartManual(u, l)
      PROVE  UNCHANGED <<news, synced>>
  BY <1>7 DEF StartManual
<1>8. ASSUME NEW r \in Runners, Settle(r) \/ Fail(r) \/ Abandon(r)
      PROVE  UNCHANGED <<news, synced>>
  BY <1>8 DEF Settle, Fail, Abandon
<1>9. ASSUME NEW j \in DOMAIN jobs, JobDue(j) \/ JobStale(j)
      PROVE  UNCHANGED <<news, synced>>
  BY <1>9 DEF JobDue, JobStale
<1>10. ASSUME NextHour
       PROVE  UNCHANGED <<news, synced>>
  BY <1>10 DEF NextHour
<1> QED
  BY <1>1, <1>2, <1>3, <1>4, <1>5, <1>6, <1>7, <1>8, <1>9, <1>10 DEF Next, Drain, Sync

\* How a step can change what a worker is doing: it took up a job whose sync is still to run,
\* it read the last page, it went on without losing the job, or it has no sync any more.
LEMMA StepWorker ==
  ASSUME TypeOK, Next, NEW w \in Workers, runner'[w].pc \in Working
  PROVE  \/ runner'[w] = runner[w]
         \/ /\ runner'[w].job \in DOMAIN jobs
            /\ runner'[w].link = jobs[runner'[w].job].link
            /\ runner'[w].pc \in {"pages", "retry"}
         \/ /\ runner[w].pc \in Working
            /\ runner'[w].job = runner[w].job /\ runner'[w].link = runner[w].link
            /\ \/ runner'[w].pc \in {"fail", "retry"}
               \/ /\ runner[w].pc = "settle" /\ runner'[w].pc = "complete"
               \/ /\ runner[w].pc = "pages" /\ runner'[w].pc = "settle"
                  /\ synced' = [synced EXCEPT ![runner[w].link] = news[runner[w].link]]
<1>0. /\ runner \in [Runners -> Runner]
      /\ Workers \subseteq Runners /\ Users \subseteq Runners /\ Workers \cap Users = {}
  BY QueueAssumption DEF TypeOK, Runners
<1> DEFINE Goal == \/ runner'[w] = runner[w]
                   \/ /\ runner'[w].job \in DOMAIN jobs
                      /\ runner'[w].link = jobs[runner'[w].job].link
                      /\ runner'[w].pc \in {"pages", "retry"}
                   \/ /\ runner[w].pc \in Working
                      /\ runner'[w].job = runner[w].job /\ runner'[w].link = runner[w].link
                      /\ \/ runner'[w].pc \in {"fail", "retry"}
                         \/ /\ runner[w].pc = "settle" /\ runner'[w].pc = "complete"
                         \/ /\ runner[w].pc = "pages" /\ runner'[w].pc = "settle"
                            /\ synced' = [synced EXCEPT ![runner[w].link] = news[runner[w].link]]
<1>1. ASSUME NEW r \in Runners, NEW q, Becomes(r, q), r # w
      PROVE  Goal
  BY <1>0, <1>1 DEF Becomes
<1>2. ASSUME NEW q, Becomes(w, q)
      PROVE  runner'[w] = q
  BY <1>0, <1>2 DEF Becomes
<1>3. ASSUME NEW p, Goto(w, p)
      PROVE  runner'[w].pc = p /\ runner'[w].job = runner[w].job /\ runner'[w].link = runner[w].link
  <2>1. runner'[w] = [runner[w] EXCEPT !.pc = p]
    BY <1>2, <1>3 DEF Goto
  <2>2. runner[w] \in Runner
    BY <1>0
  <2> QED
    BY <2>1, <2>2 DEF Runner
<1>4. ASSUME NEW r \in Runners, NEW p, Goto(r, p), r # w
      PROVE  Goal
  BY <1>1, <1>4 DEF Goto
<1>5. ASSUME NEW v \in Workers, Claim(v)
      PROVE  Goal
  <2>1. PICK h : Becomes(v, [Free EXCEPT !.pc = "next", !.held = h])
    BY <1>5 DEF Claim
  <2>2. CASE v = w
    <3>1. runner'[w].pc = "next"
      BY <1>2, <2>1, <2>2 DEF Free
    <3> QED
      BY <3>1 DEF Working
  <2>3. CASE v # w
    BY <1>0, <1>1, <2>1, <2>3
  <2> QED
    BY <2>2, <2>3
<1>6. ASSUME NEW v \in Workers, NEW j \in DOMAIN jobs, StartJob(v, j) \/ ConflictJob(v, j)
      PROVE  Goal
  <2>1. PICK p \in {"pages", "retry"} :
          Becomes(v, [runner[v] EXCEPT !.pc = p, !.link = jobs[j].link, !.job = j])
    BY <1>6 DEF StartJob, ConflictJob
  <2>2. CASE v = w
    <3>1. runner'[w] = [runner[w] EXCEPT !.pc = p, !.link = jobs[j].link, !.job = j]
      BY <1>2, <2>1, <2>2
    <3>2. runner[w] \in Runner
      BY <1>0
    <3>3. runner'[w].pc = p /\ runner'[w].link = jobs[j].link /\ runner'[w].job = j
      BY <3>1, <3>2 DEF Runner
    <3> QED
      BY <3>3
  <2>3. CASE v # w
    BY <1>0, <1>1, <2>1, <2>3
  <2> QED
    BY <2>2, <2>3
<1>7. ASSUME NEW v \in Workers, NextJob(v)
      PROVE  Goal
  <2>1. /\ runner'[v].pc \in {"next", "idle"}
        /\ \A s \in Runners \ {v} : runner'[s] = runner[s]
    BY <1>0, <1>7, NextJobRunner
  <2> QED
    BY <1>0, <2>1 DEF Working
<1>8. ASSUME NEW v \in Workers, CompleteJob(v)
      PROVE  Goal
  <2>1. CASE Goto(v, "retry")
    BY <1>0, <1>3, <1>4, <1>8, <2>1 DEF CompleteJob, At, Working
  <2> QED
    BY <1>7, <1>8, <2>1 DEF CompleteJob
<1>9. ASSUME NEW v \in Workers, RetryJob(v)
      PROVE  Goal
  BY <1>7, <1>9 DEF RetryJob
<1>10. ASSUME NEW r \in Runners, Becomes(r, Free)
       PROVE  Goal
  <2>1. CASE r = w
    <3>1. runner'[w].pc = "idle"
      BY <1>2, <1>10, <2>1 DEF Free
    <3> QED
      BY <3>1 DEF Working
  <2> QED
    BY <1>1, <1>10, <2>1
<1>11. ASSUME NEW u \in Users, NEW l \in Links, StartManual(u, l)
       PROVE  Goal
  BY <1>0, <1>1, <1>11 DEF StartManual
<1>12. ASSUME NEW r \in Runners, Pages(r)
       PROVE  Goal
  BY <1>0, <1>3, <1>4, <1>12 DEF Pages, At, Working
<1>13. ASSUME NEW r \in Runners, Settle(r)
       PROVE  Goal
  BY <1>0, <1>3, <1>4, <1>10, <1>13 DEF Settle, Afterwards, At, Working
<1>14. ASSUME NEW r \in Runners, Fail(r)
       PROVE  Goal
  BY <1>0, <1>3, <1>4, <1>10, <1>14 DEF Fail, Afterwards, At, Working
<1>15. ASSUME NEW r \in Runners, Abandon(r)
       PROVE  Goal
  BY <1>10, <1>15 DEF Abandon
<1>16. CASE UNCHANGED runner
  BY <1>16
<1>17. ASSUME NEW l \in Links,
              Publish(l) \/ AcceptWebhook(l) \/ RemoveItem(l) \/ PurgeLink(l) \/ EndLink(l) \/ LeaseAges(l)
       PROVE  Goal
  BY <1>16, <1>17 DEF Publish, AcceptWebhook, RemoveItem, PurgeLink, EndLink, LeaseAges
<1>18. ASSUME NEW j \in DOMAIN jobs, JobDue(j) \/ JobStale(j)
       PROVE  Goal
  BY <1>16, <1>18 DEF JobDue, JobStale
<1>19. ASSUME NextHour
       PROVE  Goal
  BY <1>16, <1>19 DEF NextHour
<1> HIDE DEF Goal
<1>20. ASSUME NEW v \in Workers, Drain(v)
       PROVE  Goal
  BY <1>5, <1>6, <1>8, <1>9, <1>20 DEF Drain
<1>21. ASSUME NEW r \in Runners, Sync(r) \/ Abandon(r)
       PROVE  Goal
  BY <1>12, <1>13, <1>14, <1>15, <1>21 DEF Sync
<1>22. Goal
  BY <1>11, <1>17, <1>18, <1>19, <1>20, <1>21 DEF Next
<1> QED
  BY <1>22 DEF Goal

\* A completed job means the updates its webhook announced are in the ledger.
THEOREM CompletedJobsAreSynced == Spec => []CompletedIsSynced
<1> DEFINE Inv == NewsInv /\ WorkInv /\ CompletedIsSynced
<1>1. Init => Inv
  BY DEF Init, NewsInv, WorkInv, Working, CompletedIsSynced, Free, Runners
<1>2. TypeOK /\ TypeOK' /\ Inv /\ [Next]_vars => Inv'
  <2> SUFFICES ASSUME TypeOK, TypeOK', Inv, [Next]_vars
               PROVE  Inv'
    OBVIOUS
  <2>1. CASE UNCHANGED vars
    BY <2>1 DEF vars, NewsInv, WorkInv, CompletedIsSynced
  <2>2. CASE Next
    <3>1. RowsKept /\ RowsAdded
      BY <2>2, StepJobs
    <3>2. \A l \in Links : news'[l] >= news[l] /\ synced'[l] >= synced[l] /\ synced'[l] <= news'[l]
      BY <2>2, StepNews
    <3>3. /\ news \in [Links -> Nat] /\ synced \in [Links -> Nat]
          /\ news' \in [Links -> Nat] /\ synced' \in [Links -> Nat]
          /\ \A j \in DOMAIN jobs : jobs[j].link \in Links /\ jobs[j].news \in Nat
          /\ \A j \in DOMAIN jobs' : jobs'[j].link \in Links /\ jobs'[j].news \in Nat
      BY RowsAreRows DEF TypeOK
    <3>4. NewsInv'
      <4>1. ASSUME NEW j \in DOMAIN jobs'
            PROVE  jobs'[j].news <= news'[jobs'[j].link]
        BY <3>1, <3>2, <3>3 DEF RowsKept, RowsAdded, NewsInv
      <4> QED
        BY <3>2, <4>1 DEF NewsInv
    <3>5. WorkInv'
      <4> SUFFICES ASSUME NEW w \in Workers, runner'[w].pc \in Working
                   PROVE  /\ runner'[w].job \in DOMAIN jobs'
                          /\ runner'[w].link = jobs'[runner'[w].job].link
                          /\ runner'[w].pc \in {"settle", "complete"} =>
                               synced'[runner'[w].link] >= jobs'[runner'[w].job].news
        BY DEF WorkInv
      <4>1. CASE runner'[w] = runner[w]
        BY <3>1, <3>2, <3>3, <4>1 DEF WorkInv, RowsKept
      <4>2. CASE /\ runner'[w].job \in DOMAIN jobs
                 /\ runner'[w].link = jobs[runner'[w].job].link
                 /\ runner'[w].pc \in {"pages", "retry"}
        BY <3>1, <4>2 DEF RowsKept
      <4>3. CASE /\ runner[w].pc \in Working
                 /\ runner'[w].job = runner[w].job /\ runner'[w].link = runner[w].link
                 /\ \/ runner'[w].pc \in {"fail", "retry"}
                    \/ /\ runner[w].pc = "settle" /\ runner'[w].pc = "complete"
                    \/ /\ runner[w].pc = "pages" /\ runner'[w].pc = "settle"
                       /\ synced' = [synced EXCEPT ![runner[w].link] = news[runner[w].link]]
        <5>1. /\ runner[w].job \in DOMAIN jobs
              /\ runner[w].link = jobs[runner[w].job].link
              /\ runner[w].pc = "settle" => synced[runner[w].link] >= jobs[runner[w].job].news
          BY <4>3 DEF WorkInv
        <5>2. news[runner[w].link] >= jobs[runner[w].job].news
          BY <3>3, <5>1 DEF NewsInv
        <5> QED
          BY <3>1, <3>2, <3>3, <4>3, <5>1, <5>2 DEF RowsKept
      <4> QED
        BY <2>2, <4>1, <4>2, <4>3, StepWorker
    <3>6. CompletedIsSynced'
      <4> SUFFICES ASSUME NEW j \in DOMAIN jobs', jobs'[j].status = "completed"
                   PROVE  synced'[jobs'[j].link] >= jobs'[j].news
        BY DEF CompletedIsSynced
      <4>1. j \in DOMAIN jobs
        BY <3>1 DEF RowsAdded
      <4>2. synced[jobs[j].link] >= jobs[j].news
        BY <3>1, <4>1 DEF RowsKept, CompletedIsSynced, WorkInv, Working, At
      <4> QED
        BY <3>1, <3>2, <3>3, <4>1, <4>2 DEF RowsKept
    <3> QED
      BY <3>4, <3>5, <3>6
  <2> QED
    BY <2>1, <2>2
<1>3. Spec => []TypeOK
  BY QueueTypeCorrect
<1> QED
  BY <1>1, <1>2, <1>3, PTL DEF Spec

=============================================================================
