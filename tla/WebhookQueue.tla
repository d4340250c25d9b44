---------------------------- MODULE WebhookQueue ----------------------------
(***************************************************************************)
(* The durable queue between the bank's webhooks and the synchronisation:  *)
(* acceptWebhook, drainWebhookQueue, the bank_webhook_jobs statements, and *)
(* the syncs of other requests that compete for the same link.             *)
(*                                                                         *)
(* A runner is a server process draining the queue (Workers) or a request  *)
(* of a user that refreshes a link by hand (Users).  A sync is reduced to  *)
(* what the queue sees of it: the lease on the row, the moment the last    *)
(* page is read and stored, the settling of the row, and failure (BankSync *)
(* has the detail).  Jobs are numbered in the order of created_at.  Clocks *)
(* are reduced to the comparisons the SQL makes: due, stale, aged, hour.   *)
(***************************************************************************)
EXTENDS Naturals, Sequences, FiniteSets

CONSTANTS
    Links,        \* institution links
    Workers,      \* server processes, each with its drainingWebhooks flag
    Users,        \* requests that sync a link by hand
    MaxAttempts,  \* attempts after which a failing job is given up (5 in the code)
    Batch,        \* jobs one claim may take (10 in the code)
    MaxJobs,      \* bound: rows of bank_webhook_jobs
    MaxNews,      \* bound: updates the provider publishes for a link
    MaxHours,     \* bound: dedupe buckets
    MaxFaults     \* bound: runners that die or lose the database in the middle of their work

ASSUME QueueAssumption ==
    /\ MaxAttempts \in Nat \ {0}
    /\ Batch \in Nat \ {0}
    /\ {MaxJobs, MaxNews, MaxHours, MaxFaults} \subseteq Nat
    /\ Workers \cap Users = {}
    /\ "none" \notin Links

Runners == Workers \cup Users

VARIABLES
    jobs,     \* bank_webhook_jobs in the order of created_at; a deleted row is "purged"
    lease,    \* the link's row: "free", "held" (status syncing) or "gone"
    aged,     \* the lease was taken more than five minutes ago
    item,     \* how far the end of a connection got: "live", "removed", "purged"
    news,     \* updates the provider has published for the link
    synced,   \* updates that have reached the ledger
    runner,   \* what each runner is doing
    hour,     \* date_trunc('hour', now())
    faults    \* runners lost so far

vars == <<jobs, lease, aged, item, news, synced, runner, hour, faults>>

-----------------------------------------------------------------------------
(* Domains and helpers *)

Job == [link : Links, status : {"pending", "processing", "completed", "failed", "purged"},
        attempts : Nat, due : BOOLEAN, stale : BOOLEAN, hour : Nat, news : Nat]

\* held[j] is the attempt number of the claim that gave j to this runner, 0 when it has no claim.
Runner == [pc : {"idle", "next", "pages", "settle", "complete", "fail", "retry"},
           link : Links \cup {"none"}, job : 0..MaxJobs, held : [1..MaxJobs -> Nat]]

Free == [pc |-> "idle", link |-> "none", job |-> 0, held |-> [j \in 1..MaxJobs |-> 0]]

At(r, where) == runner[r].pc = where
Becomes(r, q) == runner' = [runner EXCEPT ![r] = q]
Goto(r, where) == Becomes(r, [runner[r] EXCEPT !.pc = where])

\* Where a finished sync leads: back to the queue's loop, or the end of a user's request.
Afterwards(r, where) == IF r \in Workers THEN Goto(r, where) ELSE Becomes(r, Free)

\* The worker is through with its current job.
NextJob(r) ==
    LET rest == [runner[r].held EXCEPT ![runner[r].job] = 0] IN
    Becomes(r, [Free EXCEPT !.pc = IF \E j \in DOMAIN rest : rest[j] > 0 THEN "next" ELSE "idle",
                            !.held = rest])

\* The UPDATEs of complete and retry match nothing once the row is deleted.
SetJob(j, row) == jobs' = [jobs EXCEPT ![j] = IF @.status = "purged" THEN @ ELSE row]

Purged(l) == [j \in DOMAIN jobs |-> IF jobs[j].link = l
                                    THEN [jobs[j] EXCEPT !.status = "purged"] ELSE jobs[j]]

Init ==
    /\ jobs = <<>>
    /\ lease = [l \in Links |-> "free"]
    /\ aged = [l \in Links |-> FALSE]
    /\ item = [l \in Links |-> "live"]
    /\ news = [l \in Links |-> 0]
    /\ synced = [l \in Links |-> 0]
    /\ runner = [r \in Runners |-> Free]
    /\ hour = 0
    /\ faults = 0

-----------------------------------------------------------------------------
(* The provider and its webhooks *)

Publish(l) ==
    /\ item[l] = "live"
    /\ news[l] < MaxNews
    /\ news' = [news EXCEPT ![l] = @ + 1]
    /\ UNCHANGED <<jobs, lease, aged, item, synced, runner, hour, faults>>

\* bank_webhook_jobs_delivery_unique: SYNC_UPDATES_AVAILABLE for an Item has the same body,
\* so the same hash, every time; a second one within the hour is not queued.
Duplicate(l) == \E j \in DOMAIN jobs :
    jobs[j].link = l /\ jobs[j].hour = hour /\ jobs[j].status # "purged"

\* acceptWebhook: the row of the link is found and the job is inserted.
AcceptWebhook(l) ==
    /\ news[l] > 0
    /\ lease[l] # "gone"
    /\ ~ Duplicate(l)
    /\ Len(jobs) < MaxJobs
    /\ jobs' = Append(jobs, [link |-> l, status |-> "pending", attempts |-> 0, due |-> TRUE,
                             stale |-> FALSE, hour |-> hour, news |-> news[l]])
    /\ UNCHANGED <<lease, aged, item, news, synced, runner, hour, faults>>

-----------------------------------------------------------------------------
(* drainWebhookQueue *)

\* Mutant: a worker's death is never noticed.
ClaimablePending(j) == jobs[j].status = "pending" /\ jobs[j].due

Claimable(j) == \/ jobs[j].status = "pending" /\ jobs[j].due
                \/ jobs[j].status = "processing" /\ jobs[j].stale

Oldest(S) == {j \in S : Cardinality({k \in S : k < j}) < Batch}

\* Mutant: the attempt counter is counted down.
ClaimCountsDown(w) ==
    LET taken == Oldest({j \in DOMAIN jobs : Claimable(j)}) IN
    /\ At(w, "idle")
    /\ taken # {}
    /\ jobs' = [j \in DOMAIN jobs |->
                  IF j \in taken
                  THEN [jobs[j] EXCEPT !.status = "processing", !.attempts = @ - 1, !.stale = FALSE]
                  ELSE jobs[j]]
    /\ Becomes(w, [Free EXCEPT !.pc = "next",
                               !.held = [j \in DOMAIN @ |->
                                  IF j \in taken THEN jobs[j].attempts + 1 ELSE 0]])
    /\ UNCHANGED <<lease, aged, item, news, synced, hour, faults>>

\* finverse_claim_bank_webhooks, behind the drainingWebhooks flag of the process.
Claim(w) ==
    LET taken == Oldest({j \in DOMAIN jobs : Claimable(j)}) IN
    /\ At(w, "idle")
    /\ taken # {}
    /\ jobs' = [j \in DOMAIN jobs |->
                  IF j \in taken
                  THEN [jobs[j] EXCEPT !.status = "processing", !.attempts = @ + 1, !.stale = FALSE]
                  ELSE jobs[j]]
    /\ Becomes(w, [Free EXCEPT !.pc = "next",
                               !.held = [j \in DOMAIN @ |->
                                  IF j \in taken THEN jobs[j].attempts + 1 ELSE 0]])
    /\ UNCHANGED <<lease, aged, item, news, synced, hour, faults>>

MayStart(l) == lease[l] = "free" \/ (lease[l] = "held" /\ aged[l])

TakeLease(l) ==
    /\ MayStart(l)
    /\ lease' = [lease EXCEPT ![l] = "held"]
    /\ aged' = [aged EXCEPT ![l] = FALSE]

\* The worker takes up one of its jobs and its sync gets the lease.
StartJob(w, j) ==
    /\ At(w, "next")
    /\ runner[w].held[j] > 0
    /\ TakeLease(jobs[j].link)
    /\ Becomes(w, [runner[w] EXCEPT !.pc = "pages", !.link = jobs[j].link, !.job = j])
    /\ UNCHANGED <<jobs, item, news, synced, hour, faults>>

\* Mutant: a sync in progress counts as this job's sync.
ConflictCompletes(w, j) ==
    /\ At(w, "next")
    /\ runner[w].held[j] > 0
    /\ ~ MayStart(jobs[j].link)
    /\ Becomes(w, [runner[w] EXCEPT !.pc = "complete", !.link = jobs[j].link, !.job = j])
    /\ UNCHANGED <<jobs, lease, aged, item, news, synced, hour, faults>>

\* ConflictException or NotFoundException of sync: an attempt that failed.
ConflictJob(w, j) ==
    /\ At(w, "next")
    /\ runner[w].held[j] > 0
    /\ ~ MayStart(jobs[j].link)
    /\ Becomes(w, [runner[w] EXCEPT !.pc = "retry", !.link = jobs[j].link, !.job = j])
    /\ UNCHANGED <<jobs, lease, aged, item, news, synced, hour, faults>>

\* webhooks.complete; should it throw, the catch block retries a job that was done.
CompleteJob(w) ==
    LET j == runner[w].job IN
    /\ At(w, "complete")
    /\ \/ /\ SetJob(j, [jobs[j] EXCEPT !.status = "completed"])
          /\ NextJob(w)
       \/ /\ Goto(w, "retry")
          /\ UNCHANGED jobs
    /\ UNCHANGED <<lease, aged, item, news, synced, hour, faults>>

\* Mutant: a failing job is tried for ever.
NeverTerminal(attempts) == FALSE

Terminal(attempts) == attempts >= MaxAttempts

\* webhooks.retry with the attempt number the claim returned.
RetryJob(w) ==
    LET j == runner[w].job
        next == IF Terminal(runner[w].held[j]) THEN "failed" ELSE "pending" IN
    /\ At(w, "retry")
    /\ SetJob(j, [jobs[j] EXCEPT !.status = next, !.due = FALSE])
    /\ NextJob(w)
    /\ UNCHANGED <<lease, aged, item, news, synced, hour, faults>>

-----------------------------------------------------------------------------
(* The sync of a worker or a user *)

StartManual(u, l) ==
    /\ At(u, "idle")
    /\ TakeLease(l)
    /\ Becomes(u, [Free EXCEPT !.pc = "pages", !.link = l])
    /\ UNCHANGED <<jobs, item, news, synced, hour, faults>>

\* The page loop up to the page that says there is no more, or an error of the provider.
Pages(r) ==
    LET l == runner[r].link IN
    /\ At(r, "pages")
    /\ \/ /\ item[l] = "live"
          /\ synced' = [synced EXCEPT ![l] = news[l]]
          /\ Goto(r, "settle")
       \/ /\ Goto(r, "fail")
          /\ UNCHANGED synced
    /\ UNCHANGED <<jobs, lease, aged, item, news, hour, faults>>

\* links.update and the derived data; the latter may still throw.
Settle(r) ==
    LET l == runner[r].link IN
    /\ At(r, "settle")
    /\ lease' = [lease EXCEPT ![l] = IF @ = "gone" THEN @ ELSE "free"]
    /\ aged' = [aged EXCEPT ![l] = FALSE]
    /\ Afterwards(r, "complete") \/ Goto(r, "fail")
    /\ UNCHANGED <<jobs, item, news, synced, hour, faults>>

\* The catch block of sync writes needs_reauth or error, whoever holds the lease by now.
Fail(r) ==
    LET l == runner[r].link IN
    /\ At(r, "fail")
    /\ lease' = [lease EXCEPT ![l] = IF @ = "gone" THEN @ ELSE "free"]
    /\ aged' = [aged EXCEPT ![l] = FALSE]
    /\ Afterwards(r, "retry")
    /\ UNCHANGED <<jobs, item, news, synced, hour, faults>>

-----------------------------------------------------------------------------
(* The end of a connection: disconnect, and revokeAll for each link *)

RemoveItem(l) ==
    /\ item[l] = "live"
    /\ item' = [item EXCEPT ![l] = "removed"]
    /\ UNCHANGED <<jobs, lease, aged, news, synced, runner, hour, faults>>

PurgeLink(l) ==
    /\ item[l] = "removed"
    /\ item' = [item EXCEPT ![l] = "purged"]
    /\ jobs' = Purged(l)
    /\ UNCHANGED <<lease, aged, news, synced, runner, hour, faults>>

\* links.remove and the ON DELETE CASCADE of the jobs, or links.update(revoked).
EndLink(l) ==
    /\ item[l] = "purged"
    /\ lease[l] # "gone"
    /\ \/ /\ lease' = [lease EXCEPT ![l] = "gone"]
          /\ jobs' = Purged(l)
       \/ /\ lease' = [lease EXCEPT ![l] = "free"]
          /\ UNCHANGED jobs
    /\ aged' = [aged EXCEPT ![l] = FALSE]
    /\ UNCHANGED <<item, news, synced, runner, hour, faults>>

-----------------------------------------------------------------------------
(* Time and faults *)

\* available_at has come.
JobDue(j) ==
    /\ jobs[j].status = "pending"
    /\ ~ jobs[j].due
    /\ jobs' = [jobs EXCEPT ![j].due = TRUE]
    /\ UNCHANGED <<lease, aged, item, news, synced, runner, hour, faults>>

\* Five minutes since the job was claimed, whether or not its worker is still busy.
JobStale(j) ==
    /\ jobs[j].status = "processing"
    /\ ~ jobs[j].stale
    /\ jobs' = [jobs EXCEPT ![j].stale = TRUE]
    /\ UNCHANGED <<lease, aged, item, news, synced, runner, hour, faults>>

LeaseAges(l) ==
    /\ lease[l] = "held"
    /\ ~ aged[l]
    /\ aged' = [aged EXCEPT ![l] = TRUE]
    /\ UNCHANGED <<jobs, lease, item, news, synced, runner, hour, faults>>

NextHour ==
    /\ hour < MaxHours
    /\ hour' = hour + 1
    /\ UNCHANGED <<jobs, lease, aged, item, news, synced, runner, faults>>

\* The process dies, or webhooks.retry throws and the loop is left: the rest of the batch is
\* abandoned in the state "processing", and a lease stays held.
Abandon(r) ==
    /\ ~ At(r, "idle")
    /\ faults < MaxFaults
    /\ faults' = faults + 1
    /\ Becomes(r, Free)
    /\ UNCHANGED <<jobs, lease, aged, item, news, synced, hour>>

Sync(r) == Pages(r) \/ Settle(r) \/ Fail(r)

Drain(w) ==
    \/ Claim(w)
    \/ \E j \in DOMAIN jobs : StartJob(w, j) \/ ConflictJob(w, j)
    \/ CompleteJob(w)
    \/ RetryJob(w)

Next ==
    \/ \E l \in Links : Publish(l) \/ AcceptWebhook(l)
    \/ \E w \in Workers : Drain(w)
    \/ \E u \in Users, l \in Links : StartManual(u, l)
    \/ \E r \in Runners : Sync(r) \/ Abandon(r)
    \/ \E l \in Links : RemoveItem(l) \/ PurgeLink(l) \/ EndLink(l)
    \/ \E j \in DOMAIN jobs : JobDue(j) \/ JobStale(j)
    \/ \E l \in Links : LeaseAges(l)
    \/ NextHour

\* The 30 second timer keeps draining, a handler that runs goes on, and time passes.
\* Users, the provider, webhooks, disconnects and faults owe nothing.
Fairness ==
    /\ \A w \in Workers : WF_vars(Drain(w))
    /\ \A r \in Runners : WF_vars(Sync(r))
    /\ \A j \in 1..MaxJobs : WF_vars(j \in DOMAIN jobs /\ (JobDue(j) \/ JobStale(j)))
    /\ \A l \in Links : WF_vars(LeaseAges(l))

Spec == Init /\ [][Next]_vars /\ Fairness

-----------------------------------------------------------------------------
(* Properties *)

\* Every variable keeps its type: the rows the schema allows and the runners' locals.
TypeOK ==
    /\ jobs \in Seq(Job)
    /\ Len(jobs) <= MaxJobs
    /\ lease \in [Links -> {"free", "held", "gone"}]
    /\ aged \in [Links -> BOOLEAN]
    /\ item \in [Links -> {"live", "removed", "purged"}]
    /\ news \in [Links -> Nat]
    /\ synced \in [Links -> Nat]
    /\ runner \in [Runners -> Runner]
    /\ hour \in Nat
    /\ faults \in Nat

\* A completed job means the updates its webhook announced are in the ledger.  A manual
\* refresh that is under way when the job is taken up may have read its last page before
\* they were published, which is why a conflict has to fail the attempt.
CompletedIsSynced ==
    \A j \in DOMAIN jobs : jobs[j].status = "completed" => synced[jobs[j].link] >= jobs[j].news

\* No retry storm, although nothing stops a late worker from putting a failed or completed
\* job back to pending: only a claim below the limit can do that, once, and what follows is
\* at most one stale claim per worker that is free by then, and one for each worker that died.
AttemptsBounded ==
    LET W == Cardinality(Workers) IN
    \A j \in DOMAIN jobs :
        jobs[j].attempts <= MaxAttempts - 1 + (W * (W + 1)) \div 2 + MaxFaults

Settled(j) == j \in DOMAIN jobs => jobs[j].status \in {"completed", "failed", "purged"}

\* A queued job is worked off for good, though workers die holding it, go stale and report
\* late, meet other syncs of the link, or see the link end.
JobsSettle == \A j \in 1..MaxJobs : <>[]Settled(j)

=============================================================================
