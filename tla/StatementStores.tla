--------------------------- MODULE StatementStores ---------------------------
(***************************************************************************)
(* The port behind which uploaded statements are kept, twice: staged is    *)
(* what the in-memory adapter holds, filed what PostgreSQL holds with its  *)
(* claim function.  Both get the calls that the service and its workers    *)
(* make, those of a worker that was overtaken included.  tallies says      *)
(* whether both answered the last call alike; unlike has the imports whose *)
(* source was taken from under a worker, which only memory claims again.   *)
(*                                                                         *)
(* Imports of one user and account are numbered by created_at.  A row is   *)
(* its amount and decision; an audit trail is the kinds of its events.     *)
(***************************************************************************)
EXTENDS Naturals, FiniteSets, Sequences

CONSTANTS
    Uploads,       \* bound: imports, 1..n
    Hashes,        \* contents of files
    Quotas,        \* <<sources, imports in the queue>> one user may have (64 MB and 5 in the code)
    MaxTries,      \* claims of one import (3 in the code)
    MaxReviews     \* bound: writes of rows

ASSUME StatementStoresAssumption ==
    /\ MaxTries \in Nat \ {0} /\ MaxReviews \in Nat
    /\ Uploads \subseteq Nat \ {0} /\ IsFiniteSet(Uploads) /\ Quotas \subseteq Nat \X Nat

VARIABLES staged, filed, tallies, unlike, reviews, quota

statementStoresVars == <<staged, filed, tallies, unlike, reviews, quota>>

NoHash == "none"
RowDecisions == {"include", "exclude", "needs_review"}
NoUpload ==
    [status |-> "none", hash |-> NoHash, source |-> FALSE, tries |-> 0, stale |-> FALSE, over |-> FALSE,
     rows |-> <<>>, counts |-> <<0, 0, 0, 0>>, audit |-> {}]
StagedRow(amount, decision) == [amount |-> amount, decision |-> decision, split |-> FALSE]
Extracted == <<StagedRow(2, "include"), StagedRow(1, "include"), StagedRow(1, "needs_review")>>

\* recalculate and refreshCounts: all rows, and those of each decision.
Number(rows, d) == Cardinality({r \in DOMAIN rows : rows[r].decision = d})
Counted(rows) ==
    <<Len(rows), Number(rows, "include"), Number(rows, "exclude"), Number(rows, "needs_review")>>
WithRows(s, rows) == [s EXCEPT !.rows = rows, !.counts = Counted(rows)]
Logged(s, kind) == [s EXCEPT !.audit = @ \cup {kind}]

StatementStoresInit ==
    /\ staged = [i \in Uploads |-> NoUpload] /\ filed = [i \in Uploads |-> NoUpload]
    /\ tallies = TRUE /\ unlike = {} /\ reviews = 0 /\ quota \in Quotas

Is(db, i, s) == db[i].status = s
Pending(db) == {i \in Uploads : db[i].status \in {"queued", "processing"}}
Sources(db) == {i \in Uploads : db[i].source}

\* A write to import i, of both, with the answers.
Writes(i, m, p, mAnswer, pAnswer) ==
    /\ staged' = [staged EXCEPT ![i] = m] /\ filed' = [filed EXCEPT ![i] = p]
    /\ tallies' = (i \notin unlike => mAnswer = pAnswer)

-----------------------------------------------------------------------------
(* Uploads *)

\* assertQuota, then the file that was uploaded before; one that failed may be tried again.
MemRefusesUpload(db, h, queued) ==
    IF Cardinality(Sources(db)) >= quota[1] \/ (queued /\ Cardinality(Pending(db)) >= quota[2])
    THEN "quota"
    ELSE IF \E i \in Uploads : db[i].hash = h /\ db[i].status \notin {"failed", "deleted"}
         THEN "duplicate" ELSE "created"

\* assertStatementQuota counts the sources that are left; then the unique index of migration 044.
PgRefusesUpload(db, h, queued) ==
    IF Cardinality(Sources(db)) >= quota[1]
       \/ (queued /\ Cardinality(Pending(db) \cap Sources(db)) >= quota[2])
    THEN "quota"
    ELSE IF \E i \in Uploads : db[i].hash = h /\ ~ (db[i].status \in {"failed", "deleted"})
         THEN "duplicate" ELSE "created"

\* enqueue, and create of an import that was analysed with the upload.
Enqueued(h) == [NoUpload EXCEPT !.status = "queued", !.hash = h, !.source = TRUE, !.audit = {"created"}]
Created(h) == [WithRows(Enqueued(h), Extracted) EXCEPT !.status = "ready", !.audit = {"created",
    "processed"}]

\* In memory a deleted import's source still counts, and a queued one's without its source: no upload then.
Upload(i, h, queued) ==
    LET s == IF queued THEN Enqueued(h) ELSE Created(h)
        m == MemRefusesUpload(staged, h, queued)
        p == PgRefusesUpload(filed, h, queued) IN
    /\ Is(staged, i, "none") /\ \A j \in Uploads : j < i => ~ Is(staged, j, "none")
    /\ Sources(staged) = Sources(filed) /\ Pending(staged) \subseteq Sources(staged)
    /\ \A j \in unlike : staged[j].status = filed[j].status
    /\ Writes(i, IF m = "created" THEN s ELSE NoUpload, IF p = "created" THEN s ELSE NoUpload, m, p)
    /\ UNCHANGED <<unlike, reviews>>

-----------------------------------------------------------------------------
(* The queue *)

\* A source whose time is over is destroyed, and what was waiting for it fails.
Expired(s) ==
    [Logged(s, "source_deleted") EXCEPT !.source = FALSE, !.over = FALSE, !.stale = FALSE,
        !.status = IF @ \in {"queued", "processing"} THEN "failed" ELSE @]
Exhausted(s) == [Logged(s, "failed") EXCEPT !.status = "failed", !.source = FALSE, !.over = FALSE,
                 !.stale = FALSE]
Claimed(s) == [s EXCEPT !.status = "processing", !.tries = @ + 1, !.stale = FALSE]

Overdue(db) == {i \in Sources(db) : db[i].over}
Stalled(db) == {i \in Uploads \ Overdue(db) : Is(db, i, "processing") /\ db[i].stale}
FirstOf(S, n) == {i \in S : Cardinality({j \in S : j < i}) < n}

\* Mutant: who has had the last try is claimed once more.
MemGivesUpLater(db) == {i \in Stalled(db) : db[i].tries > MaxTries}

\* The imports the claim gives up, and those it takes.
MemGivesUp(db) == {i \in Stalled(db) : db[i].tries >= MaxTries}
MemTakes(db, n) ==
    LET queued == {i \in Sources(db) \ Overdue(db) : Is(db, i, "queued")} IN
    FirstOf((queued \cup Stalled(db)) \ MemGivesUp(db), n)
\* In PostgreSQL only with a source.
PgGivesUp(db) == {i \in Stalled(db) \cap Sources(db) : db[i].tries >= MaxTries}
PgTakes(db, n) ==
    FirstOf({i \in Sources(db) \ Overdue(db) : db[i].tries < MaxTries
             /\ (Is(db, i, "queued") \/ i \in Stalled(db))}, n)

AfterClaim(db, gone, taken) ==
    [i \in Uploads |-> IF i \in Overdue(db) THEN Expired(db[i])
                       ELSE IF i \in gone THEN Exhausted(db[i])
                       ELSE IF i \in taken THEN Claimed(db[i]) ELSE db[i]]

\* An import that only memory claims takes the place of another one: no claim of too few then.
Claims(n) ==
    /\ unlike # {} => n = Cardinality(Uploads)
    /\ staged' = AfterClaim(staged, MemGivesUp(staged), MemTakes(staged, n))
    /\ filed' = AfterClaim(filed, PgGivesUp(filed), PgTakes(filed, n))
    /\ tallies' = (MemTakes(staged, n) \ unlike = PgTakes(filed, n) \ unlike)
    /\ UNCHANGED <<unlike, reviews>>

\* Five minutes of a claim, ninety days of a source.
LeaseLapses(i) ==
    /\ Is(staged, i, "processing") \/ Is(filed, i, "processing")
    /\ staged' = [staged EXCEPT ![i].stale = Is(staged, i, "processing")]
    /\ filed' = [filed EXCEPT ![i].stale = Is(filed, i, "processing")]
    /\ unlike' = unlike \cup ({i} \ Sources(filed))
    /\ UNCHANGED <<tallies, reviews>>
RetentionEnds(i) ==
    /\ i \in Sources(staged) \cup Sources(filed)
    /\ staged' = [staged EXCEPT ![i].over = @ \/ staged[i].source]
    /\ filed' = [filed EXCEPT ![i].over = @ \/ filed[i].source]
    /\ UNCHANGED <<tallies, unlike, reviews>>

\* completeProcessing and failProcessing, of whoever has claimed it at some time.
MemCompletes(s) ==
    IF s.status # "processing" THEN s
    ELSE Logged(WithRows([s EXCEPT !.status = "ready", !.stale = FALSE], Extracted), "processed")
PgCompletes(s) ==
    IF s.status # "processing" THEN s
    ELSE Logged([WithRows(s, s.rows \o Extracted) EXCEPT !.status = "ready", !.stale = FALSE], "processed")
CompleteProcessing(i) ==
    /\ filed[i].tries > 0
    /\ Writes(i, MemCompletes(staged[i]), PgCompletes(filed[i]), Is(staged, i, "processing"),
              Is(filed, i, "processing"))
    /\ UNCHANGED <<unlike, reviews>>

MemFails(s) ==
    IF s.status = "processing" THEN Logged([s EXCEPT !.status = "failed", !.stale = FALSE], "failed") ELSE s
PgFails(s) ==
    IF s.status = "processing" THEN Logged([s EXCEPT !.status = "failed", !.stale = FALSE], "failed") ELSE s
FailProcessing(i) ==
    /\ filed[i].tries > 0
    /\ Writes(i, MemFails(staged[i]), PgFails(filed[i]), Is(staged, i, "processing"),
              Is(filed, i, "processing"))
    /\ UNCHANGED <<unlike, reviews>>

-----------------------------------------------------------------------------
(* Review: the rows of an import that is ready; a row is split once, the ids of its parts are its own *)

Reviewing(i) == reviews < MaxReviews /\ reviews' = reviews + 1 /\ ~ Is(staged, i, "none") /\ UNCHANGED unlike

\* updateRow and updateRowsDecision: all of the rows are there, or nothing is written.
MemUpdates(s, R, row) ==
    IF s.status = "ready" /\ R \subseteq DOMAIN s.rows
    THEN Logged(WithRows(s, [r \in DOMAIN s.rows |-> IF r \in R
                             THEN row[r] ELSE s.rows[r]]), "row_edited") ELSE s
PgUpdates(s, R, row) ==
    IF R \subseteq DOMAIN s.rows /\ s.status = "ready"
    THEN Logged(WithRows(s, [r \in DOMAIN s.rows |-> IF r \in R
                             THEN row[r] ELSE s.rows[r]]), "row_edited") ELSE s

UpdateRow(i, r, amount) ==
    LET row == [x \in {r} |-> [filed[i].rows[r] EXCEPT !.amount = amount]] IN
    /\ Reviewing(i) /\ r \in DOMAIN filed[i].rows
    /\ Writes(i, MemUpdates(staged[i], {r}, row), PgUpdates(filed[i], {r}, row), Is(staged, i, "ready"),
              Is(filed, i, "ready"))

UpdateRowsDecision(i, R, d) ==
    LET row == [r \in R |-> [filed[i].rows[r] EXCEPT !.decision = d]] IN
    /\ Reviewing(i) /\ R # {} /\ R \subseteq DOMAIN filed[i].rows
    /\ Writes(i, MemUpdates(staged[i], R, row), PgUpdates(filed[i], R, row), Is(staged, i, "ready"),
              Is(filed, i, "ready"))

\* splitRow and mergeRows: the rows R are excluded, others appended.
Replaces(s, R, new, kind) ==
    Logged(WithRows(s, [r \in DOMAIN s.rows |-> IF r \in R
                        THEN [s.rows[r] EXCEPT !.decision = "exclude", !.split = TRUE]
                                                ELSE s.rows[r]] \o new), kind)
MemReplaces(s, R, new, kind) == IF s.status = "ready" THEN Replaces(s, R, new, kind) ELSE s
PgReplaces(s, R, new, kind) == IF s.status = "ready" THEN Replaces(s, R, new, kind) ELSE s

SplitUploaded(i, r) ==
    /\ Reviewing(i) /\ r \in DOMAIN filed[i].rows /\ filed[i].rows[r].amount = 2 /\ ~ filed[i].rows[r].split
    /\ Writes(i, MemReplaces(staged[i], {r}, <<StagedRow(1, "include"), StagedRow(1, "include")>>,
                             "row_split"),
                 PgReplaces(filed[i], {r}, <<StagedRow(1, "include"), StagedRow(1, "include")>>,
                            "row_split"), Is(staged, i, "ready"), Is(filed, i, "ready"))

MergeUploaded(i, R) ==
    LET sum == <<StagedRow(Cardinality(R), "include")>> IN
    /\ Reviewing(i) /\ Cardinality(R) > 1
       /\ R \subseteq {r \in DOMAIN filed[i].rows : filed[i].rows[r].amount = 1}
    /\ Writes(i, MemReplaces(staged[i], R, sum, "rows_merged"),
                 PgReplaces(filed[i], R, sum, "rows_merged"), Is(staged, i, "ready"), Is(filed, i, "ready"))

-----------------------------------------------------------------------------
(* The end *)

\* finalize.  Only PostgreSQL looks at the rows again: here approve has, right before.
MemFinalizes(s) == IF s.status = "ready" THEN Logged([s EXCEPT !.status = "approved"], "approved") ELSE s
PgFinalizes(s) ==
    IF s.status = "ready" /\ s.counts[4] = 0
        THEN Logged([s EXCEPT !.status = "approved"], "approved") ELSE s
FinalizeUpload(i) ==
    /\ ~ Is(filed, i, "none") /\ Number(filed[i].rows, "needs_review") = 0
       /\ Number(filed[i].rows, "include") > 0
    /\ Writes(i, MemFinalizes(staged[i]), PgFinalizes(filed[i]), Is(staged, i, "ready"), Is(filed, i, "ready"))
    /\ UNCHANGED <<unlike, reviews>>

\* deleteSource.  Of a source that is gone only PostgreSQL says so.
Unsourced(s) == Logged([s EXCEPT !.source = FALSE, !.over = FALSE], "source_deleted")
DeleteUploadSource(i) ==
    /\ i \in Sources(filed)
    /\ Writes(i, Unsourced(staged[i]), Unsourced(filed[i]), ~ Is(staged, i, "deleted"), TRUE)
    /\ unlike' = unlike \cup {j \in {i} : filed[i].stale}
    /\ UNCHANGED reviews

\* delete: the source only in PostgreSQL.
MemDeletes(s) ==
    IF s.status = "deleted" THEN s ELSE Logged([s EXCEPT !.status = "deleted", !.stale = FALSE], "deleted")
PgDeletes(s) ==
    IF s.status = "deleted" THEN s ELSE Logged([s EXCEPT !.status = "deleted", !.source = FALSE,
                                                !.over = FALSE], "deleted")
DeleteUpload(i) ==
    /\ ~ Is(filed, i, "none")
    /\ Writes(i, MemDeletes(staged[i]), PgDeletes(filed[i]), Is(staged, i, "deleted"), Is(filed, i, "deleted"))
    /\ UNCHANGED <<unlike, reviews>>

\* purgeUser here, ON DELETE CASCADE there.
PurgeUploads ==
    /\ staged' = [i \in Uploads |-> NoUpload] /\ filed' = [i \in Uploads |-> NoUpload]
    /\ unlike' = {} /\ UNCHANGED <<tallies, reviews>>

StatementStoresNext ==
    /\ UNCHANGED quota
    /\ \/ \E i \in Uploads :
            \/ \E h \in Hashes, queued \in BOOLEAN : Upload(i, h, queued)
            \/ LeaseLapses(i) \/ RetentionEnds(i) \/ CompleteProcessing(i) \/ FailProcessing(i)
            \/ \E r \in DOMAIN filed[i].rows : SplitUploaded(i, r)
               \/ \E amount \in 1..2 : UpdateRow(i, r, amount)
            \/ \E R \in SUBSET DOMAIN filed[i].rows : MergeUploaded(i, R)
               \/ \E d \in RowDecisions : UpdateRowsDecision(i, R, d)
            \/ FinalizeUpload(i) \/ DeleteUploadSource(i) \/ DeleteUpload(i)
       \/ \E n \in Uploads : Claims(n)
       \/ PurgeUploads

StatementStoresSpec == StatementStoresInit /\ [][StatementStoresNext]_statementStoresVars

\* What list, get, rows, audit and source show of an import; nothing of one that was deleted.
Shown(s) ==
    IF s.status = "deleted" THEN "deleted"
    ELSE [status |-> s.status, rows |-> s.rows, counts |-> s.counts, audit |-> s.audit, tries |-> s.tries,
          source |-> s.status = "processing" /\ s.source]

\* Through every order of uploads, claims, late and repeated outcomes of workers, reviews and deletions,
\* whatever times out in between, both adapters answer alike and show the same status, rows, counts and
\* events of every import: what the tests see in memory is what PostgreSQL does.  Not of an import whose
\* source is deleted while its worker is dead: memory fails it, in PostgreSQL it stays as it is.
SameStatements ==
    /\ tallies
    /\ \A i \in Uploads \ unlike : Shown(staged[i]) = Shown(filed[i])
       /\ filed[i].counts = Counted(filed[i].rows)
=============================================================================
