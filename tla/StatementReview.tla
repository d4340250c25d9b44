--------------------------- MODULE StatementReview ---------------------------
(***************************************************************************)
(* The review of one extracted statement and its approval: requests read   *)
(* rows, work out what to write, and write it in a later transaction, all  *)
(* against each other, the deletion of the import, and what the bank and   *)
(* other imports put into the same account.                                *)
(*                                                                         *)
(* Rows are told apart by their line and amount; dates, currencies and     *)
(* descriptions are taken to be equal, as they are for the rows that the   *)
(* duplicate checks are about.  Amounts are positive, 0 stands for null.   *)
(***************************************************************************)
EXTENDS Naturals, FiniteSets

CONSTANTS
    Reviewers,   \* requests served at the same time
    Lines,       \* lines the analysis found
    MaxRows,     \* bound: rows, those of splits and merges included
    MaxRowAmount, \* bound: amounts
    MaxWrites,   \* bound: writes of rows
    MaxOthers    \* bound: ledger entries of the account from elsewhere

ASSUME StatementReviewAssumption ==
    /\ {Lines, MaxRows, MaxRowAmount, MaxWrites, MaxOthers} \subseteq Nat
    /\ Lines <= MaxRows

Rows == 1..MaxRows
Decisions == {"include", "exclude", "needs_review"}
\* What identifies a row; line 0 for a transaction no statement brought.
Fingerprint == [line : 0..Lines, amount : 0..MaxRowAmount]

VARIABLES
    statement,  \* statement_imports.status from "ready" on
    rows,       \* statement_import_rows
    written,    \* writes of rows so far
    ledger,     \* transactions of the import's batch, by row
    imported,   \* import_batches.rows_imported; 0 when there is no batch
    others,     \* the account's other transactions
    reviewer,   \* what each request is doing
    outdated    \* whether a row changed between the approval's read and its transaction

reviewVars == <<statement, rows, written, ledger, imported, others, reviewer, outdated>>
books == <<ledger, imported, others, outdated>>

-----------------------------------------------------------------------------
(* Rows and requests *)

RowRecord == [line : 1..Lines, amount : 0..MaxRowAmount, decision : Decisions,
           fingerprint : Fingerprint, split : BOOLEAN]
NoRow == [line |-> 0, amount |-> 0, decision |-> "exclude",
             fingerprint |-> [line |-> 0, amount |-> 0], split |-> FALSE]

IdleReviewer == [pc |-> "idle", read |-> [i \in Rows |-> NoRow], ids |-> {}, outdated |-> FALSE, missed |-> FALSE]

Extant(S) == {i \in Rows : S[i] # NoRow}
Included(S) == {i \in Rows : S[i].decision = "include" /\ S[i].amount # 0}
Unreviewed(S) == {i \in Rows : S[i].decision = "needs_review"}
FingerprintOf(row) == [line |-> row.line, amount |-> row.amount]
FreshRow(line, amount) ==
    [line |-> line, amount |-> amount, decision |-> "include",
     fingerprint |-> [line |-> line, amount |-> amount], split |-> FALSE]

At(v, pc) == reviewer[v].pc = pc
Approving(v) == reviewer[v].pc \in {"ledger", "finalize"}
Goes(v, q) == reviewer' = [reviewer EXCEPT ![v] = q]

\* The rows have been written, by the requests in done; who approves works from older ones now.
RowsBecome(S, done) ==
    /\ written < MaxWrites
    /\ written' = written + 1
    /\ rows' = S
    /\ reviewer' = [w \in Reviewers |-> IF w \in done THEN IdleReviewer
                                        ELSE [reviewer[w] EXCEPT !.outdated = Approving(w)]]

\* Ids are taken in order; the first n free ones.
Free(n) == LET used == Cardinality(Extant(rows)) IN (used + 1)..(used + n)

ReviewInit ==
    /\ statement = "ready"
    /\ rows \in [Rows -> {NoRow} \cup
                         {[FreshRow(l, a) EXCEPT !.decision = d] :
                             l \in 1..Lines, a \in 0..MaxRowAmount, d \in {"include", "needs_review"}}]
    /\ \A i \in Rows : IF i <= Lines THEN rows[i].line = i ELSE rows[i] = NoRow
    /\ \A i \in 1..Lines : rows[i].amount = 0 => rows[i].decision = "needs_review"
    /\ written = 0
    /\ ledger = {}
    /\ imported = 0
    /\ others = {}
    /\ reviewer = [v \in Reviewers |-> IdleReviewer]
    /\ outdated = FALSE

-----------------------------------------------------------------------------
(* Review *)

\* editRow, splitRow and mergeRows read rows of the import whatever its status.
StartRowWrite(v, pc, ids) ==
    /\ At(v, "idle")
    /\ ids \subseteq Extant(rows)
    /\ pc = "merge" <=> Cardinality(ids) > 1
    /\ pc # "edit" => \A i \in ids : rows[i].amount # 0
    /\ Goes(v, [IdleReviewer EXCEPT !.pc = pc, !.ids = ids,
                        !.read = [i \in Rows |-> IF i \in ids THEN rows[i] ELSE NoRow]])
    /\ UNCHANGED <<statement, rows, written>> /\ UNCHANGED books

Refuses(v) == Goes(v, IdleReviewer) /\ UNCHANGED <<rows, written>>

\* What a request asks to change, one field at a time; 0 and "keep" for what it leaves out.
Patch == [amount : 1..MaxRowAmount, decision : {"keep"}] \cup [amount : {0}, decision : Decisions]
Patched(row, patch) ==
    [row EXCEPT !.amount = IF patch.amount = 0 THEN @ ELSE patch.amount,
                !.decision = IF patch.decision = "keep" THEN @ ELSE patch.decision]

\* The patch goes onto the current row, its fingerprint is that of the patched row that was read.
EditRow(v, patch) ==
    /\ At(v, "edit")
    /\ \E i \in reviewer[v].ids :
         IF statement = "ready"
         THEN RowsBecome([rows EXCEPT ![i] = [Patched(@, patch) EXCEPT
                           !.fingerprint = FingerprintOf(Patched(reviewer[v].read[i], patch))]], {v})
         ELSE Refuses(v)
    /\ UNCHANGED statement /\ UNCHANGED books

\* decideRows: what it reads before decides only whether the rows exist.
DecideRows(ids, decision) ==
    /\ statement = "ready"
    /\ ids # {} /\ ids \subseteq Extant(rows)
    /\ RowsBecome([i \in Rows |-> IF i \in ids THEN [rows[i] EXCEPT !.decision = decision] ELSE rows[i]], {})
    /\ UNCHANGED statement /\ UNCHANGED books

\* splitRow: parts of the row that was read; the parts of an earlier split of it have the same ids.
SplitRow(v, part) ==
    /\ At(v, "split")
    /\ \E i \in reviewer[v].ids :
         LET row == reviewer[v].read[i] IN
         IF statement = "ready" /\ ~ rows[i].split /\ part \in 1..(row.amount - 1) /\ Free(2) \subseteq Rows
         THEN RowsBecome([j \in Rows |->
                           IF j = i THEN [rows[i] EXCEPT !.decision = "exclude", !.split = TRUE]
                           ELSE IF j \in Free(2)
                                THEN FreshRow(row.line, IF j \in Free(1) THEN part ELSE row.amount - part)
                                ELSE rows[j]], {v})
         ELSE Refuses(v)
    /\ UNCHANGED statement /\ UNCHANGED books

SumOf(S, ids) == LET sum[k \in 0..MaxRows] == IF k = 0 THEN 0 ELSE sum[k - 1] + (IF k \in ids THEN S[k].amount ELSE 0)
                 IN sum[MaxRows]
Oldest(ids) == CHOOSE i \in ids : \A j \in ids : i <= j

\* mergeRows: one row with the sum of the amounts that were read, on the line of the first.
MergeRows(v) ==
    LET read == reviewer[v].read
        ids == reviewer[v].ids IN
    /\ At(v, "merge")
    /\ IF statement = "ready" /\ SumOf(read, ids) <= MaxRowAmount /\ Free(1) \subseteq Rows
       THEN RowsBecome([j \in Rows |->
                         IF j \in ids THEN [rows[j] EXCEPT !.decision = "exclude"]
                         ELSE IF j \in Free(1) THEN FreshRow(read[Oldest(ids)].line, SumOf(read, ids))
                              ELSE rows[j]], {v})
       ELSE Refuses(v)
    /\ UNCHANGED statement /\ UNCHANGED books

-----------------------------------------------------------------------------
(* Approval *)

\* approve up to the rows: nothing may be left to review, something must be included.
StartApprove(v) ==
    /\ At(v, "idle")
    /\ statement = "ready"
    /\ Unreviewed(rows) = {} /\ Included(rows) # {}
    /\ Goes(v, [IdleReviewer EXCEPT !.pc = "ledger", !.read = rows])
    /\ UNCHANGED <<statement, rows, written>> /\ UNCHANGED books

\* Mutant: only the fingerprints are compared.
CompareFingerprints(v) ==
    LET read == reviewer[v].read IN
    /\ At(v, "ledger")
    /\ IF {read[i].fingerprint : i \in Included(read)} \cap others = {}
       THEN Goes(v, [reviewer[v] EXCEPT !.pc = "finalize"]) ELSE Goes(v, IdleReviewer)
    /\ UNCHANGED <<statement, rows, written>> /\ UNCHANGED books

\* The account's transactions against the included rows: the same key, or the same identity.
CompareLedger(v) ==
    LET read == reviewer[v].read
        existing == others \cup {e.key : e \in ledger} IN
    /\ At(v, "ledger")
    /\ IF \E i \in Included(read) : read[i].fingerprint \in existing \/ read[i].amount \in {e.amount : e \in existing}
       THEN Goes(v, IdleReviewer)
       ELSE Goes(v, [reviewer[v] EXCEPT !.pc = "finalize"])
    /\ UNCHANGED <<statement, rows, written>> /\ UNCHANGED books

\* Mutant: rows whose key is taken are passed over in silence.
FinalizeWhatFits(v) ==
    LET read == reviewer[v].read
        included == {i \in Included(read) : read[i].fingerprint \notin others} IN
    /\ At(v, "finalize")
    /\ statement = "ready" /\ Unreviewed(rows) = {}
    /\ statement' = "approved"
    /\ ledger' = {[row |-> i, amount |-> read[i].amount, key |-> read[i].fingerprint] : i \in included}
    /\ imported' = Cardinality(Included(read))
    /\ outdated' = reviewer[v].outdated
    /\ Goes(v, IdleReviewer)
    /\ UNCHANGED <<rows, written, others>>

\* finalize, one transaction: a key that is taken, in the account or by another row, undoes it all.
Finalize(v) ==
    LET read == reviewer[v].read
        included == Included(read)
        keys == {read[i].fingerprint : i \in included} IN
    /\ At(v, "finalize")
    /\ Goes(v, IdleReviewer)
    /\ IF /\ statement = "ready" /\ Unreviewed(rows) = {}
          /\ Cardinality(keys) = Cardinality(included) /\ keys \cap others = {}
       THEN /\ statement' = "approved"
            /\ ledger' = {[row |-> i, amount |-> read[i].amount, key |-> read[i].fingerprint] : i \in included}
            /\ imported' = Cardinality(included)
            /\ outdated' = reviewer[v].outdated
       ELSE UNCHANGED <<statement, ledger, imported, outdated>>
    /\ UNCHANGED <<rows, written, others>>

\* The request dies between its reads and its transaction.
ReviewerDies(v) ==
    /\ ~ At(v, "idle")
    /\ Goes(v, IdleReviewer)
    /\ UNCHANGED <<statement, rows, written>> /\ UNCHANGED books

\* delete: what is in the ledger stays there.
DeleteImport ==
    /\ statement # "deleted"
    /\ statement' = "deleted"
    /\ UNCHANGED <<rows, written, reviewer>> /\ UNCHANGED books

\* Synchronisation and other imports add to the account.
OtherEntry(e) ==
    /\ Cardinality(others) < MaxOthers
    /\ e.amount # 0 /\ e \notin others \cup {x.key : x \in ledger}
    /\ others' = others \cup {e}
    /\ reviewer' = [w \in Reviewers |-> [reviewer[w] EXCEPT !.missed = At(w, "finalize")]]
    /\ UNCHANGED <<statement, rows, written, ledger, imported, outdated>>

ReviewNext ==
    \/ \E v \in Reviewers :
         \/ \E pc \in {"edit", "split", "merge"}, i \in Rows : \E j \in 1..i : StartRowWrite(v, pc, {i, j})
         \/ \E patch \in Patch : EditRow(v, patch)
         \/ \E part \in 1..MaxRowAmount : SplitRow(v, part)
         \/ MergeRows(v) \/ StartApprove(v) \/ CompareLedger(v) \/ Finalize(v) \/ ReviewerDies(v)
    \/ \E ids \in SUBSET Rows, decision \in Decisions : DecideRows(ids, decision)
    \/ DeleteImport
    \/ \E e \in Fingerprint : OtherEntry(e)

ReviewSpec == ReviewInit /\ [][ReviewNext]_reviewVars

-----------------------------------------------------------------------------
(* Properties *)

\* Every variable keeps its type; the rows keep the constraints of their table.
ReviewTypeOK ==
    /\ statement \in {"ready", "approved", "deleted"}
    /\ rows \in [Rows -> RowRecord \cup {NoRow}]
    /\ written \in 0..MaxWrites
    /\ ledger \subseteq [row : Rows, amount : 1..MaxRowAmount, key : Fingerprint]
    /\ imported \in 0..MaxRows
    /\ others \subseteq Fingerprint
    /\ reviewer \in [Reviewers -> [pc : {"idle", "edit", "split", "merge", "ledger", "finalize"},
                                   read : [Rows -> RowRecord \cup {NoRow}], ids : SUBSET Rows,
                                   outdated : BOOLEAN, missed : BOOLEAN]]
    /\ outdated \in BOOLEAN

\* finalize is all or nothing and happens once, and an approved statement can no longer be edited:
\* the ledger holds the rows that are included, to the last one, and its batch says how many; unless
\* a row was changed after the approving request had read it.
LedgerIsReviewed ==
    imported # 0 =>
        /\ imported = Cardinality(ledger)
        /\ ~ outdated => /\ Unreviewed(rows) = {}
                          /\ {<<e.row, e.amount>> : e \in ledger} = {<<i, rows[i].amount>> : i \in Included(rows)}

\* approve's duplicate checks: what enters the ledger was not in the account already, under this key
\* or another, unless it came while the approval was between its check and its transaction.
ApprovalIsNew ==
    [][imported = 0 /\ imported' # 0 =>
         \/ {e.amount : e \in ledger'} \cap {e.amount : e \in others} = {}
         \/ \E v \in Reviewers : At(v, "finalize") /\ reviewer[v].missed /\ reviewer'[v] = IdleReviewer]_reviewVars

=============================================================================
