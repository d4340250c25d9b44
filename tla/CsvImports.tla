------------------------------ MODULE CsvImports ------------------------------
(***************************************************************************)
(* What becomes of a file that has been read: the review of its rows       *)
(* against the ledger of its account and against each other, the commit    *)
(* of the importable ones, and its undoing.  Several requests commit the   *)
(* same file, and the bank sends what it knows meanwhile.  A commit reads  *)
(* the ledger in one await and writes in a later one, as the in-memory     *)
(* adapter writes it; what the PostgreSQL adapter makes of it is in        *)
(* TransactionStores.                                                      *)
(***************************************************************************)
EXTENDS Integers, Sequences, FiniteSets, FiniteSetsExt, SequencesExt

CONSTANTS
    Facts,      \* [day, amount, words]: what a row can say, and what the bank can send
    Commits,    \* requests that commit the file
    FileRows,   \* bound: rows of the file
    MaxBatches  \* bound: imports made of it

ASSUME CsvImportsAssumption ==
    {FileRows, MaxBatches} \subseteq Nat /\ \A f \in Facts : f.day \in Int

\* The bank's own rows carry no batch.
Bank == 0

VARIABLES
    sheet,    \* the rows of the file
    ledger,   \* the rows of the account: [fact, batch], one of a fact but for the bank's
    batch,    \* the batches committed: their counts and their status
    commit    \* the commits under way: await, ledger as it was read, and whether it has been overtaken

csvImportsVars == <<sheet, ledger, batch, commit>>

Idle == [pc |-> "idle", read |-> {}, overtaken |-> FALSE]
CsvImportsInit ==
    /\ sheet \in [1..FileRows -> Facts]
    /\ ledger = {} /\ batch = <<>>
    /\ commit = [r \in Commits |-> Idle]

-----------------------------------------------------------------------------
(* The review *)

\* Words two descriptors share, of the longer one; in hundredths.
Similarity(a, b) ==
    IF a = b THEN 100
    ELSE IF {} \in {a, b} THEN 0
    ELSE (100 * Cardinality(a \cap b)) \div Max({Cardinality(a), Cardinality(b)})

DaysApart(a, b) == IF a > b THEN a - b ELSE b - a

\* An equal amount no more than three days away; the nearer, and the more alike, the surer.
Confidence(f, g) ==
    IF f.amount # g.amount \/ DaysApart(f.day, g.day) > 3 THEN 0
    ELSE 15 * (4 - DaysApart(f.day, g.day)) + (40 * Similarity(f.words, g.words)) \div 100
Duplicates(f, g) == Confidence(f, g) >= 80
FindDuplicate(f, facts) == \E g \in facts : Duplicates(f, g)

\* Mutant: the rows are compared with the ledger only.
ReviewAlone(held) == {i \in 1..FileRows : ~FindDuplicate(sheet[i], held)}

\* The rows that are imported: no duplicates of the ledger, nor of those of the file before them.
ReviewImport(held) ==
    LET accept(S, i) == IF FindDuplicate(sheet[i], held \cup {sheet[j] : j \in S}) THEN S ELSE S \cup {i}
    IN FoldLeftDomain(accept, {}, sheet)

-----------------------------------------------------------------------------
(* Requests, the bank, and undoing *)

\* Who is between reading and writing has been overtaken by whoever writes.
Overtaken == [r \in Commits |-> [commit[r] EXCEPT !.overtaken = commit[r].pc = "write"]]

\* commit reads the ledger of the account; a file with nothing importable is refused.
ReadLedger(r) ==
    LET held == {t.fact : t \in ledger} IN
    /\ commit[r].pc = "idle"
    /\ ReviewImport(held) # {}
    /\ commit' = [commit EXCEPT ![r] = [pc |-> "write", read |-> held, overtaken |-> FALSE]]
    /\ UNCHANGED <<sheet, ledger, batch>>

\* The importable rows, under a key made of what they say, and their batch; a row that is there by its
\* key is written over.
CommitBatch(r) ==
    LET id == Len(batch) + 1
        chosen == {sheet[i] : i \in ReviewImport(commit[r].read)} IN
    /\ commit[r].pc = "write" /\ id <= MaxBatches
    /\ ledger' = {t \in ledger : t.batch = Bank \/ t.fact \notin chosen}
                 \cup {[fact |-> f, batch |-> id] : f \in chosen}
    /\ batch' = Append(batch, [status |-> "committed", rows |-> chosen,
                               imported |-> Cardinality(ReviewImport(commit[r].read)),
                               before |-> {t.fact : t \in ledger}, overtaken |-> commit[r].overtaken])
    /\ commit' = [Overtaken EXCEPT ![r] = Idle]
    /\ UNCHANGED sheet

\* The server dies with the request.
Die(r) ==
    /\ commit[r].pc = "write" /\ commit' = [commit EXCEPT ![r] = Idle]
    /\ UNCHANGED <<sheet, ledger, batch>>

\* A sync adds what the bank knows, under the bank's key.
BankSends(f) ==
    /\ ~ \E t \in ledger : t.batch = Bank
    /\ ledger' = ledger \cup {[fact |-> f, batch |-> Bank]}
    /\ commit' = Overtaken
    /\ UNCHANGED <<sheet, batch>>

\* Only rows of that batch, and only once.
Revert(b) ==
    /\ batch[b].status = "committed"
    /\ ledger' = {t \in ledger : t.batch # b}
    /\ batch' = [batch EXCEPT ![b].status = "reverted"]
    /\ commit' = Overtaken
    /\ UNCHANGED sheet

CsvImportsNext ==
    \/ \E r \in Commits : ReadLedger(r) \/ CommitBatch(r) \/ Die(r)
    \/ \E f \in Facts : BankSends(f)
    \/ \E b \in DOMAIN batch : Revert(b)

CsvImportsSpec == CsvImportsInit /\ [][CsvImportsNext]_csvImportsVars

-----------------------------------------------------------------------------
(* Properties *)

\* However the commits of one file overlap, whatever is undone and whatever the bank sends meanwhile: no
\* row of the file is in the ledger twice, an import that was undone has left nothing behind, what an
\* import counted is what it wrote, and an import that nobody overtook has brought in nothing that looks
\* like a row the ledger had, or like another row it brought in itself.
ImportedOnce ==
    /\ \A t, u \in {t \in ledger : t.batch # Bank} : t.fact = u.fact => t = u
    /\ \A t \in ledger : t.batch # Bank => batch[t.batch].status = "committed"
    /\ \A b \in DOMAIN batch :
          /\ batch[b].imported = Cardinality(batch[b].rows)
          /\ ~batch[b].overtaken =>
                \A f \in batch[b].rows : /\ ~FindDuplicate(f, batch[b].before)
                                         /\ \A g \in batch[b].rows : Duplicates(f, g) => f = g
=============================================================================
