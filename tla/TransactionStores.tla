-------------------------- MODULE TransactionStores --------------------------
(***************************************************************************)
(* The ledger behind its ports, twice: the in-memory adapter and the       *)
(* PostgreSQL adapter are given the same calls, one after the other, for   *)
(* one user.  mem and pg are what they hold; agreed says whether they      *)
(* answered the last call alike, strayed which rows a revert may miss,     *)
(* renamed which ones were sent again under a category of the user's.      *)
(*                                                                         *)
(* A row is known by the account and the provider's id of it, which its    *)
(* own id is made of.  What the provider says of it (date, amount,         *)
(* descriptor, pending, and the merchant and the category worked out of    *)
(* them) is a version.                                                     *)
(***************************************************************************)
EXTENDS Integers, FiniteSets

CONSTANTS
    Sent,          \* rows a provider sends
    Filed,         \* rows a file of the user has
    Files,         \* bound: imports of that file
    Applications,  \* bound: applications of a rule
    MaxVersion     \* bound: versions of a row

ASSUME TransactionStoresAssumption ==
    /\ Sent \cap Filed = {} /\ MaxVersion \in Nat \ {0} /\ "none" \notin Files

Keys == Sent \cup Filed
NoRow == [seen |-> 0]
NoFile == "none"
Unset == "unset"

VARIABLES mem, pg, agreed, strayed, renamed

transactionStoresVars == <<mem, pg, agreed, strayed, renamed>>

\* toTransaction: what a caller passes to upsertMany or to commit.
Incoming(v, file) ==
    [seen |-> v, merchant |-> v, slug |-> v, source |-> "auto", note |-> FALSE, tags |-> FALSE,
     recurring |-> FALSE, override |-> Unset, file |-> file]

\* The user's choice of a category, a note, tags, the user's word on recurrence, and what is detected.
Patches == {[slug |-> 0, source |-> "user_manual"], [note |-> TRUE], [tags |-> TRUE],
            [override |-> "no", recurring |-> FALSE], [recurring |-> TRUE]}

Held(db) == {k \in Keys : db.row[k] # NoRow}
ByUser(row) == row.source \in {"user_manual", "user_rule"}
With(row, p) == [f \in DOMAIN row |-> IF f \in DOMAIN p THEN p[f] ELSE row[f]]
Empty == [row |-> [k \in Keys |-> NoRow], file |-> [f \in Files |-> NoFile],
          applied |-> [a \in Applications |-> NoFile], before |-> [a \in Applications |-> <<>>]]

TransactionStoresInit == mem = Empty /\ pg = Empty /\ agreed = TRUE /\ strayed = {} /\ renamed = {}

-----------------------------------------------------------------------------
(* A row that is there already *)

\* Mutant: what the provider sends takes the category of the user with it.
MemMergeSent(old, new) ==
    [new EXCEPT !.override = old.override, !.tags = old.tags,
                !.recurring = IF old.override = Unset THEN new.recurring ELSE old.override = "yes"]

\* In memory the new row replaces the old one, merchant included, but for what the user said of the
\* category, or else for less.
MemMerge(old, new) ==
    LET kept == MemMergeSent(old, new) IN
    IF ByUser(old) THEN [kept EXCEPT !.note = old.note, !.slug = old.slug, !.source = old.source] ELSE kept

\* In PostgreSQL ON CONFLICT sets what the provider says, but merchant and category only if the user has
\* not set the category.
PgMerge(old, new) ==
    IF ByUser(old) THEN [old EXCEPT !.seen = new.seen]
    ELSE [old EXCEPT !.seen = new.seen, !.merchant = new.merchant, !.slug = new.slug, !.source = new.source]

\* upsertMany, and how many rows it inserted and updated.
MemUpsert(db, S, new) ==
    [db EXCEPT !.row = [k \in Keys |-> IF k \notin S THEN @[k]
                                       ELSE IF @[k] = NoRow THEN new ELSE MemMerge(@[k], new)]]
PgUpsert(db, S, new) ==
    [db EXCEPT !.row = [k \in Keys |-> IF k \notin S THEN @[k]
                                       ELSE IF @[k] = NoRow THEN new ELSE PgMerge(@[k], new)]]
Counts(db, S) == <<Cardinality(S \ Held(db)), Cardinality(S \cap Held(db))>>

-----------------------------------------------------------------------------
(* Removing *)

\* removeByProviderIds, and the rows of import_batch_id that a revert removes.
MemDrop(db, S) == [db EXCEPT !.row = [k \in Keys |-> IF k \in S THEN NoRow ELSE @[k]]]

\* DELETE takes with it what rule_application_changes has of the row.
PgDrop(db, S) ==
    [db EXCEPT !.row = [k \in Keys |-> IF k \in S THEN NoRow ELSE @[k]],
               !.before = [a \in Applications |-> [k \in (DOMAIN @[a]) \ S |-> @[a][k]]]]
OfFile(db, f) == {k \in Held(db) : db.row[k].file = f}

-----------------------------------------------------------------------------
(* The calls *)

Answered(m, p) == agreed' = (m = p)

UpsertMany(S, v) ==
    /\ mem' = MemUpsert(mem, S, Incoming(v, NoFile))
    /\ pg' = PgUpsert(pg, S, Incoming(v, NoFile))
    /\ Answered(Counts(mem, S), Counts(pg, S))
    /\ renamed' = (renamed \ S) \cup {k \in S \cap Held(mem) : ByUser(mem.row[k])}
    /\ UNCHANGED strayed

\* update: the row as it is then, or null.
Update(k, p) ==
    LET next(db) == IF k \in Held(db) THEN [db EXCEPT !.row[k] = With(@, p)] ELSE db IN
    /\ mem' = next(mem) /\ pg' = next(pg)
    /\ Answered(k \in Held(mem), k \in Held(pg))
    /\ UNCHANGED <<strayed, renamed>>

RemoveByProviderIds(S) ==
    /\ mem' = MemDrop(mem, S) /\ pg' = PgDrop(pg, S)
    /\ Answered(Cardinality(S \cap Held(mem)), Cardinality(S \cap Held(pg)))
    /\ strayed' = strayed \cup {k \in S : \E a \in Applications : k \in DOMAIN mem.before[a]}
    /\ renamed' = renamed \ S

\* commit of an import: in memory the rows, then the batch.
MemCommit(db, f, v) ==
    [MemUpsert(db, Filed, Incoming(v, f)) EXCEPT !.file[f] = "committed"]

\* In PostgreSQL the rows are inserted without a category_source, which may not be null: nothing is kept.
PgCommit(db, f, v) == db

CommitImport(f, v) ==
    /\ mem.file[f] = NoFile
    /\ mem' = MemCommit(mem, f, v) /\ pg' = PgCommit(pg, f, v)
    /\ UNCHANGED <<agreed, strayed, renamed>>

\* revert: the rows of a committed batch, and the batch stays as reverted; null the second time.
RevertsImport(db, f) ==
    IF db.file[f] = "committed" THEN [MemDrop(db, OfFile(db, f)) EXCEPT !.file[f] = "reverted"] ELSE db
PgRevertsImport(db, f) ==
    IF db.file[f] = "committed" THEN [PgDrop(db, OfFile(db, f)) EXCEPT !.file[f] = "reverted"] ELSE db

RevertImport(f) ==
    /\ mem' = RevertsImport(mem, f) /\ pg' = PgRevertsImport(pg, f)
    /\ UNCHANGED <<agreed, strayed, renamed>>

\* What a rule's application changes, and what the rows were before: read and applied at once here.
Matched(db) == {k \in Held(db) : db.row[k].source # "user_manual"}
Before(db, S) == [k \in S |-> [slug |-> db.row[k].slug, source |-> db.row[k].source]]
Ruled == [slug |-> -1, source |-> "user_rule"]

\* Both adapters: the rows are changed, and the application and the rows before it recorded.
Applies(db, a, S) ==
    [db EXCEPT !.row = [k \in Keys |-> IF k \in S THEN With(@[k], Ruled) ELSE @[k]],
               !.applied[a] = "applied", !.before[a] = Before(db, S)]

ApplyRule(a, S) ==
    /\ mem.applied[a] = NoFile
    /\ S \subseteq Matched(mem) \cap Matched(pg)
    /\ mem' = Applies(mem, a, S) /\ pg' = Applies(pg, a, S)
    /\ Answered(Cardinality(S), Cardinality(S))
    /\ UNCHANGED <<strayed, renamed>>

\* In memory each recorded change is written to the row of that id, if there is one.
Restored(db, a) == (DOMAIN db.before[a]) \cap Held(db)

\* Mutant: the category is restored, where it came from is not.
RestoresSlugs(db, a) ==
    [db EXCEPT !.row = [k \in Keys |-> IF k \in Restored(db, a)
                        THEN [@[k] EXCEPT !.slug = db.before[a][k].slug] ELSE @[k]],
               !.applied[a] = "reverted"]
MemReverts(db, a) ==
    [db EXCEPT !.row = [k \in Keys |-> IF k \in Restored(db, a) THEN With(@[k], db.before[a][k]) ELSE @[k]],
               !.applied[a] = "reverted"]

\* One UPDATE from rule_application_changes.
PgReverts(db, a) ==
    [db EXCEPT !.row = [k \in Keys |-> IF k \in Restored(db, a) THEN With(@[k], db.before[a][k]) ELSE @[k]],
               !.applied[a] = "reverted"]

RevertRule(a) ==
    LET once(db) == IF db.applied[a] = "applied" THEN Cardinality(Restored(db, a)) ELSE -1 IN
    /\ mem' = (IF mem.applied[a] = "applied" THEN MemReverts(mem, a) ELSE mem)
    /\ pg' = (IF pg.applied[a] = "applied" THEN PgReverts(pg, a) ELSE pg)
    /\ agreed' = (strayed # {} \/ once(mem) = once(pg))
    /\ UNCHANGED <<strayed, renamed>>

TransactionStoresNext ==
    \/ \E S \in SUBSET Sent \ {{}}, v \in 1..MaxVersion : UpsertMany(S, v)
    \/ \E k \in Sent, p \in Patches : Update(k, p)
    \/ \E S \in SUBSET Sent \ {{}} : RemoveByProviderIds(S)
    \/ \E f \in Files, v \in 1..MaxVersion : CommitImport(f, v)
    \/ \E f \in Files : RevertImport(f)
    \/ \E a \in Applications, S \in SUBSET Keys : ApplyRule(a, S)
    \/ \E a \in Applications : RevertRule(a)

TransactionStoresSpec == TransactionStoresInit /\ [][TransactionStoresNext]_transactionStoresVars

-----------------------------------------------------------------------------
(* Properties *)

\* What both adapters promise of a row.  In memory a note, a new name and an exclusion survive the next
\* page only on a row of the user's category, and recurrence starts anew with every page.
Promised(row) == [f \in {"seen", "slug", "source", "tags", "override"} |-> row[f]]

\* Whatever calls are made, both adapters hold the same rows of the provider, with the same date, amount,
\* descriptor and pending mark, the same category and source, tags and word on recurrence, and answer every
\* call alike; and the same merchant, but for a row that was last sent again while its category was the
\* user's: PostgreSQL keeps the merchant it had, in memory the provider's new one takes its place.  An
\* application that is reverted after one of its rows was removed and sent again is left out: in memory it
\* reaches the new row, in PostgreSQL the record of the change went with the old one.
SameLedger ==
    /\ Held(mem) \cap Sent = Held(pg) \cap Sent
    /\ \A k \in (Held(mem) \cap Sent) \ strayed :
          /\ Promised(mem.row[k]) = Promised(pg.row[k])
          /\ k \notin renamed => mem.row[k].merchant = pg.row[k].merchant
    /\ agreed

\* A file is imported alike: the batch is listed, and its rows are in the ledger, with both adapters.
SameImports == mem.file = pg.file
=============================================================================
