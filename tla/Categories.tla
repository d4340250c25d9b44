----------------------------- MODULE Categories -----------------------------
(***************************************************************************)
(* Whose word counts on the category of a transaction.  Synchronisation,   *)
(* the pairing of transfers, the user's corrections with the rules they    *)
(* leave behind, bulk applications of a rule and their undo all write it,  *)
(* each from rows it has read before.                                      *)
(*                                                                         *)
(* The transactions are those of one merchant, so every rule matches all   *)
(* of them; a rule of another merchant never meets them.                   *)
(***************************************************************************)
EXTENDS Naturals, FiniteSets, Sequences, SequencesExt

CONSTANTS
    Txns,            \* transactions the bank may report
    Pairs,           \* pairs detectInternalTransfers finds when both are there
    Slugs,           \* categories a user may choose
    Unknown,         \* "unknown"
    Transfer,        \* "transfer"
    Recognised,      \* what the lexicon says of the merchant
    Jobs,            \* syncs and requests in progress
    MaxRules,        \* bound: rules
    MaxApplications  \* bound: bulk applications

ASSUME CategoriesAssumption ==
    /\ \A p \in Pairs : p \subseteq Txns /\ Cardinality(p) = 2
    /\ Recognised \in Slugs \cup {Unknown}
    /\ Unknown \notin Slugs
    /\ {MaxRules, MaxApplications} \subseteq Nat

VARIABLES
    stored,          \* category_slug and category_source of the transactions that exist
    rules,           \* categorization_rules, by the time they were made
    applications,    \* rule_applications with their rule_application_changes
    job,             \* what each job has read and has left to do
    choice,          \* the category each transaction was last given by hand
    overwritten      \* chosen transactions a job wrote that had read them before the choice

categoriesVars == <<stored, rules, applications, job, choice, overwritten>>

Sources == {"user_manual", "user_rule", "lexicon", "model", "unknown", "transfer_pairing"}
Category == [slug : Slugs \cup {Unknown, Transfer}, source : Sources]
Absent == [slug |-> Unknown, source |-> "absent"]
Present == {t \in Txns : stored[t] # Absent}

\* read: the rows that are to be written, as they were read; txn: the one a correction is about.
NoJob == [pc |-> "idle", read |-> <<>>, txn |-> {}, category |-> Absent]
Read(S) == [t \in S |-> stored[t]]
Doing(j, pc) == job[j].pc = pc
Becomes(j, q) == job' = [job EXCEPT ![j] = q]

-----------------------------------------------------------------------------
(* Deciding *)

Manual == {t \in Txns : stored[t].source = "user_manual"}
Decided(slug) == [slug |-> slug, source |-> "user_rule"]
ByUser(row) == row.source \in {"user_manual", "user_rule"}

\* UserCorrectionClassifier: what the corrections say, unless they disagree.
Learned == {stored[t].slug : t \in Manual}

\* The user's rules, the oldest first; then the lexicon; then what was learned.
Categorized ==
    IF rules # <<>> THEN Decided(Head(rules))
    ELSE IF Recognised # Unknown THEN [slug |-> Recognised, source |-> "lexicon"]
    ELSE IF Cardinality(Learned) = 1 THEN [slug |-> CHOOSE s \in Learned : TRUE, source |-> "model"]
    ELSE [slug |-> Unknown, source |-> "unknown"]

\* previewRule: a choice by hand is protected.
Changes(slug) == {t \in Present \ Manual : stored[t].slug # slug}

\* reconcileInternalTransfers: both sides of each pair, but what the user has categorised.
Paired == {t \in UNION {p \in Pairs : p \subseteq Present} : ~ ByUser(stored[t]) /\ stored[t].slug # Transfer}

-----------------------------------------------------------------------------
(* Writing *)

\* The transactions of S get the category of job j, those of them that are still there.
Write(j, S) ==
    LET there == S \cap Present IN
    /\ stored' = [t \in Txns |-> IF t \in there THEN job[j].category ELSE stored[t]]
    /\ overwritten' = overwritten \cup {t \in there : t \in DOMAIN choice /\ job[j].read[t].source # "user_manual"}

CategoriesInit ==
    /\ stored = [t \in Txns |-> Absent]
    /\ rules = <<>>
    /\ applications = <<>>
    /\ job = [j \in Jobs |-> NoJob]
    /\ choice = <<>>
    /\ overwritten = {}

-----------------------------------------------------------------------------
(* Synchronisation *)

\* sync: the rules and the corrections are read once, and decide for all pages.
StartSync(j) ==
    /\ Doing(j, "idle")
    /\ Becomes(j, [NoJob EXCEPT !.pc = "pages", !.category = Categorized])
    /\ UNCHANGED <<stored, rules, applications, choice, overwritten>>

\* Mutant: only what a rule has decided is kept.
UpsertOverManual(j, S) ==
    /\ Doing(j, "pages") /\ S # {}
    /\ stored' = [t \in Txns |-> IF t \in S /\ stored[t].source # "user_rule" THEN job[j].category ELSE stored[t]]
    /\ UNCHANGED <<rules, applications, job, choice, overwritten>>

\* A page of transactions: a row that is there keeps what the user has categorised, by hand or by rule.
UpsertMany(j, S) ==
    /\ Doing(j, "pages") /\ S # {}
    /\ stored' = [t \in Txns |-> IF t \in S /\ ~ ByUser(stored[t]) THEN job[j].category ELSE stored[t]]
    /\ UNCHANGED <<rules, applications, job, choice, overwritten>>

\* The bank takes a transaction back, or reports it under another id once it is posted: the row goes,
\* and the user's choice and what could be undone of it go with it.
RemoveByProviderIds(j, t) ==
    /\ Doing(j, "pages") /\ t \in Present
    /\ stored' = [stored EXCEPT ![t] = Absent]
    /\ choice' = [x \in DOMAIN choice \ {t} |-> choice[x]]
    /\ overwritten' = overwritten \ {t}
    /\ applications' = [k \in DOMAIN applications |-> [applications[k] EXCEPT
                          !.before = [x \in DOMAIN @ \ {t} |-> @[x]]]]
    /\ UNCHANGED <<rules, job>>

\* After the last page; the rows to be marked as transfers are fixed here.
ReadRecent(j) ==
    /\ Doing(j, "pages")
    /\ Becomes(j, IF Paired = {} THEN NoJob
                  ELSE [NoJob EXCEPT !.pc = "write", !.read = Read(Paired),
                                     !.category = [slug |-> Transfer, source |-> "transfer_pairing"]])
    /\ UNCHANGED <<stored, rules, applications, choice, overwritten>>

\* reconcileInternalTransfers and the backfill of a correction: one row after the other, whatever has
\* become of it.
WriteNext(j, t) ==
    /\ Doing(j, "write") /\ t \in DOMAIN job[j].read
    /\ Write(j, {t})
    /\ LET left == DOMAIN job[j].read \ {t} IN
       Becomes(j, IF left = {} THEN NoJob ELSE [job[j] EXCEPT !.read = [x \in left |-> @[x]]])
    /\ UNCHANGED <<rules, applications, choice>>

-----------------------------------------------------------------------------
(* Corrections and rules *)

StartRecategorize(j, t, slug, createRule) ==
    /\ Doing(j, "idle") /\ t \in Present
    /\ createRule => Len(rules) < MaxRules
    /\ Becomes(j, [NoJob EXCEPT !.pc = IF createRule THEN "choose and create" ELSE "choose", !.txn = {t}, !.category = Decided(slug)])
    /\ UNCHANGED <<stored, rules, applications, choice, overwritten>>

\* recategorize, its first write; when the row has gone the rule is made all the same.
Choose(j) ==
    LET txn == job[j].txn \cap Present
        slug == job[j].category.slug IN
    /\ job[j].pc \in {"choose", "choose and create"}
    /\ stored' = [t \in Txns |-> IF t \in txn THEN [slug |-> slug, source |-> "user_manual"] ELSE stored[t]]
    /\ choice' = [t \in DOMAIN choice \cup txn |-> IF t \in txn THEN slug ELSE choice[t]]
    /\ overwritten' = overwritten \ txn
    /\ Becomes(j, IF Doing(j, "choose") THEN NoJob ELSE [job[j] EXCEPT !.pc = "create"])
    /\ UNCHANGED <<rules, applications>>

CreateRule(j) ==
    /\ Doing(j, "create") /\ Len(rules) < MaxRules
    /\ rules' = Append(rules, job[j].category.slug)
    /\ Becomes(j, [job[j] EXCEPT !.pc = "list"])
    /\ UNCHANGED <<stored, applications, choice, overwritten>>

\* All transactions of the merchant but this one, and but explicit choices.
ListOthers(j) ==
    LET others == Present \ (job[j].txn \cup Manual) IN
    /\ Doing(j, "list")
    /\ Becomes(j, IF others = {} THEN NoJob ELSE [job[j] EXCEPT !.pc = "write", !.txn = {}, !.read = Read(others)])
    /\ UNCHANGED <<stored, rules, applications, choice, overwritten>>

RemoveRule(k) ==
    /\ rules' = RemoveAt(rules, k)
    /\ UNCHANGED <<stored, applications, job, choice, overwritten>>

-----------------------------------------------------------------------------
(* Bulk applications *)

StartApply(j, slug) ==
    /\ Doing(j, "idle") /\ Len(applications) < MaxApplications
    /\ Changes(slug) # {}
    /\ Becomes(j, [NoJob EXCEPT !.pc = "apply", !.read = Read(Changes(slug)), !.category = Decided(slug)])
    /\ UNCHANGED <<stored, rules, applications, choice, overwritten>>

\* One transaction: what the rows were when they were read is recorded, and all are written; one that
\* has gone since fails it.
ApplyRule(j) ==
    /\ Doing(j, "apply") /\ Len(applications) < MaxApplications
    /\ IF DOMAIN job[j].read \subseteq Present
       THEN /\ Write(j, DOMAIN job[j].read)
            /\ applications' = Append(applications, [before |-> job[j].read, reverted |-> FALSE])
       ELSE UNCHANGED <<stored, overwritten, applications>>
    /\ Becomes(j, NoJob)
    /\ UNCHANGED <<rules, choice>>

\* The user takes an application back, and with it what he has chosen since for the same rows.
RevertApplication(k) ==
    LET before == applications[k].before IN
    /\ ~ applications[k].reverted
    /\ applications' = [applications EXCEPT ![k] = [before |-> <<>>, reverted |-> TRUE]]
    /\ stored' = [t \in Txns |-> IF t \in DOMAIN before THEN before[t] ELSE stored[t]]
    /\ choice' = [t \in DOMAIN choice \ DOMAIN before |-> choice[t]]
    /\ overwritten' = overwritten \ DOMAIN before
    /\ UNCHANGED <<rules, job>>

\* The process dies, or the sync fails.
Abandon(j) ==
    /\ ~ Doing(j, "idle")
    /\ Becomes(j, NoJob)
    /\ UNCHANGED <<stored, rules, applications, choice, overwritten>>

CategoriesNext ==
    \/ \E j \in Jobs :
         \/ StartSync(j) \/ ReadRecent(j) \/ Choose(j) \/ CreateRule(j) \/ ListOthers(j) \/ ApplyRule(j) \/ Abandon(j)
         \/ \E S \in SUBSET Txns : UpsertMany(j, S)
         \/ \E t \in Txns : RemoveByProviderIds(j, t) \/ WriteNext(j, t)
         \/ \E slug \in Slugs : StartApply(j, slug) \/ \E t \in Txns, create \in BOOLEAN : StartRecategorize(j, t, slug, create)
    \/ \E k \in DOMAIN rules : RemoveRule(k)
    \/ \E k \in DOMAIN applications : RevertApplication(k)

CategoriesSpec == CategoriesInit /\ [][CategoriesNext]_categoriesVars

-----------------------------------------------------------------------------
(* Properties *)

\* ADR-0004, "never override an explicit choice": what the user last chose by hand for a transaction
\* is its category, through every order of syncs, pairings, backfills and bulk applications, until he
\* undoes an application that covers it or the bank takes the transaction back; a job overrides it
\* only when it had read the row before the choice.
ChoiceStands ==
    \A t \in DOMAIN choice \ overwritten : stored[t] = [slug |-> choice[t], source |-> "user_manual"]

=============================================================================
