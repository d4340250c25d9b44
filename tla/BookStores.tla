----------------------------- MODULE BookStores -----------------------------
(***************************************************************************)
(* The ports behind which a user's books are kept, twice: the in-memory    *)
(* adapter holds arrays, the PostgreSQL adapter tables.  Both are given    *)
(* the same calls for one user; alike says whether they answered the last  *)
(* call alike.  A behaviour calls one port, topic: no store here writes    *)
(* what another one holds.                                                 *)
(***************************************************************************)
EXTENDS Integers, Sequences, FiniteSets, SequencesExt

CONSTANTS
    Topics,     \* ports that are called
    AccountIds, \* bound: accounts by number
    Ids,        \* bound: identifiers, and goals and names by number
    Days,       \* bound: dates, and amounts of money in whole units
    Currencies  \* numbered as they sort

ASSUME BookStoresAssumption ==
    Ids \subseteq Nat \ {0} /\ Days \subseteq Nat \ {0} /\ Currencies \subseteq Nat

VARIABLES arrays, tables, alike, topic

bookStoresVars == <<arrays, tables, alike, topic>>

Tables == {"accounts", "history", "budgets", "goals", "contributions", "inbox", "rules",
           "reconciliations", "views", "schedules", "rates"}
NoPreference == "default"
Live == 0

BookStoresInit ==
    /\ topic \in Topics
    /\ arrays = [t \in Tables \cup {"muted"} |-> IF t = "muted" THEN {} ELSE <<>>]
    /\ tables = [t \in Tables \cup {"muted"} |-> {}]
    /\ alike = TRUE

-----------------------------------------------------------------------------
(* An array and a table *)

Same(r, row, key) == \A f \in key : r[f] = row[f]

\* findIndex, then a replacement in place or a push.
Pushed(rows, row, key) ==
    IF \E i \in DOMAIN rows : Same(rows[i], row, key)
    THEN [i \in DOMAIN rows |-> IF Same(rows[i], row, key) THEN row ELSE rows[i]]
    ELSE Append(rows, row)

\* INSERT ... ON CONFLICT DO UPDATE.
Upserted(rows, row, key) == {r \in rows : ~Same(r, row, key)} \cup {row}

Spliced(rows, id) == SelectSeq(rows, LAMBDA r : r.id # id)
Has(rows, id) == \E r \in rows : r.id = id
Fresh(id) == ~ \E t \in Tables \ {"history"} : \E r \in ToSet(arrays[t]) \cup tables[t] : r.id = id

\* One call on both adapters, with what each holds after it and what each answered.
CallBoth(m, p, mAnswer, pAnswer) ==
    arrays' = m /\ tables' = p /\ alike' = (mAnswer = pAnswer) /\ UNCHANGED topic

\* splice of the row of that id, and DELETE; whether there was one.
MemRemove(db, t, id) == [db EXCEPT ![t] = Spliced(@, id)]
PgRemove(db, t, id) == [db EXCEPT ![t] = {r \in @ : r.id # id}]
Removal(t, id) ==
    CallBoth(MemRemove(arrays, t, id), PgRemove(tables, t, id), Has(ToSet(arrays[t]), id), Has(tables[t], id))

-----------------------------------------------------------------------------
(* Accounts, and the net worth observed day by day *)

MemUpsertAccount(db, a) == [db EXCEPT !.accounts = Pushed(@, a, {"id"})]
PgUpsertAccount(db, a) == [db EXCEPT !.accounts = Upserted(@, a, {"id"})]

Owned(accounts, c, sign) ==
    LET total[S \in SUBSET accounts] ==
          IF S = {} THEN 0 ELSE LET a == CHOOSE a \in S : TRUE IN a.balance * sign + total[S \ {a}]
    IN total[{a \in accounts : a.currency = c /\ a.balance * sign >= 0}]

\* netWorthByCurrency: what is owned and what is owed, in each currency of an account.
Observation(accounts, day) ==
    {[day |-> day, currency |-> c, assets |-> Owned(accounts, c, 1), debts |-> Owned(accounts, c, -1)] :
        c \in {a.currency : a \in accounts}}

\* Mutant: what was observed earlier that day stays.
PgRecordOver(db, day) == [db EXCEPT !.history = @ \cup Observation(db.accounts, day)]

Earlier(h, k) == h.day < k.day \/ (h.day = k.day /\ h.currency < k.currency)
MemRecordNetWorth(db, day) ==
    [db EXCEPT !.history = SetToSortSeq(
        {h \in ToSet(@) : h.day # day} \cup Observation(ToSet(db.accounts), day), Earlier)]
PgRecordNetWorth(db, day) ==
    [db EXCEPT !.history = {h \in @ : h.day # day} \cup Observation(db.accounts, day)]

\* The last rows of the history: by date, and then in memory the last currencies, in PostgreSQL the first.
MemHistory(db, limit) == SubSeq(db.history, Len(db.history) - limit + 1, Len(db.history))
PgHistory(db, limit) ==
    LET newest == SetToSortSeq(db.history, LAMBDA h,
                               k : h.day > k.day \/ (h.day = k.day /\ h.currency < k.currency))
    IN SetToSortSeq(ToSet(SubSeq(newest, 1, limit)), Earlier)

\* Bound: an account in credit and one in debt.
Accounts == [id : AccountIds, currency : Currencies, balance : {1, -1}]
CallAccounts ==
    \/ \E a \in Accounts : CallBoth(MemUpsertAccount(arrays, a), PgUpsertAccount(tables, a), TRUE, TRUE)
    \/ \E id \in AccountIds : Removal("accounts", id)
    \/ \E day \in Days : CallBoth(MemRecordNetWorth(arrays, day), PgRecordNetWorth(tables, day),
                              Observation(ToSet(arrays.accounts), day), Observation(tables.accounts, day))

-----------------------------------------------------------------------------
(* Budgets and goals *)

\* The id of a budget is its category: one of that id, or of that category, is replaced.
MemCreateBudget(db, b) == [db EXCEPT !.budgets = Pushed(@, b, {"id"})]
PgCreateBudget(db, b) == [db EXCEPT !.budgets = Upserted(@, b, {"id"})]

CallBudgets ==
    \/ \E b \in [id : Ids, limit : Days] : CallBoth(MemCreateBudget(arrays, b), PgCreateBudget(tables, b),
                                                    b, b)
    \/ \E id \in Ids : Removal("budgets", id)

MemCreateGoal(db, g) == [db EXCEPT !.goals = Pushed(@, g, {"id"})]
PgCreateGoal(db, g) == [db EXCEPT !.goals = @ \cup {g}]

\* The contributions to a goal go with it.
MemRemoveGoal(db, id) ==
    [db EXCEPT !.goals = Spliced(@, id), !.contributions = SelectSeq(@, LAMBDA c : c.goal # id)]
PgRemoveGoal(db, id) ==
    [db EXCEPT !.goals = {g \in @ : g.id # id}, !.contributions = {c \in @ : c.goal # id}]

\* A goal that does not exist is refused, in memory by the store and in PostgreSQL by the foreign key.
MemAddContribution(db, c) ==
    IF Has(ToSet(db.goals), c.goal) THEN [db EXCEPT !.contributions = Append(@, c)] ELSE db
PgAddContribution(db, c) ==
    IF Has(db.goals, c.goal) THEN [db EXCEPT !.contributions = @ \cup {c}] ELSE db

\* listContributions: by date, then by id.
Sooner(c, d) == c.at < d.at \/ (c.at = d.at /\ c.id < d.id)
MemContributions(db, goal) == SetToSortSeq(ToSet(SelectSeq(db.contributions, LAMBDA c : c.goal = goal)),
                                           Sooner)
PgContributions(db, goal) == SetToSortSeq({c \in db.contributions : c.goal = goal}, Sooner)

CallGoals ==
    \/ \E id \in Ids : Fresh(id)
       /\ CallBoth(MemCreateGoal(arrays, [id |-> id]), PgCreateGoal(tables, [id |-> id]), id, id)
    \/ \E id \in Ids : CallBoth(MemRemoveGoal(arrays, id), PgRemoveGoal(tables, id),
                                Has(ToSet(arrays.goals), id), Has(tables.goals, id))
    \/ \E c \in [id : Ids, goal : Ids, at : Days] :
          Fresh(c.id) /\ CallBoth(MemAddContribution(arrays, c), PgAddContribution(tables, c),
                              Has(ToSet(arrays.goals), c.goal), Has(tables.goals, c.goal))

-----------------------------------------------------------------------------
(* Notifications and rules *)

\* upsert: nothing, if one of that key is there.
MemNotify(db, n) == IF \E r \in ToSet(db.inbox) : r.key = n.key
    THEN db ELSE [db EXCEPT !.inbox = Append(@, n)]
PgNotify(db, n) == IF \E r \in db.inbox : r.key = n.key THEN db ELSE [db EXCEPT !.inbox = @ \cup {n}]
New(rows, n) == ~ \E r \in rows : r.key = n.key

\* markRead: the first time counts.
Read(r, id, at) == IF r.id = id /\ r.read = Live THEN [r EXCEPT !.read = at] ELSE r
MemMarkRead(db, id, at) == [db EXCEPT !.inbox = [i \in DOMAIN @ |-> Read(@[i], id, at)]]
PgMarkRead(db, id, at) == [db EXCEPT !.inbox = {Read(r, id, at) : r \in @}]

\* updatePreferences, and getPreferences, which in PostgreSQL inserts the defaults.
MemUpdatePreferences(db, muted) == [db EXCEPT !.muted = muted]
PgUpdatePreferences(db, muted) == [db EXCEPT !.muted = muted]

CallNotifications ==
    \/ \E n \in [id : Ids, key : Days, read : {Live}] :
          Fresh(n.id) /\ CallBoth(MemNotify(arrays, n), PgNotify(tables, n), New(ToSet(arrays.inbox), n),
                                  New(tables.inbox, n))
    \/ \E id \in Ids, at \in Days :
          CallBoth(MemMarkRead(arrays, id, at), PgMarkRead(tables, id, at), Has(ToSet(arrays.inbox), id),
                   Has(tables.inbox, id))
    \/ \E muted \in SUBSET {"budget", "security"} :
          CallBoth(MemUpdatePreferences(arrays, muted), PgUpdatePreferences(tables, muted), muted, muted)

MemCreateRule(db, r) == [db EXCEPT !.rules = Pushed(@, r, {"id"})]
PgCreateRule(db, r) == [db EXCEPT !.rules = Upserted(@, r, {"id"})]

\* Mutant: rules in the order they were made.
MemRulesAsMade(db) == db.rules

\* list: by priority, then by id, which decides what rule wins.
Precedes(r, q) == r.priority < q.priority \/ (r.priority = q.priority /\ r.id < q.id)
MemRules(db) == SetToSortSeq(ToSet(db.rules), Precedes)
PgRules(db) == SetToSortSeq(db.rules, Precedes)

CallRules ==
    \/ \E r \in [id : Ids, priority : Days] : CallBoth(MemCreateRule(arrays, r), PgCreateRule(tables, r),
                                                       r, r)
    \/ \E id \in Ids : Removal("rules", id)

-----------------------------------------------------------------------------
(* Reconciliations, saved views, schedules and exchange rates *)

SameDay(r, q) == r.account = q.account /\ r.date = q.date /\ r.archived = Live
Archived(r, at) == [r EXCEPT !.archived = at]
Superseded(rows, q) == {i \in DOMAIN rows : SameDay(rows[i], q)}

\* create: in memory the first live claim about that day is archived, in PostgreSQL every one.
MemCreateClaim(db, q) ==
    LET rows == db.reconciliations
        old == Superseded(rows, q) IN
    [db EXCEPT !.reconciliations =
        Append([i \in DOMAIN rows |-> IF old # {} /\ i = Min(old)
                THEN Archived(rows[i], q.at) ELSE rows[i]], q)]
PgCreateClaim(db, q) ==
    [db EXCEPT !.reconciliations = {IF SameDay(r, q) THEN Archived(r, q.at) ELSE r : r \in @} \cup {q}]

\* archive: a live row only.
MemArchive(db, t, id, at) ==
    [db EXCEPT ![t] = [i \in DOMAIN @ |-> IF @[i].id = id /\ @[i].archived = Live
                       THEN Archived(@[i], at) ELSE @[i]]]
PgArchive(db, t, id, at) ==
    [db EXCEPT ![t] = {IF r.id = id /\ r.archived = Live THEN Archived(r, at) ELSE r : r \in @}]
HasLive(rows, id) == \E r \in rows : r.id = id /\ r.archived = Live
Archiving(t, id, at) ==
    CallBoth(MemArchive(arrays, t, id, at), PgArchive(tables, t, id, at), HasLive(ToSet(arrays[t]), id),
             HasLive(tables[t], id))

CallReconciliations ==
    \/ \E q \in [id : Ids, account : {1}, date : Days, at : Days, archived : {Live}] :
          Fresh(q.id) /\ CallBoth(MemCreateClaim(arrays, q), PgCreateClaim(tables, q), q, q)
    \/ \E id \in Ids, at \in Days : Archiving("reconciliations", id, at)

\* create: a name that is taken, in whatever case, is refused.
MemCreateView(db, v) == IF \E r \in ToSet(db.views) : r.name = v.name
    THEN db ELSE [db EXCEPT !.views = Append(@, v)]
PgCreateView(db, v) == IF \E r \in db.views : r.name = v.name THEN db ELSE [db EXCEPT !.views = @ \cup {v}]
Taken(rows, v) == \E r \in rows : r.name = v.name

CallViews ==
    \/ \E v \in [id : Ids, name : Days] :
          Fresh(v.id) /\ CallBoth(MemCreateView(arrays, v), PgCreateView(tables, v),
                                  Taken(ToSet(arrays.views), v), Taken(tables.views, v))
    \/ \E id \in Ids : Removal("views", id)

MemCreateSchedule(db, s) == [db EXCEPT !.schedules = Append(@, s)]
PgCreateSchedule(db, s) == [db EXCEPT !.schedules = @ \cup {s}]

\* update: of the row of that id, archived or not.
MemUpdateSchedule(db, id, start) ==
    [db EXCEPT !.schedules = [i \in DOMAIN @ |-> IF @[i].id = id
                              THEN [@[i] EXCEPT !.start = start] ELSE @[i]]]
PgUpdateSchedule(db, id, start) ==
    [db EXCEPT !.schedules = {IF r.id = id THEN [r EXCEPT !.start = start] ELSE r : r \in @}]

CallSchedules ==
    \/ \E s \in [id : Ids, start : Days, archived : {Live}] :
          Fresh(s.id) /\ CallBoth(MemCreateSchedule(arrays, s), PgCreateSchedule(tables, s), s, s)
    \/ \E id \in Ids, start \in Days : CallBoth(MemUpdateSchedule(arrays, id, start),
                                                PgUpdateSchedule(tables, id, start),
                                              Has(ToSet(arrays.schedules), id), Has(tables.schedules, id))
    \/ \E id \in Ids, at \in Days : Archiving("schedules", id, at)

\* upsert: another rate of that pair and day replaces the first under its id; who made it first, and
\* when, only PostgreSQL keeps.
Pair == {"base", "asOf"}
First(rows, r) == CHOOSE k \in rows : Same(k, r, Pair)
Corrects(rows, r) == \E k \in rows : Same(k, r, Pair)
MemUpsertRate(db, r) ==
    LET id == IF Corrects(ToSet(db.rates), r) THEN First(ToSet(db.rates), r).id ELSE r.id IN
    [db EXCEPT !.rates = Pushed(@, [r EXCEPT !.id = id], Pair)]
PgUpsertRate(db, r) ==
    [db EXCEPT !.rates = IF Corrects(@, r)
                         THEN Upserted(@, [First(@, r) EXCEPT !.rate = r.rate], Pair) ELSE @ \cup {r}]
Rate(k) == [f \in DOMAIN k \ {"at"} |-> k[f]]

CallRates ==
    \/ \E r \in [id : Ids, base : Currencies, asOf : Days, rate : Days, at : Days] :
          Fresh(r.id) /\ CallBoth(MemUpsertRate(arrays, r), PgUpsertRate(tables, r), TRUE, TRUE)
    \/ \E id \in Ids : Removal("rates", id)

-----------------------------------------------------------------------------

BookStoresNext ==
    \/ topic = "accounts" /\ CallAccounts
    \/ topic = "budgets" /\ CallBudgets
    \/ topic = "goals" /\ CallGoals
    \/ topic = "notifications" /\ CallNotifications
    \/ topic = "rules" /\ CallRules
    \/ topic = "reconciliations" /\ CallReconciliations
    \/ topic = "views" /\ CallViews
    \/ topic = "schedules" /\ CallSchedules
    \/ topic = "rates" /\ CallRates

BookStoresSpec == BookStoresInit /\ [][BookStoresNext]_bookStoresVars

(* Properties *)

\* A limit on the history that keeps whole days: within a day the adapters begin from other ends.
KeepsDays(db, limit) == {h.day : h \in ToSet(SubSeq(db.history, 1, Len(db.history) - limit))}
                        \cap {h.day : h \in ToSet(MemHistory(db, limit))} = {}

\* After any calls, an array and its table hold the same rows, both answered the last call alike, and
\* the lists whose order decides something come in the same order: the rules (the first that matches
\* wins), the contributions to a goal, and the history of the net worth up to any limit of whole days.
SameBooks ==
    /\ alike /\ arrays.muted = tables.muted
    /\ \A t \in Tables \ {"rates"} : ToSet(arrays[t]) = tables[t] /\ Len(arrays[t]) = Cardinality(tables[t])
    /\ {Rate(r) : r \in ToSet(arrays.rates)} = {Rate(r) : r \in tables.rates}
    /\ MemRules(arrays) = PgRules(tables)
    /\ \A goal \in Ids : MemContributions(arrays, goal) = PgContributions(tables, goal)
    /\ \A limit \in 0..Len(arrays.history) :
          KeepsDays(arrays, limit) => MemHistory(arrays, limit) = PgHistory(tables, limit)
=============================================================================
