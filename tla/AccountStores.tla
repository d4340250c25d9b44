---------------------------- MODULE AccountStores ----------------------------
(***************************************************************************)
(* The ports behind which identities, sessions, second factors, passkeys,  *)
(* subscriptions and bank links are kept, twice: the in-memory adapters,   *)
(* which "define the contract the Postgres versions must satisfy", hold    *)
(* maps and arrays, the PostgreSQL adapters tables.  Both are given the    *)
(* same calls; agree says whether they answered the last one alike.  A     *)
(* behaviour calls the ports of one chapter, and deletes accounts.         *)
(*                                                                         *)
(* Time passes by the hour, which is longer than every lease, as long as   *)
(* what expires, and the window in which a webhook is a duplicate.         *)
(***************************************************************************)
EXTENDS Naturals, FiniteSets

CONSTANTS
    Holders,    \* who may have an account; their addresses too
    Nobody,     \* who has none
    Chapters,   \* groups of ports
    Marks,      \* bound: identifiers, tokens, codes and steps, by number
    MaxFailures, \* failures that end a challenge (5 in the code)
    MaxHour     \* bound

ASSUME AccountStoresAssumption ==
    Marks \subseteq Nat \ {0} /\ {MaxFailures, MaxHour} \subseteq Nat /\ Nobody \notin Holders

VARIABLES maps, sheets, agree, chapter, hour

accountStoresVars == <<maps, sheets, agree, chapter, hour>>

Never == 0
MapBooks == {"users", "pending", "sessions", "factors", "codes", "challenges", "ceremonies", "customers",
             "jobs"}
Books == {"users", "sessions", "events", "actions", "factors", "codes", "challenges", "ceremonies",
          "passkeys", "customers", "seen", "consents", "links", "jobs"}

Account(h) == [id |-> h, user |-> h, hash |-> 1, verified |-> Never, status |-> "active", due |-> Never]
AccountStoresInit ==
    /\ chapter \in Chapters
    /\ LET first == IF chapter = "users" THEN {} ELSE Holders IN
       /\ maps = [b \in Books \cup MapBooks |->
                    CASE b = "users" -> [h \in first |-> Account(h)]
                      [] b \in MapBooks \ {"users"} -> [x \in {} |-> Never]
                      [] OTHER -> {}]
       /\ sheets = [b \in Books |-> IF b = "users" THEN {Account(h) : h \in first} ELSE {}]
    /\ agree = TRUE /\ hour = 1

-----------------------------------------------------------------------------
(* Maps, tables and calls *)

Put(m, k, v) == [x \in DOMAIN m \cup {k} |-> IF x = k THEN v ELSE m[x]]
Values(m) == {m[k] : k \in DOMAIN m}
Puts(db, b, k, v) == [db EXCEPT ![b] = Put(@, k, v)]
Drops(db, b, gone(_)) == [db EXCEPT ![b] = [x \in {k \in DOMAIN @ : ~ gone(@[k])} |-> @[x]]]
Pushes(db, b, v) == [db EXCEPT ![b] = @ \cup {v}]
Turns(db, b, these, into(_)) == [db EXCEPT ![b] = {IF r \in these THEN into(r) ELSE r : r \in @}]
Deletes(db, b, these) == [db EXCEPT ![b] = @ \ these]
Of(db, b, id) == {r \in db[b] : r.id = id}

Named(b) == {r.id : r \in sheets[b] \cup IF b \in MapBooks THEN Values(maps[b]) ELSE maps[b]}

\* What is made takes the next identifier: they are random, and only compared.
Following(taken) == {i \in Marks \ taken : \A j \in Marks \ taken : i <= j}
Unused(b) == Following(Named(b))
Present(h) == Of(sheets, "users", h) # {}

\* One call on both adapters, with what each holds after it and what each answered.
CallTwo(m, p, mAnswer, pAnswer) ==
    maps' = m /\ sheets' = p /\ agree' = (mAnswer = pAnswer) /\ UNCHANGED <<chapter, hour>>

-----------------------------------------------------------------------------
(* Users and their consents *)

\* A registration: the account with what it agreed to; an address that is taken is refused.
Terms(h) == [user |-> h, granted |-> TRUE, at |-> hour]
MemRegister(db, h) ==
    IF h \in DOMAIN db.users THEN db ELSE Pushes(Puts(db, "users", h, Account(h)), "consents", Terms(h))
PgRegister(db, h) ==
    IF Of(db, "users", h) # {} THEN db ELSE Pushes(Pushes(db, "users", Account(h)), "consents", Terms(h))

MemUser(db, h, into(_)) == IF h \in DOMAIN db.users THEN Puts(db, "users", h, into(db.users[h])) ELSE db
PgUser(db, h, into(_)) == Turns(db, "users", Of(db, "users", h), into)

\* markEmailVerified: in memory the last time stays, in PostgreSQL the first; whether is all that is read.
MemVerified(db, h) == MemUser(db, h, LAMBDA u : [u EXCEPT !.verified = hour])
PgVerified(db, h) == PgUser(db, h, LAMBDA u : [u EXCEPT !.verified = IF @ = Never THEN hour ELSE @])

CallUsers ==
    \/ \E h \in Holders :
          \/ CallTwo(MemRegister(maps, h), PgRegister(sheets, h), h \in DOMAIN maps.users, Present(h))
          \/ Present(h) /\ CallTwo(MemVerified(maps, h), PgVerified(sheets, h), TRUE, TRUE)
    \/ \E h \in Holders, hash \in Marks :
          LET into(u) == [u EXCEPT !.hash = hash] IN
          CallTwo(MemUser(maps, h, into), PgUser(sheets, h, into), TRUE, TRUE)
    \/ \E h \in Holders, granted \in BOOLEAN :
          LET c == [user |-> h, granted |-> granted, at |-> hour] IN
          Present(h) /\ CallTwo(Pushes(maps, "consents", c), Pushes(sheets, "consents", c), c, c)

-----------------------------------------------------------------------------
(* Deletion of an account *)

MayRequest(users, h) == \E u \in users : u.id = h /\ u.status = "active"
MemRequests(db, h) ==
    IF ~ MayRequest(Values(db.users), h) THEN db
    ELSE MemUser(Puts(db, "pending", h, hour + 1), h, LAMBDA u : [u EXCEPT !.status = "pending"])
PgRequests(db, h) ==
    Turns(db, "users", {u \in db.users : u.id = h /\ u.status = "active"},
          LAMBDA u : [u EXCEPT !.status = "pending", !.due = hour + 1])

MemMayCancel(db, h) == h \in DOMAIN db.pending /\ \E u \in Values(db.users) : u.id = h /\ u.status = "pending"
MemCancels(db, h) ==
    IF ~ MemMayCancel(db, h) THEN db
    ELSE MemUser([db EXCEPT !.pending = [k \in DOMAIN @ \ {h} |-> @[k]]], h,
                 LAMBDA u : [u EXCEPT !.status = "active"])
PgMayCancel(db, h) == {u \in db.users : u.id = h /\ u.status = "pending"}
PgCancels(db, h) ==
    Turns(db, "users", PgMayCancel(db, h), LAMBDA u : [u EXCEPT !.status = "active", !.due = Never])

\* purgeDue: in memory store by store, the codes mailed out and the ceremonies excepted; in PostgreSQL
\* the events by a statement, all else with the row of the user.  How many.
Untouched == {"actions", "ceremonies", "seen"}
MemDue(db) == {h \in DOMAIN db.pending : db.pending[h] <= hour}
MemErases(db) ==
    LET due == MemDue(db) IN
    [b \in DOMAIN db |->
        CASE b \in Untouched -> db[b]
          [] b = "events" -> {e \in db[b] : e.user \notin due /\ e.email \notin due}
          [] b \in {"pending", "factors", "codes", "customers",
                    "users"} -> [h \in DOMAIN db[b] \ due |-> db[b][h]]
          [] b \in {"sessions", "challenges",
                    "jobs"} -> [k \in {k \in DOMAIN db[b] : db[b][k].user \notin due} |-> db[b][k]]
          [] OTHER -> {r \in db[b] : r.user \notin due}]
PgDue(db) == {u.id : u \in {u \in db.users : u.status = "pending" /\ u.due <= hour}}
PgErases(db) ==
    [b \in Books |-> {r \in db[b] : r.user \notin PgDue(db) /\ (b = "events" => r.email \notin PgDue(db))}]

CallDeletion ==
    \/ \E h \in Holders :
          \/ CallTwo(MemRequests(maps, h), PgRequests(sheets, h), MayRequest(Values(maps.users), h),
                     MayRequest(sheets.users, h))
          \/ CallTwo(MemCancels(maps, h), PgCancels(sheets, h), MemMayCancel(maps, h),
                     PgMayCancel(sheets, h) # {})
    \/ CallTwo(MemErases(maps), PgErases(sheets), Cardinality(MemDue(maps)), Cardinality(PgDue(sheets)))

-----------------------------------------------------------------------------
(* Sessions *)

Session(id, h, family) ==
    [id |-> id, user |-> h, family |-> family, expires |-> hour + 1, revoked |-> Never, reason |-> "none"]
Ended(s, reason) == [s EXCEPT !.revoked = hour, !.reason = reason]

\* Mutant: a revocation puts its reason in the place of the first.
MemEndsAgain(db, field, x, reason) ==
    [db EXCEPT !.sessions = [k \in DOMAIN @ |-> IF @[k][field] = x THEN Ended(@[k], reason) ELSE @[k]]]

\* revoke, revokeFamily and revokeAllForUser: the first reason stays.
MemEnds(db, field, x, reason) ==
    [db EXCEPT !.sessions =
        [k \in DOMAIN @ |-> IF @[k][field] = x /\ @[k].revoked = Never THEN Ended(@[k], reason) ELSE @[k]]]
PgLive(db, field, x) == {s \in db.sessions : s[field] = x /\ s.revoked = Never}
PgEnds(db, field, x, reason) == Turns(db, "sessions", PgLive(db, field, x), LAMBDA s : Ended(s, reason))
MemLive(db, field, x) ==
    {k \in DOMAIN db.sessions : db.sessions[k][field] = x /\ db.sessions[k].revoked = Never}

\* rotate: in PostgreSQL also not one that has expired.
MemRotates(db, id, next) ==
    IF MemLive(db, "id", id) = {} THEN db
    ELSE Puts(Puts(db, "sessions", id, Ended(db.sessions[id], "rotated")), "sessions", next.id, next)
PgMayRotate(db, id) == {s \in PgLive(db, "id", id) : s.expires > hour}
PgRotates(db, id, next) ==
    IF PgMayRotate(db, id) = {} THEN db
    ELSE Pushes(Turns(db, "sessions", PgMayRotate(db, id), LAMBDA s : Ended(s, "rotated")), "sessions", next)

MemActive(db, h) == {s \in Values(db.sessions) : s.user = h /\ s.revoked = Never /\ s.expires > hour}
PgActive(db, h) == {s \in db.sessions : s.user = h /\ s.revoked = Never /\ s.expires > hour}

MemExpired(db) == {k \in DOMAIN db.sessions : db.sessions[k].expires < hour}
PgExpired(db) == {s \in db.sessions : s.expires < hour}

\* An expired token never gets as far as its rotation.
CallSessions ==
    \/ \E id \in Unused("sessions") :
          \/ \E h \in Holders :
                LET s == Session(id, h, id) IN
                Present(h) /\ CallTwo(Puts(maps, "sessions", id, s), Pushes(sheets, "sessions", s), s, s)
          \/ \E old \in sheets.sessions :
                LET s == Session(id, old.user, old.family) IN
                /\ old.expires > hour
                /\ CallTwo(MemRotates(maps, old.id, s), PgRotates(sheets, old.id, s),
                           MemLive(maps, "id", old.id) # {}, PgMayRotate(sheets, old.id) # {})
    \/ \E field \in {"id", "family", "user"}, x \in Marks \cup Holders, reason \in {"logout", "admin"} :
          /\ (field = "user") = (x \in Holders)
          /\ CallTwo(MemEnds(maps, field, x, reason), PgEnds(sheets, field, x, reason),
                     Cardinality(MemLive(maps, field, x)), Cardinality(PgLive(sheets, field, x)))
    \/ \E h \in Holders : CallTwo(maps, sheets, MemActive(maps, h), PgActive(sheets, h))
    \/ CallTwo(Drops(maps, "sessions", LAMBDA s : s.expires < hour),
               Deletes(sheets, "sessions", PgExpired(sheets)),
               Cardinality(MemExpired(maps)), Cardinality(PgExpired(sheets)))

-----------------------------------------------------------------------------
(* Security events, and the codes that are mailed out *)

\* recentFailures of an address since an hour.
MemFailures(db, email, since, kind) ==
    {e \in db.events : ~ e.ok /\ e.kind = kind /\ e.email = email /\ e.at >= since}
PgFailures(db, email, since, kind) ==
    {e \in db.events : ~ e.ok /\ e.kind = kind /\ e.email = email /\ e.at >= since}
CallEvents ==
    \E id \in Unused("events"), h \in Holders, kind \in {"login", "passkey_login"}, ok \in BOOLEAN :
        LET e == [id |-> id, user |-> IF Present(h) THEN h ELSE Nobody, email |-> h, kind |-> kind,
                  ok |-> ok, at |-> hour] IN
        \/ CallTwo(Pushes(maps, "events", e), Pushes(sheets, "events", e), TRUE, TRUE)
        \/ CallTwo(maps, sheets, MemFailures(maps, h, hour, kind), PgFailures(sheets, h, hour, kind))

Mailed(h, kind, id) == [id |-> id, user |-> h, kind |-> kind, expires |-> hour + 1, used |-> Never]
Spent(a) == [a EXCEPT !.used = hour]

\* issue: those of this kind before it are spent.
Issued(db, h, kind) == {a \in db.actions : a.user = h /\ a.kind = kind /\ a.used = Never}
MemIssues(db, a) ==
    [db EXCEPT !.actions = {IF r \in Issued(db, a.user, a.kind) THEN Spent(r) ELSE r : r \in @} \cup {a}]
PgIssues(db, a) == Pushes(Turns(db, "actions", Issued(db, a.user, a.kind), Spent), "actions", a)

\* consume: whose it was, if it was good.
Good(db, kind, id) == {a \in Of(db, "actions", id) : a.kind = kind /\ a.used = Never /\ a.expires > hour}
MemConsumes(db, kind, id) ==
    [db EXCEPT !.actions = {IF r \in Good(db, kind, id) THEN Spent(r) ELSE r : r \in @}]
PgConsumes(db, kind, id) == Turns(db, "actions", Good(db, kind, id), Spent)
Whose(these) == {a.user : a \in these}

CallActions ==
    \/ \E id \in Unused("actions"), h \in Holders, kind \in {"verify_email", "reset_password"} :
          /\ Present(h)
          /\ CallTwo(MemIssues(maps, Mailed(h, kind, id)), PgIssues(sheets, Mailed(h, kind, id)), TRUE, TRUE)
    \/ \E a \in sheets.actions, kind \in {"verify_email", "reset_password"} :
          CallTwo(MemConsumes(maps, kind, a.id), PgConsumes(sheets, kind, a.id),
                  Whose(Good(maps, kind, a.id)), Whose(Good(sheets, kind, a.id)))

-----------------------------------------------------------------------------
(* The second factor *)

Enrolment(h) == [id |-> h, user |-> h, enabled |-> Never, step |-> 0]

\* savePending: a new secret, and no codes.
MemPending(db, h) ==
    [db EXCEPT !.factors = Put(@, h, Enrolment(h)), !.codes = [k \in DOMAIN @ \ {h} |-> @[k]]]
PgPending(db, h) ==
    [db EXCEPT !.factors = {f \in @ : f.user # h} \cup {Enrolment(h)}, !.codes = {c \in @ : c.user # h}]

\* enable: once, with new codes.
MemMayEnable(db, h) == h \in DOMAIN db.factors /\ db.factors[h].enabled = Never
MemEnables(db, h, code) ==
    IF MemMayEnable(db, h)
    THEN Puts([db EXCEPT !.factors[h].enabled = hour], "codes", h,
              {[user |-> h, id |-> code, used |-> Never]})
    ELSE db
PgMayEnable(db, h) == {f \in db.factors : f.user = h /\ f.enabled = Never}
PgEnables(db, h, code) ==
    IF PgMayEnable(db, h) = {} THEN db
    ELSE Pushes(Turns(db, "factors", PgMayEnable(db, h), LAMBDA f : [f EXCEPT !.enabled = hour]),
                "codes", [user |-> h, id |-> code, used |-> Never])

\* disable: in memory the codes and the challenges go with it, in PostgreSQL they stay.
MemDisables(db, h) ==
    Drops([db EXCEPT !.factors = [k \in DOMAIN @ \ {h} |-> @[k]], !.codes = [k \in DOMAIN @ \ {h} |-> @[k]]],
          "challenges", LAMBDA c : c.user = h)
PgDisables(db, h) == [db EXCEPT !.factors = {f \in @ : f.user # h}]

\* acceptTotpStep: a later step than the last, while enabled.
MemMayStep(db, h, step) ==
    h \in DOMAIN db.factors /\ db.factors[h].enabled # Never /\ db.factors[h].step < step
MemSteps(db, h, step) == IF MemMayStep(db, h, step) THEN [db EXCEPT !.factors[h].step = step] ELSE db
PgMayStep(db, h, step) == {f \in db.factors : f.user = h /\ f.enabled # Never /\ f.step < step}
PgSteps(db, h, step) == Turns(db, "factors", PgMayStep(db, h, step), LAMBDA f : [f EXCEPT !.step = step])

\* consumeRecoveryCode.
MemUnspent(db, h) == IF h \in DOMAIN db.codes THEN {c \in db.codes[h] : c.used = Never} ELSE {}
MemSpends(db, h, code) ==
    IF \E c \in MemUnspent(db, h) : c.id = code
    THEN [db EXCEPT !.codes[h] = {IF c.id = code THEN Spent(c) ELSE c : c \in @}] ELSE db
PgUnspent(db, h) == {c \in db.codes : c.user = h /\ c.used = Never}
PgSpends(db, h, code) == Turns(db, "codes", {c \in PgUnspent(db, h) : c.id = code}, Spent)

\* What asks for a factor has read that it is enabled.
Enrolled(h) == \E f \in sheets.factors : f.user = h /\ f.enabled # Never
CallEnrolments ==
    \/ \E h \in Holders :
          \/ Present(h) /\ CallTwo(MemPending(maps, h), PgPending(sheets, h), TRUE, TRUE)
          \/ CallTwo(MemDisables(maps, h), PgDisables(sheets, h), TRUE, TRUE)
    \/ \E h \in Holders, code \in Marks :
          /\ code \in Following({c.id : c \in sheets.codes})
          /\ CallTwo(MemEnables(maps, h, code), PgEnables(sheets, h, code), MemMayEnable(maps, h),
                     PgMayEnable(sheets, h) # {})
CallFactors ==
    \/ \E h \in Holders, step \in Marks :
          CallTwo(MemSteps(maps, h, step), PgSteps(sheets, h, step), MemMayStep(maps, h, step),
                  PgMayStep(sheets, h, step) # {})
    \/ \E h \in Holders, code \in Marks :
          /\ Enrolled(h)
          /\ CallTwo(MemSpends(maps, h, code), PgSpends(sheets, h, code),
                     {c \in MemUnspent(maps, h) : c.id = code},
                     {c \in PgUnspent(sheets, h) : c.id = code})

\* Challenges: found and used until they expire, and failed MaxFailures times at most.
Challenge(id, h) == [id |-> id, user |-> h, expires |-> hour + 1, used |-> Never, failed |-> 0]
Open(c) == c.used = Never /\ c.expires > hour
Failed(c) == [c EXCEPT !.failed = @ + 1, !.used = IF c.failed + 1 >= MaxFailures THEN hour ELSE @]
MemOpen(db, id) == id \in DOMAIN db.challenges /\ Open(db.challenges[id])
MemChallenge(db, id, into(_)) == IF MemOpen(db, id) THEN [db EXCEPT !.challenges[id] = into(@)] ELSE db
PgOpen(db, id) == {c \in Of(db, "challenges", id) : Open(c)}
PgChallenge(db, id, into(_)) == Turns(db, "challenges", PgOpen(db, id), into)
Left(these) == {MaxFailures - c.failed - 1 : c \in these}

\* One that a disabled factor left behind in PostgreSQL is not asked for.
CallChallenges ==
    \/ \E id \in Unused("challenges"), h \in Holders :
          /\ Enrolled(h)
          /\ CallTwo(Puts(maps, "challenges", id, Challenge(id, h)),
                     Pushes(sheets, "challenges", Challenge(id, h)), TRUE, TRUE)
    \/ \E id \in DOMAIN maps.challenges :
          LET c == {maps.challenges[id]} IN
          \/ CallTwo(MemChallenge(maps, id, Spent), PgChallenge(sheets, id, Spent), MemOpen(maps, id),
                     PgOpen(sheets, id) # {})
          \/ CallTwo(MemChallenge(maps, id, Failed), PgChallenge(sheets, id, Failed), Left({x \in c : Open(x)}),
                     Left(PgOpen(sheets, id)))

-----------------------------------------------------------------------------
(* Passkeys and their ceremonies *)

Ceremony(id, purpose, h) == [id |-> id, purpose |-> purpose, user |-> h, expires |-> hour + 1, used |-> Never]
MemConsume(db, id, purpose) ==
    IF id \in DOMAIN db.ceremonies /\ Open(db.ceremonies[id]) /\ db.ceremonies[id].purpose = purpose
    THEN [db EXCEPT !.ceremonies[id] = Spent(@)] ELSE db
PgConsumable(db, id, purpose) == {c \in Of(db, "ceremonies", id) : Open(c) /\ c.purpose = purpose}
PgConsume(db, id, purpose) == Turns(db, "ceremonies", PgConsumable(db, id, purpose), Spent)
CallCeremonies ==
    \/ \E id \in Unused("ceremonies"), purpose \in {"register", "login"}, h \in Holders \cup {Nobody} :
          LET c == Ceremony(id, purpose, h) IN
          /\ IF h = Nobody THEN purpose = "login" ELSE Present(h)
          /\ CallTwo(Puts(maps, "ceremonies", id, c), Pushes(sheets, "ceremonies", c), TRUE, TRUE)
    \/ \E id \in Marks, purpose \in {"register", "login"} :
          /\ \A c \in Values(maps.ceremonies) : c.id = id => c.user = Nobody \/ Present(c.user)
          /\ CallTwo(MemConsume(maps, id, purpose), PgConsume(sheets, id, purpose),
                     MemConsume(maps, id, purpose) # maps, PgConsumable(sheets, id, purpose) # {})
    \/ LET old == {c \in sheets.ceremonies : c.expires < hour} IN
       CallTwo(Drops(maps, "ceremonies", LAMBDA c : c.expires < hour), Deletes(sheets, "ceremonies", old),
               TRUE, TRUE)

Passkey(id, h) == [id |-> id, user |-> h, counter |-> 0]
MayCount(k, h, counter) == k.user = h /\ (k.counter < counter \/ (k.counter = 0 /\ counter = 0))
MemCounts(db, h, id, counter) ==
    [db EXCEPT !.passkeys = {IF k.id = id /\ MayCount(k, h, counter)
                             THEN [k EXCEPT !.counter = counter] ELSE k : k \in @}]
PgMayCount(db, h, id, counter) == {k \in Of(db, "passkeys", id) : MayCount(k, h, counter)}
PgCounts(db, h, id, counter) ==
    Turns(db, "passkeys", PgMayCount(db, h, id, counter),
          LAMBDA k : [k EXCEPT !.counter = IF k.counter = 0 /\ counter = 0 THEN @ ELSE counter])

\* remove: of the user's own.
Own(db, h, id) == {k \in Of(db, "passkeys", id) : k.user = h}

\* A credential that is there already PostgreSQL refuses; in memory it would be there twice.
CallPasskeys ==
    \/ \E id \in Unused("passkeys"), h \in Holders :
          /\ Present(h)
          /\ CallTwo(Pushes(maps, "passkeys", Passkey(id, h)), Pushes(sheets, "passkeys", Passkey(id, h)),
                     TRUE, TRUE)
    \/ \E id \in Marks, h \in Holders :
          \/ \E counter \in Marks \cup {0} :
                CallTwo(MemCounts(maps, h, id, counter), PgCounts(sheets, h, id, counter),
                        \E k \in Of(maps, "passkeys", id) : MayCount(k, h, counter),
                        PgMayCount(sheets, h, id, counter) # {})
          \/ CallTwo(Deletes(maps, "passkeys", Own(maps, h, id)),
                     Deletes(sheets, "passkeys", Own(sheets, h, id)),
                     Own(maps, h, id) # {}, Own(sheets, h, id) # {})

-----------------------------------------------------------------------------
(* Subscriptions, and the events of the billing provider *)

Customer(h, id, plan) == [user |-> h, id |-> id, plan |-> plan]
Another(these, h, id) == \E c \in these : c.user # h /\ c.id = id
MemSubscribes(db, c) ==
    IF Another(Values(db.customers), c.user, c.id) THEN db ELSE Puts(db, "customers", c.user, c)
PgSubscribes(db, c) ==
    IF Another(db.customers, c.user, c.id) THEN db
    ELSE [db EXCEPT !.customers = {r \in @ : r.user # c.user} \cup {c}]

MemClaims(db, id) == Pushes(db, "seen", [id |-> id, user |-> Nobody])
PgClaims(db, id) == IF Of(db, "seen", id) # {} THEN db ELSE Pushes(db, "seen", [id |-> id, user |-> Nobody])

CallBilling ==
    \/ \E h \in Holders, id \in Marks, plan \in {"free", "pro"} :
          LET c == Customer(h, id, plan) IN
          /\ Present(h)
          /\ CallTwo(MemSubscribes(maps, c), PgSubscribes(sheets, c), Another(Values(maps.customers), h, id),
                     Another(sheets.customers, h, id))
    \/ \E id \in Marks :
          CallTwo(MemClaims(maps, id), PgClaims(sheets, id), Of(maps, "seen", id) = {},
                  Of(sheets, "seen", id) = {})

-----------------------------------------------------------------------------
(* Bank links and the queue of their webhooks *)

\* Since when: in memory the start of a sync that has not ended, in PostgreSQL the last update.
Link(id, h) == [id |-> id, user |-> h, status |-> "healthy", since |-> Never]
Linked(db, h, id) == {l \in Of(db, "links", id) : l.user = h}
Starts(l) == [l EXCEPT !.status = "syncing", !.since = hour]
MemMayStart(l) == ~ (l.status = "syncing" /\ l.since = hour)
PgMayStart(l) == l.status # "syncing" \/ l.since < hour
Startable(db, h, id, may(_)) == {l \in Linked(db, h, id) : may(l)}

\* update, always with another status: in memory it ends the sync.
MemUpdatesLink(db, h, id, status) ==
    Turns(db, "links", Linked(db, h, id), LAMBDA l : [l EXCEPT !.status = status, !.since = Never])
PgUpdatesLink(db, h, id, status) ==
    Turns(db, "links", Linked(db, h, id), LAMBDA l : [l EXCEPT !.status = status, !.since = hour])

\* disconnect: purgeLink, then remove.
MemDisconnects(db, h, id) ==
    Deletes(Drops(db, "jobs", LAMBDA j : j.user = h /\ j.link = id), "links", Linked(db, h, id))
PgDisconnects(db, h, id) ==
    Deletes(Deletes(db, "jobs", {j \in db.jobs : j.user = h /\ j.link = id}), "links", Linked(db, h, id))

\* A webhook: each link sends one body, again and again.
Job(id, l) ==
    [id |-> id, user |-> l.user, link |-> l.id, status |-> "pending", attempts |-> 0,
     at |-> hour, created |-> hour, updated |-> hour]

\* enqueue: not one with the body of another one made in the hour before, in PostgreSQL in this hour.
MemRepeats(db, j) == \E k \in Values(db.jobs) : k.link = j.link /\ k.created = hour
PgRepeats(db, j) == \E k \in db.jobs : k.link = j.link /\ k.created = hour

\* claim: what is due, and what has been processed for too long.
Due(j) == (j.status = "pending" /\ j.at <= hour) \/ (j.status = "processing" /\ j.updated < hour)
Worked(j) == [j EXCEPT !.status = "processing", !.attempts = @ + 1, !.updated = hour]
Handed(jobs) == {Worked(j) : j \in {j \in jobs : Due(j)}}
MemClaimsJobs(db) == [db EXCEPT !.jobs = [k \in DOMAIN @ |-> IF Due(@[k]) THEN Worked(@[k]) ELSE @[k]]]
PgClaimsJobs(db) == Turns(db, "jobs", {j \in db.jobs : Due(j)}, Worked)

\* complete, and retry; only PostgreSQL notes when a job was completed.
MemSettles(db, id, status, at) ==
    IF id \notin DOMAIN db.jobs THEN db
    ELSE [db EXCEPT !.jobs[id] = IF status = "completed" THEN [@ EXCEPT !.status = status]
                                 ELSE [@ EXCEPT !.status = status, !.at = at, !.updated = hour]]
PgSettles(db, id, status, at) ==
    Turns(db, "jobs", Of(db, "jobs", id),
          LAMBDA j : [j EXCEPT !.status = status, !.updated = hour,
                               !.at = IF status = "completed" THEN @ ELSE at])

CallLinks ==
    \/ \E id \in Unused("links"), h \in Holders :
          LET l == Link(id, h) IN
          Present(h) /\ CallTwo(Pushes(maps, "links", l), Pushes(sheets, "links", l), l, l)
    \/ \E id \in Marks, h \in Holders :
          CallTwo(MemDisconnects(maps, h, id), PgDisconnects(sheets, h, id), Linked(maps, h, id) # {},
                  Linked(sheets, h, id) # {})
CallSyncs ==
    \E id \in Marks, h \in Holders :
       \/ CallTwo(Turns(maps, "links", Startable(maps, h, id, MemMayStart), Starts),
                  Turns(sheets, "links", Startable(sheets, h, id, PgMayStart), Starts),
                  Startable(maps, h, id, MemMayStart) # {}, Startable(sheets, h, id, PgMayStart) # {})
       \/ \E status \in {"healthy", "error", "revoked"} :
             CallTwo(MemUpdatesLink(maps, h, id, status), PgUpdatesLink(sheets, h, id, status),
                     Linked(maps, h, id) # {}, Linked(sheets, h, id) # {})

\* A webhook is of a link that is there; a worker settles what it claimed, or what it was overtaken on.
CallJobs ==
    \/ \E id \in Unused("jobs"), l \in sheets.links :
          LET j == Job(id, l) IN
          CallTwo(IF MemRepeats(maps, j) THEN maps ELSE Puts(maps, "jobs", id, j),
                  IF PgRepeats(sheets, j) THEN sheets ELSE Pushes(sheets, "jobs", j),
                  MemRepeats(maps, j), PgRepeats(sheets, j))
    \/ CallTwo(MemClaimsJobs(maps), PgClaimsJobs(sheets), Handed(Values(maps.jobs)), Handed(sheets.jobs))
    \/ \E id \in Marks, status \in {"completed", "pending", "failed"} :
          /\ \A j \in Of(sheets, "jobs", id) : j.attempts > 0
          /\ CallTwo(MemSettles(maps, id, status, hour + 1), PgSettles(sheets, id, status, hour + 1),
                     TRUE, TRUE)

-----------------------------------------------------------------------------

Hour == hour < MaxHour /\ hour' = hour + 1 /\ UNCHANGED <<maps, sheets, agree, chapter>>

AccountStoresNext ==
    \/ chapter = "users" /\ CallUsers
    \/ chapter = "sessions" /\ CallSessions
    \/ chapter = "events" /\ CallEvents
    \/ chapter = "actions" /\ CallActions
    \/ chapter = "factors" /\ (CallEnrolments \/ CallFactors)
    \/ chapter = "challenges" /\ (CallEnrolments \/ CallChallenges)
    \/ chapter = "passkeys" /\ CallPasskeys
    \/ chapter = "ceremonies" /\ CallCeremonies
    \/ chapter = "billing" /\ CallBilling
    \/ chapter = "links" /\ (CallLinks \/ CallSyncs)
    \/ chapter = "jobs" /\ (CallLinks \/ CallJobs)
    \/ CallDeletion
    \/ Hour

AccountStoresSpec == AccountStoresInit /\ [][AccountStoresNext]_accountStoresVars

-----------------------------------------------------------------------------
(* Properties *)

SeenUser(u) == [id |-> u.id, hash |-> u.hash, verified |-> u.verified # Never, status |-> u.status]
SeenLink(l) == [id |-> l.id, user |-> l.user, status |-> l.status]
SeenJob(j) == [j EXCEPT !.updated = IF j.status = "processing" THEN @ ELSE Never]
OfSomebody(these) == {r \in these : r.user = Nobody \/ Present(r.user)}

\* "Exercised by the same contract suite, so a divergence fails a test": after any calls, with accounts
\* deleted and purged between them, both adapters answered the last call alike and hold the same rows of
\* those who have an account, as far as a caller can see them.  Not seen are the codes of a factor that is
\* not enabled, and the challenges that outlive a factor that was disabled, which PostgreSQL keeps.
SameAccounts ==
    /\ agree
    /\ {SeenUser(u) : u \in Values(maps.users)} = {SeenUser(u) : u \in sheets.users}
    /\ {<<h, maps.pending[h]>> : h \in DOMAIN maps.pending}
         = {<<u.id, u.due>> : u \in {u \in sheets.users : u.status = "pending"}}
    /\ \A b \in {"sessions", "factors", "customers"} : Values(maps[b]) = sheets[b]
    /\ \A b \in {"events", "passkeys", "seen", "consents"} : maps[b] = sheets[b]
    /\ OfSomebody(maps.actions) = sheets.actions
    /\ OfSomebody(Values(maps.ceremonies)) = sheets.ceremonies
    /\ \A h \in Holders : Enrolled(h) => MemUnspent(maps, h) = PgUnspent(sheets, h)
    /\ Values(maps.challenges) \subseteq sheets.challenges
    /\ {SeenLink(l) : l \in maps.links} = {SeenLink(l) : l \in sheets.links}
    /\ {SeenJob(j) : j \in Values(maps.jobs)} = {SeenJob(j) : j \in sheets.jobs}
=============================================================================
