----------------------------- MODULE Registrations -----------------------------
(***************************************************************************)
(* Creating an account: the password is screened against a range of known  *)
(* breaches, which is fetched, shared by whoever asks for it meanwhile,    *)
(* and kept for a while; the legal documents in force are accepted; the    *)
(* account and its evidence are written together; and a code is mailed     *)
(* that verifies the address.                                              *)
(*                                                                         *)
(* One server, whose cache and requests end when it is deployed again,     *)
(* perhaps with new documents.  A request is a handler between two awaits. *)
(* Time passes in steps; a fetch is given up after FetchTimeout.           *)
(***************************************************************************)
EXTENDS Integers, Sequences, FiniteSets, SequencesExt

CONSTANTS
    Registrants,    \* requests
    Emails, Passwords, \* addresses; passwords, [prefix, length, distinct, common, names]
    RangeTtl, FetchTimeout, MaxRanges, CodeTtl,
    MaxCodes,       \* bound: codes mailed
    MaxDay,         \* bound: time
    MaxLegal        \* bound: versions of the documents

ASSUME RegistrationsAssumption ==
    {RangeTtl, FetchTimeout, MaxRanges, CodeTtl, MaxCodes, MaxDay, MaxLegal} \subseteq Nat /\ RangeTtl > 0

AllPrefixes == {s.prefix : s \in Passwords}
Never == MaxDay + 1

VARIABLES
    day,        \* the time
    required,   \* whether screening may not be left out (HIBP_PASSWORD_CHECK=required)
    legal,      \* the version of the documents in force, 0 when none are configured
    leaked,     \* since when the provider knows a password
    ranges,     \* the cache, in the order of insertion: [prefix, known, expires]
    inFlight,   \* the fetch of a prefix: when it was asked, and what was answered
    signup,     \* the requests: the await each is at and its local variables
    users,      \* the accounts: [email, secret, screened, agreed, consents, verified]
    codes       \* auth_action_tokens of verify_email, each mailed: [email, expires, state]

registrationsVars == <<day, required, legal, leaked, ranges, inFlight, signup, users, codes>>

NoFetch == [asked |-> Never, known |-> {}, answered |-> FALSE]
NoSecret == [prefix |-> 0, length |-> 0, distinct |-> 0, common |-> FALSE, names |-> "none"]
NoSignup == [pc |-> "idle", email |-> "none", secret |-> NoSecret, agrees |-> 0, screened |-> 0]

RegistrationsInit ==
    /\ day = 0 /\ required \in BOOLEAN /\ legal \in {0, 1}
    /\ leaked = [s \in Passwords |-> Never]
    /\ ranges = <<>> /\ inFlight = [f \in AllPrefixes |-> NoFetch]
    /\ signup = [r \in Registrants |-> NoSignup]
    /\ users = {} /\ codes = <<>>

-----------------------------------------------------------------------------
(* Screening *)

\* Length rather than composition, nothing common, and not the address itself.
CheckPassword(s, e) == s.length \in 12..128 /\ s.distinct > 2 /\ ~s.common /\ s.names # e

Entry(prefix) == {i \in DOMAIN ranges : ranges[i].prefix = prefix}
Cached(prefix) == {i \in Entry(prefix) : ranges[i].expires > day}

\* The entry of a prefix, of which the cache has one at most, is taken out.
Dropped(prefix) == IF Entry(prefix) = {} THEN ranges ELSE RemoveAt(ranges, CHOOSE i \in Entry(prefix) : TRUE)

\* A password that is known is refused, and so are documents that are not those in force.
AssertPasswordNotCompromised(q, known) ==
    IF q.secret \in known \/ (legal # 0 /\ q.agrees # legal) THEN NoSignup
    ELSE [q EXCEPT !.pc = "create", !.screened = day]

\* register up to its first await: the range is at hand, or somebody is fetching it, or it is fetched.
\* (Bound: nobody starts once the account is there.)
Submit(r, e, s, agrees) ==
    LET request == [NoSignup EXCEPT !.pc = "screen", !.email = e, !.secret = s, !.agrees = agrees] IN
    /\ signup[r].pc = "idle" /\ \A u \in users : u.email # e
    /\ CheckPassword(s, e)
    /\ IF Cached(s.prefix) # {}
       THEN /\ signup' = [signup EXCEPT ![r] =
                   AssertPasswordNotCompromised(request, UNION {ranges[i].known : i \in Cached(s.prefix)})]
            /\ UNCHANGED <<ranges, inFlight>>
       ELSE /\ signup' = [signup EXCEPT ![r] = request]
            /\ ranges' = Dropped(s.prefix)
            /\ inFlight' = IF inFlight[s.prefix] # NoFetch THEN inFlight
                           ELSE [inFlight EXCEPT ![s.prefix] = [NoFetch EXCEPT !.asked = day]]
    /\ UNCHANGED <<day, required, legal, leaked, users, codes>>

Waiters(prefix) == {r \in Registrants : signup[r].pc = "screen" /\ signup[r].secret.prefix = prefix}

\* The provider answers with what it knows now.
Answer(prefix) ==
    /\ inFlight[prefix] # NoFetch /\ ~inFlight[prefix].answered
    /\ inFlight' = [inFlight EXCEPT ![prefix].answered = TRUE,
                                    ![prefix].known = {s \in Passwords : s.prefix = prefix /\ leaked[s] <= day}]
    /\ UNCHANGED <<day, required, legal, leaked, ranges, signup, users, codes>>

\* Mutant: an entry that is there is good for as long as it is there.
StoreForever(prefix, known) ==
    ranges' = Append(IF Len(ranges) >= MaxRanges THEN Tail(ranges) ELSE ranges,
                     [prefix |-> prefix, known |-> known, expires |-> Never])

\* The oldest entry makes room.
StoreRange(prefix, known) ==
    ranges' = Append(IF Len(ranges) >= MaxRanges THEN Tail(ranges) ELSE ranges,
                     [prefix |-> prefix, known |-> known, expires |-> day + RangeTtl])

\* The answer arrives, for everybody who waits for it.
Arrive(prefix) ==
    LET known == inFlight[prefix].known IN
    /\ inFlight[prefix].answered
    /\ StoreRange(prefix, known)
    /\ inFlight' = [inFlight EXCEPT ![prefix] = NoFetch]
    /\ signup' = [r \in Registrants |->
                    IF r \notin Waiters(prefix) THEN signup[r]
                    ELSE AssertPasswordNotCompromised(signup[r], known)]
    /\ UNCHANGED <<day, required, legal, leaked, users, codes>>

\* No answer, a bad one, or none in time.
FetchFails(prefix) ==
    /\ inFlight[prefix] # NoFetch
    /\ inFlight' = [inFlight EXCEPT ![prefix] = NoFetch]
    /\ signup' = [r \in Registrants |->
                    IF r \notin Waiters(prefix) THEN signup[r]
                    ELSE IF required THEN NoSignup
                    ELSE [AssertPasswordNotCompromised(signup[r], {}) EXCEPT !.screened = -1]]
    /\ UNCHANGED <<day, required, legal, leaked, ranges, users, codes>>

-----------------------------------------------------------------------------
(* The account *)

\* Mutant: no index keeps the addresses apart.
Anything(e) == e \in Emails

\* The unique index on the address.
Unique(e) == \A u \in users : u.email # e

Evidence(version) == IF version = 0 THEN {} ELSE {<<"terms", version>>, <<"privacy_notice", version>>}

Account(q, evidence) ==
    [id |-> Cardinality(users), email |-> q.email, secret |-> q.secret, screened |-> q.screened,
     agreed |-> q.agrees, consents |-> evidence, verified |-> FALSE]

\* Mutant: the account stays when its evidence cannot be recorded.
KeepAccount(q) == IF Unique(q.email) THEN users' = users \cup {Account(q, {})} ELSE UNCHANGED users

\* Nothing that was written stays.
RollBack(q) == UNCHANGED users

\* The account and the evidence of its documents are one transaction.  A duplicate, or a statement that
\* fails, rolls it back and ends the request.
CreateAccount(r) ==
    LET q == signup[r] IN
    /\ q.pc = "create"
    /\ \/ /\ Unique(q.email)
          /\ users' = users \cup {Account(q, Evidence(legal))}
          /\ signup' = [signup EXCEPT ![r] = [NoSignup EXCEPT !.pc = "issue", !.email = q.email]]
       \/ /\ RollBack(q)
          /\ signup' = [signup EXCEPT ![r] = NoSignup]
    /\ UNCHANGED <<day, required, legal, leaked, ranges, inFlight, codes>>

\* requestEmailVerification of somebody who is signed in.
RequestEmailVerification(r, e) ==
    /\ signup[r].pc = "idle"
    /\ \E u \in users : u.email = e /\ ~u.verified
    /\ signup' = [signup EXCEPT ![r] = [NoSignup EXCEPT !.pc = "issue", !.email = e]]
    /\ UNCHANGED <<day, required, legal, leaked, ranges, inFlight, users, codes>>

\* A code mailed to e that is still good is superseded.
Superseded(code, e) == IF code.email = e /\ code.state = "good" THEN [code EXCEPT !.state = "superseded"] ELSE code

\* issueAuthAction: a new code closes those before it, and is mailed.  (Two that are issued at the same
\* time may both stay good, which is not modelled.)
IssueAuthAction(r) ==
    /\ signup[r].pc = "issue" /\ Len(codes) < MaxCodes
    /\ codes' = Append([i \in DOMAIN codes |-> Superseded(codes[i], signup[r].email)],
                       [email |-> signup[r].email, expires |-> day + CodeTtl, state |-> "good"])
    /\ signup' = [signup EXCEPT ![r] = NoSignup]
    /\ UNCHANGED <<day, required, legal, leaked, ranges, inFlight, users>>

\* confirmEmailVerification: the code is consumed...
ConsumeCode(r, i) ==
    /\ signup[r].pc = "idle"
    /\ codes[i].state = "good" /\ codes[i].expires > day
    /\ codes' = [codes EXCEPT ![i].state = "consumed"]
    /\ signup' = [signup EXCEPT ![r] = [NoSignup EXCEPT !.pc = "verify", !.email = codes[i].email]]
    /\ UNCHANGED <<day, required, legal, leaked, ranges, inFlight, users>>

\* ...and then the account is marked.
MarkEmailVerified(r) ==
    /\ signup[r].pc = "verify"
    /\ users' = {[u EXCEPT !.verified = @ \/ u.email = signup[r].email] : u \in users}
    /\ signup' = [signup EXCEPT ![r] = NoSignup]
    /\ UNCHANGED <<day, required, legal, leaked, ranges, inFlight, codes>>

-----------------------------------------------------------------------------
(* The world *)

Leak(s) ==
    /\ leaked[s] = Never /\ leaked' = [leaked EXCEPT ![s] = day]
    /\ UNCHANGED <<day, required, legal, ranges, inFlight, signup, users, codes>>

\* The timer of a fetch does not let it be older.
DayPasses ==
    /\ day < MaxDay /\ day' = day + 1
    /\ \A f \in AllPrefixes : inFlight[f] # NoFetch => day' - inFlight[f].asked <= FetchTimeout
    /\ UNCHANGED <<required, legal, leaked, ranges, inFlight, signup, users, codes>>

\* The server is started again: with the documents of its configuration, no cache and no request.
Deploy(version) ==
    /\ legal' = version /\ ranges' = <<>>
    /\ inFlight' = [f \in AllPrefixes |-> NoFetch]
    /\ signup' = [r \in Registrants |-> NoSignup]
    /\ UNCHANGED <<day, required, leaked, users, codes>>

RegistrationsNext ==
    \/ \E r \in Registrants :
          \/ \E e \in Emails, s \in Passwords, v \in 0..legal : Submit(r, e, s, v)
          \/ \E e \in Emails : RequestEmailVerification(r, e)
          \/ \E i \in DOMAIN codes : ConsumeCode(r, i)
          \/ CreateAccount(r) \/ IssueAuthAction(r) \/ MarkEmailVerified(r)
    \/ \E f \in AllPrefixes : Answer(f) \/ Arrive(f) \/ FetchFails(f)
    \/ \E s \in Passwords : Leak(s)
    \/ \E v \in legal..MaxLegal : Deploy(v)
    \/ DayPasses

RegistrationsSpec == RegistrationsInit /\ [][RegistrationsNext]_registrationsVars

-----------------------------------------------------------------------------
(* Properties *)

\* Whichever requests share a fetch, find a range in the cache or fill it up, and whenever the password
\* is published: an account that had to be screened was, and its password had not been published before
\* the oldest answer that may still be believed.
ScreenedPassword ==
    \A u \in users :
       /\ required => u.screened >= 0
       /\ u.screened >= 0 => leaked[u.secret] > u.screened - RangeTtl - FetchTimeout

\* However registrations of one address overlap with each other, with the codes mailed to it and with a
\* deployment of new documents, and whatever fails between the account and its evidence: there is one
\* account for it, with the evidence of exactly the documents its owner agreed to, all of them, and it is
\* verified only if a code that was mailed to it has been shown, not merely replaced by a newer one.
OneAccount ==
    \A u \in users :
       /\ \A v \in users : u.email = v.email => u = v
       /\ u.consents = Evidence(u.agreed)
       /\ u.verified => \E i \in DOMAIN codes : codes[i].email = u.email /\ codes[i].state = "consumed"
=============================================================================
