------------------------------ MODULE Passkeys ------------------------------
(***************************************************************************)
(* Passkeys: ceremonies that are issued and used up, credentials with the  *)
(* counter their authenticator last showed, and the requests that          *)
(* register, sign in and remove, statement by statement.                   *)
(*                                                                         *)
(* What an authenticator signs is any counter at all: it may have none,    *)
(* answers may arrive out of order, and a copy of it counts on its own.    *)
(***************************************************************************)
EXTENDS Naturals, Sequences

CONSTANTS
    Owners,        \* users
    Nobody,        \* a ceremony that names no user, a credential that is not there
    Ceremonies,    \* webauthn_challenges, each issued once
    Credentials,   \* credential ids
    Verifiers,     \* requests in progress
    MaxCounter,    \* bound: sign counters
    MaxRemovals    \* bound: removals of credentials

ASSUME PasskeysAssumption == Nobody \notin Owners /\ {MaxCounter, MaxRemovals} \subseteq Nat

Counters == 0..MaxCounter
Purposes == {"register", "login"}
Unissued == [purpose |-> "none", owner |-> Nobody, open |-> FALSE]
NoCredential == [owner |-> Nobody, counter |-> 0]
NoVerify == [pc |-> "idle"]

VARIABLES
    ceremonies,   \* webauthn_challenges
    credentials,  \* webauthn_credentials
    verifier,     \* what each request has read
    outcomes,     \* the registrations and the logins that moved on to their session, in that order
    removals      \* removals so far

passkeysVars == <<ceremonies, credentials, verifier, outcomes, removals>>

Verifying(v, pc) == verifier[v].pc = pc
Proceeds(v, q) == verifier' = [verifier EXCEPT ![v] = q]
Registered(k) == credentials[k] # NoCredential

PasskeysInit ==
    /\ ceremonies = [c \in Ceremonies |-> Unissued]
    /\ credentials = [k \in Credentials |-> NoCredential]
    /\ verifier = [v \in Verifiers |-> NoVerify]
    /\ outcomes = <<>>
    /\ removals = 0

-----------------------------------------------------------------------------
(* Ceremonies *)

\* registrationOptions for who is signed in; loginOptions for the account of an e-mail address, or none.
IssueCeremony(c, purpose, owner) ==
    /\ ceremonies[c] = Unissued
    /\ purpose = "register" => owner # Nobody
    /\ ceremonies' = [ceremonies EXCEPT ![c] = [purpose |-> purpose, owner |-> owner, open |-> TRUE]]
    /\ UNCHANGED <<credentials, verifier, outcomes, removals>>

\* Its time is over; deleteExpired takes the row away later.
ExpireCeremony(c) ==
    /\ ceremonies[c].open
    /\ ceremonies' = [ceremonies EXCEPT ![c].open = FALSE]
    /\ UNCHANGED <<credentials, verifier, outcomes, removals>>

\* Mutant: a ceremony is found and not marked.
ConsumeOnly(v, c, purpose, next) ==
    /\ Verifying(v, "idle")
    /\ ceremonies[c].open /\ ceremonies[c].purpose = purpose
    /\ Proceeds(v, next)
    /\ UNCHANGED <<ceremonies, credentials, outcomes, removals>>

\* consume, one statement; who does not find it open is refused and leaves no trace.
ConsumeCeremony(v, c, purpose, next) ==
    /\ Verifying(v, "idle")
    /\ ceremonies[c].open /\ ceremonies[c].purpose = purpose
    /\ ceremonies' = [ceremonies EXCEPT ![c].open = FALSE]
    /\ Proceeds(v, next)
    /\ UNCHANGED <<credentials, outcomes, removals>>

-----------------------------------------------------------------------------
(* Registration *)

\* registrationVerify up to the store; a ceremony of another user is used up all the same.
VerifyRegistration(v, c, k, owner) ==
    ConsumeCeremony(v, c, "register",
        IF ceremonies[c].owner = owner THEN [pc |-> "register", ceremony |-> c, key |-> k, owner |-> owner] ELSE NoVerify)

\* A credential id is registered once, whoever owns it; its counter starts at zero.
Register(v) ==
    LET q == verifier[v] IN
    /\ Verifying(v, "register")
    /\ IF Registered(q.key) THEN UNCHANGED <<credentials, outcomes>>
       ELSE /\ credentials' = [credentials EXCEPT ![q.key] = [owner |-> q.owner, counter |-> 0]]
            /\ outcomes' = Append(outcomes, [ceremony |-> q.ceremony, key |-> q.key, owner |-> q.owner, counter |-> 0, kind |-> "register"])
    /\ Proceeds(v, NoVerify)
    /\ UNCHANGED <<ceremonies, removals>>

-----------------------------------------------------------------------------
(* Signing in *)

VerifyLogin(v, c, k, counter) ==
    ConsumeCeremony(v, c, "login", [pc |-> "find", ceremony |-> c, key |-> k, counter |-> counter])

\* The owner, who must be the one the ceremony names if it names one; then lock and signature.
FindCredential(v) ==
    LET q == verifier[v]
        owner == credentials[q.key].owner IN
    /\ Verifying(v, "find")
    /\ IF Registered(q.key) /\ ceremonies[q.ceremony].owner \in {Nobody, owner}
       THEN Proceeds(v, [pc |-> "count", ceremony |-> q.ceremony, key |-> q.key, counter |-> q.counter,
                         owner |-> owner, read |-> credentials[q.key].counter])
       ELSE Proceeds(v, NoVerify)
    /\ UNCHANGED <<ceremonies, credentials, outcomes, removals>>

Advances(from, to) == from < to \/ (from = 0 /\ to = 0)

\* updateCounter, one statement: who cannot move the counter is not let in; for the others a session
\* is opened next (see Sessions).
UpdateCounter(v) ==
    LET q == verifier[v] IN
    /\ Verifying(v, "count")
    /\ IF credentials[q.key].owner = q.owner /\ Advances(credentials[q.key].counter, q.counter)
       THEN /\ credentials' = [credentials EXCEPT ![q.key].counter = q.counter]
            /\ outcomes' = Append(outcomes, [ceremony |-> q.ceremony, key |-> q.key, owner |-> q.owner, counter |-> q.counter, kind |-> "login"])
       ELSE UNCHANGED <<credentials, outcomes>>
    /\ Proceeds(v, NoVerify)
    /\ UNCHANGED <<ceremonies, removals>>

\* The answer does not verify, the account is locked, or an await is rejected.
VerifierFails(v) ==
    /\ ~ Verifying(v, "idle")
    /\ Proceeds(v, NoVerify)
    /\ UNCHANGED <<ceremonies, credentials, outcomes, removals>>

RemoveCredential(k) ==
    /\ Registered(k) /\ removals < MaxRemovals
    /\ credentials' = [credentials EXCEPT ![k] = NoCredential]
    /\ removals' = removals + 1
    /\ UNCHANGED <<ceremonies, verifier, outcomes>>

PasskeysNext ==
    \/ \E c \in Ceremonies :
         \/ \E purpose \in Purposes, owner \in Owners \cup {Nobody} : IssueCeremony(c, purpose, owner)
         \/ ExpireCeremony(c)
         \/ \E v \in Verifiers, k \in Credentials :
              \/ \E owner \in Owners : VerifyRegistration(v, c, k, owner)
              \/ \E counter \in Counters : VerifyLogin(v, c, k, counter)
    \/ \E v \in Verifiers : Register(v) \/ FindCredential(v) \/ UpdateCounter(v) \/ VerifierFails(v)
    \/ \E k \in Credentials : RemoveCredential(k)

PasskeysSpec == PasskeysInit /\ [][PasskeysNext]_passkeysVars

-----------------------------------------------------------------------------
(* Properties *)

\* Every variable keeps its type.
PasskeysTypeOK ==
    /\ ceremonies \in [Ceremonies -> [purpose : Purposes, owner : Owners \cup {Nobody}, open : BOOLEAN] \cup {Unissued}]
    /\ credentials \in [Credentials -> [owner : Owners \cup {Nobody}, counter : Counters]]
    /\ \A v \in Verifiers : verifier[v].pc \in {"idle", "register", "find", "count"}
    /\ outcomes \in Seq([ceremony : Ceremonies, key : Credentials, owner : Owners, counter : Counters, kind : Purposes])
    /\ removals \in 0..MaxRemovals

\* 030: "Consume-once already stops replay": whatever requests show the answers to a ceremony, and
\* however they overlap, it ends in one registration or one session, of a user it was issued for; and
\* between two registrations of a credential the sessions it opened show counters that grow, or were all
\* zero, so that a copy of the authenticator that lags behind is not let in.
CeremonyOnce ==
    \A i, j \in DOMAIN outcomes :
        /\ outcomes[i].ceremony = outcomes[j].ceremony => i = j
        /\ ceremonies[outcomes[i].ceremony].purpose = outcomes[i].kind
        /\ ceremonies[outcomes[i].ceremony].owner \in {Nobody, outcomes[i].owner}
        /\ /\ i < j /\ outcomes[i].key = outcomes[j].key
           /\ \A k \in i + 1..j : outcomes[k].key = outcomes[j].key => outcomes[k].kind = "login"
           => Advances(outcomes[i].counter, outcomes[j].counter)

=============================================================================
