------------------------------- MODULE Factors -------------------------------
(***************************************************************************)
(* One user's second factor: enrolment of an authenticator, the recovery   *)
(* codes its enabling creates, the challenges a login leaves behind, and   *)
(* requests that run side by side.  One await of auth.service.ts is one    *)
(* step; a password that does not match changes nothing and is left out.   *)
(*                                                                         *)
(* A code is known by what it stands for: the time step of a secret, or    *)
(* the recovery codes of an enabling, of which one stands for all ten.     *)
(* A step outside the accepted window is a wrong code; within the window   *)
(* steps come in any order.                                                *)
(***************************************************************************)
EXTENDS Naturals

CONSTANTS
    Requests,     \* requests served at the same time
    Challenges,   \* challenge tokens
    NoChallenge,  \* a request outside a login
    MaxSecrets,   \* bound: secrets generated
    MaxStep,      \* bound: time steps
    MaxFailures   \* wrong codes a challenge takes (5 in the code)

ASSUME FactorsAssumption ==
    /\ NoChallenge \notin Challenges
    /\ {MaxSecrets, MaxStep} \subseteq Nat
    /\ MaxFailures \in Nat \ {0}

Secrets == 1..MaxSecrets
\* The factors of a secret: its time steps, and 0 for the recovery code.
Factor == [secret : Secrets, step : 0..MaxStep]

VARIABLES
    mfa,        \* the user_mfa row; secret 0 when there is none
    recovery,   \* mfa_recovery_codes, by the secret whose enabling made them
    secrets,    \* secrets generated so far
    challenge,  \* mfa_login_challenges
    request,    \* what each request is doing
    uses,       \* how often each factor was accepted
    signedIn    \* sessions issued for each challenge

factorsVars == <<mfa, recovery, secrets, challenge, request, uses, signedIn>>
enrolment == <<mfa, recovery, secrets>>

-----------------------------------------------------------------------------
(* Rows and requests *)

Mfa == [secret : 0..MaxSecrets, enabled : BOOLEAN, last : 0..MaxStep]
Challenge == [state : {"none", "live", "used"}, expired : BOOLEAN, failed : 0..MaxFailures]
Wrong == [secret |-> 0, step |-> 0]
Request == [pc : {"idle", "pending", "enable", "factor", "spend", "fail", "consume", "disable"},
            of : Challenges \cup {NoChallenge}, code : Factor \cup {Wrong}, disables : BOOLEAN]

NoMfa == [secret |-> 0, enabled |-> FALSE, last |-> 0]
IdleRequest == [pc |-> "idle", of |-> NoChallenge, code |-> Wrong, disables |-> FALSE]

InStep(r, pc) == request[r].pc = pc
Takes(r, q) == request' = [request EXCEPT ![r] = q]
Goes(r, pc) == Takes(r, [request[r] EXCEPT !.pc = pc])

\* verifyMfaFactor returned false: a login tells its challenge, the others are over.
Refused(r) == IF request[r].of = NoChallenge THEN Takes(r, IdleRequest) ELSE Goes(r, "fail")

\* verifyMfaFactor returned true: step-up is over, disabling and a login have a step to go.
Accepted(r) ==
    IF request[r].of # NoChallenge THEN Goes(r, "consume")
    ELSE IF request[r].disables THEN Goes(r, "disable") ELSE Takes(r, IdleRequest)

FactorsInit ==
    /\ mfa = NoMfa
    /\ recovery = [s \in Secrets |-> "none"]
    /\ secrets = 0
    /\ challenge = [c \in Challenges |-> [state |-> "none", expired |-> FALSE, failed |-> 0]]
    /\ request = [r \in Requests |-> IdleRequest]
    /\ uses = [f \in Factor |-> 0]
    /\ signedIn = [c \in Challenges |-> 0]

-----------------------------------------------------------------------------
(* Enrolment *)

\* enrollMfa up to the read of the row.
StartEnroll(r) ==
    /\ InStep(r, "idle")
    /\ ~ mfa.enabled
    /\ Goes(r, "pending")
    /\ UNCHANGED <<challenge, uses, signedIn>> /\ UNCHANGED enrolment

\* Mutant: the codes of an earlier enrolment are left behind.
SavePendingOnly(r) ==
    /\ InStep(r, "pending")
    /\ secrets < MaxSecrets
    /\ secrets' = secrets + 1
    /\ mfa' = [secret |-> secrets + 1, enabled |-> FALSE, last |-> 0]
    /\ Takes(r, IdleRequest)
    /\ UNCHANGED <<recovery, challenge, uses, signedIn>>

\* savePending, one transaction: a new secret, not enabled, and no recovery codes.
SavePending(r) ==
    /\ InStep(r, "pending")
    /\ secrets < MaxSecrets
    /\ secrets' = secrets + 1
    /\ mfa' = [secret |-> secrets + 1, enabled |-> FALSE, last |-> 0]
    /\ recovery' = [s \in Secrets |-> "none"]
    /\ Takes(r, IdleRequest)
    /\ UNCHANGED <<challenge, uses, signedIn>>

\* enableMfa up to the verified code of the secret that was read.
StartEnable(r) ==
    /\ InStep(r, "idle")
    /\ mfa.secret # 0 /\ ~ mfa.enabled
    /\ Goes(r, "enable")
    /\ UNCHANGED <<challenge, uses, signedIn>> /\ UNCHANGED enrolment

\* enable, one transaction: whatever secret the row has now, with codes of its own.
Enable(r) ==
    /\ InStep(r, "enable")
    /\ IF mfa.secret # 0 /\ ~ mfa.enabled
       THEN /\ mfa' = [mfa EXCEPT !.enabled = TRUE]
            /\ recovery' = [recovery EXCEPT ![mfa.secret] = "unused"]
       ELSE UNCHANGED <<mfa, recovery>>
    /\ Takes(r, IdleRequest)
    /\ UNCHANGED <<secrets, challenge, uses, signedIn>>

\* disableMfa's last step: in PostgreSQL the recovery codes and the challenges stay.
Disable(r) ==
    /\ InStep(r, "disable")
    /\ mfa' = NoMfa
    /\ Takes(r, IdleRequest)
    /\ UNCHANGED <<recovery, secrets, challenge, uses, signedIn>>

-----------------------------------------------------------------------------
(* Challenges *)

\* login with an enabled authenticator; no write between the read and the insert matters to either.
IssueChallenge(c) ==
    /\ mfa.enabled
    /\ challenge[c].state = "none"
    /\ challenge' = [challenge EXCEPT ![c].state = "live"]
    /\ UNCHANGED <<request, uses, signedIn>> /\ UNCHANGED enrolment

Expire(c) ==
    /\ challenge[c].state = "live" /\ ~ challenge[c].expired
    /\ challenge' = [challenge EXCEPT ![c].expired = TRUE]
    /\ UNCHANGED <<request, uses, signedIn>> /\ UNCHANGED enrolment

\* verifyMfaChallenge: the challenge is looked up, and the clock read once for all that follows.
StartVerify(r, c, code) ==
    /\ InStep(r, "idle")
    /\ challenge[c].state = "live" /\ ~ challenge[c].expired
    /\ Takes(r, [IdleRequest EXCEPT !.pc = "factor", !.of = c, !.code = code])
    /\ UNCHANGED <<challenge, uses, signedIn>> /\ UNCHANGED enrolment

\* disableMfa and requireRecentPassword, their password verified.
StartStepUp(r, code, disables) ==
    /\ InStep(r, "idle")
    /\ Takes(r, [IdleRequest EXCEPT !.pc = "factor", !.code = code, !.disables = disables])
    /\ UNCHANGED <<challenge, uses, signedIn>> /\ UNCHANGED enrolment

\* verifyMfaFactor up to the write: a recovery code needs no more than an enabled row.
CheckFactor(r) ==
    /\ InStep(r, "factor")
    /\ IF mfa.enabled /\ request[r].code # Wrong /\ (request[r].code.step = 0 \/ request[r].code.secret = mfa.secret)
       THEN Goes(r, "spend") ELSE Refused(r)
    /\ UNCHANGED <<challenge, uses, signedIn>> /\ UNCHANGED enrolment

\* acceptTotpStep credits the enrolment the row has now, consumeRecoveryCode the code that was shown.
Spends(r, f) ==
    /\ uses' = [uses EXCEPT ![f] = @ + 1]
    /\ Accepted(r)

\* Mutant: the step that was accepted last is accepted again.
SpendFactorTwice(r) ==
    LET code == request[r].code IN
    /\ InStep(r, "spend")
    /\ \/ /\ code.step # 0 /\ mfa.enabled /\ mfa.last <= code.step
          /\ mfa' = [mfa EXCEPT !.last = code.step]
          /\ Spends(r, [code EXCEPT !.secret = mfa.secret])
          /\ UNCHANGED recovery
       \/ /\ code.step = 0 /\ recovery[code.secret] = "unused"
          /\ recovery' = [recovery EXCEPT ![code.secret] = "used"]
          /\ Spends(r, code)
          /\ UNCHANGED mfa
    /\ UNCHANGED <<secrets, challenge, signedIn>>

\* The conditional updates of acceptTotpStep and consumeRecoveryCode.
SpendFactor(r) ==
    LET code == request[r].code
        fresh == IF code.step = 0 THEN recovery[code.secret] = "unused"
                 ELSE mfa.enabled /\ mfa.last < code.step IN
    /\ InStep(r, "spend")
    /\ \/ /\ fresh /\ code.step # 0
          /\ mfa' = [mfa EXCEPT !.last = code.step]
          /\ Spends(r, [code EXCEPT !.secret = mfa.secret])
          /\ UNCHANGED recovery
       \/ /\ fresh /\ code.step = 0
          /\ recovery' = [recovery EXCEPT ![code.secret] = "used"]
          /\ Spends(r, code)
          /\ UNCHANGED mfa
       \/ /\ ~ fresh
          /\ Refused(r)
          /\ UNCHANGED <<mfa, recovery, uses>>
    /\ UNCHANGED <<secrets, challenge, signedIn>>

\* failChallenge: counts, and uses the challenge up at the limit.
Fail(r) ==
    LET c == request[r].of
        n == challenge[c].failed + 1 IN
    /\ InStep(r, "fail")
    /\ challenge' = IF challenge[c].state # "live" THEN challenge
                    ELSE [challenge EXCEPT ![c].failed = n,
                                           ![c].state = IF n >= MaxFailures THEN "used" ELSE "live"]
    /\ Takes(r, IdleRequest)
    /\ UNCHANGED <<uses, signedIn>> /\ UNCHANGED enrolment

\* Mutant: a challenge that was found is taken to be still good.
ConsumeFound(r) ==
    LET c == request[r].of IN
    /\ InStep(r, "consume")
    /\ challenge' = [challenge EXCEPT ![c].state = "used"]
    /\ signedIn' = [signedIn EXCEPT ![c] = @ + 1]
    /\ Takes(r, IdleRequest)
    /\ UNCHANGED uses /\ UNCHANGED enrolment

\* consumeChallenge, and the session that follows it.
Consume(r) ==
    LET c == request[r].of IN
    /\ InStep(r, "consume")
    /\ IF challenge[c].state = "live"
       THEN /\ challenge' = [challenge EXCEPT ![c].state = "used"]
            /\ signedIn' = [signedIn EXCEPT ![c] = @ + 1]
       ELSE UNCHANGED <<challenge, signedIn>>
    /\ Takes(r, IdleRequest)
    /\ UNCHANGED uses /\ UNCHANGED enrolment

\* A statement fails or the process ends: what is spent stays spent.
RequestFails(r) ==
    /\ ~ InStep(r, "idle")
    /\ Takes(r, IdleRequest)
    /\ UNCHANGED <<challenge, uses, signedIn>> /\ UNCHANGED enrolment

FactorsNext ==
    \/ \E c \in Challenges : IssueChallenge(c) \/ Expire(c)
    \/ \E r \in Requests :
         \/ StartEnroll(r) \/ SavePending(r) \/ StartEnable(r) \/ Enable(r) \/ Disable(r)
         \/ \E code \in Factor \cup {Wrong} :
              \/ \E c \in Challenges : StartVerify(r, c, code)
              \/ \E disables \in BOOLEAN : StartStepUp(r, code, disables)
         \/ CheckFactor(r) \/ SpendFactor(r) \/ Fail(r) \/ Consume(r)
         \/ RequestFails(r)

FactorsSpec == FactorsInit /\ [][FactorsNext]_factorsVars

-----------------------------------------------------------------------------
(* Properties *)

\* Every variable keeps its type; the failures of a challenge keep its CHECK constraint.
FactorsTypeOK ==
    /\ mfa \in Mfa
    /\ recovery \in [Secrets -> {"none", "unused", "used"}]
    /\ secrets \in 0..MaxSecrets
    /\ challenge \in [Challenges -> Challenge]
    /\ request \in [Requests -> Request]
    /\ uses \in [Factor -> Nat]
    /\ signedIn \in [Challenges -> Nat]

\* consumeChallenge against failChallenge and itself, acceptTotpStep and consumeRecoveryCode: of all
\* requests that verify a challenge at the same time one signs in at most, and none once the failures have
\* used it up; a time step of an enrolment and a recovery code are accepted once, however many logins,
\* step-ups and disablings show them together.
FactorOnce ==
    /\ \A c \in Challenges : signedIn[c] + (IF challenge[c].failed = MaxFailures THEN 1 ELSE 0) <= 1
    /\ \A f \in Factor : uses[f] <= 1

\* savePending deletes what disable leaves behind: while an authenticator is enabled, the recovery
\* codes on file are those its own enabling created.
CodesOfEnrolment == mfa.enabled => \A s \in Secrets : recovery[s] # "none" => s = mfa.secret

=============================================================================
