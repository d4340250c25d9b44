---------------------------- MODULE AccessProofs ----------------------------
(***************************************************************************)
(* Proofs about who is let in, for any number of requests, users, secrets, *)
(* ceremonies, passwords and failures.  Factors, Passkeys, Registrations,  *)
(* Lockout and Throttle share no state, so each has an invariant of its    *)
(* own.                                                                    *)
(***************************************************************************)
EXTENDS Factors, Passkeys, Registrations, Lockout, Throttle, FiniteSetTheorems, SequenceTheorems, TLAPS

-----------------------------------------------------------------------------
(* Factors: the invariant *)

\* The secret of the row is one that was generated, and the recovery codes on file are those of the
\* enabled row, unless there is no row.
EnrolmentInv ==
    /\ mfa.secret <= secrets
    /\ mfa.enabled => mfa.secret # 0
    /\ \A s \in Secrets : recovery[s] # "none" => s <= secrets
    /\ mfa.secret # 0 => \A s \in Secrets : recovery[s] # "none" => s = mfa.secret /\ mfa.enabled

\* A factor that the conditional updates would take has not been accepted: one of a secret to come, a
\* step after the last one, a code that is unused or will be.
SpentInv ==
    \A f \in Factor :
       /\ f.secret > secrets => uses[f] = 0
       /\ f.secret = mfa.secret /\ f.step > mfa.last => uses[f] = 0
       /\ f.secret = mfa.secret /\ f.step = 0 /\ ~ mfa.enabled => uses[f] = 0
       /\ f.step = 0 /\ recovery[f.secret] = "unused" => uses[f] = 0
       /\ uses[f] <= 1

\* Nobody has signed in with a challenge that is not used, nor has it failed too often.
ChallengeInv ==
    \A c \in Challenges :
       /\ challenge[c].state # "used" => signedIn[c] = 0 /\ challenge[c].failed # MaxFailures
       /\ signedIn[c] = 0 \/ (signedIn[c] = 1 /\ challenge[c].failed # MaxFailures)

\* A request that spends shows a factor; one that fails or consumes a challenge has one.
Shows(q) ==
    /\ q.pc = "spend" => q.code \in Factor
    /\ q.pc \in {"fail", "consume"} => q.of \in Challenges
RequestInv == \A r \in Requests : Shows(request[r])

FactorsInv == FactorsTypeOK /\ EnrolmentInv /\ SpentInv /\ ChallengeInv /\ RequestInv

\* Where a request may be, and what a step may turn it to.
Pcs == {"idle", "pending", "enable", "factor", "spend", "fail", "consume", "disable"}
Turned(r, q) == Takes(r, q) /\ q \in Request /\ Shows(q)

-----------------------------------------------------------------------------
(* Requests *)

\* A request that goes on keeps its challenge and its code.
LEMMA GoesFields ==
  ASSUME FactorsTypeOK, NEW r \in Requests, NEW pc \in Pcs
  PROVE  LET q == [request[r] EXCEPT !.pc = pc] IN
         q \in Request /\ q.pc = pc /\ q.of = request[r].of /\ q.code = request[r].code
<1>1. request[r] \in Request
  BY DEF FactorsTypeOK
<1> QED
  BY <1>1 DEF Request, Pcs

\* An idle request shows nothing.
LEMMA IdleTypes == IdleRequest \in Request /\ IdleRequest.pc = "idle"
  BY DEF IdleRequest, Request

\* A new request to verify a factor.
LEMMA FactorTypes ==
  ASSUME NEW code \in Factor \cup {Wrong}, NEW d \in BOOLEAN
  PROVE  /\ \A c \in Challenges :
              LET q == [IdleRequest EXCEPT !.pc = "factor", !.of = c, !.code = code] IN
              q \in Request /\ q.pc = "factor"
         /\ LET q == [IdleRequest EXCEPT !.pc = "factor", !.code = code, !.disables = d] IN
              q \in Request /\ q.pc = "factor"
  BY DEF IdleRequest, Request

\* A refused request ends or tells its challenge.
LEMMA RefusedTurns ==
  ASSUME FactorsTypeOK, NEW r \in Requests, Refused(r)
  PROVE  \E q : Turned(r, q)
<1>1. CASE request[r].of = NoChallenge
  BY <1>1, IdleTypes DEF Refused, Turned, Shows
<1>2. CASE request[r].of # NoChallenge
  <2> DEFINE q == [request[r] EXCEPT !.pc = "fail"]
  <2>1. q \in Request /\ q.pc = "fail" /\ q.of = request[r].of
    BY GoesFields DEF Pcs
  <2>2. request[r].of \in Challenges
    BY <1>2 DEF FactorsTypeOK, Request
  <2>3. Takes(r, q)
    BY <1>2 DEF Refused, Goes
  <2> HIDE DEF q
  <2> QED
    BY <2>1, <2>2, <2>3 DEF Turned, Shows
<1> QED
  BY <1>1, <1>2

\* An accepted request ends, consumes its challenge or disables.
LEMMA AcceptedTurns ==
  ASSUME FactorsTypeOK, NEW r \in Requests, Accepted(r)
  PROVE  \E q : Turned(r, q)
<1>1. CASE request[r].of # NoChallenge
  <2> DEFINE q == [request[r] EXCEPT !.pc = "consume"]
  <2>1. q \in Request /\ q.pc = "consume" /\ q.of = request[r].of
    BY GoesFields DEF Pcs
  <2>2. request[r].of \in Challenges
    BY <1>1 DEF FactorsTypeOK, Request
  <2>3. Takes(r, q)
    BY <1>1 DEF Accepted, Goes
  <2> HIDE DEF q
  <2> QED
    BY <2>1, <2>2, <2>3 DEF Turned, Shows
<1>2. CASE request[r].of = NoChallenge /\ request[r].disables
  <2> DEFINE q == [request[r] EXCEPT !.pc = "disable"]
  <2>1. q \in Request /\ q.pc = "disable"
    BY GoesFields DEF Pcs
  <2>2. Takes(r, q)
    BY <1>2 DEF Accepted, Goes
  <2> HIDE DEF q
  <2> QED
    BY <2>1, <2>2 DEF Turned, Shows
<1>3. CASE request[r].of = NoChallenge /\ ~ request[r].disables
  BY <1>3, IdleTypes DEF Accepted, Turned, Shows
<1> QED
  BY <1>1, <1>2, <1>3

\* Every step leaves the requests alone, or turns one of them to something it can be.
LEMMA StepTurns ==
  ASSUME FactorsTypeOK, [FactorsNext]_factorsVars
  PROVE  request' = request \/ \E r \in Requests : \E q : Turned(r, q)
<1>1. ASSUME NEW r \in Requests, Takes(r, IdleRequest)
      PROVE  \E q : Turned(r, q)
  BY <1>1, IdleTypes DEF Turned, Shows
<1>2. ASSUME NEW r \in Requests, NEW pc \in {"pending", "enable"}, Goes(r, pc)
      PROVE  \E q : Turned(r, q)
  <2> DEFINE q == [request[r] EXCEPT !.pc = pc]
  <2>1. q \in Request /\ q.pc = pc
    <3>1. pc \in Pcs
      BY DEF Pcs
    <3> QED
      BY <3>1, GoesFields
  <2>2. Takes(r, q)
    BY <1>2 DEF Goes
  <2> HIDE DEF q
  <2> QED
    BY <2>1, <2>2 DEF Turned, Shows
<1>3. ASSUME NEW r \in Requests, CheckFactor(r)
      PROVE  \E q : Turned(r, q)
  <2>1. CASE Refused(r)
    BY <2>1, RefusedTurns
  <2>2. CASE Goes(r, "spend") /\ request[r].code # Wrong
    <3> DEFINE q == [request[r] EXCEPT !.pc = "spend"]
    <3>1. q \in Request /\ q.pc = "spend" /\ q.code = request[r].code
      <4>1. "spend" \in Pcs
        BY DEF Pcs
      <4> QED
        BY <4>1, GoesFields
    <3>2. request[r].code \in Factor
      BY <2>2 DEF FactorsTypeOK, Request
    <3>3. Takes(r, q)
      BY <2>2 DEF Goes
    <3> HIDE DEF q
    <3> QED
      BY <3>1, <3>2, <3>3 DEF Turned, Shows
  <2> QED
    BY <1>3, <2>1, <2>2 DEF CheckFactor
<1>4. ASSUME NEW r \in Requests, SpendFactor(r)
      PROVE  \E q : Turned(r, q)
  <2>1. Accepted(r) \/ Refused(r)
    BY <1>4 DEF SpendFactor, Spends
  <2> QED
    BY <2>1, AcceptedTurns, RefusedTurns
<1>5. ASSUME NEW r \in Requests, NEW c \in Challenges, NEW code \in Factor \cup {Wrong},
             StartVerify(r, c, code)
      PROVE  \E q : Turned(r, q)
  <2> DEFINE q == [IdleRequest EXCEPT !.pc = "factor", !.of = c, !.code = code]
  <2>1. Takes(r, q)
    BY <1>5 DEF StartVerify
  <2>2. q \in Request /\ q.pc = "factor"
    BY FactorTypes
  <2> HIDE DEF q
  <2> QED
    BY <2>1, <2>2 DEF Turned, Shows
<1>6. ASSUME NEW r \in Requests, NEW code \in Factor \cup {Wrong}, NEW d \in BOOLEAN,
             StartStepUp(r, code, d)
      PROVE  \E q : Turned(r, q)
  <2> DEFINE q == [IdleRequest EXCEPT !.pc = "factor", !.code = code, !.disables = d]
  <2>1. Takes(r, q)
    BY <1>6 DEF StartStepUp
  <2>2. q \in Request /\ q.pc = "factor"
    BY FactorTypes
  <2> HIDE DEF q
  <2> QED
    BY <2>1, <2>2 DEF Turned, Shows
<1> QED
  BY <1>1, <1>2, <1>3, <1>4, <1>5, <1>6 DEF FactorsNext, factorsVars, IssueChallenge, Expire, StartEnroll,
     SavePending, StartEnable, Enable, Disable, Fail, Consume, RequestFails

-----------------------------------------------------------------------------
(* The invariant, part by part *)

\* The requests keep their types, and what they show.
LEMMA StepRequests ==
  ASSUME FactorsTypeOK, RequestInv, [FactorsNext]_factorsVars
  PROVE  request' \in [Requests -> Request] /\ RequestInv'
<1>1. CASE request' = request
  BY <1>1 DEF RequestInv, FactorsTypeOK
<1>2. ASSUME NEW r \in Requests, NEW q, Turned(r, q)
      PROVE  request' \in [Requests -> Request] /\ RequestInv'
  BY <1>2 DEF Turned, Takes, RequestInv, FactorsTypeOK
<1> QED
  BY <1>1, <1>2, StepTurns

\* The rows keep their types.
LEMMA StepTypes ==
  ASSUME FactorsTypeOK, EnrolmentInv, RequestInv, ChallengeInv, [FactorsNext]_factorsVars
  PROVE  FactorsTypeOK'
<1> USE FactorsAssumption DEF FactorsTypeOK
<1>1. request' \in [Requests -> Request]
  BY StepRequests
<1>2. CASE UNCHANGED <<enrolment, challenge, uses, signedIn>>
  BY <1>1, <1>2 DEF enrolment
<1>3. ASSUME NEW r \in Requests, SavePending(r)
      PROVE  FactorsTypeOK'
  BY <1>1, <1>3 DEF SavePending, Mfa
<1>4. ASSUME NEW r \in Requests, Enable(r)
      PROVE  FactorsTypeOK'
  <2>1. mfa' \in Mfa
    <3>1. [mfa EXCEPT !.enabled = TRUE] \in Mfa
      BY DEF Mfa
    <3> QED
      BY <1>4, <3>1 DEF Enable
  <2>2. recovery' \in [Secrets -> {"none", "unused", "used"}]
    BY <1>4 DEF Enable
  <2> QED
    BY <1>1, <1>4, <2>1, <2>2 DEF Enable
<1>5. ASSUME NEW r \in Requests, Disable(r)
      PROVE  FactorsTypeOK'
  BY <1>1, <1>5 DEF Disable, NoMfa, Mfa
<1>6. ASSUME NEW c \in Challenges, IssueChallenge(c) \/ Expire(c)
      PROVE  FactorsTypeOK'
  <2>1. challenge' \in [Challenges -> Challenge]
    <3>1. CASE IssueChallenge(c)
      <4>1. [challenge[c] EXCEPT !.state = "live"] \in Challenge
        BY DEF Challenge
      <4> QED
        BY <3>1, <4>1 DEF IssueChallenge
    <3>2. CASE Expire(c)
      <4>1. [challenge[c] EXCEPT !.expired = TRUE] \in Challenge
        BY DEF Challenge
      <4> QED
        BY <3>2, <4>1 DEF Expire
    <3> QED
      BY <1>6, <3>1, <3>2
  <2> QED
    BY <1>1, <1>6, <2>1 DEF IssueChallenge, Expire, enrolment
<1>7. ASSUME NEW r \in Requests, SpendFactor(r)
      PROVE  FactorsTypeOK'
  <2> DEFINE code == request[r].code
  <2>1. code \in Factor /\ code.step \in 0..MaxStep
    BY <1>7 DEF SpendFactor, InStep, RequestInv, Shows, Factor
  <2>2. mfa' \in Mfa
    BY <1>7, <2>1 DEF SpendFactor, Mfa
  <2>3. recovery' \in [Secrets -> {"none", "unused", "used"}]
    BY <1>7, <2>1 DEF SpendFactor
  <2>4. uses' \in [Factor -> Nat]
    <3>1. ASSUME NEW f \in Factor, uses' = [uses EXCEPT ![f] = @ + 1]
          PROVE  uses' \in [Factor -> Nat]
      <4>1. uses[f] + 1 \in Nat
        OBVIOUS
      <4> QED
        BY <3>1, <4>1
    <3>2. mfa.enabled => [code EXCEPT !.secret = mfa.secret] \in Factor
      <4>1. mfa.enabled => mfa.secret \in Secrets
        BY DEF EnrolmentInv, Mfa, Secrets
      <4> QED
        BY <2>1, <4>1 DEF Factor
    <3>3. code.step # 0 /\ uses' # uses => mfa.enabled
      BY <1>7 DEF SpendFactor
    <3>4. uses' = uses \/ \E f \in Factor : uses' = [uses EXCEPT ![f] = @ + 1]
      BY <1>7, <2>1, <3>2, <3>3 DEF SpendFactor, Spends
    <3> QED
      BY <3>1, <3>4
  <2> QED
    BY <1>1, <1>7, <2>2, <2>3, <2>4 DEF SpendFactor
<1>8. ASSUME NEW r \in Requests, Fail(r)
      PROVE  FactorsTypeOK'
  <2> DEFINE c == request[r].of
  <2>1. c \in Challenges
    BY <1>8 DEF Fail, InStep, RequestInv, Shows
  <2>2. challenge[c] \in Challenge /\ (challenge[c].state = "live" => challenge[c].failed < MaxFailures)
    <3>1. challenge[c] \in Challenge
      BY <2>1
    <3>2. challenge[c].failed \in 0..MaxFailures
      BY <3>1 DEF Challenge
    <3>3. challenge[c].state # "used" => challenge[c].failed # MaxFailures
      BY <2>1 DEF ChallengeInv
    <3> QED
      BY <3>1, <3>2, <3>3
  <2>3. challenge' \in [Challenges -> Challenge]
    BY <1>8, <2>1, <2>2 DEF Fail, Challenge
  <2> QED
    BY <1>1, <1>8, <2>3 DEF Fail, enrolment
<1>9. ASSUME NEW r \in Requests, Consume(r)
      PROVE  FactorsTypeOK'
  <2> DEFINE c == request[r].of
  <2>1. challenge' \in [Challenges -> Challenge]
    <3>1. ASSUME NEW d \in Challenges
          PROVE  [challenge[d] EXCEPT !.state = "used"] \in Challenge
      BY DEF Challenge
    <3>2. challenge' = challenge \/ challenge' = [challenge EXCEPT ![c] = [challenge[c] EXCEPT !.state = "used"]]
      BY <1>9 DEF Consume
    <3> QED
      BY <3>1, <3>2
  <2>2. signedIn' \in [Challenges -> Nat]
    BY <1>9 DEF Consume
  <2> QED
    BY <1>1, <1>9, <2>1, <2>2 DEF Consume, enrolment
<1> QED
  BY <1>2, <1>3, <1>4, <1>5, <1>6, <1>7, <1>8, <1>9 DEF FactorsNext, factorsVars, StartEnroll, StartEnable,
     StartVerify, StartStepUp, CheckFactor, RequestFails, enrolment

\* The row, its secret and its codes stay together.
LEMMA StepEnrolment ==
  ASSUME FactorsInv, [FactorsNext]_factorsVars
  PROVE  EnrolmentInv'
<1> USE FactorsAssumption DEF FactorsInv, EnrolmentInv, FactorsTypeOK
<1>1. CASE UNCHANGED enrolment
  BY <1>1 DEF enrolment
<1>2. ASSUME NEW r \in Requests, SavePending(r)
      PROVE  EnrolmentInv'
  BY <1>2 DEF SavePending
<1>3. ASSUME NEW r \in Requests, Enable(r)
      PROVE  EnrolmentInv'
  <2>1. CASE mfa.secret # 0 /\ ~ mfa.enabled
    <3>1. mfa' = [mfa EXCEPT !.enabled = TRUE] /\ mfa \in Mfa
      BY <1>3, <2>1 DEF Enable
    <3>2. mfa'.secret = mfa.secret /\ mfa'.enabled
      BY <3>1 DEF Mfa
    <3>3. mfa.secret \in Secrets /\ mfa.secret <= secrets
      BY <2>1, <3>1 DEF Mfa, Secrets
    <3>4. \A s \in Secrets : recovery'[s] # "none" => s = mfa.secret
      BY <1>3, <2>1 DEF Enable
    <3> QED
      BY <1>3, <2>1, <3>2, <3>3, <3>4 DEF Enable
  <2>2. CASE ~ (mfa.secret # 0 /\ ~ mfa.enabled)
    BY <1>3, <2>2 DEF Enable
  <2> QED
    BY <2>1, <2>2
<1>4. ASSUME NEW r \in Requests, Disable(r)
      PROVE  EnrolmentInv'
  BY <1>4 DEF Disable, NoMfa
<1>5. ASSUME NEW r \in Requests, SpendFactor(r)
      PROVE  EnrolmentInv'
  <2>1. mfa'.secret = mfa.secret /\ mfa'.enabled = mfa.enabled
    BY <1>5 DEF SpendFactor, Mfa
  <2>2. \A s \in Secrets : recovery'[s] # "none" => recovery[s] # "none"
    BY <1>5 DEF SpendFactor
  <2> QED
    BY <1>5, <2>1, <2>2 DEF SpendFactor
<1> QED
  BY <1>1, <1>2, <1>3, <1>4, <1>5 DEF FactorsNext, factorsVars, enrolment, StartEnroll, StartEnable,
     StartVerify, StartStepUp, CheckFactor, RequestFails, IssueChallenge, Expire, Fail, Consume

\* What the conditional updates still take has not been accepted.
LEMMA StepSpent ==
  ASSUME FactorsInv, [FactorsNext]_factorsVars
  PROVE  SpentInv'
<1> USE FactorsAssumption DEF FactorsInv
<1>1. \A f \in Factor : f.secret \in Secrets /\ f.step \in 0..MaxStep
  BY DEF Factor
<1>2. mfa.secret \in 0..MaxSecrets /\ mfa.last \in 0..MaxStep /\ secrets \in 0..MaxSecrets
  BY DEF FactorsTypeOK, Mfa
<1>3. CASE UNCHANGED <<enrolment, uses>>
  BY <1>3 DEF SpentInv, enrolment
<1>4. ASSUME NEW r \in Requests, SavePending(r)
      PROVE  SpentInv'
  <2>1. /\ mfa'.secret = secrets + 1 /\ secrets' = secrets + 1 /\ uses' = uses
        /\ \A s \in Secrets : recovery'[s] = "none"
    BY <1>4 DEF SavePending
  <2>2. \A f \in Factor : f.secret >= secrets + 1 => uses[f] = 0
    BY <1>1, <1>2 DEF SpentInv, Secrets
  <2> QED
    BY <1>1, <1>2, <2>1, <2>2 DEF SpentInv, Secrets
<1>5. ASSUME NEW r \in Requests, Enable(r)
      PROVE  SpentInv'
  <2>1. CASE mfa.secret # 0 /\ ~ mfa.enabled
    <3>1. /\ mfa'.secret = mfa.secret /\ mfa'.last = mfa.last /\ mfa'.enabled
          /\ UNCHANGED <<secrets, uses>>
      BY <1>5, <2>1 DEF Enable, FactorsTypeOK, Mfa
    <3>2. \A s \in Secrets : s # mfa.secret => recovery'[s] = recovery[s]
      BY <1>5, <2>1 DEF Enable, FactorsTypeOK
    <3> QED
      BY <1>1, <2>1, <3>1, <3>2 DEF SpentInv
  <2>2. CASE ~ (mfa.secret # 0 /\ ~ mfa.enabled)
    BY <1>5, <2>2 DEF Enable, SpentInv
  <2> QED
    BY <2>1, <2>2
<1>6. ASSUME NEW r \in Requests, Disable(r)
      PROVE  SpentInv'
  <2>1. mfa'.secret = 0 /\ UNCHANGED <<recovery, secrets, uses>>
    BY <1>6 DEF Disable, NoMfa
  <2>2. \A f \in Factor : f.secret # 0
    BY <1>1 DEF Secrets
  <2> QED
    BY <2>1, <2>2 DEF SpentInv
<1>7. ASSUME NEW r \in Requests, SpendFactor(r)
      PROVE  SpentInv'
  <2> DEFINE code == request[r].code
  <2>1. code \in Factor
    BY <1>7 DEF SpendFactor, InStep, RequestInv, Shows
  <2>2. CASE code.step # 0 /\ mfa.enabled /\ mfa.last < code.step /\ mfa' = [mfa EXCEPT !.last = code.step]
             /\ uses' = [uses EXCEPT ![[code EXCEPT !.secret = mfa.secret]] = @ + 1] /\ recovery' = recovery
    <3> DEFINE g == [code EXCEPT !.secret = mfa.secret]
    <3>1. mfa.secret \in Secrets
      BY <1>2, <2>2 DEF EnrolmentInv, Secrets
    <3>2. g \in Factor /\ g.secret = mfa.secret /\ g.step = code.step
      BY <2>1, <3>1 DEF Factor
    <3>3. mfa'.secret = mfa.secret /\ mfa'.enabled /\ mfa'.last = code.step
      BY <2>2 DEF FactorsTypeOK, Mfa
    <3>4. uses' = [uses EXCEPT ![g] = @ + 1]
      BY <2>2
    <3>5. secrets' = secrets /\ code.step \in 0..MaxStep
      BY <1>1, <1>7, <2>1 DEF SpendFactor
    <3> HIDE DEF g, code
    <3>6. uses[g] = 0
      BY <1>2, <2>2, <3>2, <3>5 DEF SpentInv
    <3>7. uses'[g] = 1 /\ \A f \in Factor : f # g => uses'[f] = uses[f]
      BY <3>2, <3>4, <3>6 DEF FactorsTypeOK
    <3>8. g.secret <= secrets /\ mfa.secret <= secrets
      BY <3>2 DEF EnrolmentInv
    <3>9. ASSUME NEW f \in Factor
          PROVE  /\ f.secret > secrets' => uses'[f] = 0
                 /\ f.secret = mfa'.secret /\ f.step > mfa'.last => uses'[f] = 0
                 /\ f.secret = mfa'.secret /\ f.step = 0 /\ ~ mfa'.enabled => uses'[f] = 0
                 /\ f.step = 0 /\ recovery'[f.secret] = "unused" => uses'[f] = 0
                 /\ uses'[f] <= 1
      <4>1. CASE f = g
        BY <1>2, <2>2, <3>2, <3>3, <3>5, <3>7, <3>8, <4>1
      <4>2. CASE f # g
        <5>1. uses'[f] = uses[f]
          BY <3>7, <4>2
        <5>2. f.step > code.step => f.step > mfa.last
          BY <1>1, <1>2, <2>2, <3>5
        <5> QED
          BY <2>2, <3>3, <3>5, <5>1, <5>2 DEF SpentInv
      <4> QED
        BY <4>1, <4>2
    <3> QED
      BY <3>9 DEF SpentInv
  <2>3. CASE code.step = 0 /\ recovery[code.secret] = "unused" /\ mfa' = mfa
             /\ recovery' = [recovery EXCEPT ![code.secret] = "used"]
             /\ uses' = [uses EXCEPT ![code] = @ + 1]
    <3> HIDE DEF code
    <3>1. secrets' = secrets /\ code.secret \in Secrets
      BY <1>1, <1>7, <2>1 DEF SpendFactor
    <3>2. uses[code] = 0
      BY <2>1, <2>3 DEF SpentInv
    <3>3. uses'[code] = 1 /\ \A f \in Factor : f # code => uses'[f] = uses[f]
      BY <2>1, <2>3, <3>2 DEF FactorsTypeOK
    <3>4. recovery'[code.secret] = "used"
          /\ \A s \in Secrets : recovery'[s] = "unused" => recovery[s] = "unused"
      BY <2>3, <3>1 DEF FactorsTypeOK
    <3>5. code.secret <= secrets /\ (code.secret = mfa.secret => mfa.enabled)
      BY <2>3, <3>1 DEF EnrolmentInv, Secrets
    <3>6. ASSUME NEW f \in Factor
          PROVE  /\ f.secret > secrets' => uses'[f] = 0
                 /\ f.secret = mfa'.secret /\ f.step > mfa'.last => uses'[f] = 0
                 /\ f.secret = mfa'.secret /\ f.step = 0 /\ ~ mfa'.enabled => uses'[f] = 0
                 /\ f.step = 0 /\ recovery'[f.secret] = "unused" => uses'[f] = 0
                 /\ uses'[f] <= 1
      <4>1. CASE f = code
        BY <1>2, <2>3, <3>1, <3>3, <3>4, <3>5, <4>1 DEF Secrets
      <4>2. CASE f # code
        BY <1>1, <2>3, <3>1, <3>3, <3>4, <4>2 DEF SpentInv
      <4> QED
        BY <4>1, <4>2
    <3> QED
      BY <3>6 DEF SpentInv
  <2>4. CASE UNCHANGED <<mfa, recovery, uses>>
    BY <1>7, <2>4 DEF SpendFactor, SpentInv
  <2> QED
    BY <1>7, <2>2, <2>3, <2>4 DEF SpendFactor, Spends
<1> QED
  BY <1>3, <1>4, <1>5, <1>6, <1>7 DEF FactorsNext, factorsVars, enrolment, StartEnroll, StartEnable,
     StartVerify, StartStepUp, CheckFactor, RequestFails, IssueChallenge, Expire, Fail, Consume

\* A challenge signs in once, or fails too often, and is used then.
LEMMA StepChallenge ==
  ASSUME FactorsInv, [FactorsNext]_factorsVars
  PROVE  ChallengeInv'
<1> USE FactorsAssumption DEF FactorsInv
<1>1. \A c \in Challenges : challenge[c].failed \in 0..MaxFailures
  BY DEF FactorsTypeOK, Challenge
<1>2. CASE UNCHANGED <<challenge, signedIn>>
  BY <1>2 DEF ChallengeInv
<1>3. ASSUME NEW c \in Challenges, IssueChallenge(c) \/ Expire(c)
      PROVE  ChallengeInv'
  <2>1. challenge[c].state # "used" /\ signedIn' = signedIn
    BY <1>3 DEF IssueChallenge, Expire
  <2>2. /\ \A d \in Challenges : challenge'[d].failed = challenge[d].failed
        /\ \A d \in Challenges : challenge'[d].state # challenge[d].state => d = c
    BY <1>3 DEF IssueChallenge, Expire, FactorsTypeOK, Challenge
  <2> QED
    BY <2>1, <2>2 DEF ChallengeInv
<1>4. ASSUME NEW r \in Requests, Fail(r)
      PROVE  ChallengeInv'
  <2> DEFINE c == request[r].of
             n == challenge[c].failed + 1
             q == [challenge[c] EXCEPT !.failed = n, !.state = IF n >= MaxFailures THEN "used" ELSE "live"]
  <2>1. c \in Challenges
    BY <1>4 DEF Fail, InStep, RequestInv, Shows
  <2>2. signedIn' = signedIn
    BY <1>4 DEF Fail
  <2>3. CASE challenge' = challenge
    BY <2>2, <2>3 DEF ChallengeInv
  <2>4. CASE challenge[c].state = "live" /\ challenge' = [challenge EXCEPT ![c] = q]
    <3>1. q.failed = n /\ q.state = IF n >= MaxFailures THEN "used" ELSE "live"
      BY <2>1 DEF FactorsTypeOK, Challenge
    <3>2. challenge[c].failed \in Nat /\ signedIn[c] = 0
      BY <1>1, <2>1, <2>4 DEF ChallengeInv
    <3> HIDE DEF c, q
    <3>3. challenge'[c] = q /\ \A d \in Challenges : d # c => challenge'[d] = challenge[d]
      BY <2>1, <2>4 DEF FactorsTypeOK
    <3>4. q.state # "used" => q.failed # MaxFailures
      BY <3>1, <3>2
    <3> HIDE DEF n
    <3> QED
      BY <2>2, <3>2, <3>3, <3>4 DEF ChallengeInv
  <2>5. challenge' = challenge \/ (challenge[c].state = "live" /\ challenge' = [challenge EXCEPT ![c] = q])
    BY <1>4, <2>1 DEF Fail, FactorsTypeOK
  <2> QED
    BY <2>3, <2>4, <2>5
<1>5. ASSUME NEW r \in Requests, Consume(r)
      PROVE  ChallengeInv'
  <2> DEFINE c == request[r].of
  <2>1. c \in Challenges
    BY <1>5 DEF Consume, InStep, RequestInv, Shows
  <2>2. CASE UNCHANGED <<challenge, signedIn>>
    BY <2>2 DEF ChallengeInv
  <2>3. CASE challenge[c].state = "live" /\ challenge' = [challenge EXCEPT ![c].state = "used"]
             /\ signedIn' = [signedIn EXCEPT ![c] = @ + 1]
    <3> HIDE DEF c
    <3>1. signedIn[c] = 0 /\ challenge[c].failed # MaxFailures
      BY <2>1, <2>3 DEF ChallengeInv
    <3>2. signedIn'[c] = 1 /\ \A d \in Challenges : d # c => signedIn'[d] = signedIn[d]
      BY <2>1, <2>3, <3>1 DEF FactorsTypeOK
    <3>3. /\ challenge'[c].state = "used" /\ challenge'[c].failed = challenge[c].failed
          /\ \A d \in Challenges : d # c => challenge'[d] = challenge[d]
      BY <2>1, <2>3 DEF FactorsTypeOK, Challenge
    <3> QED
      BY <3>1, <3>2, <3>3 DEF ChallengeInv
  <2> QED
    BY <1>5, <2>2, <2>3 DEF Consume
<1> QED
  BY <1>2, <1>3, <1>4, <1>5 DEF FactorsNext, factorsVars, enrolment, StartEnroll, SavePending, StartEnable,
     Enable, Disable, StartVerify, StartStepUp, CheckFactor, SpendFactor, RequestFails

-----------------------------------------------------------------------------
(* The theorems *)

LEMMA FactorsInductive == FactorsSpec => []FactorsInv
<1>1. FactorsInit => FactorsInv
  <2> SUFFICES ASSUME FactorsInit
               PROVE  FactorsInv
    OBVIOUS
  <2> USE FactorsAssumption DEF FactorsInit
  <2>1. FactorsTypeOK
    BY IdleTypes DEF FactorsTypeOK, NoMfa, Mfa, Challenge
  <2>2. EnrolmentInv /\ SpentInv /\ RequestInv
    BY IdleTypes DEF EnrolmentInv, SpentInv, RequestInv, NoMfa, Shows, Factor
  <2>3. ChallengeInv
    BY DEF ChallengeInv
  <2> QED
    BY <2>1, <2>2, <2>3 DEF FactorsInv
<1>2. FactorsInv /\ [FactorsNext]_factorsVars => FactorsInv'
  BY StepTypes, StepRequests, StepEnrolment, StepSpent, StepChallenge DEF FactorsInv
<1> QED
  BY <1>1, <1>2, PTL DEF FactorsSpec

\* Type correctness of the second factor's rows, challenges and requests.
THEOREM FactorsTypeCorrect == FactorsSpec => []FactorsTypeOK
<1>1. FactorsInv => FactorsTypeOK
  BY DEF FactorsInv
<1> QED
  BY <1>1, FactorsInductive, PTL

\* consumeChallenge, failChallenge, acceptTotpStep and consumeRecoveryCode: a challenge signs in once at
\* most and never after its last failure, a time step or a recovery code is accepted once, for any
\* number of requests, challenges, secrets and failures.
THEOREM FactorsOnce == FactorsSpec => []FactorOnce
<1>1. FactorsInv => FactorOnce
  <2> SUFFICES ASSUME FactorsInv
               PROVE  FactorOnce
    OBVIOUS
  <2>1. ASSUME NEW c \in Challenges
        PROVE  signedIn[c] + (IF challenge[c].failed = MaxFailures THEN 1 ELSE 0) <= 1
    BY DEF FactorsInv, ChallengeInv
  <2>2. \A f \in Factor : uses[f] <= 1
    BY DEF FactorsInv, SpentInv
  <2> QED
    BY <2>1, <2>2 DEF FactorOnce
<1> QED
  BY <1>1, FactorsInductive, PTL

\* savePending and disable: the recovery codes on file of an enabled authenticator are its own.
THEOREM CodesAreOfEnrolment == FactorsSpec => []CodesOfEnrolment
<1>1. FactorsInv => CodesOfEnrolment
  BY DEF FactorsInv, EnrolmentInv, CodesOfEnrolment
<1> QED
  BY <1>1, FactorsInductive, PTL

-----------------------------------------------------------------------------
(* Passkeys: the invariant *)

Ceremony == [purpose : Purposes, owner : Owners \cup {Nobody}, open : BOOLEAN]
Credential == [owner : Owners, counter : Counters]
Registering == [pc : {"register"}, ceremony : Ceremonies, key : Credentials, owner : Owners]
Finding == [pc : {"find"}, ceremony : Ceremonies, key : Credentials, counter : Counters]
Counting == [pc : {"count"}, ceremony : Ceremonies, key : Credentials, counter : Counters,
             owner : Owners, read : Counters]
VerifierRequest == {NoVerify} \cup Registering \cup Finding \cup Counting
OutcomeRecord == [ceremony : Ceremonies, key : Credentials, owner : Owners, counter : Counters, kind : Purposes]

\* The rows, the requests and their outcomes keep their types; whoever is registered has an owner.
StoredTypeOK ==
    /\ ceremonies \in [Ceremonies -> Ceremony \cup {Unissued}]
    /\ credentials \in [Credentials -> Credential \cup {NoCredential}]
    /\ verifier \in [Verifiers -> VerifierRequest]
    /\ outcomes \in Seq(OutcomeRecord)

\* A request under way has used up a ceremony of its kind that nobody else has, and that has led to nothing.
Fits(q, cs, os) ==
    q.pc # "idle" =>
       /\ ~ cs[q.ceremony].open
       /\ cs[q.ceremony].purpose = IF q.pc = "register" THEN "register" ELSE "login"
       /\ q.pc # "find" => cs[q.ceremony].owner \in {Nobody, q.owner}
       /\ \A i \in DOMAIN os : os[i].ceremony # q.ceremony
HeldInv ==
    /\ \A v \in Verifiers : Fits(verifier[v], ceremonies, outcomes)
    /\ \A v, w \in Verifiers : /\ verifier[v].pc # "idle" /\ verifier[w].pc # "idle"
                               /\ verifier[v].ceremony = verifier[w].ceremony
                               => v = w

\* Each outcome is that of a ceremony of its own.
EndedInv ==
    \A i \in DOMAIN outcomes :
       /\ ~ ceremonies[outcomes[i].ceremony].open
       /\ ceremonies[outcomes[i].ceremony].purpose = outcomes[i].kind
       /\ ceremonies[outcomes[i].ceremony].owner \in {Nobody, outcomes[i].owner}
       /\ \A j \in DOMAIN outcomes : outcomes[i].ceremony = outcomes[j].ceremony => i = j

\* Since the i-th outcome, up to the n-th, its credential was not registered again.
Lasts(os, i, n) == \A k \in i + 1..n : os[k].key = os[i].key => os[k].kind = "login"

\* The counter of a credential is that of its last outcome; those before it are behind.
CountedInv ==
    \A i \in DOMAIN outcomes :
       LET counter == credentials[outcomes[i].key].counter IN
       /\ Registered(outcomes[i].key) /\ Lasts(outcomes, i, Len(outcomes))
       => outcomes[i].counter = counter \/ Advances(outcomes[i].counter, counter)
GrowsInv ==
    \A i, j \in DOMAIN outcomes :
       i < j /\ outcomes[i].key = outcomes[j].key /\ Lasts(outcomes, i, j)
       => Advances(outcomes[i].counter, outcomes[j].counter)

PasskeysInv == StoredTypeOK /\ HeldInv /\ EndedInv /\ CountedInv /\ GrowsInv

-----------------------------------------------------------------------------
(* Types *)

\* What a request is, by where it is.
LEMMA VerifierFields ==
  ASSUME StoredTypeOK, NEW v \in Verifiers
  PROVE  /\ verifier[v] \in VerifierRequest
         /\ verifier[v].pc \in {"idle", "register", "find", "count"}
         /\ verifier[v].pc = "register" => verifier[v] \in Registering
         /\ verifier[v].pc = "find" => verifier[v] \in Finding
         /\ verifier[v].pc = "count" => verifier[v] \in Counting
         /\ verifier[v].pc # "idle" => verifier[v].ceremony \in Ceremonies /\ verifier[v].key \in Credentials
<1>1. verifier[v] \in VerifierRequest
  BY DEF StoredTypeOK
<1>2. CASE verifier[v] = NoVerify
  BY <1>1, <1>2 DEF NoVerify
<1>3. CASE verifier[v] \in Registering
  BY <1>1, <1>3 DEF Registering
<1>4. CASE verifier[v] \in Finding
  BY <1>1, <1>4 DEF Finding
<1>5. CASE verifier[v] \in Counting
  BY <1>1, <1>5 DEF Counting
<1> QED
  BY <1>1, <1>2, <1>3, <1>4, <1>5 DEF VerifierRequest

\* A credential that is there has an owner, one that is not has none.
LEMMA CredentialFields ==
  ASSUME StoredTypeOK, NEW k \in Credentials
  PROVE  /\ Registered(k) <=> credentials[k] \in Credential
         /\ Registered(k) <=> credentials[k].owner # Nobody
         /\ credentials[k].counter \in Nat
<1>1. credentials[k] \in Credential \cup {NoCredential}
  BY DEF StoredTypeOK
<1>2. NoCredential.owner = Nobody /\ NoCredential.counter = 0
  BY DEF NoCredential
<1>3. \A q \in Credential : q.owner # Nobody /\ q.counter \in Nat
  BY PasskeysAssumption DEF Credential, Counters
<1> QED
  BY <1>1, <1>2, <1>3 DEF Registered

\* A step that turns one request keeps the requests' types.
LEMMA ProceedsTypes ==
  ASSUME StoredTypeOK, NEW v \in Verifiers, NEW q \in VerifierRequest, Proceeds(v, q)
  PROVE  /\ verifier' \in [Verifiers -> VerifierRequest]
         /\ verifier'[v] = q /\ \A w \in Verifiers : w # v => verifier'[w] = verifier[w]
  BY DEF StoredTypeOK, Proceeds

\* The requests a ceremony is used up for.
LEMMA RequestTypes ==
  ASSUME NEW c \in Ceremonies, NEW k \in Credentials
  PROVE  /\ \A owner \in Owners :
              LET q == [pc |-> "register", ceremony |-> c, key |-> k, owner |-> owner] IN
              q \in VerifierRequest /\ q.pc = "register" /\ q.ceremony = c /\ q.owner = owner
         /\ \A counter \in Counters :
              LET q == [pc |-> "find", ceremony |-> c, key |-> k, counter |-> counter] IN
              q \in VerifierRequest /\ q.pc = "find" /\ q.ceremony = c
         /\ NoVerify \in VerifierRequest /\ NoVerify.pc = "idle"
  BY DEF VerifierRequest, Registering, Finding, NoVerify

\* The request that found its credential.
LEMMA FoundTypes ==
  ASSUME StoredTypeOK, NEW v \in Verifiers, Verifying(v, "find"), Registered(verifier[v].key)
  PROVE  LET k == verifier[v].key
             q == [pc |-> "count", ceremony |-> verifier[v].ceremony, key |-> k,
                   counter |-> verifier[v].counter,
                   owner |-> credentials[k].owner, read |-> credentials[k].counter] IN
         q \in VerifierRequest /\ q.pc = "count" /\ q.ceremony = verifier[v].ceremony
         /\ q.owner = credentials[k].owner
<1>1. verifier[v] \in Finding
  BY VerifierFields DEF Verifying
<1>2. credentials[verifier[v].key] \in Credential
  BY <1>1, CredentialFields DEF Finding
<1> DEFINE k == verifier[v].key
<1>3. /\ verifier[v].ceremony \in Ceremonies /\ k \in Credentials /\ verifier[v].counter \in Counters
      /\ credentials[k].owner \in Owners /\ credentials[k].counter \in Counters
  BY <1>1, <1>2 DEF Finding, Credential
<1> QED
  BY <1>3 DEF VerifierRequest, Counting

-----------------------------------------------------------------------------
(* What a step does to the ceremonies, the requests and the outcomes *)

\* A ceremony that was used up or ran out stays as it is.
CeremoniesKept == \A c \in Ceremonies : ceremonies[c].purpose \in Purposes /\ ~ ceremonies[c].open
    => ceremonies'[c] = ceremonies[c]

\* What a request has, and no other one.
Alone(v, c) == \A w \in Verifiers : w # v /\ verifier[w].pc # "idle" => verifier[w].ceremony # c

\* A step that turns one request into one that fits leaves all of them fitting.
LEMMA HeldByOne ==
  ASSUME PasskeysInv, CeremoniesKept, UNCHANGED outcomes, NEW v \in Verifiers, NEW q \in VerifierRequest,
         Proceeds(v, q),
         Fits(q, ceremonies', outcomes), q.pc # "idle" => Alone(v, q.ceremony)
  PROVE  HeldInv'
<1>1. verifier'[v] = q /\ \A w \in Verifiers : w # v => verifier'[w] = verifier[w]
  BY ProceedsTypes DEF PasskeysInv
<1>2. ASSUME NEW w \in Verifiers  PROVE Fits(verifier'[w], ceremonies', outcomes')
  <2>1. CASE w = v
    BY <1>1, <2>1
  <2>2. CASE w # v
    <3>1. verifier'[w] = verifier[w] /\ Fits(verifier[w], ceremonies, outcomes)
      BY <1>1, <2>2 DEF PasskeysInv, HeldInv
    <3>2. verifier[w].pc # "idle" => verifier[w].ceremony \in Ceremonies
      BY VerifierFields DEF PasskeysInv
    <3>3. verifier[w].pc # "idle" => ceremonies'[verifier[w].ceremony] = ceremonies[verifier[w].ceremony]
      BY <3>1, <3>2 DEF Fits, CeremoniesKept, Purposes
    <3> QED
      BY <3>1, <3>3 DEF Fits
  <2> QED
    BY <2>1, <2>2
<1>3. ASSUME NEW w \in Verifiers, NEW x \in Verifiers, verifier'[w].pc # "idle", verifier'[x].pc # "idle",
             verifier'[w].ceremony = verifier'[x].ceremony
      PROVE  w = x
  BY <1>1, <1>3 DEF PasskeysInv, HeldInv, Alone
<1> QED
  BY <1>2, <1>3 DEF HeldInv

\* So does one that leaves the requests and the outcomes alone.
LEMMA HeldByAll ==
  ASSUME PasskeysInv, CeremoniesKept, UNCHANGED <<verifier, outcomes>>
  PROVE  HeldInv'
<1>1. ASSUME NEW w \in Verifiers  PROVE Fits(verifier[w], ceremonies', outcomes)
  <2>1. Fits(verifier[w], ceremonies, outcomes)
    BY DEF PasskeysInv, HeldInv
  <2>2. verifier[w].pc # "idle" => verifier[w].ceremony \in Ceremonies
    BY VerifierFields DEF PasskeysInv
  <2>3. verifier[w].pc # "idle" => ceremonies'[verifier[w].ceremony] = ceremonies[verifier[w].ceremony]
    BY <2>1, <2>2 DEF Fits, CeremoniesKept, Purposes
  <2> QED
    BY <2>1, <2>3 DEF Fits
<1> QED
  BY <1>1 DEF HeldInv, PasskeysInv

\* The outcomes that are there stay those of ceremonies of their own.
LEMMA EndedByAll ==
  ASSUME PasskeysInv, CeremoniesKept, UNCHANGED outcomes
  PROVE  EndedInv'
<1>1. ASSUME NEW i \in DOMAIN outcomes
             PROVE ceremonies'[outcomes[i].ceremony] = ceremonies[outcomes[i].ceremony]
  <2>1. outcomes[i] \in OutcomeRecord
    BY DEF PasskeysInv, StoredTypeOK
  <2>2. outcomes[i].ceremony \in Ceremonies /\ outcomes[i].kind \in Purposes
    BY <2>1 DEF OutcomeRecord
  <2> QED
    BY <2>2 DEF PasskeysInv, EndedInv, CeremoniesKept
<1> QED
  BY <1>1 DEF PasskeysInv, EndedInv

\* Neither counters nor outcomes move.
LEMMA CountedByAll ==
  ASSUME PasskeysInv, UNCHANGED <<credentials, outcomes>>
  PROVE  CountedInv' /\ GrowsInv'
  BY DEF PasskeysInv, CountedInv, GrowsInv, Registered, Lasts

\* A step that appends the outcome of a request ends the request, and its ceremony stays used up.
LEMMA RequestLeads ==
  ASSUME PasskeysInv, NEW v \in Verifiers, ~ Verifying(v, "idle"), NEW o \in OutcomeRecord,
         o.ceremony = verifier[v].ceremony, o.kind = ceremonies[o.ceremony].purpose,
         ceremonies[o.ceremony].owner \in {Nobody, o.owner},
         outcomes' = Append(outcomes, o), Proceeds(v, NoVerify), UNCHANGED ceremonies
  PROVE  /\ HeldInv' /\ EndedInv'
         /\ outcomes' \in Seq(OutcomeRecord) /\ verifier' \in [Verifiers -> VerifierRequest]
<1> DEFINE n == Len(outcomes)
<1>1. /\ n \in Nat /\ DOMAIN outcomes = 1..n /\ DOMAIN outcomes' = 1..(n + 1)
      /\ outcomes'[n + 1] = o /\ \A i \in 1..n : outcomes'[i] = outcomes[i]
      /\ outcomes' \in Seq(OutcomeRecord)
  BY DEF PasskeysInv, StoredTypeOK
<1>2. verifier'[v] = NoVerify /\ NoVerify.pc = "idle" /\ \A w \in Verifiers : w # v
      => verifier'[w] = verifier[w]
  BY DEF PasskeysInv, StoredTypeOK, Proceeds, NoVerify
<1>3. Fits(verifier[v], ceremonies, outcomes) /\ verifier[v].pc # "idle"
  BY DEF PasskeysInv, HeldInv, Verifying
<1>4. HeldInv'
  <2>1. ASSUME NEW w \in Verifiers  PROVE Fits(verifier'[w], ceremonies', outcomes')
    <3>1. CASE w = v
      BY <1>2, <3>1 DEF Fits
    <3>2. CASE w # v /\ verifier[w].pc # "idle"
      <4>1. verifier'[w] = verifier[w] /\ Fits(verifier[w], ceremonies, outcomes)
        BY <1>2, <3>2 DEF PasskeysInv, HeldInv
      <4>2. verifier[w].ceremony # o.ceremony
        BY <1>3, <3>2 DEF PasskeysInv, HeldInv
      <4>3. \A i \in DOMAIN outcomes' : outcomes'[i].ceremony # verifier[w].ceremony
        BY <1>1, <3>2, <4>1, <4>2 DEF Fits
      <4> QED
        BY <4>1, <4>3 DEF Fits
    <3>3. CASE w # v /\ verifier[w].pc = "idle"
      BY <1>2, <3>3 DEF Fits
    <3> QED
      BY <3>1, <3>2, <3>3
  <2>2. ASSUME NEW w \in Verifiers, NEW x \in Verifiers, verifier'[w].pc # "idle", verifier'[x].pc # "idle",
               verifier'[w].ceremony = verifier'[x].ceremony
        PROVE  w = x
    BY <1>2, <2>2 DEF PasskeysInv, HeldInv
  <2> QED
    BY <2>1, <2>2 DEF HeldInv
<1>5. EndedInv'
  <2>1. ~ ceremonies[o.ceremony].open /\ \A i \in 1..n : outcomes[i].ceremony # o.ceremony
    BY <1>1, <1>3 DEF Fits
  <2>2. ASSUME NEW i \in 1..n
        PROVE  /\ ~ ceremonies[outcomes[i].ceremony].open
               /\ ceremonies[outcomes[i].ceremony].purpose = outcomes[i].kind
               /\ ceremonies[outcomes[i].ceremony].owner \in {Nobody, outcomes[i].owner}
               /\ \A j \in 1..n : outcomes[i].ceremony = outcomes[j].ceremony => i = j
    BY <1>1 DEF PasskeysInv, EndedInv
  <2>3. ASSUME NEW i \in 1..(n + 1)
        PROVE  /\ ~ ceremonies[outcomes'[i].ceremony].open
               /\ ceremonies[outcomes'[i].ceremony].purpose = outcomes'[i].kind
               /\ ceremonies[outcomes'[i].ceremony].owner \in {Nobody, outcomes'[i].owner}
               /\ \A j \in 1..(n + 1) : outcomes'[i].ceremony = outcomes'[j].ceremony => i = j
    <3>1. CASE i = n + 1
      BY <1>1, <2>1, <3>1
    <3>2. CASE i \in 1..n
      BY <1>1, <2>1, <2>2, <3>2
    <3> QED
      BY <1>1, <3>1, <3>2
  <2> QED
    BY <1>1, <2>3 DEF EndedInv
<1>6. verifier' \in [Verifiers -> VerifierRequest]
  BY DEF PasskeysInv, StoredTypeOK, Proceeds, VerifierRequest
<1> QED
  BY <1>1, <1>4, <1>5, <1>6

\* Whoever is behind stays behind.
LEMMA AdvancesTransitive ==
  ASSUME NEW a \in Nat, NEW b \in Nat, NEW c \in Nat, a = b \/ Advances(a, b), Advances(b, c)
  PROVE  Advances(a, c)
  BY DEF Advances

\* What lasts up to an appended outcome of the same credential lasted before, and that one is a login.
LEMMA LastsAppended ==
  ASSUME NEW os \in Seq(OutcomeRecord), NEW o \in OutcomeRecord, NEW i \in DOMAIN os,
         Lasts(Append(os, o), i, Len(os) + 1)
  PROVE  Lasts(os, i, Len(os)) /\ (o.key = os[i].key => o.kind = "login")
<1>1. /\ Len(os) \in Nat /\ DOMAIN os = 1..Len(os)
      /\ Append(os, o)[Len(os) + 1] = o /\ \A k \in 1..Len(os) : Append(os, o)[k] = os[k]
  OBVIOUS
<1> QED
  BY <1>1 DEF Lasts

\* Up to an older outcome it makes no difference.
LEMMA LastsBefore ==
  ASSUME NEW os \in Seq(OutcomeRecord), NEW o \in OutcomeRecord, NEW i \in DOMAIN os, NEW j \in DOMAIN os,
         Lasts(Append(os, o), i, j)
  PROVE  Lasts(os, i, j)
<1>1. /\ Len(os) \in Nat /\ DOMAIN os = 1..Len(os) /\ \A k \in 1..Len(os) : Append(os, o)[k] = os[k]
  OBVIOUS
<1> QED
  BY <1>1 DEF Lasts

\* A new outcome keeps the counters in order if it is a registration or moves the counter on.
LEMMA OutcomeCounts ==
  ASSUME PasskeysInv, NEW o \in OutcomeRecord, outcomes' = Append(outcomes, o),
         NEW row \in Credential, credentials' = [credentials EXCEPT ![o.key] = row], row.counter = o.counter,
         o.kind = "login" => Registered(o.key) /\ Advances(credentials[o.key].counter, o.counter)
  PROVE  CountedInv' /\ GrowsInv'
<1> DEFINE n == Len(outcomes)
           new == Append(outcomes, o)
<1>1. /\ n \in Nat /\ DOMAIN outcomes = 1..n /\ DOMAIN new = 1..(n + 1) /\ Len(new) = n + 1
      /\ new[n + 1] = o /\ \A i \in 1..n : new[i] = outcomes[i]
      /\ outcomes \in Seq(OutcomeRecord) /\ \A i \in 1..n : outcomes[i] \in OutcomeRecord
  BY DEF PasskeysInv, StoredTypeOK
<1>2. /\ credentials'[o.key] = row /\ o.key \in Credentials /\ o.counter \in Nat
      /\ \A k \in Credentials : k # o.key => credentials'[k] = credentials[k]
  BY DEF PasskeysInv, StoredTypeOK, OutcomeRecord, Counters
<1>3. \A i \in 1..n : outcomes[i].key \in Credentials /\ outcomes[i].counter \in Nat
  BY <1>1 DEF OutcomeRecord, Counters
\* What the last outcome of the same credential has to do with the new one.
<1>4. ASSUME NEW i \in 1..n, outcomes[i].key = o.key, Lasts(new, i, n + 1)
      PROVE  Advances(outcomes[i].counter, o.counter)
  <2>1. Lasts(outcomes, i, n) /\ o.kind = "login"
    BY <1>1, <1>4, LastsAppended
  <2>2. Registered(o.key) /\ Advances(credentials[o.key].counter, o.counter)
    BY <2>1
  <2>3. outcomes[i].counter = credentials[o.key].counter
        \/ Advances(outcomes[i].counter, credentials[o.key].counter)
    BY <1>1, <1>4, <2>1, <2>2 DEF PasskeysInv, CountedInv
  <2>4. credentials[o.key].counter \in Nat
    BY <1>2, CredentialFields DEF PasskeysInv
  <2> QED
    BY <1>2, <1>3, <2>2, <2>3, <2>4, AdvancesTransitive
<1>5. ASSUME NEW i \in 1..(n + 1), credentials'[new[i].key] # NoCredential, Lasts(new, i, n + 1)
      PROVE  \/ new[i].counter = credentials'[new[i].key].counter
             \/ Advances(new[i].counter, credentials'[new[i].key].counter)
  <2>1. CASE i = n + 1
    BY <1>1, <1>2, <2>1
  <2>2. CASE i \in 1..n /\ outcomes[i].key = o.key
    BY <1>1, <1>2, <1>4, <1>5, <2>2
  <2>3. CASE i \in 1..n /\ outcomes[i].key # o.key
    <3>1. credentials'[outcomes[i].key] = credentials[outcomes[i].key] /\ new[i] = outcomes[i]
      BY <1>1, <1>2, <1>3, <2>3
    <3>2. Lasts(outcomes, i, n) /\ Registered(outcomes[i].key)
      BY <1>1, <1>5, <2>3, <3>1, LastsAppended DEF Registered
    <3> QED
      BY <1>1, <2>3, <3>1, <3>2 DEF PasskeysInv, CountedInv
  <2> QED
    BY <1>1, <2>1, <2>2, <2>3
<1>6. ASSUME NEW i \in 1..(n + 1), NEW j \in 1..(n + 1), i < j, new[i].key = new[j].key, Lasts(new, i, j)
      PROVE  Advances(new[i].counter, new[j].counter)
  <2>1. CASE j = n + 1
    BY <1>1, <1>4, <1>6, <2>1
  <2>2. CASE j \in 1..n
    <3>1. i \in 1..n /\ new[i] = outcomes[i] /\ new[j] = outcomes[j]
      <4>1. i \in 1..n
        BY <1>1, <1>6, <2>2
      <4> QED
        BY <1>1, <2>2, <4>1
    <3>2. Lasts(outcomes, i, j)
      BY <1>1, <1>6, <2>2, <3>1, LastsBefore
    <3> QED
      BY <1>1, <1>6, <2>2, <3>1, <3>2 DEF PasskeysInv, GrowsInv
  <2> QED
    BY <1>1, <2>1, <2>2
<1>7. CountedInv'
  BY <1>1, <1>5 DEF CountedInv, Registered
<1>8. GrowsInv'
  BY <1>1, <1>6 DEF GrowsInv
<1> QED
  BY <1>7, <1>8

-----------------------------------------------------------------------------
(* Steps *)

\* A request goes on, or ends, with what it had.
LEMMA RequestGoesOn ==
  ASSUME PasskeysInv, NEW v \in Verifiers, NEW q \in VerifierRequest, Proceeds(v, q),
         UNCHANGED <<ceremonies, credentials, outcomes>>,
         Fits(q, ceremonies, outcomes), q.pc # "idle" => Alone(v, q.ceremony)
  PROVE  PasskeysInv'
<1>1. CeremoniesKept
  BY DEF CeremoniesKept
<1>2. HeldInv'
  BY <1>1, HeldByOne
<1>3. EndedInv' /\ CountedInv' /\ GrowsInv'
  BY <1>1, EndedByAll, CountedByAll
<1>4. StoredTypeOK'
  BY ProceedsTypes DEF PasskeysInv, StoredTypeOK
<1> QED
  BY <1>2, <1>3, <1>4 DEF PasskeysInv

LEMMA RequestEnds ==
  ASSUME PasskeysInv, NEW v \in Verifiers, Proceeds(v, NoVerify),
         UNCHANGED <<ceremonies, credentials, outcomes>>
  PROVE  PasskeysInv'
<1>1. NoVerify \in VerifierRequest /\ NoVerify.pc = "idle"
  BY DEF VerifierRequest, NoVerify
<1> QED
  BY <1>1, RequestGoesOn DEF Fits

\* A ceremony is issued, runs out, or is used up for a request that fits.
LEMMA CeremonyIssued ==
  ASSUME PasskeysInv, NEW c \in Ceremonies, NEW purpose \in Purposes, NEW owner \in Owners \cup {Nobody},
         IssueCeremony(c, purpose, owner)
  PROVE  PasskeysInv'
<1>1. CeremoniesKept
  BY DEF CeremoniesKept, IssueCeremony, PasskeysInv, StoredTypeOK, Unissued, Purposes
<1>2. ceremonies' \in [Ceremonies -> Ceremony \cup {Unissued}]
  BY DEF PasskeysInv, StoredTypeOK, IssueCeremony, Ceremony
<1>3. HeldInv' /\ EndedInv' /\ CountedInv' /\ GrowsInv'
  BY <1>1, HeldByAll, EndedByAll, CountedByAll DEF IssueCeremony
<1> QED
  BY <1>2, <1>3 DEF PasskeysInv, StoredTypeOK, IssueCeremony

LEMMA CeremonyExpires ==
  ASSUME PasskeysInv, NEW c \in Ceremonies, ExpireCeremony(c)
  PROVE  PasskeysInv'
<1>1. CeremoniesKept
  BY DEF CeremoniesKept, ExpireCeremony, PasskeysInv, StoredTypeOK
<1>2. ceremonies' \in [Ceremonies -> Ceremony \cup {Unissued}]
  <2>1. ceremonies[c] \in Ceremony
    BY DEF PasskeysInv, StoredTypeOK, ExpireCeremony, Unissued
  <2> QED
    BY <2>1 DEF PasskeysInv, StoredTypeOK, ExpireCeremony, Ceremony
<1>3. HeldInv' /\ EndedInv' /\ CountedInv' /\ GrowsInv'
  BY <1>1, HeldByAll, EndedByAll, CountedByAll DEF ExpireCeremony
<1> QED
  BY <1>2, <1>3 DEF PasskeysInv, StoredTypeOK, ExpireCeremony

LEMMA CeremonyConsumed ==
  ASSUME PasskeysInv, NEW v \in Verifiers, NEW c \in Ceremonies, NEW purpose \in Purposes,
         NEW q \in VerifierRequest,
         ConsumeCeremony(v, c, purpose, q),
         q.pc # "idle" => /\ q.ceremony = c
                          /\ q.pc = IF purpose = "register" THEN "register" ELSE "find"
                          /\ q.pc = "register" => ceremonies[c].owner = q.owner
  PROVE  PasskeysInv'
<1>1. ceremonies[c] \in Ceremony /\ ceremonies[c].open /\ ceremonies[c].purpose = purpose
  BY DEF ConsumeCeremony, PasskeysInv, StoredTypeOK, Unissued
<1>2. /\ ceremonies'[c].purpose = purpose /\ ~ ceremonies'[c].open /\ ceremonies'[c].owner = ceremonies[c].owner
      /\ ceremonies' \in [Ceremonies -> Ceremony \cup {Unissued}]
      /\ \A d \in Ceremonies : d # c => ceremonies'[d] = ceremonies[d]
  BY <1>1 DEF ConsumeCeremony, PasskeysInv, StoredTypeOK, Ceremony
<1>3. CeremoniesKept
  BY <1>1, <1>2 DEF CeremoniesKept
<1>4. Alone(v, c)
  BY <1>1 DEF PasskeysInv, HeldInv, Fits, Alone
<1>5. \A i \in DOMAIN outcomes : outcomes[i].ceremony # c
  BY <1>1 DEF PasskeysInv, EndedInv
<1>6. Fits(q, ceremonies', outcomes)
  BY <1>2, <1>5 DEF Fits, Purposes
<1>7. HeldInv'
  BY <1>3, <1>4, <1>6, HeldByOne DEF ConsumeCeremony
<1>8. EndedInv' /\ CountedInv' /\ GrowsInv'
  BY <1>3, EndedByAll, CountedByAll DEF ConsumeCeremony
<1>9. StoredTypeOK'
  BY <1>2, ProceedsTypes DEF ConsumeCeremony, PasskeysInv, StoredTypeOK
<1> QED
  BY <1>7, <1>8, <1>9 DEF PasskeysInv

LEMMA RegistrationVerified ==
  ASSUME PasskeysInv, NEW v \in Verifiers, NEW c \in Ceremonies, NEW k \in Credentials, NEW owner \in Owners,
         VerifyRegistration(v, c, k, owner)
  PROVE  PasskeysInv'
<1> DEFINE q == [pc |-> "register", ceremony |-> c, key |-> k, owner |-> owner]
<1>1. q \in VerifierRequest /\ NoVerify \in VerifierRequest /\ NoVerify.pc = "idle" /\ "register" \in Purposes
  BY RequestTypes DEF Purposes
<1>2. CASE ceremonies[c].owner = owner
  <2>1. ConsumeCeremony(v, c, "register", q)
    BY <1>2 DEF VerifyRegistration
  <2> QED
    BY <1>1, <1>2, <2>1, CeremonyConsumed
<1>3. CASE ceremonies[c].owner # owner
  <2>1. ConsumeCeremony(v, c, "register", NoVerify)
    BY <1>3 DEF VerifyRegistration
  <2> QED
    BY <1>1, <2>1, CeremonyConsumed
<1> QED
  BY <1>2, <1>3

LEMMA LoginVerified ==
  ASSUME PasskeysInv, NEW v \in Verifiers, NEW c \in Ceremonies, NEW k \in Credentials,
         NEW counter \in Counters,
         VerifyLogin(v, c, k, counter)
  PROVE  PasskeysInv'
<1> DEFINE q == [pc |-> "find", ceremony |-> c, key |-> k, counter |-> counter]
<1>1. q \in VerifierRequest /\ "login" \in Purposes
  BY RequestTypes DEF Purposes
<1>2. ConsumeCeremony(v, c, "login", q)
  BY DEF VerifyLogin
<1> QED
  BY <1>1, <1>2, CeremonyConsumed

\* The credential is found for an owner the ceremony lets in.
LEMMA CredentialFound ==
  ASSUME PasskeysInv, NEW v \in Verifiers, FindCredential(v)
  PROVE  PasskeysInv'
<1> DEFINE k == verifier[v].key
           owner == credentials[k].owner
           q == [pc |-> "count", ceremony |-> verifier[v].ceremony, key |-> k, counter |-> verifier[v].counter,
                 owner |-> owner, read |-> credentials[k].counter]
<1>1. UNCHANGED <<ceremonies, credentials, outcomes>> /\ Verifying(v, "find")
  BY DEF FindCredential
<1>2. CASE Registered(k) /\ ceremonies[verifier[v].ceremony].owner \in {Nobody, owner}
  <2>1. Proceeds(v, q)
    BY <1>2 DEF FindCredential
  <2>2. q \in VerifierRequest /\ q.pc = "count" /\ q.ceremony = verifier[v].ceremony /\ q.owner = owner
    BY <1>1, <1>2, FoundTypes DEF PasskeysInv
  <2>3. Fits(q, ceremonies, outcomes)
    BY <1>1, <1>2, <2>2 DEF PasskeysInv, HeldInv, Fits, Verifying
  <2>4. Alone(v, q.ceremony)
    BY <1>1, <2>2 DEF PasskeysInv, HeldInv, Alone, Verifying
  <2> HIDE DEF q
  <2> QED
    BY <1>1, <2>1, <2>2, <2>3, <2>4, RequestGoesOn
<1>3. CASE ~ (Registered(k) /\ ceremonies[verifier[v].ceremony].owner \in {Nobody, owner})
  <2>1. Proceeds(v, NoVerify)
    BY <1>3 DEF FindCredential
  <2> QED
    BY <1>1, <2>1, RequestEnds
<1> QED
  BY <1>2, <1>3

LEMMA CredentialRegistered ==
  ASSUME PasskeysInv, NEW v \in Verifiers, Register(v)
  PROVE  PasskeysInv'
<1> DEFINE q == verifier[v]
           o == [ceremony |-> q.ceremony, key |-> q.key, owner |-> q.owner, counter |-> 0, kind |-> "register"]
           row == [owner |-> q.owner, counter |-> 0]
<1>1. CASE Registered(q.key)
  BY <1>1, RequestEnds DEF Register
<1>2. CASE ~ Registered(q.key)
  <2>1. /\ q.pc = "register" /\ Proceeds(v, NoVerify) /\ UNCHANGED ceremonies
        /\ credentials' = [credentials EXCEPT ![q.key] = row] /\ outcomes' = Append(outcomes, o)
    BY <1>2 DEF Register, Verifying
  <2>2. q \in Registering
    BY <2>1, VerifierFields DEF PasskeysInv
  <2>3. o \in OutcomeRecord /\ row \in Credential
    BY <2>2, PasskeysAssumption DEF Registering, OutcomeRecord, Credential, Counters, Purposes
  <2>4. /\ o.ceremony = q.ceremony /\ o.key = q.key /\ o.owner = q.owner /\ o.counter = 0 /\ o.kind = "register"
        /\ row.counter = 0
    OBVIOUS
  <2>5. o.kind = ceremonies[o.ceremony].purpose /\ ceremonies[o.ceremony].owner \in {Nobody, o.owner}
    BY <2>1, <2>4 DEF PasskeysInv, HeldInv, Fits
  <2>6. ~ Verifying(v, "idle")
    BY <2>1 DEF Verifying
  <2> HIDE DEF o, row
  <2>7. HeldInv' /\ EndedInv' /\ outcomes' \in Seq(OutcomeRecord)
        /\ verifier' \in [Verifiers -> VerifierRequest]
    BY <2>1, <2>3, <2>4, <2>5, <2>6, RequestLeads
  <2>8. CountedInv' /\ GrowsInv'
    BY <2>1, <2>3, <2>4, OutcomeCounts
  <2>9. StoredTypeOK'
    BY <2>1, <2>3, <2>7 DEF PasskeysInv, StoredTypeOK
  <2> QED
    BY <2>7, <2>8, <2>9 DEF PasskeysInv
<1> QED
  BY <1>1, <1>2

LEMMA CounterUpdated ==
  ASSUME PasskeysInv, NEW v \in Verifiers, UpdateCounter(v)
  PROVE  PasskeysInv'
<1> DEFINE q == verifier[v]
           o == [ceremony |-> q.ceremony, key |-> q.key, owner |-> q.owner, counter |-> q.counter,
                 kind |-> "login"]
           row == [credentials[q.key] EXCEPT !.counter = q.counter]
           Moves == credentials[q.key].owner = q.owner /\ Advances(credentials[q.key].counter, q.counter)
<1>1. CASE ~ Moves
  BY <1>1, RequestEnds DEF UpdateCounter
<1>2. CASE Moves
  <2>1. /\ q.pc = "count" /\ Proceeds(v, NoVerify) /\ UNCHANGED ceremonies
        /\ credentials' = [credentials EXCEPT ![q.key].counter = q.counter] /\ outcomes' = Append(outcomes, o)
    BY <1>2 DEF UpdateCounter, Verifying
  <2>2. q \in Counting
    BY <2>1, VerifierFields DEF PasskeysInv
  <2>3. q.key \in Credentials /\ q.owner \in Owners
    BY <2>2 DEF Counting
  <2>4. Registered(q.key) /\ credentials[q.key] \in Credential
    BY <1>2, <2>3, PasskeysAssumption, CredentialFields DEF PasskeysInv
  <2>5. o \in OutcomeRecord /\ row \in Credential /\ row.counter = q.counter
    BY <2>2, <2>4 DEF Counting, OutcomeRecord, Credential, Purposes
  <2>6. credentials' = [credentials EXCEPT ![q.key] = row]
    BY <2>1
  <2>7. /\ o.ceremony = q.ceremony /\ o.key = q.key /\ o.owner = q.owner /\ o.counter = q.counter
           /\ o.kind = "login"
    OBVIOUS
  <2>8. o.kind = ceremonies[o.ceremony].purpose /\ ceremonies[o.ceremony].owner \in {Nobody, o.owner}
    BY <2>1, <2>7 DEF PasskeysInv, HeldInv, Fits
  <2>9. ~ Verifying(v, "idle")
    BY <2>1 DEF Verifying
  <2> HIDE DEF o, row
  <2>10. HeldInv' /\ EndedInv' /\ outcomes' \in Seq(OutcomeRecord)
         /\ verifier' \in [Verifiers -> VerifierRequest]
    BY <2>1, <2>5, <2>7, <2>8, <2>9, RequestLeads
  <2>11. CountedInv' /\ GrowsInv'
    <3>1. credentials' = [credentials EXCEPT ![o.key] = row] /\ row.counter = o.counter
      BY <2>5, <2>6, <2>7
    <3>2. Registered(o.key) /\ Advances(credentials[o.key].counter, o.counter)
      BY <1>2, <2>4, <2>7
    <3> QED
      BY <2>1, <2>5, <3>1, <3>2, OutcomeCounts
  <2>12. StoredTypeOK'
    BY <2>1, <2>5, <2>6, <2>10 DEF PasskeysInv, StoredTypeOK
  <2> QED
    BY <2>10, <2>11, <2>12 DEF PasskeysInv
<1> QED
  BY <1>1, <1>2

\* What was registered is no longer: nothing is said of its counter until it is registered again.
LEMMA CredentialRemoved ==
  ASSUME PasskeysInv, NEW k \in Credentials, RemoveCredential(k)
  PROVE  PasskeysInv'
<1>1. CeremoniesKept /\ UNCHANGED <<ceremonies, verifier, outcomes>>
  BY DEF CeremoniesKept, RemoveCredential
<1>2. /\ credentials'[k] = NoCredential /\ \A x \in Credentials : x # k => credentials'[x] = credentials[x]
      /\ credentials' \in [Credentials -> Credential \cup {NoCredential}]
  BY DEF RemoveCredential, PasskeysInv, StoredTypeOK
<1>3. HeldInv' /\ EndedInv'
  BY <1>1, HeldByAll, EndedByAll
<1>4. GrowsInv'
  BY <1>1 DEF PasskeysInv, GrowsInv
<1>5. \A i \in DOMAIN outcomes : outcomes[i].key \in Credentials
  <2>1. \A i \in DOMAIN outcomes : outcomes[i] \in OutcomeRecord
    BY DEF PasskeysInv, StoredTypeOK
  <2> QED
    BY <2>1 DEF OutcomeRecord
<1>6. CountedInv'
  BY <1>1, <1>2, <1>5 DEF PasskeysInv, CountedInv, Registered
<1>7. StoredTypeOK'
  BY <1>1, <1>2 DEF PasskeysInv, StoredTypeOK
<1> QED
  BY <1>3, <1>4, <1>6, <1>7 DEF PasskeysInv

-----------------------------------------------------------------------------
(* The theorem *)

LEMMA PasskeysInitially ==
  ASSUME PasskeysInit
  PROVE  PasskeysInv
<1>1. StoredTypeOK
  BY DEF PasskeysInit, StoredTypeOK, VerifierRequest
<1>2. HeldInv
  BY DEF PasskeysInit, HeldInv, Fits, NoVerify
<1>3. DOMAIN outcomes = {}
  BY DEF PasskeysInit
<1> QED
  BY <1>1, <1>2, <1>3 DEF PasskeysInv, EndedInv, CountedInv, GrowsInv

LEMMA PasskeysInductive ==
  ASSUME PasskeysInv, [PasskeysNext]_passkeysVars
  PROVE  PasskeysInv'
<1>1. ASSUME NEW c \in Ceremonies, NEW purpose \in Purposes, NEW owner \in Owners \cup {Nobody},
             IssueCeremony(c, purpose, owner)
      PROVE  PasskeysInv'
  BY <1>1, CeremonyIssued
<1>2. ASSUME NEW c \in Ceremonies, ExpireCeremony(c)  PROVE PasskeysInv'
  BY <1>2, CeremonyExpires
<1>3. ASSUME NEW c \in Ceremonies, NEW v \in Verifiers, NEW k \in Credentials, NEW owner \in Owners,
             VerifyRegistration(v, c, k, owner)
      PROVE  PasskeysInv'
  BY <1>3, RegistrationVerified
<1>4. ASSUME NEW c \in Ceremonies, NEW v \in Verifiers, NEW k \in Credentials, NEW counter \in Counters,
             VerifyLogin(v, c, k, counter)
      PROVE  PasskeysInv'
  BY <1>4, LoginVerified
<1>5. ASSUME NEW v \in Verifiers, Register(v)  PROVE PasskeysInv'
  BY <1>5, CredentialRegistered
<1>6. ASSUME NEW v \in Verifiers, FindCredential(v)  PROVE PasskeysInv'
  BY <1>6, CredentialFound
<1>7. ASSUME NEW v \in Verifiers, UpdateCounter(v)  PROVE PasskeysInv'
  BY <1>7, CounterUpdated
<1>8. ASSUME NEW v \in Verifiers, VerifierFails(v)  PROVE PasskeysInv'
  BY <1>8, RequestEnds DEF VerifierFails
<1>9. ASSUME NEW k \in Credentials, RemoveCredential(k)  PROVE PasskeysInv'
  BY <1>9, CredentialRemoved
<1>10. CASE UNCHANGED passkeysVars
  BY <1>10, HeldByAll, EndedByAll, CountedByAll DEF passkeysVars, PasskeysInv, StoredTypeOK, CeremoniesKept
<1> QED
  BY <1>1, <1>2, <1>3, <1>4, <1>5, <1>6, <1>7, <1>8, <1>9, <1>10 DEF PasskeysNext

\* A ceremony ends in one registration or one session at most, of a user it was issued for, and the
\* counters a credential shows between two registrations grow, or are all zero.
THEOREM CeremoniesOnce == PasskeysSpec => []CeremonyOnce
<1>1. PasskeysInv => CeremonyOnce
  BY DEF PasskeysInv, EndedInv, GrowsInv, Lasts, CeremonyOnce
<1>2. PasskeysInit => PasskeysInv
  BY PasskeysInitially
<1>3. PasskeysInv /\ [PasskeysNext]_passkeysVars => PasskeysInv'
  BY PasskeysInductive
<1> QED
  BY <1>1, <1>2, <1>3, PTL DEF PasskeysSpec

-----------------------------------------------------------------------------
(* Registrations: the invariant *)

SignupPcs == {"idle", "screen", "create", "issue", "verify"}
Addresses == Emails \cup {"none"}
SignupRecord == [pc : SignupPcs, email : Addresses, secret : Passwords \cup {NoSecret}, agrees : Nat,
                 screened : Int]
RangeEntry == [prefix : AllPrefixes, known : SUBSET Passwords, expires : Nat]
Fetch == [asked : Nat, known : SUBSET Passwords, answered : BOOLEAN]
CodeRecord == [email : Addresses, expires : Nat, state : {"good", "superseded", "consumed"}]
AccountRecord(id, consents) ==
    [id : {id}, email : Addresses, secret : Passwords, screened : Int, agreed : Nat, consents : {consents},
     verified : BOOLEAN]
RegistrationTypes ==
    /\ day \in Nat /\ legal \in Nat /\ leaked \in [Passwords -> Nat]
    /\ ranges \in Seq(RangeEntry)
    /\ inFlight \in [AllPrefixes -> Fetch]
    /\ signup \in [Registrants -> SignupRecord]
    /\ codes \in Seq(CodeRecord)
    /\ \A u \in users : \E id, consents : u \in AccountRecord(id, consents)

\* What is not known to an answer was not published before the answer was asked for.
CleanSince(prefix, known, since) == \A s \in Passwords : s.prefix = prefix /\ s \notin known
    => leaked[s] >= since
Vouches(e) == e.expires <= day + RangeTtl /\ CleanSince(e.prefix, e.known, e.expires - RangeTtl - FetchTimeout)
CacheInv == \A i \in DOMAIN ranges : Vouches(ranges[i])
Fetches(f, fetch) ==
    /\ fetch # NoFetch => fetch.asked <= day /\ day - fetch.asked <= FetchTimeout
    /\ fetch.answered => fetch # NoFetch /\ CleanSince(f, fetch.known, fetch.asked)
FetchInv == \A f \in AllPrefixes : Fetches(f, inFlight[f])

\* A password was screened when it was, and what the answer did not know was young.
ScreenedAt(s, d) == d <= day /\ (required => d >= 0) /\ (d >= 0 => leaked[s] > d - RangeTtl - FetchTimeout)
Used(e) == \E i \in DOMAIN codes : codes[i].email = e /\ codes[i].state = "consumed"

\* A request that creates an account has screened its password and agrees to the documents in force; one
\* that verifies an address has used a code up that was mailed there.
SignupStands(q) ==
    /\ q.pc \in {"screen", "create"} => q.secret \in Passwords /\ (legal = 0 => q.agrees = 0)
    /\ q.pc = "create" => ScreenedAt(q.secret, q.screened) /\ (legal = 0 \/ q.agrees = legal)
    /\ q.pc = "verify" => Used(q.email)
SignupInv == \A r \in Registrants : SignupStands(signup[r])
AccountStands(u) ==
    /\ ScreenedAt(u.secret, u.screened)
    /\ u.consents = Evidence(u.agreed)
    /\ u.verified => Used(u.email)
AccountsInv == \A u \in users : AccountStands(u) /\ \A v \in users : u.email = v.email => u = v

RegistrationInv == RegistrationTypes /\ CacheInv /\ FetchInv /\ SignupInv /\ AccountsInv

-----------------------------------------------------------------------------
(* Registrations: steps *)

world == <<day, required, legal, leaked>>

LEMMA NoSignupIs == NoSignup \in SignupRecord /\ NoSignup.pc = "idle" /\ NoSignup.secret = NoSecret
  BY DEF NoSignup, SignupRecord, SignupPcs, Addresses

\* A request that goes on keeps what it was asked for.
LEMMA GoingOn ==
  ASSUME NEW q \in SignupRecord, NEW d \in Int
  PROVE  /\ [q EXCEPT !.pc = "create", !.screened = d] \in SignupRecord
         /\ [q EXCEPT !.pc = "create", !.screened = d].pc = "create"
         /\ [q EXCEPT !.pc = "create", !.screened = d].secret = q.secret
         /\ [q EXCEPT !.pc = "create", !.screened = d].screened = d
         /\ [q EXCEPT !.pc = "create", !.screened = d].agrees = q.agrees
  BY DEF SignupRecord, SignupPcs

LEMMA Addressed ==
  ASSUME NEW q \in SignupRecord, NEW pc \in SignupPcs, NEW e \in Addresses
  PROVE  /\ [q EXCEPT !.pc = pc, !.email = e] \in SignupRecord
         /\ [q EXCEPT !.pc = pc, !.email = e].pc = pc
         /\ [q EXCEPT !.pc = pc, !.email = e].email = e
  BY DEF SignupRecord

\* A request that has only a code left to ask for.
LEMMA ToIssue ==
  ASSUME NEW e \in Addresses
  PROVE  [NoSignup EXCEPT !.pc = "issue", !.email = e] \in SignupRecord
         /\ [NoSignup EXCEPT !.pc = "issue", !.email = e].pc = "issue"
<1>1. "issue" \in SignupPcs
  BY DEF SignupPcs
<1>2. PICK n \in SignupRecord : n = NoSignup
  BY NoSignupIs
<1>3. [n EXCEPT !.pc = "issue", !.email = e] \in SignupRecord /\ [n EXCEPT !.pc = "issue", !.email = e].pc = "issue"
  BY <1>1, Addressed
<1> QED
  BY <1>2, <1>3, Zenon

\* Nothing of it depends on a request that is at neither of these places.
LEMMA OthersStand ==
  ASSUME NEW q, q.pc \in {"idle", "issue"}
  PROVE  SignupStands(q)
  BY DEF SignupStands

\* A request that has its answer creates the account only with a password the answer does not know.
LEMMA AnswerStands ==
  ASSUME RegistrationTypes, NEW q \in SignupRecord, q.secret \in Passwords, NEW known, legal = 0 => q.agrees = 0,
         q.secret \notin known => leaked[q.secret] > day - RangeTtl - FetchTimeout
  PROVE  AssertPasswordNotCompromised(q, known) \in SignupRecord
         /\ SignupStands(AssertPasswordNotCompromised(q, known))
<1> DEFINE n == AssertPasswordNotCompromised(q, known)
           go == [q EXCEPT !.pc = "create", !.screened = day]
<1>1. CASE q.secret \in known \/ (legal # 0 /\ q.agrees # legal)
  <2>1. n = NoSignup
    BY <1>1 DEF AssertPasswordNotCompromised
  <2>2. SignupStands(NoSignup)
    BY NoSignupIs, OthersStand
  <2> QED
    BY <2>1, <2>2, NoSignupIs
<1>2. CASE ~ (q.secret \in known \/ (legal # 0 /\ q.agrees # legal))
  <2>1. n = go
    BY <1>2 DEF AssertPasswordNotCompromised
  <2>4. day \in Int
    BY DEF RegistrationTypes
  <2>5. /\ go \in SignupRecord /\ go.pc = "create" /\ go.secret = q.secret /\ go.screened = day
           /\ go.agrees = q.agrees
    BY <2>4, GoingOn
  <2> HIDE DEF go
  <2>6. ScreenedAt(q.secret, day)
    BY <1>2 DEF ScreenedAt, RegistrationTypes
  <2>7. SignupStands(go)
    BY <1>2, <2>5, <2>6 DEF SignupStands
  <2> QED
    BY <2>1, <2>5, <2>7
<1> QED
  BY <1>1, <1>2

\* What stands goes on to stand while the world, the codes and the accounts stay.
LEMMA RequestsMove ==
  ASSUME RegistrationInv, UNCHANGED <<world, users, codes>>,
         ranges' \in Seq(RangeEntry), \A i \in DOMAIN ranges' : Vouches(ranges'[i]),
         inFlight' \in [AllPrefixes -> Fetch], \A f \in AllPrefixes : Fetches(f, inFlight'[f]),
         signup' \in [Registrants -> SignupRecord], \A r \in Registrants : SignupStands(signup'[r])
  PROVE  RegistrationInv'
<1>1. RegistrationTypes'
  BY DEF world, RegistrationInv, RegistrationTypes
<1>2. CacheInv' /\ FetchInv'
  BY DEF world, CacheInv, FetchInv, Vouches, Fetches, CleanSince
<1>3. SignupInv' /\ AccountsInv'
  BY DEF world, RegistrationInv, SignupInv, AccountsInv, SignupStands, AccountStands, ScreenedAt, Used
<1> QED
  BY <1>1, <1>2, <1>3 DEF RegistrationInv

\* One request moves.
LEMMA RequestMoves ==
  ASSUME RegistrationInv, NEW r \in Registrants, NEW q \in SignupRecord, SignupStands(q),
         signup' = [signup EXCEPT ![r] = q], UNCHANGED <<world, ranges, inFlight, users, codes>>
  PROVE  RegistrationInv'
<1>1. signup' \in [Registrants -> SignupRecord] /\ \A x \in Registrants : SignupStands(signup'[x])
  BY DEF RegistrationInv, RegistrationTypes, SignupInv
<1> QED
  BY <1>1, RequestsMove DEF RegistrationInv, RegistrationTypes, CacheInv, FetchInv

\* A list without one of its entries has no other entries.
LEMMA Removed ==
  ASSUME NEW S, NEW l \in Seq(S), NEW i \in DOMAIN l
  PROVE  /\ RemoveAt(l, i) \in Seq(S)
         /\ \A k \in DOMAIN RemoveAt(l, i) : \E j \in DOMAIN l : RemoveAt(l, i)[k] = l[j]
<1> DEFINE before == SubSeq(l, 1, i - 1)
           after == SubSeq(l, i + 1, Len(l))
<1>1. i \in Int /\ Len(l) \in Nat /\ DOMAIN l = 1..Len(l) /\ \A j \in 1..Len(l) : l[j] \in S
  OBVIOUS
<1>2. before \in Seq(S) /\ Len(before) = i - 1 /\ \A k \in 1..(i - 1) : before[k] = l[k]
  <2>1. \A j \in 1..(i - 1) : l[j] \in S
    BY <1>1
  <2>2. /\ before \in Seq(S) /\ Len(before) = IF 1 <= i - 1 THEN i - 1 - 1 + 1 ELSE 0
        /\ \A k \in 1..(i - 1 - 1 + 1) : before[k] = l[1 + k - 1]
    BY <1>1, <2>1, SubSeqProperties
  <2> HIDE DEF before
  <2>3. Len(before) = i - 1
    BY <1>1, <2>2
  <2>4. \A k \in 1..(i - 1) : k \in 1..(i - 1 - 1 + 1) /\ 1 + k - 1 = k
    BY <1>1
  <2> QED
    BY <2>2, <2>3, <2>4
<1>3. after \in Seq(S) /\ Len(after) = Len(l) - i /\ \A k \in 1..(Len(l) - i) : after[k] = l[i + k]
  <2>1. \A j \in (i + 1)..Len(l) : l[j] \in S
    BY <1>1
  <2>2. /\ after \in Seq(S) /\ Len(after) = IF i + 1 <= Len(l) THEN Len(l) - (i + 1) + 1 ELSE 0
        /\ \A k \in 1..(Len(l) - (i + 1) + 1) : after[k] = l[i + 1 + k - 1]
    BY <1>1, <2>1, SubSeqProperties
  <2> HIDE DEF after
  <2>3. Len(after) = Len(l) - i
    BY <1>1, <2>2
  <2>4. \A k \in 1..(Len(l) - i) : k \in 1..(Len(l) - (i + 1) + 1) /\ i + 1 + k - 1 = i + k
    BY <1>1
  <2> QED
    BY <2>2, <2>3, <2>4
<1> HIDE DEF before, after
<1>4. RemoveAt(l, i) = before \o after
  BY DEF RemoveAt, before, after
<1>5. /\ before \o after \in Seq(S) /\ Len(before \o after) = Len(before) + Len(after)
      /\ \A k \in 1..(Len(before) + Len(after)) :
            (before \o after)[k] = IF k <= Len(before) THEN before[k] ELSE after[k - Len(before)]
  BY <1>2, <1>3, ConcatProperties
<1>6. ASSUME NEW k \in DOMAIN (before \o after)  PROVE \E j \in DOMAIN l : (before \o after)[k] = l[j]
  <2>1. k \in 1..(Len(before) + Len(after))
    BY <1>5
  <2>2. CASE k <= Len(before)
    BY <1>1, <1>2, <1>5, <2>1, <2>2
  <2>3. CASE k > Len(before)
    <3>1. k - Len(before) \in 1..(Len(l) - i)
      BY <1>1, <1>2, <1>3, <2>1, <2>3
    <3>2. (before \o after)[k] = l[i + (k - Len(before))]
      BY <1>1, <1>2, <1>3, <1>5, <2>1, <2>3, <3>1
    <3> QED
      BY <1>1, <3>1, <3>2
  <2> QED
    BY <1>1, <1>2, <1>3, <2>1, <2>2, <2>3
<1> QED
  BY <1>4, <1>5, <1>6

LEMMA DroppedVouches ==
  ASSUME RegistrationInv, NEW prefix
  PROVE  Dropped(prefix) \in Seq(RangeEntry) /\ \A k \in DOMAIN Dropped(prefix) : Vouches(Dropped(prefix)[k])
<1>1. ranges \in Seq(RangeEntry) /\ \A j \in DOMAIN ranges : Vouches(ranges[j])
  BY DEF RegistrationInv, RegistrationTypes, CacheInv
<1>2. CASE Entry(prefix) = {}
  BY <1>1, <1>2 DEF Dropped
<1>3. CASE Entry(prefix) # {}
  <2>1. PICK i \in DOMAIN ranges : Dropped(prefix) = RemoveAt(ranges, i)
    <3> DEFINE i == CHOOSE i \in Entry(prefix) : TRUE
    <3>1. i \in Entry(prefix)
      BY <1>3
    <3>2. i \in DOMAIN ranges
      BY <3>1 DEF Entry
    <3> QED
      BY <1>3, <3>2 DEF Dropped
  <2> QED
    BY <1>1, <2>1, Removed
<1> QED
  BY <1>2, <1>3

LEMMA Submitted ==
  ASSUME RegistrationInv, NEW r \in Registrants, NEW e \in Emails, NEW s \in Passwords, NEW agrees \in 0..legal,
         Submit(r, e, s, agrees)
  PROVE  RegistrationInv'
<1> DEFINE q == [NoSignup EXCEPT !.pc = "screen", !.email = e, !.secret = s, !.agrees = agrees]
           known == UNION {ranges[i].known : i \in Cached(s.prefix)}
<1>1. q \in SignupRecord /\ q.pc = "screen" /\ q.secret = s /\ q.agrees = agrees
  <2>1. e \in Addresses /\ NoSignup \in SignupRecord /\ agrees \in Nat
    BY NoSignupIs DEF Addresses, RegistrationInv, RegistrationTypes
  <2>2. q \in SignupRecord
    BY <2>1 DEF SignupRecord, SignupPcs
  <2>3. q.pc = "screen"
    BY <2>1 DEF SignupRecord, SignupPcs
  <2>4. q.secret = s
    BY <2>1 DEF SignupRecord, SignupPcs
  <2>5. q.agrees = agrees
    BY <2>1 DEF SignupRecord, SignupPcs
  <2> QED
    BY <2>2, <2>3, <2>4, <2>5
<1>6. legal = 0 => q.agrees = 0
  BY <1>1
<1>2. SignupStands(q) /\ s.prefix \in AllPrefixes
  <2> HIDE DEF q
  <2> QED
    BY <1>1, <1>6 DEF SignupStands, AllPrefixes
<1>3. UNCHANGED <<world, users, codes>>
  BY DEF Submit, world
<1>4. CASE Cached(s.prefix) # {}
  <2> DEFINE n == AssertPasswordNotCompromised(q, known)
  <2>1. signup' = [signup EXCEPT ![r] = n] /\ UNCHANGED <<ranges, inFlight>>
    BY <1>4 DEF Submit
  <2>2. PICK i \in DOMAIN ranges : i \in Cached(s.prefix)
    BY <1>4 DEF Cached, Entry
  <2>3. ranges[i] \in RangeEntry /\ Vouches(ranges[i]) /\ ranges[i].prefix = s.prefix /\ ranges[i].expires > day
    BY <2>2 DEF Cached, Entry, RegistrationInv, RegistrationTypes, CacheInv
  <2>4. s \notin known => leaked[s] > day - RangeTtl - FetchTimeout
    <3> SUFFICES ASSUME s \notin known  PROVE leaked[s] > day - RangeTtl - FetchTimeout
      OBVIOUS
    <3>1. s \notin ranges[i].known
      BY <2>2
    <3>2. leaked[s] >= ranges[i].expires - RangeTtl - FetchTimeout
      BY <2>3, <3>1 DEF Vouches, CleanSince
    <3>3. /\ leaked[s] \in Nat /\ day \in Nat /\ ranges[i].expires \in Nat /\ RangeTtl \in Nat
             /\ FetchTimeout \in Nat
      BY <2>3, RegistrationsAssumption DEF RangeEntry, RegistrationInv, RegistrationTypes
    <3> QED
      BY <2>3, <3>2, <3>3
  <2> HIDE DEF known, q
  <2>5. n \in SignupRecord /\ SignupStands(n)
    BY <1>1, <1>6, <2>4, AnswerStands DEF RegistrationInv
  <2> QED
    BY <1>3, <2>1, <2>5, RequestMoves
<1>5. CASE Cached(s.prefix) = {}
  <2> HIDE DEF q
  <2>1. /\ signup' = [signup EXCEPT ![r] = q] /\ ranges' = Dropped(s.prefix)
        /\ \/ inFlight' = inFlight
           \/ inFlight' = [inFlight EXCEPT ![s.prefix] = [NoFetch EXCEPT !.asked = day]]
    BY <1>5 DEF Submit, q
  <2>2. signup' \in [Registrants -> SignupRecord] /\ \A x \in Registrants : SignupStands(signup'[x])
    BY <1>1, <1>2, <2>1 DEF RegistrationInv, RegistrationTypes, SignupInv
  <2>3. ranges' \in Seq(RangeEntry) /\ \A k \in DOMAIN ranges' : Vouches(ranges'[k])
    BY <2>1, DroppedVouches
  <2>4. inFlight' \in [AllPrefixes -> Fetch] /\ \A f \in AllPrefixes : Fetches(f, inFlight'[f])
    <3> DEFINE new == [NoFetch EXCEPT !.asked = day]
    <3>1. new \in Fetch /\ new.asked = day /\ ~ new.answered
      BY DEF NoFetch, Fetch, RegistrationInv, RegistrationTypes
    <3>2. Fetches(s.prefix, new)
      BY <3>1, RegistrationsAssumption DEF Fetches, RegistrationInv, RegistrationTypes
    <3> HIDE DEF new
    <3> QED
      BY <1>2, <2>1, <3>1, <3>2 DEF new, RegistrationInv, RegistrationTypes, FetchInv
  <2> QED
    BY <1>3, <2>2, <2>3, <2>4, RequestsMove
<1> QED
  BY <1>4, <1>5

\* The provider tells what was published by now; the rest comes later.
LEMMA Answered ==
  ASSUME RegistrationInv, NEW f \in AllPrefixes, Answer(f)
  PROVE  RegistrationInv'
<1> DEFINE known == {s \in Passwords : s.prefix = f /\ leaked[s] <= day}
           new == [inFlight[f] EXCEPT !.answered = TRUE, !.known = known]
<1>1. /\ inFlight' = [inFlight EXCEPT ![f] = new] /\ inFlight[f] # NoFetch
      /\ UNCHANGED <<world, ranges, signup, users, codes>>
  BY DEF Answer, world
<1>2. inFlight[f] \in Fetch
  BY DEF RegistrationInv, RegistrationTypes
<1>3. new \in Fetch /\ new.asked = inFlight[f].asked /\ new.answered /\ new.known = known
  BY <1>2 DEF Fetch
<1>4. inFlight[f].asked <= day /\ day - inFlight[f].asked <= FetchTimeout
  BY <1>1 DEF RegistrationInv, FetchInv, Fetches
<1>5. CleanSince(f, known, inFlight[f].asked)
  BY <1>2, <1>4 DEF CleanSince, Fetch, RegistrationInv, RegistrationTypes
<1>6. NoFetch.answered = FALSE
  BY DEF NoFetch
<1> HIDE DEF known, new
<1>7. Fetches(f, new)
  BY <1>3, <1>4, <1>5, <1>6 DEF Fetches
<1> QED
  BY <1>1, <1>3, <1>7, RequestsMove DEF RegistrationInv, RegistrationTypes, CacheInv, SignupInv, FetchInv

\* The fetch of a prefix is over, and whoever waited has his answer.
LEMMA FetchOver ==
  ASSUME RegistrationInv, NEW f \in AllPrefixes, inFlight' = [inFlight EXCEPT ![f] = NoFetch],
         UNCHANGED <<world, users, codes>>,
         ranges' \in Seq(RangeEntry), \A i \in DOMAIN ranges' : Vouches(ranges'[i]),
         signup' \in [Registrants -> SignupRecord], \A r \in Registrants : SignupStands(signup'[r])
  PROVE  RegistrationInv'
<1>1. NoFetch \in Fetch /\ Fetches(f, NoFetch)
  BY RegistrationsAssumption DEF NoFetch, Fetch, Fetches, Never
<1> QED
  BY <1>1, RequestsMove DEF RegistrationInv, RegistrationTypes, FetchInv

LEMMA WaiterFields ==
  ASSUME RegistrationInv, NEW f, NEW r \in Waiters(f)
  PROVE  /\ signup[r] \in SignupRecord /\ signup[r].secret \in Passwords /\ signup[r].secret.prefix = f
         /\ legal = 0 => signup[r].agrees = 0
  BY DEF Waiters, RegistrationInv, RegistrationTypes, SignupInv, SignupStands

LEMMA Arrived ==
  ASSUME RegistrationInv, NEW f \in AllPrefixes, Arrive(f)
  PROVE  RegistrationInv'
<1> DEFINE known == inFlight[f].known
           asked == inFlight[f].asked
           new == [prefix |-> f, known |-> known, expires |-> day + RangeTtl]
           kept == IF Len(ranges) >= MaxRanges THEN Tail(ranges) ELSE ranges
<1>1. inFlight[f] \in Fetch /\ Fetches(f, inFlight[f]) /\ inFlight[f].answered
  BY DEF Arrive, RegistrationInv, RegistrationTypes, FetchInv
<1>2. /\ known \subseteq Passwords /\ asked \in Nat /\ day \in Nat /\ RangeTtl \in Nat /\ FetchTimeout \in Nat
      /\ RangeTtl > 0 /\ leaked \in [Passwords -> Nat]
  BY <1>1, RegistrationsAssumption DEF Fetch, RegistrationInv, RegistrationTypes
<1>3. asked <= day /\ day - asked <= FetchTimeout /\ CleanSince(f, known, asked)
  BY <1>1 DEF Fetches
<1>4. /\ inFlight' = [inFlight EXCEPT ![f] = NoFetch] /\ UNCHANGED <<world, users, codes>>
      /\ ranges' = Append(kept, new)
      /\ signup' = [r \in Registrants |-> IF r \notin Waiters(f) THEN signup[r]
                                          ELSE AssertPasswordNotCompromised(signup[r], known)]
  BY DEF Arrive, StoreRange, world
<1>5. ranges' \in Seq(RangeEntry) /\ \A i \in DOMAIN ranges' : Vouches(ranges'[i])
  <2>1. new \in RangeEntry /\ new.prefix = f /\ new.known = known /\ new.expires = day + RangeTtl
    BY <1>2 DEF RangeEntry
  <2>2. CleanSince(f, known, day + RangeTtl - RangeTtl - FetchTimeout)
    BY <1>2, <1>3 DEF CleanSince
  <2>3. Vouches(new)
    BY <1>2, <2>1, <2>2 DEF Vouches
  <2>4. /\ kept \in Seq(RangeEntry)
        /\ \A i \in DOMAIN kept : \E j \in DOMAIN ranges : kept[i] = ranges[j]
    <3>1. ranges \in Seq(RangeEntry)
      BY DEF RegistrationInv, RegistrationTypes
    <3>2. CASE ranges = <<>>
      BY <3>1, <3>2
    <3>3. CASE ranges # <<>>
      <4>1. Tail(ranges) \in Seq(RangeEntry) /\ \A i \in DOMAIN Tail(ranges) : Tail(ranges)[i] = ranges[i + 1]
            /\ i + 1 \in DOMAIN ranges
        BY <3>1, <3>3
      <4> QED
        BY <3>1, <4>1
    <3> QED
      BY <3>2, <3>3
  <2>5. \A i \in DOMAIN kept : Vouches(kept[i])
    BY <2>4 DEF RegistrationInv, CacheInv
  <2> HIDE DEF kept, new
  <2> QED
    BY <1>4, <2>1, <2>3, <2>4, <2>5
<1>6. ASSUME NEW r \in Registrants  PROVE signup'[r] \in SignupRecord /\ SignupStands(signup'[r])
  <2>1. CASE r \in Waiters(f)
    <3>1. /\ signup[r] \in SignupRecord /\ signup[r].secret \in Passwords /\ signup[r].secret.prefix = f
          /\ legal = 0 => signup[r].agrees = 0
      BY <2>1, WaiterFields
    <3>2. signup[r].secret \notin known => leaked[signup[r].secret] >= asked /\ leaked[signup[r].secret] \in Nat
      BY <1>2, <1>3, <3>1 DEF CleanSince
    <3>3. signup[r].secret \notin known => leaked[signup[r].secret] > day - RangeTtl - FetchTimeout
      BY <1>2, <1>3, <3>2
    <3>4. signup'[r] = AssertPasswordNotCompromised(signup[r], known)
      BY <1>4, <2>1
    <3> QED
      BY <3>1, <3>3, <3>4, AnswerStands DEF RegistrationInv
  <2>2. CASE r \notin Waiters(f)
    BY <1>4, <2>2 DEF RegistrationInv, RegistrationTypes, SignupInv
  <2> QED
    BY <2>1, <2>2
<1>7. signup' \in [Registrants -> SignupRecord]
  BY <1>4, <1>6
<1> QED
  BY <1>4, <1>5, <1>6, <1>7, FetchOver

\* Without an answer nobody goes on who must be screened.
LEMMA FetchFailed ==
  ASSUME RegistrationInv, NEW f \in AllPrefixes, FetchFails(f)
  PROVE  RegistrationInv'
<1> DEFINE after(r) == AssertPasswordNotCompromised(signup[r], {})
<1>1. /\ inFlight' = [inFlight EXCEPT ![f] = NoFetch] /\ UNCHANGED <<world, ranges, users, codes>>
      /\ signup' = [r \in Registrants |-> IF r \notin Waiters(f) THEN signup[r]
                                          ELSE IF required THEN NoSignup ELSE [after(r) EXCEPT !.screened = -1]]
  BY DEF FetchFails, world
<1>2. ASSUME NEW r \in Registrants  PROVE signup'[r] \in SignupRecord /\ SignupStands(signup'[r])
  <2>1. CASE r \notin Waiters(f)
    BY <1>1, <2>1 DEF RegistrationInv, RegistrationTypes, SignupInv
  <2>2. CASE r \in Waiters(f) /\ required
    BY <1>1, <2>2, NoSignupIs, OthersStand
  <2>3. CASE r \in Waiters(f) /\ ~ required
    <3> DEFINE q == signup[r]
               n == [after(r) EXCEPT !.screened = -1]
    <3>1. q \in SignupRecord /\ q.secret \in Passwords /\ (legal = 0 => q.agrees = 0)
      BY <2>3, WaiterFields
    <3>2. /\ after(r) \in SignupRecord
          /\ after(r).pc = "create" => /\ after(r).secret = q.secret /\ after(r).agrees = q.agrees
                                       /\ legal = 0 \/ after(r).agrees = legal
          /\ after(r).pc \in {"idle", "create"}
      <4> DEFINE go == [q EXCEPT !.pc = "create", !.screened = day]
      <4>1. CASE legal # 0 /\ q.agrees # legal
        BY <4>1, NoSignupIs DEF AssertPasswordNotCompromised
      <4>2. CASE ~ (legal # 0 /\ q.agrees # legal)
        <5>1. after(r) = go
          BY <4>2 DEF AssertPasswordNotCompromised
        <5>2. day \in Int
          BY DEF RegistrationInv, RegistrationTypes
        <5>3. go \in SignupRecord /\ go.pc = "create" /\ go.secret = q.secret /\ go.agrees = q.agrees
          BY <3>1, <5>2, GoingOn
        <5> HIDE DEF go
        <5> HIDE DEF after
        <5> QED
          BY <4>2, <5>1, <5>3
      <4> QED
        BY <4>1, <4>2
    <3> HIDE DEF after
    <3>3. /\ n \in SignupRecord /\ n.pc = after(r).pc /\ n.screened = -1 /\ n.secret = after(r).secret
          /\ n.agrees = after(r).agrees
      BY <3>2 DEF SignupRecord
    <3>4. signup'[r] = n
      BY <1>1, <2>3
    <3> HIDE DEF n
    <3> QED
      BY <2>3, <3>1, <3>2, <3>3, <3>4 DEF SignupStands, ScreenedAt, RegistrationInv, RegistrationTypes
  <2> QED
    BY <2>1, <2>2, <2>3
<1>3. signup' \in [Registrants -> SignupRecord]
  BY <1>1, <1>2
<1> QED
  BY <1>1, <1>2, <1>3, FetchOver DEF RegistrationInv, RegistrationTypes, CacheInv

-----------------------------------------------------------------------------
(* Registrations: accounts, codes and the world *)

\* The world, the cache and the fetches stay; used codes stay used.
LEMMA AccountsMove ==
  ASSUME RegistrationInv, UNCHANGED <<world, ranges, inFlight>>,
         signup' \in [Registrants -> SignupRecord], SignupInv', codes' \in Seq(CodeRecord),
         \A u \in users' : \E id, consents : u \in AccountRecord(id, consents),
         AccountsInv'
  PROVE  RegistrationInv'
<1>1. RegistrationTypes'
  BY DEF world, RegistrationInv, RegistrationTypes
<1>2. CacheInv' /\ FetchInv'
  BY DEF world, RegistrationInv, CacheInv, FetchInv, Vouches, Fetches, CleanSince
<1> QED
  BY <1>1, <1>2 DEF RegistrationInv

LEMMA Created ==
  ASSUME RegistrationInv, NEW r \in Registrants, CreateAccount(r)
  PROVE  RegistrationInv'
<1> DEFINE q == signup[r]
           u == Account(q, Evidence(legal))
           on == [NoSignup EXCEPT !.pc = "issue", !.email = q.email]
<1>1. q \in SignupRecord /\ q.pc = "create" /\ SignupStands(q)
  BY DEF CreateAccount, RegistrationInv, RegistrationTypes, SignupInv
<1>2. q.secret \in Passwords /\ ScreenedAt(q.secret, q.screened) /\ q.agrees = legal
  BY <1>1 DEF SignupStands
<1>3. UNCHANGED <<world, ranges, inFlight, codes>>
  BY DEF CreateAccount, world
<1>4. CASE /\ Unique(q.email) /\ users' = users \cup {u}
           /\ signup' = [signup EXCEPT ![r] = on]
  <2>2. on \in SignupRecord /\ on.pc = "issue"
    <3>1. q.email \in Addresses
      BY <1>1 DEF SignupRecord
    <3> HIDE DEF q
    <3> QED
      BY <3>1, ToIssue, Zenon
  <2>3. u \in AccountRecord(Cardinality(users), Evidence(legal))
    BY <1>1, <1>2 DEF AccountRecord, SignupRecord, Account
  <2>4. /\ u.email = q.email /\ u.secret = q.secret /\ u.screened = q.screened /\ ~ u.verified
        /\ u.agreed = q.agrees /\ u.consents = Evidence(legal)
    BY DEF Account
  <2> HIDE DEF u, on, q
  <2>5. u.consents = Evidence(u.agreed)
    BY <1>2, <2>4
  <2>6. AccountStands(u)
    BY <1>2, <2>4, <2>5 DEF AccountStands
  <2>7. AccountsInv'
    <3>1. \A v \in users' : AccountStands(v)
      BY <1>4, <2>6 DEF RegistrationInv, AccountsInv
    <3>2. \A v \in users' : AccountStands(v)'
      BY <1>3, <3>1 DEF AccountStands, ScreenedAt, Used, world
    <3>3. \A v \in users : v.email # u.email
      BY <1>4, <2>4 DEF Unique
    <3>4. \A v, w \in users' : v.email = w.email => v = w
      BY <1>4, <3>3 DEF RegistrationInv, AccountsInv
    <3> QED
      BY <3>2, <3>4 DEF AccountsInv
  <2>8. SignupStands(on)
    BY <2>2, OthersStand
  <2>9. signup' \in [Registrants -> SignupRecord] /\ \A x \in Registrants : SignupStands(signup'[x])
    BY <1>4, <2>2, <2>8 DEF RegistrationInv, RegistrationTypes, SignupInv
  <2>10. SignupInv'
    BY <1>3, <2>9 DEF SignupInv, SignupStands, ScreenedAt, Used, world
  <2>11. codes' \in Seq(CodeRecord) /\ \A v \in users' : \E id, consents : v \in AccountRecord(id, consents)
    BY <1>3, <1>4, <2>3 DEF RegistrationInv, RegistrationTypes
  <2> QED
    BY <1>3, <2>7, <2>9, <2>10, <2>11, AccountsMove
<1>5. CASE RollBack(q) /\ signup' = [signup EXCEPT ![r] = NoSignup]
  <2>1. NoSignup \in SignupRecord /\ SignupStands(NoSignup)
    BY NoSignupIs, OthersStand
  <2>2. users' = users
    BY <1>5 DEF RollBack
  <2> QED
    BY <1>3, <1>5, <2>1, <2>2, RequestMoves
<1> QED
  BY <1>4, <1>5 DEF CreateAccount

LEMMA VerificationRequested ==
  ASSUME RegistrationInv, NEW r \in Registrants, NEW e \in Emails, RequestEmailVerification(r, e)
  PROVE  RegistrationInv'
<1> DEFINE q == [NoSignup EXCEPT !.pc = "issue", !.email = e]
<1>1. q \in SignupRecord /\ q.pc = "issue"
  <2>1. e \in Addresses
    BY DEF Addresses
  <2> QED
    BY <2>1, ToIssue, Zenon
<1>2. signup' = [signup EXCEPT ![r] = q] /\ UNCHANGED <<world, ranges, inFlight, users, codes>>
  BY DEF RequestEmailVerification, world
<1> HIDE DEF q
<1>3. SignupStands(q)
  BY <1>1, OthersStand
<1>4. q \in SignupRecord
  BY <1>1
<1> QED
  BY <1>2, <1>3, <1>4, RequestMoves

\* What codes verified, they have verified as long as none that is used becomes good again.
LEMMA CodesMove ==
  ASSUME RegistrationInv, UNCHANGED <<world, ranges, inFlight, users>>, codes' \in Seq(CodeRecord),
         \A i \in DOMAIN codes : i \in DOMAIN codes' /\ codes'[i].email = codes[i].email
                                 /\ (codes[i].state = "consumed" => codes'[i].state = "consumed"),
         NEW r \in Registrants, NEW q \in SignupRecord, q.pc \in {"idle", "verify"}, q.pc = "verify"
         => Used(q.email)',
         signup' = [signup EXCEPT ![r] = q]
  PROVE  RegistrationInv'
<1>1. \A e : Used(e) => Used(e)'
  BY DEF Used
<1>2. \A s, d : ScreenedAt(s, d) => ScreenedAt(s, d)'
  BY DEF world, ScreenedAt
<1>3. SignupInv'
  <2>1. \A x \in Registrants : signup'[x] = IF x = r THEN q ELSE signup[x]
    BY DEF RegistrationInv, RegistrationTypes
  <2>2. \A x \in Registrants : SignupStands(signup[x])
    BY DEF RegistrationInv, SignupInv
  <2>3. ASSUME NEW x \in Registrants  PROVE SignupStands(signup[x])'
    <3>1. CASE x = r
      BY <2>1, <3>1 DEF SignupStands
    <3>2. CASE x # r
      BY <1>1, <1>2, <2>1, <2>2, <3>2 DEF SignupStands, world
    <3> QED
      BY <3>1, <3>2
  <2> QED
    BY <2>3 DEF SignupInv
<1>4. AccountsInv'
  BY <1>1, <1>2 DEF AccountsInv, AccountStands, RegistrationInv
<1>5. signup' \in [Registrants -> SignupRecord]
  BY DEF RegistrationInv, RegistrationTypes
<1>6. \A u \in users' : \E id, consents : u \in AccountRecord(id, consents)
  BY DEF RegistrationInv, RegistrationTypes
<1> QED
  BY <1>3, <1>4, <1>5, <1>6, AccountsMove

LEMMA ActionIssued ==
  ASSUME RegistrationInv, NEW r \in Registrants, IssueAuthAction(r)
  PROVE  RegistrationInv'
<1> DEFINE e == signup[r].email
           new == [email |-> e, expires |-> day + CodeTtl, state |-> "good"]
           closed == [i \in DOMAIN codes |-> Superseded(codes[i], e)]
<1>1. codes' = Append(closed, new) /\ signup' = [signup EXCEPT ![r] = NoSignup]
      /\ UNCHANGED <<world, ranges, inFlight, users>>
  BY DEF IssueAuthAction, world
<1>2. codes \in Seq(CodeRecord) /\ signup[r] \in SignupRecord /\ day \in Nat /\ CodeTtl \in Nat
  BY RegistrationsAssumption DEF RegistrationInv, RegistrationTypes
<1>3. new \in CodeRecord
  BY <1>2 DEF CodeRecord, SignupRecord
<1>4. ASSUME NEW i \in DOMAIN codes
      PROVE  /\ closed[i] \in CodeRecord /\ closed[i].email = codes[i].email
             /\ codes[i].state = "consumed" => closed[i].state = "consumed"
  <2>1. codes[i] \in CodeRecord /\ closed[i] = Superseded(codes[i], e)
    BY <1>2
  <2> HIDE DEF closed, e
  <2> QED
    BY <2>1 DEF CodeRecord, Superseded
<1>5. closed \in Seq(CodeRecord) /\ DOMAIN closed = DOMAIN codes /\ Len(closed) = Len(codes)
  <2>1. DOMAIN codes = 1..Len(codes) /\ Len(codes) \in Nat
    BY <1>2
  <2>2. closed \in [1..Len(codes) -> CodeRecord]
    BY <1>4, <2>1
  <2> HIDE DEF closed
  <2> QED
    BY <2>1, <2>2
<1> HIDE DEF closed, new
<1>6. codes' \in Seq(CodeRecord) /\ \A i \in DOMAIN codes : i \in DOMAIN codes' /\ codes'[i] = closed[i]
  BY <1>1, <1>2, <1>3, <1>5
<1> QED
  BY <1>1, <1>4, <1>6, NoSignupIs, CodesMove

LEMMA CodeConsumed ==
  ASSUME RegistrationInv, NEW r \in Registrants, NEW i \in DOMAIN codes, ConsumeCode(r, i)
  PROVE  RegistrationInv'
<1> DEFINE e == codes[i].email
           q == [NoSignup EXCEPT !.pc = "verify", !.email = e]
           spent == [codes[i] EXCEPT !.state = "consumed"]
<1>1. codes' = [codes EXCEPT ![i] = spent] /\ signup' = [signup EXCEPT ![r] = q]
      /\ UNCHANGED <<world, ranges, inFlight, users>>
  BY DEF ConsumeCode, world
<1>2. codes \in Seq(CodeRecord) /\ codes[i] \in CodeRecord
  BY DEF RegistrationInv, RegistrationTypes
<1>3. spent \in CodeRecord /\ spent.email = e /\ spent.state = "consumed"
  BY <1>2 DEF CodeRecord
<1>4. q \in SignupRecord /\ q.pc = "verify" /\ q.email = e
  <2>1. e \in Addresses /\ NoSignup \in SignupRecord
    BY <1>2, NoSignupIs DEF CodeRecord
  <2> HIDE DEF e
  <2>2. q \in SignupRecord
    BY <2>1 DEF SignupRecord, SignupPcs
  <2>3. q.pc = "verify"
    BY <2>1 DEF SignupRecord, SignupPcs
  <2>4. q.email = e
    BY <2>1 DEF SignupRecord, SignupPcs
  <2> QED
    BY <2>2, <2>3, <2>4
<1> HIDE DEF spent, q
<1>5. codes' \in Seq(CodeRecord) /\ DOMAIN codes' = DOMAIN codes /\ codes'[i] = spent
      /\ \A k \in DOMAIN codes : k # i => codes'[k] = codes[k]
  BY <1>1, <1>2, <1>3
<1>6. Used(e)'
  BY <1>3, <1>5 DEF Used
<1> QED
  BY <1>1, <1>3, <1>4, <1>5, <1>6, CodesMove

LEMMA EmailVerified ==
  ASSUME RegistrationInv, NEW r \in Registrants, MarkEmailVerified(r)
  PROVE  RegistrationInv'
<1> DEFINE e == signup[r].email
           marked(u) == [u EXCEPT !.verified = @ \/ u.email = e]
<1>1. /\ users' = {marked(u) : u \in users} /\ signup' = [signup EXCEPT ![r] = NoSignup]
      /\ UNCHANGED <<world, ranges, inFlight, codes>>
  BY DEF MarkEmailVerified, world
<1>2. Used(e)
  BY DEF MarkEmailVerified, RegistrationInv, SignupInv, SignupStands
<1>3. ASSUME NEW u \in users
      PROVE  /\ \E id, consents : marked(u) \in AccountRecord(id, consents)
             /\ AccountStands(marked(u)) /\ marked(u).email = u.email
  <2>1. PICK id, consents : u \in AccountRecord(id, consents)
    BY DEF RegistrationInv, RegistrationTypes
  <2>2. (u.verified \/ u.email = e) \in BOOLEAN /\ marked(u) = [u EXCEPT !.verified = u.verified \/ u.email = e]
    BY <2>1
  <2>3. /\ marked(u) \in AccountRecord(id, consents) /\ marked(u).email = u.email /\ marked(u).secret = u.secret
        /\ marked(u).screened = u.screened /\ marked(u).agreed = u.agreed /\ marked(u).consents = u.consents
        /\ marked(u).verified = (u.verified \/ u.email = e)
    BY <2>1, <2>2 DEF AccountRecord
  <2>4. AccountStands(u)
    BY DEF RegistrationInv, AccountsInv
  <2> HIDE DEF marked
  <2>5. AccountStands(marked(u))
    BY <1>2, <2>3, <2>4 DEF AccountStands
  <2> QED
    BY <2>3, <2>5
<1> HIDE DEF marked, e
<1>4. AccountsInv'
  <2>1. \A v \in users' : AccountStands(v)'
    BY <1>1, <1>3 DEF AccountStands, ScreenedAt, Used, world
  <2>2. ASSUME NEW v \in users', NEW w \in users', v.email = w.email  PROVE v = w
    <3>1. PICK a \in users : v = marked(a)
      BY <1>1
    <3>2. PICK b \in users : w = marked(b)
      BY <1>1
    <3>3. a.email = b.email
      BY <1>3, <2>2, <3>1, <3>2
    <3> QED
      BY <3>1, <3>2, <3>3 DEF RegistrationInv, AccountsInv
  <2> QED
    BY <2>1, <2>2 DEF AccountsInv
<1>5. \A u \in users' : \E id, consents : u \in AccountRecord(id, consents)
  BY <1>1, <1>3
<1>6. NoSignup \in SignupRecord /\ SignupStands(NoSignup)
  BY NoSignupIs, OthersStand
<1>7. signup' \in [Registrants -> SignupRecord] /\ \A x \in Registrants : SignupStands(signup'[x])
  BY <1>1, <1>6 DEF RegistrationInv, RegistrationTypes, SignupInv
<1>8. SignupInv'
  BY <1>1, <1>7 DEF SignupInv, SignupStands, ScreenedAt, Used, world
<1>9. codes' \in Seq(CodeRecord)
  BY <1>1 DEF RegistrationInv, RegistrationTypes
<1> QED
  BY <1>1, <1>4, <1>5, <1>7, <1>8, <1>9, AccountsMove

\* A password that is published now was not published before any answer there is.
LEMMA Leaked ==
  ASSUME RegistrationInv, NEW s \in Passwords, Leak(s)
  PROVE  RegistrationInv'
<1>1. leaked' = [leaked EXCEPT ![s] = day]
      /\ UNCHANGED <<day, required, legal, ranges, inFlight, signup, users, codes>>
  BY DEF Leak
<1>2. RegistrationTypes /\ RegistrationTypes'
  BY <1>1 DEF RegistrationInv, RegistrationTypes
<1>3. day \in Nat /\ RangeTtl \in Nat /\ FetchTimeout \in Nat /\ RangeTtl > 0
  BY <1>2, RegistrationsAssumption DEF RegistrationTypes
<1>4. \A p \in Passwords : leaked'[p] = IF p = s THEN day ELSE leaked[p]
  BY <1>1, <1>2 DEF RegistrationTypes
<1>5. ASSUME NEW prefix, NEW known, NEW since, since <= day, CleanSince(prefix, known, since)
      PROVE  CleanSince(prefix, known, since)'
  BY <1>4, <1>5 DEF CleanSince
<1>6. CacheInv'
  <2>1. ASSUME NEW i \in DOMAIN ranges  PROVE Vouches(ranges[i])'
    <3>1. ranges[i] \in RangeEntry /\ Vouches(ranges[i])
      BY <1>2 DEF RegistrationTypes, RegistrationInv, CacheInv
    <3>2. ranges[i].expires \in Nat /\ ranges[i].expires <= day + RangeTtl
      BY <3>1 DEF RangeEntry, Vouches
    <3>3. ranges[i].expires - RangeTtl - FetchTimeout <= day
      BY <1>3, <3>2
    <3>4. CleanSince(ranges[i].prefix, ranges[i].known, ranges[i].expires - RangeTtl - FetchTimeout)'
      BY <1>1, <1>5, <3>1, <3>3 DEF Vouches, CleanSince
    <3> QED
      BY <1>1, <3>2, <3>4 DEF Vouches
  <2> QED
    BY <1>1, <2>1 DEF CacheInv
<1>7. FetchInv'
  <2>1. ASSUME NEW f \in AllPrefixes  PROVE Fetches(f, inFlight[f])'
    <3>1. Fetches(f, inFlight[f])
      BY DEF RegistrationInv, FetchInv
    <3> QED
      BY <1>1, <1>5, <3>1 DEF Fetches, CleanSince
  <2> QED
    BY <1>1, <2>1 DEF FetchInv
<1>8. ASSUME NEW p \in Passwords, NEW d \in Int, ScreenedAt(p, d)  PROVE ScreenedAt(p, d)'
  BY <1>1, <1>3, <1>4, <1>8 DEF ScreenedAt
<1>9. SignupInv'
  <2>1. ASSUME NEW r \in Registrants  PROVE SignupStands(signup[r])'
    <3>1. signup[r].screened \in Int /\ SignupStands(signup[r])
      BY <1>2 DEF RegistrationTypes, SignupRecord, RegistrationInv, SignupInv
    <3> QED
      BY <1>1, <1>8, <3>1 DEF SignupStands, Used
  <2> QED
    BY <1>1, <2>1 DEF SignupInv
<1>10. AccountsInv'
  <2>1. ASSUME NEW u \in users  PROVE AccountStands(u)'
    <3>1. AccountStands(u)
      BY DEF RegistrationInv, AccountsInv
    <3>2. u.secret \in Passwords /\ u.screened \in Int
      BY <1>2 DEF RegistrationTypes, AccountRecord
    <3> QED
      BY <1>1, <1>8, <3>1, <3>2 DEF AccountStands, Used
  <2> QED
    BY <1>1, <2>1 DEF RegistrationInv, AccountsInv
<1> QED
  BY <1>2, <1>6, <1>7, <1>9, <1>10 DEF RegistrationInv

LEMMA DayPassed ==
  ASSUME RegistrationInv, DayPasses
  PROVE  RegistrationInv'
<1>1. day' = day + 1 /\ UNCHANGED <<required, legal, leaked, ranges, inFlight, signup, users, codes>>
  BY DEF DayPasses
<1>2. RegistrationTypes /\ RegistrationTypes'
  BY <1>1 DEF RegistrationInv, RegistrationTypes
<1>3. day \in Nat /\ RangeTtl \in Nat
  BY <1>2, RegistrationsAssumption DEF RegistrationTypes
<1>4. CacheInv'
  <2>1. ASSUME NEW i \in DOMAIN ranges  PROVE Vouches(ranges[i])'
    <3>1. ranges[i] \in RangeEntry /\ Vouches(ranges[i])
      BY <1>2 DEF RegistrationTypes, RegistrationInv, CacheInv
    <3> QED
      BY <1>1, <1>3, <3>1 DEF RangeEntry, Vouches, CleanSince
  <2> QED
    BY <1>1, <2>1 DEF CacheInv
<1>5. FetchInv'
  <2>1. ASSUME NEW f \in AllPrefixes  PROVE Fetches(f, inFlight[f])'
    <3>1. Fetches(f, inFlight[f]) /\ inFlight[f].asked \in Nat
      BY <1>2 DEF RegistrationInv, RegistrationTypes, FetchInv, Fetch
    <3>2. inFlight[f] # NoFetch => day' - inFlight[f].asked <= FetchTimeout
      BY DEF DayPasses
    <3> QED
      BY <1>1, <1>3, <3>1, <3>2 DEF Fetches, CleanSince, NoFetch, Never
  <2> QED
    BY <1>1, <2>1 DEF FetchInv
<1>6. ASSUME NEW p, NEW d \in Int, ScreenedAt(p, d)  PROVE ScreenedAt(p, d)'
  BY <1>1, <1>3, <1>6 DEF ScreenedAt
<1>7. SignupInv'
  <2>1. ASSUME NEW r \in Registrants  PROVE SignupStands(signup[r])'
    <3>1. signup[r].screened \in Int /\ SignupStands(signup[r])
      BY <1>2 DEF RegistrationTypes, SignupRecord, RegistrationInv, SignupInv
    <3> QED
      BY <1>1, <1>6, <3>1 DEF SignupStands, Used
  <2> QED
    BY <1>1, <2>1 DEF SignupInv
<1>8. AccountsInv'
  <2>1. ASSUME NEW u \in users  PROVE AccountStands(u)'
    <3>1. AccountStands(u) /\ u.screened \in Int
      BY <1>2 DEF RegistrationInv, AccountsInv, RegistrationTypes, AccountRecord
    <3> QED
      BY <1>1, <1>6, <3>1 DEF AccountStands, Used
  <2> QED
    BY <1>1, <2>1 DEF RegistrationInv, AccountsInv
<1> QED
  BY <1>2, <1>4, <1>5, <1>7, <1>8 DEF RegistrationInv

LEMMA Deployed ==
  ASSUME RegistrationInv, NEW version \in Nat, Deploy(version)
  PROVE  RegistrationInv'
<1>1. /\ legal' = version /\ ranges' = <<>> /\ inFlight' = [f \in AllPrefixes |-> NoFetch]
      /\ signup' = [r \in Registrants |-> NoSignup] /\ UNCHANGED <<day, required, leaked, users, codes>>
  BY DEF Deploy
<1>2. NoFetch \in Fetch
  BY RegistrationsAssumption DEF NoFetch, Fetch, Never
<1>3. RegistrationTypes'
  BY <1>1, <1>2, NoSignupIs DEF RegistrationInv, RegistrationTypes
<1>4. CacheInv'
  BY <1>1 DEF CacheInv
<1>5. FetchInv'
  BY <1>1 DEF FetchInv, Fetches, NoFetch
<1>6. SignupInv'
  BY <1>1, NoSignupIs DEF SignupInv, SignupStands
<1>7. AccountsInv'
  BY <1>1 DEF RegistrationInv, AccountsInv, AccountStands, ScreenedAt, Used
<1> QED
  BY <1>3, <1>4, <1>5, <1>6, <1>7 DEF RegistrationInv

LEMMA RegistrationStep == RegistrationInv /\ [RegistrationsNext]_registrationsVars => RegistrationInv'
<1> SUFFICES ASSUME RegistrationInv, [RegistrationsNext]_registrationsVars  PROVE RegistrationInv'
  OBVIOUS
<1>1. legal \in Nat
  BY DEF RegistrationInv, RegistrationTypes
<1>2. ASSUME NEW r \in Registrants, NEW e \in Emails, NEW s \in Passwords, NEW v \in 0..legal,
             Submit(r, e, s, v)
      PROVE  RegistrationInv'
  BY <1>1, <1>2, Submitted
<1>3. ASSUME NEW r \in Registrants,
             \/ \E e \in Emails : RequestEmailVerification(r, e)
             \/ \E i \in DOMAIN codes : ConsumeCode(r, i)
             \/ CreateAccount(r) \/ IssueAuthAction(r) \/ MarkEmailVerified(r)
      PROVE  RegistrationInv'
  BY <1>3, VerificationRequested, CodeConsumed, Created, ActionIssued, EmailVerified
<1>4. ASSUME NEW f \in AllPrefixes, Answer(f) \/ Arrive(f) \/ FetchFails(f)  PROVE RegistrationInv'
  BY <1>4, Answered, Arrived, FetchFailed
<1>5. ASSUME NEW s \in Passwords, Leak(s)  PROVE RegistrationInv'
  BY <1>5, Leaked
<1>6. ASSUME NEW v \in legal..MaxLegal, Deploy(v)  PROVE RegistrationInv'
  BY <1>1, <1>6, Deployed
<1>7. CASE DayPasses
  BY <1>7, DayPassed
<1>8. CASE UNCHANGED registrationsVars
  BY <1>8, RequestsMove
     DEF registrationsVars, world, RegistrationInv, RegistrationTypes, CacheInv, FetchInv, SignupInv
<1> QED
  BY <1>2, <1>3, <1>4, <1>5, <1>6, <1>7, <1>8 DEF RegistrationsNext

LEMMA RegistrationsBegin == RegistrationsInit => RegistrationInv
<1> SUFFICES ASSUME RegistrationsInit  PROVE RegistrationInv
  OBVIOUS
<1>1. NoFetch \in Fetch /\ Never \in Nat
  BY RegistrationsAssumption DEF NoFetch, Fetch, Never
<1>2. RegistrationTypes
  BY <1>1, NoSignupIs DEF RegistrationsInit, RegistrationTypes
<1>3. CacheInv /\ FetchInv
  BY DEF RegistrationsInit, CacheInv, FetchInv, Fetches, NoFetch
<1>4. SignupInv
  BY NoSignupIs DEF RegistrationsInit, SignupInv, SignupStands
<1>5. AccountsInv
  BY DEF RegistrationsInit, AccountsInv
<1> QED
  BY <1>2, <1>3, <1>4, <1>5 DEF RegistrationInv

\* Whoever shares a fetch or an entry of the cache, an account is created only after its password was looked
\* for where it had to be, in an answer as young as the cache allows.
THEOREM PasswordsAreScreened == RegistrationsSpec => []ScreenedPassword
<1>1. RegistrationInv => ScreenedPassword
  BY DEF RegistrationInv, AccountsInv, AccountStands, ScreenedAt, ScreenedPassword
<1> QED
  BY <1>1, RegistrationsBegin, RegistrationStep, PTL DEF RegistrationsSpec

\* An address has one account, with the evidence of what its owner agreed to, verified by a code it was sent.
THEOREM AccountsAreOne == RegistrationsSpec => []OneAccount
<1>1. RegistrationInv => OneAccount
  BY DEF RegistrationInv, AccountsInv, AccountStands, Used, OneAccount
<1> QED
  BY <1>1, RegistrationsBegin, RegistrationStep, PTL DEF RegistrationsSpec

-----------------------------------------------------------------------------
(* Throttle: counting decisions *)

\* The decisions of a span of time.
Within(s, a, b) == {i \in DOMAIN s : a <= s[i] /\ s[i] < b}

LEMMA WithinIsFinite ==
  ASSUME NEW s \in Seq(Nat), NEW a \in Int, NEW b \in Int
  PROVE  IsFiniteSet(Within(s, a, b)) /\ Cardinality(Within(s, a, b)) \in Nat
<1>1. IsFiniteSet(1..Len(s)) /\ DOMAIN s = 1..Len(s)
  BY FS_Interval
<1>2. Within(s, a, b) \subseteq 1..Len(s)
  BY <1>1 DEF Within
<1> QED
  BY <1>1, <1>2, FS_Subset, FS_CardinalityType

\* A span in a wider one, as far as there are decisions, has no more of them.
LEMMA Wider ==
  ASSUME NEW s \in Seq(Nat), NEW a \in Int, NEW b \in Int, NEW c \in Int, NEW d \in Int,
         \A i \in DOMAIN s : a <= s[i] /\ s[i] < b => c <= s[i] /\ s[i] < d
  PROVE  Cardinality(Within(s, a, b)) <= Cardinality(Within(s, c, d))
<1>1. Within(s, a, b) \subseteq Within(s, c, d)
  BY DEF Within
<1> QED
  BY <1>1, WithinIsFinite, FS_Subset

\* Two adjoining spans have no more than both.
LEMMA Adjoining ==
  ASSUME NEW s \in Seq(Nat), NEW a \in Int, NEW b \in Int, NEW c \in Int
  PROVE  Cardinality(Within(s, a, c)) <= Cardinality(Within(s, a, b)) + Cardinality(Within(s, b, c))
<1> DEFINE all == Within(s, a, b) \cup Within(s, b, c)
<1>1. /\ IsFiniteSet(Within(s, a, b)) /\ IsFiniteSet(Within(s, b, c))
      /\ Cardinality(Within(s, a, b)) \in Nat /\ Cardinality(Within(s, b, c)) \in Nat
  BY WithinIsFinite
<1>2. Within(s, a, c) \subseteq all
  BY DEF Within
<1>3. /\ IsFiniteSet(all) /\ Cardinality(all) =
            Cardinality(Within(s, a, b)) + Cardinality(Within(s, b, c))
            - Cardinality(Within(s, a, b) \cap Within(s, b, c))
  BY <1>1, FS_Union
<1>4. Cardinality(Within(s, a, b) \cap Within(s, b, c)) \in Nat
  BY <1>1, FS_Intersection, FS_CardinalityType
<1>5. Cardinality(Within(s, a, c)) <= Cardinality(all) /\ Cardinality(Within(s, a, c)) \in Nat
  BY <1>2, <1>3, FS_Subset, WithinIsFinite
<1> QED
  BY <1>1, <1>3, <1>4, <1>5

\* One more decision is one more in the spans it falls into.
LEMMA OneMore ==
  ASSUME NEW s \in Seq(Nat), NEW x \in Nat, NEW a \in Int, NEW b \in Int
  PROVE  /\ Cardinality(Within(Append(s, x), a, b)) <= Cardinality(Within(s, a, b)) + 1
         /\ ~ (a <= x /\ x < b) => Within(Append(s, x), a, b) = Within(s, a, b)
<1> DEFINE n == Len(s) + 1
<1>1. /\ Append(s, x) \in Seq(Nat) /\ DOMAIN Append(s, x) = DOMAIN s \cup {n} /\ Append(s, x)[n] = x
      /\ \A i \in DOMAIN s : Append(s, x)[i] = s[i]
  OBVIOUS
<1>2. Within(Append(s, x), a, b) \subseteq Within(s, a, b) \cup {n}
  BY <1>1 DEF Within
<1>3. n \notin Within(s, a, b)
  BY DEF Within
<1>4. IsFiniteSet(Within(s, a, b)) /\ Cardinality(Within(s, a, b)) \in Nat
  BY WithinIsFinite
<1>5. /\ IsFiniteSet(Within(s, a, b) \cup {n})
      /\ Cardinality(Within(s, a, b) \cup {n}) = Cardinality(Within(s, a, b)) + 1
  BY <1>3, <1>4, FS_AddElement
<1>6. Cardinality(Within(Append(s, x), a, b)) <= Cardinality(Within(s, a, b)) + 1
  BY <1>2, <1>5, FS_Subset
<1>7. ASSUME ~ (a <= x /\ x < b)  PROVE Within(Append(s, x), a, b) = Within(s, a, b)
  BY <1>1, <1>7 DEF Within
<1> QED
  BY <1>6, <1>7

-----------------------------------------------------------------------------
(* Throttle: the invariant *)

LetIn(s, a, b) == Cardinality(Within(s, a, b))

\* By then everything is decided, and the window before it is not overdrawn.
Closed(t) == (\A i \in DOMAIN admitted : admitted[i] < t) /\ LetIn(admitted, t - Ttl, t) <= Limit

\* A row counts whatever was let in since its window began; the window before is not overdrawn either.
BucketRecord == [hits : Nat, windowEnds : Nat, blockedUntil : Nat]
RowStands(row) ==
    /\ row \in BucketRecord
    /\ Closed(row.windowEnds)
    /\ row.windowEnds - Ttl <= clock
    /\ row.windowEnds - Ttl >= 0
    /\ LetIn(admitted, row.windowEnds - Ttl, row.windowEnds) <= row.hits
    /\ LetIn(admitted, row.windowEnds - Ttl - Ttl, row.windowEnds - Ttl) <= Limit
    /\ row.blockedUntil = Unblocked \/ row.blockedUntil >= row.windowEnds
Fresh(row, at) == row \in BucketRecord /\ row.hits = 0 /\ row.windowEnds = at /\ row.blockedUntil = Unblocked

\* Without a row nothing was let in that a new window would have to know of.
BucketInv == (bucket = NoBucket /\ Closed(clock)) \/ RowStands(bucket)

\* One transaction has the row: it has inserted it, or has read what is committed.
HolderInv ==
    /\ \A h, g \in Hits : hit[h].pc \in {"inserted", "locked"} /\ hit[g].pc \in {"inserted", "locked"} => h = g
    /\ \A h \in Hits :
          /\ hit[h].pc \in {"idle", "found", "inserted", "locked"}
          /\ hit[h].pc = "inserted" => bucket = NoBucket /\ Closed(clock)
          /\ hit[h].pc = "locked" =>
                /\ hit[h].at \in Nat /\ hit[h].at <= clock
                /\ \/ Fresh(hit[h].row, hit[h].at) /\ Closed(hit[h].at)
                   \/ RowStands(bucket) /\ hit[h].row = bucket /\ bucket.windowEnds - Ttl <= hit[h].at

ThrottleInv ==
    /\ clock \in Nat /\ clock > 0 /\ admitted \in Seq(Nat) /\ DOMAIN hit = Hits
    /\ BucketInv /\ HolderInv
    /\ \A t \in Nat : LetIn(admitted, t, t + Ttl) <= 2 * Limit

LEMMA ThrottleConstants == Limit \in Nat /\ Ttl \in Nat /\ BlockFor \in Nat /\ Retention \in Nat /\ Limit > 0
    /\ Ttl > 0 /\ BlockFor >= Ttl
  BY ThrottleAssumption

\* What is decided by a time is decided later.
LEMMA StaysClosed ==
  ASSUME admitted \in Seq(Nat), NEW e \in Nat, NEW t \in Nat, e <= t, Closed(e)
  PROVE  Closed(t)
<1>1. \A i \in DOMAIN admitted : admitted[i] < t
      /\ (t - Ttl <= admitted[i] /\ admitted[i] < t => e - Ttl <= admitted[i] /\ admitted[i] < e)
  BY ThrottleConstants DEF Closed
<1>2. LetIn(admitted, t - Ttl, t) <= LetIn(admitted, e - Ttl, e)
  BY <1>1, ThrottleConstants, Wider DEF LetIn
<1>3. LetIn(admitted, t - Ttl, t) \in Nat /\ LetIn(admitted, e - Ttl, e) \in Nat
  BY ThrottleConstants, WithinIsFinite DEF LetIn
<1> QED
  BY <1>1, <1>2, <1>3, ThrottleConstants DEF Closed

\* A row that is overrun is over: its window and a block of it are closed.
LEMMA RowsEnd ==
  ASSUME admitted \in Seq(Nat), NEW row, RowStands(row), NEW t \in Nat, row.windowEnds <= t
  PROVE  Closed(t)
  BY StaysClosed DEF RowStands, BucketRecord

-----------------------------------------------------------------------------
(* Throttle: steps *)

\* A span that begins no earlier than the first of two windows has no more than both let in.
LEMMA OfTwoWindows ==
  ASSUME NEW s \in Seq(Nat), NEW a \in Int, NEW b \in Int, NEW c \in Int, NEW t \in Int, NEW u \in Int, a <= t,
         \A i \in DOMAIN s : s[i] < c, LetIn(s, a, b) <= Limit, LetIn(s, b, c) <= Limit
  PROVE  LetIn(s, t, u) <= 2 * Limit
<1>1. \A i \in DOMAIN s : t <= s[i] /\ s[i] < u => a <= s[i] /\ s[i] < c
  BY DEF LetIn
<1>2. LetIn(s, t, u) <= LetIn(s, a, c)
  BY <1>1, Wider DEF LetIn
<1>3. LetIn(s, a, c) <= LetIn(s, a, b) + LetIn(s, b, c)
  BY Adjoining DEF LetIn
<1>4. LetIn(s, t, u) \in Nat /\ LetIn(s, a, c) \in Nat /\ LetIn(s, a, b) \in Nat /\ LetIn(s, b, c) \in Nat
  BY WithinIsFinite DEF LetIn
<1> QED
  BY <1>2, <1>3, <1>4, ThrottleConstants

\* A new window begins at a time that is closed, and its row counts the one request there is.
LEMMA WindowBegins ==
  ASSUME ThrottleInv, NEW at \in Nat, at <= clock, Closed(at), admitted' = Append(admitted, at), clock' = clock,
         NEW row, row = [hits |-> 1, windowEnds |-> at + Ttl, blockedUntil |-> Unblocked]
  PROVE  RowStands(row)' /\ \A t \in Nat : LetIn(admitted', t, t + Ttl) <= 2 * Limit
<1>1. /\ admitted \in Seq(Nat) /\ Limit \in Nat /\ Ttl \in Nat /\ Limit > 0 /\ Ttl > 0
      /\ \A i \in DOMAIN admitted : admitted[i] < at
  BY ThrottleConstants DEF ThrottleInv, Closed
<1>2. /\ admitted' \in Seq(Nat) /\ DOMAIN admitted' = DOMAIN admitted \cup {Len(admitted) + 1}
      /\ admitted'[Len(admitted) + 1] = at /\ \A i \in DOMAIN admitted : admitted'[i] = admitted[i]
  BY <1>1
<1>3. \A a, b \in Int : LetIn(admitted, a, b) \in Nat /\ LetIn(admitted', a, b) \in Nat
      /\ LetIn(admitted', a, b) <= LetIn(admitted, a, b) + 1
  BY <1>1, <1>2, WithinIsFinite, OneMore DEF LetIn
<1>4. \A a, b \in Int : ~ (a <= at /\ at < b) => LetIn(admitted', a, b) = LetIn(admitted, a, b)
  BY <1>1, OneMore DEF LetIn
<1>5. LetIn(admitted, at, at + Ttl) = 0
  <2>1. Within(admitted, at, at + Ttl) = {}
    BY <1>1 DEF Within
  <2> QED
    BY <2>1, FS_EmptySet DEF LetIn
<1>6. LetIn(admitted', at - Ttl, at) <= Limit
  BY <1>1, <1>4 DEF Closed
<1>7. LetIn(admitted', at, at + Ttl) <= 1
  BY <1>1, <1>3, <1>5
<1>8. \A i \in DOMAIN admitted' : admitted'[i] < at + Ttl
  BY <1>1, <1>2
<1>9. RowStands(row)'
  <2>1. /\ row \in BucketRecord /\ row.hits = 1 /\ row.windowEnds = at + Ttl /\ row.blockedUntil = Unblocked
    BY <1>1 DEF BucketRecord, Unblocked
  <2>2. at + Ttl - Ttl = at /\ at + Ttl \in Nat
    BY <1>1
  <2>3. LetIn(admitted', at, at + Ttl) \in Nat
    BY <1>1, <1>3
  <2> QED
    BY <1>1, <1>6, <1>7, <1>8, <2>1, <2>2, <2>3 DEF RowStands, Closed
<1>10. ASSUME NEW t \in Nat  PROVE LetIn(admitted', t, t + Ttl) <= 2 * Limit
  <2> DEFINE late == t + Ttl
  <2>0. t \in Int /\ late \in Int /\ LetIn(admitted, t, late) <= 2 * Limit
    BY <1>1 DEF ThrottleInv
  <2> HIDE DEF late
  <2>1. CASE ~ (t <= at /\ at < late)
    <3>1. LetIn(admitted', t, late) = LetIn(admitted, t, late)
      BY <1>4, <2>0, <2>1
    <3> QED
      BY <2>0, <3>1 DEF late
  <2>2. CASE t <= at /\ at < late
    <3>1. at - Ttl \in Int /\ at + Ttl \in Int /\ at \in Int /\ at - Ttl <= t
      BY <1>1, <2>0, <2>2 DEF late
    <3>2. LetIn(admitted', at, at + Ttl) <= Limit
      <4>1. LetIn(admitted', at, at + Ttl) \in Nat
        BY <1>3, <3>1
      <4> QED
        BY <1>1, <1>7, <4>1
    <3>3. LetIn(admitted', t, late) <= 2 * Limit
      BY <1>2, <1>6, <1>8, <2>0, <3>1, <3>2, OfTwoWindows
    <3> QED
      BY <3>3 DEF late
  <2> QED
    BY <2>1, <2>2
<1> QED
  BY <1>9, <1>10

\* A request is let into the window of the row, within its limit.
LEMMA WindowGoesOn ==
  ASSUME ThrottleInv, NEW row, RowStands(row), NEW at \in Nat, at <= clock, at < row.windowEnds,
         row.hits + 1 <= Limit,
         row.windowEnds - Ttl <= at, admitted' = Append(admitted, at), clock' = clock,
         NEW next, next = [hits |-> row.hits + 1, windowEnds |-> row.windowEnds, blockedUntil |-> Unblocked]
  PROVE  RowStands(next)' /\ \A t \in Nat : LetIn(admitted', t, t + Ttl) <= 2 * Limit
<1> DEFINE E == row.windowEnds
           S == row.windowEnds - Ttl
<1>1. /\ admitted \in Seq(Nat) /\ Limit \in Nat /\ Ttl \in Nat /\ Limit > 0 /\ Ttl > 0
      /\ \A i \in DOMAIN admitted : admitted[i] < E
  BY ThrottleConstants DEF ThrottleInv, RowStands, Closed
<1>2. /\ admitted' \in Seq(Nat) /\ DOMAIN admitted' = DOMAIN admitted \cup {Len(admitted) + 1}
      /\ admitted'[Len(admitted) + 1] = at /\ \A i \in DOMAIN admitted : admitted'[i] = admitted[i]
  BY <1>1
<1>3. \A a, b \in Int : LetIn(admitted, a, b) \in Nat /\ LetIn(admitted', a, b) \in Nat
      /\ LetIn(admitted', a, b) <= LetIn(admitted, a, b) + 1
  BY <1>1, <1>2, WithinIsFinite, OneMore DEF LetIn
<1>4. \A a, b \in Int : ~ (a <= at /\ at < b) => LetIn(admitted', a, b) = LetIn(admitted, a, b)
  BY <1>1, OneMore DEF LetIn
<1>5. E \in Nat /\ row.hits \in Nat /\ S <= at /\ at < E /\ S \in Int /\ S >= 0 /\ E = S + Ttl /\ S <= clock
  BY <1>1 DEF RowStands, BucketRecord
<1>6. LetIn(admitted, S, E) <= row.hits /\ LetIn(admitted, S - Ttl, S) <= Limit
  BY DEF RowStands
<1> HIDE DEF S, E
<1>7. LetIn(admitted', S, E) <= row.hits + 1 /\ LetIn(admitted', S, E) <= Limit
  <2>1. S \in Int /\ E \in Int /\ row.hits \in Nat /\ row.hits + 1 <= Limit /\ Limit \in Nat
    BY <1>1, <1>5
  <2>2. LetIn(admitted', S, E) <= LetIn(admitted, S, E) + 1 /\ LetIn(admitted', S, E) \in Nat
        /\ LetIn(admitted, S, E) \in Nat
    BY <1>3, <2>1
  <2> QED
    BY <1>6, <2>1, <2>2
<1>8. LetIn(admitted', S - Ttl, S) <= Limit
  BY <1>1, <1>4, <1>5, <1>6
<1>9. \A i \in DOMAIN admitted' : admitted'[i] < E
  BY <1>1, <1>2, <1>5
<1>10. RowStands(next)'
  <2>1. /\ next \in BucketRecord /\ next.hits = row.hits + 1 /\ next.windowEnds = E
           /\ next.blockedUntil = Unblocked
    BY <1>5 DEF BucketRecord, Unblocked, E
  <2>2. E - Ttl = S
    BY DEF E, S
  <2> QED
    BY <1>1, <1>5, <1>7, <1>8, <1>9, <2>1, <2>2 DEF RowStands, Closed
<1>11. ASSUME NEW t \in Nat  PROVE LetIn(admitted', t, t + Ttl) <= 2 * Limit
  <2> DEFINE late == t + Ttl
  <2>0. t \in Int /\ late \in Int /\ LetIn(admitted, t, late) <= 2 * Limit
    BY <1>1 DEF ThrottleInv
  <2> HIDE DEF late
  <2>1. CASE ~ (t <= at /\ at < late)
    <3>1. LetIn(admitted', t, late) = LetIn(admitted, t, late)
      BY <1>4, <2>0, <2>1
    <3> QED
      BY <2>0, <3>1 DEF late
  <2>2. CASE t <= at /\ at < late
    <3>1. S - Ttl \in Int /\ S \in Int /\ E \in Int /\ S - Ttl <= t
      BY <1>1, <1>5, <2>0, <2>2 DEF late
    <3>2. LetIn(admitted', t, late) <= 2 * Limit
      BY <1>2, <1>7, <1>8, <1>9, <2>0, <3>1, OfTwoWindows
    <3> QED
      BY <3>2 DEF late
  <2> QED
    BY <2>1, <2>2
<1> QED
  BY <1>10, <1>11

LEMMA NoBucketIsNoRow == NoBucket \notin BucketRecord
<1>1. DOMAIN NoBucket = {"hits"}
  BY DEF NoBucket
<1>2. \A row \in BucketRecord : DOMAIN row = {"hits", "windowEnds", "blockedUntil"}
  BY DEF BucketRecord
<1>3. "windowEnds" \notin {"hits"}
  OBVIOUS
<1> QED
  BY <1>1, <1>2, <1>3

LEMMA BucketIs == ThrottleInv
    => (bucket = NoBucket => Closed(clock)) /\ (bucket # NoBucket => RowStands(bucket))
  BY NoBucketIsNoRow DEF ThrottleInv, BucketInv, RowStands

\* While nothing is decided the rows stand, and spans are as they were.
LEMMA NothingDecided ==
  ASSUME ThrottleInv, UNCHANGED <<clock, admitted>>
  PROVE  /\ \A t : Closed(t) => Closed(t)'
         /\ \A row : RowStands(row) => RowStands(row)'
         /\ \A t \in Nat : LetIn(admitted', t, t + Ttl) <= 2 * Limit
<1>1. \A t : Closed(t) => Closed(t)'
  BY DEF Closed
<1>2. \A row : RowStands(row) => RowStands(row)'
  BY DEF RowStands, Closed
<1>3. \A t \in Nat : LetIn(admitted', t, t + Ttl) <= 2 * Limit
  BY DEF ThrottleInv
<1> QED
  BY <1>1, <1>2, <1>3

\* A transaction moves next to the others.
LEMMA HitMoves ==
  ASSUME ThrottleInv, UNCHANGED <<clock, bucket, admitted>>, NEW h \in Hits, NEW q,
         hit' = [hit EXCEPT ![h] = q],
         q.pc \in {"idle", "found", "inserted", "locked"},
         q.pc \in {"inserted", "locked"} => \A g \in Hits : g # h => hit[g].pc \notin {"inserted", "locked"},
         q.pc = "inserted" => bucket = NoBucket /\ Closed(clock),
         q.pc = "locked" =>
            /\ q.at \in Nat /\ q.at <= clock
            /\ \/ Fresh(q.row, q.at) /\ Closed(q.at)
               \/ RowStands(bucket) /\ q.row = bucket /\ bucket.windowEnds - Ttl <= q.at
  PROVE  ThrottleInv'
<1>1. /\ \A t : Closed(t) => Closed(t)'
      /\ \A row : RowStands(row) => RowStands(row)'
      /\ \A t \in Nat : LetIn(admitted', t, t + Ttl) <= 2 * Limit
  BY NothingDecided
<1>2. DOMAIN hit' = Hits /\ \A g \in Hits : hit'[g] = IF g = h THEN q ELSE hit[g]
  BY DEF ThrottleInv
<1>3. BucketInv'
  BY <1>1 DEF ThrottleInv, BucketInv, RowStands, Closed
<1>4. HolderInv'
  <2>1. \A f, g \in Hits : hit'[f].pc \in {"inserted", "locked"} /\ hit'[g].pc \in {"inserted", "locked"}
        => f = g
    BY <1>2 DEF ThrottleInv, HolderInv
  <2>2. ASSUME NEW g \in Hits
        PROVE  /\ hit'[g].pc \in {"idle", "found", "inserted", "locked"}
               /\ hit'[g].pc = "inserted" => bucket = NoBucket /\ Closed(clock)
               /\ hit'[g].pc = "locked" =>
                     /\ hit'[g].at \in Nat /\ hit'[g].at <= clock
                     /\ \/ Fresh(hit'[g].row, hit'[g].at) /\ Closed(hit'[g].at)
                        \/ RowStands(bucket) /\ hit'[g].row = bucket /\ bucket.windowEnds - Ttl <= hit'[g].at
    BY <1>2 DEF ThrottleInv, HolderInv
  <2> QED
    BY <2>1, <2>2 DEF HolderInv, Fresh, RowStands, Closed
<1> QED
  BY <1>1, <1>2, <1>3, <1>4 DEF ThrottleInv

\* A transaction that holds the row ends, and the row is what it says.
LEMMA HolderEnds ==
  ASSUME ThrottleInv, clock' = clock, NEW h \in Hits, hit[h].pc = "locked", hit' = [hit EXCEPT ![h] = NoHit],
         admitted' \in Seq(Nat), RowStands(bucket)', \A t \in Nat : LetIn(admitted', t, t + Ttl) <= 2 * Limit
  PROVE  ThrottleInv'
<1>1. DOMAIN hit' = Hits /\ \A g \in Hits : hit'[g] = IF g = h THEN NoHit ELSE hit[g]
  BY DEF ThrottleInv
<1>2. NoHit.pc = "idle"
  BY DEF NoHit
<1>3. \A g \in Hits : hit'[g].pc \in {"idle", "found"}
  BY <1>1, <1>2 DEF ThrottleInv, HolderInv
<1>4. HolderInv'
  BY <1>3 DEF HolderInv
<1>5. BucketInv'
  BY DEF BucketInv
<1> QED
  BY <1>1, <1>4, <1>5 DEF ThrottleInv

LEMMA Inserted ==
  ASSUME ThrottleInv, NEW h \in Hits, Insert(h)
  PROVE  ThrottleInv'
<1> DEFINE q == [pc |-> IF bucket = NoBucket THEN "inserted" ELSE "found"]
<1>1. UNCHANGED <<clock, bucket, admitted>> /\ hit' = [hit EXCEPT ![h] = q]
  BY DEF Insert, Shifts
<1>2. bucket = NoBucket
      => q.pc = "inserted" /\ Closed(clock) /\ \A g \in Hits : hit[g].pc \notin {"inserted", "locked"}
  BY BucketIs DEF Insert, Held
<1>3. bucket # NoBucket => q.pc = "found"
  OBVIOUS
<1> HIDE DEF q
<1> QED
  BY <1>1, <1>2, <1>3, HitMoves

LEMMA Selected ==
  ASSUME ThrottleInv, NEW h \in Hits, SelectForUpdate(h)
  PROVE  ThrottleInv'
<1> DEFINE row == IF InTransaction(h, "inserted") THEN NewBucket ELSE bucket
           q == [pc |-> "locked", row |-> row, at |-> clock]
<1>1. /\ UNCHANGED <<clock, bucket, admitted>> /\ hit' = [hit EXCEPT ![h] = IF row = NoBucket THEN NoHit ELSE q]
      /\ hit[h].pc = "inserted" \/ (hit[h].pc = "found" /\ ~ Held)
  BY DEF SelectForUpdate, Shifts, InTransaction
<1>2. \A g \in Hits : g # h => hit[g].pc \notin {"inserted", "locked"}
  BY <1>1 DEF Held, ThrottleInv, HolderInv
<1>3. q.pc = "locked" /\ q.row = row /\ q.at = clock /\ clock \in Nat /\ NoHit.pc = "idle"
  BY DEF NoHit, ThrottleInv
<1>4. CASE row = NoBucket
  <2>1. hit' = [hit EXCEPT ![h] = NoHit]
    BY <1>1, <1>4
  <2> QED
    BY <1>1, <1>3, <2>1, HitMoves
<1>5. CASE row # NoBucket /\ hit[h].pc = "inserted"
  <2>1. row = NewBucket /\ Closed(clock)
    BY <1>5 DEF InTransaction, ThrottleInv, HolderInv
  <2>2. Fresh(NewBucket, clock)
    BY <1>3 DEF Fresh, NewBucket, BucketRecord, Unblocked
  <2>3. hit' = [hit EXCEPT ![h] = q]
    BY <1>1, <1>5
  <2>4. /\ q.at \in Nat /\ q.at <= clock /\ q.pc = "locked"
        /\ Fresh(q.row, q.at) /\ Closed(q.at)
    BY <1>3, <2>1, <2>2
  <2> HIDE DEF q, row
  <2> QED
    BY <1>1, <1>2, <2>3, <2>4, HitMoves
<1>6. CASE row # NoBucket /\ hit[h].pc # "inserted"
  <2>1. row = bucket /\ RowStands(bucket)
    BY <1>6, BucketIs DEF InTransaction
  <2>2. bucket.windowEnds - Ttl <= clock
    BY <2>1 DEF RowStands
  <2>3. hit' = [hit EXCEPT ![h] = q]
    BY <1>1, <1>6
  <2>4. /\ q.at \in Nat /\ q.at <= clock /\ q.pc = "locked"
        /\ RowStands(bucket) /\ q.row = bucket /\ bucket.windowEnds - Ttl <= q.at
    BY <1>3, <2>1, <2>2
  <2> HIDE DEF q, row
  <2> QED
    BY <1>1, <1>2, <2>3, <2>4, HitMoves
<1> QED
  BY <1>4, <1>5, <1>6

LEMMA Counted ==
  ASSUME ThrottleInv, NEW h \in Hits, Count(h)
  PROVE  ThrottleInv'
<1> DEFINE row == hit[h].row
           at == hit[h].at
           blocked == row.blockedUntil > at
           reset == row.blockedUntil # Unblocked \/ row.windowEnds <= at
           total == IF reset THEN 1 ELSE row.hits + 1
           next == [hits |-> total, windowEnds |-> IF reset THEN at + Ttl ELSE row.windowEnds,
                    blockedUntil |-> IF total > Limit THEN at + BlockFor ELSE Unblocked]
<1>1. /\ hit[h].pc = "locked" /\ clock' = clock /\ hit' = [hit EXCEPT ![h] = NoHit]
      /\ bucket' = IF blocked THEN row ELSE next
      /\ admitted' = IF ~ blocked /\ total <= Limit THEN Append(admitted, at) ELSE admitted
  BY DEF Count, Shifts, ThrottleInv, HolderInv
<1>2. /\ at \in Nat /\ at <= clock
      /\ \/ Fresh(row, at) /\ Closed(at)
         \/ RowStands(bucket) /\ row = bucket /\ bucket.windowEnds - Ttl <= at
  BY <1>1 DEF ThrottleInv, HolderInv
<1>3. row \in BucketRecord /\ (row.blockedUntil = Unblocked \/ row.blockedUntil >= row.windowEnds)
  BY <1>2 DEF Fresh, RowStands
<1>4. row.hits \in Nat /\ row.windowEnds \in Nat /\ row.blockedUntil \in Nat
  BY <1>3 DEF BucketRecord
<1>5. admitted' \in Seq(Nat)
  BY <1>1, <1>2 DEF ThrottleInv
<1> PICK b : b = next
  OBVIOUS
<1>6. CASE blocked
  <2>1. RowStands(bucket) /\ row = bucket
    BY <1>2, <1>6 DEF Fresh, Unblocked
  <2>2. bucket' = bucket /\ admitted' = admitted
    BY <1>1, <1>6, <2>1
  <2>3. RowStands(bucket)' /\ \A t \in Nat : LetIn(admitted', t, t + Ttl) <= 2 * Limit
    BY <1>1, <2>1, <2>2, NothingDecided DEF RowStands, Closed
  <2> QED
    BY <1>1, <1>5, <2>3, HolderEnds
<1>7. CASE ~ blocked /\ reset
  <2>1. Closed(at)
    <3>1. row.windowEnds <= at
      BY <1>2, <1>3, <1>4, <1>7 DEF Unblocked
    <3> QED
      BY <1>2, <3>1, RowsEnd DEF ThrottleInv
  <2>2. total = 1 /\ next = [hits |-> 1, windowEnds |-> at + Ttl, blockedUntil |-> Unblocked]
    BY <1>7, ThrottleConstants
  <2>3. admitted' = Append(admitted, at) /\ bucket' = next
    BY <1>1, <1>7, <2>2, ThrottleConstants
  <2> HIDE DEF next, at
  <2>4. RowStands(b)' /\ \A t \in Nat : LetIn(admitted', t, t + Ttl) <= 2 * Limit
    BY <1>1, <1>2, <2>1, <2>2, <2>3, WindowBegins
  <2>5. RowStands(bucket)'
    BY <2>3, <2>4
  <2> QED
    BY <1>1, <1>5, <2>4, <2>5, HolderEnds
<1>8. CASE ~ blocked /\ ~ reset
  <2>1. row.blockedUntil = Unblocked /\ at < row.windowEnds
    BY <1>2, <1>4, <1>8
  <2>2. RowStands(row) /\ row = bucket /\ row.windowEnds - Ttl <= at
    BY <1>2, <2>1 DEF Fresh
  <2>3. total = row.hits + 1 /\ bucket' = next
    BY <1>1, <1>8
  <2>4. CASE total <= Limit
    <3>1. next = [hits |-> row.hits + 1, windowEnds |-> row.windowEnds, blockedUntil |-> Unblocked]
      BY <1>4, <1>8, <2>3, <2>4, ThrottleConstants
    <3>2. admitted' = Append(admitted, at) /\ row.hits + 1 <= Limit
      BY <1>1, <1>8, <2>3, <2>4
    <3> HIDE DEF next, at, row
    <3>3. RowStands(b)' /\ \A t \in Nat : LetIn(admitted', t, t + Ttl) <= 2 * Limit
      BY <1>1, <1>2, <2>1, <2>2, <3>1, <3>2, WindowGoesOn
    <3>4. RowStands(bucket)'
      BY <2>3, <3>3
    <3> QED
      BY <1>1, <1>5, <3>3, <3>4, HolderEnds
  <2>5. CASE ~ (total <= Limit)
    <3>1. next.hits = row.hits + 1 /\ next.windowEnds = row.windowEnds /\ next.blockedUntil = at + BlockFor
      BY <1>4, <1>8, <2>3, <2>5, ThrottleConstants
    <3>2. next \in BucketRecord
      BY <1>2, <1>4, <1>8, <2>3, <2>5, ThrottleConstants DEF BucketRecord
    <3>3. admitted' = admitted
      BY <1>1, <2>5
    <3>4. next.blockedUntil >= next.windowEnds
      BY <1>2, <1>4, <2>2, <3>1, ThrottleConstants
    <3> HIDE DEF next, row
    <3>5. LetIn(admitted, row.windowEnds - Ttl, row.windowEnds) <= next.hits
      <4>1. row.windowEnds - Ttl \in Int /\ row.windowEnds \in Int
        BY <1>4, ThrottleConstants
      <4>2. LetIn(admitted, row.windowEnds - Ttl, row.windowEnds) \in Nat
        BY <4>1, WithinIsFinite DEF LetIn, ThrottleInv
      <4> QED
        BY <1>4, <2>2, <3>1, <4>2 DEF RowStands
    <3>6. RowStands(next)
      BY <2>2, <3>1, <3>2, <3>4, <3>5 DEF RowStands
    <3>7. RowStands(b)' /\ \A t \in Nat : LetIn(admitted', t, t + Ttl) <= 2 * Limit
      BY <1>1, <3>3, <3>6, NothingDecided DEF RowStands, Closed
    <3>8. RowStands(bucket)'
      BY <2>3, <3>7
    <3> QED
      BY <1>1, <1>5, <3>7, <3>8, HolderEnds
  <2> QED
    BY <2>4, <2>5
<1> QED
  BY <1>6, <1>7, <1>8

LEMMA HitFailed ==
  ASSUME ThrottleInv, NEW h \in Hits, HitFails(h)
  PROVE  ThrottleInv'
  BY HitMoves DEF HitFails, Shifts, NoHit

\* What is deleted is over.
LEMMA StaleDeleted ==
  ASSUME ThrottleInv, DeleteStale
  PROVE  ThrottleInv'
<1>1. bucket' = NoBucket /\ UNCHANGED <<clock, hit, admitted>> /\ RowStands(bucket)
      /\ bucket.windowEnds + Retention < clock
  BY BucketIs DEF DeleteStale
<1>2. \A h \in Hits : hit[h].pc \in {"idle", "found"}
  BY DEF DeleteStale, Held, ThrottleInv, HolderInv
<1>3. Closed(clock)
  <2>1. bucket.windowEnds <= clock
    BY <1>1, ThrottleConstants DEF RowStands, BucketRecord, ThrottleInv
  <2> QED
    BY <1>1, <2>1, RowsEnd DEF ThrottleInv
<1>4. Closed(clock)' /\ \A t \in Nat : LetIn(admitted', t, t + Ttl) <= 2 * Limit
  BY <1>1, <1>3, NothingDecided DEF Closed
<1>5. BucketInv' /\ HolderInv'
  BY <1>1, <1>2, <1>4 DEF BucketInv, HolderInv
<1> QED
  BY <1>1, <1>4, <1>5 DEF ThrottleInv

LEMMA ClockTicked ==
  ASSUME ThrottleInv, ClockTicks
  PROVE  ThrottleInv'
<1>1. clock' = clock + 1 /\ UNCHANGED <<bucket, hit, admitted>> /\ clock \in Nat /\ clock' \in Nat
  BY DEF ClockTicks, ThrottleInv
<1>2. \A t : Closed(t) => Closed(t)'
  BY <1>1 DEF Closed
<1>3. Closed(clock) => Closed(clock)'
  <2>1. Closed(clock) => Closed(clock')
    BY <1>1, StaysClosed DEF ThrottleInv
  <2> QED
    BY <1>1, <2>1 DEF Closed
<1>4. \A row : RowStands(row) => RowStands(row)'
  BY <1>1, <1>2, ThrottleConstants DEF RowStands, BucketRecord
<1>5. RowStands(bucket) => RowStands(bucket)'
  BY <1>1, <1>2, ThrottleConstants DEF RowStands, BucketRecord, Closed
<1>6. BucketInv'
  BY <1>1, <1>3, <1>5 DEF ThrottleInv, BucketInv
<1>7. HolderInv'
  BY <1>1, <1>2, <1>3, <1>5 DEF ThrottleInv, HolderInv, Fresh, Closed
<1>8. \A t \in Nat : LetIn(admitted', t, t + Ttl) <= 2 * Limit
  BY <1>1 DEF ThrottleInv
<1> QED
  BY <1>1, <1>6, <1>7, <1>8 DEF ThrottleInv

LEMMA ThrottleStep == ThrottleInv /\ [ThrottleNext]_throttleVars => ThrottleInv'
<1> SUFFICES ASSUME ThrottleInv, [ThrottleNext]_throttleVars  PROVE ThrottleInv'
  OBVIOUS
<1>1. ASSUME NEW h \in Hits, Insert(h) \/ SelectForUpdate(h) \/ Count(h) \/ HitFails(h)  PROVE ThrottleInv'
  BY <1>1, Inserted, Selected, Counted, HitFailed
<1>2. CASE DeleteStale
  BY <1>2, StaleDeleted
<1>3. CASE ClockTicks
  BY <1>3, ClockTicked
<1>4. CASE UNCHANGED throttleVars
  BY <1>4 DEF throttleVars, ThrottleInv, BucketInv, HolderInv, RowStands, Closed
<1> QED
  BY <1>1, <1>2, <1>3, <1>4 DEF ThrottleNext

LEMMA ThrottleBegins == ThrottleInit => ThrottleInv
<1> SUFFICES ASSUME ThrottleInit  PROVE ThrottleInv
  OBVIOUS
<1>1. clock = 1 /\ bucket = NoBucket /\ hit = [h \in Hits |-> NoHit] /\ admitted = <<>>
  BY DEF ThrottleInit
<1>2. \A a, b : LetIn(admitted, a, b) = 0
  <2>1. \A a, b : Within(admitted, a, b) = {}
    BY <1>1 DEF Within
  <2> QED
    BY <2>1, FS_EmptySet DEF LetIn
<1>3. Closed(clock)
  BY <1>1, <1>2, ThrottleConstants DEF Closed
<1>4. BucketInv /\ HolderInv
  BY <1>1, <1>3 DEF BucketInv, HolderInv, NoHit
<1>5. \A t \in Nat : LetIn(admitted, t, t + Ttl) <= 2 * Limit
  BY <1>2, ThrottleConstants
<1> QED
  BY <1>1, <1>4, <1>5 DEF ThrottleInv

\* Whatever instances share the row, roll back or delete it: no stretch as long as a window lets in more than
\* two windows do.
THEOREM WindowsHold == ThrottleSpec => []TwoWindowsAtMost
<1>1. ThrottleInv => TwoWindowsAtMost
  BY DEF ThrottleInv, TwoWindowsAtMost, LetIn, Within
<1> QED
  BY <1>1, ThrottleBegins, ThrottleStep, PTL DEF ThrottleSpec

-----------------------------------------------------------------------------
(* Lockout: the invariant *)

\* The guesses of a span as long as the lock, and the requests that may add to it.
Guesses(s, t) == {i \in DOMAIN s : s[i].checked /\ s[i].at \in (t + 1)..(t + LockFor)}
Working(l) == {x \in Logins : l[x]}
GuessBound == MaxAttempts - 1 + Cardinality(Logins)
Spans(t, at) == t < at /\ at <= t + LockFor

\* The failures are in order.  A span that goes on leaves room for the requests at work.
LockoutInv ==
    /\ LockoutTypeOK
    /\ \A i, j \in DOMAIN failed : i <= j => failed[i].at <= failed[j].at
    /\ \A i \in DOMAIN failed : failed[i].at <= now
    /\ \A t \in Nat : Cardinality(Guesses(failed, t)) <= GuessBound
    /\ \A t \in Nat : Spans(t, now)
         => Cardinality(Guesses(failed, t)) + Cardinality(Working(login)) <= GuessBound

LEMMA LockoutConstants ==
  /\ MaxAttempts \in Nat /\ MaxAttempts > 0 /\ Window \in Nat /\ LockFor \in Nat /\ LockFor > 0
     /\ LockFor <= Window
  /\ MaxTime \in Nat /\ IsFiniteSet(Logins) /\ Cardinality(Logins) \in Nat
  BY LockoutAssumption, FS_CardinalityType

LEMMA GuessesAreFinite ==
  ASSUME NEW s \in Seq(Event), NEW t \in Nat
  PROVE  IsFiniteSet(Guesses(s, t)) /\ Cardinality(Guesses(s, t)) \in Nat
<1>1. IsFiniteSet(1..Len(s)) /\ DOMAIN s = 1..Len(s)
  BY FS_Interval
<1>2. Guesses(s, t) \subseteq 1..Len(s)
  BY <1>1 DEF Guesses
<1> QED
  BY <1>1, <1>2, FS_Subset, FS_CardinalityType

LEMMA WorkingIsFinite ==
  ASSUME NEW l
  PROVE  /\ IsFiniteSet(Working(l)) /\ Cardinality(Working(l)) \in Nat
         /\ Cardinality(Working(l)) <= Cardinality(Logins)
<1>1. Working(l) \subseteq Logins
  BY DEF Working
<1> QED
  BY <1>1, LockoutConstants, FS_Subset, FS_CardinalityType

LEMMA FailuresAre ==
  ASSUME LockoutInv
  PROVE  /\ failed \in Seq(Event) /\ now \in Nat /\ DOMAIN failed = 1..Len(failed) /\ Len(failed) \in Nat
         /\ \A i \in DOMAIN failed : failed[i].at \in Nat /\ failed[i].at <= now
         /\ IsFiniteSet(1..Len(failed)) /\ Cardinality(1..Len(failed)) = Len(failed)
<1>1. failed \in Seq(Event) /\ now \in Nat
  BY LockoutConstants DEF LockoutInv, LockoutTypeOK
<1>2. DOMAIN failed = 1..Len(failed) /\ Len(failed) \in Nat
  BY <1>1
<1>3. \A x \in Event : x.at \in Nat
  BY LockoutConstants DEF Event
<1>4. \A i \in DOMAIN failed : failed[i].at \in Nat
  <2>1. \A i \in DOMAIN failed : failed[i] \in Event
    BY <1>1
  <2> QED
    BY <1>3, <2>1
<1>5. IsFiniteSet(1..Len(failed)) /\ Cardinality(1..Len(failed)) = Len(failed)
  <2>1. Cardinality(1..Len(failed)) = IF 1 > Len(failed) THEN 0 ELSE Len(failed) - 1 + 1
    BY <1>2, FS_Interval
  <2>2. IsFiniteSet(1..Len(failed))
    BY <1>2, FS_Interval
  <2> QED
    BY <1>2, <2>1, <2>2
<1> QED
  BY <1>1, <1>2, <1>4, <1>5 DEF LockoutInv

\* The recent failures are some of the failures.
LEMMA RecentIsFinite ==
  ASSUME LockoutInv
  PROVE  /\ IsFiniteSet(Recent(now)) /\ Cardinality(Recent(now)) \in Nat
         /\ Cardinality(Recent(now)) <= Len(failed)
<1>1. Recent(now) \subseteq 1..Len(failed)
  BY FailuresAre DEF Recent
<1>2. IsFiniteSet(Recent(now)) /\ Cardinality(Recent(now)) <= Cardinality(1..Len(failed))
  BY <1>1, FailuresAre, FS_Subset
<1> QED
  BY <1>2, FailuresAre, FS_CardinalityType

\* Who is let check a password finds fewer failures than the limit in every span that goes on.
LEMMA RoomToGuess ==
  ASSUME LockoutInv, ~ Locked(now), NEW t \in Nat, Spans(t, now)
  PROVE  Cardinality(Guesses(failed, t)) <= MaxAttempts - 1
<1>1. failed \in Seq(Event) /\ now \in Nat /\ DOMAIN failed = 1..Len(failed) /\ Len(failed) \in Nat
  BY FailuresAre
<1>2. \A i \in DOMAIN failed : failed[i].at \in Nat /\ failed[i].at <= now
  BY FailuresAre
<1>3. IsFiniteSet(Recent(now)) /\ Cardinality(Recent(now)) \in Nat
  BY RecentIsFinite
<1>4. CASE Cardinality(Recent(now)) < MaxAttempts
  <2>1. Guesses(failed, t) \subseteq Recent(now)
    BY <1>1, <1>2, LockoutConstants DEF Guesses, Recent, Spans
  <2>2. Cardinality(Guesses(failed, t)) <= Cardinality(Recent(now))
    BY <1>3, <2>1, FS_Subset
  <2> QED
    BY <1>1, <1>3, <1>4, <2>2, GuessesAreFinite, LockoutConstants
<1>5. CASE Cardinality(Recent(now)) >= MaxAttempts
  <2> DEFINE k == Len(failed) - MaxAttempts + 1
  <2>1. ~ (failed[k].at + LockFor > now)
    BY <1>5 DEF Locked, UnlocksAt, TrippingAttempt
  <2>2. Cardinality(Recent(now)) <= Len(failed)
    BY RecentIsFinite
  <2>3. k \in 1..Len(failed) /\ k \in DOMAIN failed
    BY <1>1, <1>3, <1>5, <2>2, LockoutConstants
  <2>4. Guesses(failed, t) \subseteq (k + 1)..Len(failed)
    <3> SUFFICES ASSUME NEW i \in Guesses(failed, t)  PROVE i \in (k + 1)..Len(failed)
      OBVIOUS
    <3>1. i \in 1..Len(failed) /\ failed[i].at >= t + 1 /\ failed[i].at \in Nat /\ failed[k].at \in Nat
      BY <1>1, <1>2, <2>3 DEF Guesses
    <3>2. failed[i].at > failed[k].at
      BY <1>1, <2>1, <3>1, LockoutConstants DEF Spans
    <3>3. ~ (i <= k)
      BY <1>1, <2>3, <3>1, <3>2 DEF LockoutInv
    <3> QED
      BY <1>1, <2>3, <3>1, <3>3
  <2>5. IsFiniteSet((k + 1)..Len(failed)) /\ Cardinality((k + 1)..Len(failed)) = MaxAttempts - 1
    <3>1. k + 1 \in Int /\ Len(failed) \in Int
      BY <1>1, LockoutConstants
    <3>2. /\ IsFiniteSet((k + 1)..Len(failed))
          /\ Cardinality((k + 1)..Len(failed)) = IF k + 1 > Len(failed) THEN 0 ELSE Len(failed) - (k + 1) + 1
      BY <3>1, FS_Interval
    <3> QED
      BY <1>1, <3>2, LockoutConstants
  <2> HIDE DEF k
  <2> QED
    BY <2>4, <2>5, FS_Subset
<1> QED
  BY <1>3, <1>4, <1>5, LockoutConstants

-----------------------------------------------------------------------------
(* Lockout: steps *)

\* One more failure is one more guess at most, of the spans that go on, if a password was checked.
LEMMA OneMoreFailure ==
  ASSUME NEW s \in Seq(Event), NEW x \in Event, NEW t \in Nat
  PROVE  /\ Cardinality(Guesses(Append(s, x), t)) <= Cardinality(Guesses(s, t)) + 1
         /\ ~ (x.checked /\ Spans(t, x.at)) => Guesses(Append(s, x), t) = Guesses(s, t)
<1> DEFINE n == Len(s) + 1
           more == Append(s, x)
<1>1. /\ more \in Seq(Event) /\ DOMAIN more = DOMAIN s \cup {n} /\ more[n] = x /\ n \notin DOMAIN s
      /\ \A i \in DOMAIN s : more[i] = s[i]
  OBVIOUS
<1>2. x.at \in Nat /\ LockFor \in Nat
  BY LockoutConstants DEF Event
<1> HIDE DEF n, more
<1>3. Guesses(more, t) \subseteq Guesses(s, t) \cup {n}
  BY <1>1 DEF Guesses
<1>4. n \notin Guesses(s, t)
  BY <1>1 DEF Guesses
<1>5. IsFiniteSet(Guesses(s, t)) /\ Cardinality(Guesses(s, t)) \in Nat
  BY GuessesAreFinite
<1>6. /\ IsFiniteSet(Guesses(s, t) \cup {n})
      /\ Cardinality(Guesses(s, t) \cup {n}) = Cardinality(Guesses(s, t)) + 1
  BY <1>4, <1>5, FS_AddElement
<1>7. Cardinality(Guesses(more, t)) <= Cardinality(Guesses(s, t)) + 1
  BY <1>3, <1>6, FS_Subset
<1>8. ASSUME ~ (x.checked /\ Spans(t, x.at))  PROVE Guesses(more, t) = Guesses(s, t)
  <2>1. ~ (x.checked /\ x.at \in (t + 1)..(t + LockFor))
    BY <1>2, <1>8 DEF Spans
  <2>2. n \notin Guesses(more, t)
    BY <1>1, <2>1 DEF Guesses
  <2> QED
    BY <1>1, <1>3, <2>2 DEF Guesses
<1> QED
  BY <1>7, <1>8 DEF more

\* A failure is recorded at the end.
LEMMA Recorded ==
  ASSUME LockoutInv, NEW checked \in BOOLEAN, Records(checked), now' = now
  PROVE  /\ failed' \in Seq(Event)
         /\ \A i, j \in DOMAIN failed' : i <= j => failed'[i].at <= failed'[j].at
         /\ \A i \in DOMAIN failed' : failed'[i].at <= now
         /\ \A t \in Nat : /\ Cardinality(Guesses(failed', t)) <= Cardinality(Guesses(failed, t)) + 1
                           /\ ~ (checked /\ Spans(t, now)) => Guesses(failed', t) = Guesses(failed, t)
<1> DEFINE x == [at |-> now, checked |-> checked]
           n == Len(failed) + 1
<1>1. failed' = Append(failed, x) /\ failed \in Seq(Event) /\ now \in 0..MaxTime /\ now \in Nat
  BY LockoutConstants DEF Records, LockoutInv, LockoutTypeOK
<1>2. x \in Event /\ x.at = now /\ x.checked = checked
  BY <1>1 DEF Event
<1> HIDE DEF x
<1>3. /\ failed' \in Seq(Event) /\ DOMAIN failed' = DOMAIN failed \cup {n} /\ failed'[n] = x
      /\ \A i \in DOMAIN failed : failed'[i] = failed[i] /\ i \in Nat /\ i < n
  BY <1>1, <1>2
<1>4. \A i \in DOMAIN failed' : failed'[i].at <= now
  BY <1>1, <1>2, <1>3 DEF LockoutInv
<1>5. n \in Nat
  BY <1>1
<1> HIDE DEF n
<1>6. ASSUME NEW i \in DOMAIN failed', NEW j \in DOMAIN failed', i <= j  PROVE failed'[i].at <= failed'[j].at
  <2>1. CASE j = n
    BY <1>2, <1>3, <1>4, <2>1
  <2>2. CASE j # n
    <3>1. j \in DOMAIN failed /\ i \in DOMAIN failed
      BY <1>3, <1>5, <1>6, <2>2
    <3> QED
      BY <1>3, <1>6, <3>1 DEF LockoutInv
  <2> QED
    BY <2>1, <2>2
<1>7. ASSUME NEW t \in Nat
      PROVE  /\ Cardinality(Guesses(failed', t)) <= Cardinality(Guesses(failed, t)) + 1
             /\ ~ (checked /\ Spans(t, now)) => Guesses(failed', t) = Guesses(failed, t)
  BY <1>1, <1>2, OneMoreFailure
<1> QED
  BY <1>3, <1>4, <1>6, <1>7

LEMMA AttemptRefused ==
  ASSUME LockoutInv, Refuse
  PROVE  LockoutInv'
<1>1. Records(FALSE) /\ now' = now /\ login' = login /\ told' = UnlocksAt
  BY DEF Refuse
<1>2. told' \in Nat
  <2>1. Cardinality(Recent(now)) >= MaxAttempts
    BY DEF Refuse, Locked
  <2>2. DOMAIN failed = 1..Len(failed) /\ Len(failed) \in Nat
    BY FailuresAre
  <2>4. Cardinality(Recent(now)) <= Len(failed) /\ Cardinality(Recent(now)) \in Nat
    BY RecentIsFinite
  <2>5. Len(failed) - MaxAttempts + 1 \in DOMAIN failed
    BY <2>1, <2>2, <2>4, LockoutConstants
  <2>6. failed[Len(failed) - MaxAttempts + 1].at \in Nat
    BY <2>5, FailuresAre
  <2> QED
    BY <1>1, <2>6, LockoutConstants DEF UnlocksAt, TrippingAttempt
<1>3. /\ failed' \in Seq(Event)
      /\ \A i, j \in DOMAIN failed' : i <= j => failed'[i].at <= failed'[j].at
      /\ \A i \in DOMAIN failed' : failed'[i].at <= now
      /\ \A t \in Nat : Guesses(failed', t) = Guesses(failed, t)
  BY <1>1, Recorded
<1> QED
  BY <1>1, <1>2, <1>3 DEF LockoutInv, LockoutTypeOK

LEMMA CheckStarted ==
  ASSUME LockoutInv, NEW l \in Logins, StartCheck(l)
  PROVE  LockoutInv'
<1>1. /\ ~ Locked(now) /\ login' = [login EXCEPT ![l] = TRUE] /\ told' = 0 /\ UNCHANGED <<now, failed>>
  BY DEF StartCheck
<1>2. LockoutTypeOK'
  BY <1>1 DEF LockoutInv, LockoutTypeOK
<1>3. \A t \in Nat : Spans(t, now)
      => Cardinality(Guesses(failed, t)) + Cardinality(Working(login')) <= GuessBound
  <2>1. Cardinality(Working(login')) \in Nat /\ Cardinality(Working(login')) <= Cardinality(Logins)
    BY WorkingIsFinite
  <2>2. \A t \in Nat : Cardinality(Guesses(failed, t)) \in Nat
    BY GuessesAreFinite DEF LockoutInv, LockoutTypeOK
  <2> QED
    BY <1>1, <2>1, <2>2, RoomToGuess, LockoutConstants DEF GuessBound
<1> QED
  BY <1>1, <1>2, <1>3 DEF LockoutInv

\* A request that stops working makes room for its own guess.
LEMMA OneFewer ==
  ASSUME LockoutInv, NEW l \in Logins, login[l], login' = [login EXCEPT ![l] = FALSE]
  PROVE  /\ login' \in [Logins -> BOOLEAN]
         /\ Cardinality(Working(login')) = Cardinality(Working(login)) - 1
<1>1. login \in [Logins -> BOOLEAN]
  BY DEF LockoutInv, LockoutTypeOK
<1>2. Working(login') = Working(login) \ {l} /\ l \in Working(login)
  BY <1>1 DEF Working
<1> QED
  BY <1>1, <1>2, WorkingIsFinite, FS_RemoveElement

LEMMA CheckFailed ==
  ASSUME LockoutInv, NEW l \in Logins, CheckFails(l)
  PROVE  LockoutInv'
<1>1. Records(TRUE) /\ login[l] /\ login' = [login EXCEPT ![l] = FALSE] /\ UNCHANGED <<now, told>>
  BY DEF CheckFails
<1>2. /\ failed' \in Seq(Event)
      /\ \A i, j \in DOMAIN failed' : i <= j => failed'[i].at <= failed'[j].at
      /\ \A i \in DOMAIN failed' : failed'[i].at <= now
      /\ \A t \in Nat : /\ Cardinality(Guesses(failed', t)) <= Cardinality(Guesses(failed, t)) + 1
                        /\ ~ Spans(t, now) => Guesses(failed', t) = Guesses(failed, t)
  BY <1>1, Recorded
<1>3. login' \in [Logins -> BOOLEAN] /\ Cardinality(Working(login')) = Cardinality(Working(login)) - 1
  BY <1>1, OneFewer
<1>4. Cardinality(Working(login)) \in Nat /\ Cardinality(Working(login')) \in Nat
  BY WorkingIsFinite
<1>5. \A t \in Nat : Cardinality(Guesses(failed, t)) \in Nat /\ Cardinality(Guesses(failed', t)) \in Nat
  BY <1>2, GuessesAreFinite DEF LockoutInv, LockoutTypeOK
<1>6. GuessBound \in Int
  BY LockoutConstants DEF GuessBound
<1>7. ASSUME NEW t \in Nat, Spans(t, now)
      PROVE  Cardinality(Guesses(failed', t)) + Cardinality(Working(login')) <= GuessBound
  <2>1. Cardinality(Guesses(failed, t)) + Cardinality(Working(login)) <= GuessBound
    BY <1>7 DEF LockoutInv
  <2>2. Cardinality(Guesses(failed', t)) <= Cardinality(Guesses(failed, t)) + 1
    BY <1>2
  <2>3. Cardinality(Guesses(failed', t)) \in Nat /\ Cardinality(Guesses(failed, t)) \in Nat
    BY <1>5
  <2> QED
    BY <1>3, <1>4, <1>6, <2>1, <2>2, <2>3
<1>8. ASSUME NEW t \in Nat  PROVE Cardinality(Guesses(failed', t)) <= GuessBound
  <2>1. CASE Spans(t, now)
    BY <1>4, <1>5, <1>6, <1>7, <2>1
  <2>2. CASE ~ Spans(t, now)
    BY <1>2, <2>2 DEF LockoutInv
  <2> QED
    BY <2>1, <2>2
<1>9. LockoutTypeOK'
  BY <1>1, <1>2, <1>3 DEF LockoutInv, LockoutTypeOK
<1> QED
  BY <1>1, <1>2, <1>7, <1>8, <1>9 DEF LockoutInv

LEMMA CheckEnded ==
  ASSUME LockoutInv, NEW l \in Logins, CheckEnds(l)
  PROVE  LockoutInv'
<1>1. login[l] /\ login' = [login EXCEPT ![l] = FALSE] /\ UNCHANGED <<now, failed, told>>
  BY DEF CheckEnds
<1>2. login' \in [Logins -> BOOLEAN] /\ Cardinality(Working(login')) = Cardinality(Working(login)) - 1
  BY <1>1, OneFewer
<1>3. Cardinality(Working(login)) \in Nat /\ GuessBound \in Int
  BY WorkingIsFinite, LockoutConstants DEF GuessBound
<1>4. \A t \in Nat : Cardinality(Guesses(failed, t)) \in Nat
  BY GuessesAreFinite DEF LockoutInv, LockoutTypeOK
<1>5. \A t \in Nat : Spans(t, now)
      => Cardinality(Guesses(failed, t)) + Cardinality(Working(login')) <= GuessBound
  BY <1>2, <1>3, <1>4 DEF LockoutInv
<1>6. LockoutTypeOK'
  BY <1>1, <1>2 DEF LockoutInv, LockoutTypeOK
<1> QED
  BY <1>1, <1>5, <1>6 DEF LockoutInv

\* The span that begins with the tick has no guess yet.
LEMMA Ticked ==
  ASSUME LockoutInv, Tick
  PROVE  LockoutInv'
<1>1. now' = now + 1 /\ now < MaxTime /\ UNCHANGED <<failed, login, told>>
  BY DEF Tick
<1>2. now \in Nat /\ failed \in Seq(Event) /\ \A i \in DOMAIN failed : failed[i].at \in Nat
      /\ failed[i].at <= now
  BY FailuresAre
<1>3. ASSUME NEW t \in Nat, Spans(t, now + 1)
      PROVE  Cardinality(Guesses(failed, t)) + Cardinality(Working(login)) <= GuessBound
  <2>1. CASE Spans(t, now)
    BY <2>1 DEF LockoutInv
  <2>2. CASE ~ Spans(t, now)
    <3>1. t = now
      BY <1>2, <1>3, <2>2, LockoutConstants DEF Spans
    <3>2. Guesses(failed, t) = {}
      BY <1>2, <3>1, LockoutConstants DEF Guesses
    <3>3. Cardinality(Guesses(failed, t)) = 0
      BY <3>2, FS_EmptySet
    <3>4. Cardinality(Working(login)) \in Nat /\ Cardinality(Working(login)) <= Cardinality(Logins)
      BY WorkingIsFinite
    <3> QED
      BY <3>3, <3>4, LockoutConstants DEF GuessBound
  <2> QED
    BY <2>1, <2>2
<1>4. LockoutTypeOK'
  BY <1>1, LockoutConstants DEF LockoutInv, LockoutTypeOK
<1>5. \A i \in DOMAIN failed : failed[i].at <= now + 1
  BY <1>2
<1> QED
  BY <1>1, <1>3, <1>4, <1>5 DEF LockoutInv

LEMMA LockoutStep == LockoutInv /\ [LockoutNext]_lockoutVars => LockoutInv'
<1> SUFFICES ASSUME LockoutInv, [LockoutNext]_lockoutVars  PROVE LockoutInv'
  OBVIOUS
<1>1. CASE Tick \/ Refuse
  BY <1>1, Ticked, AttemptRefused
<1>2. ASSUME NEW l \in Logins, StartCheck(l) \/ CheckFails(l) \/ CheckEnds(l)  PROVE LockoutInv'
  BY <1>2, CheckStarted, CheckFailed, CheckEnded
<1>3. CASE UNCHANGED lockoutVars
  BY <1>3 DEF lockoutVars, LockoutInv, LockoutTypeOK
<1> QED
  BY <1>1, <1>2, <1>3 DEF LockoutNext

LEMMA LockoutBegins == LockoutInit => LockoutInv
<1> SUFFICES ASSUME LockoutInit  PROVE LockoutInv
  OBVIOUS
<1>1. now = 0 /\ failed = <<>> /\ login = [l \in Logins |-> FALSE] /\ told = 0
  BY DEF LockoutInit
<1>2. LockoutTypeOK
  BY <1>1, LockoutConstants DEF LockoutTypeOK
<1>3. \A t : Cardinality(Guesses(failed, t)) = 0
  <2>1. \A t : Guesses(failed, t) = {}
    BY <1>1 DEF Guesses
  <2> QED
    BY <2>1, FS_EmptySet
<1>4. Cardinality(Working(login)) = 0
  <2>1. Working(login) = {}
    BY <1>1 DEF Working
  <2> QED
    BY <2>1, FS_EmptySet
<1> QED
  BY <1>1, <1>2, <1>3, <1>4, LockoutConstants DEF LockoutInv, GuessBound

\* However many requests overlap between the count and the record: fewer guesses fail in a span as long as the
\* lock than the limit and the requests together.
THEOREM GuessesAreBounded == LockoutSpec => []GuessesBounded
<1>1. LockoutInv => GuessesBounded
  <2> SUFFICES ASSUME LockoutInv, NEW t \in 0..MaxTime
               PROVE  Cardinality(Guesses(failed, t)) < MaxAttempts + Cardinality(Logins)
    BY DEF GuessesBounded, Guesses
  <2>1. t \in Nat /\ Cardinality(Guesses(failed, t)) \in Nat
    BY GuessesAreFinite, LockoutConstants DEF LockoutInv, LockoutTypeOK
  <2>2. Cardinality(Guesses(failed, t)) <= GuessBound
    BY <2>1 DEF LockoutInv
  <2> QED
    BY <2>1, <2>2, LockoutConstants DEF GuessBound
<1> QED
  BY <1>1, LockoutBegins, LockoutStep, PTL DEF LockoutSpec

\* Every variable of the lockout keeps its type.
THEOREM LockoutTypeCorrect == LockoutSpec => []LockoutTypeOK
<1>1. LockoutInv => LockoutTypeOK
  BY DEF LockoutInv
<1> QED
  BY <1>1, LockoutBegins, LockoutStep, PTL DEF LockoutSpec
=============================================================================
