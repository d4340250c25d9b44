------------------------------- MODULE Lockout -------------------------------
(***************************************************************************)
(* The lock on one address after failed logins: requests that read the     *)
(* failures, check a password while others do the same, and record how it  *)
(* went.  Passkey logins keep a count of their own with the same code.     *)
(* The clock counts units of which Window and LockFor are multiples.       *)
(***************************************************************************)
EXTENDS Naturals, Sequences, FiniteSets

CONSTANTS
    Logins,       \* login requests served at the same time
    MaxAttempts,  \* MAX_FAILED_ATTEMPTS (8)
    Window,       \* FAILURE_WINDOW_MS (15 minutes)
    LockFor,      \* LOCKOUT_MS (15 minutes)
    MaxTime,      \* bound: clock
    MaxFailed     \* bound: failures recorded

ASSUME LockoutAssumption ==
    /\ {MaxAttempts, Window, LockFor} \subseteq Nat \ {0}
    /\ {MaxTime, MaxFailed} \subseteq Nat
    /\ LockFor <= Window
    /\ IsFiniteSet(Logins)

VARIABLES
    now,     \* the clock
    failed,  \* failed login events in the order of created_at, and whether a password was checked
    login,   \* whether each request is checking a password
    told     \* the unlock time the latest attempt was told; 0 when it was not refused

lockoutVars == <<now, failed, login, told>>

Event == [at : 0..MaxTime, checked : BOOLEAN]

-----------------------------------------------------------------------------
(* evaluateLockout *)

\* The failures the query and the filter leave; the newest ones, for they are in order.
Recent(t) == {i \in DOMAIN failed : failed[i].at + Window >= t}

\* recent[maxAttempts - 1] of the failures sorted from newest to oldest.
TrippingAttempt == failed[Len(failed) - MaxAttempts + 1]
UnlocksAt == TrippingAttempt.at + LockFor

\* Mutant: one failure too many before the lock.
LockedLate(t) == Cardinality(Recent(t)) > MaxAttempts /\ UnlocksAt > t
Locked(t) == Cardinality(Recent(t)) >= MaxAttempts /\ UnlocksAt > t

-----------------------------------------------------------------------------
(* login *)

Records(checked) ==
    /\ Len(failed) < MaxFailed
    /\ failed' = Append(failed, [at |-> now, checked |-> checked])

LockoutInit ==
    /\ now = 0
    /\ failed = <<>>
    /\ login = [l \in Logins |-> FALSE]
    /\ told = 0

\* Refused without looking at the password; the refusal is a failed login as well.
Refuse ==
    /\ Locked(now)
    /\ told' = UnlocksAt
    /\ Records(FALSE)
    /\ UNCHANGED <<now, login>>

StartCheck(l) ==
    /\ ~ login[l]
    /\ ~ Locked(now)
    /\ login' = [login EXCEPT ![l] = TRUE]
    /\ told' = 0
    /\ UNCHANGED <<now, failed>>

\* Wrong password, or an account that is not active.
CheckFails(l) ==
    /\ login[l]
    /\ Records(TRUE)
    /\ login' = [login EXCEPT ![l] = FALSE]
    /\ UNCHANGED <<now, told>>

\* A success, or a request that dies, leaves the failures as they are.
CheckEnds(l) ==
    /\ login[l]
    /\ login' = [login EXCEPT ![l] = FALSE]
    /\ UNCHANGED <<now, failed, told>>

Tick ==
    /\ now < MaxTime
    /\ now' = now + 1
    /\ UNCHANGED <<failed, login, told>>

LockoutNext ==
    \/ Tick \/ Refuse
    \/ \E l \in Logins : StartCheck(l) \/ CheckFails(l) \/ CheckEnds(l)

LockoutSpec == LockoutInit /\ [][LockoutNext]_lockoutVars

-----------------------------------------------------------------------------
(* Properties *)

LockoutTypeOK ==
    /\ now \in 0..MaxTime
    /\ failed \in Seq(Event)
    /\ login \in [Logins -> BOOLEAN]
    /\ told \in Nat

\* What evaluateLockout leaves to guess: in any span as long as the lock, however the requests overlap
\* between the count and the record, the passwords that were checked and failed are fewer than the
\* limit and the requests at work together.
GuessesBounded ==
    \A t \in 0..MaxTime :
        Cardinality({i \in DOMAIN failed : failed[i].checked /\ failed[i].at \in (t + 1)..(t + LockFor)})
            < MaxAttempts + Cardinality(Logins)

\* "The lock runs from the attempt that tripped it, not from the newest one": an owner who was told
\* when the lock lifts, and who does not try again before, is let in then.
LockLiftsAsTold == told # 0 /\ now >= told => ~ Locked(now)

=============================================================================
