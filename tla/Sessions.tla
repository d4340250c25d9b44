------------------------------ MODULE Sessions ------------------------------
(***************************************************************************)
(* The account of one user and its refresh-token sessions: AuthService,    *)
(* PostgresSessionStore, the statements on users it issues, and the two    *)
(* deletions of AuthMaintenanceService.                                    *)
(*                                                                         *)
(* A session stands for its row, its refresh token and its access tokens;  *)
(* a family is named by its first session.  A request is a handler between *)
(* two awaits on shared state.  A statement of one row is one step: it     *)
(* waits for the row and looks at it again.  An UPDATE of many rows takes  *)
(* its snapshot in one step and writes in a later one (READ COMMITTED): it *)
(* waits for the rows it saw and leaves those that no longer match, and it *)
(* never sees a row that was inserted in between.                          *)
(***************************************************************************)
EXTENDS Naturals, FiniteSets

CONSTANTS
    Sessions,   \* ids of session rows (bound: no more than these are ever created)
    Requests,   \* handlers in flight
    Passwords   \* what a user may type

ASSUME SessionsAssumption == "none" \notin Sessions /\ "none" \notin Passwords

VARIABLES
    account,   \* the row of users: status, password, and whether its hash has weak parameters
    reset,     \* an unused password reset token is outstanding
    session,   \* the rows of sessions
    req,       \* the requests: the await each is at and its local variables
    ended      \* history: families that a revocation ended with no rotation in between

vars == <<account, reset, session, req, ended>>

-----------------------------------------------------------------------------
(* Domains and helpers *)

Reasons == {"rotated", "logout", "logout_all", "reuse_detected", "admin"}

\* revoked_at IS NULL: a "stale" row is past its expires_at.  The state of a revoked row is
\* its reason.  (The family of a row that is yet to come says nothing.)
Open == {"live", "stale"}
Row == [state : {"none", "deleted"} \cup Open \cup Reasons, family : Sessions]

Request == [pc : {"idle", "rehash", "issue", "cancel", "token", "reset_user", "set_password",
                  "guard", "handler", "request", "user", "rotate", "successor", "recheck",
                  "revoke", "scan", "finish"},
            sid : Sessions \cup {"none"}, pw : Passwords \cup {"none"},
            reason : Reasons \cup {"none"}, targets : SUBSET Sessions, clean : SUBSET Sessions]

Free == [pc |-> "idle", sid |-> "none", pw |-> "none", reason |-> "none",
         targets |-> {}, clean |-> {}]

At(r, where) == req[r].pc = where
Becomes(r, q) == req' = [req EXCEPT ![r] = q]
Goto(r, where) == Becomes(r, [req[r] EXCEPT !.pc = where])

IsOpen(s) == session[s].state \in Open
Exists(s) == session[s].state \notin {"none", "deleted"}

\* The row lock of a rotation that has updated the row and not committed yet.
Locked(s) == \E r \in Requests : At(r, "successor") /\ req[r].sid = s

Init ==
    /\ account \in [status : {"active"}, pw : Passwords, weak : BOOLEAN]
    /\ reset = FALSE
    /\ session = [s \in Sessions |-> [state |-> "none", family |-> s]]
    /\ req = [r \in Requests |-> Free]
    /\ ended = {}

-----------------------------------------------------------------------------
(* Signing in *)

\* login: the row is read once, and what follows works with what was read.
StartLogin(r, p) ==
    /\ At(r, "idle")
    /\ account.status = "active"
    /\ account.pw = p
    /\ Becomes(r, [Free EXCEPT !.pc = IF account.weak THEN "rehash" ELSE "issue", !.pw = p])
    /\ UNCHANGED <<account, reset, session, ended>>

\* loginWithVerifiedPasskey: no password, the same end.
StartPasskey(r) ==
    /\ At(r, "idle")
    /\ account.status = "active"
    /\ Becomes(r, [Free EXCEPT !.pc = "issue"])
    /\ UNCHANGED <<account, reset, session, ended>>

\* updatePasswordHash asks for the id only; a deleted row matches nothing.
NewHash(p) == account' = IF account.status = "purged" THEN account
                         ELSE [account EXCEPT !.pw = p, !.weak = FALSE]

Rehash(r) ==
    /\ At(r, "rehash")
    /\ NewHash(req[r].pw)
    /\ Goto(r, "issue")
    /\ UNCHANGED <<reset, session, ended>>

\* issueSession: a family of its own.  The foreign key refuses it for a deleted user.
IssueSession(r, n) ==
    /\ At(r, "issue")
    /\ account.status # "purged"
    /\ session[n].state = "none"
    /\ session' = [session EXCEPT ![n] = [state |-> "live", family |-> n]]
    /\ Becomes(r, Free)
    /\ UNCHANGED <<account, reset, ended>>

-----------------------------------------------------------------------------
(* refresh *)

\* Mutant of RotateRow: the earlier look at the row is trusted.
RotateUnchecked(r) ==
    /\ At(r, "rotate")
    /\ ~ Locked(req[r].sid)
    /\ Goto(r, IF Exists(req[r].sid) THEN "successor" ELSE "recheck")
    /\ UNCHANGED <<account, reset, session, ended>>

\* A rotated token was presented again: its whole family is to be revoked.
Reuse(r, s) == Becomes(r, [Free EXCEPT !.pc = "scan", !.sid = s, !.reason = "reuse_detected"])

\* Every other outcome of evaluateRefresh answers 401 and changes nothing.
StartRefresh(r, s) ==
    /\ At(r, "idle")
    /\ \/ session[s].state = "rotated" /\ Reuse(r, s)
       \/ session[s].state = "live" /\ Becomes(r, [Free EXCEPT !.pc = "user", !.sid = s])
    /\ UNCHANGED <<account, reset, session, ended>>

RefreshUser(r) ==
    /\ At(r, "user")
    /\ Goto(r, IF account.status = "active" THEN "rotate" ELSE "revoke")
    /\ UNCHANGED <<account, reset, session, ended>>

\* The conditional UPDATE of rotate.  A stale row still matches: the expiry is compared with
\* the time at which the request began, when the row was live.
RotateRow(r) ==
    /\ At(r, "rotate")
    /\ ~ Locked(req[r].sid)
    /\ Goto(r, IF IsOpen(req[r].sid) THEN "successor" ELSE "recheck")
    /\ UNCHANGED <<account, reset, session, ended>>

\* The INSERT and COMMIT of rotate.
CommitSuccessor(r, n) ==
    LET s == req[r].sid
        f == session[s].family
    IN  /\ At(r, "successor")
        /\ session[n].state = "none"
        /\ session' = [session EXCEPT ![s].state = "rotated",
                                      ![n] = [state |-> "live", family |-> f]]
        /\ req' = [q \in Requests |-> IF q = r THEN Free
                                      ELSE [req[q] EXCEPT !.clean = @ \ {f}]]
        /\ UNCHANGED <<account, reset, ended>>

\* The rotation was refused: the token is looked up once more.
Recheck(r) ==
    /\ At(r, "recheck")
    /\ IF session[req[r].sid].state = "rotated" THEN Reuse(r, req[r].sid) ELSE Becomes(r, Free)
    /\ UNCHANGED <<account, reset, session, ended>>

-----------------------------------------------------------------------------
(* Revocation *)

\* Mutant of RevokeSessions: the rows of the snapshot are not looked at again.
RevokeAnyway(r) ==
    /\ At(r, "finish")
    /\ \A s \in req[r].targets : ~ Locked(s)
    /\ session' = [s \in Sessions |-> IF s \in req[r].targets /\ Exists(s)
                                      THEN [session[s] EXCEPT !.state = req[r].reason]
                                      ELSE session[s]]
    /\ ended' = ended \cup req[r].clean
    /\ Becomes(r, Free)
    /\ UNCHANGED <<account, reset>>

\* revoke: the first reason stays.
Revoked(s, reason) ==
    session' = [session EXCEPT ![s].state = IF IsOpen(s) THEN reason ELSE @]

Revoke(r) ==
    /\ At(r, "revoke")
    /\ ~ Locked(req[r].sid)
    /\ Revoked(req[r].sid, "admin")
    /\ Becomes(r, Free)
    /\ UNCHANGED <<account, reset, ended>>

\* WHERE family_id = ... for a token presented again, WHERE user_id = ... otherwise.
InScope(r, s) == req[r].reason = "reuse_detected" => session[s].family = session[req[r].sid].family

\* Mutant of ScanSessions: rows past their expiry are left alone, as in listActive.
ScanUnexpired(r) ==
    LET rows == {s \in Sessions : Exists(s) /\ InScope(r, s)} IN
    /\ At(r, "scan")
    /\ Becomes(r, [req[r] EXCEPT !.pc = "finish",
                                 !.targets = {s \in rows : session[s].state = "live"},
                                 !.clean = {session[s].family : s \in rows}])
    /\ UNCHANGED <<account, reset, session, ended>>

\* The snapshot of revokeFamily and revokeAllForUser.
ScanSessions(r) ==
    LET rows == {s \in Sessions : Exists(s) /\ InScope(r, s)} IN
    /\ At(r, "scan")
    /\ Becomes(r, [req[r] EXCEPT !.pc = "finish", !.targets = {s \in rows : IsOpen(s)},
                                 !.clean = {session[s].family : s \in rows}])
    /\ UNCHANGED <<account, reset, session, ended>>

\* Its writes, all visible at once when it commits.
RevokeSessions(r) ==
    /\ At(r, "finish")
    /\ \A s \in req[r].targets : ~ Locked(s)
    /\ session' = [s \in Sessions |-> IF s \in req[r].targets /\ IsOpen(s)
                                      THEN [session[s] EXCEPT !.state = req[r].reason]
                                      ELSE session[s]]
    /\ ended' = ended \cup req[r].clean
    /\ Becomes(r, Free)
    /\ UNCHANGED <<account, reset>>

-----------------------------------------------------------------------------
(* Requests behind the guard *)

\* resolveAccessToken reads the session, and then the user.
ReadSession(r, s) ==
    /\ At(r, "idle")
    /\ session[s].state = "live"
    /\ Becomes(r, [Free EXCEPT !.pc = "guard", !.sid = s])
    /\ UNCHANGED <<account, reset, session, ended>>

ReadUser(r) ==
    /\ At(r, "guard")
    /\ IF account.status = "active" THEN Goto(r, "handler") ELSE Becomes(r, Free)
    /\ UNCHANGED <<account, reset, session, ended>>

Logout(r) ==
    /\ At(r, "handler")
    /\ ~ Locked(req[r].sid)
    /\ Revoked(req[r].sid, "logout")
    /\ Becomes(r, Free)
    /\ UNCHANGED <<account, reset, ended>>

LogoutAll(r) ==
    /\ At(r, "handler")
    /\ Becomes(r, [req[r] EXCEPT !.pc = "scan", !.reason = "logout_all"])
    /\ UNCHANGED <<account, reset, session, ended>>

\* revokeSession: any session of the same user.
FindSession(r, t) ==
    /\ At(r, "handler")
    /\ Exists(t)
    /\ Becomes(r, [req[r] EXCEPT !.pc = "revoke", !.sid = t])
    /\ UNCHANGED <<account, reset, session, ended>>

-----------------------------------------------------------------------------
(* Account deletion *)

\* requestAccountDeletion: the password is checked; then the bank links are revoked, which
\* changes nothing here.
StartDeletion(r, p) ==
    /\ At(r, "handler")
    /\ account.status = "active"
    /\ account.pw = p
    /\ Goto(r, "request")
    /\ UNCHANGED <<account, reset, session, ended>>

RequestDeletion(r) ==
    /\ At(r, "request")
    /\ IF account.status = "active"
       THEN /\ account' = [account EXCEPT !.status = "pending_deletion"]
            /\ Becomes(r, [req[r] EXCEPT !.pc = "scan", !.reason = "admin"])
       ELSE Becomes(r, Free) /\ UNCHANGED account
    /\ UNCHANGED <<reset, session, ended>>

StartCancel(r, p) ==
    /\ At(r, "idle")
    /\ account.status = "pending_deletion"
    /\ account.pw = p
    /\ Becomes(r, [Free EXCEPT !.pc = "cancel"])
    /\ UNCHANGED <<account, reset, session, ended>>

CancelDeletion(r) ==
    /\ At(r, "cancel")
    /\ IF account.status = "pending_deletion"
       THEN account' = [account EXCEPT !.status = "active"] /\ Goto(r, "issue")
       ELSE Becomes(r, Free) /\ UNCHANGED account
    /\ UNCHANGED <<reset, session, ended>>

Deleted(gone) ==
    session' = [s \in Sessions |-> IF s \in gone THEN [session[s] EXCEPT !.state = "deleted"]
                                   ELSE session[s]]

\* purgeDue: thirty days may pass between any two steps.  The cascade deletes sessions and
\* tokens, and waits for a rotation that holds a session or, by its INSERT, the user.
PurgeDue ==
    /\ account.status = "pending_deletion"
    /\ \A s \in Sessions : ~ Locked(s)
    /\ account' = [account EXCEPT !.status = "purged"]
    /\ reset' = FALSE
    /\ Deleted({s \in Sessions : Exists(s)})
    /\ UNCHANGED <<req, ended>>

-----------------------------------------------------------------------------
(* Password reset *)

StartResetRequest(r) ==
    /\ At(r, "idle")
    /\ account.status = "active"
    /\ Becomes(r, [Free EXCEPT !.pc = "token"])
    /\ UNCHANGED <<account, reset, session, ended>>

\* issueAuthAction: a new token closes the one before it.  (Two that are issued at the same
\* time may both stay good, which is not modelled.)
IssueToken(r) ==
    /\ At(r, "token")
    /\ reset' = (account.status # "purged")
    /\ Becomes(r, Free)
    /\ UNCHANGED <<account, session, ended>>

\* The consuming UPDATE of confirmPasswordReset.
ConsumeToken(r, p) ==
    /\ At(r, "idle")
    /\ reset
    /\ reset' = FALSE
    /\ Becomes(r, [Free EXCEPT !.pc = "reset_user", !.pw = p])
    /\ UNCHANGED <<account, session, ended>>

ResetUser(r) ==
    /\ At(r, "reset_user")
    /\ IF account.status = "active" THEN Goto(r, "set_password") ELSE Becomes(r, Free)
    /\ UNCHANGED <<account, reset, session, ended>>

SetPassword(r) ==
    /\ At(r, "set_password")
    /\ NewHash(req[r].pw)
    /\ Becomes(r, [req[r] EXCEPT !.pc = "scan", !.reason = "admin"])
    /\ UNCHANGED <<reset, session, ended>>

-----------------------------------------------------------------------------
(* Time and failure *)

\* Mutant of Expire: the row is marked with a reason that does not exist.
ExpireMarked(s) ==
    /\ session[s].state = "live"
    /\ session' = [session EXCEPT ![s].state = "expired"]
    /\ UNCHANGED <<account, reset, req, ended>>

\* Sessions live equally long, so the newest of a family is the last to expire.
Expire(s) ==
    /\ session[s].state = "live"
    /\ session' = [session EXCEPT ![s].state = "stale"]
    /\ UNCHANGED <<account, reset, req, ended>>

\* deleteExpired: every stale row, and the revoked ones that are old enough.
DeleteExpired(old) ==
    /\ \A s \in old : session[s].state \in Reasons
    /\ LET gone == old \cup {s \in Sessions : session[s].state = "stale"} IN
       /\ gone # {}
       /\ \A s \in gone : ~ Locked(s)
       /\ Deleted(gone)
    /\ UNCHANGED <<account, reset, req, ended>>

\* The process dies, the database refuses a statement, or a handler throws: an open
\* transaction is rolled back, and what was committed stays.
Abort(r) ==
    /\ ~ At(r, "idle")
    /\ Becomes(r, Free)
    /\ UNCHANGED <<account, reset, session, ended>>

-----------------------------------------------------------------------------
(* The whole *)

SignIn(r) ==
    \/ \E p \in Passwords : StartLogin(r, p)
    \/ StartPasskey(r)
    \/ Rehash(r)
    \/ \E n \in Sessions : IssueSession(r, n)

Refresh(r) ==
    \/ \E s \in Sessions : StartRefresh(r, s)
    \/ RefreshUser(r)
    \/ RotateRow(r)
    \/ \E n \in Sessions : CommitSuccessor(r, n)
    \/ Recheck(r)

Revocation(r) == Revoke(r) \/ ScanSessions(r) \/ RevokeSessions(r)

Guarded(r) ==
    \/ \E s \in Sessions : ReadSession(r, s)
    \/ ReadUser(r)
    \/ Logout(r)
    \/ LogoutAll(r)
    \/ \E t \in Sessions : FindSession(r, t)

Deletion(r) ==
    \/ \E p \in Passwords : StartDeletion(r, p)
    \/ RequestDeletion(r)
    \/ \E p \in Passwords : StartCancel(r, p)
    \/ CancelDeletion(r)

PasswordReset(r) ==
    \/ StartResetRequest(r)
    \/ IssueToken(r)
    \/ \E p \in Passwords : ConsumeToken(r, p)
    \/ ResetUser(r)
    \/ SetPassword(r)

Maintenance ==
    \/ \E s \in Sessions : Expire(s)
    \/ \E old \in SUBSET Sessions : DeleteExpired(old)
    \/ PurgeDue

Next ==
    \/ \E r \in Requests :
          SignIn(r) \/ Refresh(r) \/ Revocation(r) \/ Guarded(r) \/ Deletion(r)
             \/ PasswordReset(r) \/ Abort(r)
    \/ Maintenance

Spec == Init /\ [][Next]_vars

-----------------------------------------------------------------------------
(* Properties *)

\* Types of the state.
TypeOK ==
    /\ account \in [status : {"active", "pending_deletion", "purged"}, pw : Passwords,
                    weak : BOOLEAN]
    /\ reset \in BOOLEAN
    /\ session \in [Sessions -> Row]
    /\ req \in [Requests -> Request]
    /\ ended \subseteq Sessions

\* However refreshes, revocations and failures interleave, a family never has two tokens that
\* are good: no two requests spend the same refresh token and create competing successors.
OneLivePerFamily ==
    \A s, t \in Sessions :
        IsOpen(s) /\ IsOpen(t) /\ session[s].family = session[t].family => s = t

\* A family that logout-all, a password reset, a deletion request or a reused token has ended
\* has no good token ever after, whatever requests had read of it before.  (A rotation that
\* commits while the revocation runs takes its family out of this promise.)
EndedStaysEnded == \A s \in Sessions : IsOpen(s) => session[s].family \notin ended

\* A spent token is remembered as spent until its row expires: no revocation puts its own
\* reason in the place of 'rotated', on which the detection of reuse depends.
RotatedStaysRotated ==
    [][\A s \in Sessions : session[s].state = "rotated"
                              => session'[s].state \in {"rotated", "deleted"}]_vars

\* What README.md says of POST /auth/logout-all: it ends every session on every device.  When
\* the statement has finished, no family it found a session of has a good token.
LogoutAllEndsEverySession ==
    [][\A r \in Requests :
          RevokeSessions(r) /\ req[r].reason = "logout_all" =>
             \A s \in Sessions : session'[s].state \in Open =>
                ~ \E t \in req[r].targets : session[t].family = session'[s].family]_vars

\* What the comment in login says of the rehash: it upgrades the parameters of a hash.  It
\* never changes which password the account accepts.
RehashKeepsPassword == [][\A r \in Requests : Rehash(r) => account'.pw = account.pw]_vars

=============================================================================
