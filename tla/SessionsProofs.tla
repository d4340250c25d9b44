--------------------------- MODULE SessionsProofs ---------------------------
(***************************************************************************)
(* Proofs about Sessions for any number of sessions, requests, passwords.  *)
(***************************************************************************)
EXTENDS Sessions, TLAPS

-----------------------------------------------------------------------------
(* The strengthening.  It is checked by TLC beside the properties it serves. *)

OnRow == {"user", "rotate", "successor", "recheck", "revoke", "guard", "handler", "request"}
RevokeReasons == {"logout_all", "reuse_detected", "admin"}

\* A request has the local variables that its next step works with.
Equipped(q) ==
    /\ q.pc \in OnRow => q.sid \in Sessions
    /\ q.pc \in {"rehash", "reset_user", "set_password"} => q.pw \in Passwords
    /\ q.pc \in {"scan", "finish"} => q.reason \in RevokeReasons

LocalsInv == \A r \in Requests : Equipped(req[r])

\* A family is named by a session that was created.
FamilyInv ==
    \A s \in Sessions :
        session[s].state # "none" => session[session[s].family].state # "none"

\* A rotation that has updated its row holds a good token, and holds it alone.
LockInv ==
    \A r \in Requests : At(r, "successor") =>
        /\ IsOpen(req[r].sid)
        /\ \A q \in Requests : At(q, "successor") /\ req[q].sid = req[r].sid => q = r

\* A revocation in progress has seen every good token of the families that are still clean.
CleanInv ==
    \A r \in Requests : At(r, "finish") =>
        \A s \in Sessions :
            /\ s \in req[r].clean => session[s].state # "none"
            /\ IsOpen(s) /\ session[s].family \in req[r].clean => s \in req[r].targets

\* Families that were ended were created.
EndedInv == \A s \in ended : session[s].state # "none"

SessionInv == /\ OneLivePerFamily /\ EndedStaysEnded
              /\ FamilyInv /\ LockInv /\ CleanInv /\ EndedInv

-----------------------------------------------------------------------------
(* Types *)

\* A step that rewrites the locals of one request leaves those of the others alone.
LEMMA BecomesEffect ==
  ASSUME req \in [Requests -> Request], LocalsInv,
         NEW r \in Requests, NEW q \in Request, Equipped(q), Becomes(r, q)
  PROVE  /\ req' \in [Requests -> Request]
         /\ LocalsInv'
         /\ req'[r] = q
         /\ \A s \in Requests \ {r} : req'[s] = req[s]
<1>1. req' = [req EXCEPT ![r] = q]
  BY DEF Becomes
<1>2. req' \in [Requests -> Request] /\ req'[r] = q /\ \A s \in Requests \ {r} : req'[s] = req[s]
  BY <1>1
<1>3. LocalsInv'
  BY <1>2 DEF LocalsInv, Equipped
<1> QED
  BY <1>2, <1>3

\* A request that ended has no locals left.
LEMMA FreeIsRequest == Free \in Request /\ Equipped(Free)
  BY DEF Free, Request, Equipped, OnRow

\* A request that goes on to revoke has what it needs for it.
LEMMA GoesToScan ==
  ASSUME NEW q \in Request, NEW why \in RevokeReasons
  PROVE  /\ [q EXCEPT !.pc = "scan", !.reason = why] \in Request
         /\ Equipped([q EXCEPT !.pc = "scan", !.reason = why])
  BY DEF Request, Equipped, OnRow, RevokeReasons, Reasons

LEMMA GoesToRevoke ==
  ASSUME NEW q \in Request, NEW s \in Sessions
  PROVE  /\ [q EXCEPT !.pc = "revoke", !.sid = s] \in Request
         /\ Equipped([q EXCEPT !.pc = "revoke", !.sid = s])
  BY DEF Request, Equipped, OnRow

\* A step of one request, which leaves account, tokens, rows and history well typed.
LEMMA StepTypes ==
  ASSUME TypeOK, LocalsInv, NEW r \in Requests, NEW q \in Request, Equipped(q), Becomes(r, q),
         account' \in [status : {"active", "pending_deletion", "purged"}, pw : Passwords,
                       weak : BOOLEAN],
         reset' \in BOOLEAN, session' \in [Sessions -> Row], ended' \subseteq Sessions
  PROVE  TypeOK' /\ LocalsInv'
<1>1. req' \in [Requests -> Request] /\ LocalsInv'
  BY BecomesEffect DEF TypeOK
<1> QED
  BY <1>1 DEF TypeOK

\* A row whose state changes is still a row.
LEMMA RowRestated ==
  ASSUME NEW s \in Sessions, session \in [Sessions -> Row],
         NEW c \in {"none", "deleted"} \cup Open \cup Reasons
  PROVE  [session[s] EXCEPT !.state = c] \in Row
  BY DEF Row

\* Every step of signing in keeps the types and the locals.
LEMMA SignInTypes ==
  ASSUME TypeOK, LocalsInv, NEW r \in Requests, SignIn(r)
  PROVE  TypeOK' /\ LocalsInv'
<1> USE DEF TypeOK
<1>1. CASE \E p \in Passwords : StartLogin(r, p)
  <2>1. PICK p \in Passwords : StartLogin(r, p)
    BY <1>1
  <2> DEFINE q == [Free EXCEPT !.pc = IF account.weak THEN "rehash" ELSE "issue", !.pw = p]
  <2>2. q \in Request /\ Equipped(q)
    BY DEF Request, Free, Equipped, OnRow
  <2> QED
    BY <2>1, <2>2, StepTypes DEF StartLogin
<1>2. CASE StartPasskey(r)
  <2> DEFINE q == [Free EXCEPT !.pc = "issue"]
  <2>1. q \in Request /\ Equipped(q)
    BY DEF Request, Free, Equipped, OnRow
  <2> QED
    BY <1>2, <2>1, StepTypes DEF StartPasskey
<1>3. CASE Rehash(r)
  <2> DEFINE q == [req[r] EXCEPT !.pc = "issue"]
  <2>1. req[r] \in Request /\ req[r].pw \in Passwords
    BY <1>3 DEF Rehash, At, LocalsInv, Equipped
  <2>2. q \in Request /\ q.pc = "issue"
    BY <2>1 DEF Request
  <2>3. Equipped(q)
    BY <2>2 DEF Equipped, OnRow
  <2> QED
    BY <1>3, <2>1, <2>2, <2>3, StepTypes DEF Rehash, Goto, NewHash
<1>4. CASE \E n \in Sessions : IssueSession(r, n)
  <2>1. PICK n \in Sessions : IssueSession(r, n)
    BY <1>4
  <2>2. session' \in [Sessions -> Row]
    BY <2>1 DEF IssueSession, Row, Open
  <2> QED
    BY <2>1, <2>2, StepTypes, FreeIsRequest DEF IssueSession
<1> QED
  BY <1>1, <1>2, <1>3, <1>4 DEF SignIn

\* Every step of a refresh keeps the types and the locals.
LEMMA RefreshTypes ==
  ASSUME TypeOK, LocalsInv, NEW r \in Requests, Refresh(r)
  PROVE  TypeOK' /\ LocalsInv'
<1> USE DEF TypeOK
<1> DEFINE reuse(s) == [Free EXCEPT !.pc = "scan", !.sid = s, !.reason = "reuse_detected"]
<1>1. ASSUME NEW s \in Sessions
      PROVE  reuse(s) \in Request /\ Equipped(reuse(s))
  BY DEF Request, Free, Equipped, OnRow, RevokeReasons, Reasons
<1>2. ASSUME NEW s \in Sessions, StartRefresh(r, s)
      PROVE  TypeOK' /\ LocalsInv'
  <2> DEFINE q == [Free EXCEPT !.pc = "user", !.sid = s]
  <2>1. q \in Request /\ Equipped(q)
    BY DEF Request, Free, Equipped, OnRow
  <2>2. Becomes(r, reuse(s)) \/ Becomes(r, q)
    BY <1>2 DEF StartRefresh, Reuse
  <2> QED
    BY <1>1, <1>2, <2>1, <2>2, StepTypes DEF StartRefresh
<1>3. ASSUME NEW where \in {"rotate", "revoke", "successor", "recheck"},
             req[r].pc \in OnRow, Goto(r, where), UNCHANGED <<account, reset, session, ended>>
      PROVE  TypeOK' /\ LocalsInv'
  <2> DEFINE q == [req[r] EXCEPT !.pc = where]
  <2>1. req[r] \in Request /\ req[r].sid \in Sessions
    BY <1>3 DEF LocalsInv, Equipped
  <2>2. q \in Request /\ q.pc = where /\ q.sid = req[r].sid
    BY <1>3, <2>1 DEF Request
  <2>3. Equipped(q)
    BY <2>1, <2>2 DEF Equipped, OnRow
  <2> QED
    BY <1>3, <2>2, <2>3, StepTypes DEF Goto
<1>4. CASE RefreshUser(r)
  BY <1>3, <1>4 DEF RefreshUser, At, OnRow
<1>5. CASE RotateRow(r)
  BY <1>3, <1>5 DEF RotateRow, At, OnRow
<1>6. ASSUME NEW n \in Sessions, CommitSuccessor(r, n)
      PROVE  TypeOK' /\ LocalsInv'
  <2> DEFINE s == req[r].sid
             f == session[s].family
  <2>1. s \in Sessions /\ f \in Sessions
    BY <1>6 DEF CommitSuccessor, At, LocalsInv, Equipped, OnRow, Row
  <2>2. session' \in [Sessions -> Row]
    BY <1>6, <2>1 DEF CommitSuccessor, Row, Open, Reasons
  <2>3. ASSUME NEW q \in Requests
        PROVE  req'[q] \in Request /\ Equipped(req'[q])
    <3>1. CASE q = r
      BY <1>6, <3>1, FreeIsRequest DEF CommitSuccessor
    <3>2. CASE q # r
      <4>1. req'[q] = [req[q] EXCEPT !.clean = @ \ {f}]
        BY <1>6, <3>2 DEF CommitSuccessor
      <4>2. req[q] \in Request /\ Equipped(req[q])
        BY DEF LocalsInv
      <4> QED
        BY <4>1, <4>2 DEF Request, Equipped
    <3> QED
      BY <3>1, <3>2
  <2>4. req' \in [Requests -> Request]
    BY <1>6, <2>3 DEF CommitSuccessor
  <2> QED
    BY <1>6, <2>2, <2>3, <2>4 DEF CommitSuccessor, LocalsInv
<1>7. CASE Recheck(r)
  <2>1. req[r].sid \in Sessions
    BY <1>7 DEF Recheck, At, LocalsInv, Equipped, OnRow
  <2>2. Becomes(r, reuse(req[r].sid)) \/ Becomes(r, Free)
    BY <1>7 DEF Recheck, Reuse
  <2> QED
    BY <1>1, <1>7, <2>1, <2>2, FreeIsRequest, StepTypes DEF Recheck
<1> QED
  BY <1>2, <1>4, <1>5, <1>6, <1>7 DEF Refresh

\* Every step of a revocation keeps the types and the locals.
LEMMA RevocationTypes ==
  ASSUME TypeOK, LocalsInv, NEW r \in Requests, Revocation(r)
  PROVE  TypeOK' /\ LocalsInv'
<1> USE DEF TypeOK
<1>1. CASE Revoke(r)
  <2>1. req[r].sid \in Sessions
    BY <1>1 DEF Revoke, At, LocalsInv, Equipped, OnRow
  <2>2. session' \in [Sessions -> Row]
    BY <1>1, <2>1 DEF Revoke, Revoked, Row, Reasons
  <2> QED
    BY <1>1, <2>2, FreeIsRequest, StepTypes DEF Revoke
<1>2. CASE ScanSessions(r)
  <2> DEFINE rows == {s \in Sessions : Exists(s) /\ InScope(r, s)}
             q == [req[r] EXCEPT !.pc = "finish", !.targets = {s \in rows : IsOpen(s)},
                                 !.clean = {session[s].family : s \in rows}]
  <2>1. req[r] \in Request /\ req[r].reason \in RevokeReasons
    BY <1>2 DEF ScanSessions, At, LocalsInv, Equipped
  <2>2. {session[s].family : s \in rows} \subseteq Sessions
    BY DEF Row
  <2>3. q \in Request /\ Equipped(q)
    BY <2>1, <2>2 DEF Request, Equipped, OnRow
  <2> QED
    BY <1>2, <2>3, StepTypes DEF ScanSessions
<1>3. CASE RevokeSessions(r)
  <2>1. req[r] \in Request /\ req[r].reason \in Reasons
    BY <1>3 DEF RevokeSessions, At, LocalsInv, Equipped, RevokeReasons, Reasons
  <2>2. ASSUME NEW s \in Sessions
        PROVE  [session[s] EXCEPT !.state = req[r].reason] \in Row
    BY <2>1, RowRestated
  <2>3. session' \in [Sessions -> Row]
    BY <1>3, <2>2 DEF RevokeSessions
  <2>4. ended' \subseteq Sessions
    BY <1>3, <2>1 DEF RevokeSessions, Request
  <2> QED
    BY <1>3, <2>3, <2>4, FreeIsRequest, StepTypes DEF RevokeSessions
<1> QED
  BY <1>1, <1>2, <1>3 DEF Revocation

\* Every step behind the guard keeps the types and the locals.
LEMMA GuardedTypes ==
  ASSUME TypeOK, LocalsInv, NEW r \in Requests, Guarded(r)
  PROVE  TypeOK' /\ LocalsInv'
<1> USE DEF TypeOK
<1>1. ASSUME NEW s \in Sessions, ReadSession(r, s)
      PROVE  TypeOK' /\ LocalsInv'
  <2> DEFINE q == [Free EXCEPT !.pc = "guard", !.sid = s]
  <2>1. q \in Request /\ Equipped(q)
    BY DEF Request, Free, Equipped, OnRow
  <2> QED
    BY <1>1, <2>1, StepTypes DEF ReadSession
<1>2. CASE ReadUser(r)
  <2>1. req[r] \in Request /\ req[r].sid \in Sessions
    BY <1>2 DEF ReadUser, At, LocalsInv, Equipped, OnRow
  <2>2. [req[r] EXCEPT !.pc = "handler"] \in Request /\ Equipped([req[r] EXCEPT !.pc = "handler"])
    BY <2>1 DEF Request, Equipped, OnRow
  <2>3. CASE Goto(r, "handler")
    BY <1>2, <2>2, <2>3, StepTypes DEF ReadUser, Goto
  <2>4. CASE Becomes(r, Free)
    BY <1>2, <2>4, FreeIsRequest, StepTypes DEF ReadUser
  <2> QED
    BY <1>2, <2>3, <2>4 DEF ReadUser
<1>3. CASE Logout(r)
  <2>1. req[r].sid \in Sessions
    BY <1>3 DEF Logout, At, LocalsInv, Equipped, OnRow
  <2>2. session' \in [Sessions -> Row]
    BY <1>3, <2>1 DEF Logout, Revoked, Row, Reasons
  <2> QED
    BY <1>3, <2>2, FreeIsRequest, StepTypes DEF Logout
<1>4. CASE LogoutAll(r)
  <2> DEFINE q == [req[r] EXCEPT !.pc = "scan", !.reason = "logout_all"]
  <2>1. q \in Request /\ Equipped(q)
    BY GoesToScan DEF RevokeReasons
  <2> QED
    BY <1>4, <2>1, StepTypes DEF LogoutAll
<1>5. ASSUME NEW t \in Sessions, FindSession(r, t)
      PROVE  TypeOK' /\ LocalsInv'
  <2> DEFINE q == [req[r] EXCEPT !.pc = "revoke", !.sid = t]
  <2>1. q \in Request /\ Equipped(q)
    BY GoesToRevoke
  <2> QED
    BY <1>5, <2>1, StepTypes DEF FindSession
<1> QED
  BY <1>1, <1>2, <1>3, <1>4, <1>5 DEF Guarded

\* Every step of a deletion request or its cancellation keeps the types and the locals.
LEMMA DeletionTypes ==
  ASSUME TypeOK, LocalsInv, NEW r \in Requests, Deletion(r)
  PROVE  TypeOK' /\ LocalsInv'
<1> USE DEF TypeOK
<1>1. ASSUME NEW p \in Passwords, StartDeletion(r, p)
      PROVE  TypeOK' /\ LocalsInv'
  <2> DEFINE q == [req[r] EXCEPT !.pc = "request"]
  <2>1. req[r] \in Request /\ req[r].sid \in Sessions
    BY <1>1 DEF StartDeletion, At, LocalsInv, Equipped, OnRow
  <2>2. q \in Request /\ Equipped(q)
    BY <2>1 DEF Request, Equipped, OnRow
  <2> QED
    BY <1>1, <2>2, StepTypes DEF StartDeletion, Goto
<1>2. CASE RequestDeletion(r)
  <2> DEFINE q == [req[r] EXCEPT !.pc = "scan", !.reason = "admin"]
  <2>1. q \in Request /\ Equipped(q)
    BY GoesToScan DEF RevokeReasons
  <2>2. Becomes(r, q) \/ Becomes(r, Free)
    BY <1>2 DEF RequestDeletion
  <2> QED
    BY <1>2, <2>1, <2>2, FreeIsRequest, StepTypes DEF RequestDeletion
<1>3. ASSUME NEW p \in Passwords, StartCancel(r, p)
      PROVE  TypeOK' /\ LocalsInv'
  <2> DEFINE q == [Free EXCEPT !.pc = "cancel"]
  <2>1. q \in Request /\ Equipped(q)
    BY DEF Request, Free, Equipped, OnRow
  <2> QED
    BY <1>3, <2>1, StepTypes DEF StartCancel
<1>4. CASE CancelDeletion(r)
  <2> DEFINE q == [req[r] EXCEPT !.pc = "issue"]
  <2>1. q \in Request /\ Equipped(q)
    BY DEF Request, Equipped, OnRow
  <2>2. Becomes(r, q) \/ Becomes(r, Free)
    BY <1>4 DEF CancelDeletion, Goto
  <2> QED
    BY <1>4, <2>1, <2>2, FreeIsRequest, StepTypes DEF CancelDeletion
<1> QED
  BY <1>1, <1>2, <1>3, <1>4 DEF Deletion

\* Every step of a password reset keeps the types and the locals.
LEMMA PasswordResetTypes ==
  ASSUME TypeOK, LocalsInv, NEW r \in Requests, PasswordReset(r)
  PROVE  TypeOK' /\ LocalsInv'
<1> USE DEF TypeOK
<1>1. CASE StartResetRequest(r)
  <2> DEFINE q == [Free EXCEPT !.pc = "token"]
  <2>1. q \in Request /\ Equipped(q)
    BY DEF Request, Free, Equipped, OnRow
  <2> QED
    BY <1>1, <2>1, StepTypes DEF StartResetRequest
<1>2. CASE IssueToken(r)
  BY <1>2, FreeIsRequest, StepTypes DEF IssueToken
<1>3. ASSUME NEW p \in Passwords, ConsumeToken(r, p)
      PROVE  TypeOK' /\ LocalsInv'
  <2> DEFINE q == [Free EXCEPT !.pc = "reset_user", !.pw = p]
  <2>1. q \in Request /\ Equipped(q)
    BY DEF Request, Free, Equipped, OnRow
  <2> QED
    BY <1>3, <2>1, StepTypes DEF ConsumeToken
<1>4. CASE ResetUser(r)
  <2> DEFINE q == [req[r] EXCEPT !.pc = "set_password"]
  <2>1. req[r] \in Request /\ req[r].pw \in Passwords
    BY <1>4 DEF ResetUser, At, LocalsInv, Equipped
  <2>2. q \in Request /\ Equipped(q)
    BY <2>1 DEF Request, Equipped, OnRow
  <2>3. Becomes(r, q) \/ Becomes(r, Free)
    BY <1>4 DEF ResetUser, Goto
  <2> QED
    BY <1>4, <2>2, <2>3, FreeIsRequest, StepTypes DEF ResetUser
<1>5. CASE SetPassword(r)
  <2> DEFINE q == [req[r] EXCEPT !.pc = "scan", !.reason = "admin"]
  <2>1. req[r].pw \in Passwords
    BY <1>5 DEF SetPassword, At, LocalsInv, Equipped
  <2>2. q \in Request /\ Equipped(q)
    BY GoesToScan DEF RevokeReasons
  <2> QED
    BY <1>5, <2>1, <2>2, StepTypes DEF SetPassword, NewHash
<1> QED
  BY <1>1, <1>2, <1>3, <1>4, <1>5 DEF PasswordReset

\* So do the passing of time, the two deletions of maintenance, and a request that dies.
LEMMA MaintenanceTypes ==
  ASSUME TypeOK, LocalsInv, Maintenance \/ \E r \in Requests : Abort(r)
  PROVE  TypeOK' /\ LocalsInv'
<1> USE DEF TypeOK
<1>1. ASSUME NEW gone \in SUBSET Sessions, Deleted(gone)
      PROVE  session' \in [Sessions -> Row]
  <2>1. ASSUME NEW s \in Sessions
        PROVE  [session[s] EXCEPT !.state = "deleted"] \in Row
    BY RowRestated
  <2> QED
    BY <1>1, <2>1 DEF Deleted
<1>2. ASSUME NEW s \in Sessions, Expire(s)
      PROVE  TypeOK' /\ LocalsInv'
  <2>1. session' \in [Sessions -> Row]
    BY <1>2 DEF Expire, Row, Open
  <2> QED
    BY <1>2, <2>1 DEF Expire, LocalsInv
<1>3. ASSUME NEW old \in SUBSET Sessions, DeleteExpired(old)
      PROVE  TypeOK' /\ LocalsInv'
  <2>1. session' \in [Sessions -> Row]
    BY <1>1, <1>3 DEF DeleteExpired
  <2> QED
    BY <1>3, <2>1 DEF DeleteExpired, LocalsInv
<1>4. CASE PurgeDue
  <2>1. session' \in [Sessions -> Row]
    BY <1>1, <1>4 DEF PurgeDue
  <2> QED
    BY <1>4, <2>1 DEF PurgeDue, LocalsInv
<1>5. ASSUME NEW r \in Requests, Abort(r)
      PROVE  TypeOK' /\ LocalsInv'
  BY <1>5, FreeIsRequest, StepTypes DEF Abort
<1> QED
  BY <1>2, <1>3, <1>4, <1>5 DEF Maintenance

\* The initial state is well typed, and no request has started.
LEMMA InitTypes == Init => TypeOK /\ LocalsInv
<1> SUFFICES ASSUME Init
             PROVE  TypeOK /\ LocalsInv
  OBVIOUS
<1>1. session \in [Sessions -> Row]
  BY DEF Init, Row
<1>2. req \in [Requests -> Request] /\ LocalsInv
  BY FreeIsRequest DEF Init, LocalsInv
<1>3. /\ account \in [status : {"active", "pending_deletion", "purged"}, pw : Passwords,
                      weak : BOOLEAN]
      /\ reset \in BOOLEAN
      /\ ended \subseteq Sessions
  BY DEF Init
<1> QED
  BY <1>1, <1>2, <1>3 DEF TypeOK

\* Every step keeps the types and the locals of the requests.
LEMMA NextTypes == TypeOK /\ LocalsInv /\ [Next]_vars => TypeOK' /\ LocalsInv'
<1> SUFFICES ASSUME TypeOK, LocalsInv, [Next]_vars
             PROVE  TypeOK' /\ LocalsInv'
  OBVIOUS
<1>1. CASE Next
  BY <1>1, SignInTypes, RefreshTypes, RevocationTypes, GuardedTypes, DeletionTypes,
     PasswordResetTypes, MaintenanceTypes DEF Next
<1>2. CASE UNCHANGED vars
  BY <1>2 DEF vars, TypeOK, LocalsInv
<1> QED
  BY <1>1, <1>2

\* The types of the account, its tokens, its sessions and the requests in flight.
THEOREM SessionsTypeCorrect == Spec => []TypeOK
<1>1. TypeOK /\ LocalsInv /\ [Next]_vars => (TypeOK /\ LocalsInv)'
  BY NextTypes
<1> QED
  BY <1>1, InitTypes, PTL DEF Spec

-----------------------------------------------------------------------------
(* Families, locks and revocations in progress *)

\* What most steps do: no row is created or opened again, a row that a rotation holds is left
\* alone, and no request enters a rotation or a revocation's writing.
Tame ==
    /\ \A s \in Sessions :
          /\ session'[s].family = session[s].family
          /\ (session'[s].state = "none") <=> (session[s].state = "none")
          /\ session'[s].state \in Open => IsOpen(s)
          /\ Locked(s) /\ IsOpen(s) => session'[s].state \in Open
    /\ \A r \in Requests : req'[r] = req[r] \/ req'[r].pc \notin {"successor", "finish"}
    /\ ended' = ended

\* A tame step keeps the strengthening.
LEMMA TameStep ==
  ASSUME TypeOK, LocalsInv, SessionInv, Tame
  PROVE  SessionInv'
<1> USE DEF IsOpen
<1>1. OneLivePerFamily'
  BY DEF SessionInv, OneLivePerFamily, Tame
<1>2. EndedStaysEnded'
  BY DEF SessionInv, EndedStaysEnded, Tame
<1>3. FamilyInv'
  <2> SUFFICES ASSUME NEW s \in Sessions, session'[s].state # "none"
               PROVE  session'[session'[s].family].state # "none"
    BY DEF FamilyInv
  <2>1. session[s].family \in Sessions
    BY DEF TypeOK, Row
  <2> QED
    BY <2>1 DEF SessionInv, FamilyInv, Tame
<1>4. LockInv'
  <2> SUFFICES ASSUME NEW r \in Requests, At(r, "successor")'
               PROVE  /\ session'[req'[r].sid].state \in Open
                      /\ \A q \in Requests : At(q, "successor")' /\ req'[q].sid = req'[r].sid
                                               => q = r
    BY DEF LockInv
  <2>1. \A q \in Requests : At(q, "successor")' => At(q, "successor") /\ req'[q] = req[q]
    BY DEF Tame, At
  <2>2. At(r, "successor") /\ req'[r] = req[r]
    BY <2>1
  <2>3. req[r].sid \in Sessions
    BY <2>2 DEF LocalsInv, Equipped, OnRow, At
  <2>4. session[req[r].sid].state \in Open
    BY <2>2 DEF SessionInv, LockInv
  <2>5. Locked(req[r].sid)
    BY <2>2 DEF Locked
  <2>6. session'[req[r].sid].state \in Open
    BY <2>3, <2>4, <2>5 DEF Tame
  <2> QED
    BY <2>1, <2>2, <2>6 DEF SessionInv, LockInv
<1>5. CleanInv'
  <2> SUFFICES ASSUME NEW r \in Requests, At(r, "finish")', NEW s \in Sessions
               PROVE  /\ s \in req'[r].clean => session'[s].state # "none"
                      /\ session'[s].state \in Open /\ session'[s].family \in req'[r].clean
                           => s \in req'[r].targets
    BY DEF CleanInv
  <2>1. At(r, "finish") /\ req'[r] = req[r]
    BY DEF Tame, At
  <2> QED
    BY <2>1 DEF SessionInv, CleanInv, Tame
<1>6. EndedInv'
  BY DEF SessionInv, EndedInv, Tame, TypeOK
<1> QED
  BY <1>1, <1>2, <1>3, <1>4, <1>5, <1>6 DEF SessionInv

\* A request that goes on to another await than those two.
LEMMA TameRequest ==
  ASSUME TypeOK, NEW r \in Requests, NEW q, q.pc \notin {"successor", "finish"}, Becomes(r, q)
  PROVE  \A s \in Requests : req'[s] = req[s] \/ req'[s].pc \notin {"successor", "finish"}
  BY DEF TypeOK, Becomes

\* It is tame when it leaves the rows and the history alone.
LEMMA TameRead ==
  ASSUME TypeOK, NEW r \in Requests, NEW q, q.pc \notin {"successor", "finish"},
         Becomes(r, q), UNCHANGED <<session, ended>>
  PROVE  Tame
  BY TameRequest DEF Tame, IsOpen

\* Going on to a named await changes the await.
LEMMA NextAwait ==
  ASSUME TypeOK, NEW r \in Requests
  PROVE  \A where : [req[r] EXCEPT !.pc = where].pc = where
  BY DEF TypeOK, Request

\* Rows that are closed, while no rotation holds them, are a tame change.
LEMMA TameRows ==
  ASSUME TypeOK, NEW gone \in SUBSET Sessions, NEW to, to \notin Open \cup {"none"},
         \A s \in gone : ~ Locked(s) /\ Exists(s),
         session' = [s \in Sessions |-> IF s \in gone THEN [session[s] EXCEPT !.state = to]
                                        ELSE session[s]]
  PROVE  \A s \in Sessions :
            /\ session'[s].family = session[s].family
            /\ (session'[s].state = "none") <=> (session[s].state = "none")
            /\ session'[s].state \in Open => IsOpen(s)
            /\ Locked(s) /\ IsOpen(s) => session'[s].state \in Open
<1> TAKE s \in Sessions
<1>1. CASE s \in gone
  <2>1. session'[s] = [session[s] EXCEPT !.state = to] /\ session[s] \in Row
    BY <1>1 DEF TypeOK
  <2>2. session'[s].family = session[s].family /\ session'[s].state = to
    BY <2>1 DEF Row
  <2> QED
    BY <1>1, <2>2 DEF Exists
<1>2. CASE s \notin gone
  BY <1>2 DEF IsOpen
<1> QED
  BY <1>1, <1>2

\* The statement that revokes one row is tame.
LEMMA TameRevoke ==
  ASSUME TypeOK, NEW t \in Sessions, ~ Locked(t), NEW reason \in {"admin", "logout"},
         Revoked(t, reason)
  PROVE  \A s \in Sessions :
            /\ session'[s].family = session[s].family
            /\ (session'[s].state = "none") <=> (session[s].state = "none")
            /\ session'[s].state \in Open => IsOpen(s)
            /\ Locked(s) /\ IsOpen(s) => session'[s].state \in Open
<1>1. CASE IsOpen(t)
  <2>1. session' = [s \in Sessions |-> IF s \in {t} THEN [session[s] EXCEPT !.state = reason]
                                       ELSE session[s]]
    BY <1>1 DEF Revoked, TypeOK
  <2>2. Exists(t) /\ reason \notin Open \cup {"none"}
    BY <1>1 DEF Exists, IsOpen, Open
  <2> QED
    BY <2>1, <2>2, TameRows
<1>2. CASE ~ IsOpen(t)
  <2>1. session' = session
    BY <1>2 DEF Revoked, TypeOK, Row
  <2> QED
    BY <2>1 DEF IsOpen
<1> QED
  BY <1>1, <1>2

\* Signing in is tame up to the INSERT of issueSession.
LEMMA TameSignIn ==
  ASSUME TypeOK, NEW r \in Requests,
         (\E p \in Passwords : StartLogin(r, p)) \/ StartPasskey(r) \/ Rehash(r)
  PROVE  Tame
<1>1. ASSUME NEW p \in Passwords, StartLogin(r, p)
      PROVE  Tame
  <2> DEFINE q == [Free EXCEPT !.pc = IF account.weak THEN "rehash" ELSE "issue", !.pw = p]
  <2>1. q.pc \notin {"successor", "finish"}
    BY DEF Free
  <2> QED
    BY <1>1, <2>1, TameRead DEF StartLogin
<1>2. CASE StartPasskey(r)
  <2>1. [Free EXCEPT !.pc = "issue"].pc \notin {"successor", "finish"}
    BY DEF Free
  <2> QED
    BY <1>2, <2>1, TameRead DEF StartPasskey
<1>3. CASE Rehash(r)
  BY <1>3, NextAwait, TameRead DEF Rehash, Goto
<1> QED
  BY <1>1, <1>2, <1>3

\* A refresh is tame where it reads.
LEMMA TameRefresh ==
  ASSUME TypeOK, NEW r \in Requests,
         \/ \E s \in Sessions : StartRefresh(r, s)
         \/ RefreshUser(r)
         \/ RotateRow(r) /\ ~ IsOpen(req[r].sid)
         \/ Recheck(r)
  PROVE  Tame
<1>1. ASSUME NEW s \in Sessions, Reuse(r, s) \/ Becomes(r, Free), UNCHANGED <<session, ended>>
      PROVE  Tame
  <2>1. /\ [Free EXCEPT !.pc = "scan", !.sid = s, !.reason = "reuse_detected"].pc
             \notin {"successor", "finish"}
        /\ Free.pc \notin {"successor", "finish"}
    BY DEF Free
  <2> QED
    BY <1>1, <2>1, TameRead DEF Reuse
<1>2. ASSUME NEW s \in Sessions, StartRefresh(r, s)
      PROVE  Tame
  <2>1. [Free EXCEPT !.pc = "user", !.sid = s].pc \notin {"successor", "finish"}
    BY DEF Free
  <2> QED
    BY <1>1, <1>2, <2>1, TameRead DEF StartRefresh
<1>3. CASE RefreshUser(r)
  BY <1>3, NextAwait, TameRead DEF RefreshUser, Goto
<1>4. CASE RotateRow(r) /\ ~ IsOpen(req[r].sid)
  BY <1>4, NextAwait, TameRead DEF RotateRow, Goto
<1>5. CASE Recheck(r)
  <2>1. Becomes(r, Free) \/ Reuse(r, req[r].sid)
    BY <1>5 DEF Recheck
  <2>2. /\ [Free EXCEPT !.pc = "scan", !.sid = req[r].sid, !.reason = "reuse_detected"].pc
             \notin {"successor", "finish"}
        /\ Free.pc \notin {"successor", "finish"}
    BY DEF Free
  <2> QED
    BY <1>5, <2>1, <2>2, TameRead DEF Recheck, Reuse
<1> QED
  BY <1>2, <1>3, <1>4, <1>5

\* What happens behind the guard is tame: it reads, or revokes one row.
LEMMA TameGuarded ==
  ASSUME TypeOK, LocalsInv, NEW r \in Requests, Guarded(r) \/ Revoke(r) \/ Abort(r)
  PROVE  Tame
<1>1. Free.pc \notin {"successor", "finish"}
  BY DEF Free
<1>2. ASSUME NEW s \in Sessions, ReadSession(r, s)
      PROVE  Tame
  <2>1. [Free EXCEPT !.pc = "guard", !.sid = s].pc \notin {"successor", "finish"}
    BY DEF Free
  <2> QED
    BY <1>2, <2>1, TameRead DEF ReadSession
<1>3. CASE ReadUser(r)
  BY <1>1, <1>3, NextAwait, TameRead DEF ReadUser, Goto
<1>4. ASSUME NEW reason \in {"admin", "logout"}, req[r].pc \in OnRow, ~ Locked(req[r].sid),
             Revoked(req[r].sid, reason), Becomes(r, Free), ended' = ended
      PROVE  Tame
  <2>1. req[r].sid \in Sessions
    BY <1>4 DEF LocalsInv, Equipped
  <2>2. \A s \in Sessions :
            /\ session'[s].family = session[s].family
            /\ (session'[s].state = "none") <=> (session[s].state = "none")
            /\ session'[s].state \in Open => IsOpen(s)
            /\ Locked(s) /\ IsOpen(s) => session'[s].state \in Open
    BY <1>4, <2>1, TameRevoke
  <2>3. \A s \in Requests : req'[s] = req[s] \/ req'[s].pc \notin {"successor", "finish"}
    BY <1>1, <1>4, TameRequest
  <2> QED
    BY <1>4, <2>2, <2>3 DEF Tame
<1>5. CASE Logout(r)
  BY <1>4, <1>5 DEF Logout, At, OnRow
<1>6. CASE Revoke(r)
  BY <1>4, <1>6 DEF Revoke, At, OnRow
<1>7. CASE LogoutAll(r)
  <2>1. [req[r] EXCEPT !.pc = "scan", !.reason = "logout_all"].pc \notin {"successor", "finish"}
    BY DEF TypeOK, Request
  <2> QED
    BY <1>7, <2>1, TameRead DEF LogoutAll
<1>8. ASSUME NEW t \in Sessions, FindSession(r, t)
      PROVE  Tame
  <2>1. [req[r] EXCEPT !.pc = "revoke", !.sid = t].pc \notin {"successor", "finish"}
    BY DEF TypeOK, Request
  <2> QED
    BY <1>8, <2>1, TameRead DEF FindSession
<1>9. CASE Abort(r)
  BY <1>1, <1>9, TameRead DEF Abort
<1> QED
  BY <1>2, <1>3, <1>5, <1>6, <1>7, <1>8, <1>9 DEF Guarded

\* Deletion requests and password resets are tame up to the revocation they end in.
LEMMA TameAccount ==
  ASSUME TypeOK, NEW r \in Requests, Deletion(r) \/ PasswordReset(r)
  PROVE  Tame
<1>1. Free.pc \notin {"successor", "finish"}
  BY DEF Free
<1>2. [req[r] EXCEPT !.pc = "scan", !.reason = "admin"].pc \notin {"successor", "finish"}
  BY DEF TypeOK, Request
<1>3. \A p \in Passwords : StartDeletion(r, p) => Tame
  BY NextAwait, TameRead DEF StartDeletion, Goto
<1>4. RequestDeletion(r) => Tame
  BY <1>1, <1>2, TameRead DEF RequestDeletion
<1>5. ASSUME NEW p \in Passwords, StartCancel(r, p)
      PROVE  Tame
  <2>1. [Free EXCEPT !.pc = "cancel"].pc \notin {"successor", "finish"}
    BY DEF Free
  <2> QED
    BY <1>5, <2>1, TameRead DEF StartCancel
<1>6. CancelDeletion(r) => Tame
  BY <1>1, NextAwait, TameRead DEF CancelDeletion, Goto
<1>7. ASSUME StartResetRequest(r)
      PROVE  Tame
  <2>1. [Free EXCEPT !.pc = "token"].pc \notin {"successor", "finish"}
    BY DEF Free
  <2> QED
    BY <1>7, <2>1, TameRead DEF StartResetRequest
<1>8. IssueToken(r) => Tame
  BY <1>1, TameRead DEF IssueToken
<1>9. ASSUME NEW p \in Passwords, ConsumeToken(r, p)
      PROVE  Tame
  <2>1. [Free EXCEPT !.pc = "reset_user", !.pw = p].pc \notin {"successor", "finish"}
    BY DEF Free
  <2> QED
    BY <1>9, <2>1, TameRead DEF ConsumeToken
<1>10. ResetUser(r) => Tame
  BY <1>1, NextAwait, TameRead DEF ResetUser, Goto
<1>11. SetPassword(r) => Tame
  BY <1>2, TameRead DEF SetPassword
<1> QED
  BY <1>3, <1>4, <1>5, <1>6, <1>7, <1>8, <1>9, <1>10, <1>11 DEF Deletion, PasswordReset

\* Time closes no good token and maintenance deletes no row a rotation holds.
LEMMA TameMaintenance ==
  ASSUME TypeOK, Maintenance
  PROVE  Tame
<1>1. ASSUME NEW s \in Sessions, Expire(s)
      PROVE  Tame
  BY <1>1 DEF Expire, Tame, IsOpen, Open, TypeOK, Row
<1>2. ASSUME NEW gone \in SUBSET Sessions, Deleted(gone), UNCHANGED <<req, ended>>,
             \A s \in gone : ~ Locked(s) /\ Exists(s)
      PROVE  Tame
  <2>1. "deleted" \notin Open \cup {"none"}
    BY DEF Open
  <2>2. \A s \in Sessions :
            /\ session'[s].family = session[s].family
            /\ (session'[s].state = "none") <=> (session[s].state = "none")
            /\ session'[s].state \in Open => IsOpen(s)
            /\ Locked(s) /\ IsOpen(s) => session'[s].state \in Open
    BY <1>2, <2>1, TameRows DEF Deleted
  <2> QED
    BY <1>2, <2>2 DEF Tame
<1>3. ASSUME NEW old \in SUBSET Sessions, DeleteExpired(old)
      PROVE  Tame
  <2> DEFINE gone == old \cup {s \in Sessions : session[s].state = "stale"}
  <2>1. \A s \in gone : ~ Locked(s) /\ Exists(s)
    BY <1>3 DEF DeleteExpired, Exists, Reasons
  <2> QED
    BY <1>2, <1>3, <2>1 DEF DeleteExpired
<1>4. CASE PurgeDue
  BY <1>2, <1>4 DEF PurgeDue
<1> QED
  BY <1>1, <1>3, <1>4 DEF Maintenance

-----------------------------------------------------------------------------
(* The steps that are not tame *)

\* issueSession opens a family that nothing speaks of yet.
LEMMA IssueStep ==
  ASSUME TypeOK, LocalsInv, SessionInv, NEW r \in Requests, NEW n \in Sessions,
         IssueSession(r, n)
  PROVE  SessionInv'
<1> USE DEF IsOpen
<1>1. /\ session[n].state = "none"
      /\ session'[n] = [state |-> "live", family |-> n]
      /\ \A s \in Sessions \ {n} : session'[s] = session[s]
      /\ ended' = ended
  BY DEF IssueSession, TypeOK
<1>2. \A s \in Sessions : IsOpen(s) => s # n /\ session[s].family # n
  BY <1>1 DEF SessionInv, FamilyInv, Open
<1>3. \A s \in Requests : req'[s] = req[s] \/ req'[s].pc \notin {"successor", "finish"}
  BY FreeIsRequest, TameRequest DEF IssueSession, Free
<1>4. OneLivePerFamily'
  BY <1>1, <1>2 DEF SessionInv, OneLivePerFamily
<1>5. EndedStaysEnded'
  BY <1>1 DEF SessionInv, EndedStaysEnded, EndedInv
<1>6. FamilyInv'
  BY <1>1 DEF SessionInv, FamilyInv, TypeOK, Row
<1>7. LockInv'
  <2>1. \A q \in Requests : At(q, "successor")' => At(q, "successor") /\ req'[q] = req[q]
    BY <1>3 DEF At
  <2>2. \A q \in Requests : At(q, "successor") => req[q].sid \in Sessions \ {n}
    BY <1>2 DEF LocalsInv, Equipped, OnRow, At, SessionInv, LockInv
  <2> QED
    BY <1>1, <2>1, <2>2 DEF SessionInv, LockInv
<1>8. CleanInv'
  <2> SUFFICES ASSUME NEW q \in Requests, At(q, "finish")', NEW s \in Sessions
               PROVE  /\ s \in req'[q].clean => session'[s].state # "none"
                      /\ session'[s].state \in Open /\ session'[s].family \in req'[q].clean
                           => s \in req'[q].targets
    BY DEF CleanInv
  <2>1. At(q, "finish") /\ req'[q] = req[q]
    BY <1>3 DEF At
  <2>2. n \notin req[q].clean
    BY <1>1, <2>1 DEF SessionInv, CleanInv
  <2> QED
    BY <1>1, <2>1, <2>2 DEF SessionInv, CleanInv
<1>9. EndedInv'
  BY <1>1 DEF SessionInv, EndedInv, TypeOK
<1> QED
  BY <1>4, <1>5, <1>6, <1>7, <1>8, <1>9 DEF SessionInv

\* The conditional UPDATE of rotate takes the lock of a good token that nobody holds.
LEMMA RotateStep ==
  ASSUME TypeOK, LocalsInv, SessionInv, NEW r \in Requests, RotateRow(r), IsOpen(req[r].sid)
  PROVE  SessionInv'
<1>1. req' = [req EXCEPT ![r] = [req[r] EXCEPT !.pc = "successor"]]
  BY DEF RotateRow, Goto, Becomes
<1>2. /\ req'[r].pc = "successor" /\ req'[r].sid = req[r].sid
      /\ \A q \in Requests \ {r} : req'[q] = req[q]
  BY <1>1 DEF TypeOK, Request
<1>3. UNCHANGED <<session, ended>>
  BY DEF RotateRow
<1>4. \A q \in Requests : At(q, "successor") => req[q].sid # req[r].sid
  BY DEF RotateRow, Locked
<1>5. LockInv'
  BY <1>2, <1>3, <1>4 DEF SessionInv, LockInv, At, IsOpen
<1>6. CleanInv'
  BY <1>2, <1>3 DEF SessionInv, CleanInv, At, IsOpen
<1> QED
  BY <1>3, <1>5, <1>6 DEF SessionInv, OneLivePerFamily, EndedStaysEnded, FamilyInv, EndedInv,
     IsOpen

\* The COMMIT of rotate puts one good token in the place of another, and takes the family out
\* of the revocations in progress.
LEMMA CommitStep ==
  ASSUME TypeOK, LocalsInv, SessionInv, NEW r \in Requests, NEW n \in Sessions,
         CommitSuccessor(r, n)
  PROVE  SessionInv'
<1> USE DEF IsOpen
<1> DEFINE s == req[r].sid
           f == session[s].family
<1>1. s \in Sessions /\ f \in Sessions
  BY DEF CommitSuccessor, At, LocalsInv, Equipped, OnRow, TypeOK, Row
<1>2. IsOpen(s) /\ s # n
  BY DEF SessionInv, LockInv, CommitSuccessor, Open
<1>3. /\ session[n].state = "none"
      /\ session'[n].state = "live" /\ session'[n].family = f
      /\ session'[s].state = "rotated" /\ session'[s].family = f
      /\ \A t \in Sessions \ {s, n} : session'[t] = session[t]
      /\ ended' = ended
  BY <1>1, <1>2 DEF CommitSuccessor, TypeOK, Row
<1>4. req'[r].pc = "idle"
  BY DEF CommitSuccessor, Free
<1>5. \A q \in Requests \ {r} : /\ req'[q].pc = req[q].pc /\ req'[q].sid = req[q].sid
                                /\ req'[q].targets = req[q].targets
                                /\ req'[q].clean = req[q].clean \ {f}
  BY DEF CommitSuccessor, TypeOK, Request
<1>6. \A t \in Sessions \ {s} : IsOpen(t) => session[t].family # f
  BY <1>1, <1>2 DEF SessionInv, OneLivePerFamily
<1>7. OneLivePerFamily'
  BY <1>1, <1>3, <1>6 DEF SessionInv, OneLivePerFamily, Open
<1>8. EndedStaysEnded'
  BY <1>1, <1>2, <1>3 DEF SessionInv, EndedStaysEnded, Open
<1>9. FamilyInv'
  BY <1>1, <1>2, <1>3 DEF SessionInv, FamilyInv, TypeOK, Row, Open
<1>10. LockInv'
  <2> SUFFICES ASSUME NEW p \in Requests, At(p, "successor")'
               PROVE  /\ session'[req'[p].sid].state \in Open
                      /\ \A q \in Requests : At(q, "successor")' /\ req'[q].sid = req'[p].sid
                                               => q = p
    BY DEF LockInv
  <2>1. \A q \in Requests : At(q, "successor")' =>
            q # r /\ At(q, "successor") /\ req'[q].sid = req[q].sid
    BY <1>4, <1>5 DEF At
  <2>2. req[p].sid # s
    BY <2>1 DEF SessionInv, LockInv, CommitSuccessor
  <2>3. req[p].sid \in Sessions /\ IsOpen(req[p].sid)
    BY <2>1 DEF LocalsInv, Equipped, OnRow, At, SessionInv, LockInv
  <2>4. session'[req'[p].sid].state \in Open
    BY <1>3, <2>1, <2>2, <2>3 DEF Open
  <2> QED
    BY <2>1, <2>4 DEF SessionInv, LockInv
<1>11. CleanInv'
  <2> SUFFICES ASSUME NEW q \in Requests, At(q, "finish")', NEW t \in Sessions
               PROVE  /\ t \in req'[q].clean => session'[t].state # "none"
                      /\ session'[t].state \in Open /\ session'[t].family \in req'[q].clean
                           => t \in req'[q].targets
    BY DEF CleanInv
  <2>1. q # r /\ At(q, "finish")
    BY <1>4, <1>5 DEF At
  <2>2. req'[q].targets = req[q].targets /\ req'[q].clean = req[q].clean \ {f}
    BY <1>5, <2>1
  <2>3. t \in req[q].clean => session[t].state # "none"
    BY <2>1 DEF SessionInv, CleanInv
  <2>4. IsOpen(t) /\ session[t].family \in req[q].clean => t \in req[q].targets
    BY <2>1 DEF SessionInv, CleanInv
  <2>5. CASE t \in {s, n}
    BY <1>3, <2>2, <2>5 DEF Open
  <2>6. CASE t \notin {s, n}
    BY <1>3, <2>2, <2>3, <2>4, <2>6
  <2> QED
    BY <2>5, <2>6
<1>12. EndedInv'
  BY <1>1, <1>3 DEF SessionInv, EndedInv, TypeOK
<1> QED
  BY <1>7, <1>8, <1>9, <1>10, <1>11, <1>12 DEF SessionInv

\* The snapshot of a revocation holds every good token of the families in its scope.
LEMMA ScanStep ==
  ASSUME TypeOK, LocalsInv, SessionInv, NEW r \in Requests, ScanSessions(r)
  PROVE  SessionInv'
<1> DEFINE rows == {s \in Sessions : Exists(s) /\ InScope(r, s)}
<1>1. /\ req'[r].pc = "finish"
      /\ req'[r].targets = {s \in rows : IsOpen(s)}
      /\ req'[r].clean = {session[s].family : s \in rows}
      /\ \A q \in Requests \ {r} : req'[q] = req[q]
  BY DEF ScanSessions, Becomes, TypeOK, Request
<1>2. UNCHANGED <<session, ended>>
  BY DEF ScanSessions
<1>3. ASSUME NEW s \in Sessions, IsOpen(s), session[s].family \in req'[r].clean
      PROVE  s \in req'[r].targets
  <2>1. PICK t \in rows : session[s].family = session[t].family
    BY <1>1, <1>3
  <2>2. InScope(r, s)
    BY <2>1 DEF InScope
  <2>3. Exists(s)
    BY <1>3 DEF IsOpen, Exists, Open
  <2> QED
    BY <1>1, <1>3, <2>2, <2>3
<1>4. ASSUME NEW f \in req'[r].clean
      PROVE  f \in Sessions /\ session[f].state # "none"
  <2>1. PICK t \in rows : f = session[t].family
    BY <1>1
  <2> QED
    BY <2>1 DEF SessionInv, FamilyInv, Exists, TypeOK, Row
<1>5. CleanInv'
  <2> SUFFICES ASSUME NEW q \in Requests, At(q, "finish")', NEW t \in Sessions
               PROVE  /\ t \in req'[q].clean => session[t].state # "none"
                      /\ IsOpen(t) /\ session[t].family \in req'[q].clean
                           => t \in req'[q].targets
    BY <1>2 DEF CleanInv, IsOpen
  <2>1. CASE q = r
    BY <1>3, <1>4, <2>1
  <2>2. CASE q # r
    BY <1>1, <2>2 DEF SessionInv, CleanInv, At
  <2> QED
    BY <2>1, <2>2
<1>6. LockInv'
  BY <1>1, <1>2 DEF SessionInv, LockInv, At, IsOpen
<1> QED
  BY <1>2, <1>5, <1>6 DEF SessionInv, OneLivePerFamily, EndedStaysEnded, FamilyInv, EndedInv,
     IsOpen

\* The writes of a revocation are tame but for the history, which they only extend by families
\* whose good tokens they close.
LEMMA RevokeStep ==
  ASSUME TypeOK, LocalsInv, SessionInv, NEW r \in Requests, RevokeSessions(r)
  PROVE  SessionInv'
<1> DEFINE gone == {s \in req[r].targets : IsOpen(s)}
<1>1. req[r] \in Request /\ req[r].reason \in RevokeReasons
  BY DEF RevokeSessions, At, LocalsInv, Equipped, TypeOK
<1>2. req[r].reason \notin Open \cup {"none"}
  BY <1>1 DEF RevokeReasons, Open
<1>3. gone \subseteq Sessions /\ \A s \in gone : ~ Locked(s) /\ Exists(s)
  BY <1>1 DEF RevokeSessions, Request, IsOpen, Exists, Open
<1>4. session' = [s \in Sessions |-> IF s \in gone
                                     THEN [session[s] EXCEPT !.state = req[r].reason]
                                     ELSE session[s]]
  BY DEF RevokeSessions
<1>5. \A s \in Sessions :
            /\ session'[s].family = session[s].family
            /\ (session'[s].state = "none") <=> (session[s].state = "none")
            /\ session'[s].state \in Open => IsOpen(s)
            /\ Locked(s) /\ IsOpen(s) => session'[s].state \in Open
  BY <1>2, <1>3, <1>4, TameRows
<1>6. \A s \in gone : session'[s].state \notin Open
  <2> TAKE s \in gone
  <2>1. session[s] \in Row /\ session'[s] = [session[s] EXCEPT !.state = req[r].reason]
    BY <1>3, <1>4 DEF TypeOK
  <2> QED
    BY <1>2, <2>1 DEF Row
<1>7. \A s \in Requests : req'[s] = req[s] \/ req'[s].pc \notin {"successor", "finish"}
  BY TameRequest DEF RevokeSessions, Free
<1>8. ended' = ended \cup req[r].clean
  BY DEF RevokeSessions
<1>9. OneLivePerFamily' /\ FamilyInv' /\ LockInv' /\ CleanInv'
  <2>1. OneLivePerFamily'
    BY <1>5 DEF SessionInv, OneLivePerFamily, IsOpen
  <2>2. FamilyInv'
    BY <1>5 DEF SessionInv, FamilyInv, TypeOK, Row
  <2>3. \A q \in Requests : At(q, "successor")' => At(q, "successor") /\ req'[q] = req[q]
    BY <1>7 DEF At
  <2>4. \A q \in Requests : At(q, "successor") =>
            req[q].sid \in Sessions /\ Locked(req[q].sid) /\ IsOpen(req[q].sid)
    BY DEF LocalsInv, Equipped, OnRow, At, Locked, SessionInv, LockInv
  <2>5. LockInv'
    BY <1>5, <2>3, <2>4 DEF SessionInv, LockInv, IsOpen
  <2>6. \A q \in Requests : At(q, "finish")' => At(q, "finish") /\ req'[q] = req[q]
    BY <1>7 DEF At
  <2>7. CleanInv'
    BY <1>5, <2>6 DEF SessionInv, CleanInv, IsOpen
  <2> QED
    BY <2>1, <2>2, <2>5, <2>7
<1>10. EndedStaysEnded'
  <2> SUFFICES ASSUME NEW s \in Sessions, session'[s].state \in Open,
                      session[s].family \in ended'
               PROVE  FALSE
    BY <1>5 DEF EndedStaysEnded, IsOpen
  <2>1. IsOpen(s) /\ s \notin gone
    BY <1>5, <1>6
  <2>2. session[s].family \in req[r].clean
    BY <1>8, <2>1 DEF SessionInv, EndedStaysEnded
  <2>3. s \in req[r].targets
    BY <2>1, <2>2 DEF SessionInv, CleanInv, RevokeSessions
  <2> QED
    BY <2>1, <2>3
<1>11. EndedInv'
  <2> SUFFICES ASSUME NEW f \in ended'
               PROVE  session'[f].state # "none"
    BY DEF EndedInv
  <2>1. f \in Sessions /\ session[f].state # "none"
    BY <1>1, <1>8 DEF SessionInv, EndedInv, CleanInv, RevokeSessions, Request, TypeOK
  <2> QED
    BY <1>5, <2>1
<1> QED
  BY <1>9, <1>10, <1>11 DEF SessionInv

-----------------------------------------------------------------------------
(* The theorems *)

\* Nothing was created, nothing is held and nothing has ended at first.
LEMMA InitSessions == Init => SessionInv
  BY DEF Init, SessionInv, OneLivePerFamily, EndedStaysEnded, FamilyInv, LockInv, CleanInv,
     EndedInv, IsOpen, Open, At, Free

\* Every step keeps the strengthening.
LEMMA NextSessions ==
  ASSUME TypeOK, LocalsInv, SessionInv, [Next]_vars
  PROVE  SessionInv'
<1>1. ASSUME NEW r \in Requests, SignIn(r)
      PROVE  SessionInv'
  BY <1>1, TameSignIn, TameStep, IssueStep DEF SignIn
<1>2. ASSUME NEW r \in Requests, Refresh(r)
      PROVE  SessionInv'
  BY <1>2, TameRefresh, TameStep, RotateStep, CommitStep DEF Refresh
<1>3. ASSUME NEW r \in Requests, Revocation(r)
      PROVE  SessionInv'
  BY <1>3, TameGuarded, TameStep, ScanStep, RevokeStep DEF Revocation
<1>4. ASSUME NEW r \in Requests, Guarded(r) \/ Abort(r)
      PROVE  SessionInv'
  BY <1>4, TameGuarded, TameStep
<1>5. ASSUME NEW r \in Requests, Deletion(r) \/ PasswordReset(r)
      PROVE  SessionInv'
  BY <1>5, TameAccount, TameStep
<1>6. CASE Maintenance
  BY <1>6, TameMaintenance, TameStep
<1>7. CASE UNCHANGED vars
  <2>1. Tame
    BY <1>7 DEF vars, Tame, IsOpen
  <2> QED
    BY <2>1, TameStep
<1> QED
  BY <1>1, <1>2, <1>3, <1>4, <1>5, <1>6, <1>7 DEF Next

\* The strengthening holds in every reachable state.
LEMMA Strengthened == Spec => [](TypeOK /\ LocalsInv /\ SessionInv)
<1>1. Init => TypeOK /\ LocalsInv /\ SessionInv
  BY InitTypes, InitSessions
<1>2. TypeOK /\ LocalsInv /\ SessionInv /\ [Next]_vars => (TypeOK /\ LocalsInv /\ SessionInv)'
  BY NextTypes, NextSessions
<1> QED
  BY <1>1, <1>2, PTL DEF Spec

\* A family of sessions never has two good tokens: refreshes that race spend a token once.
THEOREM OneTokenPerFamily == Spec => []OneLivePerFamily
<1>1. SessionInv => OneLivePerFamily
  BY DEF SessionInv
<1> QED
  BY <1>1, Strengthened, PTL

\* A family that a revocation ended, with no rotation in between, stays ended.
THEOREM EndedFamiliesStayEnded == Spec => []EndedStaysEnded
<1>1. SessionInv => EndedStaysEnded
  BY DEF SessionInv
<1> QED
  BY <1>1, Strengthened, PTL

\* No step takes the mark of a spent token off its row.
LEMMA SpentIsRemembered ==
  ASSUME TypeOK, LocalsInv, SessionInv, Next, NEW s \in Sessions, session[s].state = "rotated"
  PROVE  session'[s].state \in {"rotated", "deleted"}
<1> USE DEF IsOpen, Open
<1>1. ASSUME session' = session
      PROVE  session'[s].state \in {"rotated", "deleted"}
  BY <1>1
<1>2. ASSUME NEW t, NEW reason, Revoked(t, reason)
      PROVE  session'[s].state \in {"rotated", "deleted"}
  BY <1>2 DEF Revoked, TypeOK, Row
<1>3. ASSUME NEW gone \in SUBSET Sessions, Deleted(gone)
      PROVE  session'[s].state \in {"rotated", "deleted"}
  BY <1>3 DEF Deleted, TypeOK, Row
<1>4. ASSUME NEW r \in Requests, SignIn(r)
      PROVE  session'[s].state \in {"rotated", "deleted"}
  <2>1. ASSUME NEW n \in Sessions, IssueSession(r, n)
        PROVE  session'[s].state \in {"rotated", "deleted"}
    BY <2>1 DEF IssueSession, TypeOK
  <2> QED
    BY <1>1, <1>4, <2>1 DEF SignIn, StartLogin, StartPasskey, Rehash
<1>5. ASSUME NEW r \in Requests, Refresh(r)
      PROVE  session'[s].state \in {"rotated", "deleted"}
  <2>1. ASSUME NEW n \in Sessions, CommitSuccessor(r, n)
        PROVE  session'[s].state \in {"rotated", "deleted"}
    BY <2>1 DEF CommitSuccessor, TypeOK, Row
  <2> QED
    BY <1>1, <1>5, <2>1 DEF Refresh, StartRefresh, RefreshUser, RotateRow, Recheck
<1>6. ASSUME NEW r \in Requests, Revocation(r)
      PROVE  session'[s].state \in {"rotated", "deleted"}
  <2>1. CASE RevokeSessions(r)
    BY <2>1 DEF RevokeSessions
  <2> QED
    BY <1>1, <1>2, <1>6, <2>1 DEF Revocation, Revoke, ScanSessions
<1>7. ASSUME NEW r \in Requests, Guarded(r)
      PROVE  session'[s].state \in {"rotated", "deleted"}
  BY <1>1, <1>2, <1>7 DEF Guarded, ReadSession, ReadUser, Logout, LogoutAll, FindSession
<1>8. ASSUME NEW r \in Requests, Deletion(r) \/ PasswordReset(r) \/ Abort(r)
      PROVE  session'[s].state \in {"rotated", "deleted"}
  BY <1>1, <1>8 DEF Deletion, StartDeletion, RequestDeletion, StartCancel, CancelDeletion,
     PasswordReset, StartResetRequest, IssueToken, ConsumeToken, ResetUser, SetPassword, Abort
<1>9. CASE Maintenance
  <2>1. ASSUME NEW t \in Sessions, Expire(t)
        PROVE  session'[s].state \in {"rotated", "deleted"}
    BY <2>1 DEF Expire, TypeOK
  <2>2. ASSUME NEW old \in SUBSET Sessions, DeleteExpired(old)
        PROVE  session'[s].state \in {"rotated", "deleted"}
    BY <1>3, <2>2 DEF DeleteExpired
  <2>3. CASE PurgeDue
    BY <1>3, <2>3 DEF PurgeDue
  <2> QED
    BY <1>9, <2>1, <2>2, <2>3 DEF Maintenance
<1> QED
  BY <1>4, <1>5, <1>6, <1>7, <1>8, <1>9 DEF Next

\* A spent token stays marked as spent until its row is deleted, whatever revokes its family.
THEOREM SpentTokensStaySpent == Spec => RotatedStaysRotated
<1>1. TypeOK /\ LocalsInv /\ SessionInv /\ [Next]_vars
        => [\A s \in Sessions : session[s].state = "rotated"
                                  => session'[s].state \in {"rotated", "deleted"}]_vars
  BY SpentIsRemembered DEF vars
<1> QED
  BY <1>1, Strengthened, PTL DEF Spec, RotatedStaysRotated

=============================================================================
