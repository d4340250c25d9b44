--------------------------- MODULE BankSyncProofs ---------------------------
(***************************************************************************)
(* Proofs about BankSync for any links, transactions, requests and bounds. *)
(***************************************************************************)
EXTENDS BankSync, WellFoundedInduction, TLAPS

-----------------------------------------------------------------------------
(* The ways an action rewrites a request keep it a request. *)

\* A request that ended, or whose process died, is a request again.
LEMMA IdleIsRequest == Idle \in Request
  BY DEF Idle, Request, PC, Linked, Paging

\* Going on to the next await of a handler keeps a request a request.
LEMMA MovedRequest ==
  ASSUME NEW q \in Request, NEW p \in PC
  PROVE  /\ [q EXCEPT !.pc = p] \in Request
         /\ [q EXCEPT !.seen = q.upto, !.pc = p] \in Request
<1>1. [q EXCEPT !.pc = p] \in Request
  BY DEF Request
<1>2. [q EXCEPT !.seen = q.upto, !.pc = p] \in Request
  BY DEF Request
<1> QED
  BY <1>1, <1>2

\* So does choosing the link a handler works on (exchange, sync, disconnect, revokeAll).
LEMMA LinkedRequest ==
  ASSUME NEW q \in Request, NEW p \in PC, NEW l \in Links
  PROVE  /\ [q EXCEPT !.pc = p, !.link = l] \in Request
         /\ \A T \in SUBSET Links : [q EXCEPT !.pc = p, !.link = l, !.todo = T] \in Request
         /\ \A n \in Nat : [q EXCEPT !.pc = p, !.link = l, !.base = n, !.seen = n] \in Request
<1>1. [q EXCEPT !.pc = p, !.link = l] \in Request
  BY DEF Request
<1>2. ASSUME NEW T \in SUBSET Links
      PROVE  [q EXCEPT !.pc = p, !.link = l, !.todo = T] \in Request
  BY DEF Request
<1>3. ASSUME NEW n \in Nat
      PROVE  [q EXCEPT !.pc = p, !.link = l, !.base = n, !.seen = n] \in Request
  BY DEF Request
<1> QED
  BY <1>1, <1>2, <1>3

\* So do the page loop's updates of its cursor, page count and restart count.
LEMMA PagedRequest ==
  ASSUME NEW q \in Request, NEW p \in PC, NEW n \in Nat, NEW k \in Nat, NEW b \in BOOLEAN
  PROVE  /\ [q EXCEPT !.pc = p, !.upto = n, !.more = b, !.pages = k] \in Request
         /\ [q EXCEPT !.seen = q.base, !.pages = 0, !.restarts = k] \in Request
<1>1. [q EXCEPT !.pc = p, !.upto = n, !.more = b, !.pages = k] \in Request
  BY DEF Request
<1>2. [q EXCEPT !.seen = q.base, !.pages = 0, !.restarts = k] \in Request
  BY DEF Request
<1> QED
  BY <1>1, <1>2

\* A step that rewrites the locals of one request leaves those of the others alone.
LEMMA BecomesEffect ==
  ASSUME req \in [Reqs -> Request], NEW r \in Reqs, NEW q \in Request, Becomes(r, q)
  PROVE  /\ req' \in [Reqs -> Request]
         /\ req'[r] = q
         /\ \A s \in Reqs \ {r} : req'[s] = req[s]
  BY DEF Becomes

-----------------------------------------------------------------------------
(* Types *)

\* Every step of a request leaves it a request, linked where it has to be.
LEMMA StepRequest ==
  ASSUME TypeOK, NEW r \in Reqs, Step(r)
  PROVE  /\ req' \in [Reqs -> Request]
         /\ \A s \in Reqs : req'[s].pc \in Linked => req'[s].link \in Links
<1> DEFINE Good(q) == q \in Request /\ (q.pc \in Linked => q.link \in Links)
<1>1. ASSUME NEW q, Good(q), Becomes(r, q)
      PROVE  /\ req' \in [Reqs -> Request]
             /\ \A s \in Reqs : req'[s].pc \in Linked => req'[s].link \in Links
  BY <1>1, BecomesEffect DEF TypeOK
<1>2. Good(Idle)
  BY IdleIsRequest DEF Idle, Linked, Paging
<1>3. req[r] \in Request /\ (req[r].pc \in Linked => req[r].link \in Links)
  BY DEF TypeOK
<1>4. ASSUME NEW p \in PC, req[r].pc \in Linked \/ p \notin Linked
      PROVE  Good([req[r] EXCEPT !.pc = p]) /\ Good([req[r] EXCEPT !.seen = req[r].upto, !.pc = p])
  BY <1>3, <1>4, MovedRequest DEF Request
<1>5. ASSUME NEW p \in PC, NEW l \in Links
      PROVE  Good([req[r] EXCEPT !.pc = p, !.link = l])
  BY <1>3, LinkedRequest DEF Request
<1>6. ASSUME NEW p \in PC, NEW l \in Links, NEW T \in SUBSET Links
      PROVE  Good([req[r] EXCEPT !.pc = p, !.link = l, !.todo = T])
  BY <1>3, LinkedRequest DEF Request
<1>7. ASSUME NEW p \in PC, NEW n \in Nat, NEW b \in BOOLEAN, req[r].pc \in Linked
      PROVE  Good([req[r] EXCEPT !.pc = p, !.upto = n, !.more = b, !.pages = req[r].pages + 1])
  <2>1. req[r].pages + 1 \in Nat
    BY <1>3 DEF Request
  <2> QED
    BY <2>1, <1>3, <1>7, PagedRequest DEF Request
<1>8. ASSUME req[r].pc \in Linked
      PROVE  Good([req[r] EXCEPT !.seen = req[r].base, !.pages = 0, !.restarts = req[r].restarts + 1])
  <2>1. req[r].restarts + 1 \in Nat
    BY <1>3 DEF Request
  <2> DEFINE k == req[r].restarts + 1
  <2> HIDE DEF k
  <2>2. k \in Nat
    BY <2>1 DEF k
  <2>3. Good([req[r] EXCEPT !.seen = req[r].base, !.pages = 0, !.restarts = k])
    <3>1. [req[r] EXCEPT !.seen = req[r].base, !.pages = 0, !.restarts = k] \in Request
      BY <2>2, <1>3, PagedRequest DEF PC
    <3> QED
      BY <3>1, <1>3, <1>8 DEF Request
  <2> QED
    BY <2>3 DEF k
<1>9. ASSUME NEW l \in Links, cursor[l] \in Nat
      PROVE  Good([Idle EXCEPT !.pc = "fetch", !.link = l, !.base = cursor[l], !.seen = cursor[l]])
  <2>1. "fetch" \in PC
    BY DEF PC, Linked, Paging
  <2> QED
    BY <1>9, <2>1, IdleIsRequest, LinkedRequest DEF Request
<1>10. \E q : Good(q) /\ Becomes(r, q)
  <2> USE <1>3 DEF PC, Linked, Paging
  <2>1. CASE ExchangeCheck(r) \/ ExchangeCreate(r) \/ UpsertPage(r) \/ Settle(r) \/ Throw(r)
    BY <2>1, <1>4 DEF ExchangeCheck, ExchangeCreate, UpsertPage, Settle, Throw, Goto, At
  <2>2. CASE StartConflict(r) \/ Derive(r) \/ Fail(r) \/ DropRow(r) \/ Crash(r)
    BY <2>2, <1>2 DEF StartConflict, Derive, Fail, DropRow, Crash, Done
  <2>3. ASSUME NEW l \in Links, ExchangeItem(r, l) \/ RequestSync(r, l) \/ RequestDisconnect(r, l)
        PROVE  \E q : Good(q) /\ Becomes(r, q)
    BY <2>3, <1>5 DEF ExchangeItem, RequestSync, RequestDisconnect
  <2>4. CASE StartSync(r)
    <3>1. req[r].link \in Links /\ cursor[req[r].link] \in Nat
      BY <2>4 DEF StartSync, At, TypeOK
    <3> QED
      BY <2>4, <3>1, <1>9 DEF StartSync
  <2>5. CASE FetchPage(r)
    <3>1. req[r].pc \in Linked /\ req[r].link \in Links /\ req[r].seen \in Nat
      BY <2>5 DEF FetchPage, At, Request
    <3>2. Len(feed[req[r].link]) \in Nat
      BY <3>1 DEF TypeOK
    <3>3. PICK n \in req[r].seen..Len(feed[req[r].link]) :
            Becomes(r, [req[r] EXCEPT !.pc = "upsert", !.upto = n,
                                      !.more = n < Len(feed[req[r].link]),
                                      !.pages = req[r].pages + 1])
      BY <2>5 DEF FetchPage
    <3> DEFINE b == n < Len(feed[req[r].link])
    <3>4. n \in Nat /\ b \in BOOLEAN
      BY <3>1, <3>2
    <3>5. Becomes(r, [req[r] EXCEPT !.pc = "upsert", !.upto = n, !.more = b,
                                    !.pages = req[r].pages + 1])
      BY <3>3
    <3> HIDE DEF b
    <3> QED
      BY <3>1, <3>4, <3>5, <1>7
  <2>6. CASE RestartPages(r)
    BY <2>6, <1>8 DEF RestartPages, At
  <2>7. CASE RemovePage(r)
    BY <2>7, <1>4 DEF RemovePage, At
  <2>8. CASE RemoveItem(r, "drop_item", "drop_row") \/ RemoveItem(r, "revoke_item", "revoke_row")
    BY <2>8, <1>2, <1>4 DEF RemoveItem, Goto, Done, At
  <2>9. CASE RequestRevokeAll(r)
    BY <2>9, <1>6 DEF RequestRevokeAll, Connected
  <2>10. CASE RevokeRow(r)
    <3>1. req[r].todo \in SUBSET Links
      BY DEF Request
    <3> QED
      BY <2>10, <3>1, <1>2, <1>6 DEF RevokeRow, Done
  <2> QED
    BY <2>1, <2>2, <2>3, <2>4, <2>5, <2>6, <2>7, <2>8, <2>9, <2>10 DEF Step
<1> QED
  BY <1>1, <1>10

\* The last of some positions.
LastOf(S) == CHOOSE p \in S : \A q \in S : q <= p

\* Of the updates of a page that name a transaction, one is the last.
LEMMA LastTouch ==
  ASSUME NEW lo \in Nat, NEW hi \in Nat, NEW named \in SUBSET ((lo+1)..hi), named # {}
  PROVE  LastOf(named) \in named /\ \A q \in named : q <= LastOf(named)
<1> DEFINE below == {hi - p : p \in named}
<1>1. below \subseteq Nat /\ below # {}
  <2>1. \A p \in named : p \in Nat /\ hi - p \in Nat
    OBVIOUS
  <2>2. PICK p \in named : TRUE
    OBVIOUS
  <2>3. hi - p \in below
    BY <2>2
  <2> QED
    BY <2>1, <2>3
<1>2. PICK n \in below : \A m \in below : n <= m
  <2> DEFINE less == {ss \in Nat \X Nat : ss[1] < ss[2]}
  <2>1. IsWellFoundedOn(less, Nat)
    BY NatLessThanWellFounded DEF OpToRel
  <2>2. \A m, n \in Nat : m < n => <<m, n>> \in less
    OBVIOUS
  <2> HIDE DEF below, less
  <2>3. \E n \in below : \A m \in below : <<m, n>> \notin less
    BY <1>1, <2>1, WFMin, Zenon
  <2>4. PICK n \in below : \A m \in below : ~ (m < n)
    BY <1>1, <2>2, <2>3, Zenon
  <2> QED
    BY <1>1, <2>4
<1>3. PICK p \in named : n = hi - p
  BY <1>2
<1>4. \A q \in named : q <= p
  BY <1>2, <1>3
<1> QED
  BY <1>4 DEF LastOf

\* What a row holds after a page, in terms of the last update that names it.
LEMMA EffectIs ==
  ASSUME NEW l, NEW lo, NEW hi, NEW t, NEW v
  PROVE  Effect(l, lo, hi, t, v) =
           IF Touches(l, lo, hi, t) = {} THEN v
           ELSE IF feed[l][LastOf(Touches(l, lo, hi, t))].op = "put"
                THEN LastOf(Touches(l, lo, hi, t)) ELSE 0
  BY DEF Effect, LastOf

\* A row holds a position.
LEMMA EffectIsPosition ==
  ASSUME NEW l, NEW lo \in Nat, NEW hi \in Nat, NEW t, NEW v \in Nat
  PROVE  Effect(l, lo, hi, t, v) \in Nat
<1>1. Touches(l, lo, hi, t) \in SUBSET ((lo+1)..hi)
  BY DEF Touches
<1>2. Touches(l, lo, hi, t) # {} => LastOf(Touches(l, lo, hi, t)) \in Touches(l, lo, hi, t)
  BY <1>1, LastTouch
<1>3. Touches(l, lo, hi, t) \subseteq Nat
  BY <1>1
<1> QED
  BY <1>2, <1>3, EffectIs

\* The rows a request writes stay rows.
LEMMA StepRows ==
  ASSUME TypeOK, NEW r \in Reqs, Step(r)
  PROVE  /\ status' \in [Links -> Stored \cup {"none", "gone"}]
         /\ cursor' \in [Links -> Nat]
         /\ aged' \in [Links -> BOOLEAN]
         /\ lapsed' \in [Links -> BOOLEAN]
         /\ item' \in [Links -> {"absent", "live", "removed"}]
         /\ ledger' \in [Links -> [Txns -> Nat]]
         /\ applied' \in [Links -> SUBSET Nat]
         /\ feed' = feed
<1> DEFINE States == Stored \cup {"none", "gone"}
           l == req[r].link
<1>0. /\ status \in [Links -> States] /\ cursor \in [Links -> Nat]
      /\ aged \in [Links -> BOOLEAN] /\ lapsed \in [Links -> BOOLEAN]
      /\ item \in [Links -> {"absent", "live", "removed"}]
      /\ ledger \in [Links -> [Txns -> Nat]] /\ applied \in [Links -> SUBSET Nat]
      /\ req[r] \in Request
  BY DEF TypeOK
<1>1. CASE ExchangeCheck(r) \/ RequestRevokeAll(r) \/ Crash(r) \/ StartConflict(r) \/ FetchPage(r)
           \/ RestartPages(r) \/ Derive(r) \/ Throw(r)
  BY <1>0, <1>1 DEF ExchangeCheck, RequestRevokeAll, Crash, StartConflict, FetchPage,
                    RestartPages, Derive, Throw
<1>2. ASSUME NEW k \in Links, ExchangeItem(r, k) \/ RequestSync(r, k) \/ RequestDisconnect(r, k)
      PROVE  item' \in [Links -> {"absent", "live", "removed"}]
             /\ UNCHANGED <<status, cursor, aged, ledger, feed, applied, lapsed>>
  BY <1>0, <1>2 DEF ExchangeItem, RequestSync, RequestDisconnect
<1>3. \A s \in Stored \cup {"gone"} : [status EXCEPT ![l] = s] \in [Links -> States]
  BY <1>0
<1>4. [aged EXCEPT ![l] = FALSE] \in [Links -> BOOLEAN]
  BY <1>0
<1>5. \A n \in Nat : [cursor EXCEPT ![l] = n] \in [Links -> Nat]
  BY <1>0
<1>6. \A others : [lapsed EXCEPT ![l] = @ \/ others # {}] \in [Links -> BOOLEAN]
  BY <1>0
<1>7. \A s \in Stored : WriteStatus(l, s) => status' \in [Links -> States] /\ aged' \in [Links -> BOOLEAN]
  BY <1>3, <1>4 DEF WriteStatus
<1>8. NoteWriter(r, l) => lapsed' \in [Links -> BOOLEAN]
  BY <1>6 DEF NoteWriter
<1>9. {"healthy", "syncing", "error", "needs_reauth", "revoked"} \subseteq Stored
  BY DEF Stored
<1>10. req[r].seen \in Nat /\ req[r].upto \in Nat
  BY <1>0 DEF Request
<1> HIDE DEF States, l
<1>11. CASE ExchangeCreate(r)
  BY <1>0, <1>5, <1>7, <1>9, <1>11 DEF ExchangeCreate, l, States
<1>12. CASE StartSync(r)
  BY <1>0, <1>7, <1>9, <1>12 DEF StartSync, l, States
<1>13. CASE UpsertPage(r)
  <2>1. \A t : Effect(l, req[r].seen, req[r].upto, t, 0) \in Nat
    BY <1>10, EffectIsPosition
  <2> DEFINE row(t) == Effect(l, req[r].seen, req[r].upto, t, 0)
  <2>2. ledger' = [ledger EXCEPT ![l] = [t \in Txns |-> IF row(t) # 0 THEN row(t) ELSE @[t]]]
        /\ UNCHANGED <<status, cursor, aged, feed, item, applied, lapsed>>
    BY <1>13 DEF UpsertPage, l
  <2>3. \A t : row(t) \in Nat
    BY <2>1
  <2> HIDE DEF row
  <2>4. ledger' \in [Links -> [Txns -> Nat]]
    BY <1>0, <2>2, <2>3
  <2> QED
    BY <1>0, <2>2, <2>4 DEF States
<1>14. CASE RemovePage(r)
  <2>1. (req[r].seen + 1)..req[r].upto \subseteq Nat
    BY <1>10
  <2>2. ledger' \in [Links -> [Txns -> Nat]] /\ UNCHANGED <<status, cursor, aged, lapsed, feed, item>>
    BY <1>0, <1>14 DEF RemovePage
  <2>3. applied' \in [Links -> SUBSET Nat]
    BY <1>0, <1>14, <2>1 DEF RemovePage
  <2> QED
    BY <1>0, <2>2, <2>3 DEF States
<1>15. CASE Settle(r)
  BY <1>0, <1>5, <1>7, <1>8, <1>9, <1>10, <1>15 DEF Settle, l, States
<1>16. CASE Fail(r)
  BY <1>0, <1>7, <1>8, <1>9, <1>16 DEF Fail, l, States
<1>17. CASE RemoveItem(r, "drop_item", "drop_row") \/ RemoveItem(r, "revoke_item", "revoke_row")
  BY <1>0, <1>17 DEF RemoveItem, States
<1>18. CASE DropRow(r)
  BY <1>0, <1>3, <1>4, <1>5, <1>8, <1>18 DEF DropRow, l, States
<1>19. CASE RevokeRow(r)
  <2>1. /\ IF status[l] \in Stored
           THEN /\ WriteStatus(l, "revoked")
                /\ cursor' = [cursor EXCEPT ![l] = 0]
                /\ NoteWriter(r, l)
           ELSE UNCHANGED <<status, aged, cursor, lapsed>>
        /\ UNCHANGED <<ledger, feed, item, applied>>
    BY <1>19 DEF RevokeRow, l
  <2> QED
    BY <1>0, <1>5, <1>7, <1>8, <1>9, <2>1 DEF States
<1>20. CASE \E k \in Links : ExchangeItem(r, k) \/ RequestSync(r, k) \/ RequestDisconnect(r, k)
  BY <1>0, <1>2, <1>20 DEF States
<1> QED
  BY <1>1, <1>11, <1>12, <1>13, <1>14, <1>15, <1>16, <1>17, <1>18, <1>19, <1>20 DEF Step, States

\* Every reachable state is well typed.
THEOREM TypeCorrect == Spec => []TypeOK
<1>1. Init => TypeOK
  BY IdleIsRequest DEF Init, TypeOK, Update, Stored, Idle, Linked, Paging
<1>2. TypeOK /\ [Next]_vars => TypeOK'
  <2> SUFFICES ASSUME TypeOK, [Next]_vars
               PROVE  TypeOK'
    OBVIOUS
  <2>1. ASSUME NEW r \in Reqs, Step(r)
        PROVE  TypeOK'
    BY <2>1, StepRequest, StepRows DEF TypeOK
  <2>2. ASSUME NEW l \in Links, Publish(l)
        PROVE  TypeOK'
    BY <2>2 DEF Publish, TypeOK
  <2>3. ASSUME NEW l \in Links, LeaseAges(l)
        PROVE  TypeOK'
    BY <2>3 DEF LeaseAges, TypeOK
  <2>4. CASE UNCHANGED vars
    BY <2>4 DEF vars, TypeOK
  <2> QED
    BY <2>1, <2>2, <2>3, <2>4 DEF Next
<1> QED
  BY <1>1, <1>2, PTL DEF Spec

-----------------------------------------------------------------------------
(* The strengthenings that make the safety properties inductive *)

Creating == {r \in Reqs : req[r].pc = "create"}

\* A link's row and its requests exist only after the Item, and its row is created once.
FreshInv ==
    /\ \A l \in Links : item[l] = "absent" => status[l] = "none"
    /\ \A r \in Reqs : req[r].pc \in Linked => item[req[r].link] # "absent"
    /\ \A r \in Reqs : req[r].pc = "create" => status[req[r].link] = "none"
    /\ \A r \in Reqs : req[r].pc \in Linked \ {"create"} => status[req[r].link] # "none"
    /\ \A r, s \in Creating : req[r].link = req[s].link => r = s
    /\ \A r \in Reqs : \A k \in req[r].todo : status[k] # "none"

Alone(f, r) == \A s \in Reqs \ {r} : f[s].pc \in Paging => f[s].link # f[r].link

\* A request that reads pages holds the lease alone, or the lease is known to be lost.
LeaseInv ==
    \A r \in Reqs : req[r].pc \in Paging =>
        \/ lapsed[req[r].link]
        \/ /\ status[req[r].link] = "syncing"
           /\ ~ aged[req[r].link]
           /\ Alone(req, r)

\* The pages a request has behind it, and those behind its first page, have been applied.
CoverInv ==
    /\ CursorCovered
    /\ \A r \in Reqs : req[r].pc \in Paging =>
         /\ 1..req[r].seen \subseteq applied[req[r].link]
         /\ 1..req[r].base \subseteq applied[req[r].link]

\* A request whose lease holds started from the stored cursor and has not gone behind it.
OrderInv ==
    /\ \A l \in Links : status[l] = "none" => cursor[l] = 0
    /\ \A r \in Reqs : req[r].pc \in Paging =>
         /\ req[r].base <= req[r].seen
         /\ req[r].pc \in {"upsert", "remove"} => req[r].seen <= req[r].upto
         /\ lapsed[req[r].link] \/ req[r].base = cursor[req[r].link]

\* A request is about to mark a row only after it removed the Item.
RemovalInv ==
    /\ ItemRemovedFirst
    /\ \A r \in Reqs : req[r].pc \in {"drop_row", "revoke_row"} => item[req[r].link] = "removed"

\* Nothing is read, applied or acknowledged that the provider has not published.
KnownInv ==
    /\ \A l \in Links : cursor[l] <= Len(feed[l]) /\ applied[l] \subseteq 1..Len(feed[l])
    /\ \A r \in Reqs : req[r].pc \in Paging =>
         /\ req[r].base <= Len(feed[req[r].link])
         /\ req[r].seen <= Len(feed[req[r].link])
         /\ req[r].pc \in {"upsert", "remove"} => req[r].upto <= Len(feed[req[r].link])

-----------------------------------------------------------------------------
(* What a step of one request leaves alone and what it never undoes *)

\* No step of a request unpublishes an update or takes an applied page out of the history.
LEMMA StepFrame ==
  ASSUME TypeOK, NEW r \in Reqs, Step(r)
  PROVE  /\ \A s \in Reqs \ {r} : req'[s] = req[s]
         /\ \A k \in Links \ {req[r].link} :
              /\ status'[k] = status[k] /\ cursor'[k] = cursor[k] /\ aged'[k] = aged[k]
              /\ lapsed'[k] = lapsed[k] /\ applied'[k] = applied[k]
         /\ \A k \in Links : applied[k] \subseteq applied'[k] /\ (lapsed[k] => lapsed'[k])
<1> DEFINE l == req[r].link
<1>0. /\ status \in [Links -> Stored \cup {"none", "gone"}] /\ cursor \in [Links -> Nat]
      /\ aged \in [Links -> BOOLEAN] /\ lapsed \in [Links -> BOOLEAN]
      /\ applied \in [Links -> SUBSET Nat] /\ req \in [Reqs -> Request]
  BY DEF TypeOK
<1>1. \A s \in Reqs \ {r} : req'[s] = req[s]
  <2>1. \A q : Becomes(r, q) => \A s \in Reqs \ {r} : req'[s] = req[s]
    BY <1>0 DEF Becomes
  <2>2. \E q : Becomes(r, q)
    <3> USE DEF Goto, Done
    <3>1. CASE \E k \in Links : ExchangeItem(r, k) \/ RequestSync(r, k) \/ RequestDisconnect(r, k)
      BY <3>1 DEF ExchangeItem, RequestSync, RequestDisconnect
    <3>2. CASE ExchangeCheck(r) \/ ExchangeCreate(r) \/ UpsertPage(r) \/ Settle(r) \/ Throw(r)
      BY <3>2 DEF ExchangeCheck, ExchangeCreate, UpsertPage, Settle, Throw
    <3>3. CASE StartConflict(r) \/ Derive(r) \/ Fail(r) \/ DropRow(r) \/ Crash(r)
      BY <3>3 DEF StartConflict, Derive, Fail, DropRow, Crash
    <3>4. CASE StartSync(r) \/ FetchPage(r) \/ RestartPages(r) \/ RemovePage(r)
      BY <3>4 DEF StartSync, FetchPage, RestartPages, RemovePage
    <3>5. CASE RemoveItem(r, "drop_item", "drop_row") \/ RemoveItem(r, "revoke_item", "revoke_row")
      BY <3>5 DEF RemoveItem
    <3>6. CASE RequestRevokeAll(r) \/ RevokeRow(r)
      BY <3>6 DEF RequestRevokeAll, RevokeRow
    <3> QED
      BY <3>1, <3>2, <3>3, <3>4, <3>5, <3>6 DEF Step
  <2> QED
    BY <2>1, <2>2
<1> DEFINE Rows ==
      /\ status' = status \/ \E s : status' = [status EXCEPT ![l] = s]
      /\ aged' = aged \/ \E a : aged' = [aged EXCEPT ![l] = a]
      /\ cursor' = cursor \/ \E n : cursor' = [cursor EXCEPT ![l] = n]
      /\ lapsed' = lapsed \/ \E b : lapsed' = [lapsed EXCEPT ![l] = @ \/ b]
      /\ applied' = applied \/ \E T : applied' = [applied EXCEPT ![l] = @ \cup T]
<1>2. Rows
  <2> USE DEF WriteStatus, NoteWriter
  <2>1. CASE ExchangeCheck(r) \/ RequestRevokeAll(r) \/ Crash(r) \/ StartConflict(r) \/ FetchPage(r)
             \/ RestartPages(r) \/ Derive(r) \/ Throw(r) \/ UpsertPage(r)
    BY <2>1 DEF ExchangeCheck, RequestRevokeAll, Crash, StartConflict, FetchPage,
                RestartPages, Derive, Throw, UpsertPage
  <2>2. CASE \E k \in Links : ExchangeItem(r, k) \/ RequestSync(r, k) \/ RequestDisconnect(r, k)
    BY <2>2 DEF ExchangeItem, RequestSync, RequestDisconnect
  <2>3. CASE RemoveItem(r, "drop_item", "drop_row") \/ RemoveItem(r, "revoke_item", "revoke_row")
    BY <2>3 DEF RemoveItem
  <2>4. CASE ExchangeCreate(r)
    BY <2>4 DEF ExchangeCreate
  <2>5. CASE StartSync(r)
    BY <2>5 DEF StartSync
  <2>6. CASE RemovePage(r)
    BY <2>6 DEF RemovePage
  <2>7. CASE Settle(r)
    BY <2>7 DEF Settle
  <2>8. CASE Fail(r)
    BY <2>8 DEF Fail
  <2>9. CASE DropRow(r)
    BY <2>9 DEF DropRow
  <2>10. CASE RevokeRow(r)
    BY <2>10 DEF RevokeRow
  <2> QED
    BY <2>1, <2>2, <2>3, <2>4, <2>5, <2>6, <2>7, <2>8, <2>9, <2>10 DEF Step
<1> HIDE DEF l
<1>3. \A k \in Links \ {l} :
        /\ status'[k] = status[k] /\ cursor'[k] = cursor[k] /\ aged'[k] = aged[k]
        /\ lapsed'[k] = lapsed[k] /\ applied'[k] = applied[k]
  BY <1>0, <1>2
<1>4. \A k \in Links : applied[k] \subseteq applied'[k]
  BY <1>0, <1>2
<1>5. \A k \in Links : lapsed[k] => lapsed'[k]
  BY <1>0, <1>2
<1> QED
  BY <1>1, <1>3, <1>4, <1>5 DEF l

-----------------------------------------------------------------------------
(* Acknowledged means applied *)

\* The steps after which a request reads pages.
LEMMA ReaderSteps ==
  ASSUME TypeOK, NEW r \in Reqs, Step(r), req'[r].pc \in Paging
  PROVE  StartSync(r) \/ FetchPage(r) \/ RestartPages(r) \/ UpsertPage(r) \/ RemovePage(r)
<1>0. req \in [Reqs -> Request] /\ req[r] \in Request
      /\ (req[r].pc \in Linked => req[r].link \in Links)
  BY DEF TypeOK
<1>1. Idle.pc \notin Paging
  BY DEF Idle, Paging
<1>2. ASSUME NEW p \in {"exchange", "create", "start", "derive", "fail", "drop_item", "drop_row",
                        "revoke_item", "revoke_row"}
      PROVE  p \notin Paging
  BY DEF Paging
<1>3. \A q : Becomes(r, q) => req'[r] = q
  BY <1>0 DEF Becomes
<1>4. ASSUME NEW p, req'[r] = [req[r] EXCEPT !.pc = p]
      PROVE  p \in Paging
  BY <1>0, <1>4 DEF Request
<1>5. ~ (ExchangeCheck(r) \/ ExchangeCreate(r) \/ Settle(r) \/ Throw(r))
  BY <1>2, <1>3, <1>4 DEF ExchangeCheck, ExchangeCreate, Settle, Throw, Goto
<1>6. ~ (StartConflict(r) \/ Derive(r) \/ Fail(r) \/ DropRow(r) \/ Crash(r))
  BY <1>1, <1>3 DEF StartConflict, Derive, Fail, DropRow, Crash, Done
<1>7. ~ (RemoveItem(r, "drop_item", "drop_row") \/ RemoveItem(r, "revoke_item", "revoke_row"))
  BY <1>1, <1>2, <1>3, <1>4 DEF RemoveItem, Goto, Done
<1>8. ~ (RequestRevokeAll(r) \/ RevokeRow(r))
  <2>1. ASSUME NEW k, NEW T, req'[r] = [req[r] EXCEPT !.pc = "revoke_item", !.link = k, !.todo = T]
        PROVE  FALSE
    BY <1>0, <2>1 DEF Request, Paging
  <2> QED
    BY <2>1, <1>1, <1>3 DEF RequestRevokeAll, RevokeRow, Done
<1>9. ASSUME NEW k \in Links
      PROVE  ~ (ExchangeItem(r, k) \/ RequestSync(r, k) \/ RequestDisconnect(r, k))
  <2>1. ASSUME NEW p \in {"create", "start", "drop_item"},
               req'[r] = [req[r] EXCEPT !.pc = p, !.link = k]
        PROVE  FALSE
    BY <1>0, <2>1 DEF Request, Paging
  <2> QED
    BY <2>1, <1>3 DEF ExchangeItem, RequestSync, RequestDisconnect
<1> QED
  BY <1>5, <1>6, <1>7, <1>8, <1>9 DEF Step

\* What a step of a request does to the positions it holds.
LEMMA StepPositions ==
  ASSUME TypeOK, NEW r \in Reqs, Step(r), req'[r].pc \in Paging
  PROVE  LET q == req[r]
             p == req'[r]
         IN  /\ q.link \in Links /\ p.link = q.link
             /\ \/ /\ q.pc = "start" /\ p.pc = "fetch" /\ MayStart(q.link) /\ WriteStatus(q.link, "syncing")
                   /\ p.base = cursor[q.link] /\ p.seen = cursor[q.link]
                   /\ UNCHANGED <<cursor, applied, lapsed>>
                \/ /\ q.pc \in Paging /\ p.base = q.base
                   /\ UNCHANGED <<status, cursor, aged, lapsed>>
                   /\ \/ /\ q.pc = "fetch" /\ p.pc = "upsert" /\ p.seen = q.seen
                         /\ p.upto \in q.seen..Len(feed[q.link])
                         /\ UNCHANGED applied
                      \/ /\ q.pc = "fetch" /\ p.pc = "fetch" /\ p.seen = q.base
                         /\ UNCHANGED applied
                      \/ /\ q.pc = "upsert" /\ p.pc = "remove" /\ p.seen = q.seen /\ p.upto = q.upto
                         /\ UNCHANGED applied
                      \/ /\ q.pc = "remove" /\ p.pc \in {"fetch", "settle"} /\ p.seen = q.upto
                         /\ applied' = [applied EXCEPT ![q.link] = @ \cup ((q.seen + 1)..q.upto)]
<1>0. req \in [Reqs -> Request] /\ req[r] \in Request
      /\ (req[r].pc \in Linked => req[r].link \in Links)
  BY DEF TypeOK
<1>3. \A q : Becomes(r, q) => req'[r] = q
  BY <1>0 DEF Becomes
<1>10. CASE StartSync(r)
  BY <1>0, <1>3, <1>10 DEF StartSync, At, Idle, Linked, Paging
<1>11. CASE FetchPage(r)
  <2>1. PICK n \in req[r].seen..Len(feed[req[r].link]) :
          req'[r] = [req[r] EXCEPT !.pc = "upsert", !.upto = n,
                                   !.more = n < Len(feed[req[r].link]), !.pages = @ + 1]
    BY <1>3, <1>11 DEF FetchPage
  <2>2. /\ req'[r].pc = "upsert" /\ req'[r].upto = n /\ req'[r].link = req[r].link
        /\ req'[r].base = req[r].base /\ req'[r].seen = req[r].seen
    BY <1>0, <2>1 DEF Request
  <2> QED
    BY <1>0, <1>11, <2>2 DEF FetchPage, At, Linked, Paging
<1>12. CASE RestartPages(r)
  BY <1>0, <1>3, <1>12 DEF RestartPages, At, Linked, Paging, Request
<1>13. CASE UpsertPage(r)
  BY <1>0, <1>3, <1>13 DEF UpsertPage, At, Goto, Linked, Paging, Request
<1>14. CASE RemovePage(r)
  <2>1. PICK p \in {"settle", "fail", "fetch"} : req'[r] = [req[r] EXCEPT !.seen = req[r].upto, !.pc = p]
    BY <1>3, <1>14 DEF RemovePage
  <2>2. /\ req'[r].pc = p /\ req'[r].seen = req[r].upto
        /\ req'[r].base = req[r].base /\ req'[r].link = req[r].link
    BY <1>0, <2>1 DEF Request
  <2> QED
    BY <1>0, <1>14, <2>2 DEF RemovePage, At, Linked, Paging
<1> QED
  BY <1>10, <1>11, <1>12, <1>13, <1>14, ReaderSteps

\* Who may write a cursor, and what.
LEMMA StepCursor ==
  ASSUME TypeOK, NEW r \in Reqs, Step(r), NEW k \in Links
  PROVE  \/ cursor'[k] = cursor[k]
         \/ k = req[r].link /\ req[r].pc = "create" /\ cursor'[k] = 0
         \/ k = req[r].link /\ status'[k] \in {"revoked", "gone"} /\ cursor'[k] = 0 /\ NoteWriter(r, k)
         \/ k = req[r].link /\ req[r].pc = "settle" /\ cursor'[k] = req[r].seen /\ NoteWriter(r, k)
<1> DEFINE l == req[r].link
<1>0. cursor \in [Links -> Nat] /\ status \in [Links -> Stored \cup {"none", "gone"}]
  BY DEF TypeOK
<1>1. CASE UNCHANGED cursor
  BY <1>1
<1>2. CASE ExchangeCreate(r)
  BY <1>0, <1>2 DEF ExchangeCreate, At
<1>3. CASE Settle(r)
  BY <1>0, <1>3 DEF Settle, At
<1>4. CASE DropRow(r)
  BY <1>0, <1>4 DEF DropRow
<1>5. CASE RevokeRow(r)
  <2>1. \/ WriteStatus(l, "revoked") /\ cursor' = [cursor EXCEPT ![l] = 0] /\ NoteWriter(r, l)
        \/ UNCHANGED cursor
    BY <1>5 DEF RevokeRow
  <2> QED
    BY <1>0, <2>1 DEF WriteStatus
<1>6. CASE \E j \in Links : ExchangeItem(r, j) \/ RequestSync(r, j) \/ RequestDisconnect(r, j)
  BY <1>1, <1>6 DEF ExchangeItem, RequestSync, RequestDisconnect
<1>7. CASE ExchangeCheck(r) \/ RequestRevokeAll(r) \/ Crash(r) \/ StartConflict(r) \/ FetchPage(r)
           \/ RestartPages(r) \/ Derive(r) \/ Throw(r) \/ UpsertPage(r)
  BY <1>1, <1>7 DEF ExchangeCheck, RequestRevokeAll, Crash, StartConflict, FetchPage,
                    RestartPages, Derive, Throw, UpsertPage
<1>8. CASE StartSync(r) \/ RemovePage(r) \/ Fail(r)
  BY <1>1, <1>8 DEF StartSync, RemovePage, Fail
<1>9. CASE RemoveItem(r, "drop_item", "drop_row") \/ RemoveItem(r, "revoke_item", "revoke_row")
  BY <1>1, <1>9 DEF RemoveItem
<1> QED
  BY <1>2, <1>3, <1>4, <1>5, <1>6, <1>7, <1>8, <1>9 DEF Step

\* Steps of requests keep acknowledged and passed positions applied.
LEMMA StepCover ==
  ASSUME TypeOK, CoverInv, NEW r \in Reqs, Step(r), TypeOK'
  PROVE  CoverInv'
<1> DEFINE Covered(q, a) == 1..q.seen \subseteq a[q.link] /\ 1..q.base \subseteq a[q.link]
<1>1. \A s \in Reqs : req[s] \in Request /\ (req[s].pc \in Linked => req[s].link \in Links)
  BY DEF TypeOK
<1>2. Paging \subseteq Linked
  BY DEF Linked
<1>3. \A k \in Links : applied[k] \subseteq applied'[k]
  BY StepFrame
<1>4. \A s \in Reqs : req[s].pc \in Paging => Covered(req[s], applied)
  BY DEF CoverInv
<1>5. ASSUME NEW k \in Links
      PROVE  1..cursor'[k] \subseteq applied'[k]
  <2>1. 1..cursor[k] \subseteq applied[k]
    BY DEF CoverInv, CursorCovered
  <2>2. CASE cursor'[k] = cursor[k]
    BY <1>3, <2>1, <2>2
  <2>3. CASE cursor'[k] = 0
    BY <2>3
  <2>4. CASE k = req[r].link /\ req[r].pc = "settle" /\ cursor'[k] = req[r].seen
    <3>1. 1..req[r].seen \subseteq applied[k]
      BY <1>4, <2>4 DEF Paging
    <3> QED
      BY <1>3, <2>4, <3>1
  <2> QED
    BY <2>2, <2>3, <2>4, StepCursor
<1>6. ASSUME NEW s \in Reqs, s # r, req'[s].pc \in Paging
      PROVE  Covered(req'[s], applied')
  <2>1. req'[s] = req[s]
    BY <1>6, StepFrame
  <2>2. req[s].link \in Links /\ Covered(req[s], applied)
    BY <1>1, <1>2, <1>4, <1>6, <2>1
  <2> QED
    BY <1>3, <2>1, <2>2
<1>7. ASSUME req'[r].pc \in Paging
      PROVE  Covered(req'[r], applied')
  <2> DEFINE q == req[r]
             p == req'[r]
             l == req[r].link
  <2>1. l \in Links /\ p.link = l /\ q \in Request /\ p \in Request
    BY <1>1, <1>7, StepPositions DEF TypeOK
  <2>2. q.seen \in Nat /\ q.base \in Nat /\ q.upto \in Nat
    BY <2>1 DEF Request
  <2>3. \/ p.base = cursor[l] /\ p.seen = cursor[l]
        \/ q.pc \in Paging /\ p.base = q.base /\ p.seen \in {q.seen, q.base}
        \/ /\ q.pc \in Paging /\ p.base = q.base /\ p.seen = q.upto
           /\ applied' = [applied EXCEPT ![l] = @ \cup ((q.seen + 1)..q.upto)]
    BY <1>7, StepPositions
  <2>4. 1..cursor[l] \subseteq applied[l]
    BY <2>1 DEF CoverInv, CursorCovered
  <2>5. q.pc \in Paging => 1..q.seen \subseteq applied[l] /\ 1..q.base \subseteq applied[l]
    BY <1>4
  <2>6. applied \in [Links -> SUBSET Nat]
    BY DEF TypeOK
  <2>7. applied[l] \subseteq applied'[l]
    BY <1>3, <2>1
  <2> SUFFICES 1..p.seen \subseteq applied'[l] /\ 1..p.base \subseteq applied'[l]
    BY <2>1
  <2> HIDE DEF q, p, l
  <2>8. CASE p.base = cursor[l] /\ p.seen = cursor[l]
    BY <2>1, <2>4, <2>7, <2>8
  <2>9. CASE q.pc \in Paging /\ p.base = q.base /\ p.seen \in {q.seen, q.base}
    BY <2>1, <2>5, <2>7, <2>9
  <2>10. CASE /\ q.pc \in Paging /\ p.base = q.base /\ p.seen = q.upto
              /\ applied' = [applied EXCEPT ![l] = @ \cup ((q.seen + 1)..q.upto)]
    <3>1. applied'[l] = applied[l] \cup ((q.seen + 1)..q.upto)
      BY <2>1, <2>6, <2>10
    <3>2. 1..q.upto \subseteq (1..q.seen) \cup ((q.seen + 1)..q.upto)
      BY <2>2
    <3> QED
      BY <2>1, <2>5, <2>7, <2>10, <3>1, <3>2
  <2> QED
    BY <2>3, <2>8, <2>9, <2>10
<1> QED
  BY <1>5, <1>6, <1>7 DEF CoverInv, CursorCovered

\* An acknowledged update is in the ledger, whatever syncs overlap, restart, fail or die.
THEOREM AcknowledgedIsApplied == Spec => []CursorCovered
<1>1. Init => CoverInv
  BY DEF Init, CoverInv, CursorCovered, Idle, Paging
<1>2. TypeOK /\ TypeOK' /\ CoverInv /\ [Next]_vars => CoverInv'
  <2> SUFFICES ASSUME TypeOK, TypeOK', CoverInv, [Next]_vars
               PROVE  CoverInv'
    OBVIOUS
  <2>1. CASE \E r \in Reqs : Step(r)
    BY <2>1, StepCover
  <2>2. CASE UNCHANGED <<req, cursor, applied>>
    BY <2>2 DEF CoverInv, CursorCovered
  <2> QED
    BY <2>1, <2>2 DEF Next, Publish, LeaseAges, vars
<1>3. CoverInv => CursorCovered
  BY DEF CoverInv
<1> QED
  BY <1>1, <1>2, <1>3, TypeCorrect, PTL DEF Spec

-----------------------------------------------------------------------------
(* Who may write a row *)

\* The four ways a step of r can treat the row of k.
LEMMA StepRow ==
  ASSUME TypeOK, NEW r \in Reqs, Step(r), NEW k \in Links
  PROVE  \/ status'[k] = status[k] /\ aged'[k] = aged[k]
         \/ k = req[r].link /\ req[r].pc = "create" /\ status'[k] = "healthy"
         \/ /\ k = req[r].link /\ req[r].pc = "start" /\ MayStart(k)
            /\ status'[k] = "syncing" /\ ~ aged'[k]
         \/ /\ k = req[r].link /\ req[r].pc \in {"settle", "fail", "drop_row", "revoke_row"}
            /\ req'[r].pc \notin Paging /\ NoteWriter(r, k)
            /\ status'[k] \in Stored \cup {"gone"}
            /\ status'[k] \in {"revoked", "gone"} => req[r].pc \in {"drop_row", "revoke_row"}
<1> DEFINE l == req[r].link
<1>0. /\ aged \in [Links -> BOOLEAN] /\ status \in [Links -> Stored \cup {"none", "gone"}]
      /\ req \in [Reqs -> Request] /\ req[r] \in Request
  BY DEF TypeOK
<1>1. CASE UNCHANGED <<status, aged>>
  BY <1>1
<1>2. CASE ExchangeCreate(r)
  BY <1>0, <1>2 DEF ExchangeCreate, WriteStatus, At
<1>3. CASE StartSync(r)
  BY <1>0, <1>3 DEF StartSync, WriteStatus, At
<1>4. Done(r) => req'[r].pc = "idle"
  BY <1>0 DEF Done, Becomes, Idle
<1>5. "idle" \notin Paging /\ "derive" \notin Paging /\ "revoke_item" \notin Paging
  BY DEF Paging
<1>6. CASE Settle(r)
  <2>1. Goto(r, "derive") => req'[r].pc = "derive"
    BY <1>0 DEF Goto, Becomes, Request
  <2>2. \/ WriteStatus(l, "healthy") /\ NoteWriter(r, l) /\ req[r].pc = "settle" /\ req'[r].pc = "derive"
        \/ UNCHANGED <<status, aged>>
    BY <1>6, <2>1 DEF Settle, At
  <2> QED
    BY <1>0, <1>5, <2>2 DEF WriteStatus, Stored
<1>7. CASE Fail(r)
  <2>1. \/ /\ \E s \in {"needs_reauth", "error"} : WriteStatus(l, s)
           /\ NoteWriter(r, l) /\ req[r].pc = "fail" /\ req'[r].pc = "idle"
        \/ UNCHANGED <<status, aged>>
    BY <1>4, <1>7 DEF Fail, At
  <2> QED
    BY <1>0, <1>5, <2>1 DEF WriteStatus, Stored
<1>8. CASE DropRow(r)
  <2>1. /\ status' = [status EXCEPT ![l] = "gone"] /\ aged' = [aged EXCEPT ![l] = FALSE]
        /\ NoteWriter(r, l) /\ req[r].pc = "drop_row" /\ req'[r].pc = "idle"
    BY <1>4, <1>8 DEF DropRow, At
  <2> QED
    BY <1>0, <1>5, <2>1
<1>9. CASE RevokeRow(r)
  <2>1. req'[r].pc \in {"idle", "revoke_item"}
    <3>1. ASSUME NEW j, NEW T, Becomes(r, [req[r] EXCEPT !.pc = "revoke_item", !.link = j, !.todo = T])
          PROVE  req'[r].pc = "revoke_item"
      BY <1>0, <3>1 DEF Becomes, Request
    <3> QED
      BY <1>4, <1>9, <3>1 DEF RevokeRow
  <2>2. \/ WriteStatus(l, "revoked") /\ NoteWriter(r, l) /\ req[r].pc = "revoke_row"
        \/ UNCHANGED <<status, aged>>
    BY <1>9 DEF RevokeRow, At
  <2> QED
    BY <1>0, <1>5, <2>1, <2>2 DEF WriteStatus, Stored
<1>10. CASE \E j \in Links : ExchangeItem(r, j) \/ RequestSync(r, j) \/ RequestDisconnect(r, j)
  BY <1>1, <1>10 DEF ExchangeItem, RequestSync, RequestDisconnect
<1>11. CASE ExchangeCheck(r) \/ RequestRevokeAll(r) \/ Crash(r) \/ StartConflict(r) \/ FetchPage(r)
            \/ RestartPages(r) \/ Derive(r) \/ Throw(r) \/ UpsertPage(r) \/ RemovePage(r)
  BY <1>1, <1>11 DEF ExchangeCheck, RequestRevokeAll, Crash, StartConflict, FetchPage,
                     RestartPages, Derive, Throw, UpsertPage, RemovePage
<1>12. CASE RemoveItem(r, "drop_item", "drop_row") \/ RemoveItem(r, "revoke_item", "revoke_row")
  BY <1>1, <1>12 DEF RemoveItem
<1> QED
  BY <1>2, <1>3, <1>6, <1>7, <1>8, <1>9, <1>10, <1>11, <1>12 DEF Step

\* The Item: it appears once, is never brought back, and is removed before a row is marked.
LEMMA StepItem ==
  ASSUME TypeOK, NEW r \in Reqs, Step(r)
  PROVE  /\ \A k \in Links : \/ item'[k] = item[k]
                             \/ item'[k] = "removed" /\ req[r].link = k /\ req[r].pc \in Linked
                             \/ /\ item[k] = "absent" /\ item'[k] = "live" /\ req[r].pc = "exchange"
                                /\ req'[r].pc = "create" /\ req'[r].link = k
         /\ req'[r].pc \in {"drop_row", "revoke_row"} =>
              req'[r].link \in Links /\ item'[req'[r].link] = "removed"
<1>0. /\ item \in [Links -> {"absent", "live", "removed"}]
      /\ req \in [Reqs -> Request] /\ req[r] \in Request
      /\ (req[r].pc \in Linked => req[r].link \in Links)
  BY DEF TypeOK
<1> DEFINE Marking == req'[r].pc \in {"drop_row", "revoke_row"}
<1>1. Done(r) => ~ Marking
  BY <1>0 DEF Done, Becomes, Idle
<1>2. \A q : Becomes(r, q) => req'[r] = q
  BY <1>0 DEF Becomes
<1>3. \A p : Goto(r, p) => req'[r].pc = p /\ req'[r].link = req[r].link
  BY <1>0 DEF Goto, Becomes, Request
<1>4. ASSUME NEW p, NEW k, req'[r] = [req[r] EXCEPT !.pc = p, !.link = k]
      PROVE  req'[r].pc = p /\ req'[r].link = k
  BY <1>0, <1>4 DEF Request
<1>5. ASSUME NEW k, NEW T, req'[r] = [req[r] EXCEPT !.pc = "revoke_item", !.link = k, !.todo = T]
      PROVE  ~ Marking
  BY <1>0, <1>5 DEF Request
<1>6. CASE \E k \in Links : ExchangeItem(r, k)
  <2>1. PICK k \in Links : ExchangeItem(r, k)
    BY <1>6
  <2>2. req'[r].pc = "create" /\ req'[r].link = k
    BY <1>2, <1>4, <2>1 DEF ExchangeItem
  <2> QED
    BY <1>0, <2>1, <2>2 DEF ExchangeItem, At
<1>7. CASE \E k \in Links : RequestSync(r, k) \/ RequestDisconnect(r, k)
  <2>1. PICK k \in Links : RequestSync(r, k) \/ RequestDisconnect(r, k)
    BY <1>7
  <2>2. req'[r].pc \in {"start", "drop_item"}
    BY <1>2, <1>4, <2>1 DEF RequestSync, RequestDisconnect
  <2> QED
    BY <2>1, <2>2 DEF RequestSync, RequestDisconnect
<1>8. CASE RemoveItem(r, "drop_item", "drop_row") \/ RemoveItem(r, "revoke_item", "revoke_row")
  <2>1. req[r].pc \in {"drop_item", "revoke_item"} /\ req[r].pc \in Linked /\ req[r].link \in Links
    BY <1>0, <1>8 DEF RemoveItem, At, Linked
  <2> QED
    BY <1>0, <1>1, <1>3, <1>8, <2>1 DEF RemoveItem
<1>9. CASE RequestRevokeAll(r) \/ RevokeRow(r)
  <2>1. CASE RequestRevokeAll(r)
    BY <1>1, <1>2, <1>5, <2>1 DEF RequestRevokeAll
  <2>2. CASE RevokeRow(r)
    BY <1>1, <1>2, <1>5, <2>2 DEF RevokeRow
  <2> QED
    BY <1>9, <2>1, <2>2
<1>10. CASE ExchangeCheck(r) \/ ExchangeCreate(r) \/ UpsertPage(r) \/ Settle(r) \/ Throw(r)
  BY <1>3, <1>10 DEF ExchangeCheck, ExchangeCreate, UpsertPage, Settle, Throw
<1>11. CASE StartConflict(r) \/ Derive(r) \/ Fail(r) \/ DropRow(r) \/ Crash(r)
  BY <1>1, <1>11 DEF StartConflict, Derive, Fail, DropRow, Crash
<1>12. CASE StartSync(r)
  BY <1>2, <1>12 DEF StartSync, Idle
<1>13. CASE FetchPage(r)
  <2>1. PICK n \in req[r].seen..Len(feed[req[r].link]) :
          req'[r] = [req[r] EXCEPT !.pc = "upsert", !.upto = n,
                                   !.more = n < Len(feed[req[r].link]), !.pages = @ + 1]
    BY <1>2, <1>13 DEF FetchPage
  <2>2. req'[r].pc = "upsert"
    BY <1>0, <2>1 DEF Request
  <2> QED
    BY <1>13, <2>2 DEF FetchPage
<1>14. CASE RestartPages(r)
  BY <1>0, <1>2, <1>14 DEF RestartPages, At, Request
<1>15. CASE RemovePage(r)
  <2>1. ASSUME NEW p \in {"settle", "fail", "fetch"},
               req'[r] = [req[r] EXCEPT !.seen = req[r].upto, !.pc = p]
        PROVE  ~ Marking
    BY <1>0, <2>1 DEF Request
  <2> QED
    BY <1>2, <1>15, <2>1 DEF RemovePage
<1> QED
  BY <1>6, <1>7, <1>8, <1>9, <1>10, <1>11, <1>12, <1>13, <1>14, <1>15 DEF Step

\* Whatever races or dies, a row says revoked or is deleted only once its Item is removed.
THEOREM RemovedBeforeMarked == Spec => []ItemRemovedFirst
<1>1. Init => RemovalInv
  BY DEF Init, RemovalInv, ItemRemovedFirst, Idle
<1>2. TypeOK /\ TypeOK' /\ RemovalInv /\ [Next]_vars => RemovalInv'
  <2> SUFFICES ASSUME TypeOK, TypeOK', RemovalInv, [Next]_vars
               PROVE  RemovalInv'
    OBVIOUS
  <2>1. ASSUME NEW r \in Reqs, Step(r)
        PROVE  RemovalInv'
    <3>1. \A k \in Links : item[k] = "removed" => item'[k] = "removed"
      BY <2>1, StepItem
    <3>2. \A s \in Reqs : req[s].pc \in {"drop_row", "revoke_row"} => req[s].link \in Links
      BY DEF TypeOK, Linked
    <3>3. ASSUME NEW k \in Links, status'[k] \in {"revoked", "gone"}
          PROVE  item'[k] = "removed"
      <4>1. CASE status'[k] = status[k]
        BY <3>1, <3>3, <4>1 DEF RemovalInv, ItemRemovedFirst
      <4>2. CASE k = req[r].link /\ req[r].pc \in {"drop_row", "revoke_row"}
        BY <3>1, <4>2 DEF RemovalInv
      <4> QED
        BY <2>1, <3>3, <4>1, <4>2, StepRow
    <3>4. ASSUME NEW s \in Reqs, req'[s].pc \in {"drop_row", "revoke_row"}
          PROVE  item'[req'[s].link] = "removed"
      <4>1. CASE s = r
        BY <2>1, <3>4, <4>1, StepItem
      <4>2. CASE s # r
        BY <2>1, <3>1, <3>2, <3>4, <4>2, StepFrame DEF RemovalInv
      <4> QED
        BY <4>1, <4>2
    <3> QED
      BY <3>3, <3>4 DEF RemovalInv, ItemRemovedFirst
  <2>2. CASE UNCHANGED <<req, status, item>>
    BY <2>2 DEF RemovalInv, ItemRemovedFirst
  <2> QED
    BY <2>1, <2>2 DEF Next, Publish, LeaseAges, vars
<1>3. RemovalInv => ItemRemovedFirst
  BY DEF RemovalInv
<1> QED
  BY <1>1, <1>2, <1>3, TypeCorrect, PTL DEF Spec

-----------------------------------------------------------------------------
(* One sync at a time *)

\* Where the link a request works on comes from.
LEMMA StepLink ==
  ASSUME TypeOK, NEW r \in Reqs, Step(r)
  PROVE  LET q == req[r]
             p == req'[r]
         IN  /\ \A k \in p.todo : k \in q.todo \/ status[k] \in Stored
             /\ p.pc \in Linked =>
                  \/ /\ p.pc # "create" /\ q.pc \in Linked /\ p.link = q.link
                     /\ q.pc = "create" => status'[q.link] = "healthy"
                  \/ /\ p.pc = "create" /\ item[p.link] = "absent"
                     /\ item'[p.link] = "live" /\ UNCHANGED status
                  \/ p.pc # "create" /\ (p.link \in q.todo \/ status[p.link] \in Stored)
<1> DEFINE q == req[r]
           p == req'[r]
           Todo == \A k \in p.todo : k \in q.todo \/ status[k] \in Stored
           Kept == p.pc # "create" /\ q.pc \in Linked /\ p.link = q.link
                   /\ (q.pc = "create" => status'[q.link] = "healthy")
           Created == /\ p.pc = "create" /\ item[p.link] = "absent"
                      /\ item'[p.link] = "live" /\ UNCHANGED status
           Taken == p.pc # "create" /\ (p.link \in q.todo \/ status[p.link] \in Stored)
           Goal == Todo /\ (p.pc \in Linked => Kept \/ Created \/ Taken)
<1>0. /\ item \in [Links -> {"absent", "live", "removed"}]
      /\ status \in [Links -> Stored \cup {"none", "gone"}]
      /\ req \in [Reqs -> Request] /\ q \in Request
      /\ (q.pc \in Linked => q.link \in Links)
  BY DEF TypeOK
<1>1. Done(r) => Goal
  BY <1>0 DEF Done, Becomes, Idle, Linked, Paging
<1>2. \A x : Becomes(r, x) => p = x
  BY <1>0 DEF Becomes
<1>3. \A x : Goto(r, x) => p.pc = x /\ p.link = q.link /\ p.todo = q.todo
  BY <1>0 DEF Goto, Becomes, Request
<1>4. ASSUME NEW x, NEW k, p = [q EXCEPT !.pc = x, !.link = k]
      PROVE  p.pc = x /\ p.link = k /\ p.todo = q.todo
  BY <1>0, <1>4 DEF Request
<1>5. ASSUME NEW k, NEW T, p = [q EXCEPT !.pc = "revoke_item", !.link = k, !.todo = T]
      PROVE  p.pc = "revoke_item" /\ p.link = k /\ p.todo = T
  BY <1>0, <1>5 DEF Request
<1>6. CASE \E k \in Links : ExchangeItem(r, k)
  <2>1. PICK k \in Links : ExchangeItem(r, k)
    BY <1>6
  <2>2. p.pc = "create" /\ p.link = k /\ p.todo = q.todo
    BY <1>2, <1>4, <2>1 DEF ExchangeItem
  <2> QED
    BY <1>0, <2>1, <2>2 DEF ExchangeItem
<1>7. CASE \E k \in Links : RequestSync(r, k) \/ RequestDisconnect(r, k)
  <2>1. PICK k \in Links : RequestSync(r, k) \/ RequestDisconnect(r, k)
    BY <1>7
  <2>2. p.pc \in {"start", "drop_item"} /\ p.link = k /\ p.todo = q.todo
    BY <1>2, <1>4, <2>1 DEF RequestSync, RequestDisconnect
  <2> QED
    BY <2>1, <2>2 DEF RequestSync, RequestDisconnect
<1>8. CASE RemoveItem(r, "drop_item", "drop_row") \/ RemoveItem(r, "revoke_item", "revoke_row")
  <2>1. q.pc \in {"drop_item", "revoke_item"}
        /\ (Goal \/ (p.pc \in {"drop_row", "revoke_row"} /\ p.link = q.link /\ p.todo = q.todo))
    BY <1>1, <1>3, <1>8 DEF RemoveItem, At
  <2> QED
    BY <2>1 DEF Linked
<1>9. CASE RequestRevokeAll(r)
  <2>1. PICK k \in Connected : p = [q EXCEPT !.pc = "revoke_item", !.link = k, !.todo = Connected \ {k}]
    BY <1>2, <1>9 DEF RequestRevokeAll
  <2>2. p.pc = "revoke_item" /\ p.link = k /\ p.todo = Connected \ {k}
    BY <1>5, <2>1
  <2> QED
    BY <2>2 DEF Connected
<1>10. CASE RevokeRow(r)
  <2>1. CASE Done(r)
    BY <1>1, <2>1
  <2>2. ASSUME NEW k \in q.todo, Becomes(r, [q EXCEPT !.pc = "revoke_item", !.link = k, !.todo = @ \ {k}])
        PROVE  Goal
    <3>1. p.pc = "revoke_item" /\ p.link = k /\ p.todo = q.todo \ {k}
      BY <1>2, <1>5, <2>2
    <3> QED
      BY <3>1
  <2> QED
    BY <1>10, <2>1, <2>2 DEF RevokeRow
<1>11. CASE ExchangeCheck(r)
  BY <1>3, <1>11 DEF ExchangeCheck, Linked, Paging
<1>12. CASE ExchangeCreate(r)
  <2>1. p.pc = "start" /\ p.link = q.link /\ p.todo = q.todo /\ q.pc = "create"
    BY <1>3, <1>12 DEF ExchangeCreate, At
  <2>2. status'[q.link] = "healthy" /\ q.pc \in Linked
    BY <1>0, <1>12, <2>1 DEF ExchangeCreate, WriteStatus, Linked
  <2> QED
    BY <2>1, <2>2
<1>13. CASE UpsertPage(r) \/ Settle(r) \/ Throw(r)
  <2>1. p.pc \in {"remove", "derive", "fail"} /\ p.link = q.link /\ p.todo = q.todo
        /\ q.pc \in Paging \cup {"derive"}
    BY <1>3, <1>13 DEF UpsertPage, Settle, Throw, At, Paging
  <2> QED
    BY <2>1 DEF Linked, Paging
<1>14. CASE StartConflict(r) \/ Derive(r) \/ Fail(r) \/ DropRow(r) \/ Crash(r)
  BY <1>1, <1>14 DEF StartConflict, Derive, Fail, DropRow, Crash
<1>15. CASE StartSync(r)
  BY <1>2, <1>15 DEF StartSync, Idle, At, Linked
<1>16. CASE FetchPage(r)
  <2>1. PICK n \in q.seen..Len(feed[q.link]) :
          p = [q EXCEPT !.pc = "upsert", !.upto = n, !.more = n < Len(feed[q.link]), !.pages = @ + 1]
    BY <1>2, <1>16 DEF FetchPage
  <2>2. p.pc = "upsert" /\ p.link = q.link /\ p.todo = q.todo
    BY <1>0, <2>1 DEF Request
  <2> QED
    BY <1>16, <2>2 DEF FetchPage, At, Linked, Paging
<1>17. CASE RestartPages(r)
  <2>1. p.pc = "fetch" /\ p.link = q.link /\ p.todo = q.todo /\ q.pc = "fetch"
    BY <1>0, <1>2, <1>17 DEF RestartPages, At, Request
  <2> QED
    BY <2>1 DEF Linked, Paging
<1>18. CASE RemovePage(r)
  <2>1. PICK x \in {"settle", "fail", "fetch"} : p = [q EXCEPT !.seen = q.upto, !.pc = x]
    BY <1>2, <1>18 DEF RemovePage
  <2>2. p.pc = x /\ p.link = q.link /\ p.todo = q.todo /\ q.pc = "remove"
    BY <1>0, <1>18, <2>1 DEF Request, RemovePage, At
  <2> QED
    BY <2>2 DEF Linked, Paging
<1> QED
  BY <1>6, <1>7, <1>8, <1>9, <1>10, <1>11, <1>12, <1>13, <1>14, <1>15, <1>16, <1>17, <1>18 DEF Step

\* Steps of requests create each row once and leave no request without a row.
LEMMA StepFresh ==
  ASSUME TypeOK, FreshInv, NEW r \in Reqs, Step(r), TypeOK'
  PROVE  FreshInv'
<1> DEFINE q == req[r]
           p == req'[r]
<1>0. /\ \A s \in Reqs : req[s].pc \in Linked => req[s].link \in Links
      /\ \A s \in Reqs : req'[s].pc \in Linked => req'[s].link \in Links
      /\ \A s \in Reqs : req[s].todo \in SUBSET Links
  BY DEF TypeOK, Request
<1>1. \A s \in Reqs \ {r} : req'[s] = req[s]
  BY StepFrame
<1>2. \A k \in Links : item[k] # "absent" => item'[k] # "absent"
  BY StepItem
<1>3. \A k \in Links : status[k] # "none" => status'[k] # "none"
  BY StepRow DEF Stored
<1>4. \A k \in Links : item[k] = "absent" => status[k] = "none"
  BY DEF FreshInv
<1>5. "none" \notin Stored
  BY DEF Stored
<1>6. /\ \A k \in p.todo : k \in q.todo \/ status[k] \in Stored
      /\ p.pc \in Linked =>
           \/ /\ p.pc # "create" /\ q.pc \in Linked /\ p.link = q.link
              /\ q.pc = "create" => status'[q.link] = "healthy"
           \/ /\ p.pc = "create" /\ item[p.link] = "absent"
              /\ item'[p.link] = "live" /\ UNCHANGED status
           \/ p.pc # "create" /\ (p.link \in q.todo \/ status[p.link] \in Stored)
  BY StepLink
<1>7. /\ q.pc \in Linked => item[q.link] # "absent"
      /\ q.pc = "create" => status[q.link] = "none"
      /\ q.pc \in Linked \ {"create"} => status[q.link] # "none"
      /\ \A k \in q.todo : status[k] # "none"
  BY DEF FreshInv
<1>8. ASSUME NEW k \in Links, status[k] = "none", ~ (q.pc = "create" /\ q.link = k)
      PROVE  status'[k] = "none"
  <2>1. ~ (k = q.link /\ q.pc \in Linked)
    BY <1>7, <1>8
  <2>2. {"create", "start", "settle", "fail", "drop_row", "revoke_row"} \subseteq Linked
    BY DEF Linked, Paging
  <2> QED
    BY <1>8, <2>1, <2>2, StepRow
<1>9. ASSUME NEW k \in Links, item'[k] = "absent"
      PROVE  status'[k] = "none"
  <2>1. item[k] = "absent" /\ status[k] = "none"
    BY <1>2, <1>4, <1>9
  <2>2. ~ (q.pc = "create" /\ q.link = k)
    BY <1>7, <2>1 DEF Linked
  <2> QED
    BY <1>8, <2>1, <2>2
<1>10. ASSUME NEW s \in Reqs, s # r
       PROVE  /\ req'[s].pc \in Linked => item'[req'[s].link] # "absent"
              /\ req'[s].pc = "create" => status'[req'[s].link] = "none"
              /\ req'[s].pc \in Linked \ {"create"} => status'[req'[s].link] # "none"
              /\ \A k \in req'[s].todo : status'[k] # "none"
  <2>1. /\ req[s].pc \in Linked => item[req[s].link] # "absent"
        /\ req[s].pc = "create" => status[req[s].link] = "none"
        /\ req[s].pc \in Linked \ {"create"} => status[req[s].link] # "none"
        /\ \A k \in req[s].todo : status[k] # "none"
    BY DEF FreshInv
  <2>2. req'[s] = req[s]
    BY <1>1, <1>10
  <2>3. req[s].pc = "create" => ~ (q.pc = "create" /\ q.link = req[s].link)
    BY <1>10 DEF FreshInv, Creating
  <2>4. req[s].pc = "create" => req[s].pc \in Linked
    BY DEF Linked
  <2> QED
    BY <1>0, <1>2, <1>3, <1>8, <2>1, <2>2, <2>3, <2>4
<1>11. /\ p.pc \in Linked => item'[p.link] # "absent"
       /\ p.pc = "create" => status'[p.link] = "none"
       /\ p.pc \in Linked \ {"create"} => status'[p.link] # "none"
       /\ \A k \in p.todo : status'[k] # "none"
  <2> DEFINE m == p.link
  <2>1. p.pc = "create" => p.pc \in Linked
    BY DEF Linked
  <2>2. q.todo \in SUBSET Links /\ p.todo \in SUBSET Links
    BY <1>0 DEF TypeOK, Request
  <2>3. p.pc \in Linked => m \in Links
    BY <1>0
  <2>4. \A k \in p.todo : status'[k] # "none"
    BY <1>3, <1>5, <1>6, <1>7, <2>2
  <2>5. CASE p.pc \notin Linked
    BY <2>1, <2>4, <2>5
  <2>6. CASE p.pc \in Linked /\ p.pc # "create" /\ q.pc \in Linked /\ m = q.link
             /\ (q.pc = "create" => status'[q.link] = "healthy")
    BY <1>2, <1>3, <1>7, <2>3, <2>4, <2>6
  <2>7. CASE p.pc \in Linked /\ p.pc = "create" /\ item[m] = "absent" /\ item'[m] = "live"
             /\ UNCHANGED status
    BY <1>4, <2>3, <2>4, <2>7
  <2>8. CASE p.pc \in Linked /\ p.pc # "create" /\ (m \in q.todo \/ status[m] \in Stored)
    <3>1. m \in Links /\ status[m] # "none"
      BY <1>5, <1>7, <2>3, <2>8
    <3> QED
      BY <1>2, <1>3, <1>4, <2>4, <2>8, <3>1
  <2> QED
    BY <1>6, <2>5, <2>6, <2>7, <2>8
<1>12. ASSUME NEW s \in Reqs, s # r, p.pc = "create", req'[s].pc = "create", req'[s].link = p.link
       PROVE  FALSE
  <2>1. req[s].pc = "create" /\ req[s].link = p.link
    BY <1>1, <1>12
  <2>2. item[p.link] # "absent"
    BY <2>1 DEF FreshInv, Linked
  <2>3. p.pc \in Linked
    BY <1>12 DEF Linked
  <2> QED
    BY <1>6, <1>12, <2>2, <2>3
<1>13. \A s, x \in Creating' : req'[s].link = req'[x].link => s = x
  BY <1>1, <1>12 DEF FreshInv, Creating
<1> QED
  BY <1>9, <1>10, <1>11, <1>13 DEF FreshInv

\* Steps of requests keep a lease with the one request that reads under it, or note its loss.
LEMMA StepLease ==
  ASSUME TypeOK, FreshInv, LeaseInv, NEW r \in Reqs, Step(r)
  PROVE  LeaseInv'
<1> DEFINE Held(s, k) == status[k] = "syncing" /\ ~ aged[k] /\ Alone(req, s)
           HeldNext(s, k) == status'[k] = "syncing" /\ ~ aged'[k] /\ Alone(req', s)
<1>0. \A s \in Reqs : req[s].pc \in Paging => req[s].link \in Links
  BY DEF TypeOK, Linked
<1>1. \A s \in Reqs \ {r} : req'[s] = req[s]
  BY StepFrame
<1>2. \A k \in Links : lapsed[k] => lapsed'[k]
  BY StepFrame
<1>3. \A s \in Reqs : req[s].pc \in Paging => lapsed[req[s].link] \/ Held(s, req[s].link)
  BY DEF LeaseInv
<1>4. ASSUME req'[r].pc \in Paging
      PROVE  lapsed'[req'[r].link] \/ HeldNext(r, req'[r].link)
  <2> DEFINE k == req[r].link
  <2>1. k \in Links /\ req'[r].link = k
    BY <1>4, StepPositions
  <2>2. Alone(req, r) => Alone(req', r)
    BY <1>1, <2>1 DEF Alone
  <2>3. CASE req[r].pc = "start" /\ MayStart(k) /\ WriteStatus(k, "syncing") /\ UNCHANGED lapsed
    <3>1. status'[k] = "syncing" /\ ~ aged'[k]
      BY <2>1, <2>3 DEF WriteStatus, TypeOK
    <3>2. ASSUME NEW s \in Reqs \ {r}, req[s].pc \in Paging, req[s].link = k
          PROVE  lapsed[k]
      BY <1>3, <2>3, <3>2 DEF MayStart
    <3>3. lapsed[k] \/ Alone(req, r)
      BY <3>2 DEF Alone
    <3> QED
      BY <1>2, <2>1, <2>2, <3>1, <3>3
  <2>4. CASE req[r].pc \in Paging /\ UNCHANGED <<status, aged, lapsed>>
    <3>1. lapsed[k] \/ Held(r, k)
      BY <1>3, <2>4
    <3> QED
      BY <2>1, <2>2, <2>4, <3>1
  <2> QED
    BY <1>4, <2>3, <2>4, StepPositions
<1>5. ASSUME NEW s \in Reqs, s # r, req'[s].pc \in Paging
      PROVE  lapsed'[req'[s].link] \/ HeldNext(s, req'[s].link)
  <2> DEFINE k == req[s].link
  <2>1. req'[s] = req[s] /\ req[s].pc \in Paging /\ k \in Links
    BY <1>0, <1>1, <1>5
  <2>2. CASE lapsed[k]
    BY <1>2, <2>1, <2>2
  <2>3. CASE Held(s, k)
    <3>1. ~ MayStart(k) /\ ~ (req[r].pc \in Paging /\ req[r].link = k)
      BY <1>5, <2>3 DEF MayStart, Alone
    <3>2. ~ (req'[r].pc \in Paging /\ req'[r].link = k)
      BY <3>1, StepPositions
    <3>3. Alone(req', s)
      BY <1>1, <2>1, <2>3, <3>2 DEF Alone
    <3>4. ~ (k = req[r].link /\ req[r].pc = "create")
      BY <2>3 DEF FreshInv
    <3>5. NoteWriter(r, k) => lapsed'[k]
      BY <1>5, <2>1 DEF NoteWriter, Syncing, TypeOK
    <3>6. lapsed'[k] \/ (status'[k] = status[k] /\ aged'[k] = aged[k])
      BY <2>1, <3>1, <3>4, <3>5, StepRow
    <3> QED
      BY <2>1, <2>3, <3>3, <3>6
  <2> QED
    BY <1>3, <2>1, <2>2, <2>3
<1>6. \A s \in Reqs : req'[s].pc \in Paging => lapsed'[req'[s].link] \/ HeldNext(s, req'[s].link)
  BY <1>4, <1>5
<1> QED
  BY <1>6 DEF LeaseInv, Alone

\* Time passing keeps them too.
LEMMA AgesLease ==
  ASSUME TypeOK, LeaseInv, NEW l \in Links, LeaseAges(l)
  PROVE  LeaseInv'
<1>1. UNCHANGED <<req, status>>
  BY DEF LeaseAges
<1>2. ASSUME NEW s \in Reqs, req[s].pc \in Paging
      PROVE  lapsed'[req[s].link]
             \/ (status[req[s].link] = "syncing" /\ ~ aged'[req[s].link] /\ Alone(req, s))
  <2> DEFINE k == req[s].link
  <2>1. k \in Links /\ s \in Syncing(k)
    BY <1>2 DEF TypeOK, Linked, Syncing
  <2>2. CASE k = l
    BY <2>1, <2>2 DEF LeaseAges, TypeOK
  <2>3. CASE k # l
    <3>1. lapsed'[k] = lapsed[k] /\ aged'[k] = aged[k]
      BY <2>1, <2>3 DEF LeaseAges, TypeOK
    <3> QED
      BY <1>2, <3>1 DEF LeaseInv
  <2> QED
    BY <2>2, <2>3
<1> QED
  BY <1>1, <1>2 DEF LeaseInv, Alone

\* Every reachable state satisfies the invariants about rows and leases.
LEMMA LeaseCorrect == Spec => [](FreshInv /\ LeaseInv)
<1>1. Init => FreshInv /\ LeaseInv
  BY DEF Init, FreshInv, LeaseInv, Creating, Idle, Linked, Paging
<1>2. TypeOK /\ TypeOK' /\ FreshInv /\ LeaseInv /\ [Next]_vars => FreshInv' /\ LeaseInv'
  <2> SUFFICES ASSUME TypeOK, TypeOK', FreshInv, LeaseInv, [Next]_vars
               PROVE  FreshInv' /\ LeaseInv'
    OBVIOUS
  <2>1. CASE \E r \in Reqs : Step(r)
    BY <2>1, StepFresh, StepLease
  <2>2. ASSUME NEW l \in Links, LeaseAges(l)
        PROVE  FreshInv' /\ LeaseInv'
    <3>1. FreshInv'
      BY <2>2 DEF LeaseAges, FreshInv, Creating
    <3> QED
      BY <2>2, <3>1, AgesLease
  <2>3. CASE UNCHANGED <<req, status, aged, item, lapsed>>
    BY <2>3 DEF FreshInv, LeaseInv, Creating, Alone
  <2> QED
    BY <2>1, <2>2, <2>3 DEF Next, Publish, vars
<1> QED
  BY <1>1, <1>2, TypeCorrect, PTL DEF Spec

\* Unless a lease was lost, at most one request reads pages for a link.
THEOREM OneSyncAtATime == Spec => []ExclusiveSync
<1>1. LeaseInv => ExclusiveSync
  <2> SUFFICES ASSUME LeaseInv, NEW l \in Links, NEW r1 \in Syncing(l), NEW r2 \in Syncing(l)
               PROVE  lapsed[l] \/ r1 = r2
    BY DEF ExclusiveSync
  <2>1. \A r \in {r1, r2} : r \in Reqs /\ req[r].pc \in Paging /\ req[r].link = l
    BY DEF Syncing
  <2> QED
    BY <2>1 DEF LeaseInv, Alone
<1> QED
  BY <1>1, LeaseCorrect, PTL

-----------------------------------------------------------------------------
(* The cursor moves forward *)

\* Steps of requests keep the stored cursor at or behind the pages its lease holder has read.
LEMMA StepOrder ==
  ASSUME TypeOK, FreshInv, OrderInv, NEW r \in Reqs, Step(r), TypeOK'
  PROVE  OrderInv'
<1>0. /\ \A s \in Reqs : req[s] \in Request /\ (req[s].pc \in Paging => req[s].link \in Links)
      /\ \A s \in Reqs : req'[s] \in Request
      /\ cursor \in [Links -> Nat]
  BY DEF TypeOK, Linked
<1>1. \A s \in Reqs \ {r} : req'[s] = req[s]
  BY StepFrame
<1>2. \A k \in Links : lapsed[k] => lapsed'[k]
  BY StepFrame
<1>3. ASSUME NEW k \in Links, status'[k] = "none"
      PROVE  cursor'[k] = 0
  <2>1. status[k] = "none"
    BY <1>3, StepRow DEF Stored
  <2>2. cursor[k] = 0
    BY <2>1 DEF OrderInv
  <2>3. ~ (k = req[r].link /\ req[r].pc = "settle")
    BY <2>1 DEF FreshInv, Linked, Paging
  <2> QED
    BY <2>2, <2>3, StepCursor
<1>4. ASSUME NEW s \in Reqs, s # r, req'[s].pc \in Paging
      PROVE  lapsed'[req'[s].link] \/ req'[s].base = cursor'[req'[s].link]
  <2> DEFINE k == req[s].link
  <2>1. req'[s] = req[s] /\ req[s].pc \in Paging /\ k \in Links
    BY <1>0, <1>1, <1>4
  <2>2. lapsed[k] \/ req[s].base = cursor[k]
    BY <2>1 DEF OrderInv
  <2>3. ~ (k = req[r].link /\ req[r].pc = "create")
    BY <2>1 DEF FreshInv, Linked, Paging
  <2>4. NoteWriter(r, k) => lapsed'[k]
    BY <1>4, <2>1 DEF NoteWriter, Syncing, TypeOK
  <2>5. cursor'[k] = cursor[k] \/ lapsed'[k]
    BY <2>1, <2>3, <2>4, StepCursor
  <2> QED
    BY <1>2, <2>1, <2>2, <2>5
<1>5. ASSUME NEW s \in Reqs, s # r, req'[s].pc \in Paging
      PROVE  /\ req'[s].base <= req'[s].seen
             /\ req'[s].pc \in {"upsert", "remove"} => req'[s].seen <= req'[s].upto
  BY <1>1, <1>5 DEF OrderInv
<1>6. ASSUME req'[r].pc \in Paging
      PROVE  /\ req'[r].base <= req'[r].seen
             /\ req'[r].pc \in {"upsert", "remove"} => req'[r].seen <= req'[r].upto
             /\ lapsed'[req'[r].link] \/ req'[r].base = cursor'[req'[r].link]
  <2> DEFINE q == req[r]
             p == req'[r]
             l == req[r].link
  <2>1. l \in Links /\ p.link = l /\ UNCHANGED <<cursor, lapsed>>
    BY <1>6, StepPositions
  <2>2. q.seen \in Nat /\ q.base \in Nat /\ q.upto \in Nat /\ cursor[l] \in Nat
    BY <1>0, <2>1 DEF Request
  <2>3. q.pc \in Paging => /\ q.base <= q.seen
                           /\ q.pc = "upsert" \/ q.pc = "remove" => q.seen <= q.upto
                           /\ lapsed[l] \/ q.base = cursor[l]
    BY DEF OrderInv
  <2>4. \/ p.pc = "fetch" /\ p.base = cursor[l] /\ p.seen = cursor[l]
        \/ q.pc \in Paging /\ p.base = q.base /\ q.pc = "fetch" /\ p.pc = "upsert" /\ p.seen = q.seen
           /\ p.upto \in q.seen..Len(feed[l])
        \/ q.pc \in Paging /\ p.base = q.base /\ p.pc = "fetch" /\ p.seen = q.base
        \/ q.pc \in Paging /\ p.base = q.base /\ q.pc = "upsert" /\ p.seen = q.seen /\ p.upto = q.upto
        \/ q.pc \in Paging /\ p.base = q.base /\ q.pc = "remove" /\ p.pc \in {"fetch", "settle"}
           /\ p.seen = q.upto
    BY <1>6, StepPositions
  <2>5. Len(feed[l]) \in Nat
    BY <2>1 DEF TypeOK
  <2> SUFFICES /\ p.base <= p.seen
               /\ p.pc \in {"upsert", "remove"} => p.seen <= p.upto
               /\ lapsed[l] \/ p.base = cursor[l]
    BY <2>1
  <2> HIDE DEF q, p, l
  <2> QED
    BY <2>2, <2>3, <2>4, <2>5
<1>7. ASSUME NEW s \in Reqs, req'[s].pc \in Paging
      PROVE  /\ req'[s].base <= req'[s].seen
             /\ req'[s].pc \in {"upsert", "remove"} => req'[s].seen <= req'[s].upto
             /\ lapsed'[req'[s].link] \/ req'[s].base = cursor'[req'[s].link]
  BY <1>4, <1>5, <1>6, <1>7
<1> QED
  BY <1>3, <1>7 DEF OrderInv

\* Every reachable state has the stored cursor at or behind its lease holder's position.
LEMMA OrderCorrect == Spec => []OrderInv
<1>1. Init => OrderInv
  BY DEF Init, OrderInv, Idle, Paging
<1>2. TypeOK /\ TypeOK' /\ FreshInv /\ OrderInv /\ [Next]_vars => OrderInv'
  <2> SUFFICES ASSUME TypeOK, TypeOK', FreshInv, OrderInv, [Next]_vars
               PROVE  OrderInv'
    OBVIOUS
  <2>1. CASE \E r \in Reqs : Step(r)
    BY <2>1, StepOrder
  <2>2. ASSUME NEW l \in Links, LeaseAges(l)
        PROVE  OrderInv'
    <3>1. UNCHANGED <<req, status, cursor>> /\ \A k \in Links : lapsed[k] => lapsed'[k]
      BY <2>2 DEF LeaseAges, TypeOK
    <3>2. \A s \in Reqs : req[s].pc \in Paging => req[s].link \in Links
      BY DEF TypeOK, Linked
    <3> QED
      BY <3>1, <3>2 DEF OrderInv
  <2>3. CASE UNCHANGED <<req, status, cursor, lapsed>>
    BY <2>3 DEF OrderInv
  <2> QED
    BY <2>1, <2>2, <2>3 DEF Next, Publish, vars
<1> QED
  BY <1>1, <1>2, TypeCorrect, LeaseCorrect, PTL DEF Spec

\* The cursor goes back only for a link that ends, or after a lease was lost.
THEOREM CursorMovesForward == Spec => CursorForward
<1>1. TypeOK /\ FreshInv /\ OrderInv /\ [Next]_vars => \A l \in Links : ForwardOrEnded(l)
  <2> SUFFICES ASSUME TypeOK, FreshInv, OrderInv, [Next]_vars, NEW l \in Links
               PROVE  ForwardOrEnded(l)
    OBVIOUS
  <2> USE DEF ForwardOrEnded
  <2>1. cursor[l] \in Nat
    BY DEF TypeOK
  <2>2. ASSUME NEW r \in Reqs, Step(r)
        PROVE  ForwardOrEnded(l)
    <3>1. CASE cursor'[l] = cursor[l]
      BY <2>1, <3>1
    <3>2. CASE l = req[r].link /\ req[r].pc = "create" /\ cursor'[l] = 0
      <4>1. cursor[l] = 0
        BY <3>2 DEF FreshInv, OrderInv
      <4> QED
        BY <3>2, <4>1
    <3>3. CASE l = req[r].link /\ req[r].pc = "settle" /\ cursor'[l] = req[r].seen
      <4>1. req[r].base <= req[r].seen /\ (lapsed[l] \/ req[r].base = cursor[l])
        BY <3>3 DEF OrderInv, Paging
      <4>2. lapsed[l] => lapsed'[l]
        BY <2>2, StepFrame
      <4>3. req[r].seen \in Nat
        BY DEF TypeOK, Request
      <4> QED
        BY <2>1, <3>3, <4>1, <4>2, <4>3
    <3> QED
      BY <2>2, <3>1, <3>2, <3>3, StepCursor
  <2>3. CASE UNCHANGED cursor
    BY <2>1, <2>3
  <2> QED
    BY <2>2, <2>3 DEF Next, Publish, LeaseAges, vars
<1> QED
  BY <1>1, TypeCorrect, LeaseCorrect, OrderCorrect, PTL DEF Spec, CursorForward

-----------------------------------------------------------------------------
(* A healthy link shows the bank's view as of its cursor *)

\* Once the first b updates are in, a row that updates a+1..b do not name holds what it held after a;
\* for the others those updates decide.
LEMMA ReplayOn ==
  ASSUME NEW l, NEW t, NEW a \in Nat, NEW b \in Nat, a <= b
  PROVE  Replay(l, b, t) = IF Touches(l, a, b, t) = {} THEN Replay(l, a, t) ELSE Effect(l, a, b, t, 0)
<1> DEFINE old == Touches(l, 0, a, t)
           new == Touches(l, a, b, t)
           all == Touches(l, 0, b, t)
<1>1. /\ old \in SUBSET ((0+1)..a) /\ new \in SUBSET ((a+1)..b) /\ all \in SUBSET ((0+1)..b)
      /\ all = old \cup new
  BY DEF Touches
<1>2. new = {} => all = old
  BY <1>1
<1>3. ASSUME new # {}
      PROVE  LastOf(all) = LastOf(new)
  <2> HIDE DEF old, new, all
  <2>1. LastOf(new) \in new /\ \A q \in new : q <= LastOf(new)
    BY <1>1, <1>3, LastTouch
  <2>2. LastOf(all) \in all /\ \A q \in all : q <= LastOf(all)
    <3>1. all # {} /\ 0 \in Nat
      BY <1>1, <1>3
    <3> QED
      BY <1>1, <3>1, LastTouch
  <2>3. PICK x : x = LastOf(new)
    OBVIOUS
  <2>4. PICK y : y = LastOf(all)
    OBVIOUS
  <2>5. x \in (a+1)..b /\ y \in (0+1)..b /\ x <= y
    BY <1>1, <2>1, <2>2, <2>3, <2>4
  <2>6. y \notin old
    <3>1. old \subseteq (0+1)..a
      BY <1>1
    <3> QED
      BY <2>5, <3>1
  <2>7. y \in new /\ y <= x
    BY <1>1, <2>1, <2>2, <2>3, <2>4, <2>6
  <2> QED
    BY <2>3, <2>4, <2>5, <2>7
<1>4. Replay(l, b, t) = Effect(l, 0, b, t, 0) /\ Replay(l, a, t) = Effect(l, 0, a, t, 0)
  BY DEF Replay
<1> QED
  BY <1>1, <1>2, <1>3, <1>4, EffectIs

\* The rows agree with the first s updates wherever no update up to h could have overtaken them.
Follows(rows, l, s, h) ==
    \A t \in Txns : Touches(l, s, h, t) = {} => rows[t] = Replay(l, s, t)

\* The rows that page s+1..u puts are in, wherever no update up to h could have overtaken them.
Placed(rows, l, s, u, h) ==
    \A t \in Txns : Effect(l, s, u, t, 0) # 0 /\ Touches(l, u, h, t) = {} => rows[t] = Replay(l, u, t)

\* A request that reads pages of l keeps up with the rows, which no update behind h has reached;
\* the last page it reads is one that reaches h.
Reading(rows, q, l, h) ==
    /\ q.seen <= h
    /\ q.pc \in {"upsert", "remove"} => q.upto <= h /\ (q.more \/ h = q.upto)
    /\ q.pc = "settle" => h = q.seen
    /\ Follows(rows, l, q.seen, h)
    /\ q.pc = "remove" => Placed(rows, l, q.seen, q.upto, h)

\* No page read so far goes behind h.
RowsUpTo(l, h) ==
    /\ status[l] \in {"none", "healthy"} => h = cursor[l]
    /\ Follows(ledger[l], l, cursor[l], h)
    /\ \A r \in Reqs : req[r].pc \in Paging /\ req[r].link = l => Reading(ledger[l], req[r], l, h)

\* A sync that failed or died may have left rows of updates behind the stored cursor; what is known
\* of a link's rows is what the pages read so far can not have touched.
LedgerInv == \A l \in Links : ~ lapsed[l] => \E h \in cursor[l]..Len(feed[l]) : RowsUpTo(l, h)

\* Further pages only shrink what is known.
LEMMA FollowsLess ==
  ASSUME NEW rows, NEW l, NEW s, NEW h \in Nat, NEW g \in Nat, h <= g, Follows(rows, l, s, h)
  PROVE  Follows(rows, l, s, g)
<1>1. ASSUME NEW t, Touches(l, s, g, t) = {}
      PROVE  Touches(l, s, h, t) = {}
  BY <1>1 DEF Touches
<1> QED
  BY <1>1 DEF Follows

\* A page's puts: what was known is still known, and the rows it puts are in.
LEMMA UpsertFollows ==
  ASSUME NEW l, NEW s \in Nat, NEW u \in Nat, NEW h \in Nat, s <= u, u <= h,
         NEW rows, NEW next,
         next = [t \in Txns |-> IF Effect(l, s, u, t, 0) # 0 THEN Effect(l, s, u, t, 0) ELSE rows[t]]
  PROVE  /\ \A c \in 0..s : Follows(rows, l, c, h) => Follows(next, l, c, h)
         /\ Placed(next, l, s, u, h)
<1>1. ASSUME NEW c \in 0..s, NEW t, Touches(l, c, h, t) = {}
      PROVE  Effect(l, s, u, t, 0) = 0
  <2>1. Touches(l, s, u, t) = {}
    BY <1>1 DEF Touches
  <2> QED
    BY <2>1, EffectIs
<1>2. \A c \in 0..s : Follows(rows, l, c, h) => Follows(next, l, c, h)
  BY <1>1 DEF Follows
<1>3. ASSUME NEW t \in Txns, Effect(l, s, u, t, 0) # 0
      PROVE  next[t] = Replay(l, u, t)
  <2>1. Touches(l, s, u, t) # {}
    BY <1>3, EffectIs
  <2> QED
    BY <1>3, <2>1, ReplayOn
<1> QED
  BY <1>2, <1>3 DEF Placed

\* A page's removals: the page is in.
LEMMA RemoveFollows ==
  ASSUME NEW l, NEW s \in Nat, NEW u \in Nat, NEW h \in Nat, s <= u, u <= h,
         NEW rows, NEW next, next = [t \in Txns |-> IF t \in Removed(l, s, u) THEN 0 ELSE rows[t]],
         Follows(rows, l, s, h), Placed(rows, l, s, u, h)
  PROVE  /\ \A c \in 0..s : Follows(rows, l, c, h) => Follows(next, l, c, h)
         /\ Follows(next, l, u, h)
<1>1. ASSUME NEW c \in 0..s, NEW t \in Txns, Touches(l, c, h, t) = {}
      PROVE  t \notin Removed(l, s, u)
  <2>1. Touches(l, s, u, t) = {}
    BY <1>1 DEF Touches
  <2> QED
    BY <2>1 DEF Removed
<1>2. \A c \in 0..s : Follows(rows, l, c, h) => Follows(next, l, c, h)
  BY <1>1 DEF Follows
<1>3. ASSUME NEW t \in Txns, Touches(l, u, h, t) = {}
      PROVE  next[t] = Replay(l, u, t)
  <2>1. CASE Touches(l, s, u, t) = {}
    <3>1. Touches(l, s, h, t) = {}
      BY <1>3, <2>1 DEF Touches
    <3>2. rows[t] = Replay(l, s, t) /\ Replay(l, u, t) = Replay(l, s, t)
      BY <2>1, <3>1, ReplayOn DEF Follows
    <3> QED
      BY <2>1, <3>2 DEF Removed
  <2>2. CASE Touches(l, s, u, t) # {} /\ Effect(l, s, u, t, 0) # 0
    BY <1>3, <2>2 DEF Placed, Removed
  <2>3. CASE Touches(l, s, u, t) # {} /\ Effect(l, s, u, t, 0) = 0
    BY <2>3, ReplayOn DEF Removed
  <2> QED
    BY <2>1, <2>2, <2>3
<1> QED
  BY <1>2, <1>3 DEF Follows

\* What was published stays as it is, so what is said about it stays true.
LEMMA FeedSame ==
  ASSUME NEW l, NEW n \in Nat, \A p \in 1..n : feed'[l][p] = feed[l][p]
  PROVE  /\ \A s \in Nat, h \in 0..n : \A t : Touches(l, s, h, t)' = Touches(l, s, h, t)
         /\ \A s \in Nat, h \in 0..n : \A t, v : Effect(l, s, h, t, v)' = Effect(l, s, h, t, v)
         /\ \A h \in 0..n : \A t : Replay(l, h, t)' = Replay(l, h, t)
<1>1. ASSUME NEW s \in Nat, NEW h \in 0..n, NEW t
      PROVE  Touches(l, s, h, t)' = Touches(l, s, h, t)
  BY DEF Touches
<1>2. ASSUME NEW s \in Nat, NEW h \in 0..n, NEW t, NEW v
      PROVE  Effect(l, s, h, t, v)' = Effect(l, s, h, t, v)
  <2> DEFINE named == Touches(l, s, h, t)
  <2>1. named \in SUBSET ((s+1)..h) /\ Touches(l, s, h, t)' = named
    BY <1>1 DEF Touches
  <2>2. Effect(l, s, h, t, v) =
          IF named = {} THEN v ELSE IF feed[l][LastOf(named)].op = "put" THEN LastOf(named) ELSE 0
    BY EffectIs
  <2>3. Effect(l, s, h, t, v)' =
          IF named = {} THEN v ELSE IF feed'[l][LastOf(named)].op = "put" THEN LastOf(named) ELSE 0
    BY <2>1 DEF Effect, LastOf
  <2>4. named # {} => LastOf(named) \in 1..n
    <3> HIDE DEF named
    <3>1. h \in Nat
      OBVIOUS
    <3>2. named # {} => LastOf(named) \in named
      BY <2>1, <3>1, LastTouch
    <3>3. (s+1)..h \subseteq 1..n
      OBVIOUS
    <3> QED
      BY <2>1, <3>2, <3>3
  <2> QED
    BY <2>2, <2>3, <2>4
<1>3. ASSUME NEW h \in 0..n, NEW t
      PROVE  Replay(l, h, t)' = Replay(l, h, t)
  BY <1>2 DEF Replay
<1> QED
  BY <1>1, <1>2, <1>3

\* Only the two writes of a page touch a link's rows.
LEMMA StepLedger ==
  ASSUME TypeOK, NEW r \in Reqs, Step(r), NEW k \in Links
  PROVE  ledger'[k] = ledger[k] \/ (k = req[r].link /\ (UpsertPage(r) \/ RemovePage(r)))
<1>0. ledger \in [Links -> [Txns -> Nat]]
  BY DEF TypeOK
<1>1. CASE UNCHANGED ledger
  BY <1>1
<1>2. CASE UpsertPage(r)
  BY <1>0, <1>2 DEF UpsertPage
<1>3. CASE RemovePage(r)
  BY <1>0, <1>3 DEF RemovePage
<1>4. CASE \E j \in Links : ExchangeItem(r, j) \/ RequestSync(r, j) \/ RequestDisconnect(r, j)
  BY <1>1, <1>4 DEF ExchangeItem, RequestSync, RequestDisconnect
<1>5. CASE ExchangeCheck(r) \/ ExchangeCreate(r) \/ StartSync(r) \/ StartConflict(r) \/ FetchPage(r)
           \/ RestartPages(r) \/ Settle(r) \/ Derive(r)
  BY <1>1, <1>5 DEF ExchangeCheck, ExchangeCreate, StartSync, StartConflict, FetchPage, RestartPages,
                    Settle, Derive
<1>6. CASE Throw(r) \/ Fail(r) \/ DropRow(r) \/ RequestRevokeAll(r) \/ RevokeRow(r) \/ Crash(r)
           \/ RemoveItem(r, "drop_item", "drop_row") \/ RemoveItem(r, "revoke_item", "revoke_row")
  BY <1>1, <1>6 DEF Throw, Fail, DropRow, RequestRevokeAll, RevokeRow, Crash, RemoveItem
<1> QED
  BY <1>2, <1>3, <1>4, <1>5, <1>6 DEF Step

\* A step that publishes nothing changes nothing that is said about what was published.
LEMMA RowsNext ==
  ASSUME NEW l, Len(feed[l]) \in Nat, feed' = feed, NEW h \in 0..Len(feed[l]), cursor'[l] \in 0..h,
         status'[l] \in {"none", "healthy"} => h = cursor'[l],
         Follows(ledger'[l], l, cursor'[l], h),
         \A s \in Reqs : req'[s].pc \in Paging /\ req'[s].link = l =>
           req'[s].seen \in Nat /\ req'[s].upto \in Nat /\ Reading(ledger'[l], req'[s], l, h)
  PROVE  RowsUpTo(l, h)'
<1> DEFINE n == Len(feed[l])
<1>1. /\ \A s \in Nat, g \in 0..n : \A t : Touches(l, s, g, t)' = Touches(l, s, g, t)
      /\ \A s \in Nat, g \in 0..n : \A t, v : Effect(l, s, g, t, v)' = Effect(l, s, g, t, v)
      /\ \A g \in 0..n : \A t : Replay(l, g, t)' = Replay(l, g, t)
  BY FeedSame
<1> HIDE DEF n
<1>0. n \in Nat /\ h \in 0..n
  BY DEF n
<1>2. ASSUME NEW rows, NEW s \in 0..h, Follows(rows, l, s, h)
      PROVE  Follows(rows, l, s, h)'
  <2>1. s \in Nat /\ s \in 0..n
    BY <1>0
  <2> QED
    BY <1>0, <1>1, <1>2, <2>1 DEF Follows
<1>3. ASSUME NEW rows, NEW s \in Nat, NEW u \in 0..h, Placed(rows, l, s, u, h)
      PROVE  Placed(rows, l, s, u, h)'
  <2>1. u \in Nat /\ u \in 0..n
    BY <1>0
  <2> QED
    BY <1>0, <1>1, <1>3, <2>1 DEF Placed
<1>4. ASSUME NEW rows, NEW q, q.seen \in Nat, q.upto \in Nat, Reading(rows, q, l, h)
      PROVE  Reading(rows, q, l, h)'
  <2>1. q.seen \in 0..h /\ (q.pc = "remove" => q.upto \in 0..h)
    BY <1>0, <1>4 DEF Reading
  <2> QED
    BY <1>2, <1>3, <1>4, <2>1 DEF Reading
<1>5. PICK rows : rows = ledger'[l]
  OBVIOUS
<1>6. PICK c \in 0..h : c = cursor'[l]
  OBVIOUS
<1>7. Follows(ledger[l], l, cursor[l], h)'
  <2>1. Follows(rows, l, c, h)'
    BY <1>2, <1>5, <1>6
  <2> QED
    BY <1>5, <1>6, <2>1 DEF Follows
<1>8. ASSUME NEW s \in Reqs, req'[s].pc \in Paging, req'[s].link = l
      PROVE  Reading(ledger[l], req[s], l, h)'
  <2>1. PICK q : q = req'[s]
    OBVIOUS
  <2>2. Reading(rows, q, l, h)'
    BY <1>4, <1>5, <1>8, <2>1
  <2> QED
    BY <1>5, <2>1, <2>2 DEF Reading, Follows, Placed
<1> QED
  BY <1>7, <1>8 DEF RowsUpTo

\* Steps of requests keep what is known of the rows.
LEMMA StepLedgerInv ==
  ASSUME TypeOK, TypeOK', FreshInv, LeaseInv, OrderInv, LedgerInv, NEW r \in Reqs, Step(r)
  PROVE  LedgerInv'
<1> SUFFICES ASSUME NEW k \in Links, ~ lapsed'[k]
             PROVE  \E g \in cursor'[k]..Len(feed'[k]) : RowsUpTo(k, g)'
  BY DEF LedgerInv
<1>0. /\ \A s \in Reqs : req[s] \in Request /\ req'[s] \in Request
      /\ cursor[k] \in Nat /\ cursor'[k] \in Nat /\ Len(feed[k]) \in Nat /\ feed' = feed
      /\ ledger \in [Links -> [Txns -> Nat]] /\ status \in [Links -> Stored \cup {"none", "gone"}]
      /\ cursor \in [Links -> Nat]
  BY StepRows DEF TypeOK
<1>1. ~ lapsed[k]
  BY StepFrame
<1>2. PICK h \in cursor[k]..Len(feed[k]) : RowsUpTo(k, h)
  BY <1>1 DEF LedgerInv
<1>3. h \in Nat /\ cursor[k] <= h /\ h <= Len(feed[k])
  BY <1>0
<1>4. ASSUME NEW g \in cursor'[k]..Len(feed[k]),
             status'[k] \in {"none", "healthy"} => g = cursor'[k],
             Follows(ledger'[k], k, cursor'[k], g),
             \A s \in Reqs : req'[s].pc \in Paging /\ req'[s].link = k =>
                               Reading(ledger'[k], req'[s], k, g)
      PROVE  \E x \in cursor'[k]..Len(feed'[k]) : RowsUpTo(k, x)'
  <2>1. g \in 0..Len(feed[k]) /\ cursor'[k] \in 0..g
    BY <1>0
  <2>2. \A s \in Reqs : req'[s].seen \in Nat /\ req'[s].upto \in Nat
    BY <1>0 DEF Request
  <2>3. RowsUpTo(k, g)'
    BY <1>0, <1>4, <2>1, <2>2, RowsNext
  <2> QED
    BY <1>0, <2>3
<1>5. \A s \in Reqs \ {r} : req'[s] = req[s]
  BY StepFrame
<1>6. /\ status[k] \in {"none", "healthy"} => h = cursor[k]
      /\ Follows(ledger[k], k, cursor[k], h)
      /\ \A s \in Reqs : req[s].pc \in Paging /\ req[s].link = k => Reading(ledger[k], req[s], k, h)
  BY <1>2 DEF RowsUpTo
<1>7. ASSUME ledger'[k] = ledger[k], cursor'[k] = cursor[k],
             status'[k] \in {"none", "healthy"} => status'[k] = status[k],
             req'[r].pc \in Paging /\ req'[r].link = k => Reading(ledger[k], req'[r], k, h)
      PROVE  \E x \in cursor'[k]..Len(feed'[k]) : RowsUpTo(k, x)'
  <2>1. \A s \in Reqs : req'[s].pc \in Paging /\ req'[s].link = k => Reading(ledger'[k], req'[s], k, h)
    BY <1>5, <1>6, <1>7
  <2>2. h \in cursor'[k]..Len(feed[k])
    BY <1>7
  <2> QED
    BY <1>4, <1>6, <1>7, <2>1, <2>2
<1>8. ASSUME req'[r].pc \in Paging
      PROVE  req'[r].link = req[r].link
  BY <1>8, StepPositions
<1>9. CASE k # req[r].link
  <2>1. ledger'[k] = ledger[k] /\ cursor'[k] = cursor[k] /\ status'[k] = status[k]
    BY <1>9, StepLedger, StepFrame
  <2> QED
    BY <1>7, <1>8, <1>9, <2>1
<1> DEFINE q == req[r]
           p == req'[r]
\* A step of the request that holds the lease: nobody else reads.
<1>10. ASSUME k = q.link, q.pc \in Paging
       PROVE  /\ status[k] = "syncing"
              /\ \A s \in Reqs \ {r} : ~ (req'[s].pc \in Paging /\ req'[s].link = k)
              /\ q.base = cursor[k] /\ q.base <= q.seen
              /\ q.pc \in {"upsert", "remove"} => q.seen <= q.upto
              /\ q.seen \in Nat /\ q.upto \in Nat
              /\ Reading(ledger[k], q, k, h)
  <2>1. req[r].link = k /\ req[r].pc \in Paging
    BY <1>10
  <2>2. status[k] = "syncing" /\ Alone(req, r)
    BY <1>1, <2>1 DEF LeaseInv
  <2>3. \A s \in Reqs \ {r} : ~ (req'[s].pc \in Paging /\ req'[s].link = k)
    BY <1>5, <2>1, <2>2 DEF Alone
  <2>4. /\ req[r].base = cursor[k] /\ req[r].base <= req[r].seen
        /\ req[r].pc \in {"upsert", "remove"} => req[r].seen <= req[r].upto
    BY <1>1, <2>1 DEF OrderInv
  <2>5. req[r].seen \in Nat /\ req[r].upto \in Nat
    BY <1>0 DEF Request
  <2> QED
    BY <1>6, <2>1, <2>2, <2>3, <2>4, <2>5
\* A step of one who writes the row: unless the lease is lost, nobody reads.
<1>11. ASSUME NoteWriter(r, k)
       PROVE  \A s \in Reqs \ {r} : ~ (req'[s].pc \in Paging /\ req'[s].link = k)
  <2>1. Syncing(k) \ {r} = {}
    BY <1>11 DEF NoteWriter, TypeOK
  <2> QED
    BY <1>5, <2>1 DEF Syncing
<1>12. \A x : Becomes(r, x) => p = x
  BY DEF Becomes, TypeOK
<1>13. CASE k = q.link /\ StartSync(r)
  <2>1. /\ p = [Idle EXCEPT !.pc = "fetch", !.link = k, !.base = cursor[k], !.seen = cursor[k]]
        /\ status' = [status EXCEPT ![k] = "syncing"] /\ UNCHANGED <<cursor, ledger>>
    BY <1>12, <1>13 DEF StartSync, WriteStatus
  <2>2. p.pc = "fetch" /\ p.seen = cursor[k] /\ status'[k] = "syncing"
    BY <1>0, <2>1 DEF Idle
  <2>3. Reading(ledger[k], p, k, h)
    BY <1>3, <1>6, <2>2 DEF Reading
  <2> QED
    BY <1>7, <2>1, <2>2, <2>3
<1>14. CASE k = q.link /\ RestartPages(r)
  <2>1. /\ q.pc = "fetch" /\ p.pc = "fetch" /\ p.seen = q.base /\ UNCHANGED <<status, cursor, ledger>>
    BY <1>0, <1>12, <1>14 DEF RestartPages, At, Request
  <2>2. q.base = cursor[k]
    BY <1>10, <1>14, <2>1 DEF Paging
  <2>3. Reading(ledger[k], p, k, h)
    BY <1>3, <1>6, <2>1, <2>2 DEF Reading
  <2> QED
    BY <1>7, <2>1, <2>3
<1>15. CASE k = q.link /\ FetchPage(r)
  <2>1. PICK n \in q.seen..Len(feed[k]) :
          p = [q EXCEPT !.pc = "upsert", !.upto = n, !.more = n < Len(feed[k]), !.pages = @ + 1]
    BY <1>12, <1>15 DEF FetchPage
  <2>2. p.pc = "upsert" /\ p.upto = n /\ p.more = (n < Len(feed[k])) /\ p.seen = q.seen
    BY <1>0, <2>1 DEF Request
  <2>3. q.pc = "fetch" /\ q.pc \in Paging /\ UNCHANGED <<status, cursor, ledger>>
    BY <1>15 DEF FetchPage, At, Paging
  <2>4. status[k] = "syncing" /\ q.seen \in Nat /\ Reading(ledger[k], q, k, h)
        /\ \A s \in Reqs \ {r} : ~ (req'[s].pc \in Paging /\ req'[s].link = k)
    BY <1>10, <1>15, <2>3
  <2> DEFINE g == IF n > h THEN n ELSE h
  <2>5. n \in Nat /\ n <= Len(feed[k])
    BY <1>0, <2>4
  <2>6. g \in Nat /\ h <= g /\ n <= g /\ g \in cursor[k]..Len(feed[k])
        /\ (~ (n < Len(feed[k])) => g = n)
    BY <1>0, <1>3, <2>5
  <2> HIDE DEF g, p, q
  <2>7. Follows(ledger[k], k, cursor[k], g) /\ Follows(ledger[k], k, q.seen, g) /\ q.seen <= h
    BY <1>3, <1>6, <2>4, <2>6, FollowsLess DEF Reading
  <2>8. Reading(ledger[k], p, k, g)
    <3>1. p.more \/ g = p.upto
      BY <2>2, <2>6
    <3>2. p.seen <= g
      BY <1>3, <2>2, <2>4, <2>6, <2>7
    <3> QED
      BY <2>2, <2>6, <2>7, <3>1, <3>2 DEF Reading
  <2>9. \A s \in Reqs : req'[s].pc \in Paging /\ req'[s].link = k => Reading(ledger'[k], req'[s], k, g)
    BY <2>3, <2>4, <2>8 DEF p
  <2>10. status'[k] = "syncing" /\ Follows(ledger'[k], k, cursor'[k], g) /\ g \in cursor'[k]..Len(feed[k])
    BY <2>3, <2>4, <2>6, <2>7
  <2> QED
    BY <1>4, <2>9, <2>10
<1>16. CASE k = q.link /\ UpsertPage(r)
  <2> DEFINE next == [t \in Txns |-> IF Effect(k, q.seen, q.upto, t, 0) # 0
                                    THEN Effect(k, q.seen, q.upto, t, 0) ELSE ledger[k][t]]
  <2>1. q.pc = "upsert" /\ q.pc \in Paging /\ UNCHANGED <<status, cursor>>
    BY <1>16 DEF UpsertPage, At, Paging
  <2>2. ledger'[k] = next
    BY <1>0, <1>16 DEF UpsertPage
  <2>3. p.pc = "remove" /\ p.seen = q.seen /\ p.upto = q.upto /\ p.more = q.more
    BY <1>0, <1>12, <1>16 DEF UpsertPage, Goto, Request
  <2>4. /\ status[k] = "syncing" /\ q.seen \in Nat /\ q.upto \in Nat /\ Reading(ledger[k], q, k, h)
        /\ \A s \in Reqs \ {r} : ~ (req'[s].pc \in Paging /\ req'[s].link = k)
        /\ cursor[k] <= q.seen /\ q.seen <= q.upto
    BY <1>10, <1>16, <2>1
  <2>5. q.upto <= h /\ cursor[k] \in 0..q.seen /\ q.seen \in 0..q.seen
    BY <1>0, <2>1, <2>4 DEF Reading
  <2> HIDE DEF p, q
  <2>6. /\ \A c \in 0..q.seen : Follows(ledger[k], k, c, h) => Follows(next, k, c, h)
        /\ Placed(next, k, q.seen, q.upto, h)
    BY <1>3, <2>4, <2>5, UpsertFollows
  <2> HIDE DEF next
  <2>7. Reading(next, p, k, h)
    BY <2>1, <2>3, <2>4, <2>5, <2>6 DEF Reading
  <2>8. \A s \in Reqs : req'[s].pc \in Paging /\ req'[s].link = k => Reading(ledger'[k], req'[s], k, h)
    BY <2>2, <2>4, <2>7 DEF p
  <2>9. status'[k] = "syncing" /\ Follows(ledger'[k], k, cursor'[k], h) /\ h \in cursor'[k]..Len(feed[k])
    BY <1>6, <2>1, <2>2, <2>4, <2>5, <2>6
  <2> QED
    BY <1>4, <2>8, <2>9
<1>17. CASE k = q.link /\ RemovePage(r)
  <2> DEFINE next == [t \in Txns |-> IF t \in Removed(k, q.seen, q.upto) THEN 0 ELSE ledger[k][t]]
  <2>1. q.pc = "remove" /\ q.pc \in Paging /\ UNCHANGED <<status, cursor>>
    BY <1>17 DEF RemovePage, At, Paging
  <2>2. ledger'[k] = next
    BY <1>0, <1>17 DEF RemovePage
  <2>3. /\ p.pc \in {"settle", "fail", "fetch"} /\ p.seen = q.upto
        /\ p.pc = "settle" => ~ q.more
    <3>1. p = [q EXCEPT !.seen = q.upto, !.pc = IF ~ q.more THEN "settle"
                                         ELSE IF q.pages = MaxPages THEN "fail"
                                         ELSE "fetch"]
      BY <1>12, <1>17 DEF RemovePage
    <3> QED
      BY <1>0, <3>1 DEF Request
  <2>4. /\ status[k] = "syncing" /\ q.seen \in Nat /\ q.upto \in Nat /\ Reading(ledger[k], q, k, h)
        /\ \A s \in Reqs \ {r} : ~ (req'[s].pc \in Paging /\ req'[s].link = k)
        /\ cursor[k] <= q.seen /\ q.seen <= q.upto
    BY <1>10, <1>17, <2>1
  <2>5. /\ q.upto <= h /\ (q.more \/ h = q.upto) /\ cursor[k] \in 0..q.seen
        /\ Follows(ledger[k], k, q.seen, h) /\ Placed(ledger[k], k, q.seen, q.upto, h)
    BY <1>0, <2>1, <2>4 DEF Reading
  <2> HIDE DEF p, q
  <2>6. /\ \A c \in 0..q.seen : Follows(ledger[k], k, c, h) => Follows(next, k, c, h)
        /\ Follows(next, k, q.upto, h)
    BY <1>3, <2>4, <2>5, RemoveFollows
  <2> HIDE DEF next
  <2>7. Reading(next, p, k, h)
    BY <2>3, <2>5, <2>6 DEF Reading
  <2>8. \A s \in Reqs : req'[s].pc \in Paging /\ req'[s].link = k => Reading(ledger'[k], req'[s], k, h)
    BY <2>2, <2>4, <2>7 DEF p
  <2>9. status'[k] = "syncing" /\ Follows(ledger'[k], k, cursor'[k], h) /\ h \in cursor'[k]..Len(feed[k])
    BY <1>6, <2>1, <2>2, <2>4, <2>5, <2>6
  <2> QED
    BY <1>4, <2>8, <2>9
<1>18. CASE p.pc \notin Paging /\ UNCHANGED <<status, cursor, ledger>>
  BY <1>7, <1>18
<1>19. ASSUME p.pc \notin Paging, NoteWriter(r, k), ledger' = ledger
       PROVE  \A s \in Reqs : ~ (req'[s].pc \in Paging /\ req'[s].link = k)
  BY <1>11, <1>19
<1>20. CASE k = q.link /\ Settle(r)
  <2>1. q.pc = "settle" /\ q.pc \in Paging /\ ledger' = ledger /\ p.pc = "derive"
    BY <1>0, <1>12, <1>20 DEF Settle, At, Goto, Paging, Request
  <2>2. status[k] = "syncing" /\ q.seen \in Nat /\ Reading(ledger[k], q, k, h)
    BY <1>10, <1>20, <2>1
  <2>3. /\ status' = [status EXCEPT ![k] = "healthy"] /\ cursor' = [cursor EXCEPT ![k] = q.seen]
        /\ NoteWriter(r, k)
    BY <1>20, <2>2 DEF Settle, WriteStatus, Stored
  <2>4. h = q.seen /\ Follows(ledger[k], k, q.seen, h) /\ cursor'[k] = q.seen
    BY <1>0, <2>1, <2>2, <2>3 DEF Reading
  <2>5. p.pc \notin Paging
    BY <2>1 DEF Paging
  <2> QED
    BY <1>3, <1>4, <1>19, <2>1, <2>3, <2>4, <2>5
<1>21. CASE k = q.link /\ ExchangeCreate(r)
  <2>1. q.pc = "create" /\ ledger' = ledger /\ p.pc = "start" /\ cursor'[k] = 0
    BY <1>0, <1>12, <1>21 DEF ExchangeCreate, At, Goto, Request
  <2>2. status[k] = "none" /\ cursor[k] = 0
    BY <1>21, <2>1 DEF FreshInv, OrderInv
  <2>3. h = 0 /\ p.pc \notin Paging
    BY <1>6, <2>1, <2>2 DEF Paging
  <2>4. \A s \in Reqs : req'[s].pc \in Paging /\ req'[s].link = k => Reading(ledger'[k], req'[s], k, h)
    BY <1>5, <1>6, <2>1, <2>3
  <2> QED
    BY <1>3, <1>4, <1>6, <2>1, <2>2, <2>3, <2>4
<1>22. ASSUME k = q.link, p.pc \notin Paging, NoteWriter(r, k), ledger' = ledger,
              cursor' = [cursor EXCEPT ![k] = 0], status'[k] \in {"revoked", "gone"}
       PROVE  \E x \in cursor'[k]..Len(feed'[k]) : RowsUpTo(k, x)'
  <2>1. cursor'[k] = 0
    BY <1>0, <1>22
  <2>2. ASSUME NEW t \in Txns, Touches(k, 0, h, t) = {}
        PROVE  ledger[k][t] = Replay(k, 0, t)
    <3>1. Touches(k, 0, cursor[k], t) = {} /\ Touches(k, cursor[k], h, t) = {}
      BY <1>0, <1>3, <2>2 DEF Touches
    <3>2. Replay(k, cursor[k], t) = Replay(k, 0, t)
      BY <1>0, <3>1, ReplayOn
    <3> QED
      BY <1>6, <3>1, <3>2 DEF Follows
  <2>3. Follows(ledger'[k], k, cursor'[k], h) /\ h \in cursor'[k]..Len(feed[k])
    BY <1>3, <1>22, <2>1, <2>2 DEF Follows
  <2> QED
    BY <1>4, <1>19, <1>22, <2>3
<1>23. Done(r) => p.pc \notin Paging
  BY <1>12 DEF Done, Idle, Paging
<1>24. CASE k = q.link /\ DropRow(r)
  BY <1>0, <1>22, <1>23, <1>24 DEF DropRow
<1>25. \A x \in {"create", "derive", "fail", "start", "exchange", "drop_item", "drop_row", "revoke_item",
                 "revoke_row"} : x \notin Paging
  BY DEF Paging
<1>26. CASE k = q.link /\ RevokeRow(r)
  <2>1. p.pc \notin Paging
    BY <1>26, ReaderSteps DEF RevokeRow, StartSync, FetchPage, RestartPages, UpsertPage, RemovePage, At
  <2>2. CASE status[k] \in Stored
    <3>1. /\ status' = [status EXCEPT ![k] = "revoked"] /\ cursor' = [cursor EXCEPT ![k] = 0]
          /\ NoteWriter(r, k) /\ ledger' = ledger
      BY <1>26, <2>2 DEF RevokeRow, WriteStatus
    <3> QED
      BY <1>0, <1>22, <1>26, <2>1, <3>1
  <2>3. CASE status[k] \notin Stored
    BY <1>18, <1>26, <2>1, <2>3 DEF RevokeRow
  <2> QED
    BY <2>2, <2>3
<1>27. CASE k = q.link /\ Fail(r)
  <2>1. cursor' = cursor /\ ledger' = ledger /\ p.pc \notin Paging
    BY <1>23, <1>27 DEF Fail
  <2>2. status'[k] \in {"needs_reauth", "error", status[k]}
    BY <1>0, <1>27 DEF Fail, WriteStatus
  <2> QED
    BY <1>7, <2>1, <2>2
<1>28. CASE p.pc \in Paging /\ k = q.link
  BY <1>13, <1>14, <1>15, <1>16, <1>17, <1>28, ReaderSteps
<1>29. CASE p.pc \notin Paging /\ k = q.link
  <2> USE <1>29
  <2>1. CASE \E j \in Links : ExchangeItem(r, j) \/ RequestSync(r, j) \/ RequestDisconnect(r, j)
    BY <1>18, <2>1 DEF ExchangeItem, RequestSync, RequestDisconnect
  <2>2. CASE ExchangeCheck(r) \/ StartConflict(r) \/ Derive(r) \/ Throw(r) \/ RequestRevokeAll(r)
             \/ Crash(r) \/ RemoveItem(r, "drop_item", "drop_row")
             \/ RemoveItem(r, "revoke_item", "revoke_row")
    BY <1>18, <2>2 DEF ExchangeCheck, StartConflict, Derive, Throw, RequestRevokeAll, Crash, RemoveItem
  <2> QED
    BY <1>13, <1>14, <1>15, <1>16, <1>17, <1>20, <1>21, <1>24, <1>26, <1>27, <2>1, <2>2 DEF Step
<1> QED
  BY <1>9, <1>28, <1>29

\* A published update is behind every page read so far.
LEMMA PublishLedger ==
  ASSUME TypeOK, OrderInv, LedgerInv, NEW l \in Links, Publish(l)
  PROVE  LedgerInv'
<1> SUFFICES ASSUME NEW k \in Links, ~ lapsed'[k]
             PROVE  \E g \in cursor'[k]..Len(feed'[k]) : RowsUpTo(k, g)'
  BY DEF LedgerInv
<1>1. UNCHANGED <<status, cursor, ledger, req, lapsed>>
  BY DEF Publish
<1>2. PICK h \in cursor[k]..Len(feed[k]) : RowsUpTo(k, h)
  BY <1>1 DEF LedgerInv
<1>3. feed \in [Links -> Seq(Update)] /\ cursor[k] \in Nat
  BY DEF TypeOK
<1>4. PICK u \in Update : feed' = [feed EXCEPT ![l] = Append(@, u)]
  BY DEF Publish
<1>5. feed'[k] \in {feed[k], Append(feed[k], u)} /\ feed[k] \in Seq(Update)
  BY <1>3, <1>4
<1> DEFINE n == Len(feed[k])
<1>6. n \in Nat /\ Len(feed'[k]) \in n..(n + 1) /\ \A p \in 1..n : feed'[k][p] = feed[k][p]
  BY <1>5
<1>7. /\ \A s \in Nat, g \in 0..n : \A t : Touches(k, s, g, t)' = Touches(k, s, g, t)
      /\ \A s \in Nat, g \in 0..n : \A t, v : Effect(k, s, g, t, v)' = Effect(k, s, g, t, v)
      /\ \A g \in 0..n : \A t : Replay(k, g, t)' = Replay(k, g, t)
  BY <1>6, FeedSame
<1>8. h \in cursor[k]..n
  BY <1>2
<1> HIDE DEF n
<1>9. h \in Nat /\ h \in 0..n /\ h \in cursor'[k]..Len(feed'[k])
  BY <1>1, <1>3, <1>6, <1>8
<1>10. ASSUME NEW rows, NEW s \in 0..h, Follows(rows, k, s, h)
       PROVE  Follows(rows, k, s, h)'
  <2>1. s \in Nat /\ s \in 0..n
    BY <1>6, <1>9
  <2> QED
    BY <1>7, <1>9, <1>10, <2>1 DEF Follows
<1>11. ASSUME NEW rows, NEW s \in Nat, NEW u1 \in 0..h, Placed(rows, k, s, u1, h)
       PROVE  Placed(rows, k, s, u1, h)'
  <2>1. u1 \in Nat /\ u1 \in 0..n
    BY <1>6, <1>9
  <2> QED
    BY <1>7, <1>9, <1>11, <2>1 DEF Placed
<1>12. \A r \in Reqs : req[r].seen \in Nat /\ req[r].upto \in Nat
  BY DEF TypeOK, Request
<1>13. PICK rows : rows = ledger[k]
  OBVIOUS
<1>14. PICK c \in 0..h : c = cursor[k]
  BY <1>1, <1>3, <1>9
<1>15. Follows(ledger[k], k, cursor[k], h)'
  <2>1. Follows(rows, k, c, h)'
    BY <1>2, <1>10, <1>13, <1>14 DEF RowsUpTo
  <2> QED
    BY <1>1, <1>13, <1>14, <2>1 DEF Follows
<1>16. ASSUME NEW r \in Reqs, req[r].pc \in Paging, req[r].link = k
       PROVE  Reading(ledger[k], req[r], k, h)'
  <2>1. PICK q : q = req[r]
    OBVIOUS
  <2>2. Reading(rows, q, k, h) /\ q.seen \in Nat /\ q.upto \in Nat
    BY <1>2, <1>12, <1>13, <1>16, <2>1 DEF RowsUpTo
  <2>3. q.seen \in 0..h /\ (q.pc = "remove" => q.upto \in 0..h)
    BY <1>9, <2>2 DEF Reading
  <2>4. Reading(rows, q, k, h)'
    BY <1>10, <1>11, <2>2, <2>3 DEF Reading
  <2> QED
    BY <1>1, <1>13, <2>1, <2>4 DEF Reading, Follows, Placed
<1>17. RowsUpTo(k, h)'
  BY <1>1, <1>2, <1>15, <1>16 DEF RowsUpTo
<1> QED
  BY <1>9, <1>17

\* A healthy link whose syncs kept their leases shows the bank's view as of its cursor, whatever failed
\* or died on the way and however the pages were cut.
THEOREM LedgersAreExact == Spec => []LedgerExact
<1>1. Init => LedgerInv
  <2> SUFFICES ASSUME Init, NEW l \in Links
               PROVE  \E h \in cursor[l]..Len(feed[l]) : RowsUpTo(l, h)
    BY DEF LedgerInv
  <2>1. Len(feed[l]) = 0 /\ cursor[l] = 0 /\ 0 \in cursor[l]..Len(feed[l])
    BY DEF Init
  <2>2. ASSUME NEW t
        PROVE  Replay(l, 0, t) = 0
    <3>1. Touches(l, 0, 0, t) = {}
      BY DEF Touches
    <3> QED
      BY <3>1, EffectIs DEF Replay
  <2>3. Follows(ledger[l], l, cursor[l], 0)
    BY <2>1, <2>2 DEF Follows, Init
  <2>4. \A r \in Reqs : req[r].pc \notin Paging
    BY DEF Init, Idle, Paging
  <2> QED
    BY <2>1, <2>3, <2>4 DEF RowsUpTo
<1>2. TypeOK /\ TypeOK' /\ FreshInv /\ LeaseInv /\ OrderInv /\ LedgerInv /\ [Next]_vars => LedgerInv'
  <2> SUFFICES ASSUME TypeOK, TypeOK', FreshInv, LeaseInv, OrderInv, LedgerInv, [Next]_vars
               PROVE  LedgerInv'
    OBVIOUS
  <2>1. CASE \E r \in Reqs : Step(r)
    BY <2>1, StepLedgerInv
  <2>2. CASE \E l \in Links : Publish(l)
    BY <2>2, PublishLedger
  <2>3. CASE /\ UNCHANGED <<status, cursor, ledger, feed, req>>
             /\ \A l \in Links : lapsed[l] => lapsed'[l]
    <3> SUFFICES ASSUME NEW k \in Links, ~ lapsed'[k]
                 PROVE  \E g \in cursor'[k]..Len(feed'[k]) : RowsUpTo(k, g)'
      BY DEF LedgerInv
    <3>1. PICK h \in cursor[k]..Len(feed[k]) : RowsUpTo(k, h)
      BY <2>3 DEF LedgerInv
    <3>2. cursor[k] \in Nat /\ Len(feed[k]) \in Nat /\ \A r \in Reqs : req[r].seen \in Nat
          /\ req[r].upto \in Nat
      BY DEF TypeOK, Request
    <3>3. h \in 0..Len(feed[k]) /\ cursor'[k] \in 0..h
      BY <2>3, <3>2
    <3>4. RowsUpTo(k, h)'
      BY <2>3, <3>1, <3>2, <3>3, RowsNext DEF RowsUpTo
    <3> QED
      BY <2>3, <3>4
  <2>4. ASSUME NEW l \in Links, LeaseAges(l)
        PROVE  \A k \in Links : lapsed[k] => lapsed'[k]
    BY <2>4 DEF LeaseAges, TypeOK
  <2> QED
    BY <2>1, <2>2, <2>3, <2>4 DEF Next, LeaseAges, vars
<1>3. TypeOK /\ LedgerInv => LedgerExact
  <2> SUFFICES ASSUME TypeOK, LedgerInv, NEW l \in Links, status[l] = "healthy", ~ lapsed[l],
                      NEW t \in Txns
               PROVE  ledger[l][t] = Replay(l, cursor[l], t)
    BY DEF LedgerExact
  <2>1. PICK h \in cursor[l]..Len(feed[l]) : RowsUpTo(l, h)
    BY DEF LedgerInv
  <2>2. h = cursor[l] /\ cursor[l] \in Nat
    BY <2>1 DEF RowsUpTo, TypeOK
  <2>3. Touches(l, cursor[l], h, t) = {}
    BY <2>2 DEF Touches
  <2> QED
    BY <2>1, <2>3 DEF RowsUpTo, Follows
<1> QED
  BY <1>1, <1>2, <1>3, TypeCorrect, LeaseCorrect, OrderCorrect, PTL DEF Spec

-----------------------------------------------------------------------------
(* The synchronisation implements the consumer of a feed *)

\* Steps of requests keep every position they hold or store within the provider's feed.
LEMMA StepKnown ==
  ASSUME TypeOK, KnownInv, NEW r \in Reqs, Step(r), TypeOK'
  PROVE  KnownInv'
<1>0. /\ \A s \in Reqs : req[s] \in Request /\ (req[s].pc \in Paging => req[s].link \in Links)
      /\ \A s \in Reqs : req'[s] \in Request
      /\ applied \in [Links -> SUBSET Nat] /\ cursor \in [Links -> Nat]
      /\ \A k \in Links : Len(feed[k]) \in Nat
  BY DEF TypeOK, Linked
<1>1. \A s \in Reqs \ {r} : req'[s] = req[s]
  BY StepFrame
<1>2. feed' = feed
  BY StepRows
<1>3. ASSUME NEW k \in Links
      PROVE  cursor'[k] <= Len(feed[k])
  <2>1. cursor[k] <= Len(feed[k])
    BY DEF KnownInv
  <2>2. k = req[r].link /\ req[r].pc = "settle" => req[r].seen <= Len(feed[k])
    BY DEF KnownInv, Paging
  <2> QED
    BY <1>0, <2>1, <2>2, StepCursor
<1>4. ASSUME NEW k \in Links
      PROVE  applied'[k] \subseteq 1..Len(feed[k])
  <2>1. applied[k] \subseteq 1..Len(feed[k])
    BY DEF KnownInv
  <2>2. CASE UNCHANGED applied
    BY <2>1, <2>2
  <2>3. CASE RemovePage(r)
    <3> DEFINE new == (req[r].seen + 1)..req[r].upto
               l == req[r].link
    <3>1. req[r].seen \in Nat /\ req[r].upto \in Nat /\ l \in Links
          /\ req[r].upto <= Len(feed[l])
      BY <1>0, <2>3 DEF RemovePage, At, Request, KnownInv, Paging
    <3>2. new \subseteq 1..Len(feed[l])
      BY <1>0, <3>1
    <3>3. applied' = [applied EXCEPT ![l] = @ \cup new]
      BY <2>3 DEF RemovePage
    <3> HIDE DEF new, l
    <3> QED
      BY <1>0, <2>1, <3>1, <3>2, <3>3
  <2> QED
    <3> USE <2>2, <2>3
    <3>1. CASE \E j \in Links : ExchangeItem(r, j) \/ RequestSync(r, j) \/ RequestDisconnect(r, j)
      BY <3>1 DEF ExchangeItem, RequestSync, RequestDisconnect
    <3>2. CASE ExchangeCheck(r) \/ ExchangeCreate(r) \/ StartSync(r) \/ StartConflict(r)
               \/ FetchPage(r) \/ RestartPages(r) \/ UpsertPage(r) \/ Settle(r) \/ Derive(r)
      BY <3>2 DEF ExchangeCheck, ExchangeCreate, StartSync, StartConflict, FetchPage,
                  RestartPages, UpsertPage, Settle, Derive
    <3>3. CASE Throw(r) \/ Fail(r) \/ DropRow(r) \/ RequestRevokeAll(r) \/ RevokeRow(r) \/ Crash(r)
               \/ RemoveItem(r, "drop_item", "drop_row") \/ RemoveItem(r, "revoke_item", "revoke_row")
      BY <3>3 DEF Throw, Fail, DropRow, RequestRevokeAll, RevokeRow, Crash, RemoveItem
    <3> QED
      BY <3>1, <3>2, <3>3 DEF Step
<1> DEFINE Within(q) ==
      q.pc \in Paging =>
         /\ q.base <= Len(feed[q.link])
         /\ q.seen <= Len(feed[q.link])
         /\ q.pc \in {"upsert", "remove"} => q.upto <= Len(feed[q.link])
<1>5. \A s \in Reqs : Within(req[s])
  BY DEF KnownInv
<1>6. Within(req'[r])
  <2> SUFFICES ASSUME req'[r].pc \in Paging
               PROVE  Within(req'[r])
    OBVIOUS
  <2> DEFINE q == req[r]
             p == req'[r]
             l == req[r].link
             n == Len(feed[req[r].link])
  <2>1. l \in Links /\ p.link = l
    BY StepPositions
  <2>2. q.seen \in Nat /\ q.base \in Nat /\ q.upto \in Nat /\ cursor[l] \in Nat /\ n \in Nat
    BY <1>0, <2>1 DEF Request
  <2>3. \/ p.pc = "fetch" /\ p.base = cursor[l] /\ p.seen = cursor[l]
        \/ q.pc \in Paging /\ p.base = q.base /\ q.pc = "fetch" /\ p.pc = "upsert" /\ p.seen = q.seen
           /\ p.upto \in q.seen..n
        \/ q.pc \in Paging /\ p.base = q.base /\ p.pc = "fetch" /\ p.seen = q.base
        \/ q.pc \in Paging /\ p.base = q.base /\ q.pc = "upsert" /\ p.seen = q.seen /\ p.upto = q.upto
        \/ q.pc \in Paging /\ p.base = q.base /\ q.pc = "remove" /\ p.pc \in {"fetch", "settle"}
           /\ p.seen = q.upto
    BY StepPositions
  <2>4. cursor[l] <= n
    BY <2>1 DEF KnownInv
  <2>5. q.pc \in Paging => q.base <= n /\ q.seen <= n /\ (q.pc \in {"upsert", "remove"} => q.upto <= n)
    BY <1>5
  <2> SUFFICES p.base <= n /\ p.seen <= n /\ (p.pc \in {"upsert", "remove"} => p.upto <= n)
    BY <2>1
  <2> HIDE DEF q, p, l, n
  <2> QED
    BY <2>2, <2>3, <2>4, <2>5
<1>7. \A s \in Reqs : Within(req'[s])
  BY <1>1, <1>5, <1>6
<1> QED
  BY <1>2, <1>3, <1>4, <1>7 DEF KnownInv

\* A published update keeps every position within the feed.
LEMMA PublishKnown ==
  ASSUME TypeOK, KnownInv, NEW l \in Links, Publish(l)
  PROVE  /\ KnownInv'
         /\ Len(feed'[l]) = Len(feed[l]) + 1
         /\ \A k \in Links \ {l} : feed'[k] = feed[k]
<1>1. feed \in [Links -> Seq(Update)]
  BY DEF TypeOK
<1>2. PICK u \in Update : feed' = [feed EXCEPT ![l] = Append(@, u)]
  BY DEF Publish
<1>3. Len(feed'[l]) = Len(feed[l]) + 1 /\ \A k \in Links \ {l} : feed'[k] = feed[k]
  BY <1>1, <1>2
<1>4. \A k \in Links : Len(feed[k]) \in Nat /\ Len(feed'[k]) \in Nat /\ Len(feed[k]) <= Len(feed'[k])
  <2>1. \A k \in Links : Len(feed[k]) \in Nat
    BY <1>1
  <2> QED
    BY <1>3, <2>1
<1>5. UNCHANGED <<req, cursor, applied>>
  BY DEF Publish
<1>6. \A k \in Links : cursor'[k] <= Len(feed'[k]) /\ applied'[k] \subseteq 1..Len(feed'[k])
  <2> SUFFICES ASSUME NEW k \in Links
               PROVE  cursor[k] <= Len(feed'[k]) /\ applied[k] \subseteq 1..Len(feed'[k])
    BY <1>5
  <2>1. cursor[k] \in Nat /\ cursor[k] <= Len(feed[k]) /\ applied[k] \subseteq 1..Len(feed[k])
    BY DEF TypeOK, KnownInv
  <2>2. Len(feed[k]) \in Nat /\ Len(feed'[k]) \in Nat /\ Len(feed[k]) <= Len(feed'[k])
    BY <1>4
  <2> QED
    BY <2>1, <2>2
<1>7. ASSUME NEW r \in Reqs, req[r].pc \in Paging
      PROVE  /\ req[r].base <= Len(feed'[req[r].link])
             /\ req[r].seen <= Len(feed'[req[r].link])
             /\ req[r].pc \in {"upsert", "remove"} => req[r].upto <= Len(feed'[req[r].link])
  <2>1. /\ req[r].link \in Links
        /\ req[r].base \in Nat /\ req[r].seen \in Nat /\ req[r].upto \in Nat
    BY <1>7 DEF TypeOK, Linked, Request
  <2>2. /\ req[r].base <= Len(feed[req[r].link])
        /\ req[r].seen <= Len(feed[req[r].link])
        /\ req[r].pc \in {"upsert", "remove"} => req[r].upto <= Len(feed[req[r].link])
    BY <1>7 DEF KnownInv
  <2> QED
    BY <1>4, <2>1, <2>2
<1> QED
  BY <1>3, <1>5, <1>6, <1>7 DEF KnownInv

\* Every reachable state has its positions within the feed and its cursors covered.
LEMMA KnownCorrect == Spec => [](KnownInv /\ CoverInv)
<1>1. Init => KnownInv /\ CoverInv
  BY DEF Init, KnownInv, CoverInv, CursorCovered, Idle, Paging
<1>2. TypeOK /\ TypeOK' /\ KnownInv /\ CoverInv /\ [Next]_vars => KnownInv' /\ CoverInv'
  <2> SUFFICES ASSUME TypeOK, TypeOK', KnownInv, CoverInv, [Next]_vars
               PROVE  KnownInv' /\ CoverInv'
    OBVIOUS
  <2>1. CASE \E r \in Reqs : Step(r)
    BY <2>1, StepKnown, StepCover
  <2>2. CASE UNCHANGED <<req, cursor, applied>>
    <3>1. CoverInv'
      BY <2>2 DEF CoverInv, CursorCovered
    <3>2. CASE \E l \in Links : Publish(l)
      BY <3>1, <3>2, PublishKnown
    <3>3. CASE UNCHANGED feed
      BY <2>2, <3>1, <3>3 DEF KnownInv
    <3> QED
      BY <2>1, <3>2, <3>3 DEF Next, LeaseAges, vars
  <2> QED
    BY <2>1, <2>2 DEF Next, Publish, LeaseAges, vars
<1> QED
  BY <1>1, <1>2, TypeCorrect, PTL DEF Spec

\* A step of a request delivers updates, acknowledges what was delivered, or does neither.
LEMMA StepConsumer ==
  ASSUME TypeOK, KnownInv, CoverInv, NEW r \in Reqs, Step(r)
  PROVE  \/ UNCHANGED <<cursor, applied, feed>>
         \/ /\ UNCHANGED <<cursor, feed>>
            /\ \E l \in Links : \E new \in SUBSET (1..Len(feed[l])) :
                 applied' = [applied EXCEPT ![l] = @ \cup new]
         \/ /\ UNCHANGED <<applied, feed>>
            /\ \E l \in Links : \E n \in 0..Len(feed[l]) :
                 1..n \subseteq applied[l] /\ cursor' = [cursor EXCEPT ![l] = n]
<1> DEFINE l == req[r].link
           Acked == UNCHANGED <<applied, feed>> /\ \E k \in Links : \E n \in 0..Len(feed[k]) :
                      1..n \subseteq applied[k] /\ cursor' = [cursor EXCEPT ![k] = n]
           Same == UNCHANGED <<cursor, applied, feed>>
<1>0. /\ req[r] \in Request /\ (req[r].pc \in Linked => l \in Links)
      /\ \A k \in Links : Len(feed[k]) \in Nat
  BY DEF TypeOK
<1>1. ASSUME req[r].pc \in Linked, cursor' = [cursor EXCEPT ![l] = 0], UNCHANGED <<applied, feed>>
      PROVE  Acked
  <2>1. 0 \in 0..Len(feed[l]) /\ 1..0 \subseteq applied[l] /\ l \in Links
    BY <1>0, <1>1
  <2> HIDE DEF l
  <2> QED
    BY <1>1, <2>1
<1>2. CASE ExchangeCreate(r)
  BY <1>1, <1>2 DEF ExchangeCreate, At, Linked
<1>3. CASE DropRow(r)
  BY <1>1, <1>3 DEF DropRow, At, Linked
<1>4. CASE RevokeRow(r)
  <2>1. req[r].pc \in Linked /\ UNCHANGED <<applied, feed>>
        /\ (cursor' = [cursor EXCEPT ![l] = 0] \/ UNCHANGED cursor)
    BY <1>4 DEF RevokeRow, At, Linked
  <2> QED
    BY <1>1, <2>1
<1>5. CASE Settle(r)
  <2>1. req[r].pc \in Paging /\ l \in Links
    BY <1>0, <1>5 DEF Settle, At, Linked, Paging
  <2>2. req[r].seen \in 0..Len(feed[l]) /\ 1..req[r].seen \subseteq applied[l]
    BY <1>0, <2>1 DEF Request, KnownInv, CoverInv
  <2>3. UNCHANGED <<applied, feed>>
        /\ (cursor' = [cursor EXCEPT ![l] = req[r].seen] \/ UNCHANGED cursor)
    BY <1>5 DEF Settle
  <2>4. CASE cursor' = [cursor EXCEPT ![l] = req[r].seen]
    BY <2>1, <2>2, <2>3, <2>4
  <2> QED
    BY <2>3, <2>4
<1>6. CASE RemovePage(r)
  <2> DEFINE new == (req[r].seen + 1)..req[r].upto
  <2>1. req[r].pc \in Paging /\ req[r].pc = "remove" /\ l \in Links
    BY <1>0, <1>6 DEF RemovePage, At, Linked, Paging
  <2>2. req[r].seen \in Nat /\ req[r].upto \in Nat /\ req[r].upto <= Len(feed[l])
    BY <1>0, <2>1 DEF Request, KnownInv
  <2>3. new \in SUBSET (1..Len(feed[l]))
    BY <1>0, <2>1, <2>2
  <2>4. applied' = [applied EXCEPT ![l] = @ \cup new] /\ UNCHANGED <<cursor, feed>>
    BY <1>6 DEF RemovePage
  <2> HIDE DEF new
  <2> QED
    BY <2>1, <2>3, <2>4
<1>7. CASE \E j \in Links : ExchangeItem(r, j) \/ RequestSync(r, j) \/ RequestDisconnect(r, j)
  BY <1>7 DEF ExchangeItem, RequestSync, RequestDisconnect
<1>8. CASE ExchangeCheck(r) \/ StartSync(r) \/ StartConflict(r) \/ FetchPage(r) \/ RestartPages(r)
           \/ UpsertPage(r) \/ Derive(r) \/ Throw(r) \/ Fail(r)
  BY <1>8 DEF ExchangeCheck, StartSync, StartConflict, FetchPage, RestartPages,
              UpsertPage, Derive, Throw, Fail
<1>9. CASE RequestRevokeAll(r) \/ Crash(r)
           \/ RemoveItem(r, "drop_item", "drop_row") \/ RemoveItem(r, "revoke_item", "revoke_row")
  BY <1>9 DEF RequestRevokeAll, Crash, RemoveItem
<1> QED
  BY <1>2, <1>3, <1>4, <1>5, <1>6, <1>7, <1>8, <1>9 DEF Step

\* Bank synchronisation implements the abstract consumer: at-least-once delivery of the
\* provider's feed, acknowledged only behind what was delivered.
THEOREM SyncImplementsConsumer == Spec => FeedRefinement
<1> DEFINE known == [l \in Links |-> Len(feed[l])]
<1>1. Init => Consumer!Init
  BY DEF Init, Consumer!Init
<1>2. TypeOK /\ KnownInv /\ CoverInv /\ [Next]_vars => [Consumer!Next]_(Consumer!vars)
  <2> SUFFICES ASSUME TypeOK, KnownInv, CoverInv, [Next]_vars
               PROVE  Consumer!Next \/ UNCHANGED Consumer!vars
    OBVIOUS
  <2>1. ASSUME NEW r \in Reqs, Step(r)
        PROVE  Consumer!Next \/ UNCHANGED Consumer!vars
    <3>1. CASE UNCHANGED <<cursor, applied, feed>>
      BY <3>1 DEF Consumer!vars
    <3>2. ASSUME NEW l \in Links, UNCHANGED <<cursor, feed>>, NEW new \in SUBSET (1..Len(feed[l])),
                 applied' = [applied EXCEPT ![l] = @ \cup new]
          PROVE  Consumer!Next
      <4>1. Consumer!Deliver(l)
        BY <3>2 DEF Consumer!Deliver
      <4> QED
        BY <4>1 DEF Consumer!Next
    <3>3. ASSUME NEW l \in Links, UNCHANGED <<applied, feed>>, NEW n \in 0..Len(feed[l]),
                 1..n \subseteq applied[l], cursor' = [cursor EXCEPT ![l] = n]
          PROVE  Consumer!Next
      <4>1. Consumer!Acknowledge(l)
        BY <3>3 DEF Consumer!Acknowledge
      <4> QED
        BY <4>1 DEF Consumer!Next
    <3> QED
      BY <2>1, <3>1, <3>2, <3>3, StepConsumer
  <2>2. ASSUME NEW l \in Links, Publish(l)
        PROVE  Consumer!Next
    <3>1. Len(feed'[l]) = Len(feed[l]) + 1 /\ \A k \in Links \ {l} : feed'[k] = feed[k]
      BY <2>2, PublishKnown
    <3>2. known' = [known EXCEPT ![l] = @ + 1]
      BY <3>1
    <3>3. Consumer!Grow(l)
      BY <2>2, <3>2 DEF Consumer!Grow, Publish
    <3> QED
      BY <3>3 DEF Consumer!Next
  <2>3. CASE UNCHANGED <<cursor, applied, feed>>
    BY <2>3 DEF Consumer!vars
  <2> QED
    BY <2>1, <2>2, <2>3 DEF Next, LeaseAges, vars
<1> QED
  BY <1>1, <1>2, TypeCorrect, KnownCorrect, PTL DEF Spec, FeedRefinement, Consumer!Spec

=============================================================================
