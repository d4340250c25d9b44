------------------------------ MODULE BankSync ------------------------------
(***************************************************************************)
(* Bank links and their incremental synchronisation: BankingService        *)
(* (exchange, sync, disconnect), AccountBankRevoker.revokeAll and the      *)
(* institution_links / transactions statements they issue.                 *)
(*                                                                         *)
(* A request runs concurrently with every other one and is split at each   *)
(* await that reads or writes shared state.  One PostgreSQL statement, or  *)
(* one withUserScope transaction, is one step.  The provider keeps, for    *)
(* each Item, an append-only feed of transaction updates; a cursor is a    *)
(* position in that feed, so the null cursor is 0.                         *)
(***************************************************************************)
EXTENDS Naturals, Sequences, FiniteSets

CONSTANTS
    Links,        \* institution links (one provider Item each)
    Txns,         \* provider transaction ids
    Reqs,         \* requests that may be in flight at the same time
    MaxFeed,      \* bound, per link: updates the provider publishes for its Item
    MaxPages,     \* pages one sync may read (100 in the code)
    MaxRestarts,  \* pagination restarts one sync may make (3 in the code)
    PlanLimit     \* bank links the user's plan allows

ASSUME BoundsAssumption ==
    /\ MaxFeed \in [Links -> Nat]
    /\ MaxPages \in Nat \ {0}
    /\ MaxRestarts \in Nat
    /\ PlanLimit \in Nat
    /\ "none" \notin Links

VARIABLES
    status,   \* institution_links.status; "none" before the row exists, "gone" once deleted
    cursor,   \* institution_links.cursor
    aged,     \* institution_links.updated_at is more than five minutes old
    ledger,   \* for each transaction row the feed position of the update it holds, 0 = no row
    feed,     \* the updates the provider has published for the Item
    item,     \* the provider's Item: "absent", "live" or "removed"
    req,      \* the requests in flight and their local variables
    applied,  \* history: feed positions whose effect has reached the ledger
    lapsed    \* history: a sync in flight lost its lease, to age or to another writer

vars == <<status, cursor, aged, ledger, feed, item, req, applied, lapsed>>

-----------------------------------------------------------------------------
(* Domains and helpers *)

Update == [txn : Txns, op : {"put", "remove"}]
Stored == {"healthy", "syncing", "needs_reauth", "error", "revoked"}
Paging == {"fetch", "upsert", "remove", "settle"}
Linked == Paging \cup {"start", "derive", "fail", "create",
                       "drop_item", "drop_row", "revoke_item", "revoke_row"}
PC == Linked \cup {"idle", "exchange"}

Request == [pc : PC, link : Links \cup {"none"}, base : Nat, seen : Nat, upto : Nat,
            more : BOOLEAN, pages : Nat, restarts : Nat, todo : SUBSET Links]

Idle == [pc |-> "idle", link |-> "none", base |-> 0, seen |-> 0, upto |-> 0,
         more |-> FALSE, pages |-> 0, restarts |-> 0, todo |-> {}]

At(r, where) == req[r].pc = where
Becomes(r, q) == req' = [req EXCEPT ![r] = q]
Goto(r, where) == Becomes(r, [req[r] EXCEPT !.pc = where])
Done(r) == Becomes(r, Idle)

\* Requests that are reading pages for l under a lease they took.
Syncing(l) == {r \in Reqs : req[r].link = l /\ req[r].pc \in Paging}

Connected == {l \in Links : status[l] \in Stored \ {"revoked"}}

\* Positions lo+1..hi of l's feed that name t.
Touches(l, lo, hi, t) == {p \in (lo+1)..hi : feed[l][p].txn = t}

\* What a row that held v holds after updates lo+1..hi: the last one that names t decides.
Effect(l, lo, hi, t, v) ==
    LET named == Touches(l, lo, hi, t)
    IN  IF named = {} THEN v
        ELSE LET last == CHOOSE p \in named : \A q \in named : q <= p
             IN  IF feed[l][last].op = "put" THEN last ELSE 0

\* The row for t once exactly the first n updates are in.
Replay(l, n, t) == Effect(l, 0, n, t, 0)

\* links.update and startSync stamp updated_at = now().
WriteStatus(l, s) ==
    /\ status' = [status EXCEPT ![l] = s]
    /\ aged' = [aged EXCEPT ![l] = FALSE]

\* r writes the row of l while someone else is syncing it.
NoteWriter(r, l) ==
    lapsed' = [lapsed EXCEPT ![l] = @ \/ Syncing(l) \ {r} # {}]

Init ==
    /\ status = [l \in Links |-> "none"]
    /\ cursor = [l \in Links |-> 0]
    /\ aged = [l \in Links |-> FALSE]
    /\ ledger = [l \in Links |-> [t \in Txns |-> 0]]
    /\ feed = [l \in Links |-> <<>>]
    /\ item = [l \in Links |-> "absent"]
    /\ req = [r \in Reqs |-> Idle]
    /\ applied = [l \in Links |-> {}]
    /\ lapsed = [l \in Links |-> FALSE]

-----------------------------------------------------------------------------
(* exchange: the plan check, the provider's exchange, links.create, sync *)

ExchangeCheck(r) ==
    /\ At(r, "idle")
    /\ Cardinality(Connected) < PlanLimit
    /\ Goto(r, "exchange")
    /\ UNCHANGED <<status, cursor, aged, ledger, feed, item, applied, lapsed>>

ExchangeItem(r, l) ==
    /\ At(r, "exchange")
    /\ item[l] = "absent"
    /\ item' = [item EXCEPT ![l] = "live"]
    /\ Becomes(r, [req[r] EXCEPT !.pc = "create", !.link = l])
    /\ UNCHANGED <<status, cursor, aged, ledger, feed, applied, lapsed>>

ExchangeCreate(r) ==
    LET l == req[r].link IN
    /\ At(r, "create")
    /\ WriteStatus(l, "healthy")
    /\ cursor' = [cursor EXCEPT ![l] = 0]
    /\ Goto(r, "start")
    /\ UNCHANGED <<ledger, feed, item, applied, lapsed>>

-----------------------------------------------------------------------------
(* sync: the lease, the pages, the acknowledgement *)

\* A manual refresh or a webhook job asks for a sync of a stored link.
RequestSync(r, l) ==
    /\ At(r, "idle")
    /\ status[l] \in Stored
    /\ Becomes(r, [req[r] EXCEPT !.pc = "start", !.link = l])
    /\ UNCHANGED <<status, cursor, aged, ledger, feed, item, applied, lapsed>>

\* Mutant: the lease is not looked at.
MayStartAlways(l) == status[l] \in Stored

MayStart(l) == status[l] \in Stored /\ (status[l] # "syncing" \/ aged[l])

\* The UPDATE of startSync and its RETURNING: the lease and the cursor to start from.
StartSync(r) ==
    LET l == req[r].link IN
    /\ At(r, "start")
    /\ MayStart(l)
    /\ WriteStatus(l, "syncing")
    /\ Becomes(r, [Idle EXCEPT !.pc = "fetch", !.link = l,
                               !.base = cursor[l], !.seen = cursor[l]])
    /\ UNCHANGED <<cursor, ledger, feed, item, applied, lapsed>>

\* ConflictException: somebody holds the lease, or the row is gone.
StartConflict(r) ==
    /\ At(r, "start")
    /\ ~ MayStart(req[r].link)
    /\ Done(r)
    /\ UNCHANGED <<status, cursor, aged, ledger, feed, item, applied, lapsed>>

\* provider.sync(accessToken, cursor) answers with the next page.
FetchPage(r) ==
    LET l == req[r].link
        s == req[r].seen IN
    /\ At(r, "fetch")
    /\ item[l] = "live"
    /\ \E n \in s..Len(feed[l]) :
         /\ n = s => Len(feed[l]) = s
         /\ Becomes(r, [req[r] EXCEPT !.pc = "upsert", !.upto = n,
                                       !.more = n < Len(feed[l]), !.pages = @ + 1])
    /\ UNCHANGED <<status, cursor, aged, ledger, feed, item, applied, lapsed>>

\* Mutant: the restart counter runs the wrong way.
RestartPagesDown(r) ==
    /\ At(r, "fetch")
    /\ req[r].seen > req[r].base
    /\ Becomes(r, [req[r] EXCEPT !.seen = req[r].base, !.pages = 0, !.restarts = @ - 1])
    /\ UNCHANGED <<status, cursor, aged, ledger, feed, item, applied, lapsed>>

\* TRANSACTIONS_SYNC_MUTATION_DURING_PAGINATION: start over from the first page's cursor.  The
\* provider reports it between two pages, so never on the first.
RestartPages(r) ==
    /\ At(r, "fetch")
    /\ req[r].seen > req[r].base
    /\ req[r].restarts < MaxRestarts
    /\ Becomes(r, [req[r] EXCEPT !.seen = req[r].base, !.pages = 0, !.restarts = @ + 1])
    /\ UNCHANGED <<status, cursor, aged, ledger, feed, item, applied, lapsed>>

\* transactions.upsertMany: the added and modified rows of the page, in one transaction.
UpsertPage(r) ==
    LET l == req[r].link
        row(t) == Effect(l, req[r].seen, req[r].upto, t, 0) IN
    /\ At(r, "upsert")
    /\ ledger' = [ledger EXCEPT ![l] =
                    [t \in Txns |-> IF row(t) # 0 THEN row(t) ELSE @[t]]]
    /\ Goto(r, "remove")
    /\ UNCHANGED <<status, cursor, aged, feed, item, applied, lapsed>>

\* Mutant: removed ids are ignored.
RemovedNone(l, lo, hi) == {}

\* page.removedProviderTxnIds
Removed(l, lo, hi) ==
    {t \in Txns : Touches(l, lo, hi, t) # {} /\ Effect(l, lo, hi, t, 0) = 0}

\* transactions.removeByProviderIds, then the loop's end: next page, page limit or settle.
RemovePage(r) ==
    LET l == req[r].link
        gone == Removed(l, req[r].seen, req[r].upto) IN
    /\ At(r, "remove")
    /\ ledger' = [ledger EXCEPT ![l] = [t \in Txns |-> IF t \in gone THEN 0 ELSE @[t]]]
    /\ applied' = [applied EXCEPT ![l] = @ \cup ((req[r].seen + 1)..req[r].upto)]
    /\ Becomes(r, [req[r] EXCEPT !.seen = req[r].upto,
                                  !.pc = IF ~ req[r].more THEN "settle"
                                         ELSE IF req[r].pages = MaxPages THEN "fail"
                                         ELSE "fetch"])
    /\ UNCHANGED <<status, cursor, aged, feed, item, lapsed>>

\* Mutant: the newest position is acknowledged instead of the one the pages reached.
SettleLatest(r) ==
    LET l == req[r].link IN
    /\ At(r, "settle")
    /\ status[l] \in Stored
    /\ WriteStatus(l, "healthy")
    /\ cursor' = [cursor EXCEPT ![l] = Len(feed[l])]
    /\ NoteWriter(r, l)
    /\ Goto(r, "derive")
    /\ UNCHANGED <<ledger, feed, item, applied>>

\* links.update(cursor, healthy); on a row deleted meanwhile the UPDATE matches nothing.
Settle(r) ==
    LET l == req[r].link IN
    /\ At(r, "settle")
    /\ IF status[l] \in Stored
       THEN /\ WriteStatus(l, "healthy")
            /\ cursor' = [cursor EXCEPT ![l] = req[r].seen]
            /\ NoteWriter(r, l)
       ELSE UNCHANGED <<status, aged, cursor, lapsed>>
    /\ Goto(r, "derive")
    /\ UNCHANGED <<ledger, feed, item, applied>>

\* Transfer pairing, recurring flags and the net-worth snapshot complete.
Derive(r) ==
    /\ At(r, "derive")
    /\ Done(r)
    /\ UNCHANGED <<status, cursor, aged, ledger, feed, item, applied, lapsed>>

\* A provider or store call of the try block throws.
Throw(r) ==
    /\ req[r].pc \in Paging \cup {"derive"}
    /\ Goto(r, "fail")
    /\ UNCHANGED <<status, cursor, aged, ledger, feed, item, applied, lapsed>>

\* Mutants: the catch block acknowledges the page it was working on, or forgets the cursor.
FailWith(r, position) ==
    LET l == req[r].link IN
    /\ At(r, "fail")
    /\ status[l] \in Stored
    /\ WriteStatus(l, "error")
    /\ cursor' = [cursor EXCEPT ![l] = position]
    /\ NoteWriter(r, l)
    /\ Done(r)
    /\ UNCHANGED <<ledger, feed, item, applied>>
FailAcknowledges(r) == FailWith(r, req[r].upto)

\* The catch block: links.update(needs_reauth or error); the cursor stays.
Fail(r) ==
    LET l == req[r].link IN
    /\ At(r, "fail")
    /\ IF status[l] \in Stored
       THEN /\ \E s \in {"needs_reauth", "error"} : WriteStatus(l, s)
            /\ NoteWriter(r, l)
       ELSE UNCHANGED <<status, aged, lapsed>>
    /\ Done(r)
    /\ UNCHANGED <<cursor, ledger, feed, item, applied>>

-----------------------------------------------------------------------------
(* disconnect and revokeAll *)

RequestDisconnect(r, l) ==
    /\ At(r, "idle")
    /\ status[l] \in Stored
    /\ Becomes(r, [req[r] EXCEPT !.pc = "drop_item", !.link = l])
    /\ UNCHANGED <<status, cursor, aged, ledger, feed, item, applied, lapsed>>

\* Mutant: every provider error counts as removed.
RemoveItemAnyError(r, here, next) ==
    /\ At(r, here)
    /\ Goto(r, next)
    /\ \/ item' = [item EXCEPT ![req[r].link] = "removed"]
       \/ UNCHANGED item
    /\ UNCHANGED <<status, cursor, aged, ledger, feed, applied, lapsed>>

\* provider.removeItem; ITEM_NOT_FOUND counts as removed, any other error ends the request.
RemoveItem(r, here, next) ==
    /\ At(r, here)
    /\ \/ /\ item' = [item EXCEPT ![req[r].link] = "removed"]
          /\ Goto(r, next)
       \/ /\ Done(r)
          /\ UNCHANGED item
    /\ UNCHANGED <<status, cursor, aged, ledger, feed, applied, lapsed>>

\* links.remove (the queued webhook jobs of the link are purged just before).
DropRow(r) ==
    LET l == req[r].link IN
    /\ At(r, "drop_row")
    /\ status' = [status EXCEPT ![l] = "gone"]
    /\ aged' = [aged EXCEPT ![l] = FALSE]
    /\ cursor' = [cursor EXCEPT ![l] = 0]
    /\ NoteWriter(r, l)
    /\ Done(r)
    /\ UNCHANGED <<ledger, feed, item, applied>>

\* revokeAll reads the links that are not revoked and takes them one after the other.
RequestRevokeAll(r) ==
    /\ At(r, "idle")
    /\ \E l \in Connected :
         Becomes(r, [req[r] EXCEPT !.pc = "revoke_item", !.link = l,
                                   !.todo = Connected \ {l}])
    /\ UNCHANGED <<status, cursor, aged, ledger, feed, item, applied, lapsed>>

\* links.update(revoked, cursor null), then the next link of the list.
RevokeRow(r) ==
    LET l == req[r].link IN
    /\ At(r, "revoke_row")
    /\ IF status[l] \in Stored
       THEN /\ WriteStatus(l, "revoked")
            /\ cursor' = [cursor EXCEPT ![l] = 0]
            /\ NoteWriter(r, l)
       ELSE UNCHANGED <<status, aged, cursor, lapsed>>
    /\ \/ /\ req[r].todo = {}
          /\ Done(r)
       \/ \E k \in req[r].todo :
            Becomes(r, [req[r] EXCEPT !.pc = "revoke_item", !.link = k, !.todo = @ \ {k}])
    /\ UNCHANGED <<ledger, feed, item, applied>>

-----------------------------------------------------------------------------
(* The world outside the requests *)

\* The provider publishes an update; it removes only what it lists.
Publish(l) ==
    /\ item[l] = "live"
    /\ Len(feed[l]) < MaxFeed[l]
    /\ \E u \in Update :
         /\ u.op = "remove" => Replay(l, Len(feed[l]), u.txn) # 0
         /\ feed' = [feed EXCEPT ![l] = Append(@, u)]
    /\ UNCHANGED <<status, cursor, aged, ledger, item, req, applied, lapsed>>

\* Five minutes pass since the row of a link that is syncing was written.
LeaseAges(l) ==
    /\ status[l] = "syncing"
    /\ ~ aged[l]
    /\ aged' = [aged EXCEPT ![l] = TRUE]
    /\ lapsed' = [lapsed EXCEPT ![l] = @ \/ Syncing(l) # {}]
    /\ UNCHANGED <<status, cursor, ledger, feed, item, req, applied>>

\* The process that runs r dies: its local state is lost, the database keeps what it has.
Crash(r) ==
    /\ ~ At(r, "idle")
    /\ Done(r)
    /\ UNCHANGED <<status, cursor, aged, ledger, feed, item, applied, lapsed>>

Step(r) ==
    \/ ExchangeCheck(r)
    \/ \E l \in Links : ExchangeItem(r, l) \/ RequestSync(r, l) \/ RequestDisconnect(r, l)
    \/ ExchangeCreate(r)
    \/ StartSync(r) \/ StartConflict(r)
    \/ FetchPage(r) \/ RestartPages(r)
    \/ UpsertPage(r) \/ RemovePage(r)
    \/ Settle(r) \/ Derive(r) \/ Throw(r) \/ Fail(r)
    \/ RemoveItem(r, "drop_item", "drop_row")
    \/ DropRow(r)
    \/ RequestRevokeAll(r)
    \/ RemoveItem(r, "revoke_item", "revoke_row")
    \/ RevokeRow(r)
    \/ Crash(r)

Next == \/ \E r \in Reqs : Step(r)
        \/ \E l \in Links : Publish(l) \/ LeaseAges(l)

Spec == Init /\ [][Next]_vars

-----------------------------------------------------------------------------
(* Properties *)

\* Every variable keeps its type: row states the schema's CHECK allows, positions, requests.
TypeOK ==
    /\ status \in [Links -> Stored \cup {"none", "gone"}]
    /\ cursor \in [Links -> Nat]
    /\ aged \in [Links -> BOOLEAN]
    /\ ledger \in [Links -> [Txns -> Nat]]
    /\ feed \in [Links -> Seq(Update)]
    /\ item \in [Links -> {"absent", "live", "removed"}]
    /\ req \in [Reqs -> Request]
    /\ \A r \in Reqs : req[r].pc \in Linked => req[r].link \in Links
    /\ applied \in [Links -> SUBSET Nat]
    /\ lapsed \in [Links -> BOOLEAN]

\* The cursor a link stores acknowledges only updates whose effect is in the ledger, whatever
\* syncs overlap, restart, fail or die: sync writes it after the pages, never before.
CursorCovered == \A l \in Links : 1..cursor[l] \subseteq applied[l]

\* As long as no sync of l lost its lease, at most one request reads pages for l: the
\* conditional UPDATE of startSync serialises manual refreshes and webhook jobs.
ExclusiveSync ==
    \A l \in Links : \A r1, r2 \in Syncing(l) : lapsed[l] \/ r1 = r2

\* A healthy link whose syncs never lost their lease shows exactly the bank's view as of
\* its cursor: retries after a crash, a failure or a restart of the pagination replay
\* updates without doubling, losing or resurrecting a transaction.
LedgerExact ==
    \A l \in Links : status[l] = "healthy" /\ ~ lapsed[l] =>
        \A t \in Txns : ledger[l][t] = Replay(l, cursor[l], t)

\* A row is marked revoked or deleted only after the provider's Item was removed, so no Item
\* goes on collecting data for a connection the user ended; this holds for each link of
\* revokeAll and for disconnect, also when they race each other or die half way.
ItemRemovedFirst ==
    \A l \in Links : status[l] \in {"revoked", "gone"} => item[l] = "removed"

ForwardOrEnded(l) ==
    \/ cursor'[l] >= cursor[l]
    \/ status'[l] \in {"revoked", "gone"}
    \/ lapsed'[l]

\* The stored cursor moves back only when the link is revoked or deleted, or when a sync
\* that lost its lease reports an older position.
CursorForward == [][\A l \in Links : ForwardOrEnded(l)]_vars

\* A comment of createLinkToken (banking.service.ts:93-98) has revoked rows start a fresh
\* Link flow because their Item is dead; that needs a revoked row to stay revoked.
RevokedStays ==
    [][\A l \in Links : status[l] = "revoked" => status'[l] \in {"revoked", "gone"}]_vars

\* Read as a consumer of the provider's feed, sync delivers every update it acknowledges.
Consumer == INSTANCE FeedConsumer WITH
    Sources <- Links,
    known <- [l \in Links |-> Len(feed[l])],
    delivered <- applied,
    acked <- cursor
FeedRefinement == Consumer!Spec

=============================================================================
