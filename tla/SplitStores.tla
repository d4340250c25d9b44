----------------------------- MODULE SplitStores -----------------------------
(***************************************************************************)
(* The port behind which one group that shares expenses is kept, twice:    *)
(* kept is the group in memory, stored the group in PostgreSQL with its    *)
(* commands and triggers.  Both get the calls that SplitService makes: it  *)
(* has asked before that the caller is a member, and that the group is     *)
(* active.  same says whether both answered the last call alike.           *)
(***************************************************************************)
EXTENDS Integers, FiniteSets, FiniteSetsExt

CONSTANTS
    People,          \* accounts
    Opener,          \* who opens the group, its administrator
    MaxInvitations,  \* bound
    MaxEntries       \* bound: expenses and settlements

ASSUME SplitStoresAssumption == Opener \in People /\ MaxInvitations \in Nat /\ MaxEntries \in Nat

VARIABLES kept, stored, same, people

splitStoresVars == <<kept, stored, same, people>>

Opened == [active |-> TRUE, members |-> {Opener}, invited |-> {}, entries |-> {}]
SplitStoresInit == kept = Opened /\ stored = Opened /\ same = TRUE /\ people = People

GroupCall(m, p, mAnswer, pAnswer) ==
    kept' = m /\ stored' = p /\ same' = (mAnswer = pAnswer) /\ UNCHANGED people
OfBoth(u) == u \in kept.members \cap stored.members
ActiveMember(u) == OfBoth(u) /\ kept.active /\ stored.active

-----------------------------------------------------------------------------
(* Invitations *)

Waiting(g, u) == {i \in g.invited : i.invitee = u /\ i.status = "pending"}
Decides(g, id, status) == [g EXCEPT !.invited = {IF i.id = id
                                                 THEN [i EXCEPT !.status = status] ELSE i : i \in @}]
IsPending(g, id) == \E i \in g.invited : i.id = id /\ i.status = "pending"

\* createInvitation: an administrator's, for who is not a member and has none that is pending.
MayInvite(g, u, invitee) == u = Opener /\ u \in g.members /\ invitee \notin g.members
    /\ Waiting(g, invitee) = {}
MemInvite(g, u, i) == IF g.active /\ MayInvite(g, u, i.invitee)
    THEN [g EXCEPT !.invited = @ \cup {i}] ELSE g

\* The policy and the trigger ask for the administrator and an active group, a unique index for one that is
\* pending.
PgInvite(g, u, i) == IF g.active /\ MayInvite(g, u, i.invitee) THEN [g EXCEPT !.invited = @ \cup {i}] ELSE g

CreateInvitation(u, invitee) ==
    LET i == [id |-> Cardinality(kept.invited) + 1, invitee |-> invitee, status |-> "pending"] IN
    /\ ActiveMember(u) /\ u = Opener /\ invitee \in people /\ ~OfBoth(invitee) /\ i.id <= MaxInvitations
    /\ GroupCall(MemInvite(kept, u, i), PgInvite(stored, u, i), Waiting(kept, invitee) = {},
                 Waiting(stored, invitee) = {})

\* Mutant: the member is added, the invitation stays as it is.
MemAcceptsOnly(g, u, id) == IF IsPending(g, id) /\ g.active THEN [g EXCEPT !.members = @ \cup {u}] ELSE g

\* acceptInvitation: the membership and the decision.  In memory an archived group is not joined any more.
MemAccepts(g, u, id) ==
    IF IsPending(g, id) /\ g.active THEN [Decides(g, id, "accepted") EXCEPT !.members = @ \cup {u}] ELSE g
PgAccepts(g, u, id) ==
    IF IsPending(g, id) THEN [Decides(g, id, "accepted") EXCEPT !.members = @ \cup {u}] ELSE g

\* Whoever decides: the invitee, while the group is active.
AcceptInvitation(i) ==
    /\ i.invitee \in people /\ kept.active
    /\ GroupCall(MemAccepts(kept, i.invitee, i.id), PgAccepts(stored, i.invitee, i.id), IsPending(kept, i.id),
                 IsPending(stored, i.id))

MemDeclines(g, id) == IF IsPending(g, id) THEN Decides(g, id, "declined") ELSE g
PgDeclines(g, id) == IF IsPending(g, id) THEN Decides(g, id, "declined") ELSE g
DeclineInvitation(i) ==
    /\ i.invitee \in people
    /\ GroupCall(MemDeclines(kept, i.id), PgDeclines(stored, i.id), IsPending(kept, i.id),
                 IsPending(stored, i.id))

MemRevokes(g, u, id) == IF u = Opener /\ u \in g.members /\ IsPending(g, id)
    THEN Decides(g, id, "revoked") ELSE g
PgRevokes(g, u, id) == IF u = Opener /\ u \in g.members /\ IsPending(g, id)
    THEN Decides(g, id, "revoked") ELSE g
RevokeInvitation(u, i) ==
    /\ ActiveMember(u) /\ u = Opener /\ i.invitee \in people
    /\ GroupCall(MemRevokes(kept, u, i.id), PgRevokes(stored, u, i.id), IsPending(kept, i.id),
                 IsPending(stored, i.id))

-----------------------------------------------------------------------------
(* Money and departures *)

Share(e, u) == IF u \in DOMAIN e.to THEN e.to[u] ELSE 0

\* What u has paid, the whole amount whoever still has a share in it, less his own shares.
Net(g, u) == MapThenSumSet(LAMBDA e : (IF e.from = u THEN e.amount ELSE 0) - Share(e, u), g.entries)

\* addExpense and addSettlement: in memory of any member, in PostgreSQL of an active group and among
\* members.
MemPosts(g, e) == IF e.from \in g.members THEN [g EXCEPT !.entries = @ \cup {e}] ELSE g
PgPosts(g, e) ==
    IF g.active /\ {e.from} \cup DOMAIN e.to \subseteq g.members
        THEN [g EXCEPT !.entries = @ \cup {e}] ELSE g

AddEntry(u, kind, S) ==
    LET e == [id |-> Cardinality(kept.entries) + 1, kind |-> kind, from |-> u, amount |-> Cardinality(S),
              to |-> [w \in S |-> 1]] IN
    /\ ActiveMember(u) /\ \A w \in S : OfBoth(w)
    /\ S # {} /\ (kind = "settlement" => Cardinality(S) = 1 /\ u \notin S)
    /\ ~ (\E x \in kept.entries : x.id = e.id) /\ e.id <= MaxEntries
    /\ GroupCall(MemPosts(kept, e), PgPosts(stored, e), TRUE, TRUE)

\* Who leaves is no member, and his accepted invitations say how he left.
Departs(g, u, target) ==
    [g EXCEPT !.members = @ \ {target},
              !.invited = {IF i.invitee = target /\ i.status = "accepted"
                           THEN [i EXCEPT !.status = IF u = target
                                 THEN "left" ELSE "removed"] ELSE i : i \in @}]

\* removeMember: the creator never, others an administrator or oneself, at a balance of zero; the order of
\* the refusals is the same in memory and in finverse_remove_split_member.
MemRefusal(g, u, target) ==
    CASE ~g.active \/ u \notin g.members \/ target \notin g.members -> "not_found"
      [] target = Opener -> "creator"
      [] u # target /\ u # Opener -> "forbidden"
      [] Net(g, target) # 0 -> "balance_nonzero"
      [] OTHER -> "removed"
PgRefusal(g, u, target) ==
    CASE ~g.active \/ target \notin g.members -> "not_found"
      [] target = Opener -> "creator"
      [] u # target /\ ~ (u = Opener /\ u \in g.members) -> "forbidden"
      [] Net(g, target) # 0 -> "balance_nonzero"
      [] OTHER -> "removed"

RemoveMember(u, target) ==
    LET m == MemRefusal(kept, u, target)
        p == PgRefusal(stored, u, target) IN
    /\ ActiveMember(u)
    /\ GroupCall(IF m = "removed" THEN Departs(kept, u, target) ELSE kept,
            IF p = "removed" THEN Departs(stored, u, target) ELSE stored, m, p)

\* archiveGroup: once, by a member.
MemArchives(g, u) == IF u \in g.members THEN [g EXCEPT !.active = FALSE] ELSE g
PgArchives(g, u) == IF u \in g.members THEN [g EXCEPT !.active = FALSE] ELSE g
ArchiveGroup(u) ==
    /\ ActiveMember(u) /\ u = Opener
    /\ GroupCall(MemArchives(kept, u), PgArchives(stored, u), kept.active, stored.active)

-----------------------------------------------------------------------------
(* An account that is deleted *)

\* What is left of the entries: not what he paid, no settlement with him, and of the rest the others'
\* shares, at the amount it had.
Kept(e, u) == e.from # u /\ (e.kind = "settlement" => u \notin DOMAIN e.to)
Without(e, u) == [e EXCEPT !.to = [w \in DOMAIN e.to \ {u} |-> e.to[w]]]
Purged(g, u) ==
    [g EXCEPT !.members = @ \ {u}, !.entries = {Without(e, u) : e \in {x \in @ : Kept(x, u)}}]

\* purgeUser leaves the invitations, ON DELETE CASCADE takes them as well.
MemPurge(g, u) == Purged(g, u)
PgPurge(g, u) == [Purged(g, u) EXCEPT !.invited = {i \in @ : i.invitee # u}]
DeleteAccount(u) ==
    /\ u \in people \ {Opener}
    /\ kept' = MemPurge(kept, u) /\ stored' = PgPurge(stored, u) /\ same' = TRUE
    /\ people' = people \ {u}

SplitStoresNext ==
    \/ \E u \in people :
         \/ \E w \in people : CreateInvitation(u, w) \/ RemoveMember(u, w)
         \/ \E kind \in {"expense", "settlement"}, S \in SUBSET people : AddEntry(u, kind, S)
         \/ ArchiveGroup(u) \/ DeleteAccount(u)
    \/ \E i \in kept.invited : AcceptInvitation(i) \/ DeclineInvitation(i) \/ RevokeInvitation(Opener, i)

SplitStoresSpec == SplitStoresInit /\ [][SplitStoresNext]_splitStoresVars

\* Through every order of the calls, deletions of accounts among them, both adapters have the same
\* members with the same balances, the same invitations of everyone who still has an account, and
\* answer every call alike, each refusal of a departure included.  A pending invitation to an archived
\* group is not accepted here: PostgreSQL would.
SameGroup ==
    /\ same /\ kept.active = stored.active /\ kept.members = stored.members
    /\ \A u \in kept.members : Net(kept, u) = Net(stored, u)
    /\ {i \in kept.invited : i.invitee \in people} = stored.invited
=============================================================================
