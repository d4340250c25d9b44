----------------------------- MODULE SplitGroups -----------------------------
(***************************************************************************)
(* One group that shares expenses: who joins and leaves it, what its       *)
(* members pay for each other, how they settle, and what is left of all    *)
(* that when the account of one of them is deleted.                        *)
(*                                                                         *)
(* A request first reads, then writes in a transaction of its own.  The    *)
(* transactions that move money, remove members or archive take the row    *)
(* of the group first and keep it, so each of them is one step; what it    *)
(* still sees from before it got the row is in its request.                *)
(***************************************************************************)
EXTENDS Integers, FiniteSets, Sequences, Bags, FiniteSetsExt, SequencesExt

CONSTANTS
    Users,          \* accounts
    Creator,        \* who opened the group, its administrator
    Prices,         \* amounts of an expense or settlement
    MaxMoney,       \* bound: expenses and settlements
    MaxInvitations  \* bound: invitations

ASSUME SplitAssumption ==
    /\ Creator \in Users /\ IsFiniteSet(Users)
    /\ {MaxMoney, MaxInvitations} \subseteq Nat /\ Prices \subseteq Nat \ {0}

Slots == 1..MaxInvitations
Statuses == {"none", "pending", "accepted", "declined", "revoked", "left", "removed"}

VARIABLES
    accounts,     \* users whose account exists
    active,       \* split_groups.archived_at IS NULL
    members,      \* split_group_members
    invitations,  \* split_group_invitations, by the order they are written in
    money,        \* split_expenses with their participants, and split_settlements
    request,      \* what each user's request has read and is about to write
    late          \* who sent a settlement that waited for the group while he was removed

splitVars == <<accounts, active, members, invitations, money, request, late>>

-----------------------------------------------------------------------------
(* Balances *)

\* assertSharesReconcile: shares that add up to the amount.
Reconcile(amount, shares) == SumFunction(shares) = amount

Gives(e, u) == IF e.from = u THEN e.amount ELSE 0
Takes(e, u) == IF u \in DOMAIN e.to THEN e.to[u] ELSE 0

\* What the group owes u: what u paid, less u's shares and what u was paid.
Net(u) == SumFunction([e \in DOMAIN money |-> money[e] * (Gives(e, u) - Takes(e, u))])
Balances == [u \in Users |-> Net(u)]

\* Mutant: the remainder is dropped.
SplitRounded(amount, ids) == [u \in ToSet(ids) |-> amount \div Len(ids)]

\* Equal shares; the remainder goes one unit each to those who come first.
SplitEqually(amount, ids) ==
    LET base == amount \div Len(ids)
        first == {ids[k] : k \in 1..(amount % Len(ids))} IN
    [u \in ToSet(ids) |-> IF u \in first THEN base + 1 ELSE base]

\* Someone who is owed the most, and someone who owes the most.
LargestCreditor(b) == CHOOSE u \in Users : \A w \in Users : b[w] <= b[u]
LargestDebtor(b) == CHOOSE u \in Users : \A w \in Users : b[u] <= b[w]

\* The largest debtor pays the largest creditor what he owes or the other is owed, whichever is less.
Payment(b) ==
    LET c == LargestCreditor(b)
        d == LargestDebtor(b) IN
    [from |-> d, to |-> c, amount |-> Min({b[c], -b[d]})]

\* Mutant: who has paid or been paid once is done.
PayingOff(b, p) == [b EXCEPT ![p.to] = 0, ![p.from] = 0]
Paying(b, p) == [b EXCEPT ![p.to] = @ - p.amount, ![p.from] = @ + p.amount]
OneSided(b) == (\A u \in Users : b[u] <= 0) \/ (\A u \in Users : b[u] >= 0)

\* At most n payments, until one side is done.
Settling[n \in Nat] ==
    [b \in [Users -> Int] |->
       IF n = 0 \/ OneSided(b) THEN <<>>
       ELSE <<Payment(b)>> \o Settling[n - 1][Paying(b, Payment(b))]]

SuggestSettlements(balances) == Settling[2 * Cardinality(Users)][balances]

-----------------------------------------------------------------------------
(* Requests *)

NoRequest == [pc |-> "idle"]
NoInvitation == [invitee |-> Creator, status |-> "none"]
Administrates(u) == u = Creator /\ u \in members
Ready(u) == u \in accounts /\ request[u] = NoRequest
Continues(u, r) == request' = [request EXCEPT ![u] = r]
InvitationsOf(u, status) == {k \in Slots : invitations[k].invitee = u /\ invitations[k].status = status}
Pending(u) == InvitationsOf(u, "pending")
Unused == {k \in Slots : invitations[k] = NoInvitation}
InFlight == Cardinality({u \in Users : request[u].pc \in {"write", "waits"}})
Room == BagCardinality(money) + InFlight < MaxMoney

SplitInit ==
    /\ accounts = Users
    /\ active = TRUE
    /\ members = {Creator}
    /\ invitations = [k \in Slots |-> NoInvitation]
    /\ money = EmptyBag
    /\ request = [u \in Users |-> NoRequest]
    /\ late = {}

\* addExpense up to the store: each share is a member's; the payer is who asks.
AskExpense(u, amount, shares) ==
    /\ Ready(u) /\ active /\ u \in members /\ Room
    /\ DOMAIN shares # {} /\ DOMAIN shares \subseteq members
    /\ Continues(u, [pc |-> "write", entry |-> [kind |-> "expense", from |-> u, amount |-> amount, to |-> shares]])
    /\ UNCHANGED <<accounts, active, members, invitations, money, late>>

AskEqually(u, amount, ids) == AskExpense(u, amount, SplitEqually(amount, ids))
AskShares(u, amount, shares) == Reconcile(amount, shares) /\ AskExpense(u, amount, shares)

\* addSettlement up to the store: to another member.
AskSettlement(u, to, amount) ==
    /\ Ready(u) /\ active /\ u \in members /\ Room
    /\ to \in members \ {u}
    /\ LET shares == [w \in {to} |-> amount] IN
       Continues(u, [pc |-> "write", entry |-> [kind |-> "settlement", from |-> u, amount |-> amount, to |-> shares]])
    /\ UNCHANGED <<accounts, active, members, invitations, money, late>>

\* The insert starts, and then waits for the row of the group: what its policy asks is as of now.
StartInsert(u) ==
    /\ request[u].pc = "write"
    /\ Continues(u, IF u \in members THEN [request[u] EXCEPT !.pc = "waits"] ELSE NoRequest)
    /\ UNCHANGED <<accounts, active, members, invitations, money, late>>

\* Mutant: a participant is taken to be the member it was.
PostUnchecked(u) ==
    /\ request[u].pc = "waits"
    /\ LET e == request[u].entry IN
       money' = IF active /\ (DOMAIN e.to \subseteq accounts) /\ \A w \in DOMAIN e.to : e.to[w] > 0
                THEN money (+) SetToBag({e}) ELSE money
    /\ late' = IF money' # money /\ u \notin members THEN late \cup {u} ELSE late
    /\ Continues(u, NoRequest)
    /\ UNCHANGED <<accounts, active, members, invitations>>

\* The row is there: the group must be active and the others members now, and shares positive.  The
\* inserts of participants ask again for the payer; a settlement is one insert, whose policy does not.
Post(u) ==
    /\ request[u].pc = "waits"
    /\ LET e == request[u].entry IN
       money' = IF /\ active
                   /\ DOMAIN e.to \subseteq members
                   /\ \A w \in DOMAIN e.to : e.to[w] > 0
                   /\ e.kind = "expense" => u \in members
                THEN money (+) SetToBag({e}) ELSE money
    /\ late' = IF money' # money /\ u \notin members THEN late \cup {u} ELSE late
    /\ Continues(u, NoRequest)
    /\ UNCHANGED <<accounts, active, members, invitations>>

-----------------------------------------------------------------------------
(* Membership *)

\* createInvitation up to the store.
AskInvitation(u, invitee) ==
    /\ Ready(u) /\ active /\ Administrates(u)
    /\ invitee \in accounts \ members
    /\ Unused # {}
    /\ Continues(u, [pc |-> "invite", invitee |-> invitee])
    /\ UNCHANGED <<accounts, active, members, invitations, money, late>>

\* One pending invitation for each invitee; whether he has become a member is not asked again.
Invite(u) ==
    /\ request[u].pc = "invite"
    /\ LET invitee == request[u].invitee IN
       invitations' = IF Administrates(u) /\ invitee \in accounts /\ Pending(invitee) = {}
                      THEN [invitations EXCEPT ![Min(Unused)] = [invitee |-> invitee, status |-> "pending"]]
                      ELSE invitations
    /\ Continues(u, NoRequest)
    /\ UNCHANGED <<accounts, active, members, money, late>>

Decide(k, status) == invitations' = [invitations EXCEPT ![k].status = status]

\* Mutant: the invitation is left as it is.
AcceptOnly(u, k) ==
    /\ Ready(u) /\ k \in Pending(u)
    /\ u \notin members
    /\ members' = members \cup {u}
    /\ UNCHANGED <<accounts, active, invitations, money, request, late>>

\* The membership and the decision in one transaction; who is a member already gets an error.  The
\* command asks nothing of the group, so one that is archived is joined too.
AcceptInvitation(u, k) ==
    /\ Ready(u) /\ k \in Pending(u)
    /\ u \notin members
    /\ members' = members \cup {u}
    /\ Decide(k, "accepted")
    /\ UNCHANGED <<accounts, active, money, request, late>>

DeclineInvitation(u, k) ==
    /\ Ready(u) /\ k \in Pending(u)
    /\ Decide(k, "declined")
    /\ UNCHANGED <<accounts, active, members, money, request, late>>

RevokeInvitation(u, k) ==
    /\ Ready(u) /\ active /\ Administrates(u)
    /\ invitations[k].status = "pending"
    /\ Decide(k, "revoked")
    /\ UNCHANGED <<accounts, active, members, money, request, late>>

\* finverse_remove_split_member: with the row of the group, and only at a balance of zero.
RemoveMember(u, target) ==
    /\ Ready(u) /\ active /\ u \in members
    /\ target \in members \ {Creator}
    /\ u = target \/ Administrates(u)
    /\ Net(target) = 0
    /\ members' = members \ {target}
    /\ invitations' = [k \in Slots |->
                         IF k \in InvitationsOf(target, "accepted")
                         THEN [invitations[k] EXCEPT !.status = IF u = target THEN "left" ELSE "removed"]
                         ELSE invitations[k]]
    /\ UNCHANGED <<accounts, active, money, request, late>>

ArchiveGroup(u) ==
    /\ Ready(u) /\ active /\ Administrates(u)
    /\ active' = FALSE
    /\ UNCHANGED <<accounts, members, invitations, money, request, late>>

\* The row of the user is deleted and all that references it: the membership, the invitations, the
\* expenses paid, both sides of settlements, and the shares in what others paid.
DeleteAccount(u) ==
    /\ u \in accounts
    /\ accounts' = accounts \ {u}
    /\ members' = members \ {u}
    /\ invitations' = [k \in Slots |-> IF invitations[k].invitee = u THEN NoInvitation ELSE invitations[k]]
    /\ LET Kept(e) == e.from # u /\ ~ (e.kind = "settlement" /\ u \in DOMAIN e.to)
           Without(e) == [e EXCEPT !.to = [w \in DOMAIN e.to \ {u} |-> e.to[w]]]
           left == {Without(e) : e \in {x \in DOMAIN money : Kept(x)}} IN
       money' = [e \in left |-> SumFunctionOnSet(money, {x \in DOMAIN money : Kept(x) /\ Without(x) = e})]
    /\ Continues(u, NoRequest)
    /\ UNCHANGED <<active, late>>

SplitNext ==
    \/ \E u \in Users :
         \/ \E amount \in Prices :
              \/ \E ids \in SetToAllKPermutations(members) : ids # <<>> /\ AskEqually(u, amount, ids)
              \/ \E to \in Users : AskSettlement(u, to, amount)
              \/ \E S \in SUBSET members : \E shares \in [S -> 1..amount] : AskShares(u, amount, shares)
         \/ StartInsert(u) \/ Post(u) \/ Invite(u) \/ ArchiveGroup(u) \/ DeleteAccount(u)
         \/ \E w \in Users : AskInvitation(u, w) \/ RemoveMember(u, w)
         \/ \E k \in Slots : AcceptInvitation(u, k) \/ DeclineInvitation(u, k) \/ RevokeInvitation(u, k)

SplitSpec == SplitInit /\ [][SplitNext]_splitVars

-----------------------------------------------------------------------------
(* Properties *)

\* Every variable keeps its type; at most one invitation of an invitee is pending.
SplitTypeOK ==
    /\ accounts \subseteq Users /\ members \subseteq accounts /\ late \subseteq Users
    /\ active \in BOOLEAN
    /\ invitations \in [Slots -> [invitee : Users, status : Statuses]]
    /\ \A k \in Slots : invitations[k] = NoInvitation \/ invitations[k].invitee \in accounts \ {Creator}
    /\ \A u \in Users, j, k \in Slots : j \in Pending(u) /\ k \in Pending(u) => j = k
    /\ \A e \in DOMAIN money : /\ e.from \in accounts /\ DOMAIN e.to \subseteq accounts
                               /\ e.amount \in Prices /\ \A u \in DOMAIN e.to : e.to[u] \in 1..e.amount
    /\ \A u \in Users : request[u].pc \in {"idle", "write", "waits", "invite"}

\* 038: "membership is granted only after invitee consent": who is in the group and did not open it
\* has accepted one invitation, which stays accepted exactly as long, through every order of
\* invitations, decisions, departures and archiving.
ConsentedMembers ==
    \A u \in accounts \ {Creator} :
        IF u \in members THEN \E k \in Slots : InvitationsOf(u, "accepted") = {k}
                         ELSE InvitationsOf(u, "accepted") = {}

\* 039: nobody leaves with a balance, and nobody gets one after he has left, other than by a settlement
\* that was waiting for the group when he was removed; while no account has been deleted.
LeftIsSettled ==
    accounts = Users => \A u \in Users \ (members \cup late) : Net(u) = 0

\* splitEqually and suggestSettlements: equal shares lose nothing, the balances of the group add up to
\* zero, and the payments that are suggested bring everyone to zero, in fewer payments than users;
\* while no account has been deleted.
SuggestionsSettle ==
    accounts = Users =>
        LET suggested == SuggestSettlements(Balances)
            paid == {k \in DOMAIN suggested : suggested[k].amount > 0}
            Of(u, k) == (IF suggested[k].from = u THEN suggested[k].amount ELSE 0)
                        - (IF suggested[k].to = u THEN suggested[k].amount ELSE 0) IN
        /\ paid = DOMAIN suggested /\ Len(suggested) < Cardinality(Users)
        /\ \A u \in Users : Net(u) + SumFunction([k \in DOMAIN suggested |-> Of(u, k)]) = 0

\* split.ts: "the numbers reconcile to zero across a group".
SumsToZero == SumFunction(Balances) = 0

=============================================================================
