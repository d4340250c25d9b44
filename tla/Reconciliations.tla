--------------------------- MODULE Reconciliations ---------------------------
(***************************************************************************)
(* What an account held on a past day, and the user's claims about it.     *)
(* The bank gives one balance, the present one; a claim is compared with   *)
(* that balance less what has been posted since.  The balance and the      *)
(* transactions are written by a sync in separate transactions, and read   *)
(* by a claim in separate transactions too.                                *)
(***************************************************************************)
EXTENDS Integers, FiniteSets, Functions

CONSTANTS
    Entries,    \* transactions of the account at the bank
    Claimants,  \* requests in progress
    Postings,   \* amounts of a transaction
    MaxDay      \* bound: days

ASSUME ReconciliationsAssumption == IsFiniteSet(Entries) /\ Postings \subseteq Int /\ MaxDay \in Nat

Days == 0..MaxDay
Missing == [day |-> 0, amount |-> 0, pending |-> TRUE]
NoClaim == [day |-> -1]
Latest == [fetched |-> FALSE]

VARIABLES
    today,
    bank,     \* the account at the bank
    balance,  \* accounts.balance_current
    booked,   \* transactions of the account
    page,     \* what the sync has fetched and not yet written
    claim,    \* what each request has read
    live      \* account_reconciliations that are not archived, by statement_date

reconciliationsVars == <<today, bank, balance, booked, page, claim, live>>

PostedOn(book, S) == {e \in Entries : ~ book[e].pending /\ book[e].day \in S}
Posted(book, S) == SumFunctionOnSet([e \in Entries |-> book[e].amount], PostedOn(book, S))
\* The balance and the transactions are of the same moment.
Agree == balance = Posted(booked, Days)
\* Who has read the balance and not yet the transactions is overtaken by what is written.
Overtaken == [c \in Claimants |-> IF claim[c] = NoClaim THEN NoClaim ELSE [claim[c] EXCEPT !.clean = FALSE]]

ReconciliationsInit ==
    /\ today = 0
    /\ bank = [e \in Entries |-> Missing]
    /\ balance = 0
    /\ booked = bank
    /\ page = Latest
    /\ claim = [c \in Claimants |-> NoClaim]
    /\ live = [d \in Days |-> NoClaim]

-----------------------------------------------------------------------------
(* The bank and its synchronisation *)

\* The bank holds an amount, and posts it, at once or on a later day, for an amount that may differ.
BankEnters(e, amount, pending) ==
    /\ bank[e].pending
    /\ bank' = [bank EXCEPT ![e] = [day |-> today, amount |-> amount, pending |-> pending]]
    /\ UNCHANGED <<today, balance, booked, page, claim, live>>

NextDay ==
    /\ today < MaxDay
    /\ today' = today + 1
    /\ UNCHANGED <<bank, balance, booked, page, claim, live>>

\* A page has some of what has changed, and the balance that the bank has now; the balance is written
\* first.  What the bank enters while the page is on its way is as if it came after this step.
UpsertAccounts(S) ==
    /\ page = Latest
    /\ S \subseteq {e \in Entries : booked[e] # bank[e]}
    /\ balance' = Posted(bank, Days)
    /\ page' = [fetched |-> TRUE, rows |-> [e \in S |-> bank[e]]]
    /\ claim' = Overtaken
    /\ UNCHANGED <<today, bank, booked, live>>

UpsertTransactions ==
    /\ page.fetched
    /\ booked' = [e \in Entries |-> IF e \in DOMAIN page.rows THEN page.rows[e] ELSE booked[e]]
    /\ page' = Latest
    /\ claim' = Overtaken
    /\ UNCHANGED <<today, bank, balance, live>>

SyncFails ==
    /\ page.fetched
    /\ page' = Latest
    /\ UNCHANGED <<today, bank, balance, booked, claim, live>>

-----------------------------------------------------------------------------
(* Claims *)

\* requireAccount: the balance, then the checks of what is claimed.
RequireAccount(c, day) ==
    /\ claim[c] = NoClaim /\ day <= today
    /\ claim' = [claim EXCEPT ![c] = [day |-> day, balance |-> balance, clean |-> Agree]]
    /\ UNCHANGED <<today, bank, balance, booked, page, live>>

\* Mutant: what was posted on the day itself is taken off as well.
BalanceBefore(read, book, asOf) == read - Posted(book, asOf..MaxDay)

\* computeBalanceAsOf: less what was posted strictly later; what is pending was never in the balance.
BalanceAsOf(read, book, asOf) == read - Posted(book, (asOf + 1)..MaxDay)

\* create: the transactions, and what they make of the balance, is written as the live claim of that
\* day; the one there was is archived with it.
Create(c) ==
    LET own == claim[c] IN
    /\ own # NoClaim
    /\ live' = [live EXCEPT ![own.day] = [clean |-> own.clean, posted |-> Posted(booked, 0..own.day),
                                        computed |-> BalanceAsOf(own.balance, booked, own.day)]]
    /\ claim' = [claim EXCEPT ![c] = NoClaim]
    /\ UNCHANGED <<today, bank, balance, booked, page>>

\* preview records nothing, a refused or lost request neither.
Drop(c) ==
    /\ claim[c] # NoClaim
    /\ claim' = [claim EXCEPT ![c] = NoClaim]
    /\ UNCHANGED <<today, bank, balance, booked, page, live>>

ArchiveClaim(d) ==
    /\ live[d] # NoClaim
    /\ live' = [live EXCEPT ![d] = NoClaim]
    /\ UNCHANGED <<today, bank, balance, booked, page, claim>>

ReconciliationsNext ==
    \/ \E e \in Entries, amount \in Postings, pending \in BOOLEAN : BankEnters(e, amount, pending)
    \/ NextDay
    \/ \E S \in SUBSET Entries : UpsertAccounts(S)
    \/ UpsertTransactions \/ SyncFails
    \/ \E c \in Claimants : Create(c) \/ Drop(c) \/ \E d \in Days : RequireAccount(c, d)
    \/ \E d \in Days : ArchiveClaim(d)

ReconciliationsSpec == ReconciliationsInit /\ [][ReconciliationsNext]_reconciliationsVars

-----------------------------------------------------------------------------
(* Properties *)

\* balance.ts: what a claim is compared with, and stays compared with for ever, is what had been
\* posted up to its day, whatever is pending, posted later or posted for another amount; unless a
\* sync was between the balance and the transactions when they were read.
ReconciledIsPosted == \A d \in Days : live[d] # NoClaim /\ live[d].clean => live[d].computed = live[d].posted

\* Between syncs the balance is the sum of the transactions: a sync whose pages have all been written
\* has left nothing between the two, however many pages and failures there were.
SyncedAgrees == page = Latest /\ booked = bank => Agree

=============================================================================
