------------------------------- MODULE Billing -------------------------------
(***************************************************************************)
(* One user's subscription: checkouts, and the webhooks of a provider that *)
(* sends every event at least once, in any order and to several handlers.  *)
(* One await of billing.service.ts is one step.                            *)
(*                                                                         *)
(* Time counts billing periods, the day of grace left out.  The provider   *)
(* is external: it does whatever Stripe may do with a subscription.        *)
(***************************************************************************)
EXTENDS Naturals, FiniteSets

CONSTANTS
    Handlers,      \* requests served at the same time
    Subs,          \* subscriptions at the provider
    NoSub,         \* provider_subscription_id IS NULL
    NoEnd,         \* current_period_end IS NULL
    MaxCustomers,  \* bound: customer handles
    MaxEvents,     \* bound: events the provider sends
    MaxPeriod,     \* bound: billing periods
    Faults         \* whether requests die and provider calls fail

ASSUME BillingAssumption ==
    /\ NoSub \notin Subs /\ NoEnd \notin Nat
    /\ {MaxCustomers, MaxEvents, MaxPeriod} \subseteq Nat
    /\ Faults \in BOOLEAN

Customers == 1..MaxCustomers
Periods == 0..MaxPeriod
Ends == Periods \cup {NoEnd}
Statuses == {"incomplete", "active", "past_due", "unpaid", "paused", "canceled"}
Entitling == {"active", "past_due"}

VARIABLES
    subscription,  \* the user's row of subscriptions; customer 0 when there is none
    provider,      \* what the provider knows of each subscription; customer 0 before it is bought
    handles,       \* customers created so far
    offered,       \* customers with an open checkout page
    sent,          \* events the provider has sent, numbered by their id
    claimed,       \* billing_events
    period,        \* the current billing period
    handler        \* what each request is doing

billingVars == <<subscription, provider, handles, offered, sent, claimed, period, handler>>
world == <<provider, offered, sent, period>>
database == <<subscription, claimed>>

-----------------------------------------------------------------------------
(* Rows, events and requests *)

Row == [customer : 0..MaxCustomers, sub : Subs \cup {NoSub}, status : Statuses, paid : Ends]
State == [customer : 0..MaxCustomers, status : Statuses, paid : Ends]
Message == [customer : Customers, sub : Subs \cup {NoSub}, status : Statuses, paid : Ends]
HandlerPc == {"idle", "find", "get", "fetch", "store", "customer", "save", "offer"}

NoRow == [customer |-> 0, sub |-> NoSub, status |-> "incomplete", paid |-> NoEnd]
NoMessage == NoRow
IdleHandler == [pc |-> "idle", event |-> 0, read |-> NoRow, overtaken |-> FALSE, unsure |-> FALSE]

Sent == {e \in 1..MaxEvents : sent[e].customer # 0}
AtPc(h, pc) == handler[h].pc = pc
Turns(h, q) == handler' = [handler EXCEPT ![h] = q]
Moves(h, pc) == Turns(h, [handler[h] EXCEPT !.pc = pc])

\* Mutant: an active row is good whatever its period.
EntitledByStatus(r) == r.customer # 0 /\ r.status \in Entitling

\* effectivePlan on a row: fails closed on a status that entitles nothing and on a lapsed period;
\* a period the provider left out does not lapse.
EntitledBy(r) == r.customer # 0 /\ r.status \in Entitling /\ (r.paid = NoEnd \/ r.paid >= period)
Entitled == EntitledBy(subscription)

\* Whoever else is to write what it read or fetched works from older facts now.
Overtaken(q) == IF q.pc \in {"customer", "save", "store"} THEN [q EXCEPT !.overtaken = TRUE] ELSE q

\* upsert by h, which turns to q.
Upserts(h, r, q) ==
    /\ subscription' = r
    /\ handler' = [g \in Handlers |-> IF g = h THEN q ELSE Overtaken(handler[g])]

BillingInit ==
    /\ subscription = NoRow
    /\ provider = [s \in Subs |-> [customer |-> 0, status |-> "incomplete", paid |-> NoEnd]]
    /\ handles = 0
    /\ offered = {}
    /\ sent = [e \in 1..MaxEvents |-> NoMessage]
    /\ claimed = {}
    /\ period = 0
    /\ handler = [h \in Handlers |-> IdleHandler]

-----------------------------------------------------------------------------
(* The provider *)

\* Events are numbered in the order they happen; the order of delivery is free.
Send(messages) ==
    LET n == Cardinality(Sent)
        k == Cardinality(DOMAIN messages) IN
    /\ n + k <= MaxEvents
    /\ sent' = [e \in 1..MaxEvents |-> IF e \in (n + 1)..(n + k) THEN messages[e - n] ELSE sent[e]]

Told(s, q) == [customer |-> q.customer, sub |-> s, status |-> q.status, paid |-> q.paid]

\* The user pays on the hosted page: checkout.session.completed names no subscription.  What the
\* provider reports may leave the end of the period out.
Pays(c, s, paid) ==
    LET bought == [customer |-> c, status |-> "active", paid |-> paid] IN
    /\ paid \in {period, NoEnd}
    /\ c \in offered
    /\ provider[s].customer = 0
    /\ provider' = [provider EXCEPT ![s] = bought]
    /\ offered' = offered \ {c}
    /\ Send(<<Told(s, bought), [Told(s, bought) EXCEPT !.sub = NoSub]>>)
    /\ UNCHANGED <<handles, period, handler>> /\ UNCHANGED database

\* Renewal, a failed charge, the end of dunning, a pause, cancellation for good.
Changes(s, status, paid) ==
    LET q == [provider[s] EXCEPT !.status = status, !.paid = paid] IN
    /\ paid \in {NoEnd, IF status \in Entitling THEN period ELSE provider[s].paid}
    /\ provider[s].customer # 0
    /\ q # provider[s]
    /\ <<provider[s].status, status>> \in
         (Entitling \X {"active", "past_due", "paused", "canceled"}) \cup
         {<<"past_due", "unpaid">>} \cup ({"unpaid", "paused"} \X {"active", "canceled"})
    /\ provider' = [provider EXCEPT ![s] = q]
    /\ Send(<<Told(s, q)>>)
    /\ UNCHANGED <<handles, offered, period, handler>> /\ UNCHANGED database

PeriodEnds ==
    /\ period < MaxPeriod
    /\ period' = period + 1
    /\ UNCHANGED <<provider, handles, offered, sent, handler>> /\ UNCHANGED database

-----------------------------------------------------------------------------
(* createCheckoutSession *)

StartCheckout(h) ==
    /\ AtPc(h, "idle")
    /\ ~ Entitled
    /\ Turns(h, [IdleHandler EXCEPT !.pc = "customer", !.read = subscription])
    /\ UNCHANGED <<handles>> /\ UNCHANGED world /\ UNCHANGED database

\* ensureCustomer: the handle that was read, or a new one when there is none or asking fails.
EnsureCustomer(h) ==
    /\ AtPc(h, "customer")
    /\ \/ /\ handler[h].read.customer # 0
          /\ Moves(h, "save")
          /\ UNCHANGED handles
       \/ /\ handler[h].read.customer = 0 \/ Faults
          /\ handles < MaxCustomers
          /\ handles' = handles + 1
          /\ Turns(h, [handler[h] EXCEPT !.pc = "save", !.read.customer = handles + 1])
    /\ UNCHANGED world /\ UNCHANGED database

\* The whole row is written back as it was read, with the customer.
SaveCustomer(h) ==
    /\ AtPc(h, "save")
    /\ Upserts(h, handler[h].read,
               [IdleHandler EXCEPT !.pc = "offer", !.read.customer = handler[h].read.customer])
    /\ UNCHANGED <<handles, claimed>> /\ UNCHANGED world

OfferCheckout(h) ==
    /\ AtPc(h, "offer")
    /\ offered' = offered \cup {handler[h].read.customer}
    /\ Turns(h, IdleHandler)
    /\ UNCHANGED <<provider, handles, sent, period>> /\ UNCHANGED database

-----------------------------------------------------------------------------
(* applyEvent *)

\* The insert is the lock; a delivery that comes second is answered as a duplicate.
ClaimEvent(h, e) ==
    /\ AtPc(h, "idle")
    /\ e \in Sent \ claimed
    /\ claimed' = claimed \cup {e}
    /\ Turns(h, [IdleHandler EXCEPT !.pc = "find", !.event = e])
    /\ UNCHANGED <<subscription, handles>> /\ UNCHANGED world

\* findUserByCustomerId: an unknown customer's event is skipped, and stays claimed.
FindUser(h) ==
    /\ AtPc(h, "find")
    /\ IF subscription.customer = sent[handler[h].event].customer
       THEN Moves(h, "get") ELSE Turns(h, IdleHandler)
    /\ UNCHANGED handles /\ UNCHANGED world /\ UNCHANGED database

\* The event's own subscription, or the one the row names.
GetRow(h) ==
    LET named == sent[handler[h].event].sub
        s == IF named # NoSub THEN named ELSE subscription.sub IN
    /\ AtPc(h, "get")
    /\ IF s = NoSub THEN Turns(h, IdleHandler)
       ELSE Turns(h, [handler[h] EXCEPT !.pc = "fetch", !.read.sub = s])
    /\ UNCHANGED handles /\ UNCHANGED world /\ UNCHANGED database

Outcome(h, q) ==
    [customer |-> sent[handler[h].event].customer, sub |-> handler[h].read.sub,
     status |-> q.status, paid |-> q.paid]

\* Mutant: the payload is taken at its word.
FetchNothing(h) ==
    LET e == sent[handler[h].event] IN
    /\ AtPc(h, "fetch")
    /\ Turns(h, [IdleHandler EXCEPT !.pc = "store",
                    !.read = Outcome(h, IF e.sub # NoSub THEN e ELSE provider[handler[h].read.sub])])
    /\ UNCHANGED handles /\ UNCHANGED world /\ UNCHANGED database

\* The provider's answer, or the payload when there is none.
FetchState(h) ==
    LET e == sent[handler[h].event] IN
    /\ AtPc(h, "fetch")
    /\ \/ Turns(h, [IdleHandler EXCEPT !.pc = "store", !.read = Outcome(h, provider[handler[h].read.sub])])
       \/ /\ Faults
          /\ IF e.sub = NoSub THEN Turns(h, IdleHandler)
             ELSE Turns(h, [IdleHandler EXCEPT !.pc = "store", !.unsure = TRUE, !.read = Outcome(h, e)])
    /\ UNCHANGED handles /\ UNCHANGED world /\ UNCHANGED database

Persist(h) ==
    /\ AtPc(h, "store")
    /\ Upserts(h, handler[h].read, IdleHandler)
    /\ UNCHANGED <<handles, claimed>> /\ UNCHANGED world

\* The request dies, or a statement fails: what was claimed stays claimed.
RequestDies(h) ==
    /\ Faults
    /\ ~ AtPc(h, "idle")
    /\ Turns(h, IdleHandler)
    /\ UNCHANGED handles /\ UNCHANGED world /\ UNCHANGED database

BillingNext ==
    \/ \E s \in Subs, paid \in Ends : \/ \E c \in Customers : Pays(c, s, paid)
                                     \/ \E status \in Statuses : Changes(s, status, paid)
    \/ PeriodEnds
    \/ \E h \in Handlers :
         \/ StartCheckout(h) \/ EnsureCustomer(h) \/ SaveCustomer(h) \/ OfferCheckout(h)
         \/ \E e \in 1..MaxEvents : ClaimEvent(h, e)
         \/ FindUser(h) \/ GetRow(h) \/ FetchState(h) \/ Persist(h)
         \/ RequestDies(h)

BillingSpec == BillingInit /\ [][BillingNext]_billingVars

-----------------------------------------------------------------------------
(* Properties *)

\* Every variable keeps its type: the columns, the provider's facts and the requests' locals.
BillingTypeOK ==
    /\ subscription \in Row
    /\ provider \in [Subs -> State]
    /\ handles \in 0..MaxCustomers
    /\ offered \subseteq Customers
    /\ sent \in [1..MaxEvents -> Message \cup {NoMessage}]
    /\ claimed \subseteq 1..MaxEvents
    /\ period \in Periods
    /\ handler \in [Handlers -> [pc : HandlerPc, event : 0..MaxEvents, read : Row,
                                 overtaken : BOOLEAN, unsure : BOOLEAN]]

\* effectivePlan grants what the provider granted: whatever is lost, late, doubled, reordered or
\* written back from an old read, the row that entitles states what the provider once told of the very
\* subscription it names, either paid up to a period that is not over, or without an end at all.
EntitledWasGranted ==
    Entitled => \E e \in Sent :
        /\ sent[e].sub = subscription.sub /\ sent[e].status = subscription.status
        /\ sent[e].paid = subscription.paid
        /\ sent[e].paid # NoEnd => sent[e].paid >= period

\* A stale event does not bring a cancelled subscription back; only the payload of a failed read
\* can, or a request whose facts another one has overtaken.
CanceledStays ==
    [][/\ subscription.status = "canceled"
       /\ subscription'.sub = subscription.sub
       => \/ subscription'.status = "canceled"
          \/ \E h \in Handlers : /\ handler[h].pc \in {"store", "save"}
                                 /\ handler[h].overtaken \/ handler[h].unsure]_billingVars

=============================================================================
