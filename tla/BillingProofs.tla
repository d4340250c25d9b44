---------------------------- MODULE BillingProofs ----------------------------
(***************************************************************************)
(* Proofs about Billing for any number of requests, subscriptions, events  *)
(* and periods.                                                            *)
(***************************************************************************)
EXTENDS Billing, Sequences, FiniteSetTheorems, TLAPS

\* The events that were sent come first.
FirstSent == Sent = 1..Cardinality(Sent)

\* Facts that entitle are facts the provider told of that subscription.
Granted(f) ==
    f.status \in Entitling =>
        \E e \in Sent : sent[e].sub = f.sub /\ sent[e].status = f.status /\ sent[e].paid = f.paid

\* What EntitledWasGranted needs to be inductive: wherever facts about a subscription are on their way,
\* the row, a request that has read them and the provider itself included, they were told.
GrantedInv ==
    /\ Granted(subscription)
    /\ \A h \in Handlers : Granted(handler[h].read)
    /\ \A s \in Subs : Granted(Told(s, provider[s]))

\* A request that applies an event has one the provider sent, and knows its subscription by the time
\* it asks for it, the one the event names if it names one; until then it has read no plan.  One that
\* offers a checkout has a customer to offer it to.
Applies(q) ==
    /\ q.pc \in {"find", "get", "fetch"} => q.event \in Sent /\ q.read.status \notin Entitling
    /\ q.pc = "fetch" => q.read.sub \in Subs /\ sent[q.event].sub \in {NoSub, q.read.sub}
    /\ q.pc \in {"save", "offer"} => q.read.customer # 0
AppliesInv == \A h \in Handlers : Applies(handler[h])

IInv == BillingTypeOK /\ FirstSent /\ GrantedInv /\ AppliesInv

-----------------------------------------------------------------------------
(* Types *)

\* The provider's messages are appended to what it has sent before; nothing sent is taken back.
LEMMA SendAppends ==
  ASSUME BillingTypeOK, NEW messages \in Seq(Message), Send(messages)
  PROVE  /\ sent' \in [1..MaxEvents -> Message \cup {NoMessage}]
         /\ \A e \in 1..MaxEvents : \/ sent'[e] = sent[e]
                                    \/ \E i \in DOMAIN messages : sent'[e] = messages[i]
<1>1. MaxEvents \in Nat
  BY BillingAssumption
<1>2. Cardinality(Sent) \in Nat
  <2>1. IsFiniteSet(1..MaxEvents)
    BY <1>1, FS_Interval
  <2>2. IsFiniteSet(Sent)
    BY <2>1, FS_Subset DEF Sent
  <2> QED
    BY <2>2, FS_CardinalityType
<1>3. Len(messages) \in Nat /\ DOMAIN messages = 1..Len(messages)
  OBVIOUS
<1>4. Cardinality(DOMAIN messages) = Len(messages)
  <2>1. Cardinality(1..Len(messages)) = IF 1 > Len(messages) THEN 0 ELSE Len(messages) - 1 + 1
    BY <1>3, FS_Interval
  <2> QED
    BY <1>3, <2>1
<1> DEFINE n == Cardinality(Sent)
           k == Len(messages)
<1>5. sent' = [e \in 1..MaxEvents |-> IF e \in (n + 1)..(n + k) THEN messages[e - n] ELSE sent[e]]
  BY <1>4 DEF Send
<1>6. ASSUME NEW e \in 1..MaxEvents, e \in (n + 1)..(n + k)
      PROVE  e - n \in DOMAIN messages /\ messages[e - n] \in Message
  BY <1>1, <1>2, <1>3, <1>6
<1>7. \A e \in 1..MaxEvents : sent[e] \in Message \cup {NoMessage}
  BY DEF BillingTypeOK
<1> HIDE DEF n, k
<1> QED
  BY <1>5, <1>6, <1>7

\* A message about a subscription is a message.
LEMMA ToldTypes ==
  ASSUME NEW s \in Subs, NEW q \in State, q.customer # 0
  PROVE  Told(s, q) \in Message /\ [Told(s, q) EXCEPT !.sub = NoSub] \in Message
<1>1. q.customer \in Customers
  BY BillingAssumption DEF State, Customers
<1> QED
  BY <1>1 DEF Told, Message, State

\* The types of what the requests and the facts they carry are made of.
LEMMA FactTypes ==
  ASSUME BillingTypeOK
  PROVE  /\ NoRow \in Row /\ NoMessage.customer = 0
         /\ \A h \in Handlers : handler[h].read \in Row /\ handler[h].event \in 0..MaxEvents
         /\ \A s \in Subs : provider[s] \in State
         /\ period \in Nat /\ MaxCustomers \in Nat /\ MaxEvents \in Nat /\ MaxPeriod \in Nat
  BY BillingAssumption DEF BillingTypeOK, NoRow, NoMessage, Row, Statuses, Periods, Ends

Request == [pc : HandlerPc, event : 0..MaxEvents, read : Row, overtaken : BOOLEAN, unsure : BOOLEAN]

\* Whatever a request turns to, it stays a request, and only its own entry changes.
LEMMA TurnTypes ==
  ASSUME BillingTypeOK, NEW h \in Handlers
  PROVE  /\ IdleHandler \in Request
         /\ \A q \in Request : Turns(h, q) => handler' \in [Handlers -> Request]
         /\ \A pc \in HandlerPc : Moves(h, pc) => handler' \in [Handlers -> Request]
         /\ \A r, q : q \in Request /\ Upserts(h, r, q) => handler' \in [Handlers -> Request]
<1>1. handler \in [Handlers -> Request]
  BY DEF BillingTypeOK, Request
<1>2. IdleHandler \in Request
  BY FactTypes DEF IdleHandler, Request, HandlerPc
<1>3. ASSUME NEW q \in Request, Turns(h, q)
      PROVE  handler' \in [Handlers -> Request]
  BY <1>1, <1>3 DEF Turns
<1>4. ASSUME NEW pc \in HandlerPc, Moves(h, pc)
      PROVE  handler' \in [Handlers -> Request]
  <2>1. [handler[h] EXCEPT !.pc = pc] \in Request
    BY <1>1, <1>4 DEF Request
  <2> QED
    BY <1>4, <1>3, <2>1 DEF Moves
<1>5. ASSUME NEW r, NEW q \in Request, Upserts(h, r, q)
      PROVE  handler' \in [Handlers -> Request]
  <2>1. \A g \in Handlers : Overtaken(handler[g]) \in Request
    BY <1>1 DEF Request, Overtaken
  <2> QED
    BY <1>5, <2>1 DEF Upserts
<1> QED
  BY <1>2, <1>3, <1>4, <1>5

\* Fields of what a request turns to.
LEMMA TurnFields ==
  ASSUME BillingTypeOK, NEW h \in Handlers
  PROVE  /\ \A pc : LET q == [handler[h] EXCEPT !.pc = pc] IN
              q.pc = pc /\ q.event = handler[h].event /\ q.read = handler[h].read
         /\ \A s : LET q == [handler[h] EXCEPT !.pc = "fetch", !.read.sub = s] IN
              /\ q.pc = "fetch" /\ q.event = handler[h].event /\ q.read.sub = s
              /\ q.read.status = handler[h].read.status /\ q.read.paid = handler[h].read.paid
         /\ \A n : LET q == [handler[h] EXCEPT !.pc = "save", !.read.customer = n] IN
              /\ q.pc = "save" /\ q.event = handler[h].event /\ q.read.customer = n
              /\ q.read.sub = handler[h].read.sub /\ q.read.status = handler[h].read.status /\ q.read.paid = handler[h].read.paid
         /\ IdleHandler.pc = "idle" /\ IdleHandler.read = NoRow
<1>1. handler[h] \in Request /\ handler[h].read \in Row
  BY DEF BillingTypeOK, Request
<1>2. ASSUME NEW pc
      PROVE  LET q == [handler[h] EXCEPT !.pc = pc] IN
              q.pc = pc /\ q.event = handler[h].event /\ q.read = handler[h].read
  BY <1>1 DEF Request
<1>3. ASSUME NEW s
      PROVE  LET q == [handler[h] EXCEPT !.pc = "fetch", !.read.sub = s] IN
              /\ q.pc = "fetch" /\ q.event = handler[h].event /\ q.read.sub = s
              /\ q.read.status = handler[h].read.status /\ q.read.paid = handler[h].read.paid
  BY <1>1 DEF Request, Row
<1>4. ASSUME NEW n
      PROVE  LET q == [handler[h] EXCEPT !.pc = "save", !.read.customer = n] IN
              /\ q.pc = "save" /\ q.event = handler[h].event /\ q.read.customer = n
              /\ q.read.sub = handler[h].read.sub /\ q.read.status = handler[h].read.status /\ q.read.paid = handler[h].read.paid
  BY <1>1 DEF Request, Row
<1> QED
  BY <1>2, <1>3, <1>4 DEF IdleHandler

\* What a subscription turns into at the provider is a state of a subscription.
LEMMA OutcomeTypes ==
  ASSUME BillingTypeOK, NEW h \in Handlers, handler[h].event \in 1..MaxEvents,
         sent[handler[h].event] \in Message, handler[h].read.sub \in Subs,
         NEW q \in State \cup Message
  PROVE  Outcome(h, q) \in Row
  BY DEF Outcome, State, Message, Row, Customers

\* A sent event is a message.
LEMMA SentTypes ==
  ASSUME BillingTypeOK, NEW e \in Sent
  PROVE  e \in 1..MaxEvents /\ sent[e] \in Message
  BY FactTypes DEF BillingTypeOK, Sent

\* Every step keeps the types.
LEMMA StepTypes ==
  ASSUME BillingTypeOK, AppliesInv, [BillingNext]_billingVars
  PROVE  BillingTypeOK'
<1> USE FactTypes
<1>1. CASE UNCHANGED billingVars
  BY <1>1 DEF billingVars, BillingTypeOK
<1>2. ASSUME NEW s \in Subs, NEW c \in Customers, NEW paid \in Ends, Pays(c, s, paid)
      PROVE  BillingTypeOK'
  <2> DEFINE bought == [customer |-> c, status |-> "active", paid |-> paid]
  <2>1. bought \in State /\ bought.customer # 0
    BY DEF State, Statuses, Customers, BillingTypeOK
  <2>2. <<Told(s, bought), [Told(s, bought) EXCEPT !.sub = NoSub]>> \in Seq(Message)
    BY <2>1, ToldTypes
  <2>3. Send(<<Told(s, bought), [Told(s, bought) EXCEPT !.sub = NoSub]>>)
    BY <1>2 DEF Pays
  <2>4. sent' \in [1..MaxEvents -> Message \cup {NoMessage}]
    BY <2>2, <2>3, SendAppends
  <2>5. provider' \in [Subs -> State]
    BY <1>2, <2>1 DEF Pays, BillingTypeOK
  <2> QED
    BY <1>2, <2>4, <2>5 DEF Pays, BillingTypeOK, database
<1>3. ASSUME NEW s \in Subs, NEW status \in Statuses, NEW paid \in Ends, Changes(s, status, paid)
      PROVE  BillingTypeOK'
  <2> DEFINE q == [provider[s] EXCEPT !.status = status, !.paid = paid]
  <2>1. q \in State /\ q.customer # 0
    BY <1>3 DEF Changes, State, BillingTypeOK
  <2>3. Send(<<Told(s, q)>>) /\ provider' = [provider EXCEPT ![s] = q]
    BY <1>3 DEF Changes
  <2> HIDE DEF q
  <2>6. Told(s, q) \in Message
    BY <2>1, ToldTypes
  <2>2. <<Told(s, q)>> \in Seq(Message)
    BY <2>6
  <2>4. sent' \in [1..MaxEvents -> Message \cup {NoMessage}]
    BY <2>2, <2>3, SendAppends
  <2>5. provider' \in [Subs -> State]
    BY <2>1, <2>3 DEF BillingTypeOK
  <2> QED
    BY <1>3, <2>4, <2>5 DEF Changes, BillingTypeOK, database
<1>4. CASE PeriodEnds
  BY <1>4 DEF PeriodEnds, BillingTypeOK, Periods, database
<1>5. ASSUME NEW h \in Handlers, StartCheckout(h)
      PROVE  BillingTypeOK'
  <2>1. [IdleHandler EXCEPT !.pc = "customer", !.read = subscription] \in Request
    BY TurnTypes DEF Request, HandlerPc, BillingTypeOK
  <2>2. handler' \in [Handlers -> Request]
    BY <1>5, <2>1, TurnTypes DEF StartCheckout
  <2> QED
    BY <1>5, <2>2 DEF StartCheckout, BillingTypeOK, world, database, Request
<1>6. ASSUME NEW h \in Handlers, EnsureCustomer(h)
      PROVE  BillingTypeOK'
  <2>1. handler' \in [Handlers -> Request] /\ handles' \in 0..MaxCustomers
    <3>1. CASE handler[h].read.customer # 0 /\ Moves(h, "save") /\ UNCHANGED handles
      BY <3>1, TurnTypes DEF HandlerPc, BillingTypeOK
    <3>2. CASE /\ handles < MaxCustomers
               /\ handles' = handles + 1
               /\ Turns(h, [handler[h] EXCEPT !.pc = "save", !.read.customer = handles + 1])
      <4>1. handles + 1 \in 0..MaxCustomers
        BY <3>2 DEF BillingTypeOK
      <4>2. [handler[h].read EXCEPT !.customer = handles + 1] \in Row
        BY <4>1 DEF Row
      <4>3. \A q \in Request, r \in Row : [q EXCEPT !.pc = "save", !.read = r] \in Request
        BY DEF Request, HandlerPc
      <4>4. [handler[h] EXCEPT !.pc = "save", !.read.customer = handles + 1]
              = [handler[h] EXCEPT !.pc = "save",
                 !.read = [handler[h].read EXCEPT !.customer = handles + 1]]
        BY DEF BillingTypeOK
      <4>5. handler[h] \in Request
        BY DEF BillingTypeOK, Request
      <4> QED
        BY <3>2, <4>1, <4>2, <4>3, <4>4, <4>5, TurnTypes
    <3> QED
      BY <1>6, <3>1, <3>2 DEF EnsureCustomer
  <2> QED
    BY <1>6, <2>1 DEF EnsureCustomer, BillingTypeOK, world, database, Request
<1>7. ASSUME NEW h \in Handlers, SaveCustomer(h)
      PROVE  BillingTypeOK'
  <2> DEFINE q == [IdleHandler EXCEPT !.pc = "offer", !.read.customer = handler[h].read.customer]
  <2>1. q \in Request
    <3>1. \A r \in Row : [IdleHandler EXCEPT !.pc = "offer", !.read = r] \in Request
      BY TurnTypes DEF Request, HandlerPc
    <3>2. [NoRow EXCEPT !.customer = handler[h].read.customer] \in Row
      BY DEF Row
    <3>3. q = [IdleHandler EXCEPT !.pc = "offer", !.read = [NoRow EXCEPT !.customer = handler[h].read.customer]]
      BY DEF IdleHandler
    <3> QED
      BY <3>1, <3>2, <3>3
  <2>4. Upserts(h, handler[h].read, q)
    BY <1>7 DEF SaveCustomer
  <2> HIDE DEF q
  <2>2. handler' \in [Handlers -> Request]
    BY <2>1, <2>4, TurnTypes
  <2>3. subscription' \in Row
    BY <2>4 DEF Upserts
  <2> QED
    BY <1>7, <2>2, <2>3 DEF SaveCustomer, BillingTypeOK, world, Request
<1>8. ASSUME NEW h \in Handlers, OfferCheckout(h)
      PROVE  BillingTypeOK'
  <2>1. handler' \in [Handlers -> Request]
    BY <1>8, TurnTypes DEF OfferCheckout
  <2>2. handler[h].pc = "offer"
    BY <1>8 DEF OfferCheckout, AtPc
  <2>4. handler[h].read.customer \in Customers
    BY <2>2 DEF AppliesInv, Applies, Row, Customers
  <2>3. offered' \subseteq Customers
    BY <1>8, <2>4 DEF OfferCheckout, BillingTypeOK
  <2> QED
    BY <1>8, <2>1, <2>3 DEF OfferCheckout, BillingTypeOK, database, Request
<1>9. ASSUME NEW h \in Handlers, NEW e \in 1..MaxEvents, ClaimEvent(h, e)
      PROVE  BillingTypeOK'
  <2>3. \A q \in Request, i \in 0..MaxEvents : [q EXCEPT !.pc = "find", !.event = i] \in Request
    BY DEF Request, HandlerPc
  <2>1. [IdleHandler EXCEPT !.pc = "find", !.event = e] \in Request
    <3>1. e \in 0..MaxEvents /\ IdleHandler \in Request
      BY TurnTypes
    <3> HIDE DEF Request
    <3> QED
      BY <2>3, <3>1
  <2>2. handler' \in [Handlers -> Request]
    BY <1>9, <2>1, TurnTypes DEF ClaimEvent
  <2> QED
    BY <1>9, <2>2 DEF ClaimEvent, BillingTypeOK, world, Request
<1>10. ASSUME NEW h \in Handlers, FindUser(h)
       PROVE  BillingTypeOK'
  <2>1. handler' \in [Handlers -> Request]
    BY <1>10, TurnTypes DEF FindUser, HandlerPc
  <2> QED
    BY <1>10, <2>1 DEF FindUser, BillingTypeOK, world, database, Request
<1>11. ASSUME NEW h \in Handlers, GetRow(h)
       PROVE  BillingTypeOK'
  <2>1. handler[h].event \in Sent
    BY <1>11 DEF GetRow, AtPc, AppliesInv, Applies
  <2>2. sent[handler[h].event].sub \in Subs \cup {NoSub} /\ subscription.sub \in Subs \cup {NoSub}
    BY <2>1, SentTypes DEF Message, BillingTypeOK, Row
  <2>3. \A s \in Subs : [handler[h] EXCEPT !.pc = "fetch", !.read.sub = s] \in Request
    <3>1. ASSUME NEW s \in Subs
          PROVE  [handler[h].read EXCEPT !.sub = s] \in Row
      BY DEF Row
    <3>2. \A q \in Request, r \in Row : [q EXCEPT !.pc = "fetch", !.read = r] \in Request
      BY DEF Request, HandlerPc
    <3>3. ASSUME NEW s \in Subs
          PROVE  [handler[h] EXCEPT !.pc = "fetch", !.read.sub = s]
                   = [handler[h] EXCEPT !.pc = "fetch", !.read = [handler[h].read EXCEPT !.sub = s]]
      BY DEF BillingTypeOK
    <3>4. handler[h] \in Request
      BY DEF BillingTypeOK, Request
    <3> QED
      BY <3>1, <3>2, <3>3, <3>4
  <2>4. handler' \in [Handlers -> Request]
    BY <1>11, <2>2, <2>3, TurnTypes DEF GetRow
  <2> QED
    BY <1>11, <2>4 DEF GetRow, BillingTypeOK, world, database, Request
<1>12. ASSUME NEW h \in Handlers, FetchState(h)
       PROVE  BillingTypeOK'
  <2>1. handler[h].event \in Sent /\ handler[h].read.sub \in Subs
    BY <1>12 DEF FetchState, AtPc, AppliesInv, Applies
  <2>2. \A q \in State \cup Message : Outcome(h, q) \in Row
    BY <2>1, SentTypes, OutcomeTypes
  <2>3. Outcome(h, provider[handler[h].read.sub]) \in Row /\ Outcome(h, sent[handler[h].event]) \in Row
    BY <2>1, <2>2, SentTypes
  <2>4. \A r \in Row : /\ [IdleHandler EXCEPT !.pc = "store", !.read = r] \in Request
                        /\ [IdleHandler EXCEPT !.pc = "store", !.unsure = TRUE, !.read = r] \in Request
    BY TurnTypes DEF Request, HandlerPc
  <2>5. handler' \in [Handlers -> Request]
    BY <1>12, <2>3, <2>4, TurnTypes DEF FetchState
  <2> QED
    BY <1>12, <2>5 DEF FetchState, BillingTypeOK, world, database, Request
<1>13. ASSUME NEW h \in Handlers, Persist(h)
       PROVE  BillingTypeOK'
  <2>1. handler' \in [Handlers -> Request]
    BY <1>13, TurnTypes DEF Persist
  <2>2. subscription' \in Row
    BY <1>13 DEF Persist, Upserts
  <2> QED
    BY <1>13, <2>1, <2>2 DEF Persist, BillingTypeOK, world, Request
<1>14. ASSUME NEW h \in Handlers, RequestDies(h)
       PROVE  BillingTypeOK'
  <2>1. handler' \in [Handlers -> Request]
    BY <1>14, TurnTypes DEF RequestDies
  <2> QED
    BY <1>14, <2>1 DEF RequestDies, BillingTypeOK, world, database, Request
<1> QED
  BY <1>1, <1>2, <1>3, <1>4, <1>5, <1>6, <1>7, <1>8, <1>9, <1>10, <1>11, <1>12, <1>13, <1>14 DEF BillingNext

-----------------------------------------------------------------------------
(* What was sent *)

\* What was sent is not sent over, and what is sent now comes next.
LEMMA SentStays ==
  ASSUME BillingTypeOK, FirstSent, NEW messages \in Seq(Message), Send(messages)
  PROVE  /\ FirstSent'
         /\ \A e \in Sent : e \in Sent' /\ sent'[e] = sent[e]
         /\ \A i \in DOMAIN messages : \E e \in Sent' : sent'[e] = messages[i]
<1>1. PICK n \in Nat : Sent = 1..n /\ n = Cardinality(Sent)
  <2>1. IsFiniteSet(1..MaxEvents)
    BY BillingAssumption, FS_Interval
  <2>2. Cardinality(Sent) \in Nat
    BY <2>1, FS_Subset, FS_CardinalityType DEF Sent
  <2> QED
    BY <2>2 DEF FirstSent
<1>2. Cardinality(Sent) = n
  BY <1>1
<1>3. Len(messages) \in Nat /\ DOMAIN messages = 1..Len(messages) /\ MaxEvents \in Nat
  BY BillingAssumption
<1>4. Cardinality(DOMAIN messages) = Len(messages)
  <2>1. Cardinality(1..Len(messages)) = IF 1 > Len(messages) THEN 0 ELSE Len(messages) - 1 + 1
    BY <1>3, FS_Interval
  <2> QED
    BY <1>3, <2>1
<1> DEFINE k == Len(messages)
<1>5. /\ n + k <= MaxEvents
      /\ sent' = [e \in 1..MaxEvents |-> IF e \in (n + 1)..(n + k) THEN messages[e - n] ELSE sent[e]]
  BY <1>2, <1>4 DEF Send
<1>6. ASSUME NEW e \in (n + 1)..(n + k)  PROVE messages[e - n].customer # 0
  <2>1. e - n \in DOMAIN messages
    BY <1>3, <1>6
  <2>2. messages[e - n] \in Message
    BY <2>1
  <2> QED
    BY <2>2 DEF Message, Customers
<1> HIDE DEF k
<1>7. k \in Nat
  BY <1>3 DEF k
<1>8. \A e \in 1..MaxEvents : e \in Sent' <=> e \in 1..(n + k)
  <2> TAKE e \in 1..MaxEvents
  <2>1. CASE e \in (n + 1)..(n + k)
    BY <1>3, <1>5, <1>6, <1>7, <2>1 DEF Sent
  <2>2. CASE e \notin (n + 1)..(n + k)
    <3>1. e \in Sent' <=> e \in Sent
      BY <1>3, <1>5, <2>2 DEF Sent
    <3> QED
      BY <1>1, <1>3, <1>7, <2>2, <3>1
  <2> QED
    BY <2>1, <2>2
<1>9. Sent' = 1..(n + k)
  <2>1. Sent' \subseteq 1..MaxEvents /\ 1..(n + k) \subseteq 1..MaxEvents
    BY <1>3, <1>5, <1>7 DEF Sent
  <2> QED
    BY <1>8, <2>1
<1>10. n + k \in Nat
  BY <1>7
<1>11. \A e \in Sent : sent'[e] = sent[e]
  <2>1. \A e \in 1..n : e \in 1..MaxEvents /\ e \notin (n + 1)..(n + k)
    BY <1>3, <1>5, <1>7
  <2> QED
    BY <1>1, <1>5, <2>1
<1>12. ASSUME NEW m \in Nat  PROVE Cardinality(1..m) = m
  <2>1. Cardinality(1..m) = IF 1 > m THEN 0 ELSE m - 1 + 1
    BY FS_Interval
  <2> QED
    BY <2>1
<1>13. Cardinality(1..(n + k)) = n + k
  BY <1>10, <1>12
<1>14. \A e \in Sent : e \in Sent'
  BY <1>1, <1>7, <1>9
<1>15. ASSUME NEW i \in DOMAIN messages
       PROVE  \E e \in Sent' : sent'[e] = messages[i]
  <2>1. i \in 1..k /\ n + i \in (n + 1)..(n + k) /\ n + i \in 1..MaxEvents /\ (n + i) - n = i
    BY <1>3, <1>5, <1>7 DEF k
  <2>2. sent'[n + i] = messages[i]
    BY <1>5, <2>1
  <2>3. n + i \in Sent'
    BY <1>7, <1>9, <2>1
  <2> QED
    BY <2>2, <2>3
<1> QED
  BY <1>9, <1>11, <1>13, <1>14, <1>15 DEF FirstSent

\* Whatever the provider does with a subscription, it tells first what the subscription is now.
LEMMA ProviderTells ==
  ASSUME BillingTypeOK, NEW s \in Subs, NEW paid \in Ends,
         \/ \E c \in Customers : Pays(c, s, paid)
         \/ \E status \in Statuses : Changes(s, status, paid)
  PROVE  \E q \in State, messages \in Seq(Message) :
            /\ provider' = [provider EXCEPT ![s] = q]
            /\ Send(messages) /\ 1 \in DOMAIN messages /\ messages[1] = Told(s, q)
            /\ UNCHANGED <<subscription, handler>>
<1> USE FactTypes
<1>1. ASSUME NEW c \in Customers, Pays(c, s, paid)
      PROVE  \E q \in State, messages \in Seq(Message) :
                /\ provider' = [provider EXCEPT ![s] = q]
                /\ Send(messages) /\ 1 \in DOMAIN messages /\ messages[1] = Told(s, q)
                /\ UNCHANGED <<subscription, handler>>
  <2> DEFINE bought == [customer |-> c, status |-> "active", paid |-> paid]
             messages == <<Told(s, bought), [Told(s, bought) EXCEPT !.sub = NoSub]>>
  <2>1. bought \in State /\ bought.customer # 0
    BY DEF State, Statuses, Customers, BillingTypeOK
  <2>2. messages \in Seq(Message)
    BY <2>1, ToldTypes
  <2>3. 1 \in DOMAIN messages /\ messages[1] = Told(s, bought)
    OBVIOUS
  <2>4. /\ provider' = [provider EXCEPT ![s] = bought]
        /\ Send(messages) /\ UNCHANGED <<subscription, handler>>
    BY <1>1 DEF Pays, database
  <2> HIDE DEF bought, messages
  <2> QED
    BY <2>1, <2>2, <2>3, <2>4
<1>2. ASSUME NEW status \in Statuses, Changes(s, status, paid)
      PROVE  \E q \in State, messages \in Seq(Message) :
                /\ provider' = [provider EXCEPT ![s] = q]
                /\ Send(messages) /\ 1 \in DOMAIN messages /\ messages[1] = Told(s, q)
                /\ UNCHANGED <<subscription, handler>>
  <2> DEFINE q == [provider[s] EXCEPT !.status = status, !.paid = paid]
             messages == <<Told(s, q)>>
  <2>1. q \in State /\ q.customer # 0
    BY <1>2 DEF Changes, State, BillingTypeOK
  <2>4. /\ provider' = [provider EXCEPT ![s] = q]
        /\ Send(messages) /\ UNCHANGED <<subscription, handler>>
    BY <1>2 DEF Changes, database
  <2> HIDE DEF q
  <2>2. Told(s, q) \in Message
    BY <2>1, ToldTypes
  <2>3. messages \in Seq(Message) /\ 1 \in DOMAIN messages /\ messages[1] = Told(s, q)
    BY <2>2
  <2> HIDE DEF messages
  <2> QED
    BY <2>1, <2>3, <2>4
<1> QED
  BY <1>1, <1>2

\* Every step keeps what was sent where it is.
LEMMA StepSent ==
  ASSUME BillingTypeOK, FirstSent, [BillingNext]_billingVars
  PROVE  FirstSent' /\ \A e \in Sent : e \in Sent' /\ sent'[e] = sent[e]
<1>1. CASE UNCHANGED sent
  BY <1>1 DEF FirstSent, Sent
<1>2. ASSUME NEW s \in Subs, NEW paid \in Ends,
             \/ \E c \in Customers : Pays(c, s, paid)
             \/ \E status \in Statuses : Changes(s, status, paid)
      PROVE  FirstSent' /\ \A e \in Sent : e \in Sent' /\ sent'[e] = sent[e]
  <2>1. PICK messages \in Seq(Message) : Send(messages)
    BY <1>2, ProviderTells
  <2> QED
    BY <2>1, SentStays
<1> QED
  BY <1>1, <1>2 DEF BillingNext, billingVars, world, PeriodEnds, StartCheckout, EnsureCustomer,
     SaveCustomer, OfferCheckout, ClaimEvent, FindUser, GetRow, FetchState, Persist, RequestDies

-----------------------------------------------------------------------------
(* What entitles was told *)

\* Every step keeps what entitles told.
LEMMA StepGranted ==
  ASSUME IInv, [BillingNext]_billingVars
  PROVE  GrantedInv'
<1> USE DEF IInv
<1>1. \A f : Granted(f) => Granted(f)'
  BY StepSent DEF Granted
<1>2. Granted(NoRow)
  BY DEF Granted, NoRow, Entitling
<1>3. ASSUME NEW f, NEW g, g.sub = f.sub, g.status = f.status, g.paid = f.paid, Granted(f)
      PROVE  Granted(g)
  BY <1>3 DEF Granted
\* Steps that leave the provider alone: it is enough that what is written or read was told.
<1>4. ASSUME UNCHANGED provider, Granted(subscription'), \A h \in Handlers : Granted(handler'[h].read)
      PROVE  GrantedInv'
  <2>1. \A s \in Subs : Granted(Told(s, provider'[s]))
    BY <1>4 DEF GrantedInv
  <2> QED
    BY <1>1, <1>4, <2>1 DEF GrantedInv, Granted
\* One request turns, to facts that were told.
<1>5. ASSUME NEW h \in Handlers, NEW q, Turns(h, q), UNCHANGED <<provider, subscription>>, Granted(q.read)
      PROVE  GrantedInv'
  <2>1. \A g \in Handlers : handler'[g] = IF g = h THEN q ELSE handler[g]
    BY <1>5 DEF Turns, BillingTypeOK
  <2>2. \A g \in Handlers : Granted(handler'[g].read)
    BY <1>5, <2>1 DEF GrantedInv
  <2>3. Granted(subscription')
    BY <1>5 DEF GrantedInv
  <2> QED
    BY <1>4, <1>5, <2>2, <2>3
\* One request writes what it read.
<1>6. ASSUME NEW h \in Handlers, NEW q, Upserts(h, handler[h].read, q), UNCHANGED provider, Granted(q.read)
      PROVE  GrantedInv'
  <2>1. ASSUME NEW g \in Handlers
        PROVE  Overtaken(handler[g]).read = handler[g].read
    BY DEF Overtaken, BillingTypeOK
  <2>2. \A g \in Handlers : Granted(handler'[g].read)
    <3> TAKE g \in Handlers
    <3>1. handler'[g] = IF g = h THEN q ELSE Overtaken(handler[g])
      BY <1>6 DEF Upserts
    <3>2. handler'[g].read = IF g = h THEN q.read ELSE handler[g].read
      BY <2>1, <3>1
    <3> QED
      BY <1>6, <3>2 DEF GrantedInv
  <2>3. Granted(subscription')
    BY <1>6 DEF GrantedInv, Upserts
  <2> QED
    BY <1>4, <1>6, <2>2, <2>3
<1>7. CASE UNCHANGED billingVars
  BY <1>4, <1>7 DEF billingVars, GrantedInv
<1>8. ASSUME NEW s \in Subs, NEW paid \in Ends,
             \/ \E c \in Customers : Pays(c, s, paid)
             \/ \E status \in Statuses : Changes(s, status, paid)
      PROVE  GrantedInv'
  <2>1. PICK q \in State, messages \in Seq(Message) :
            /\ provider' = [provider EXCEPT ![s] = q]
            /\ Send(messages) /\ 1 \in DOMAIN messages /\ messages[1] = Told(s, q)
            /\ UNCHANGED <<subscription, handler>>
    BY <1>8, ProviderTells
  <2>2. PICK e \in Sent' : sent'[e] = Told(s, q)
    BY <2>1, SentStays
  <2>3. Granted(Told(s, q))'
    BY <2>2 DEF Granted, Told
  <2>4. ASSUME NEW z \in Subs
        PROVE  Granted(Told(z, provider[z]))'
    <3>1. CASE z = s
      <4>1. provider'[s] = q
        BY <2>1 DEF BillingTypeOK
      <4> QED
        BY <2>3, <3>1, <4>1 DEF Granted, Told
    <3>2. CASE z # s
      <4>1. provider'[z] = provider[z]
        BY <2>1, <3>2 DEF BillingTypeOK
      <4>2. Granted(Told(z, provider[z]))
        BY DEF GrantedInv
      <4> QED
        BY <1>1, <4>1, <4>2 DEF Granted, Told
    <3> QED
      BY <3>1, <3>2
  <2>5. Granted(subscription)' /\ \A h \in Handlers : Granted(handler[h].read)'
    BY <1>1, <2>1 DEF GrantedInv, Granted
  <2> QED
    BY <2>4, <2>5 DEF GrantedInv
<1>9. CASE PeriodEnds
  BY <1>4, <1>9 DEF PeriodEnds, database, GrantedInv
<1>10. ASSUME NEW h \in Handlers, StartCheckout(h)
       PROVE  GrantedInv'
  <2> DEFINE q == [IdleHandler EXCEPT !.pc = "customer", !.read = subscription]
  <2>1. q.read = subscription
    BY DEF IdleHandler
  <2>2. Turns(h, q) /\ UNCHANGED <<provider, subscription>>
    BY <1>10 DEF StartCheckout, world, database
  <2> HIDE DEF q
  <2> QED
    BY <1>5, <2>1, <2>2 DEF GrantedInv
<1>11. ASSUME NEW h \in Handlers, EnsureCustomer(h)
       PROVE  GrantedInv'
  <2> DEFINE q == [handler[h] EXCEPT !.pc = "save"]
             r == [handler[h] EXCEPT !.pc = "save", !.read.customer = handles + 1]
  <2>1. /\ q.read = handler[h].read
        /\ r.read.sub = handler[h].read.sub /\ r.read.status = handler[h].read.status
        /\ r.read.paid = handler[h].read.paid
    BY ONLY TurnFields, IInv, h \in Handlers DEF IInv
  <2>2. (Turns(h, q) \/ Turns(h, r)) /\ UNCHANGED <<provider, subscription>>
    BY <1>11 DEF EnsureCustomer, Moves, world, database
  <2> HIDE DEF q, r
  <2>3. Granted(q.read) /\ Granted(r.read)
    BY <2>1 DEF GrantedInv, Granted
  <2> QED
    BY <1>5, <2>2, <2>3
<1>12. ASSUME NEW h \in Handlers, SaveCustomer(h)
       PROVE  GrantedInv'
  <2> DEFINE q == [IdleHandler EXCEPT !.pc = "offer", !.read.customer = handler[h].read.customer]
  <2>1. q.read.status = "incomplete"
    BY DEF IdleHandler, NoRow
  <2>2. Upserts(h, handler[h].read, q) /\ UNCHANGED provider
    BY <1>12 DEF SaveCustomer, world
  <2> HIDE DEF q
  <2>3. Granted(q.read)
    BY <2>1 DEF Granted, Entitling
  <2> QED
    BY <1>6, <2>2, <2>3
<1>13. ASSUME NEW h \in Handlers, \/ OfferCheckout(h) \/ FindUser(h) \/ RequestDies(h)
                                   \/ \E e \in 1..MaxEvents : ClaimEvent(h, e)
       PROVE  GrantedInv'
  <2> DEFINE q == [handler[h] EXCEPT !.pc = "get"]
             r(e) == [IdleHandler EXCEPT !.pc = "find", !.event = e]
  <2>1. q.read = handler[h].read /\ IdleHandler.read = NoRow
    BY TurnFields
  <2>2. \A e : r(e).read = NoRow
    BY DEF IdleHandler
  <2>3. /\ Turns(h, IdleHandler) \/ Turns(h, q) \/ \E e : Turns(h, r(e))
        /\ UNCHANGED <<provider, subscription>>
    BY <1>13 DEF OfferCheckout, FindUser, RequestDies, ClaimEvent, Moves, world, database
  <2> HIDE DEF q, r
  <2> QED
    BY <1>2, <1>5, <2>1, <2>2, <2>3 DEF GrantedInv
<1>14. ASSUME NEW h \in Handlers, GetRow(h)
       PROVE  GrantedInv'
  <2> DEFINE q(s) == [handler[h] EXCEPT !.pc = "fetch", !.read.sub = s]
  <2>1. IdleHandler.read = NoRow
    BY TurnFields
  <2>2. \A s : q(s).read.status = handler[h].read.status
    BY TurnFields
  <2>3. (Turns(h, IdleHandler) \/ \E s : Turns(h, q(s))) /\ UNCHANGED <<provider, subscription>>
    BY <1>14 DEF GetRow, world, database
  <2>4. handler[h].read.status \notin Entitling
    BY <1>14 DEF GetRow, AtPc, AppliesInv, Applies
  <2> HIDE DEF q
  <2>5. \A s : Granted(q(s).read)
    BY <2>2, <2>4 DEF Granted
  <2> QED
    BY <1>2, <1>5, <2>1, <2>3, <2>5
<1>15. ASSUME NEW h \in Handlers, FetchState(h)
       PROVE  GrantedInv'
  <2> DEFINE e == sent[handler[h].event]
             s == handler[h].read.sub
             fresh == [IdleHandler EXCEPT !.pc = "store", !.read = Outcome(h, provider[s])]
             told == [IdleHandler EXCEPT !.pc = "store", !.unsure = TRUE, !.read = Outcome(h, e)]
  <2>1. /\ handler[h].event \in Sent /\ s \in Subs /\ e.sub \in {NoSub, s}
        /\ UNCHANGED <<provider, subscription>>
    BY <1>15 DEF FetchState, AtPc, AppliesInv, Applies, world, database
  <2>2. fresh.read = Outcome(h, provider[s]) /\ told.read = Outcome(h, e) /\ IdleHandler.read = NoRow
    BY DEF IdleHandler
  <2>3. \/ Turns(h, fresh) \/ Turns(h, IdleHandler)
        \/ e.sub # NoSub /\ Turns(h, told)
    BY <1>15 DEF FetchState
  <2>4. \A f : Outcome(h, f).sub = s /\ Outcome(h, f).status = f.status /\ Outcome(h, f).paid = f.paid
    BY DEF Outcome
  <2>5. Granted(Outcome(h, provider[s]))
    <3>1. Granted(Told(s, provider[s]))
      BY <2>1 DEF GrantedInv
    <3> HIDE DEF s
    <3> QED
      BY <2>4, <3>1 DEF Granted, Told
  <2>6. e.sub # NoSub => Granted(Outcome(h, e))
    BY <2>1, <2>4 DEF Granted
  <2> HIDE DEF fresh, told, e, s
  <2> QED
    BY <1>2, <1>5, <2>1, <2>2, <2>3, <2>5, <2>6
<1>16. ASSUME NEW h \in Handlers, Persist(h)
       PROVE  GrantedInv'
  <2>1. Upserts(h, handler[h].read, IdleHandler) /\ UNCHANGED provider /\ IdleHandler.read = NoRow
    BY <1>16 DEF Persist, world, IdleHandler
  <2> QED
    BY <1>2, <1>6, <2>1
<1> QED
  BY <1>7, <1>8, <1>9, <1>10, <1>11, <1>12, <1>13, <1>14, <1>15, <1>16 DEF BillingNext

\* Every step keeps the events that are applied sent, and the checkouts with their customers.
LEMMA StepApplies ==
  ASSUME IInv, [BillingNext]_billingVars
  PROVE  AppliesInv'
<1> USE FactTypes DEF IInv
<1>1. \A e \in Sent : e \in Sent' /\ sent'[e] = sent[e]
  BY StepSent
<1>2. \A q : Applies(q) => Applies(q)'
  BY <1>1 DEF Applies
<1>3. \A q : q.pc \in {"idle", "customer", "store"} => Applies(q)
  BY DEF Applies
<1>4. ASSUME NEW h \in Handlers, NEW q, Turns(h, q), Applies(q)
      PROVE  AppliesInv'
  BY <1>2, <1>4 DEF Turns, AppliesInv, BillingTypeOK
<1>5. ASSUME UNCHANGED handler
      PROVE  AppliesInv'
  BY <1>2, <1>5 DEF AppliesInv
<1>6. Applies(IdleHandler)
  BY <1>3 DEF IdleHandler
<1>7. ASSUME NEW h \in Handlers, OfferCheckout(h) \/ RequestDies(h)
      PROVE  AppliesInv'
  BY <1>4, <1>6, <1>7 DEF OfferCheckout, RequestDies
<1>8. ASSUME NEW h \in Handlers, StartCheckout(h)
      PROVE  AppliesInv'
  <2> DEFINE q == [IdleHandler EXCEPT !.pc = "customer", !.read = subscription]
  <2>1. q.pc = "customer"
    BY DEF IdleHandler
  <2>2. Turns(h, q)
    BY <1>8 DEF StartCheckout
  <2> HIDE DEF q
  <2> QED
    BY <1>3, <1>4, <2>1, <2>2
<1>9. ASSUME NEW h \in Handlers, EnsureCustomer(h)
      PROVE  AppliesInv'
  <2> DEFINE q == [handler[h] EXCEPT !.pc = "save"]
             r(n) == [handler[h] EXCEPT !.pc = "save", !.read.customer = n]
  <2>1. q.pc = "save" /\ q.read = handler[h].read
    BY ONLY TurnFields, IInv, h \in Handlers DEF IInv
  <2>2. \A n : r(n).pc = "save" /\ r(n).read.customer = n
    BY ONLY TurnFields, IInv, h \in Handlers DEF IInv
  <2>3. handles + 1 # 0
    BY DEF BillingTypeOK
  <2>4. \/ Turns(h, q) /\ handler[h].read.customer # 0
        \/ Turns(h, r(handles + 1))
    BY <1>9 DEF EnsureCustomer, Moves
  <2> HIDE DEF q, r
  <2> QED
    BY <1>4, <2>1, <2>2, <2>3, <2>4 DEF Applies
<1>10. ASSUME NEW h \in Handlers, NEW q, Upserts(h, handler[h].read, q), Applies(q)
       PROVE  AppliesInv'
  <2> DEFINE r(g) == Overtaken(handler[g])
  <2>1. \A g \in Handlers : /\ r(g).pc = handler[g].pc /\ r(g).event = handler[g].event
                            /\ r(g).read = handler[g].read
    BY DEF BillingTypeOK, Overtaken
  <2>2. handler' = [g \in Handlers |-> IF g = h THEN q ELSE r(g)]
    BY <1>10 DEF Upserts
  <2> HIDE DEF r
  <2>3. \A g \in Handlers : Applies(r(g))
    BY <2>1 DEF AppliesInv, Applies
  <2> QED
    BY <1>2, <1>10, <2>2, <2>3 DEF AppliesInv
<1>11. ASSUME NEW h \in Handlers, NEW e \in 1..MaxEvents, ClaimEvent(h, e)
       PROVE  AppliesInv'
  <2> DEFINE q == [IdleHandler EXCEPT !.pc = "find", !.event = e]
  <2>1. q.pc = "find" /\ q.event = e /\ q.read = NoRow
    BY DEF IdleHandler
  <2>2. Turns(h, q) /\ e \in Sent
    BY <1>11 DEF ClaimEvent
  <2> HIDE DEF q
  <2> QED
    BY <1>4, <2>1, <2>2 DEF Applies, NoRow, Entitling
<1>12. ASSUME NEW h \in Handlers, FindUser(h)
       PROVE  AppliesInv'
  <2> DEFINE q == [handler[h] EXCEPT !.pc = "get"]
  <2>1. q.pc = "get" /\ q.event = handler[h].event /\ q.read = handler[h].read
    BY ONLY TurnFields, IInv, h \in Handlers DEF IInv
  <2>2. Turns(h, q) \/ Turns(h, IdleHandler)
    BY <1>12 DEF FindUser, Moves
  <2>3. handler[h].event \in Sent /\ handler[h].read.status \notin Entitling
    BY <1>12 DEF FindUser, AtPc, AppliesInv, Applies
  <2> HIDE DEF q
  <2> QED
    BY <1>4, <1>6, <2>1, <2>2, <2>3 DEF Applies
<1>13. ASSUME NEW h \in Handlers, GetRow(h)
       PROVE  AppliesInv'
  <2> DEFINE named == sent[handler[h].event].sub
             s == IF named # NoSub THEN named ELSE subscription.sub
             q(z) == [handler[h] EXCEPT !.pc = "fetch", !.read.sub = z]
  <2>1. handler[h].event \in Sent /\ handler[h].read.status \notin Entitling
    BY <1>13 DEF GetRow, AtPc, AppliesInv, Applies
  <2>2. sent[handler[h].event].sub \in Subs \cup {NoSub} /\ subscription.sub \in Subs \cup {NoSub}
    BY <2>1, SentTypes DEF Message, BillingTypeOK, Row
  <2>3. \A z : /\ q(z).pc = "fetch" /\ q(z).event = handler[h].event /\ q(z).read.sub = z
               /\ q(z).read.status = handler[h].read.status
    BY ONLY TurnFields, IInv, h \in Handlers DEF IInv
  <2>4. s \in Subs \cup {NoSub} /\ named \in {NoSub, s}
    BY <2>2
  <2>5. IF s = NoSub THEN Turns(h, IdleHandler) ELSE Turns(h, q(s))
    BY <1>13 DEF GetRow
  <2> HIDE DEF s, q
  <2> QED
    BY <1>4, <1>6, <2>1, <2>3, <2>4, <2>5 DEF Applies
<1>14. ASSUME NEW h \in Handlers, FetchState(h)
       PROVE  AppliesInv'
  <2> DEFINE fresh == [IdleHandler EXCEPT !.pc = "store", !.read = Outcome(h, provider[handler[h].read.sub])]
             told == [IdleHandler EXCEPT !.pc = "store", !.unsure = TRUE,
                         !.read = Outcome(h, sent[handler[h].event])]
  <2>1. fresh.pc = "store" /\ told.pc = "store"
    BY DEF IdleHandler
  <2>2. Turns(h, fresh) \/ Turns(h, told) \/ Turns(h, IdleHandler)
    BY <1>14 DEF FetchState
  <2> HIDE DEF fresh, told
  <2> QED
    BY <1>3, <1>4, <1>6, <2>1, <2>2
<1>15. ASSUME NEW h \in Handlers, SaveCustomer(h) \/ Persist(h)
       PROVE  AppliesInv'
  <2> DEFINE q == [IdleHandler EXCEPT !.pc = "offer", !.read.customer = handler[h].read.customer]
  <2>1. q.pc = "offer" /\ q.read.customer = handler[h].read.customer
    BY DEF IdleHandler, NoRow
  <2>2. \/ Upserts(h, handler[h].read, IdleHandler)
        \/ Upserts(h, handler[h].read, q) /\ handler[h].pc = "save"
    BY <1>15 DEF Persist, SaveCustomer, AtPc
  <2> HIDE DEF q
  <2>3. handler[h].pc = "save" => Applies(q)
    BY <2>1 DEF AppliesInv, Applies
  <2> QED
    BY <1>6, <1>10, <2>2, <2>3
<1> QED
  BY <1>5, <1>7, <1>8, <1>9, <1>11, <1>12, <1>13, <1>14, <1>15 DEF BillingNext, billingVars,
     Pays, Changes, PeriodEnds

-----------------------------------------------------------------------------
(* The theorems *)

LEMMA Inductive == BillingSpec => []IInv
<1>1. BillingInit => IInv
  <2> SUFFICES ASSUME BillingInit
               PROVE  IInv
    OBVIOUS
  <2>1. BillingTypeOK
    BY FactTypes, BillingAssumption DEF BillingInit, BillingTypeOK, NoRow, NoMessage, IdleHandler, Row,
       State, Statuses, Periods, Ends, HandlerPc
  <2>2. FirstSent
    <3>1. Sent = {}
      BY DEF BillingInit, Sent, NoMessage, NoRow
    <3>2. Cardinality(Sent) = 0
      BY <3>1, FS_EmptySet
    <3> QED
      BY <3>1, <3>2 DEF FirstSent
  <2>3. GrantedInv /\ AppliesInv
    BY DEF BillingInit, GrantedInv, AppliesInv, Applies, Granted, Told, NoRow, IdleHandler, Entitling
  <2> QED
    BY <2>1, <2>2, <2>3 DEF IInv
<1>2. IInv /\ [BillingNext]_billingVars => IInv'
  BY StepTypes, StepSent, StepGranted, StepApplies DEF IInv
<1> QED
  BY <1>1, <1>2, PTL DEF BillingSpec

\* Type correctness: whatever the provider, the requests and the failures do, the rows, the events and
\* the requests' locals keep their types.
THEOREM BillingTypeCorrect == BillingSpec => []BillingTypeOK
<1>1. IInv => BillingTypeOK
  BY DEF IInv
<1> QED
  BY <1>1, Inductive, PTL

\* Who is entitled was granted it: effectivePlan grants a plan only on what the provider told of the
\* very subscription the row names, paid up to a period that is not over or without an end, for any
\* number of requests, events, failures and write-backs of old reads.
THEOREM EntitledMeansGranted == BillingSpec => []EntitledWasGranted
<1>1. IInv => EntitledWasGranted
  <2> SUFFICES ASSUME IInv, Entitled
               PROVE  \E e \in Sent :
                         /\ sent[e].sub = subscription.sub /\ sent[e].status = subscription.status
                         /\ sent[e].paid = subscription.paid
                         /\ sent[e].paid # NoEnd => sent[e].paid >= period
    BY DEF EntitledWasGranted
  <2>1. subscription.status \in Entitling /\ (subscription.paid = NoEnd \/ subscription.paid >= period)
    BY DEF Entitled, EntitledBy
  <2>2. PICK e \in Sent : /\ sent[e].sub = subscription.sub /\ sent[e].status = subscription.status
                          /\ sent[e].paid = subscription.paid
    BY <2>1 DEF IInv, GrantedInv, Granted
  <2> QED
    BY <2>1, <2>2
<1> QED
  BY <1>1, Inductive, PTL

-----------------------------------------------------------------------------
(* What is cancelled stays cancelled *)

\* Facts that tell of a cancellation tell of one that happened: the provider never takes it back.
Ended(f) == f.status = "canceled" => f.sub \in Subs /\ provider[f.sub].status = "canceled"

\* What a request has read is as final as it was then.  Unless another one has overtaken it, a checkout still
\* has the row's own status, and an answer of the provider knows of the cancellation that the row has.
Reads(q) ==
    /\ Ended(q.read)
    /\ q.pc \in {"find", "get", "fetch"} => q.read.status # "canceled"
    /\ q.pc \in {"customer", "save"} /\ ~ q.overtaken =>
          q.read.sub = subscription.sub /\ q.read.status = subscription.status
    /\ q.pc = "store" /\ ~ q.overtaken /\ ~ q.unsure =>
          (subscription.status = "canceled" /\ q.read.sub = subscription.sub => q.read.status = "canceled")

CanceledInv ==
    /\ Ended(subscription)
    /\ \A e \in 1..MaxEvents : Ended(sent[e])
    /\ \A s \in Subs : provider[s].customer = 0 => provider[s].status # "canceled"
    /\ \A h \in Handlers : Reads(handler[h])

\* The provider never takes a cancellation back, and cancels only what it has sold.
LEMMA CanceledIsFinal ==
  ASSUME IInv, CanceledInv, [BillingNext]_billingVars
  PROVE  \A s \in Subs : /\ provider[s].status = "canceled" => provider'[s].status = "canceled"
                         /\ provider'[s].customer = 0 => provider'[s].status # "canceled"
<1> USE DEF IInv
<1>1. CASE UNCHANGED provider
  BY <1>1 DEF CanceledInv
<1>2. ASSUME NEW s \in Subs, NEW c \in Customers, NEW paid \in Ends, Pays(c, s, paid)
      PROVE  \A z \in Subs : /\ provider[z].status = "canceled" => provider'[z].status = "canceled"
                             /\ provider'[z].customer = 0 => provider'[z].status # "canceled"
  <2>1. /\ provider' = [provider EXCEPT ![s] = [customer |-> c, status |-> "active", paid |-> paid]]
        /\ provider[s].customer = 0 /\ c # 0
    BY <1>2 DEF Pays, Customers
  <2> QED
    BY <2>1 DEF CanceledInv, BillingTypeOK
<1>3. ASSUME NEW s \in Subs, NEW status \in Statuses, NEW paid \in Ends, Changes(s, status, paid)
      PROVE  \A z \in Subs : /\ provider[z].status = "canceled" => provider'[z].status = "canceled"
                             /\ provider'[z].customer = 0 => provider'[z].status # "canceled"
  <2> DEFINE q == [provider[s] EXCEPT !.status = status, !.paid = paid]
  <2>1. q.customer = provider[s].customer
    BY DEF BillingTypeOK, State
  <2>2. provider' = [provider EXCEPT ![s] = q] /\ provider[s].customer # 0
    BY <1>3 DEF Changes
  <2>3. provider[s].status # "canceled"
    BY <1>3 DEF Changes, Entitling
  <2> HIDE DEF q
  <2> QED
    BY <2>1, <2>2, <2>3 DEF CanceledInv, BillingTypeOK
<1> QED
  BY <1>1, <1>2, <1>3 DEF BillingNext, billingVars, world, PeriodEnds, StartCheckout, EnsureCustomer,
     SaveCustomer, OfferCheckout, ClaimEvent, FindUser, GetRow, FetchState, Persist, RequestDies

\* Further fields of what a request turns to.
LEMMA TurnMarks ==
  ASSUME BillingTypeOK, NEW h \in Handlers
  PROVE  /\ \A pc : LET q == [handler[h] EXCEPT !.pc = pc] IN q.overtaken = handler[h].overtaken
         /\ \A n : LET q == [handler[h] EXCEPT !.pc = "save", !.read.customer = n] IN
              q.overtaken = handler[h].overtaken /\ q.read.sub = handler[h].read.sub
         /\ LET q == Overtaken(handler[h]) IN
              /\ q.pc = handler[h].pc /\ q.event = handler[h].event /\ q.read = handler[h].read
              /\ q.pc \in {"customer", "save", "store"} => q.overtaken
<1>1. handler[h] \in Request /\ handler[h].read \in Row
  BY DEF BillingTypeOK, Request
<1>2. ASSUME NEW pc
      PROVE  LET q == [handler[h] EXCEPT !.pc = pc] IN q.overtaken = handler[h].overtaken
  BY <1>1 DEF Request
<1>3. ASSUME NEW n
      PROVE  LET q == [handler[h] EXCEPT !.pc = "save", !.read.customer = n] IN
              q.overtaken = handler[h].overtaken /\ q.read.sub = handler[h].read.sub
  BY <1>1 DEF Request, Row
<1>4. LET q == Overtaken(handler[h]) IN
              /\ q.pc = handler[h].pc /\ q.event = handler[h].event /\ q.read = handler[h].read
              /\ q.pc \in {"customer", "save", "store"} => q.overtaken
  BY <1>1 DEF Request, Overtaken
<1> QED
  BY <1>2, <1>3, <1>4

\* Every step keeps cancellations told as they happened.
LEMMA StepCanceled ==
  ASSUME IInv, CanceledInv, [BillingNext]_billingVars
  PROVE  CanceledInv'
<1> USE FactTypes DEF IInv
<1>1. /\ \A f : Ended(f) => Ended(f)'
      /\ \A s \in Subs : provider'[s].customer = 0 => provider'[s].status # "canceled"
  BY CanceledIsFinal DEF Ended
<1>2. ASSUME UNCHANGED <<subscription, sent>>, \A h \in Handlers : Reads(handler'[h])
      PROVE  CanceledInv'
  <2>1. \A q : Reads(q) => Reads(q)'
    BY <1>1, <1>2 DEF Reads
  <2> QED
    BY <1>1, <1>2, <2>1 DEF CanceledInv
<1>3. ASSUME NEW h \in Handlers, NEW q, Turns(h, q), Reads(q), UNCHANGED <<subscription, sent>>
      PROVE  CanceledInv'
  <2>1. \A g \in Handlers : Reads(handler'[g])
    BY <1>3 DEF Turns, CanceledInv, BillingTypeOK
  <2> QED
    BY <1>2, <1>3, <2>1
<1>4. ASSUME NEW messages \in Seq(Message), Send(messages), UNCHANGED <<subscription, handler>>,
             \A i \in DOMAIN messages : Ended(messages[i])'
      PROVE  CanceledInv'
  <2>1. \A e \in Sent : sent'[e] = sent[e]
    BY <1>4, SentStays
  <2>2. \A e \in 1..MaxEvents : \/ sent'[e] = sent[e]
                                \/ \E i \in DOMAIN messages : sent'[e] = messages[i]
    BY <1>4, SendAppends
  <2>3. \A e \in 1..MaxEvents : Ended(sent[e])'
    <3> TAKE e \in 1..MaxEvents
    <3>1. CASE sent'[e] = sent[e]
      BY <1>1, <3>1 DEF CanceledInv, Ended
    <3>2. ASSUME NEW i \in DOMAIN messages, sent'[e] = messages[i]
          PROVE  Ended(sent[e])'
      BY <1>4, <3>2 DEF Ended
    <3> QED
      BY <2>2, <3>1, <3>2
  <2>4. \A h \in Handlers : Reads(handler[h])'
    <3> TAKE h \in Handlers
    <3>1. Reads(handler[h]) /\ Applies(handler[h])
      BY DEF CanceledInv, AppliesInv
    <3>2. Ended(handler[h].read)'
      BY <1>1, <1>4, <3>1 DEF Reads, Ended
    <3> QED
      BY <1>4, <3>1, <3>2 DEF Reads
  <2> QED
    BY <1>1, <1>4, <2>1, <2>3, <2>4 DEF CanceledInv, Ended
<1>5. CASE UNCHANGED billingVars
  BY <1>2, <1>5 DEF billingVars, CanceledInv
<1>6. ASSUME NEW s \in Subs, NEW c \in Customers, NEW paid \in Ends, Pays(c, s, paid)
      PROVE  CanceledInv'
  <2> DEFINE bought == [customer |-> c, status |-> "active", paid |-> paid]
             told == Told(s, bought)
             done == [Told(s, bought) EXCEPT !.sub = NoSub]
  <2>1. bought \in State /\ bought.customer # 0
    BY DEF State, Statuses, Customers, BillingTypeOK
  <2>2. told \in Message /\ done \in Message
    BY <2>1, ToldTypes
  <2>3. told.status # "canceled" /\ done.status # "canceled"
    BY DEF Told
  <2>4. Send(<<told, done>>) /\ UNCHANGED <<subscription, handler>>
    BY <1>6 DEF Pays, database
  <2> HIDE DEF bought, told, done
  <2>5. PICK a \in Message, b \in Message : a = told /\ b = done
    BY <2>2
  <2>6. <<a, b>> \in Seq(Message)
    OBVIOUS
  <2>7. Send(<<a, b>>) /\ a.status # "canceled" /\ b.status # "canceled"
    BY <2>3, <2>4, <2>5
  <2>8. \A i \in DOMAIN <<a, b>> : Ended(<<a, b>>[i])'
    BY <2>7 DEF Ended
  <2> QED
    BY <1>4, <2>4, <2>6, <2>7, <2>8
<1>7. ASSUME NEW s \in Subs, NEW status \in Statuses, NEW paid \in Ends, Changes(s, status, paid)
      PROVE  CanceledInv'
  <2> DEFINE q == [provider[s] EXCEPT !.status = status, !.paid = paid]
             told == Told(s, q)
  <2>1. q \in State /\ q.customer # 0
    BY <1>7 DEF Changes, State, BillingTypeOK
  <2>2. Send(<<told>>) /\ provider' = [provider EXCEPT ![s] = q] /\ UNCHANGED <<subscription, handler>>
    BY <1>7 DEF Changes, database
  <2>3. told \in Message /\ told.sub = s /\ told.status = q.status
    <3> HIDE DEF q
    <3> QED
      BY <2>1, ToldTypes DEF Told
  <2> HIDE DEF q, told
  <2>4. provider'[s] = q
    BY <2>2 DEF BillingTypeOK
  <2>5. PICK a \in Message : a = told
    BY <2>3
  <2>6. <<a>> \in Seq(Message)
    OBVIOUS
  <2>7. Send(<<a>>) /\ a.sub = s /\ a.status = provider'[s].status
    BY <2>2, <2>3, <2>4, <2>5
  <2>8. \A i \in DOMAIN <<a>> : Ended(<<a>>[i])'
    BY <2>7 DEF Ended
  <2> QED
    BY <1>4, <2>2, <2>6, <2>7, <2>8
<1>8. CASE PeriodEnds
  BY <1>2, <1>8 DEF PeriodEnds, database, CanceledInv
<1>9. Reads(IdleHandler)
  BY DEF Reads, IdleHandler, NoRow, Ended
<1>10. ASSUME NEW h \in Handlers, OfferCheckout(h) \/ RequestDies(h)
       PROVE  CanceledInv'
  BY <1>3, <1>9, <1>10 DEF OfferCheckout, RequestDies, world, database
<1>11. ASSUME NEW h \in Handlers, StartCheckout(h)
       PROVE  CanceledInv'
  <2> DEFINE q == [IdleHandler EXCEPT !.pc = "customer", !.read = subscription]
  <2>1. q.pc = "customer" /\ q.read = subscription
    BY DEF IdleHandler
  <2>2. Turns(h, q) /\ UNCHANGED <<subscription, sent>>
    BY <1>11 DEF StartCheckout, world, database
  <2> HIDE DEF q
  <2>3. Reads(q)
    BY <2>1 DEF Reads, CanceledInv
  <2> QED
    BY <1>3, <2>2, <2>3
<1>12. ASSUME NEW h \in Handlers, EnsureCustomer(h)
       PROVE  CanceledInv'
  <2> DEFINE q == [handler[h] EXCEPT !.pc = "save"]
             r(n) == [handler[h] EXCEPT !.pc = "save", !.read.customer = n]
  <2>1. q.pc = "save" /\ q.read = handler[h].read /\ q.overtaken = handler[h].overtaken
    BY ONLY TurnFields, TurnMarks, IInv, h \in Handlers DEF IInv
  <2>2. \A n : /\ r(n).pc = "save" /\ r(n).overtaken = handler[h].overtaken
               /\ r(n).read.sub = handler[h].read.sub /\ r(n).read.status = handler[h].read.status
    BY ONLY TurnFields, TurnMarks, IInv, h \in Handlers DEF IInv
  <2>3. Turns(h, q) \/ Turns(h, r(handles + 1))
    BY <1>12 DEF EnsureCustomer, Moves
  <2>4. handler[h].pc = "customer" /\ Reads(handler[h]) /\ UNCHANGED <<subscription, sent>>
    BY <1>12 DEF EnsureCustomer, AtPc, CanceledInv, world, database
  <2> HIDE DEF q, r
  <2>5. Reads(q)
    BY <2>1, <2>4 DEF Reads
  <2>6. \A n : Reads(r(n))
    BY <2>2, <2>4 DEF Reads, Ended
  <2> QED
    BY <1>3, <2>3, <2>4, <2>5, <2>6
<1>13. ASSUME NEW h \in Handlers, NEW e \in 1..MaxEvents, ClaimEvent(h, e)
       PROVE  CanceledInv'
  <2> DEFINE q == [IdleHandler EXCEPT !.pc = "find", !.event = e]
  <2>1. q.pc = "find" /\ q.read = NoRow
    BY DEF IdleHandler
  <2>2. Turns(h, q) /\ UNCHANGED <<subscription, sent>>
    BY <1>13 DEF ClaimEvent, world
  <2> HIDE DEF q
  <2>3. Reads(q)
    BY <2>1 DEF Reads, NoRow, Ended
  <2> QED
    BY <1>3, <2>2, <2>3
<1>14. ASSUME NEW h \in Handlers, FindUser(h)
       PROVE  CanceledInv'
  <2> DEFINE q == [handler[h] EXCEPT !.pc = "get"]
  <2>1. q.pc = "get" /\ q.read = handler[h].read
    BY ONLY TurnFields, IInv, h \in Handlers DEF IInv
  <2>2. Turns(h, q) \/ Turns(h, IdleHandler)
    BY <1>14 DEF FindUser, Moves
  <2>3. handler[h].pc = "find" /\ Reads(handler[h]) /\ UNCHANGED <<subscription, sent>>
    BY <1>14 DEF FindUser, AtPc, CanceledInv, world, database
  <2> HIDE DEF q
  <2>4. Reads(q)
    BY <2>1, <2>3 DEF Reads
  <2> QED
    BY <1>3, <1>9, <2>2, <2>3, <2>4
<1>15. ASSUME NEW h \in Handlers, GetRow(h)
       PROVE  CanceledInv'
  <2> DEFINE named == sent[handler[h].event].sub
             s == IF named # NoSub THEN named ELSE subscription.sub
             q == [handler[h] EXCEPT !.pc = "fetch", !.read.sub = s]
  <2>1. /\ q.pc = "fetch" /\ q.event = handler[h].event /\ q.read.sub = s
        /\ q.read.status = handler[h].read.status
    <3> HIDE DEF s
    <3> QED
      BY ONLY TurnFields, IInv, h \in Handlers DEF IInv
  <2>2. Turns(h, q) \/ Turns(h, IdleHandler)
    BY <1>15 DEF GetRow
  <2>3. handler[h].pc = "get" /\ Reads(handler[h]) /\ UNCHANGED <<subscription, sent>>
    BY <1>15 DEF GetRow, AtPc, CanceledInv, world, database
  <2> HIDE DEF q
  <2>4. Reads(q)
    BY <2>1, <2>3 DEF Reads, Ended
  <2> QED
    BY <1>3, <1>9, <2>2, <2>3, <2>4
<1>16. ASSUME NEW h \in Handlers, FetchState(h)
       PROVE  CanceledInv'
  <2> DEFINE e == sent[handler[h].event]
             p == provider[handler[h].read.sub]
             fresh == [IdleHandler EXCEPT !.pc = "store", !.read = Outcome(h, p)]
             told == [IdleHandler EXCEPT !.pc = "store", !.unsure = TRUE, !.read = Outcome(h, e)]
  <2>1. /\ fresh.pc = "store" /\ fresh.read = Outcome(h, p)
        /\ told.pc = "store" /\ told.read = Outcome(h, e) /\ told.unsure = TRUE
    BY DEF IdleHandler
  <2>2. \A f : Outcome(h, f).sub = handler[h].read.sub /\ Outcome(h, f).status = f.status
    BY DEF Outcome
  <2>3. Turns(h, fresh) \/ (e.sub # NoSub /\ Turns(h, told)) \/ Turns(h, IdleHandler)
    BY <1>16 DEF FetchState
  <2>4. handler[h].pc = "fetch" /\ Applies(handler[h]) /\ UNCHANGED <<subscription, sent>>
    BY <1>16 DEF FetchState, AtPc, AppliesInv, world, database
  <2>5. handler[h].read.sub \in Subs /\ Ended(e)
    BY <2>4, SentTypes DEF Applies, CanceledInv
  <2>6. e.sub # NoSub => e.sub = handler[h].read.sub
    BY <2>4 DEF Applies
  <2> HIDE DEF fresh, told
  <2>7. Reads(fresh)
    <3>1. Ended(fresh.read)
      BY <2>1, <2>2, <2>5 DEF Ended
    <3>2. subscription.status = "canceled" /\ fresh.read.sub = subscription.sub
            => fresh.read.status = "canceled"
      BY <2>1, <2>2 DEF CanceledInv, Ended
    <3> QED
      BY <2>1, <3>1, <3>2 DEF Reads
  <2>8. e.sub # NoSub => Reads(told)
    BY <2>1, <2>2, <2>5, <2>6 DEF Reads, Ended
  <2> QED
    BY <1>3, <1>9, <2>3, <2>4, <2>7, <2>8
<1>17. ASSUME NEW h \in Handlers, NEW q, Upserts(h, handler[h].read, q), UNCHANGED sent,
              q.pc \in {"idle", "offer"}, Ended(q.read)
       PROVE  CanceledInv'
  <2> DEFINE r(g) == Overtaken(handler[g])
  <2>1. \A g \in Handlers : /\ r(g).pc = handler[g].pc /\ r(g).event = handler[g].event
                            /\ r(g).read = handler[g].read
                            /\ r(g).pc \in {"customer", "save", "store"} => r(g).overtaken
    BY TurnMarks
  <2>2. /\ handler' = [g \in Handlers |-> IF g = h THEN q ELSE r(g)]
        /\ subscription' = handler[h].read
    BY <1>17 DEF Upserts
  <2> HIDE DEF r
  <2>3. ASSUME NEW g \in Handlers, NEW p, p = r(g)
        PROVE  Reads(p)'
    BY <1>1, <1>17, <2>1, <2>2, <2>3 DEF CanceledInv, Reads
  <2>4. Reads(q)'
    BY <1>1, <1>17 DEF Reads
  <2>5. \A g \in Handlers : Reads(handler[g])'
    <3> TAKE g \in Handlers
    <3>1. PICK p : p = handler'[g]
      OBVIOUS
    <3>2. Reads(p)'
      BY <2>2, <2>3, <2>4, <3>1
    <3> QED
      BY <3>1, <3>2 DEF Reads, Ended
  <2>6. Ended(subscription)'
    BY <1>1, <2>2 DEF CanceledInv, Reads, Ended
  <2> QED
    BY <1>1, <1>17, <2>5, <2>6 DEF CanceledInv
<1>18. ASSUME NEW h \in Handlers, SaveCustomer(h)
       PROVE  CanceledInv'
  <2> DEFINE q == [IdleHandler EXCEPT !.pc = "offer", !.read.customer = handler[h].read.customer]
  <2>1. q.pc = "offer" /\ q.read.status = "incomplete"
    BY DEF IdleHandler, NoRow
  <2>2. Upserts(h, handler[h].read, q) /\ UNCHANGED sent
    BY <1>18 DEF SaveCustomer, world
  <2> HIDE DEF q
  <2> QED
    BY <1>17, <2>1, <2>2 DEF Ended
<1>19. ASSUME NEW h \in Handlers, Persist(h)
       PROVE  CanceledInv'
  <2>1. IdleHandler.pc = "idle" /\ Ended(IdleHandler.read)
    BY <1>9 DEF IdleHandler, Reads
  <2> QED
    BY <1>17, <1>19, <2>1 DEF Persist, world
<1> QED
  BY <1>5, <1>6, <1>7, <1>8, <1>10, <1>11, <1>12, <1>13, <1>14, <1>15, <1>16, <1>18, <1>19 DEF BillingNext

\* A stale event brings no cancelled subscription back: for any number of requests, subscriptions and
\* events, a row that says it was cancelled keeps saying so, unless it is written from the payload of
\* a failed read, or by a request whose facts another one has overtaken.
THEOREM CancellationsStay == BillingSpec => CanceledStays
<1> DEFINE Step == subscription.status = "canceled" /\ subscription'.sub = subscription.sub
                     => \/ subscription'.status = "canceled"
                        \/ \E h \in Handlers : /\ handler[h].pc \in {"store", "save"}
                                               /\ handler[h].overtaken \/ handler[h].unsure
<1>1. BillingInit => CanceledInv
  <2> SUFFICES ASSUME BillingInit
               PROVE  CanceledInv
    OBVIOUS
  <2> QED
    BY DEF BillingInit, CanceledInv, Ended, Reads, NoRow, NoMessage, IdleHandler
<1>2. CanceledInv /\ [BillingNext]_billingVars /\ IInv => CanceledInv'
  BY StepCanceled
<1>3. IInv /\ CanceledInv /\ [BillingNext]_billingVars => Step
  <2> SUFFICES ASSUME IInv, CanceledInv, [BillingNext]_billingVars
               PROVE  Step
    OBVIOUS
  <2>1. CASE UNCHANGED subscription
    BY <2>1
  <2>2. ASSUME NEW h \in Handlers, SaveCustomer(h) \/ Persist(h)
        PROVE  Step
    <3>1. subscription' = handler[h].read /\ handler[h].pc \in {"store", "save"} /\ Reads(handler[h])
      BY <2>2 DEF SaveCustomer, Persist, Upserts, AtPc, CanceledInv
    <3> QED
      BY <3>1 DEF Reads
  <2> QED
    BY <2>1, <2>2 DEF BillingNext, billingVars, database, Pays, Changes, PeriodEnds, StartCheckout,
       EnsureCustomer, OfferCheckout, ClaimEvent, FindUser, GetRow, FetchState, RequestDies
<1>4. IInv /\ CanceledInv /\ [BillingNext]_billingVars =>
        [/\ subscription.status = "canceled"
         /\ subscription'.sub = subscription.sub
         => \/ subscription'.status = "canceled"
            \/ \E h \in Handlers : /\ handler[h].pc \in {"store", "save"}
                                   /\ handler[h].overtaken \/ handler[h].unsure]_billingVars
  BY <1>3
<1> QED
  BY <1>1, <1>2, <1>4, Inductive, PTL DEF BillingSpec, CanceledStays

=============================================================================
