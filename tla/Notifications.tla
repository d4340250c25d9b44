---------------------------- MODULE Notifications ----------------------------
(***************************************************************************)
(* The alerts of one user: requests that work them out side by side, the   *)
(* centre that keeps each of them once, the push that follows and is sent  *)
(* to every device the user had registered by then, and what is marked as  *)
(* read meanwhile.                                                         *)
(***************************************************************************)
EXTENDS Naturals, FiniteSets

CONSTANTS
    Alerts,    \* what can be derived, by dedupeKey
    Devices,   \* push targets
    Askers,    \* requests in progress
    MaxDrops   \* bound: requests and deliveries that are lost, targets that end

ASSUME NotificationsAssumption == MaxDrops \in Nat

VARIABLES
    wanted,     \* notification_preferences, by alert
    notices,    \* notifications: unread or read
    tokens,     \* push_tokens
    gone,       \* targets the push service has given up
    asker,      \* what each request has read and has left to do
    delivery,   \* pushes on their way, by alert
    pushed,     \* what has arrived on a device
    drops       \* losses so far

notificationsVars == <<wanted, notices, tokens, gone, asker, delivery, pushed, drops>>

Known == DOMAIN notices
NoAsker == [pc |-> "idle", todo |-> {}]
Asks(a, pc) == asker[a].pc = pc
Turns(a, pc, todo) == asker' = [asker EXCEPT ![a] = IF todo = {} THEN NoAsker ELSE [pc |-> pc, todo |-> todo]]

NotificationsInit ==
    /\ wanted \in SUBSET Alerts
    /\ notices = <<>>
    /\ tokens = {} /\ gone = {}
    /\ asker = [a \in Askers |-> NoAsker]
    /\ delivery = {}
    /\ pushed = [x \in Alerts \X Devices |-> 0]
    /\ drops = 0

-----------------------------------------------------------------------------
(* Alerts *)

\* refreshDerived: the preferences are read once, and say what of all that is derived is created.
StartRefresh(a, derived) ==
    /\ Asks(a, "idle")
    /\ Turns(a, "create", derived \cap wanted)
    /\ UNCHANGED <<wanted, notices, tokens, gone, delivery, pushed, drops>>

\* Mutant: an alert that was there is sent again.
CreateAlertAnyway(a, alert) ==
    /\ Asks(a, "create") /\ alert \in asker[a].todo
    /\ notices' = IF alert \in Known THEN notices ELSE [x \in Known \cup {alert} |-> IF x = alert THEN "unread" ELSE notices[x]]
    /\ delivery' = delivery \cup {[alert |-> alert, by |-> a, listed |-> FALSE, targets |-> {}]}
    /\ Turns(a, "create", asker[a].todo \ {alert})
    /\ UNCHANGED <<wanted, tokens, gone, pushed, drops>>

\* create: who inserts the alert starts the push and does not wait for it.
CreateAlert(a, alert) ==
    /\ Asks(a, "create") /\ alert \in asker[a].todo
    /\ IF alert \in Known THEN UNCHANGED <<notices, delivery>>
       ELSE /\ notices' = [x \in Known \cup {alert} |-> IF x = alert THEN "unread" ELSE notices[x]]
            /\ delivery' = delivery \cup {[alert |-> alert, by |-> a, listed |-> FALSE, targets |-> {}]}
    /\ Turns(a, "create", asker[a].todo \ {alert})
    /\ UNCHANGED <<wanted, tokens, gone, pushed, drops>>

UpdatePreferences(alert) ==
    /\ wanted' = IF alert \in wanted THEN wanted \ {alert} ELSE wanted \cup {alert}
    /\ UNCHANGED <<notices, tokens, gone, asker, delivery, pushed, drops>>

-----------------------------------------------------------------------------
(* Push *)

\* deliver: the targets are read once, and all are sent to at once.
ListTargets(d) ==
    /\ d \in delivery /\ ~ d.listed
    /\ delivery' = (delivery \ {d}) \cup (IF tokens = {} THEN {} ELSE {[d EXCEPT !.listed = TRUE, !.targets = tokens]})
    /\ UNCHANGED <<wanted, notices, tokens, gone, asker, pushed, drops>>

\* A target that is gone is unregistered; any other failure is not tried again.
Send(d, device, arrives) ==
    /\ d \in delivery /\ device \in d.targets
    /\ ~ arrives => drops < MaxDrops
    /\ tokens' = IF device \in gone THEN tokens \ {device} ELSE tokens
    /\ pushed' = IF arrives /\ device \notin gone THEN [pushed EXCEPT ![<<d.alert, device>>] = @ + 1] ELSE pushed
    /\ drops' = IF arrives THEN drops ELSE drops + 1
    /\ delivery' = (delivery \ {d}) \cup (IF d.targets = {device} THEN {} ELSE {[d EXCEPT !.targets = @ \ {device}]})
    /\ UNCHANGED <<wanted, notices, gone, asker>>

RegisterDevice(device) ==
    /\ device \notin tokens \cup gone
    /\ tokens' = tokens \cup {device}
    /\ UNCHANGED <<wanted, notices, gone, asker, delivery, pushed, drops>>

UnregisterDevice(device) ==
    /\ device \in tokens
    /\ tokens' = tokens \ {device}
    /\ UNCHANGED <<wanted, notices, gone, asker, delivery, pushed, drops>>

TargetEnds(device) ==
    /\ device \notin gone /\ drops < MaxDrops
    /\ gone' = gone \cup {device}
    /\ drops' = drops + 1
    /\ UNCHANGED <<wanted, notices, tokens, asker, delivery, pushed>>

\* The process ends, with the requests and the pushes it has not finished.
ProcessEnds ==
    /\ drops < MaxDrops
    /\ asker' = [a \in Askers |-> NoAsker]
    /\ delivery' = {}
    /\ drops' = drops + 1
    /\ UNCHANGED <<wanted, notices, tokens, gone, pushed>>

-----------------------------------------------------------------------------
(* Reading *)

MarkRead(alert) ==
    /\ alert \in Known
    /\ notices' = [notices EXCEPT ![alert] = "read"]
    /\ UNCHANGED <<wanted, tokens, gone, asker, delivery, pushed, drops>>

\* markAllRead: what is unread now, and nothing that comes after.
StartMarkAll(a) ==
    /\ Asks(a, "idle")
    /\ Turns(a, "mark", {x \in Known : notices[x] = "unread"})
    /\ UNCHANGED <<wanted, notices, tokens, gone, delivery, pushed, drops>>

MarkNext(a, alert) ==
    /\ Asks(a, "mark") /\ alert \in asker[a].todo
    /\ notices' = [notices EXCEPT ![alert] = "read"]
    /\ Turns(a, "mark", asker[a].todo \ {alert})
    /\ UNCHANGED <<wanted, tokens, gone, delivery, pushed, drops>>

NotificationsNext ==
    \/ \E a \in Askers :
         \/ \E derived \in SUBSET Alerts : StartRefresh(a, derived)
         \/ \E alert \in Alerts : CreateAlert(a, alert) \/ MarkNext(a, alert)
         \/ StartMarkAll(a)
    \/ \E alert \in Alerts : UpdatePreferences(alert) \/ MarkRead(alert)
    \/ \E d \in delivery : ListTargets(d) \/ \E device \in Devices, arrives \in BOOLEAN : Send(d, device, arrives)
    \/ \E device \in Devices : RegisterDevice(device) \/ UnregisterDevice(device) \/ TargetEnds(device)
    \/ ProcessEnds

NotificationsSpec == NotificationsInit /\ [][NotificationsNext]_notificationsVars

-----------------------------------------------------------------------------
(* Properties *)

\* create: an alert is in the centre before any device hears of it, and a device hears of it once at
\* most, however many requests derive it at the same time and whatever is lost.
PushedOnce ==
    \A alert \in Alerts, device \in Devices :
        /\ pushed[alert, device] + Cardinality({d \in delivery : d.alert = alert /\ (~ d.listed \/ device \in d.targets)}) <= 1
        /\ pushed[alert, device] = 1 => alert \in Known

=============================================================================
