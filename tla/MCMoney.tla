------------------------------- MODULE MCMoney -------------------------------
(***************************************************************************)
(* What the user keeps books of: a statement under review, a group that    *)
(* shares expenses, the categories of transactions, claims about a         *)
(* balance, a scheduled transaction and alerts share no state, so each     *)
(* behaviour follows one of them and leaves the others where they start.   *)
(***************************************************************************)
EXTENDS StatementReview, SplitGroups, Categories, Reconciliations, Schedules, Notifications, TLC
CONSTANTS p, q, alice, groceries, j1, j2, r1, bill, budget, phone
VARIABLE part

\* p and q are two requests, two members, two transactions or two entries, as the part has it.
OnePair == {{p, q}}
Symmetric == Permutations({p, q})

\* Month ends and leap days, and the days around them.
EndOfMonthStarts == {[month |-> 0, day |-> 31], [month |-> 1, day |-> 29], [month |-> 3, day |-> 30]}
SomeEnds == {60, 420, NoEnd}
SomeDays == {0, 30, 31, 58, 59, 60, 89, 90, 119, 120, 365, 366, 424, 425, 426, 500, 730}

Parts == {"review", "split", "categories", "reconciliation", "schedules", "notifications"}

MoneyInit ==
    /\ part \in Parts
    /\ ReviewInit /\ SplitInit /\ CategoriesInit /\ ReconciliationsInit /\ SchedulesInit /\ NotificationsInit
    /\ part # "review" => \A i \in 1..Lines : rows[i] = FreshRow(i, 1)
    /\ part # "schedules" => asked = 0
    /\ part # "notifications" => wanted = {}

MoneyNext ==
    /\ UNCHANGED part
    /\ \/ part = "review" /\ ReviewNext /\ UNCHANGED <<splitVars, categoriesVars, reconciliationsVars, schedulesVars, notificationsVars>>
       \/ part = "split" /\ SplitNext /\ UNCHANGED <<reviewVars, categoriesVars, reconciliationsVars, schedulesVars, notificationsVars>>
       \/ part = "categories" /\ CategoriesNext /\ UNCHANGED <<reviewVars, splitVars, reconciliationsVars, schedulesVars, notificationsVars>>
       \/ part = "reconciliation" /\ ReconciliationsNext /\ UNCHANGED <<reviewVars, splitVars, categoriesVars, schedulesVars, notificationsVars>>
       \/ part = "schedules" /\ SchedulesNext /\ UNCHANGED <<reviewVars, splitVars, categoriesVars, reconciliationsVars, notificationsVars>>
       \/ part = "notifications" /\ NotificationsNext /\ UNCHANGED <<reviewVars, splitVars, categoriesVars, reconciliationsVars, schedulesVars>>

MoneySpec ==
    MoneyInit /\ [][MoneyNext]_<<part, reviewVars, splitVars, categoriesVars, reconciliationsVars, schedulesVars, notificationsVars>>

=============================================================================
