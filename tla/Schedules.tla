------------------------------ MODULE Schedules ------------------------------
(***************************************************************************)
(* One scheduled transaction: what it was declared as, the changes that    *)
(* are checked against a row read earlier, and the dates worked out of it. *)
(*                                                                         *)
(* Days are counted from 1 January of a leap year, day 0; months from that *)
(* January, month 0.  No century falls into the years of a run.            *)
(***************************************************************************)
EXTENDS Integers, FiniteSets, FiniteSetsExt

CONSTANTS
    Starts,         \* bound: first occurrences, as [month, day]
    Ends,           \* bound: last days, NoEnd among them
    Todays,         \* bound: days on which somebody asks
    MaxIterations   \* occurrences that are looked at, 1000 in the code

ASSUME SchedulesAssumption ==
    /\ Starts \subseteq [month : Nat, day : 1..31]
    /\ Todays \subseteq Nat /\ Todays # {} /\ MaxIterations \in Nat

NoEnd == 100000
Cadences == {"weekly", "fortnightly", "monthly", "quarterly", "yearly"}
NoSchedule == [cadence |-> "none"]

VARIABLES
    schedule,  \* the row of scheduled_transactions
    patch,     \* an update between its read and its write
    asked      \* today, for who asks

schedulesVars == <<schedule, patch, asked>>

-----------------------------------------------------------------------------
(* The calendar *)

\* daysInMonth, and the day on which a month begins.
LeapYear(k) == (k \div 12) % 4 = 0
DaysIn(k) == CASE k % 12 = 1 -> IF LeapYear(k) THEN 29 ELSE 28
               [] k % 12 \in {3, 5, 8, 10} -> 30
               [] OTHER -> 31
Before == <<0, 31, 59, 90, 120, 151, 181, 212, 243, 273, 304, 334>>
MonthStart(k) ==
    LET year == k \div 12 IN
    365 * year + (year + 3) \div 4 + Before[(k % 12) + 1] + (IF k % 12 > 1 /\ LeapYear(k) THEN 1 ELSE 0)
DayOf(date) == MonthStart(date.month) + date.day - 1

-----------------------------------------------------------------------------
(* Occurrences *)

DaysPer == [weekly |-> 7, fortnightly |-> 14, monthly |-> 0, quarterly |-> 0, yearly |-> 0]
MonthsPer == [weekly |-> 0, fortnightly |-> 0, monthly |-> 1, quarterly |-> 3, yearly |-> 12]

\* Mutant: a month that is too short moves the day on into the next.
OccurrenceOverflow(s, n) ==
    IF DaysPer[s.cadence] > 0 THEN DayOf(s.start) + DaysPer[s.cadence] * n
    ELSE MonthStart(s.start.month + MonthsPer[s.cadence] * n) + s.start.day - 1

\* Whole weeks on from the start, or whole months, with the day of the start or the last of the month.
OccurrenceAt(s, n) ==
    IF DaysPer[s.cadence] > 0 THEN DayOf(s.start) + DaysPer[s.cadence] * n
    ELSE LET month == s.start.month + MonthsPer[s.cadence] * n IN
         MonthStart(month) + Min({s.start.day, DaysIn(month)}) - 1

\* upcomingOccurrences: the walk breaks off after the horizon, after the end, and in any case.
Upcoming(s, today, days) ==
    IF s.archived THEN {}
    ELSE {d \in {OccurrenceAt(s, n) : n \in 0..MaxIterations - 1} : today <= d /\ d <= today + days /\ d <= s.end}

Never == -1
NextOccurrence(s, today) ==
    LET upcoming == Upcoming(s, today, 366) IN IF upcoming = {} THEN Never ELSE Min(upcoming)

-----------------------------------------------------------------------------
(* The row *)

Declared == {s \in [cadence : Cadences, start : Starts, end : Ends, archived : {FALSE}] : DayOf(s.start) <= s.end}
Amendments == [start : Starts] \cup [end : Ends] \cup [cadence : Cadences]
Merged(s, p) == [f \in DOMAIN s |-> IF f \in DOMAIN p THEN p[f] ELSE s[f]]
Stored == schedule # NoSchedule

SchedulesInit ==
    /\ schedule = NoSchedule
    /\ patch = {}
    /\ asked \in Todays

\* create, of what validateSchedule accepts.
CreateSchedule(s) ==
    /\ ~ Stored
    /\ schedule' = s
    /\ UNCHANGED <<patch, asked>>

\* update up to the store: the patch is checked together with the row as it is now.
StartUpdate(p) ==
    /\ Stored /\ patch = {}
    /\ LET merged == Merged(schedule, p) IN DayOf(merged.start) <= merged.end
    /\ patch' = {p}
    /\ UNCHANGED <<schedule, asked>>

\* The columns of the patch, over whatever the row holds by then; the table's check may refuse that.
WriteUpdate ==
    /\ patch # {}
    /\ LET merged == Merged(schedule, CHOOSE p \in patch : TRUE) IN
       schedule' = IF Stored /\ DayOf(merged.start) <= merged.end THEN merged ELSE schedule
    /\ patch' = {}
    /\ UNCHANGED asked

\* Another request updates in the meantime.
UpdateAtOnce(p) ==
    /\ Stored /\ DayOf(Merged(schedule, p).start) <= Merged(schedule, p).end
    /\ schedule' = Merged(schedule, p)
    /\ UNCHANGED <<patch, asked>>

ArchiveSchedule ==
    /\ Stored /\ ~ schedule.archived
    /\ schedule' = [schedule EXCEPT !.archived = TRUE]
    /\ UNCHANGED <<patch, asked>>

Ask(today) ==
    /\ today > asked
    /\ asked' = today
    /\ UNCHANGED <<schedule, patch>>

SchedulesNext ==
    \/ \E s \in Declared : CreateSchedule(s)
    \/ \E p \in Amendments : StartUpdate(p) \/ UpdateAtOnce(p)
    \/ WriteUpdate \/ ArchiveSchedule
    \/ \E today \in Todays : Ask(today)

SchedulesSpec == SchedulesInit /\ [][SchedulesNext]_schedulesVars

-----------------------------------------------------------------------------
(* Properties *)

\* The day is one on which the schedule falls, told by looking at the day: whole weeks after the first,
\* or in a month that has its turn, on the same day of the month or on the last day of a shorter one.
FallsOn(s, d) ==
    LET first == DayOf(s.start) IN
    /\ first <= d /\ d <= s.end /\ ~ s.archived
    /\ IF DaysPer[s.cadence] > 0 THEN (d - first) % DaysPer[s.cadence] = 0
       ELSE \E k \in s.start.month..(d \div 28) :
              LET day == d - MonthStart(k) + 1 IN
              /\ day \in 1..DaysIn(k)
              /\ (k - s.start.month) % MonthsPer[s.cadence] = 0
              /\ day = s.start.day \/ (day = DaysIn(k) /\ day < s.start.day)

\* schedule.ts: "a bill due on the 31st falls on the 30th in April ... then returns to the 31st": the
\* next date is the first day from today on which the schedule falls, in the year to come and among
\* its first MaxIterations, through every sequence of updates.
NextIsNext ==
    Stored =>
        LET coming == {d \in asked..asked + 366 : FallsOn(schedule, d)}
            reached == OccurrenceAt(schedule, MaxIterations - 1) IN
        (coming = {} \/ Min(coming) <= reached) =>
            NextOccurrence(schedule, asked) = IF coming = {} THEN Never ELSE Min(coming)

=============================================================================
