------------------------------ MODULE Schedule ------------------------------
(***************************************************************************)
(* The schedule of a rule condition (client/schedule.go): a daily time     *)
(* range, which may run past midnight, on some weekdays and some dates.    *)
(*                                                                         *)
(* A time is a day, counted in UTC, and a minute of it.  The strings "hh:mm" and *)
(* "yyyy-mm-dd" that users enter are parsed to minutes and days; valid     *)
(* tells whether that succeeds.                                            *)
(***************************************************************************)
EXTENDS Integers

CONSTANT Minutes   \* minutes of a day

ASSUME MinutesAssumption == Minutes \in Nat \ {0}

Time == [day : Int, min : 0 .. Minutes - 1]

At(d, m) == [min |-> m, day |-> d]

\* time.Time.Before
Before(t, u) == t.day < u.day \/ (t.day = u.day /\ t.min < u.min)

Weekday(d) == d % 7

Schedule == [start : 0 .. Minutes - 1, end : 0 .. Minutes - 1,
             weekdays : SUBSET (0 .. 6), dates : SUBSET Int]

AddDate(t, n) == [t EXCEPT !.day = @ + n]

\* The ranges that can hold a time of day d.
TimeRanges(s, d) ==
    LET start == At(d, s.start)
        end   == At(d, s.end)
    IN  IF Before(start, end)
        THEN {[start |-> start, end |-> end]}
        ELSE {[start |-> start, end |-> AddDate(end, 1)],
              [start |-> AddDate(start, -1), end |-> end]}

\* filterWeekdays and filterDates look at the day on which a range starts.
FilterWeekdays(trs, s) ==
    {tr \in trs : s.weekdays = {} \/ Weekday(tr.start.day) \in s.weekdays}

FilterDates(trs, s) ==
    {tr \in trs : s.dates = {} \/ tr.start.day \in s.dates}

\* timeRange.in
In(tr, t) == ~Before(tr.end, tr.start) /\ ~Before(t, tr.start) /\ Before(t, tr.end)

\* Mutant: only the range that starts on the day itself.
ActiveForTimeToday(s, t) ==
    \E tr \in FilterDates(FilterWeekdays(TimeRanges(s, t.day), s), s) :
        tr.start.day = t.day /\ In(tr, t)

ActiveForTime(s, t) ==
    \E tr \in FilterDates(FilterWeekdays(TimeRanges(s, t.day), s), s) : In(tr, t)

-----------------------------------------------------------------------------
(* Reference *)

\* The schedule starts on day d.
Starts(s, d) ==
    /\ s.weekdays = {} \/ Weekday(d) \in s.weekdays
    /\ s.dates = {} \/ d \in s.dates

\* Among the days D the schedule has started, and since then its end has not
\* come round.
Open(s, t, D) ==
    \E d \in D :
        /\ Starts(s, d)
        /\ ~Before(t, At(d, s.start))
        /\ \A e \in D : Before(At(d, s.start), At(e, s.end)) => Before(t, At(e, s.end))

=============================================================================
