------------------------------ MODULE TimeUtils ------------------------------
(***************************************************************************)
(* The date and time of day of src/user/time_utils.c, which ip/time prints *)
(* and the event scheduler reads, against a calendar that is stepped from  *)
(* day to day.                                                             *)
(*                                                                         *)
(* A count of seconds since 1970 is kept as whole days and the seconds     *)
(* left, as far as time_t reaches (19 January 2038).  A sum that is        *)
(* negative, which it is only west of GMT and before the first answer, and *)
(* wraps around when it becomes an unsigned long, is not looked at.        *)
(***************************************************************************)
EXTENDS Integers, Sequences

CONSTANTS
    LAST_DAY,   \* bound: the last day visited, in days since 1970
    Seconds,    \* bound: the seconds of each day looked at
    Zones       \* bound: time zones, hours from GMT

SECONDS == 86400

\* On day 24855 a time_t of 32 bits reaches its end.
ASSUME DaysAssumption ==
    /\ LAST_DAY \in Nat /\ LAST_DAY <= 24855
    /\ Seconds \subseteq 0..(SECONDS - 1)
    /\ Zones \subseteq Int

VARIABLES
    days,       \* the local day, in days since 1970
    date        \* its date in the calendar

vars == <<days, date>>

-----------------------------------------------------------------------------
(* The code. *)

IS_LEAP(year) == year % 4 = 0

calendar == <<31, 28, 31, 30, 31, 30, 31, 31, 30, 31, 30, 31>>
calendar_leap == [calendar EXCEPT ![2] = 29]

get_calendar(year) == IF IS_LEAP(year) THEN calendar_leap ELSE calendar

DaysInYear(year) == IF IS_LEAP(year) THEN 366 ELSE 365

\* A count of seconds.
Moment == [day : Nat, sec : 0..(SECONDS - 1)]

\* *t > n * 86400, the test of both loops.
Exceeds(t, n) == t.day > n \/ (t.day = n /\ t.sec > 0)

Minus(t, n) == [t EXCEPT !.day = @ - n]

\* get_year: the year and what is left of t in it.
get_year(t) ==
    LET from[s \in [year : Nat, left : Moment]] ==
            IF Exceeds(s.left, DaysInYear(s.year))
            THEN from[[year |-> s.year + 1, left |-> Minus(s.left, DaysInYear(s.year))]]
            ELSE s
    IN  from[[year |-> 1970, left |-> t]]

\* get_month: the month and what is left of t in it, after a turn for each month.
MonthTurn(year, s) ==
    IF Exceeds(s.left, get_calendar(year)[s.month])
    THEN [month |-> s.month + 1, left |-> Minus(s.left, get_calendar(year)[s.month])]
    ELSE s

get_month(t, year) ==
    LET after[n \in 0..12] ==
            IF n = 0 THEN [month |-> 1, left |-> t] ELSE MonthTurn(year, after[n - 1])
    IN  after[12]

GetDateTime(t) ==
    LET y == get_year(t)
        m == get_month(y.left, y.year)
    IN  [year |-> y.year, month |-> m.month, day |-> 1 + m.left.day,
         hour |-> m.left.sec \div 3600,
         min |-> (m.left.sec % 3600) \div 60,
         sec |-> m.left.sec % 60]

\* What ip/time prints: the same computation once more, then the formatting.
epoch_to_str(t) == GetDateTime(t)

Shifted(t, hours) ==
    LET s == t.sec + 3600 * hours
    IN  [day |-> t.day + s \div SECONDS, sec |-> s % SECONDS]

\* Mutant: the time zone is subtracted.
LocalWestward(sntp_time, sntp_tz) == Shifted(sntp_time, 0 - sntp_tz)

\* sntp_time + sntp_tz * 3600
Local(sntp_time, sntp_tz) == Shifted(sntp_time, sntp_tz)

Now(sntp_time, sntp_tz) == GetDateTime(Local(sntp_time, sntp_tz))

\* ip/time
doGetTime(sntp_time, sntp_tz) == epoch_to_str(Local(sntp_time, sntp_tz))

-----------------------------------------------------------------------------
(* The calendar. *)

LeapYear(y) == y % 4 = 0 /\ (y % 100 = 0 => y % 400 = 0)

MonthLength(y, m) ==
    IF m = 2 THEN IF LeapYear(y) THEN 29 ELSE 28
    ELSE IF m \in {4, 6, 9, 11} THEN 30 ELSE 31

Init ==
    /\ days = 0
    /\ date = [year |-> 1970, month |-> 1, day |-> 1]

SameMonth ==
    /\ date.day < MonthLength(date.year, date.month)
    /\ date' = [date EXCEPT !.day = @ + 1]

NextMonth ==
    /\ date.day = MonthLength(date.year, date.month)
    /\ date.month < 12
    /\ date' = [date EXCEPT !.day = 1, !.month = @ + 1]

NextYear ==
    /\ date.day = 31
    /\ date.month = 12
    /\ date' = [year |-> date.year + 1, month |-> 1, day |-> 1]

Next ==
    /\ days < LAST_DAY
    /\ days' = days + 1
    /\ SameMonth \/ NextMonth \/ NextYear

Spec == Init /\ [][Next]_vars

-----------------------------------------------------------------------------
Ahead(d, s) ==
    [year |-> d.year, month |-> d.month, day |-> d.day,
     hour |-> s \div 3600, min |-> (s \div 60) % 60, sec |-> s % 60]

\* The answer of the code at second s of this day, in zone tz, if the counter
\* that SNTP set has that moment at all.
Asked(s, tz) == Shifted([day |-> days, sec |-> s], 0 - tz)
Answerable(s, tz) == Asked(s, tz).day >= 0
Answer(s, tz) == Now(Asked(s, tz), tz)

\* In every zone the code tells date and time of the day right, but for one
\* second: at 00:00:00 of the first of a month both loops stop a month early.
\* Even then the time of day, all that the scheduler uses, is right.
LocalTimeIsRight ==
    \A s \in Seconds, tz \in Zones :
        Answerable(s, tz) =>
            \/ Answer(s, tz) = Ahead(date, s)
            \/ /\ date.day = 1 /\ s = 0 /\ days > 0
               /\ Answer(s, tz).day > 28
               /\ \A f \in {"hour", "min", "sec"} : Answer(s, tz)[f] = 0

\* "ip/time - returns the time" (RestAPI.c:31): the date it prints exists.
DateExists ==
    \A s \in Seconds, tz \in Zones :
        Answerable(s, tz) =>
            LET a == doGetTime(Asked(s, tz), tz)
            IN  a.day <= MonthLength(a.year, a.month)

=============================================================================
