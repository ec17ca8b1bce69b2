----------------------------- MODULE TimeProofs -----------------------------
(***************************************************************************)
(* Proofs about date and time, for every day that a time_t of 32 bits      *)
(* reaches, every second of it and every time zone.                        *)
(***************************************************************************)
EXTENDS TimeUtils, Recursion

-----------------------------------------------------------------------------
(* The years that the code counts are the calendar's. *)

Years == {y \in Nat : y >= 1970}

\* Days from 1970 to the first of January of year y.
YearStart(y) == 365 * (y - 1970) + (y - 1969) \div 4

\* Days from there to the first of month m, as long as the calendar has months.
MonthStart(y, m) ==
    <<0, 31, 59, 90, 120, 151, 181, 212, 243, 273, 304, 334, 365>>[m]
        + (IF m > 2 /\ IS_LEAP(y) THEN 1 ELSE 0)

MonthDays(y, m) == get_calendar(y)[m]

LEMMA YearsAdd ==
    ASSUME NEW y \in Years
    PROVE  /\ y + 1 \in Years
           /\ YearStart(y) \in Nat
           /\ YearStart(y + 1) = YearStart(y) + DaysInYear(y)
           /\ DaysInYear(y) \in 365..366
<1>. y \in Nat /\ y >= 1970
    BY DEF Years
<1>1. (y - 1968) \div 4 = (y - 1969) \div 4 + (IF y % 4 = 0 THEN 1 ELSE 0)
    OBVIOUS
<1>2. (y + 1) - 1969 = y - 1968 /\ (y + 1) - 1970 = y - 1970 + 1
    OBVIOUS
<1>3. (y - 1969) \div 4 \in Int /\ (y - 1969) \div 4 >= -1 /\ (y > 1970 => (y - 1969) \div 4 >= 0)
    OBVIOUS
<1>4. (1970 - 1969) \div 4 = 0
    OBVIOUS
<1>. QED BY <1>1, <1>2, <1>3, <1>4 DEF YearStart, DaysInYear, IS_LEAP, Years

LEMMA YearStartValues == YearStart(1970) = 0 /\ YearStart(2039) = 25202
BY DEF YearStart

LEMMA MonthsAdd ==
    ASSUME NEW y \in Years, NEW m \in 1..12
    PROVE  /\ MonthStart(y, m) \in Nat
           /\ MonthStart(y, m + 1) = MonthStart(y, m) + MonthDays(y, m)
           /\ MonthDays(y, m) \in 28..31
           /\ MonthStart(y, 1) = 0
           /\ MonthStart(y, 13) = DaysInYear(y)
<1>1. m \in {1, 2, 3, 4, 5, 6, 7, 8, 9, 10, 11, 12}
    OBVIOUS
<1>. QED BY <1>1 DEF MonthStart, MonthDays, get_calendar, calendar, calendar_leap, DaysInYear

\* Until 2099 every fourth year is a leap year.
LEMMA CalendarAgrees ==
    ASSUME NEW y \in Years, y <= 2099
    PROVE  /\ LeapYear(y) <=> IS_LEAP(y)
           /\ \A m \in 1..12 : MonthLength(y, m) = MonthDays(y, m)
<1>. y \in Nat /\ 1970 <= y
    BY DEF Years
<1>1. y % 4 = 0 /\ y % 100 = 0 => y % 400 = 0
    OBVIOUS
<1>2. LeapYear(y) <=> IS_LEAP(y)
    BY <1>1 DEF LeapYear, IS_LEAP
<1>3. ASSUME NEW m \in 1..12 PROVE MonthLength(y, m) = MonthDays(y, m)
    <2>1. m \in {1, 2, 3, 4, 5, 6, 7, 8, 9, 10, 11, 12}
        OBVIOUS
    <2>. QED BY <1>2, <2>1 DEF MonthLength, MonthDays, get_calendar, calendar, calendar_leap
<1>. QED BY <1>2, <1>3

-----------------------------------------------------------------------------
(* get_year. *)

YearStates == [year : Nat, left : Moment]

YearStep(s) == [year |-> s.year + 1, left |-> Minus(s.left, DaysInYear(s.year))]

LEMMA MomentTypes ==
    ASSUME NEW t \in Moment
    PROVE  t.day \in Nat /\ t.sec \in Nat /\ t.sec < SECONDS
<1>1. t.day \in Nat /\ t.sec \in 0..(SECONDS - 1)
    BY DEF Moment
<1>2. SECONDS \in Nat
    BY DEF SECONDS
<1>. QED BY <1>1, <1>2

LEMMA MinusIsMoment ==
    ASSUME NEW t \in Moment, NEW n \in 0..t.day
    PROVE  /\ Minus(t, n) \in Moment
           /\ Minus(t, n).day = t.day - n
           /\ Minus(t, n).sec = t.sec
           /\ Minus(t, n) = [day |-> t.day - n, sec |-> t.sec]
<1>1. t.day \in Nat /\ t.sec \in 0..(SECONDS - 1) /\ t.day - n \in Nat
    BY DEF Moment
<1>2. t = [day |-> t.day, sec |-> t.sec]
    BY DEF Moment
<1>3. Minus(t, n) = [day |-> t.day - n, sec |-> t.sec]
    BY <1>2 DEF Minus
<1>. QED BY <1>1, <1>3 DEF Moment

\* A year taken off leaves a count of seconds.
LEMMA YearStepLeaves ==
    ASSUME NEW s \in YearStates, Exceeds(s.left, DaysInYear(s.year))
    PROVE  YearStep(s) \in YearStates /\ YearStep(s).left.day < s.left.day
<1>1. s.year \in Nat /\ s.left \in Moment /\ s.left.day \in Nat
    BY DEF YearStates, Moment
<1>2. DaysInYear(s.year) \in {365, 366}
    BY DEF DaysInYear
<1>3. DaysInYear(s.year) \in 0..s.left.day
    BY <1>1, <1>2 DEF Exceeds
<1>4. /\ Minus(s.left, DaysInYear(s.year)) \in Moment
      /\ Minus(s.left, DaysInYear(s.year)).day = s.left.day - DaysInYear(s.year)
    BY <1>1, <1>3, MinusIsMoment
<1>. QED BY <1>1, <1>2, <1>4 DEF YearStep, YearStates

\* The loop: from what a state goes to, the rest of the years are counted.
LEMMA YearLoop ==
    ASSUME NEW t \in Moment
    PROVE  \E h : /\ \A s \in YearStates :
                         h[s] = IF Exceeds(s.left, DaysInYear(s.year))
                                THEN h[YearStep(s)] ELSE s
                  /\ get_year(t) = h[[year |-> 1970, left |-> t]]
<1> DEFINE T == {s \in YearStates : Exceeds(s.left, DaysInYear(s.year))}
           step == [s \in YearStates |-> IF s \in T THEN YearStep(s) ELSE s]
           measure == [s \in YearStates |-> s.left.day]
           Body(f) == [s \in YearStates |->
                          IF Exceeds(s.left, DaysInYear(s.year))
                          THEN f[[year |-> s.year + 1,
                                  left |-> Minus(s.left, DaysInYear(s.year))]]
                          ELSE s]
           h == CHOOSE f : f = Body(f)
<1>1. step \in Steps(YearStates) /\ T \in SUBSET YearStates
    BY YearStepLeaves DEF Steps
<1>2. measure \in [YearStates -> Nat]
    BY DEF YearStates, Moment
<1>3. measure \in Measures(YearStates, T, step)
    BY <1>2, YearStepLeaves DEF Measures
<1>4. PICK g \in [YearStates -> YearStates] :
          \A s \in YearStates : g[s] = IF s \in T THEN g[step[s]] ELSE s
    <2>. HIDE DEF T, step, measure
    <2>1. WhileLoops(YearStates, T, step) # {}
        BY <1>1, <1>3, WhileExists
    <2>. QED BY <2>1 DEF WhileLoops
<1>5. g = Body(g)
    <2>1. ASSUME NEW s \in YearStates PROVE g[s] = Body(g)[s]
        BY <1>4 DEF YearStep
    <2>2. g = [s \in YearStates |-> g[s]] /\ Body(g) = [s \in YearStates |-> Body(g)[s]]
        BY <1>4
    <2>. QED BY <2>1, <2>2, Zenon
<1>6. h = Body(h)
    BY <1>5
<1>7. get_year(t) = h[[year |-> 1970, left |-> t]]
    BY DEF get_year, YearStates
<1>8. \A s \in YearStates :
          h[s] = IF Exceeds(s.left, DaysInYear(s.year)) THEN h[YearStep(s)] ELSE s
    <2>1. SUFFICES ASSUME NEW s \in YearStates
                   PROVE  h[s] = IF Exceeds(s.left, DaysInYear(s.year))
                                 THEN h[YearStep(s)] ELSE s
        OBVIOUS
    <2>. HIDE DEF h
    <2>2. Body(h)[s] = IF Exceeds(s.left, DaysInYear(s.year)) THEN h[YearStep(s)] ELSE s
        BY DEF YearStep
    <2>. HIDE DEF Body
    <2>. QED BY <1>6, <2>2, Zenon
<1>. HIDE DEF h
<1>. QED BY <1>7, <1>8

\* Years do not get shorter.
LEMMA YearStartGrows ==
    ASSUME NEW y \in Years, NEW z \in Years, z < y
    PROVE  YearStart(z) < YearStart(y)
<1>. y \in Nat /\ z \in Nat
    BY DEF Years
<1>1. (z - 1969) \div 4 <= (y - 1969) \div 4
    OBVIOUS
<1>. QED BY <1>1 DEF YearStart

\* The year that the loop stops in: the first that is not over, where the very
\* beginning of a year belongs to the year before it.
LEMMA YearIs ==
    ASSUME NEW t \in Moment, NEW y \in Years,
           YearStart(y) <= t.day,
           y = 1970 \/ YearStart(y) < t.day \/ t.sec > 0,
           ~ Exceeds(Minus(t, YearStart(y)), DaysInYear(y))
    PROVE  get_year(t) = [year |-> y, left |-> Minus(t, YearStart(y))]
<1> DEFINE At(k) == [year |-> 1970 + k, left |-> Minus(t, YearStart(1970 + k))]
<1>1. PICK h : /\ \A s \in YearStates :
                      h[s] = IF Exceeds(s.left, DaysInYear(s.year)) THEN h[YearStep(s)] ELSE s
               /\ get_year(t) = h[[year |-> 1970, left |-> t]]
    BY YearLoop
<1>2. t.day \in Nat /\ t.sec \in Nat /\ y \in Nat /\ y >= 1970 /\ \A k \in Nat : 1970 + k \in Years
    BY MomentTypes DEF Years
<1>3. ASSUME NEW k \in Nat, 1970 + k <= y
      PROVE  /\ YearStart(1970 + k) \in 0..t.day
             /\ At(k) \in YearStates
             /\ At(k).year = 1970 + k
             /\ At(k).left.day = t.day - YearStart(1970 + k)
             /\ At(k).left.sec = t.sec
    <2>1. YearStart(1970 + k) \in Nat /\ YearStart(y) \in Nat
        BY <1>2, YearsAdd
    <2>2. YearStart(1970 + k) <= YearStart(y)
        <3>1. CASE 1970 + k = y
            BY <2>1, <3>1
        <3>2. CASE 1970 + k < y
            <4>1. YearStart(1970 + k) < YearStart(y)
                BY <1>2, <3>2, YearStartGrows
            <4>. QED BY <2>1, <4>1
        <3>. QED BY <1>2, <1>3, <3>1, <3>2
    <2>3. YearStart(1970 + k) \in 0..t.day
        BY <1>2, <2>1, <2>2
    <2>. QED BY <2>3, MinusIsMoment DEF YearStates
<1>4. At(0) = [year |-> 1970, left |-> t]
    <2>1. Minus(t, 0) = t
        <3>1. 0 \in 0..t.day /\ t.day - 0 = t.day /\ t = [day |-> t.day, sec |-> t.sec]
            BY <1>2 DEF Moment
        <3>. QED BY <3>1, MinusIsMoment
    <2>. QED BY <2>1, YearStartValues
<1>5. ASSUME NEW k \in Nat, 1970 + k < y PROVE h[At(k)] = h[At(k + 1)]
    <2> DEFINE z == 1970 + k
    <2>1. z \in Years /\ z + 1 \in Years /\ z + 1 = 1970 + (k + 1) /\ z + 1 <= y /\ z <= y
        BY <1>2, <1>5 DEF Years
    <2>2. /\ YearStart(z) \in Nat
          /\ YearStart(z + 1) = YearStart(z) + DaysInYear(z)
          /\ DaysInYear(z) \in 365..366
        BY <2>1, YearsAdd
    <2>3. /\ YearStart(z + 1) \in 0..t.day /\ YearStart(z) \in 0..t.day
          /\ At(k) \in YearStates /\ At(k).year = z /\ At(k).left = Minus(t, YearStart(z))
          /\ At(k).left.day = t.day - YearStart(z) /\ At(k).left.sec = t.sec
        <3>1. YearStart(z + 1) \in 0..t.day
            <4>1. k + 1 \in Nat
                OBVIOUS
            <4>. HIDE DEF At
            <4>. QED BY <1>3, <2>1, <4>1
        <3>2. /\ YearStart(z) \in 0..t.day /\ At(k) \in YearStates /\ At(k).year = z
              /\ At(k).left.day = t.day - YearStart(z) /\ At(k).left.sec = t.sec
            <4>. HIDE DEF At
            <4>. QED BY <1>3, <2>1
        <3>3. At(k).left = Minus(t, YearStart(z))
            OBVIOUS
        <3>. QED BY <3>1, <3>2, <3>3
    <2>4. z + 1 = y \/ YearStart(z + 1) < YearStart(y)
        <3>1. z + 1 = y \/ z + 1 < y
            BY <1>2, <2>1
        <3>. QED BY <2>1, <3>1, YearStartGrows
    <2>5. YearStart(y) \in Nat
        BY YearsAdd
    <2>6. YearStart(z + 1) < t.day \/ (YearStart(z + 1) = t.day /\ t.sec > 0)
        BY <1>2, <2>1, <2>3, <2>4, <2>5
    <2>7. Exceeds(At(k).left, DaysInYear(At(k).year))
        BY <1>2, <2>2, <2>3, <2>6 DEF Exceeds
    <2>8. Minus(Minus(t, YearStart(z)), DaysInYear(z)) = Minus(t, YearStart(z + 1))
        <3>1. Minus(t, YearStart(z)) = [day |-> t.day - YearStart(z), sec |-> t.sec]
            BY <2>3, MinusIsMoment
        <3>2. Minus(t, YearStart(z + 1)) = [day |-> t.day - YearStart(z + 1), sec |-> t.sec]
            BY <2>3, MinusIsMoment
        <3>3. /\ t.day - YearStart(z) - DaysInYear(z) = t.day - YearStart(z + 1)
              /\ DaysInYear(z) \in 0..(t.day - YearStart(z))
            BY <1>2, <2>2, <2>3
        <3>4. /\ Minus(t, YearStart(z)) \in Moment
              /\ Minus(t, YearStart(z)).day = t.day - YearStart(z)
              /\ Minus(t, YearStart(z)).sec = t.sec
            BY <2>3, MinusIsMoment
        <3>5. Minus(Minus(t, YearStart(z)), DaysInYear(z)) =
                  [day |-> t.day - YearStart(z) - DaysInYear(z), sec |-> t.sec]
            BY <3>3, <3>4, MinusIsMoment
        <3>. QED BY <3>2, <3>3, <3>5
    <2>9. YearStep(At(k)) = At(k + 1)
        BY <2>1, <2>3, <2>8 DEF YearStep
    <2>. QED BY <1>1, <2>3, <2>7, <2>9
<1> DEFINE S == {k \in Nat : 1970 + k <= y => h[At(0)] = h[At(k)]}
<1>6. 0 \in S
    OBVIOUS
<1>7. ASSUME NEW k \in Nat, k \in S PROVE k + 1 \in S
    <2>. HIDE DEF At
    <2>1. 1970 + (k + 1) <= y => 1970 + k < y /\ 1970 + k <= y
        BY <1>2
    <2>. QED BY <1>5, <1>7, <2>1
<1>8. y - 1970 \in S
    <2>. HIDE DEF S
    <2>1. \A k \in Nat : k \in S
        BY <1>6, <1>7, Induction
    <2>. QED BY <1>2, <2>1
<1>9. y - 1970 \in Nat /\ 1970 + (y - 1970) = y
    BY <1>2
<1>10. At(y - 1970) \in YearStates /\ At(y - 1970).year = y
       /\ At(y - 1970) = [year |-> y, left |-> Minus(t, YearStart(y))]
    <2>1. At(y - 1970) \in YearStates
        BY <1>3, <1>9
    <2>. QED BY <1>9, <2>1
<1>11. h[At(y - 1970)] = At(y - 1970)
    BY <1>1, <1>10
<1>. HIDE DEF At
<1>. QED BY <1>1, <1>4, <1>8, <1>9, <1>10, <1>11

-----------------------------------------------------------------------------
(* get_month. *)

LEMMA MonthStartGrows ==
    ASSUME NEW y \in Years, NEW m \in 1..12, NEW k \in 1..12, k < m
    PROVE  /\ MonthStart(y, k + 1) \in 0..MonthStart(y, m)
           /\ k + 1 = m \/ MonthStart(y, k + 1) < MonthStart(y, m)
<1>1. m \in {1, 2, 3, 4, 5, 6, 7, 8, 9, 10, 11, 12}
      /\ k \in {1, 2, 3, 4, 5, 6, 7, 8, 9, 10, 11, 12}
    OBVIOUS
<1>. QED BY <1>1 DEF MonthStart

\* The month that the loop stops in: the first that is not over, where the very
\* beginning of a month belongs to the month before it.
LEMMA MonthIs ==
    ASSUME NEW y \in Years, NEW t \in Moment, NEW m \in 1..12,
           MonthStart(y, m) <= t.day,
           m = 1 \/ MonthStart(y, m) < t.day \/ t.sec > 0,
           ~ Exceeds(Minus(t, MonthStart(y, m)), MonthDays(y, m))
    PROVE  get_month(t, y) = [month |-> m, left |-> Minus(t, MonthStart(y, m))]
<1> DEFINE At(k) == [month |-> k, left |-> Minus(t, MonthStart(y, k))]
           h == [n \in 0..12 |-> At(IF n + 1 <= m THEN n + 1 ELSE m)]
           Body(f) == [n \in 0..12 |->
                          IF n = 0 THEN [month |-> 1, left |-> t] ELSE MonthTurn(y, f[n - 1])]
           after == CHOOSE f : f = Body(f)
<1>1. t.day \in Nat /\ t.sec \in Nat
    BY MomentTypes
<1>2. ASSUME NEW k \in 1..12, k <= m
      PROVE  /\ MonthStart(y, k) \in 0..t.day
             /\ At(k).month = k
             /\ At(k).left.day = t.day - MonthStart(y, k)
             /\ At(k).left.sec = t.sec
             /\ At(k).left = [day |-> t.day - MonthStart(y, k), sec |-> t.sec]
             /\ At(k).left \in Moment
    <2>1. MonthStart(y, k) \in Nat /\ MonthStart(y, m) \in Nat
        BY MonthsAdd
    <2>2. MonthStart(y, k) <= MonthStart(y, m)
        <3>1. CASE k = m
            BY <2>1, <3>1
        <3>2. CASE k # m /\ k = 1
            BY <2>1, <3>2, MonthsAdd
        <3>3. CASE k # m /\ k # 1
            <4>1. k - 1 \in 1..12 /\ k - 1 < m /\ k - 1 + 1 = k
                BY <1>2, <3>3
            <4>2. MonthStart(y, k - 1 + 1) \in 0..MonthStart(y, m)
                BY <4>1, MonthStartGrows
            <4>. QED BY <2>1, <4>1, <4>2
        <3>. QED BY <3>1, <3>2, <3>3
    <2>3. MonthStart(y, k) \in 0..t.day
        BY <1>1, <2>1, <2>2
    <2>. QED BY <2>3, MinusIsMoment
<1>3. At(1) = [month |-> 1, left |-> t]
    <2>1. MonthStart(y, 1) = 0
        BY MonthsAdd
    <2>2. 0 \in 0..t.day /\ t.day - 0 = t.day /\ t = [day |-> t.day, sec |-> t.sec]
        BY <1>1 DEF Moment
    <2>3. Minus(t, 0) = t
        BY <2>2, MinusIsMoment
    <2>. QED BY <2>1, <2>3
<1>4. ASSUME NEW k \in 1..12, k < m PROVE MonthTurn(y, At(k)) = At(k + 1)
    <2>1. k + 1 \in 1..12 /\ k + 1 <= m /\ k <= m
        BY <1>4
    <2>2. /\ MonthStart(y, k + 1) = MonthStart(y, k) + MonthDays(y, k)
          /\ MonthDays(y, k) \in 28..31
        BY MonthsAdd
    <2>3. /\ MonthStart(y, k) \in 0..t.day
          /\ At(k).month = k
          /\ At(k).left.day = t.day - MonthStart(y, k)
          /\ At(k).left.sec = t.sec
          /\ At(k).left \in Moment
        <3>. HIDE DEF At
        <3>. QED BY <1>2, <2>1
    <2>4. /\ MonthStart(y, k + 1) \in 0..t.day
          /\ At(k + 1) = [month |-> k + 1,
                          left |-> [day |-> t.day - MonthStart(y, k + 1), sec |-> t.sec]]
        <3>1. /\ MonthStart(y, k + 1) \in 0..t.day
              /\ At(k + 1).left = [day |-> t.day - MonthStart(y, k + 1), sec |-> t.sec]
            <4>. HIDE DEF At
            <4>. QED BY <1>2, <2>1
        <3>. QED BY <3>1
    <2>5. k + 1 = m \/ MonthStart(y, k + 1) < MonthStart(y, m)
        BY <1>4, MonthStartGrows
    <2>6. MonthStart(y, k + 1) < t.day \/ (MonthStart(y, k + 1) = t.day /\ t.sec > 0)
        <3>1. MonthStart(y, m) \in Nat
            BY MonthsAdd
        <3>2. m # 1
            BY <1>4
        <3>. QED BY <1>1, <2>4, <2>5, <3>1, <3>2
    <2>. HIDE DEF At
    <2>7. Exceeds(At(k).left, MonthDays(y, At(k).month))
        BY <1>1, <2>2, <2>3, <2>6 DEF Exceeds
    <2>8. /\ MonthDays(y, k) \in 0..At(k).left.day
          /\ At(k).left.day - MonthDays(y, k) = t.day - MonthStart(y, k + 1)
        BY <1>1, <2>2, <2>3, <2>4
    <2>9. Minus(At(k).left, MonthDays(y, k)) =
              [day |-> t.day - MonthStart(y, k + 1), sec |-> t.sec]
        BY <2>3, <2>8, MinusIsMoment
    <2>. QED BY <2>3, <2>4, <2>7, <2>9 DEF MonthTurn, MonthDays
<1>5. MonthTurn(y, At(m)) = At(m)
    BY DEF MonthTurn, MonthDays
<1>. HIDE DEF At
<1> DEFINE Reached(n) == At(IF n + 1 <= m THEN n + 1 ELSE m)
<1>6. ASSUME NEW n \in 1..12 PROVE MonthTurn(y, Reached(n - 1)) = Reached(n)
    <2>1. CASE n < m
        <3>1. n - 1 + 1 = n /\ n <= m /\ n + 1 <= m
            BY <2>1
        <3>. QED BY <1>4, <2>1, <3>1
    <2>2. CASE n = m
        <3>1. n - 1 + 1 = m /\ m <= m /\ ~(n + 1 <= m)
            BY <2>2
        <3>. QED BY <1>5, <3>1
    <2>3. CASE n > m
        <3>1. n - 1 + 1 = n /\ ~(n <= m) /\ ~(n + 1 <= m)
            BY <2>3
        <3>. QED BY <1>5, <3>1
    <2>. QED BY <2>1, <2>2, <2>3
<1>7. Reached(0) = [month |-> 1, left |-> t]
    <2>1. 0 + 1 <= m /\ 0 + 1 = 1
        OBVIOUS
    <2>. QED BY <1>3, <2>1
<1>8. h = [n \in 0..12 |-> Reached(n)]
    OBVIOUS
<1>. HIDE DEF Reached
<1>9. h = Body(h)
    <2>1. ASSUME NEW n \in 0..12 PROVE h[n] = Body(h)[n]
        <3>1. CASE n = 0
            BY <1>7, <1>8, <3>1
        <3>2. CASE n # 0
            <4>1. n \in 1..12 /\ n - 1 \in 0..12
                BY <3>2
            <4>. HIDE DEF h
            <4>2. h[n] = Reached(n) /\ h[n - 1] = Reached(n - 1)
                BY <1>8, <4>1
            <4>3. Body(h)[n] = MonthTurn(y, h[n - 1])
                BY <3>2
            <4>. QED BY <1>6, <4>1, <4>2, <4>3
        <3>. QED BY <3>1, <3>2
    <2>. HIDE DEF h
    <2>2. h = [n \in 0..12 |-> h[n]]
        BY <1>8
    <2>. QED BY <2>1, <2>2
<1>10. after = Body(after)
    BY <1>9
<1>. HIDE DEF after
<1>11. /\ after[0] = [month |-> 1, left |-> t]
       /\ \A n \in 1..12 : after[n] = MonthTurn(y, after[n - 1])
    <2>1. \A n \in 0..12 :
              after[n] = IF n = 0 THEN [month |-> 1, left |-> t] ELSE MonthTurn(y, after[n - 1])
        BY <1>10
    <2>2. \A n \in 1..12 : n \in 0..12 /\ n # 0
        OBVIOUS
    <2>. QED BY <2>1, <2>2
<1> DEFINE S == {n \in Nat : after[n] = Reached(n)}
<1>12. 0 \in S
    BY <1>7, <1>11
<1>13. ASSUME NEW n \in 0..(12 - 1), n \in S PROVE n + 1 \in S
    <2>1. n + 1 \in 1..12 /\ n + 1 - 1 = n
        OBVIOUS
    <2>. QED BY <1>6, <1>11, <1>13, <2>1
<1>14. after[12] = Reached(12)
    <2>. HIDE DEF S
    <2>1. \A n \in 0..12 : n \in S
        BY <1>12, <1>13, BoundedInduction
    <2>2. 12 \in S
        BY <2>1
    <2>. QED BY <2>2 DEF S
<1>15. Reached(12) = At(m)
    BY DEF Reached
<1>16. get_month(t, y) = after[12]
    BY DEF get_month, after
<1>. QED BY <1>14, <1>15, <1>16 DEF At

-----------------------------------------------------------------------------
(* The invariant: the date is one of the calendar, and its day has that many days before it. *)

DayOfYear(d) == MonthStart(d.year, d.month) + d.day - 1

CalendarInv ==
    /\ days \in Nat /\ days <= 24855
    /\ date \in [year : Years, month : 1..12, day : 1..31]
    /\ date.day <= MonthDays(date.year, date.month)
    /\ days = YearStart(date.year) + DayOfYear(date)

LEMMA DateParts ==
    ASSUME CalendarInv
    PROVE  /\ date.year \in Years /\ date.month \in 1..12 /\ date.day \in 1..31
           /\ date = [year |-> date.year, month |-> date.month, day |-> date.day]
           /\ YearStart(date.year) \in Nat
           /\ MonthStart(date.year, date.month) \in Nat
           /\ date.year <= 2038
<1>1. /\ date.year \in Years /\ date.month \in 1..12 /\ date.day \in 1..31
      /\ date = [year |-> date.year, month |-> date.month, day |-> date.day]
    BY DEF CalendarInv
<1>2. YearStart(date.year) \in Nat
    BY <1>1, YearsAdd
<1>3. MonthStart(date.year, date.month) \in Nat
    BY <1>1, MonthsAdd
<1>4. date.year <= 2038
    <2>. SUFFICES ASSUME 2039 <= date.year PROVE FALSE
        BY <1>1 DEF Years
    <2>1. 2039 = date.year \/ YearStart(2039) < YearStart(date.year)
        <3>1. 2039 \in Years /\ date.year \in Nat
            BY <1>1 DEF Years
        <3>. QED BY <1>1, <3>1, YearStartGrows
    <2>2. YearStart(date.year) >= 25202
        BY <1>2, <2>1, YearStartValues
    <2>3. days \in Nat /\ days <= 24855 /\ days = YearStart(date.year) + (MonthStart(date.year, date.month) + date.day - 1)
        BY DEF CalendarInv, DayOfYear
    <2>. QED BY <1>1, <1>2, <1>3, <2>2, <2>3
<1>. QED BY <1>1, <1>2, <1>3, <1>4

LEMMA CalendarInit == Init => CalendarInv
<1>. SUFFICES ASSUME Init PROVE CalendarInv
    OBVIOUS
<1>1. 1970 \in Years /\ 1 \in 1..12
    BY DEF Years
<1>2. MonthStart(1970, 1) = 0 /\ MonthDays(1970, 1) \in 28..31
    BY <1>1, MonthsAdd
<1>. QED BY <1>1, <1>2, YearStartValues DEF Init, CalendarInv, DayOfYear

LEMMA CalendarNext == CalendarInv /\ [Next]_vars => CalendarInv'
<1>. SUFFICES ASSUME CalendarInv, [Next]_vars PROVE CalendarInv'
    OBVIOUS
<1> DEFINE y == date.year
           m == date.month
           d == date.day
<1>1. /\ y \in Years /\ m \in 1..12 /\ d \in 1..31
      /\ date = [year |-> y, month |-> m, day |-> d]
      /\ YearStart(y) \in Nat /\ MonthStart(y, m) \in Nat
      /\ y <= 2038
    BY DateParts DEF CalendarInv
<1>6. y \in Years /\ m \in 1..12
    BY <1>1
<1>2. /\ d <= MonthDays(y, m)
      /\ days \in Nat
      /\ days = YearStart(y) + (MonthStart(y, m) + d - 1)
    BY DEF CalendarInv, DayOfYear
<1>3. MonthLength(y, m) = MonthDays(y, m) /\ MonthLength(y, 12) = MonthDays(y, 12)
    <2>1. y <= 2099 /\ 12 \in 1..12
        BY <1>1 DEF Years
    <2>. QED BY <1>1, <2>1, CalendarAgrees
<1>4. CASE Next
    <2>1. days' = days + 1 /\ days + 1 \in Nat /\ days + 1 <= 24855
        BY <1>2, <1>4, DaysAssumption DEF Next
    <2>. HIDE DEF y, m, d
    <2>2. CASE SameMonth
        <3>1. date' = [year |-> y, month |-> m, day |-> d + 1] /\ d < MonthDays(y, m)
            BY <1>1, <1>3, <2>2 DEF SameMonth, y, m, d
        <3>2. MonthDays(y, m) \in 28..31
            BY <1>6, MonthsAdd
        <3>3. d + 1 \in 1..31 /\ d + 1 <= MonthDays(y, m)
            BY <1>1, <3>1, <3>2
        <3>4. days' = YearStart(y) + (MonthStart(y, m) + (d + 1) - 1)
            BY <1>1, <1>2, <2>1
        <3>. QED BY <1>1, <2>1, <3>1, <3>3, <3>4 DEF CalendarInv, DayOfYear
    <2>3. CASE NextMonth
        <3>1. /\ date' = [year |-> y, month |-> m + 1, day |-> 1]
              /\ d = MonthDays(y, m) /\ m + 1 \in 1..12
            <4>1. date' = [date EXCEPT !.day = 1, !.month = m + 1] /\ d = MonthLength(y, m) /\ m < 12
                BY <2>3 DEF NextMonth, y, m, d
            <4>2. m + 1 \in 1..12
                BY <1>6, <4>1
            <4>3. date = [year |-> y, month |-> m, day |-> d]
                BY <1>1
            <4>4. date' = [year |-> y, month |-> m + 1, day |-> 1]
                BY <4>1, <4>3
            <4>. QED BY <1>3, <4>1, <4>2, <4>4
        <3>2. MonthStart(y, m + 1) = MonthStart(y, m) + MonthDays(y, m)
            BY <1>6, MonthsAdd
        <3>3. MonthDays(y, m + 1) \in 28..31
            BY <1>6, <3>1, MonthsAdd
        <3>4. days' = YearStart(y) + (MonthStart(y, m + 1) + 1 - 1)
            BY <1>1, <1>2, <2>1, <3>1, <3>2
        <3>5. 1 \in 1..31 /\ 1 <= MonthDays(y, m + 1)
            BY <3>3
        <3>. QED BY <1>1, <2>1, <3>1, <3>4, <3>5 DEF CalendarInv, DayOfYear
    <2>4. CASE NextYear
        <3>1. /\ date' = [year |-> y + 1, month |-> 1, day |-> 1] /\ m = 12 /\ d = 31
            BY <2>4 DEF NextYear, y, m, d
        <3>2. /\ MonthStart(y, 12 + 1) = MonthStart(y, 12) + MonthDays(y, 12)
              /\ MonthStart(y, 13) = DaysInYear(y)
              /\ MonthDays(y, 12) \in 28..31
            <4>1. 12 \in 1..12
                OBVIOUS
            <4>. QED BY <1>6, <4>1, MonthsAdd
        <3>3. MonthDays(y, 12) = 31
            BY <1>2, <3>1, <3>2
        <3>4. YearStart(y + 1) = YearStart(y) + DaysInYear(y)
            BY <1>1, YearsAdd
        <3>5. /\ MonthStart(y + 1, 1) = 0
              /\ MonthDays(y + 1, 1) \in 28..31
            <4>1. y + 1 \in Years /\ 1 \in 1..12
                BY <1>6, YearsAdd
            <4>. QED BY <4>1, MonthsAdd
        <3>6. days' = YearStart(y + 1) + (MonthStart(y + 1, 1) + 1 - 1)
            BY <1>1, <1>2, <2>1, <3>1, <3>2, <3>3, <3>4, <3>5
        <3>7. 1 \in 1..12 /\ 1 \in 1..31 /\ 1 <= MonthDays(y + 1, 1) /\ y + 1 \in Years
            BY <1>1, <3>5, YearsAdd
        <3>. QED BY <2>1, <3>1, <3>6, <3>7 DEF CalendarInv, DayOfYear
    <2>. QED BY <1>4, <2>2, <2>3, <2>4 DEF Next
<1>5. CASE UNCHANGED vars
    BY <1>5 DEF vars, CalendarInv, DayOfYear
<1>. QED BY <1>4, <1>5

-----------------------------------------------------------------------------
(* What the code answers. *)

\* The time zone that a client's clock is behind is added again.
LEMMA LocalIsAsked ==
    ASSUME days \in Nat, NEW s \in Nat, s < SECONDS, NEW tz \in Int
    PROVE  Local(Asked(s, tz), tz) = [day |-> days, sec |-> s]
<1> DEFINE x == s + 3600 * (0 - tz)
           q == x \div SECONDS
           r == x % SECONDS
<1>1. x \in Int /\ SECONDS = 86400
    BY DEF SECONDS
<1>2. q \in Int /\ r \in Int /\ x = 86400 * q + r
    <2>. HIDE DEF x
    <2>. QED BY <1>1
<1>3. r + 3600 * tz = s - 86400 * q
    <2>. HIDE DEF q, r
    <2>. QED BY <1>2
<1>4. (s - 86400 * q) \div 86400 = 0 - q /\ (s - 86400 * q) % 86400 = s
    <2>. HIDE DEF q, r, x
    <2>1. s \in Int /\ 0 <= s /\ s < 86400
        BY <1>1
    <2>. QED BY <1>2, <2>1
<1>5. Asked(s, tz) = [day |-> days + q, sec |-> r]
    BY DEF Asked, Shifted
<1>. HIDE DEF q, r, x
<1>6. Local(Asked(s, tz), tz) =
          [day |-> days + q + (r + 3600 * tz) \div SECONDS, sec |-> (r + 3600 * tz) % SECONDS]
    BY <1>5 DEF Local, Shifted
<1>7. days + q + (0 - q) = days
    BY <1>2
<1>. QED BY <1>1, <1>3, <1>4, <1>6, <1>7

\* The parts of a second of the day, in the code's order of divisions.
LEMMA ClockParts ==
    ASSUME NEW s \in Nat
    PROVE  (s % 3600) \div 60 = (s \div 60) % 60
<1> DEFINE h == s \div 3600
           r == s % 3600
           k == r \div 60
           e == r % 60
<1>1. h \in Nat /\ r \in Nat /\ r < 3600 /\ s = 3600 * h + r
    OBVIOUS
<1>. HIDE DEF h, r
<1>2. k \in Nat /\ e \in Nat /\ e < 60 /\ r = 60 * k + e
    BY <1>1
<1>. HIDE DEF k, e
<1>3. k < 60
    BY <1>1, <1>2
<1>4. s = 60 * (60 * h + k) + e
    BY <1>1, <1>2
<1>5. s \div 60 = 60 * h + k
    BY <1>1, <1>2, <1>4
<1>6. (60 * h + k) % 60 = k
    BY <1>1, <1>2, <1>3
<1>. QED BY <1>5, <1>6 DEF k, r

\* The answer, once both loops have stopped.
LEMMA Told ==
    ASSUME NEW t, NEW y, NEW u, NEW m, NEW v,
           get_year(t) = [year |-> y, left |-> u],
           get_month(u, y) = [month |-> m, left |-> v]
    PROVE  GetDateTime(t) =
               [year |-> y, month |-> m, day |-> 1 + v.day, hour |-> v.sec \div 3600,
                min |-> (v.sec % 3600) \div 60, sec |-> v.sec % 60]
BY DEF GetDateTime

\* A month's days are days of its year, and days from its beginning are its own.
LEMMA MonthInYear ==
    ASSUME NEW y \in Years, NEW m \in 1..12
    PROVE  /\ MonthStart(y, m) + MonthDays(y, m) <= DaysInYear(y)
           /\ MonthStart(y, m) = 0 => m = 1
<1>1. m \in {1, 2, 3, 4, 5, 6, 7, 8, 9, 10, 11, 12}
    OBVIOUS
<1>. QED BY <1>1 DEF MonthStart, MonthDays, get_calendar, calendar, calendar_leap, DaysInYear

\* The only year that begins on day 0 is 1970.
LEMMA FirstYear ==
    ASSUME NEW y \in Years
    PROVE  YearStart(y) >= 0 /\ (YearStart(y) = 0 => y = 1970)
<1>1. y > 1970 => YearStart(1970) < YearStart(y)
    <2>1. 1970 \in Years
        BY DEF Years
    <2>. QED BY <2>1, YearStartGrows
<1>2. YearStart(y) \in Nat
    BY YearsAdd
<1>. QED BY <1>1, <1>2, YearStartValues DEF Years

\* A day of the year's beginning, taken off, leaves the day of the year; the
\* month's, the day of the month.
LEMMA Taken ==
    ASSUME NEW n \in Nat, NEW k \in Nat, k <= n, NEW s \in Nat, s < SECONDS
    PROVE  /\ [day |-> n, sec |-> s] \in Moment
           /\ Minus([day |-> n, sec |-> s], k) = [day |-> n - k, sec |-> s]
<1>1. s \in 0..(SECONDS - 1)
    <2>1. SECONDS \in Nat
        BY DEF SECONDS
    <2>. QED BY <2>1
<1>. QED BY <1>1 DEF Moment, Minus

\* Where neither loop stops early.
LEMMA ToldRight ==
    ASSUME NEW y \in Years, NEW m \in 1..12, NEW d \in Nat, 1 <= d,
           d <= MonthDays(y, m),
           NEW s \in Nat, s < SECONDS, NEW n \in Nat,
           n = YearStart(y) + (MonthStart(y, m) + d - 1),
           d > 1 \/ s > 0 \/ n = 0
    PROVE  GetDateTime([day |-> n, sec |-> s]) = Ahead([year |-> y, month |-> m, day |-> d], s)
<1> DEFINE Y == YearStart(y)
           M == MonthStart(y, m)
           C == MonthDays(y, m)
           D == DaysInYear(y)
           t == [day |-> n, sec |-> s]
           u == [day |-> M + d - 1, sec |-> s]
           v == [day |-> d - 1, sec |-> s]
<1>1. Y \in Nat /\ D \in 365..366
    BY YearsAdd
<1>2. M \in Nat /\ C \in 28..31
    BY MonthsAdd
<1>3. M + C <= D /\ (M = 0 => m = 1) /\ (Y = 0 => y = 1970)
    BY MonthInYear, FirstYear
<1>4. d <= C /\ n = Y + (M + d - 1)
    OBVIOUS
<1>. HIDE DEF Y, M, C, D
<1>5. /\ Y <= n /\ M <= M + d - 1 /\ M + d - 1 \in Nat /\ d - 1 \in Nat
      /\ n - Y = M + d - 1 /\ M + d - 1 - M = d - 1
      /\ M + d - 1 < D /\ d - 1 < C
    BY <1>1, <1>2, <1>3, <1>4
<1>6. y = 1970 \/ Y < n \/ s > 0
    BY <1>1, <1>2, <1>3, <1>4
<1>7. m = 1 \/ M < M + d - 1 \/ s > 0
    BY <1>1, <1>2, <1>3, <1>4
<1>8. t \in Moment /\ Minus(t, Y) = u
    BY <1>1, <1>5, Taken
<1>9. u \in Moment /\ Minus(u, M) = v
    BY <1>2, <1>5, Taken
<1>10. ~ Exceeds(u, D) /\ ~ Exceeds(v, C)
    BY <1>1, <1>2, <1>5 DEF Exceeds
<1>11. t.day = n /\ t.sec = s /\ u.day = M + d - 1 /\ u.sec = s /\ v.day = d - 1 /\ v.sec = s
    OBVIOUS
<1>. HIDE DEF t, u, v
<1>12. get_year(t) = [year |-> y, left |-> u]
    <2>1. ~ Exceeds(Minus(t, YearStart(y)), DaysInYear(y)) /\ Minus(t, YearStart(y)) = u
        BY <1>8, <1>10 DEF Y, D
    <2>2. YearStart(y) <= t.day /\ (y = 1970 \/ YearStart(y) < t.day \/ t.sec > 0)
        BY <1>5, <1>6, <1>11 DEF Y
    <2>. QED BY <1>8, <2>1, <2>2, YearIs
<1>13. get_month(u, y) = [month |-> m, left |-> v]
    <2>1. ~ Exceeds(Minus(u, MonthStart(y, m)), MonthDays(y, m)) /\ Minus(u, MonthStart(y, m)) = v
        BY <1>9, <1>10 DEF M, C
    <2>2. MonthStart(y, m) <= u.day /\ (m = 1 \/ MonthStart(y, m) < u.day \/ u.sec > 0)
        BY <1>5, <1>7, <1>11 DEF M
    <2>. QED BY <1>9, <2>1, <2>2, MonthIs
<1>14. GetDateTime(t) =
           [year |-> y, month |-> m, day |-> 1 + v.day, hour |-> v.sec \div 3600,
            min |-> (v.sec % 3600) \div 60, sec |-> v.sec % 60]
    BY <1>12, <1>13, Told
<1>15. 1 + v.day = d /\ (s % 3600) \div 60 = (s \div 60) % 60
    BY <1>11, ClockParts
<1>16. GetDateTime(t) = Ahead([year |-> y, month |-> m, day |-> d], s)
    BY <1>11, <1>14, <1>15 DEF Ahead
<1>. QED BY <1>16 DEF t

\* At the beginning of any month but the very first, in the year it is in or the
\* one before, a loop stops a month early, on a day that the month does not have;
\* hour, minute and second are 0 all the same.
LEMMA ToldEarly ==
    ASSUME NEW y \in Years, NEW m \in 1..12, NEW n \in Nat,
           n = YearStart(y) + MonthStart(y, m), n > 0
    PROVE  LET a == GetDateTime([day |-> n, sec |-> 0])
           IN  a.day > 28 /\ a.hour = 0 /\ a.min = 0 /\ a.sec = 0
<1> DEFINE Stops(z, k) == /\ z \in Years /\ k \in 1..12
                          /\ n = YearStart(z) + (MonthStart(z, k) + MonthDays(z, k))
<1>1. PICK z, k : Stops(z, k)
    <2>1. CASE m # 1
        <3>1. m - 1 \in 1..12 /\ m - 1 + 1 = m
            BY <2>1
        <3>2. MonthStart(y, m) = MonthStart(y, m - 1) + MonthDays(y, m - 1)
            <4>1. MonthStart(y, m - 1 + 1) = MonthStart(y, m - 1) + MonthDays(y, m - 1)
                BY <3>1, MonthsAdd
            <4>. QED BY <3>1, <4>1, Zenon
        <3>3. Stops(y, m - 1)
            BY <3>1, <3>2
        <3>. QED BY <3>3
    <2>2. CASE m = 1
        <3>1. MonthStart(y, m) = 0
            BY <2>2, MonthsAdd
        <3>2. YearStart(y) \in Nat
            BY YearsAdd
        <3>3. y # 1970
            BY <3>1, <3>2, YearStartValues
        <3>4. y - 1 \in Years /\ y - 1 + 1 = y /\ 12 \in 1..12 /\ 12 + 1 = 13
            BY <3>3 DEF Years
        <3>5. YearStart(y) = YearStart(y - 1) + DaysInYear(y - 1)
            BY <3>4, YearsAdd
        <3>6. MonthStart(y - 1, 13) = MonthStart(y - 1, 12) + MonthDays(y - 1, 12)
              /\ MonthStart(y - 1, 13) = DaysInYear(y - 1)
            <4>1. /\ MonthStart(y - 1, 12 + 1) = MonthStart(y - 1, 12) + MonthDays(y - 1, 12)
                  /\ MonthStart(y - 1, 13) = DaysInYear(y - 1)
                BY <3>4, MonthsAdd
            <4>. QED BY <3>4, <4>1, Zenon
        <3>7. Stops(y - 1, 12)
            BY <3>1, <3>2, <3>4, <3>5, <3>6
        <3>. QED BY <3>7
    <2>. QED BY <2>1, <2>2
<1> DEFINE Y == YearStart(z)
           M == MonthStart(z, k)
           C == MonthDays(z, k)
           D == DaysInYear(z)
           t == [day |-> n, sec |-> 0]
           u == [day |-> M + C, sec |-> 0]
           v == [day |-> C, sec |-> 0]
<1>2. z \in Years /\ k \in 1..12 /\ n = Y + (M + C)
    BY <1>1
<1>3. Y \in Nat /\ D \in 365..366
    BY <1>2, YearsAdd
<1>4. M \in Nat /\ C \in 28..31
    BY <1>2, MonthsAdd
<1>5. M + C <= D
    BY <1>2, MonthInYear
<1>. HIDE DEF Y, M, C, D, Stops
<1>6. /\ Y < n /\ M < M + C /\ M + C \in Nat /\ C \in Nat /\ 0 \in Nat
      /\ n - Y = M + C /\ M + C - M = C
    BY <1>2, <1>3, <1>4
<1>7. 0 < SECONDS
    BY DEF SECONDS
<1>8. t \in Moment /\ Minus(t, Y) = u
    <2>1. Y <= n
        BY <1>2, <1>3, <1>6
    <2>. QED BY <1>3, <1>6, <1>7, <2>1, Taken
<1>9. u \in Moment /\ Minus(u, M) = v
    <2>1. M <= M + C
        BY <1>4
    <2>. QED BY <1>4, <1>6, <1>7, <2>1, Taken
<1>10. ~ Exceeds(u, D) /\ ~ Exceeds(v, C)
    BY <1>3, <1>4, <1>5 DEF Exceeds
<1>11. t.day = n /\ u.day = M + C /\ v.day = C /\ v.sec = 0
    OBVIOUS
<1>. HIDE DEF t, u, v
<1>12. get_year(t) = [year |-> z, left |-> u]
    <2>1. ~ Exceeds(Minus(t, YearStart(z)), DaysInYear(z)) /\ Minus(t, YearStart(z)) = u
        BY <1>8, <1>10 DEF Y, D
    <2>2. YearStart(z) <= t.day /\ YearStart(z) < t.day
        BY <1>2, <1>3, <1>4, <1>11 DEF Y
    <2>. QED BY <1>2, <1>8, <2>1, <2>2, YearIs
<1>13. get_month(u, z) = [month |-> k, left |-> v]
    <2>1. ~ Exceeds(Minus(u, MonthStart(z, k)), MonthDays(z, k)) /\ Minus(u, MonthStart(z, k)) = v
        BY <1>9, <1>10 DEF M, C
    <2>2. MonthStart(z, k) <= u.day /\ MonthStart(z, k) < u.day
        BY <1>4, <1>11 DEF M
    <2>. QED BY <1>2, <1>9, <2>1, <2>2, MonthIs
<1>14. GetDateTime(t) =
           [year |-> z, month |-> k, day |-> 1 + v.day, hour |-> v.sec \div 3600,
            min |-> (v.sec % 3600) \div 60, sec |-> v.sec % 60]
    BY <1>12, <1>13, Told
<1>15. 1 + v.day > 28
    BY <1>4, <1>11
<1>16. 0 \div 3600 = 0 /\ (0 % 3600) \div 60 = 0 /\ 0 % 60 = 0
    OBVIOUS
<1>17. LET a == GetDateTime(t) IN a.day > 28 /\ a.hour = 0 /\ a.min = 0 /\ a.sec = 0
    BY <1>11, <1>14, <1>15, <1>16
<1>. QED BY <1>17 DEF t

\* Date and time of the day are right in every zone, but for the first second of
\* a month, and then the time of the day is.
THEOREM LocalTimeCorrect == Spec => []LocalTimeIsRight
<1>1. CalendarInv => LocalTimeIsRight
    <2>. SUFFICES ASSUME CalendarInv, NEW s \in Seconds, NEW tz \in Zones
                  PROVE  \/ Answer(s, tz) = Ahead(date, s)
                         \/ /\ date.day = 1 /\ s = 0 /\ days > 0
                            /\ Answer(s, tz).day > 28
                            /\ \A f \in {"hour", "min", "sec"} : Answer(s, tz)[f] = 0
        BY DEF LocalTimeIsRight
    <2>1. s \in Nat /\ s < SECONDS /\ tz \in Int
        <3>1. s \in 0..(SECONDS - 1) /\ tz \in Int
            BY DaysAssumption
        <3>2. SECONDS \in Nat
            BY DEF SECONDS
        <3>. QED BY <3>1, <3>2
    <2>2. days \in Nat
        BY DEF CalendarInv
    <2>3. Answer(s, tz) = GetDateTime([day |-> days, sec |-> s])
        <3>1. Local(Asked(s, tz), tz) = [day |-> days, sec |-> s]
            BY <2>1, <2>2, LocalIsAsked
        <3>. QED BY <3>1 DEF Answer, Now
    <2> DEFINE y == date.year
               m == date.month
               d == date.day
    <2>4. /\ y \in Years /\ m \in 1..12 /\ d \in 1..31
          /\ date = [year |-> y, month |-> m, day |-> d]
        BY DateParts DEF CalendarInv
    <2>5. d <= MonthDays(y, m) /\ days = YearStart(y) + (MonthStart(y, m) + d - 1)
        BY DEF CalendarInv, DayOfYear
    <2>. HIDE DEF y, m, d
    <2>6. d \in Nat /\ 1 <= d /\ (d > 1 \/ d = 1)
        BY <2>4
    <2>7. CASE d > 1 \/ s > 0 \/ days = 0
        <3>1. GetDateTime([day |-> days, sec |-> s]) = Ahead([year |-> y, month |-> m, day |-> d], s)
            BY <2>1, <2>2, <2>4, <2>5, <2>6, <2>7, ToldRight
        <3>. QED BY <2>3, <2>4, <3>1
    <2>8. CASE d = 1 /\ s = 0 /\ days > 0
        <3>1. YearStart(y) \in Nat /\ MonthStart(y, m) \in Nat
            BY DateParts DEF y, m
        <3>2. days = YearStart(y) + MonthStart(y, m)
            BY <2>5, <2>8, <3>1
        <3>3. LET a == GetDateTime([day |-> days, sec |-> 0])
              IN  a.day > 28 /\ a.hour = 0 /\ a.min = 0 /\ a.sec = 0
            BY <2>2, <2>4, <2>8, <3>2, ToldEarly
        <3>. QED BY <2>3, <2>8, <3>3 DEF d
    <2>. QED BY <2>1, <2>2, <2>6, <2>7, <2>8
<1>. QED BY <1>1, CalendarInit, CalendarNext, PTL DEF Spec
=============================================================================
