----------------------------- MODULE Recursion -----------------------------
(***************************************************************************)
(* Induction and recursion over the natural numbers, in sets instead of    *)
(* predicates and functions instead of operators.  The loops of the code   *)
(* are recursive functions in these modules; to a prover such a function   *)
(* is a CHOOSE, and what it computes follows once it is known to exist.    *)
(***************************************************************************)
EXTENDS Integers, WellFoundedInduction, TLAPS

\* Numbers have a least one among them.
LEMMA LeastNumber ==
    ASSUME NEW S \in SUBSET Nat, S # {}
    PROVE  \E i \in S : \A j \in S : i <= j
<1> DEFINE R == OpToRel(<, Nat)
<1>1. PICK i \in S : \A j \in S : ~ (<<j, i>> \in R)
    <2>. HIDE DEF R
    <2>1. IsWellFoundedOn(R, Nat)
        BY NatLessThanWellFounded DEF R
    <2>. QED BY <2>1, WFMin
<1>2. \A j \in S : ~ (j < i)
    BY <1>1 DEF OpToRel
<1>. HIDE DEF R
<1>3. \A j \in S : i <= j
    BY <1>2
<1>. QED BY <1>3

\* A set that holds 0, and with a number the next one, holds every number.
LEMMA Induction ==
    ASSUME NEW S, 0 \in S, \A n \in Nat : n \in S => n + 1 \in S
    PROVE  \A n \in Nat : n \in S
<1> DEFINE T == Nat \ S
<1>1. SUFFICES ASSUME T # {} PROVE FALSE
    OBVIOUS
<1>2. PICK i \in T : \A j \in T : i <= j
    <2>. HIDE DEF T
    <2>1. T \in SUBSET Nat
        BY DEF T
    <2>. QED BY <1>1, <2>1, LeastNumber
<1>3. i \in Nat /\ i # 0 /\ i \notin S
    OBVIOUS
<1>4. i - 1 \in Nat /\ i - 1 < i /\ i - 1 + 1 = i
    <2>. HIDE DEF T
    <2>. QED BY <1>3
<1>5. i - 1 \in S
    <2>1. i - 1 \in T => i <= i - 1
        BY <1>2
    <2>2. ~ (i <= i - 1)
        <3>. HIDE DEF T
        <3>. QED BY <1>3
    <2>. QED BY <1>4, <2>1, <2>2
<1>. QED BY <1>3, <1>4, <1>5

\* The same up to a bound.
LEMMA BoundedInduction ==
    ASSUME NEW n \in Nat, NEW S, 0 \in S, \A m \in 0..(n - 1) : m \in S => m + 1 \in S
    PROVE  \A m \in 0..n : m \in S
<1> DEFINE T == {m \in Nat : m <= n => m \in S}
<1>1. 0 \in T
    OBVIOUS
<1>2. \A m \in Nat : m \in T => m + 1 \in T
    OBVIOUS
<1>3. \A m \in Nat : m \in T
    <2>. HIDE DEF T
    <2>. QED BY <1>1, <1>2, Induction
<1>. QED BY <1>3

\* The turns of a loop over states in A: turn i takes a to turn[i][a].
Turns(A, n) == [1..n -> [A -> A]]

\* The states of the loop, from base and after each of n turns.
Runs(A, base, n, turn) ==
    {f \in [0..n -> A] : f[0] = base /\ \A i \in 1..n : f[i] = turn[i][f[i - 1]]}

LEMMA LoopExists ==
    ASSUME NEW A, NEW base \in A, NEW n \in Nat, NEW turn \in Turns(A, n)
    PROVE  Runs(A, base, n, turn) # {}
<1> DEFINE Upto(m) == Runs(A, base, m, turn)
           S == {m \in Nat : m <= n => Upto(m) # {}}
<1>1. 0 \in S
    <2>1. [i \in 0..0 |-> base] \in Upto(0)
        BY DEF Runs
    <2>. QED BY <2>1
<1>2. ASSUME NEW m \in Nat, m \in S PROVE m + 1 \in S
    <2>1. SUFFICES ASSUME m + 1 <= n PROVE Upto(m + 1) # {}
        OBVIOUS
    <2>2. PICK f \in Upto(m) : TRUE
        BY <1>2, <2>1
    <2>3. f \in [0..m -> A] /\ f[m] \in A /\ m + 1 \in 1..n
        BY <2>1, <2>2 DEF Runs
    <2>4. turn[m + 1][f[m]] \in A
        BY <2>3 DEF Turns
    <2> DEFINE g == [i \in 0..(m + 1) |-> IF i = m + 1 THEN turn[m + 1][f[m]] ELSE f[i]]
    <2>5. g \in [0..(m + 1) -> A]
        BY <2>3, <2>4
    <2>6. g[0] = base
        BY <2>2 DEF Runs
    <2>7. ASSUME NEW i \in 1..(m + 1) PROVE g[i] = turn[i][g[i - 1]]
        <3>1. CASE i = m + 1
            BY <3>1
        <3>2. CASE i # m + 1
            <4>1. i \in 1..m /\ i - 1 \in 0..m /\ i - 1 # m + 1
                BY <3>2
            <4>2. g[i] = f[i] /\ g[i - 1] = f[i - 1]
                BY <4>1
            <4>. QED BY <2>2, <4>1, <4>2 DEF Runs
        <3>. QED BY <3>1, <3>2
    <2>. QED
        <3>. HIDE DEF g
        <3>. QED BY <2>5, <2>6, <2>7 DEF Runs
<1>3. n \in S
    <2>. HIDE DEF S
    <2>. QED BY <1>1, <1>2, Induction
<1>. QED BY <1>3

\* While loops: states in T take a step, and a measure gets smaller with each.  The
\* states that the loop ends in, for those that it needs at most n steps from.
Ending(A, T, step, measure, n) ==
    {h \in [A -> A] : \A a \in A : measure[a] <= n => h[a] = IF a \in T THEN h[step[a]] ELSE a}

Steps(A) == [A -> A]

Measures(A, T, step) == {measure \in [A -> Nat] : \A a \in T : measure[step[a]] < measure[a]}

WhileLoops(A, T, step) == {h \in [A -> A] : \A a \in A : h[a] = IF a \in T THEN h[step[a]] ELSE a}

LEMMA WhileExists ==
    ASSUME NEW A, NEW T \in SUBSET A, NEW step \in Steps(A), NEW measure \in Measures(A, T, step)
    PROVE  WhileLoops(A, T, step) # {}
<1>. /\ step \in [A -> A] /\ measure \in [A -> Nat]
     /\ \A a \in T : measure[step[a]] < measure[a]
    BY DEF Steps, Measures
<1> DEFINE Good(n) == Ending(A, T, step, measure, n)
<1>1. \A n \in Nat : Good(n) # {}
    <2> DEFINE S == {n \in Nat : Good(n) # {}}
    <2>1. 0 \in S
        <3>1. \A a \in A : measure[a] <= 0 => a \notin T
            <4>. SUFFICES ASSUME NEW a \in T, measure[a] <= 0 PROVE FALSE
                OBVIOUS
            <4>1. measure[a] \in Nat /\ measure[step[a]] \in Nat
                OBVIOUS
            <4>. QED BY <4>1
        <3>2. [a \in A |-> a] \in Good(0)
            BY <3>1 DEF Ending
        <3>. QED BY <3>2
    <2>2. ASSUME NEW n \in Nat, n \in S PROVE n + 1 \in S
        <3>1. PICK h \in Good(n) : TRUE
            BY <2>2
        <3>2. h \in [A -> A]
              /\ \A a \in A : measure[a] <= n => h[a] = IF a \in T THEN h[step[a]] ELSE a
            BY <3>1 DEF Ending
        <3> DEFINE g == [a \in A |-> IF measure[a] <= n THEN h[a]
                                     ELSE IF a \in T THEN h[step[a]] ELSE a]
        <3>3. g \in [A -> A]
            BY <3>2
        <3>4. ASSUME NEW a \in A, measure[a] <= n + 1
              PROVE  g[a] = IF a \in T THEN g[step[a]] ELSE a
            <4>1. CASE a \in T
                <5>1. measure[a] \in Nat /\ measure[step[a]] \in Nat /\ step[a] \in A
                    OBVIOUS
                <5>2. measure[step[a]] <= n
                    BY <3>4, <4>1, <5>1
                <5>3. g[step[a]] = h[step[a]]
                    BY <5>1, <5>2
                <5>. QED BY <3>2, <4>1, <5>3
            <4>2. CASE a \notin T
                BY <3>2, <4>2
            <4>. QED BY <4>1, <4>2
        <3>5. g \in Good(n + 1)
            <4>. HIDE DEF g
            <4>. QED BY <3>3, <3>4 DEF Ending
        <3>. QED BY <3>5
    <2>. HIDE DEF S
    <2>3. \A n \in Nat : n \in S
        BY <2>1, <2>2, Induction
    <2>. QED BY <2>3 DEF S
<1>2. ASSUME NEW n \in Nat, NEW j \in Nat, n <= j, NEW h \in Good(n), NEW g \in Good(j),
             NEW a \in A, measure[a] <= n
      PROVE  h[a] = g[a]
    <2> DEFINE S == {i \in Nat : \A b \in A : measure[b] <= n /\ measure[b] <= i => h[b] = g[b]}
    <2>1. /\ \A b \in A : measure[b] <= n => h[b] = IF b \in T THEN h[step[b]] ELSE b
          /\ \A b \in A : measure[b] <= j => g[b] = IF b \in T THEN g[step[b]] ELSE b
        BY DEF Ending
    <2>2. ASSUME NEW b \in A, measure[b] <= n,
                 b \in T => h[step[b]] = g[step[b]]
          PROVE  h[b] = g[b]
        <3>1. measure[b] \in Nat
            OBVIOUS
        <3>2. measure[b] <= j
            BY <1>2, <2>2, <3>1
        <3>. QED BY <2>1, <2>2, <3>2
    <2>3. 0 \in S
        <3>. SUFFICES ASSUME NEW b \in A, measure[b] <= n, measure[b] <= 0 PROVE h[b] = g[b]
            OBVIOUS
        <3>1. measure[b] \in Nat /\ (b \in T => measure[step[b]] \in Nat)
            OBVIOUS
        <3>2. b \notin T
            BY <3>1
        <3>. QED BY <2>2, <3>2
    <2>4. ASSUME NEW i \in Nat, i \in S PROVE i + 1 \in S
        <3>. SUFFICES ASSUME NEW b \in A, measure[b] <= n, measure[b] <= i + 1
                      PROVE  h[b] = g[b]
            OBVIOUS
        <3>1. b \in T => h[step[b]] = g[step[b]]
            <4>. SUFFICES ASSUME b \in T PROVE h[step[b]] = g[step[b]]
                OBVIOUS
            <4>1. measure[b] \in Nat /\ measure[step[b]] \in Nat /\ step[b] \in A
                OBVIOUS
            <4>2. measure[step[b]] < measure[b]
                OBVIOUS
            <4>3. measure[step[b]] <= n /\ measure[step[b]] <= i
                <5>. HIDE DEF Good
                <5>. QED BY <4>1, <4>2
            <4>. QED BY <2>4, <4>1, <4>3
        <3>. QED BY <2>2, <3>1
    <2>. HIDE DEF S
    <2>5. \A i \in Nat : i \in S
        BY <2>3, <2>4, Induction
    <2>6. n \in S
        BY <2>5
    <2>. QED BY <1>2, <2>6 DEF S
<1> DEFINE Some(n) == CHOOSE h \in Good(n) : TRUE
           H == [a \in A |-> Some(measure[a])[a]]
<1>3. ASSUME NEW n \in Nat PROVE Some(n) \in Good(n)
    BY <1>1
<1>4. ASSUME NEW n \in Nat PROVE Some(n) \in [A -> A]
    BY <1>3 DEF Ending
<1>. HIDE DEF Some, Good
<1>5. H \in [A -> A]
    BY <1>4
<1>6. ASSUME NEW a \in A PROVE H[a] = IF a \in T THEN H[step[a]] ELSE a
    <2> DEFINE n == measure[a]
    <2>1. n \in Nat /\ n <= n
        OBVIOUS
    <2>2. Some(n)[a] = IF a \in T THEN Some(n)[step[a]] ELSE a
        BY <1>3, <2>1 DEF Good, Ending
    <2>3. CASE a \in T
        <3>1. step[a] \in A /\ measure[step[a]] \in Nat /\ measure[step[a]] < n
            BY <2>3
        <3>2. Some(measure[step[a]])[step[a]] = Some(n)[step[a]]
            <4>. HIDE DEF n
            <4>1. measure[step[a]] <= n /\ measure[step[a]] <= measure[step[a]]
                BY <2>1, <3>1
            <4>. QED BY <1>2, <1>3, <2>1, <3>1, <4>1
        <3>. QED BY <2>2, <2>3, <3>1, <3>2
    <2>4. CASE a \notin T
        BY <2>2, <2>4
    <2>. QED BY <2>3, <2>4
<1>7. H \in WhileLoops(A, T, step)
    <2>. HIDE DEF H
    <2>. QED BY <1>5, <1>6 DEF WhileLoops
<1>. QED BY <1>7
=============================================================================
