----------------------------- MODULE RestProofs -----------------------------
(***************************************************************************)
(* Proofs about requests and replies, for every set of lines, every size   *)
(* of the send buffer that the replies fit in, and URLs of any length.     *)
(***************************************************************************)
EXTENDS Rest, FiniteSetTheorems, SequenceTheorems, Recursion

-----------------------------------------------------------------------------
(* getValue's loop. *)

Scan == [found : Nat, first : Int, last : Int]

NothingFound == [found |-> 0, first |-> 0, last |-> -1]

\* The loop's variables before it and from one turn to the next.
LEMMA ScannedIsLoop ==
    ASSUME NEW W, NEW string \in Seq(W), NEW separator, NEW index \in Nat
    PROVE  LET after == Scanned(string, separator, index)
           IN  /\ after \in [0..(Len(string) + 1) -> Scan]
               /\ after[0] = NothingFound
               /\ \A n \in 0..Len(string) :
                      after[n + 1] = Turn(string, separator, index, after[n], n)
<1> DEFINE max == Len(string) + 1
           step == [n \in 1..max |-> [s \in Scan |-> Turn(string, separator, index, s, n - 1)]]
           Body(f) == [n \in 0..max |->
                          IF n = 0 THEN NothingFound
                          ELSE Turn(string, separator, index, f[n - 1], n - 1)]
<1>1. max \in Nat /\ Len(string) \in Nat
    OBVIOUS
<1>2. ASSUME NEW s \in Scan, NEW n \in 1..max
      PROVE  Turn(string, separator, index, s, n - 1) \in Scan
    <2>. HIDE DEF max
    <2>1. n - 1 \in Int /\ s.last + 1 \in Int /\ s.found + 1 \in Nat
        BY <1>1 DEF Scan
    <2>. QED BY <2>1 DEF Turn, Scan
<1>3. step \in Turns(Scan, max)
    BY <1>2 DEF Turns
<1>4. NothingFound \in Scan
    BY DEF NothingFound, Scan
<1>5. PICK f \in Runs(Scan, NothingFound, max, step) : TRUE
    <2>. HIDE DEF step, max
    <2>. QED BY <1>1, <1>3, <1>4, LoopExists
<1>6. f = Body(f)
    <2>1. ASSUME NEW n \in 0..max PROVE f[n] = Body(f)[n]
        <3>1. CASE n = 0
            BY <3>1, <1>5 DEF Runs
        <3>2. CASE n # 0
            <4>1. n \in 1..max /\ n - 1 \in 0..max
                BY <3>2, <1>1
            <4>2. f[n - 1] \in Scan
                BY <4>1, <1>5 DEF Runs
            <4>. QED BY <3>2, <4>1, <4>2, <1>5 DEF Runs
        <3>. QED BY <3>1, <3>2
    <2>. QED BY <2>1, <1>5 DEF Runs
<1>7. Scanned(string, separator, index) = CHOOSE g : g = Body(g)
    BY DEF Scanned, NothingFound
<1> DEFINE after == Scanned(string, separator, index)
<1>8. after = Body(after)
    BY <1>6, <1>7
<1>9. \A n \in 0..max :
          after[n] = IF n = 0 THEN NothingFound
                     ELSE Turn(string, separator, index, after[n - 1], n - 1)
    <2>. HIDE DEF after, max
    <2>. QED BY <1>8
<1>10. DOMAIN after = 0..max
    <2>. HIDE DEF after, max
    <2>. QED BY <1>8
<1>11. \A n \in 0..max : after[n] \in Scan
    <2> DEFINE S == {n \in 0..max : after[n] \in Scan}
    <2>1. 0 \in S
        <3>. HIDE DEF after, max
        <3>. QED BY <1>1, <1>4, <1>9
    <2>2. ASSUME NEW n \in 0..(max - 1), n \in S PROVE n + 1 \in S
        <3>. HIDE DEF after, max
        <3>1. n + 1 \in 1..max /\ n + 1 - 1 = n /\ n + 1 # 0 /\ n + 1 \in 0..max
            BY <1>1
        <3>. QED BY <1>2, <1>9, <2>2, <3>1
    <2>. HIDE DEF S
    <2>3. \A n \in 0..max : n \in S
        BY <1>1, <2>1, <2>2, BoundedInduction
    <2>. QED BY <2>3 DEF S
<1>12. \A n \in 0..Len(string) :
          after[n + 1] = Turn(string, separator, index, after[n], n)
    <2>. TAKE n \in 0..Len(string)
    <2>1. n + 1 \in 0..max /\ n + 1 # 0 /\ n + 1 - 1 = n
        BY <1>1
    <2>. HIDE DEF after, max
    <2>. QED BY <1>9, <2>1
<1>13. after[0] = NothingFound
    <2>. HIDE DEF after, max
    <2>. QED BY <1>1, <1>9
<1>14. after \in [0..max -> Scan]
    <2>1. after = [n \in 0..max |-> after[n]]
        <3>. HIDE DEF after, max
        <3>. QED BY <1>8
    <2>. HIDE DEF after, max
    <2>. QED BY <2>1, <1>11
<1>. QED BY <1>12, <1>13, <1>14

-----------------------------------------------------------------------------
(* Separators, counted from the left. *)

Upto(C, n) == {c \in C : c <= n}

LEMMA PositionsFinite ==
    ASSUME NEW L \in Nat, NEW C \in SUBSET (1..L)
    PROVE  IsFiniteSet(C) /\ \A c \in C : c \in Nat
<1>1. IsFiniteSet(1..L)
    BY FS_Interval
<1>2. IsFiniteSet(C)
    BY <1>1, FS_Subset
<1>3. \A c \in C : c \in 1..L
    OBVIOUS
<1>. QED BY <1>2, <1>3

\* In a set of positions, one more is counted exactly where one is.
LEMMA CountNext ==
    ASSUME NEW L \in Nat, NEW C \in SUBSET (1..L), NEW n \in Nat
    PROVE  /\ Cardinality(Upto(C, n)) \in Nat
           /\ Cardinality(Upto(C, n)) <= Cardinality(C)
           /\ Cardinality(Upto(C, n + 1)) =
                  Cardinality(Upto(C, n)) + (IF n + 1 \in C THEN 1 ELSE 0)
<1>1. IsFiniteSet(C) /\ \A c \in C : c \in Nat
    BY PositionsFinite
<1>2. Upto(C, n) \in SUBSET C
    BY DEF Upto
<1>3. IsFiniteSet(Upto(C, n)) /\ Cardinality(Upto(C, n)) <= Cardinality(C)
    BY <1>1, <1>2, FS_Subset
<1>4. Cardinality(Upto(C, n)) \in Nat
    BY <1>3, FS_CardinalityType
<1>. \A c \in C : (c <= n + 1 <=> c <= n \/ c = n + 1) /\ ~ (n + 1 <= n)
    BY <1>1
<1>5. CASE n + 1 \in C
    <2>1. Upto(C, n + 1) = Upto(C, n) \cup {n + 1} /\ n + 1 \notin Upto(C, n)
        BY <1>5, Zenon DEF Upto
    <2>2. Cardinality(Upto(C, n) \cup {n + 1}) = Cardinality(Upto(C, n)) + 1
        BY <1>3, <2>1, FS_AddElement
    <2>. QED BY <1>3, <1>4, <1>5, <2>1, <2>2
<1>6. CASE n + 1 \notin C
    <2>1. Upto(C, n + 1) = Upto(C, n)
        BY <1>6, Zenon DEF Upto
    <2>. QED BY <1>3, <1>4, <1>6, <2>1
<1>. QED BY <1>5, <1>6

\* If as many are counted up to one place as up to another, none lies between.
LEMMA SameCount ==
    ASSUME NEW L \in Nat, NEW C \in SUBSET (1..L), NEW n \in Nat, NEW m \in Nat, m <= n,
           Cardinality(Upto(C, m)) = Cardinality(Upto(C, n))
    PROVE  \A c \in C : c <= m \/ n < c
<1>1. IsFiniteSet(C) /\ \A c \in C : c \in Nat
    BY PositionsFinite
<1>2. Upto(C, n) \in SUBSET C /\ Upto(C, m) \in SUBSET Upto(C, n)
    <2>1. \A c \in C : c <= m => c <= n
        BY <1>1
    <2>. QED BY <2>1, Zenon DEF Upto
<1>3. IsFiniteSet(Upto(C, n))
    BY <1>1, <1>2, FS_Subset
<1>4. Upto(C, m) = Upto(C, n)
    BY <1>2, <1>3, FS_Subset
<1>. QED BY <1>4 DEF Upto

Cuts(string, separator) == {i \in 1..Len(string) : string[i] = separator}

Ends(string, separator) == Cuts(string, separator) \cup {Len(string) + 1}

\* What getValue's loop has found in the first n characters.
ScanInv(string, separator, index, n, s) ==
    LET C == Cuts(string, separator)
        E == Ends(string, separator)
        k == Cardinality(Upto(E, n))
    IN  /\ s.found = IF k <= index THEN k ELSE index + 1
        /\ s.found = 0 => s = NothingFound
        /\ s.found > 0 =>
               /\ s.first \in C \cup {0}
               /\ s.last + 1 \in Upto(E, n)
               /\ s.first <= s.last
               /\ Cardinality(Upto(C, s.first)) = s.found - 1
               /\ Cardinality(Upto(E, s.last + 1)) = s.found
               /\ \A c \in E : c <= s.first \/ s.last + 1 <= c

\* The end of the string is one more separator, after all others.
LEMMA EndIsLast ==
    ASSUME NEW W, NEW string \in Seq(W), NEW separator
    PROVE  LET C == Cuts(string, separator)
               E == Ends(string, separator)
           IN  /\ C \in SUBSET (1..Len(string))
               /\ E \in SUBSET (1..(Len(string) + 1))
               /\ \A n \in 0..Len(string) : Upto(E, n) = Upto(C, n)
               /\ Upto(E, Len(string) + 1) = E
               /\ Upto(C, 0) = {} /\ Upto(E, 0) = {}
               /\ Cardinality(E) = Cardinality(C) + 1
<1>1. Len(string) \in Nat
    OBVIOUS
<1>2. Cuts(string, separator) \in SUBSET (1..Len(string))
    BY DEF Cuts
<1>3. IsFiniteSet(Cuts(string, separator))
    BY <1>1, <1>2, PositionsFinite
<1>4. Len(string) + 1 \notin Cuts(string, separator)
    BY <1>1, <1>2
<1>5. Cardinality(Ends(string, separator)) = Cardinality(Cuts(string, separator)) + 1
    BY <1>3, <1>4, FS_AddElement DEF Ends
<1>. QED BY <1>1, <1>2, <1>5 DEF Upto, Ends

\* Each turn of the loop keeps it.
LEMMA ScanStep ==
    ASSUME NEW W, NEW string \in Seq(W), NEW separator, NEW index \in Nat,
           NEW n \in 0..Len(string), NEW s \in Scan,
           ScanInv(string, separator, index, n, s)
    PROVE  ScanInv(string, separator, index, n + 1, Turn(string, separator, index, s, n))
<1> DEFINE L == Len(string)
           C == Cuts(string, separator)
           E == Ends(string, separator)
           k == Cardinality(Upto(E, n))
           t == Turn(string, separator, index, s, n)
<1>1. /\ L \in Nat /\ n \in Nat /\ n <= L /\ C \in SUBSET (1..L) /\ E \in SUBSET (1..(L + 1))
      /\ \A m \in 0..L : Upto(E, m) = Upto(C, m)
      /\ Upto(C, 0) = {} /\ Upto(E, 0) = {}
    BY EndIsLast
<1>2. n + 1 \in E <=> n = L \/ string[n + 1] = separator
    BY <1>1 DEF Ends, Cuts
<1>3. k \in Nat /\ Cardinality(Upto(E, n + 1)) = k + (IF n + 1 \in E THEN 1 ELSE 0)
    <2>. HIDE DEF E, L, C
    <2>1. L + 1 \in Nat
        BY <1>1
    <2>. QED BY <1>1, <2>1, CountNext
<1>4. /\ s.found \in Nat /\ s.first \in Int /\ s.last \in Int
      /\ s.found = IF k <= index THEN k ELSE index + 1
      /\ s.found = 0 => s = NothingFound
      /\ s.found > 0 =>
             /\ s.first \in C \cup {0}
             /\ s.last + 1 \in Upto(E, n)
             /\ s.first <= s.last
             /\ Cardinality(Upto(C, s.first)) = s.found - 1
             /\ Cardinality(Upto(E, s.last + 1)) = s.found
             /\ \A c \in E : c <= s.first \/ s.last + 1 <= c
    BY DEF ScanInv, Scan
<1>5. CASE s.found <= index /\ n + 1 \in E
    <2>1. t = [found |-> s.found + 1, first |-> s.last + 1, last |-> n]
        BY <1>2, <1>5 DEF Turn
    <2>2. k = s.found
        BY <1>3, <1>4, <1>5
    <2>3. /\ s.last + 1 \in C \cup {0}
          /\ s.last + 1 <= n
          /\ s.last + 1 \in 0..L
          /\ Cardinality(Upto(E, s.last + 1)) = s.found
        <3>1. CASE s.found = 0
            <4>1. s.last + 1 = 0
                BY <1>4, <3>1 DEF NothingFound
            <4>2. Cardinality(Upto(E, 0)) = 0
                BY <1>1, FS_EmptySet
            <4>. HIDE DEF E, C, L
            <4>. QED BY <1>1, <3>1, <4>1, <4>2
        <3>2. CASE s.found > 0
            <4>1. s.last + 1 \in E /\ s.last + 1 <= n
                BY <1>4, <3>2 DEF Upto
            <4>2. s.last + 1 \in C
                BY <1>1, <1>4, <4>1 DEF Ends
            <4>. QED BY <1>1, <1>4, <3>2, <4>1, <4>2
        <3>. QED BY <1>4, <3>1, <3>2
    <2>4. Cardinality(Upto(C, s.last + 1)) = s.found
        BY <1>1, <2>3
    <2>5. \A c \in E : c <= s.last + 1 \/ n < c
        <3>. HIDE DEF E, L, C
        <3>1. s.last + 1 \in Nat /\ L + 1 \in Nat
            BY <2>3, <1>1
        <3>. QED BY <1>1, <2>2, <2>3, <3>1, SameCount
    <2>6. n + 1 \in Upto(E, n + 1)
        BY <1>5, <1>1 DEF Upto
    <2>7. Cardinality(Upto(E, n + 1)) = s.found + 1
        BY <1>3, <1>5, <2>2
    <2>8. \A c \in E : n < c => n + 1 <= c
        BY <1>1
    <2>. HIDE DEF E, C, k, L
    <2>. QED BY <1>1, <1>3, <1>4, <1>5, <2>1, <2>2, <2>3, <2>4, <2>5, <2>6, <2>7, <2>8
             DEF ScanInv, E, C
<1>6. CASE ~ (s.found <= index /\ n + 1 \in E)
    <2>1. t = s
        BY <1>2, <1>6 DEF Turn
    <2>2. s.found = LET j == Cardinality(Upto(E, n + 1)) IN IF j <= index THEN j ELSE index + 1
        BY <1>3, <1>4, <1>6
    <2>3. s.last + 1 \in Upto(E, n) => s.last + 1 \in Upto(E, n + 1)
        BY <1>1, <1>4 DEF Upto
    <2>. QED BY <1>4, <2>1, <2>2, <2>3 DEF ScanInv
<1>. QED BY <1>5, <1>6

\* After its last turn the loop has seen every separator and the end.
LEMMA ScanEnds ==
    ASSUME NEW W, NEW string \in Seq(W), NEW separator, NEW index \in Nat
    PROVE  LET s == Scanned(string, separator, index)[Len(string) + 1]
           IN  s \in Scan /\ ScanInv(string, separator, index, Len(string) + 1, s)
<1> DEFINE L == Len(string)
           after == Scanned(string, separator, index)
           S == {n \in Nat : ScanInv(string, separator, index, n, after[n])}
<1>1. L \in Nat /\ L + 1 \in Nat
    OBVIOUS
<1>2. /\ after \in [0..(L + 1) -> Scan]
      /\ after[0] = NothingFound
      /\ \A n \in 0..L : after[n + 1] = Turn(string, separator, index, after[n], n)
    BY ScannedIsLoop
<1>3. 0 \in S
    <2>1. Cardinality(Upto(Ends(string, separator), 0)) = 0
        BY EndIsLast, FS_EmptySet
    <2>. QED BY <1>2, <2>1 DEF ScanInv, NothingFound
<1>4. ASSUME NEW n \in 0..((L + 1) - 1), n \in S PROVE n + 1 \in S
    <2>1. n \in 0..L /\ n \in 0..(L + 1) /\ n + 1 \in Nat
        BY <1>1
    <2>2. after[n] \in Scan
        BY <1>2, <2>1
    <2>. HIDE DEF after
    <2>. QED BY <1>2, <1>4, <2>1, <2>2, ScanStep
<1>5. L + 1 \in S
    <2>. HIDE DEF S
    <2>1. \A n \in 0..(L + 1) : n \in S
        BY <1>1, <1>3, <1>4, BoundedInduction
    <2>. QED BY <1>1, <2>1
<1>. QED BY <1>1, <1>2, <1>5

-----------------------------------------------------------------------------
(* getValue. *)

\* A field begins after as many separators as its index says.
FieldStarts(string, separator, index) ==
    {i \in Cuts(string, separator) \cup {0} :
        Cardinality(Upto(Cuts(string, separator), i)) = index}

\* No two fields have one index.
LEMMA StartIsUnique ==
    ASSUME NEW W, NEW string \in Seq(W), NEW separator, NEW index \in Nat,
           NEW i \in FieldStarts(string, separator, index),
           NEW j \in FieldStarts(string, separator, index)
    PROVE  i = j
<1> DEFINE C == Cuts(string, separator)
           L == Len(string)
<1>1. L \in Nat /\ C \in SUBSET (1..L)
    BY DEF Cuts
<1>2. /\ i \in C \cup {0} /\ j \in C \cup {0}
      /\ Cardinality(Upto(C, i)) = Cardinality(Upto(C, j))
    BY DEF FieldStarts
<1>3. i \in Nat /\ j \in Nat
    BY <1>1, <1>2
<1>. HIDE DEF C, L
<1>4. CASE i < j
    <2>. i <= j
        BY <1>3, <1>4
    <2>1. \A c \in C : c <= i \/ j < c
        BY <1>1, <1>2, <1>3, SameCount
    <2>2. j \in C
        BY <1>2, <1>3, <1>4
    <2>. QED BY <1>3, <1>4, <2>1, <2>2
<1>5. CASE j < i
    <2>. j <= i
        BY <1>3, <1>5
    <2>1. \A c \in C : c <= j \/ i < c
        BY <1>1, <1>2, <1>3, SameCount
    <2>2. i \in C
        BY <1>2, <1>3, <1>5
    <2>. QED BY <1>3, <1>5, <2>1, <2>2
<1>. QED BY <1>3, <1>4, <1>5

\* A field that there is goes from one separator to the next.
LEMMA FieldBetween ==
    ASSUME NEW W, NEW string \in Seq(W), NEW separator, NEW index \in Nat,
           NEW first \in FieldStarts(string, separator, index),
           NEW end \in Ends(string, separator), first < end,
           \A c \in Ends(string, separator) : c <= first \/ end <= c
    PROVE  /\ first \in 0..Len(string) /\ end \in 1..(Len(string) + 1)
           /\ Field(string, separator, index) = SubSeq(string, first + 1, end - 1)
<1> DEFINE C == Cuts(string, separator)
           E == Ends(string, separator)
           Start == FieldStarts(string, separator, index)
           Stop == {i \in E : \A j \in Start : i > j}
<1>1. /\ Len(string) \in Nat
      /\ C \in SUBSET (1..Len(string)) /\ E \in SUBSET (1..(Len(string) + 1))
    BY EndIsLast
<1>2. first \in C \cup {0}
    BY DEF FieldStarts
<1>3. first \in 0..Len(string) /\ end \in 1..(Len(string) + 1)
    BY <1>1, <1>2
<1>4. Start = {first}
    BY StartIsUnique
<1>5. Max(Start) = first
    BY <1>3, <1>4 DEF Max
<1>6. Stop = {i \in E : i > first}
    BY <1>4
<1>7. end \in Stop /\ \A i \in Stop : end <= i
    <2>1. \A i \in E : i \in Nat
        BY <1>1
    <2>. QED BY <1>3, <1>6, <2>1
<1>8. Min(Stop) = end
    <2>1. \A i \in Stop : i \in Nat
        BY <1>1
    <2>2. Min(Stop) \in Stop /\ \A i \in Stop : Min(Stop) <= i
        <3>. HIDE DEF Stop
        <3>. QED BY <1>7 DEF Min
    <2>. HIDE DEF Stop
    <2>. QED BY <1>7, <2>1, <2>2
<1>9. Field(string, separator, index) =
          IF Start = {} THEN <<>> ELSE SubSeq(string, Max(Start) + 1, Min(Stop) - 1)
    BY DEF Field, FieldStarts, Cuts, Ends, Upto
<1>. HIDE DEF Start, Stop
<1>. QED BY <1>3, <1>4, <1>5, <1>8, <1>9

\* A field of an index beyond the last does not exist.
LEMMA NoField ==
    ASSUME NEW W, NEW string \in Seq(W), NEW separator, NEW index \in Nat,
           Cardinality(Cuts(string, separator)) < index
    PROVE  Field(string, separator, index) = <<>>
<1> DEFINE C == Cuts(string, separator)
           L == Len(string)
<1>1. L \in Nat /\ C \in SUBSET (1..L)
    BY DEF Cuts
<1>2. IsFiniteSet(C)
    <2>. HIDE DEF C, L
    <2>. QED BY <1>1, PositionsFinite
<1>3. Cardinality(C) \in Nat
    BY <1>2, FS_CardinalityType
<1>4. ASSUME NEW i \in C \cup {0} PROVE Cardinality(Upto(C, i)) # index
    <2>1. i \in Nat
        BY <1>1, <1>4
    <2>2. Cardinality(Upto(C, i)) \in Nat /\ Cardinality(Upto(C, i)) <= Cardinality(C)
        <3>. HIDE DEF C, L
        <3>. QED BY <1>1, <2>1, CountNext
    <2>. QED BY <1>3, <2>2
<1>5. FieldStarts(string, separator, index) = {}
    BY <1>4 DEF FieldStarts
<1>. QED BY <1>5 DEF Field, FieldStarts, Cuts, Upto

\* A part of a string.
LEMMA PartOf ==
    ASSUME NEW W, NEW string \in Seq(W), NEW a \in 0..Len(string), NEW b \in 0..Len(string),
           a <= b
    PROVE  LET part == SubSeq(string, a + 1, b)
           IN  /\ part \in Seq(W) /\ Len(part) = b - a
               /\ \A i \in 1..(b - a) : part[i] = string[a + i]
<1> DEFINE part == SubSeq(string, a + 1, b)
<1>1. /\ Len(string) \in Nat /\ a \in Nat /\ b \in Nat
      /\ b - (a + 1) + 1 = b - a /\ b - a \in Nat
    OBVIOUS
<1>2. part = [i \in 1..(b - a) |-> string[(a + 1) + i - 1]]
    BY <1>1
<1>3. ASSUME NEW i \in 1..(b - a)
      PROVE  part[i] = string[a + i] /\ string[a + i] \in W
    <2>1. (a + 1) + i - 1 = a + i /\ a + i \in 1..Len(string)
        BY <1>1
    <2>. QED BY <1>2, <2>1
<1>4. part \in Seq(W) /\ Len(part) = b - a
    BY <1>1, <1>2, <1>3
<1>. QED BY <1>3, <1>4

\* getValue returns the field of every string, for every separator and index.
THEOREM GetValueIsRight ==
    ASSUME NEW W, NEW string \in Seq(W), NEW separator, NEW index \in Nat
    PROVE  LET f == Field(string, separator, index)
               v == getValue(string, separator, index)
           IN  /\ f \in Seq(W)
               /\ v.text = f
               /\ v.size = IF f = <<>> THEN -1 ELSE Len(f)
<1> DEFINE L == Len(string)
           C == Cuts(string, separator)
           E == Ends(string, separator)
           s == Scanned(string, separator, index)[L + 1]
           f == Field(string, separator, index)
           size == s.last - s.first
<1>1. s \in Scan /\ ScanInv(string, separator, index, L + 1, s)
    BY ScanEnds
<1>2. L \in Nat /\ Upto(E, L + 1) = E /\ E \in SUBSET (1..(L + 1))
      /\ Cardinality(E) = Cardinality(C) + 1 /\ Cardinality(C) \in Nat
    <2>1. C \in SUBSET (1..L) /\ L \in Nat
        BY DEF Cuts
    <2>2. IsFiniteSet(C)
        <3>. HIDE DEF C, L
        <3>. QED BY <2>1, PositionsFinite
    <2>. QED BY <2>1, <2>2, EndIsLast, FS_CardinalityType
<1>3. getValue(string, separator, index) =
          IF s.found - 1 >= index /\ size # 0
          THEN [text |-> SubSeq(string, s.first + 1, s.last), size |-> size]
          ELSE [text |-> <<>>, size |-> -1]
    BY DEF getValue, Found
<1>4. /\ s.found \in Nat /\ s.first \in Int /\ s.last \in Int
      /\ s.found = IF Cardinality(E) <= index THEN Cardinality(E) ELSE index + 1
      /\ s.found > 0 =>
             /\ s.first \in C \cup {0}
             /\ s.last + 1 \in E
             /\ s.first <= s.last
             /\ Cardinality(Upto(C, s.first)) = s.found - 1
             /\ \A c \in E : c <= s.first \/ s.last + 1 <= c
    BY <1>1, <1>2 DEF ScanInv, Scan
<1> DEFINE first == s.first
           last == s.last
<1>5. CASE s.found - 1 >= index
    <2>1. s.found > 0 /\ s.found - 1 = index
        BY <1>2, <1>4, <1>5
    <2>2. first \in FieldStarts(string, separator, index)
        BY <1>4, <2>1 DEF FieldStarts
    <2>3. /\ first \in Int /\ last \in Int /\ first < last + 1 /\ last + 1 \in E
          /\ \A c \in E : c <= first \/ last + 1 <= c
        BY <1>4, <2>1
    <2>4. /\ first \in 0..L /\ last + 1 \in 1..(L + 1)
          /\ f = SubSeq(string, first + 1, (last + 1) - 1)
        <3>. HIDE DEF first, last
        <3>. QED BY <2>2, <2>3, FieldBetween
    <2>5. (last + 1) - 1 = last /\ last \in 0..L /\ first <= last
        <3>. HIDE DEF first, last
        <3>. QED BY <1>2, <2>3, <2>4
    <2>6. f = SubSeq(string, first + 1, last)
        <3>. HIDE DEF first, last
        <3>. QED BY <2>4, <2>5
    <2>7. f \in Seq(W) /\ Len(f) = last - first
        <3>. HIDE DEF first, last, f
        <3>. QED BY <2>4, <2>5, <2>6, PartOf
    <2>8. f = <<>> <=> last - first = 0
        <3>. HIDE DEF first, last, f
        <3>. QED BY <2>3, <2>7
    <2>9. getValue(string, separator, index) =
              IF last - first # 0 THEN [text |-> f, size |-> last - first]
              ELSE [text |-> <<>>, size |-> -1]
        BY <1>3, <1>5, <2>6
    <2>. HIDE DEF first, last
    <2>10. QED BY <2>7, <2>8, <2>9
<1>6. CASE ~ (s.found - 1 >= index)
    <2>1. Cardinality(C) < index
        BY <1>2, <1>4, <1>6
    <2>2. f = <<>>
        BY <2>1, NoField
    <2>3. getValue(string, separator, index) = [text |-> <<>>, size |-> -1]
        BY <1>3, <1>6
    <2>4. <<>> \in Seq(W)
        OBVIOUS
    <2>. QED BY <2>2, <2>3, <2>4
<1>. QED BY <1>5, <1>6

\* What getValue copies is the field asked for, or the last one of a string that has
\* too few.
LEMMA CopiedIsField ==
    ASSUME NEW W, NEW string \in Seq(W), NEW separator, NEW index \in Nat
    PROVE  \E j \in 0..index :
               /\ Copied(string, separator, index) = Field(string, separator, j)
               /\ \A i \in 0..index : Field(string, separator, i) # <<>> => i <= j
<1> DEFINE L == Len(string)
           C == Cuts(string, separator)
           E == Ends(string, separator)
           s == Scanned(string, separator, index)[L + 1]
           j == s.found - 1
<1>1. s \in Scan /\ ScanInv(string, separator, index, L + 1, s)
    BY ScanEnds
<1>2. L \in Nat /\ Upto(E, L + 1) = E /\ E \in SUBSET (1..(L + 1))
      /\ Cardinality(E) = Cardinality(C) + 1 /\ Cardinality(C) \in Nat
    <2>1. C \in SUBSET (1..L) /\ L \in Nat
        BY DEF Cuts
    <2>2. IsFiniteSet(C)
        <3>. HIDE DEF C, L
        <3>. QED BY <2>1, PositionsFinite
    <2>. QED BY <2>1, <2>2, EndIsLast, FS_CardinalityType
<1>3. Copied(string, separator, index) = SubSeq(string, s.first + 1, s.last)
    BY DEF Copied
<1>4. /\ s.found \in Nat /\ s.first \in Int /\ s.last \in Int
      /\ s.found = IF Cardinality(E) <= index THEN Cardinality(E) ELSE index + 1
      /\ s.found > 0 =>
             /\ s.first \in C \cup {0}
             /\ s.last + 1 \in E
             /\ s.first <= s.last
             /\ Cardinality(Upto(C, s.first)) = s.found - 1
             /\ \A c \in E : c <= s.first \/ s.last + 1 <= c
    BY <1>1, <1>2 DEF ScanInv, Scan
<1> DEFINE first == s.first
           last == s.last
           k == Cardinality(C)
<1>5. s.found > 0 /\ j \in 0..index /\ (j = index \/ j = k)
    <2>. HIDE DEF s, C, E
    <2>. QED BY <1>2, <1>4
<1>6. first \in FieldStarts(string, separator, j)
    BY <1>4, <1>5 DEF FieldStarts
<1>7. /\ first \in Int /\ last \in Int /\ first < last + 1 /\ last + 1 \in E
      /\ \A c \in E : c <= first \/ last + 1 <= c
    BY <1>4, <1>5
<1>8. j \in Nat
    BY <1>5
<1>9. Field(string, separator, j) = SubSeq(string, first + 1, (last + 1) - 1)
    <2>. HIDE DEF first, last, j
    <2>. QED BY <1>6, <1>7, <1>8, FieldBetween
<1>10. (last + 1) - 1 = last
    <2>. HIDE DEF last
    <2>. QED BY <1>7
<1>11. Copied(string, separator, index) = Field(string, separator, j)
    BY <1>3, <1>9, <1>10
<1>12. ASSUME NEW i \in 0..index, Field(string, separator, i) # <<>> PROVE i <= j
    <2>1. i \in Nat /\ ~ (k < i)
        BY <1>12, NoField
    <2>. HIDE DEF j, k
    <2>. QED BY <1>2, <1>5, <2>1 DEF k
<1>. QED BY <1>5, <1>11, <1>12

\* A URL ends before its first question mark.
LEMMA PathIsPrefix ==
    ASSUME NEW W, NEW url \in Seq(W)
    PROVE  \E n \in 0..Len(url) :
               /\ Path(url) = SubSeq(url, 1, n)
               /\ \A i \in 1..n : url[i] # "?"
               /\ n = Len(url) \/ url[n + 1] = "?"
<1> DEFINE Q == {i \in 1..Len(url) : url[i] = "?"}
           first == CHOOSE i \in Q : \A j \in Q : i <= j
<1>1. Path(url) = IF Q = {} THEN url ELSE SubSeq(url, 1, first - 1)
    BY DEF Path
<1>2. CASE Q = {}
    <2>1. SubSeq(url, 1, Len(url)) = url /\ Len(url) \in 0..Len(url)
        OBVIOUS
    <2>2. \A i \in 1..Len(url) : url[i] # "?"
        BY <1>2
    <2>. QED BY <1>1, <1>2, <2>1, <2>2
<1>3. CASE Q # {}
    <2>1. Q \in SUBSET Nat
        OBVIOUS
    <2>2. first \in Q /\ \A j \in Q : first <= j
        <3>. HIDE DEF Q
        <3>. QED BY <1>3, <2>1, LeastNumber
    <2>. HIDE DEF first
    <2>3. first \in 1..Len(url) /\ url[first] = "?"
        BY <2>2
    <2>4. first - 1 \in 0..Len(url) /\ first - 1 + 1 = first
        BY <2>3
    <2>5. \A i \in 1..(first - 1) : url[i] # "?"
        BY <2>2, <2>3
    <2>6. Path(url) = SubSeq(url, 1, first - 1)
        BY <1>1, <1>3
    <2>. HIDE DEF Q
    <2>. QED BY <2>3, <2>4, <2>5, <2>6
<1>. QED BY <1>2, <1>3

LEMMA PathIsUrl ==
    ASSUME NEW W, NEW url \in Seq(W)
    PROVE  Path(url) \in Seq(W)
<1>1. PICK n \in 0..Len(url) : Path(url) = SubSeq(url, 1, n)
    BY PathIsPrefix
<1>2. 0 \in 0..Len(url) /\ 0 <= n /\ 0 + 1 = 1
    OBVIOUS
<1>3. SubSeq(url, 0 + 1, n) \in Seq(W)
    BY <1>2, PartOf
<1>. QED BY <1>1, <1>2, <1>3

\* The numbers in a URL are integers.
LEMMA NumberIsInt ==
    ASSUME NEW text
    PROVE  atoi(text) \in Int
BY WordsAssumption DEF atoi

-----------------------------------------------------------------------------
(* How long a reply may be. *)

\* A loop that sends n pieces.
Pieces(n) == [0..(n - 1) -> Nat]

LEMMA TotalIsLoop ==
    ASSUME NEW n \in Nat, NEW f \in Pieces(n)
    PROVE  \E sum \in [0..n -> Nat] :
               /\ Total(n, f) = sum[n]
               /\ sum[0] = 0
               /\ \A i \in 0..(n - 1) : sum[i + 1] = sum[i] + f[i]
<1> DEFINE turn == [i \in 1..n |-> [t \in Nat |-> t + f[i - 1]]]
           Body(g) == [i \in 0..n |-> IF i = 0 THEN 0 ELSE g[i - 1] + f[i - 1]]
           sum == CHOOSE g : g = Body(g)
<1>1. ASSUME NEW i \in 1..n PROVE i - 1 \in 0..(n - 1) /\ i - 1 \in 0..n /\ f[i - 1] \in Nat
    <2>1. i - 1 \in 0..(n - 1)
        OBVIOUS
    <2>. QED BY <2>1 DEF Pieces
<1>2. PICK h \in Runs(Nat, 0, n, turn) : TRUE
    <2>1. turn \in Turns(Nat, n)
        BY <1>1 DEF Turns
    <2>. HIDE DEF turn
    <2>. QED BY <2>1, LoopExists
<1>3. h \in [0..n -> Nat] /\ h[0] = 0
    BY <1>2 DEF Runs
<1>4. ASSUME NEW i \in 1..n PROVE h[i] = h[i - 1] + f[i - 1]
    <2>1. h[i - 1] \in Nat
        BY <1>1, <1>3
    <2>. QED BY <1>2, <2>1 DEF Runs
<1>5. h = Body(h)
    <2>1. ASSUME NEW i \in 0..n PROVE h[i] = Body(h)[i]
        <3>1. CASE i = 0
            BY <1>3, <3>1
        <3>2. CASE i # 0
            <4>1. i \in 1..n
                BY <3>2
            <4>. QED BY <1>4, <3>2, <4>1
        <3>. QED BY <3>1, <3>2
    <2>. QED BY <1>3, <2>1
<1>6. sum = Body(sum)
    BY <1>5
<1>7. Total(n, f) = sum[n]
    BY DEF Total
<1>. HIDE DEF sum
<1> DEFINE S == {i \in Nat : sum[i] \in Nat}
<1>8. 0 \in S /\ sum[0] = 0
    BY <1>6
<1>9. \A i \in 0..(n - 1) : sum[i + 1] = sum[i] + f[i]
    <2>. TAKE i \in 0..(n - 1)
    <2>1. i + 1 \in 0..n /\ i + 1 # 0 /\ (i + 1) - 1 = i
        OBVIOUS
    <2>. QED BY <1>6, <2>1
<1>10. ASSUME NEW i \in 0..(n - 1), i \in S PROVE i + 1 \in S
    <2>1. f[i] \in Nat
        BY DEF Pieces
    <2>2. sum[i + 1] = sum[i] + f[i]
        BY <1>9
    <2>3. sum[i] \in Nat /\ i + 1 \in Nat
        BY <1>10
    <2>4. sum[i] + f[i] \in Nat
        BY <2>1, <2>3
    <2>. QED BY <2>2, <2>3, <2>4, Zenon
<1>11. \A i \in 0..n : i \in S
    <2>. HIDE DEF S
    <2>. QED BY <1>8, <1>10, BoundedInduction
<1>12. sum \in [0..n -> Nat]
    BY <1>6, <1>11
<1>. QED BY <1>7, <1>8, <1>9, <1>12

\* Of pieces of at most b bytes it sends n * b bytes at most.
LEMMA TotalBounded ==
    ASSUME NEW n \in Nat, NEW b \in Nat, NEW f \in [0..(n - 1) -> 0..b]
    PROVE  Total(n, f) \in 0..(n * b)
<1>1. f \in Pieces(n)
    BY DEF Pieces
<1>2. PICK sum \in [0..n -> Nat] :
          /\ Total(n, f) = sum[n]
          /\ sum[0] = 0
          /\ \A i \in 0..(n - 1) : sum[i + 1] = sum[i] + f[i]
    BY <1>1, TotalIsLoop
<1> DEFINE S == {i \in Nat : sum[i] \in 0..(i * b)}
<1>3. 0 \in S
    BY <1>2
<1>4. ASSUME NEW i \in 0..(n - 1), i \in S PROVE i + 1 \in S
    <2>1. sum[i + 1] = sum[i] + f[i]
        BY <1>2
    <2>2. f[i] \in 0..b /\ sum[i] \in 0..(i * b) /\ i * b \in Nat
        BY <1>4
    <2>3. (i + 1) * b = i * b + b
        OBVIOUS
    <2>4. i + 1 \in Nat /\ sum[i] + f[i] \in 0..(i * b + b)
        BY <2>2
    <2>. QED BY <2>1, <2>3, <2>4
<1>. HIDE DEF S
<1>5. \A i \in 0..n : i \in S
    BY <1>3, <1>4, BoundedInduction
<1>6. n \in S
    BY <1>5
<1>. QED BY <1>2, <1>6 DEF S

LEMMA TextIsNat ==
    ASSUME NEW text \in Seq(Words)
    PROVE  TextLength(text) \in Nat
<1> DEFINE n == Len(text)
           f == [i \in 0..(n - 1) |-> Chars[text[i + 1]]]
<1>1. n \in Nat
    OBVIOUS
<1>2. f \in Pieces(n)
    <2>1. ASSUME NEW i \in 0..(n - 1) PROVE Chars[text[i + 1]] \in Nat
        <3>1. i + 1 \in 1..n
            BY <1>1
        <3>2. text[i + 1] \in Words
            BY <3>1
        <3>. QED BY <3>2, WordsAssumption
    <2>. QED BY <2>1 DEF Pieces
<1>. HIDE DEF f, n
<1>3. Total(n, f) \in Nat
    BY <1>1, <1>2, TotalIsLoop
<1>. QED BY <1>3 DEF TextLength, f, n

LEMMA TextOfOne ==
    ASSUME NEW w \in Words
    PROVE  TextLength(<<w>>) = Chars[w]
<1> DEFINE n == Len(<<w>>)
           f == [i \in 0..(n - 1) |-> Chars[<<w>>[i + 1]]]
<1>1. n = 1
    OBVIOUS
<1>2. n \in Nat /\ 0 \in 0..(n - 1)
    BY <1>1
<1>3. ASSUME NEW i \in 0..(n - 1) PROVE i = 0 /\ f[i] = Chars[w]
    <2>1. i = 0 /\ <<w>>[i + 1] = w
        BY <1>1
    <2>. QED BY <2>1
<1>4. Chars[w] \in Nat
    BY WordsAssumption
<1>5. f \in Pieces(n)
    BY <1>3, <1>4 DEF Pieces
<1>6. TextLength(<<w>>) = Total(n, f)
    BY DEF TextLength
<1>7. f[0] = Chars[w]
    BY <1>2, <1>3
<1>. HIDE DEF f, n
<1>8. PICK sum \in [0..n -> Nat] :
          /\ Total(n, f) = sum[n]
          /\ sum[0] = 0
          /\ \A i \in 0..(n - 1) : sum[i + 1] = sum[i] + f[i]
    BY <1>2, <1>5, TotalIsLoop
<1>9. sum[0 + 1] = sum[0] + f[0]
    BY <1>2, <1>8, Zenon
<1>. QED BY <1>1, <1>4, <1>6, <1>7, <1>8, <1>9

\* Every number the code prints takes up to 11 characters, every time up to 23.
LEMMA WidthBounded ==
    ASSUME NEW n
    PROVE  Width(n) \in 0..11 /\ Width2(n) \in 0..11
<1> DEFINE k == IF n < 0 THEN -n ELSE n
           D == {e \in 0..9 : e = 0 \/ k >= 10 ^ e}
<1>1. IsFiniteSet(0..9) /\ Cardinality(0..9) = 10
    <2>1. 0 \in Int /\ 9 \in Int /\ 9 - 0 + 1 = 10 /\ ~ (0 > 9)
        OBVIOUS
    <2>. QED BY <2>1, FS_Interval
<1>2. D \in SUBSET (0..9)
    OBVIOUS
<1>3. Cardinality(D) \in 0..10
    <2>. HIDE DEF D
    <2>1. IsFiniteSet(D) /\ Cardinality(D) <= 10
        BY <1>1, <1>2, FS_Subset
    <2>. QED BY <2>1, FS_CardinalityType
<1>4. Width(n) = (IF n < 0 THEN 1 ELSE 0) + Cardinality(D)
    BY DEF Width
<1>. HIDE DEF D
<1>5. Width(n) \in 0..11
    BY <1>3, <1>4
<1>6. Width2(n) \in {Width(n), 2}
    BY <1>5 DEF Width2, Max
<1>. QED BY <1>5, <1>6

LEMMA EventFits ==
    ASSUME NEW e, NEW event
    PROVE  EventLength(e, event) + 1 \in 0..157
BY WidthBounded DEF EventLength

\* Ten events and what is around them fit in the send buffer, whatever they hold.
LEMMA EventsFit ==
    /\ EventsBody \in Nat /\ HeadLength + EventsBody <= MAX_SENDBUFF_LEN
    /\ EventsBody' \in Nat /\ HeadLength + EventsBody' <= MAX_SENDBUFF_LEN
<1> DEFINE N == MAX_TIMED_POWER_EVENTS
           Body(ev) == 11 + Total(N, [e \in EventIds |-> EventLength(e, ev[e]) + 1]) - 1 + 2
<1>1. ASSUME NEW ev PROVE Body(ev) \in Nat /\ HeadLength + Body(ev) <= MAX_SENDBUFF_LEN
    <2> DEFINE f == [e \in EventIds |-> EventLength(e, ev[e]) + 1]
    <2>1. N \in Nat /\ EventIds = 0..(N - 1)
        BY SizesAssumption DEF EventIds
    <2>2. f \in [0..(N - 1) -> 0..157]
        BY <2>1, EventFits
    <2>. HIDE DEF f
    <2>3. Total(N, f) \in 0..(N * 157)
        BY <2>1, <2>2, TotalBounded
    <2>4. N * 157 \in Nat /\ Total(N, f) \in Nat /\ Total(N, f) <= N * 157
        BY <2>1, <2>3
    <2>5. HeadLength \in Nat /\ HeadLength + 12 + N * 157 <= MAX_SENDBUFF_LEN
        BY SizesAssumption DEF HeadLength
    <2>6. MAX_SENDBUFF_LEN \in Nat
        BY SizesAssumption
    <2>. HIDE DEF N
    <2>. QED BY <2>4, <2>5, <2>6 DEF f
<1>2. EventsBody = Body(events) /\ EventsBody' = Body(events')
    BY DEF EventsBody
<1>. HIDE DEF Body
<1>. QED BY <1>1, <1>2

\* So do the ports with their names.
LEMMA PortsFit ==
    ASSUME NEW f \in [Ports -> 0..(38 + PORT_NAME_LEN)]
    PROVE  LET t == Total(NUM_OF_PORTS, f)
           IN  t \in Nat /\ HeadLength + 15 + t <= MAX_SENDBUFF_LEN
<1> DEFINE N == NUM_OF_PORTS
           W == 38 + PORT_NAME_LEN
<1>1. N \in Nat /\ Ports = 0..(N - 1)
    BY SizesAssumption DEF Ports
<1>2. W \in Nat
    BY SizesAssumption
<1>3. f \in [0..(N - 1) -> 0..W]
    BY <1>1
<1>4. HeadLength \in Nat /\ MAX_SENDBUFF_LEN \in Nat /\ HeadLength + 15 + N * W <= MAX_SENDBUFF_LEN
    BY SizesAssumption DEF HeadLength, W
<1>. HIDE DEF N, W
<1>5. Total(N, f) \in 0..(N * W)
    BY <1>1, <1>2, <1>3, TotalBounded
<1>6. N * W \in Nat /\ Total(N, f) \in Nat /\ Total(N, f) <= N * W
    BY <1>1, <1>2, <1>5
<1>7. Total(N, f) \in Nat /\ HeadLength + 15 + Total(N, f) <= MAX_SENDBUFF_LEN
    BY <1>4, <1>6
<1>. QED BY <1>7 DEF N

-----------------------------------------------------------------------------
(* The commands. *)

\* A reply that fits is sent whole, and leaves the buffer empty.
LEMMA ReplyIsWhole ==
    ASSUME buffer = Empty, NEW c, NEW body \in Nat,
           HeadLength + body <= MAX_SENDBUFF_LEN, Reply(c, body)
    PROVE  /\ buffer' = Empty
           /\ Len(sent') = 1 /\ sent'[1].from = <<c>> /\ ~sent'[1].lost
<1> DEFINE n == HeadLength + body
           b == httpdSend(Empty, c, n)
<1>1. n \in Nat /\ MAX_SENDBUFF_LEN \in Nat /\ ~ (n > MAX_SENDBUFF_LEN)
    BY SizesAssumption DEF HeadLength
<1>2. buffer' = Empty /\ sent' = <<b>>
    BY DEF Reply, EmptiedByXmit
<1>3. b.from = <<c>> /\ b.lost = FALSE
    <2>1. Empty.lost = FALSE /\ Empty.from = <<>> /\ Empty.len = 0 /\ 0 + n = n
        BY <1>1 DEF Empty
    <2>2. b.lost = (Empty.lost \/ Empty.len + n > MAX_SENDBUFF_LEN)
        BY DEF httpdSend
    <2>3. b.from = Append(<<>>, c)
        BY <2>1 DEF httpdSend
    <2>. HIDE DEF b, n
    <2>4. b.lost = FALSE
        BY <1>1, <2>1, <2>2
    <2>. QED BY <2>3, <2>4
<1>. HIDE DEF b
<1>. QED BY <1>2, <1>3

DataInv ==
    /\ events \in [EventIds -> PowerEvent]
    /\ names \in [Ports -> Name]
    /\ numbers \in [Ports -> PortNumbers]
    /\ SNTP \in Int
    /\ ServerPort \in Int

\* What command c does to the connection.
Answered(c) ==
    /\ buffer' = Empty
    /\ IF c = "initialize" THEN sent' = <<>>
       ELSE Len(sent') = 1 /\ sent'[1].from = <<c>> /\ ~sent'[1].lost

\* The longest of the replies that are not a list.
LEMMA ShortFits ==
    ASSUME NEW body \in 0..169
    PROVE  body \in Nat /\ HeadLength + body <= MAX_SENDBUFF_LEN
<1> DEFINE N == MAX_TIMED_POWER_EVENTS
<1>1. N \in Nat \ {0} /\ HeadLength + 12 + N * 157 <= MAX_SENDBUFF_LEN
      /\ HeadLength \in Nat /\ MAX_SENDBUFF_LEN \in Nat
    BY SizesAssumption DEF HeadLength
<1>. HIDE DEF N
<1>2. N * 157 >= 157
    BY <1>1
<1>. QED BY <1>1, <1>2

LEMMA StoredEventTyped ==
    ASSUME DataInv, NEW url, StoreEvent(url)
    PROVE  events' \in [EventIds -> PowerEvent]
<1> DEFINE ev == [Active    |-> Number(url, 3) % 256,
                  Port      |-> Number(url, 4),
                  StartTime |-> TimeOf(Param(url, 5)),
                  EndTime   |-> TimeOf(Param(url, 6))]
<1>1. Number(url, 3) \in Int /\ Number(url, 4) \in Int
    BY NumberIsInt DEF Number
<1>2. Number(url, 3) % 256 \in 0..255
    BY <1>1
<1>3. \A text : TimeOf(text) \in TimeOfDay
    BY NumberIsInt DEF TimeOf, TimeOfDay
<1>4. ev \in PowerEvent
    BY <1>1, <1>2, <1>3 DEF PowerEvent
<1>5. events' = [events EXCEPT ![Number(url, 2)] = ev]
    BY DEF StoreEvent
<1>. HIDE DEF ev
<1>. QED BY <1>4, <1>5 DEF DataInv

LEMMA StatusAnswers ==
    ASSUME DataInv, buffer = Empty, NEW c, c # "initialize", Reply(c, StatusBody)
    PROVE  Answered(c)
<1>1. StatusBody \in Nat /\ HeadLength + StatusBody <= MAX_SENDBUFF_LEN
    <2> DEFINE f == [p \in Ports |-> 6 + TextLength(names[p]) + 1]
               t == Total(NUM_OF_PORTS, f)
    <2>1. t \in Nat /\ HeadLength + 15 + t <= MAX_SENDBUFF_LEN
        <3>1. ASSUME NEW p \in Ports PROVE f[p] \in 0..(38 + PORT_NAME_LEN)
            <4>1. TextLength(names[p]) \in Nat /\ TextLength(names[p]) <= PORT_NAME_LEN
                BY TextIsNat DEF DataInv, Name
            <4>. QED BY <4>1, SizesAssumption
        <3>2. f \in [Ports -> 0..(38 + PORT_NAME_LEN)]
            BY <3>1
        <3>. HIDE DEF f
        <3>. QED BY <3>2, PortsFit
    <2>2. HeadLength \in Nat /\ MAX_SENDBUFF_LEN \in Nat
        BY SizesAssumption DEF HeadLength
    <2>3. StatusBody = 10 + t - 1 + 2
        BY DEF StatusBody
    <2>. HIDE DEF t
    <2>. QED BY <2>1, <2>2, <2>3
<1>. QED BY <1>1, ReplyIsWhole DEF Answered

LEMMA PortsBodyFits ==
    ASSUME numbers \in [Ports -> PortNumbers]
    PROVE  /\ names \in [Ports -> Name] /\ PortsInside(names) =>
                  PortsBody \in Nat /\ HeadLength + PortsBody <= MAX_SENDBUFF_LEN
           /\ names' \in [Ports -> Name] /\ PortsInside(names') /\ numbers' = numbers =>
                  PortsBody' \in Nat /\ HeadLength + PortsBody' <= MAX_SENDBUFF_LEN
<1> DEFINE Printed(n) == [p \in Ports |-> PortPiece(p, n[p]) + 1]
           Body(n) == 14 + Total(NUM_OF_PORTS, Printed(n)) - 1 + 2
<1>1. ASSUME NEW n \in [Ports -> Name], PortsInside(n)
      PROVE  Body(n) \in Nat /\ HeadLength + Body(n) <= MAX_SENDBUFF_LEN
    <2> DEFINE f == Printed(n)
               t == Total(NUM_OF_PORTS, f)
    <2>1. ASSUME NEW p \in Ports PROVE f[p] \in 0..(38 + PORT_NAME_LEN)
        <3> DEFINE a == Width(numbers[p].PortPinNumber)
                   b == Width(numbers[p].Type)
                   k == TextLength(n[p])
        <3>1. k \in Nat
            BY TextIsNat DEF Name
        <3>2. a \in Nat /\ b \in Nat
            BY WidthBounded
        <3>3. PortPiece(p, n[p]) = 35 + a + b + k
            BY DEF PortPiece
        <3>4. PortPiece(p, n[p]) < 50
            BY <1>1 DEF PortsInside
        <3>5. f[p] = PortPiece(p, n[p]) + 1
            OBVIOUS
        <3>. HIDE DEF f, a, b, k
        <3>. QED BY <3>1, <3>2, <3>3, <3>4, <3>5, SizesAssumption
    <2>2. f \in [Ports -> 0..(38 + PORT_NAME_LEN)]
        BY <2>1
    <2>. HIDE DEF f
    <2>3. t \in Nat /\ HeadLength + 15 + t <= MAX_SENDBUFF_LEN
        BY <2>2, PortsFit
    <2>4. HeadLength \in Nat /\ MAX_SENDBUFF_LEN \in Nat
        BY SizesAssumption DEF HeadLength
    <2>. HIDE DEF t
    <2>5. 14 + t - 1 + 2 \in Nat /\ HeadLength + (14 + t - 1 + 2) <= MAX_SENDBUFF_LEN
        BY <2>3, <2>4
    <2>. QED BY <2>5 DEF t, f
<1>2. PortsBody = Body(names)
    BY DEF PortsBody
<1>3. numbers' = numbers => PortsBody' = Body(names')
    <2>. SUFFICES ASSUME numbers' = numbers PROVE PortsBody' = Body(names')
        OBVIOUS
    <2> DEFINE f == [p \in Ports |-> PortPiece(p, names[p]) + 1]
               g == Printed(names')
    <2>1. f' = g
        BY DEF PortPiece
    <2>2. PortsBody' = 14 + Total(NUM_OF_PORTS, f') - 1 + 2
        BY DEF PortsBody
    <2>. HIDE DEF f, g
    <2>3. PortsBody' = 14 + Total(NUM_OF_PORTS, g) - 1 + 2
        BY <2>1, <2>2
    <2>. QED BY <2>3 DEF g
<1>. HIDE DEF Body
<1>. QED BY <1>1, <1>2, <1>3

LEMMA ShortBodies ==
    ASSUME NEW n
    PROVE  /\ 11 + Width(n) \in 0..169
           /\ 40 + 31 + 63 + 15 + Width(n) \in 0..169
           /\ 8 + 2 + Width(n) + 1 \in 0..169
           /\ 14 + 2 + Width(n) + 1 \in 0..169
<1> DEFINE w == Width(n)
<1>1. w \in 0..11
    BY WidthBounded
<1>. HIDE DEF w
<1>2. 11 + w \in 0..169 /\ 40 + 31 + 63 + 15 + w \in 0..169
      /\ 8 + 2 + w + 1 \in 0..169 /\ 14 + 2 + w + 1 \in 0..169
    BY <1>1
<1>. QED BY <1>2 DEF w

LEMMA ShortAnswers ==
    ASSUME buffer = Empty, NEW c, c # "initialize", NEW body \in 0..169, Reply(c, body)
    PROVE  Answered(c)
<1>1. body \in Nat /\ HeadLength + body <= MAX_SENDBUFF_LEN
    BY ShortFits
<1>. QED BY <1>1, ReplyIsWhole DEF Answered

LEMMA ListAnswers ==
    ASSUME buffer = Empty, NEW c, c # "initialize", NEW body \in Nat,
           HeadLength + body <= MAX_SENDBUFF_LEN, Reply(c, body)
    PROVE  Answered(c)
BY ReplyIsWhole DEF Answered

\* What strcmp finds is called, and nothing else.
LEMMA Called ==
    ASSUME NEW url, NEW c, ParseURLCommand(c, url)
    PROVE  /\ c = "flipinput" => doFlipinput(c, url)
           /\ c = "open" => doOpen(c, url)
           /\ c = "setwifi" => doSetWifi(c, url)
           /\ c = "getwifi" => doGetWifi(c, url)
           /\ c = "events" => doGetEvents(c, url)
           /\ c = "event" => doSetEvent(c, url)
           /\ c = "time" => doGetTime(c, url)
           /\ c = "portsinfo" => doGetPorts(c, url)
           /\ c = "portinfo" => doSetPorts(c, url)
           /\ c = "initialize" => doInitialize(c, url)
           /\ c = "sntp" => doSNTP(c, url)
           /\ c = "wifiport" => doWifiport(c, url)
           /\ c = "setpin" => doSetPin(c, url)
           /\ c \in {"status", "scan"} => doStatus(c, url)
BY DEF ParseURLCommand

LEMMA InsideOf ==
    ASSUME NEW url, NEW c
    PROVE  /\ c = "setpin" =>
                  (Inside(c, url) <=>
                      /\ Fits(url, "/", 2, 10) /\ Fits(url, "/", 3, 10)
                      /\ Number(url, 2) \in Ports /\ NamesEnd(names))
           /\ c = "flipinput" =>
                  (Inside(c, url) <=>
                      Fits(url, "/", 2, 20) /\ Number(url, 2) \in Ports /\ NamesEnd(names))
           /\ c = "open" =>
                  (Inside(c, url) <=> Fits(url, "/", 2, 50) /\ NumberOr(url, 6) \in Ports)
           /\ c \in {"status", "scan"} => (Inside(c, url) <=> NamesEnd(names))
           /\ c = "setwifi" =>
                  (Inside(c, url) <=>
                      /\ Fits(url, "/", 2, 120) /\ TextLength(Param(url, 2)) < 32
                      /\ Fits(url, "/", 3, 120) /\ TextLength(Param(url, 3)) < 64)
           /\ c = "event" =>
                  (Inside(c, url) <=>
                      /\ \A i \in 2..7 : Fits(url, "/", i, 120)
                      /\ TimeFits(Param(url, 5)) /\ TimeFits(Param(url, 6))
                      /\ Number(url, 2) \in EventIds)
           /\ c = "portsinfo" => (Inside(c, url) <=> PortsInside(names))
           /\ c = "portinfo" =>
                  (Inside(c, url) <=>
                      /\ Fits(url, "/", 2, 120) /\ Fits(url, "/", 3, 120)
                      /\ Number(url, 2) \in Ports
                      /\ PortsInside([names EXCEPT ![Number(url, 2)] = Param(url, 3)]))
           /\ c = "sntp" =>
                  (Inside(c, url) <=>
                      Fits(url, "/", 2, 10) /\ NumberInside(NumberOr(url, SNTP)))
           /\ c = "wifiport" =>
                  (Inside(c, url) <=>
                      Fits(url, "/", 2, 10) /\ NumberInside(NumberOr(url, ServerPort)))
           /\ c \in {"getwifi", "events", "time", "initialize"} => Inside(c, url)
<1>1. CASE c = "setpin"
    BY <1>1 DEF Inside
<1>2. CASE c = "flipinput"
    BY <1>2 DEF Inside
<1>3. CASE c = "open"
    BY <1>3 DEF Inside
<1>4. CASE c \in {"status", "scan"}
    BY <1>4 DEF Inside
<1>5. CASE c = "setwifi"
    BY <1>5 DEF Inside
<1>6. CASE c = "event"
    BY <1>6 DEF Inside
<1>7. CASE c = "portsinfo"
    BY <1>7 DEF Inside
<1>8. CASE c = "portinfo"
    BY <1>8 DEF Inside
<1>9. CASE c = "sntp"
    BY <1>9 DEF Inside
<1>10. CASE c = "wifiport"
    BY <1>10 DEF Inside
<1>11. CASE c \in {"getwifi", "events", "time", "initialize"}
    BY <1>11 DEF Inside
<1>. QED BY <1>1, <1>2, <1>3, <1>4, <1>5, <1>6, <1>7, <1>8, <1>9, <1>10, <1>11

LEMMA NumberOrIsInt ==
    ASSUME NEW url, NEW n \in Int
    PROVE  NumberOr(url, n) \in Int
BY NumberIsInt DEF NumberOr, Number

LEMMA DataKept == DataInv /\ UNCHANGED data => DataInv'
BY DEF DataInv, data

\* Every command keeps the types of what it stores, and answers once and whole, but
\* for initialize.
LEMMA CommandAnswers ==
    ASSUME DataInv, buffer = Empty, NEW url \in Seq(Words), NEW c \in Commands,
           Inside(c, url), ParseURLCommand(c, url)
    PROVE  DataInv' /\ Answered(c)
<1>1. CASE c = "flipinput"
    <2>1. UNCHANGED data /\ Reply(c, StatusBody)
        BY <1>1, Called DEF doFlipinput
    <2>. QED BY <1>1, <2>1, DataKept, StatusAnswers
<1>2. CASE c = "open"
    <2> DEFINE n == NumberOr(url, 6)
    <2>1. UNCHANGED data /\ Reply(c, 11 + Width(n))
        BY <1>2, Called DEF doOpen
    <2>. HIDE DEF n
    <2>2. 11 + Width(n) \in 0..169
        BY ShortBodies
    <2>. QED BY <1>2, <2>1, <2>2, DataKept, ShortAnswers
<1>3. CASE c = "setwifi"
    <2>1. UNCHANGED data /\ Reply(c, 25 + 31 + 31)
        BY <1>3, Called DEF doSetWifi, NoPin
    <2>2. 25 + 31 + 31 \in 0..169
        OBVIOUS
    <2>. QED BY <1>3, <2>1, <2>2, DataKept, ShortAnswers
<1>4. CASE c = "getwifi"
    <2>1. doGetWifi(c, url)
        BY <1>4, Called
    <2>2. DataInv'
        BY <2>1 DEF doGetWifi, DataInv
    <2>3. 40 + 31 + 63 + 15 + Width(ServerPort') \in 0..169
        BY ShortBodies
    <2>4. Reply(c, 40 + 31 + 63 + 15 + Width(ServerPort'))
        BY <2>1 DEF doGetWifi
    <2>. QED BY <1>4, <2>2, <2>3, <2>4, ShortAnswers
<1>5. CASE c = "events"
    <2>1. UNCHANGED data /\ Reply(c, EventsBody)
        BY <1>5, Called DEF doGetEvents, NoPin
    <2>. QED BY <1>5, <2>1, EventsFit, DataKept, ListAnswers
<1>6. CASE c = "event"
    <2>1. doSetEvent(c, url)
        BY <1>6, Called
    <2>2. DataInv'
        BY <2>1, StoredEventTyped DEF doSetEvent, DataInv
    <2>3. Reply(c, EventsBody')
        BY <2>1 DEF doSetEvent
    <2>. QED BY <1>6, <2>2, <2>3, EventsFit, ListAnswers
<1>7. CASE c = "time"
    <2>1. UNCHANGED data /\ Reply(c, 9 + (19 + 4 + 1 + 3 + 1) + 2)
        BY <1>7, Called DEF doGetTime, NoPin
    <2>2. 9 + (19 + 4 + 1 + 3 + 1) + 2 \in 0..169
        OBVIOUS
    <2>. QED BY <1>7, <2>1, <2>2, DataKept, ShortAnswers
<1>8. CASE c = "portsinfo"
    <2>1. UNCHANGED data /\ Reply(c, PortsBody)
        BY <1>8, Called DEF doGetPorts, NoPin
    <2>2. PortsBody \in Nat /\ HeadLength + PortsBody <= MAX_SENDBUFF_LEN
        BY <1>8, InsideOf, PortsBodyFits DEF DataInv
    <2>. QED BY <1>8, <2>1, <2>2, DataKept, ListAnswers
<1>9. CASE c = "portinfo"
    <2>1. doSetPorts(c, url)
        BY <1>9, Called
    <2>2. DataInv' /\ PortsInside(names') /\ numbers' = numbers
        <3> DEFINE p == Number(url, 2)
                   name == Param(url, 3)
        <3>1. /\ names' = [names EXCEPT ![p] = name]
              /\ UNCHANGED <<events, numbers, SNTP, ServerPort>>
            BY <2>1 DEF doSetPorts
        <3>2. p \in Ports /\ PortsInside([names EXCEPT ![p] = name])
            BY <1>9, InsideOf
        <3>3. name \in Seq(Words)
            BY GetValueIsRight DEF Param
        <3>. HIDE DEF p, name
        <3>4. TextLength(name) < PORT_NAME_LEN
            BY <3>2 DEF PortsInside, NamesEnd, DataInv
        <3>5. name \in Name
            BY <3>3, <3>4, TextIsNat, SizesAssumption DEF Name
        <3>. QED BY <3>1, <3>2, <3>5 DEF DataInv
    <2>3. PortsBody' \in Nat /\ HeadLength + PortsBody' <= MAX_SENDBUFF_LEN
        BY <2>2, PortsBodyFits DEF DataInv
    <2>4. Reply(c, PortsBody')
        BY <2>1 DEF doSetPorts
    <2>. QED BY <1>9, <2>2, <2>3, <2>4, ListAnswers
<1>10. CASE c = "initialize"
    <2>1. doInitialize(c, url)
        BY <1>10, Called
    <2>2. <<"OutputN">> \in Name
        <3>1. "OutputN" \in Words /\ Chars["OutputN"] \in Nat /\ Chars["OutputN"] < 12
            BY WordsAssumption
        <3>2. <<"OutputN">> \in Seq(Words)
            BY <3>1
        <3>. QED BY <3>1, <3>2, TextOfOne, SizesAssumption DEF Name
    <2>3. Cleared \in PowerEvent
        BY DEF Cleared, Midnight, PowerEvent, TimeOfDay
    <2>4. \A p \in Ports : Output(PortPinNumber[p]) \in PortNumbers
        BY SizesAssumption DEF Output, PortNumbers
    <2>5. DataInv'
        BY <2>1, <2>2, <2>3, <2>4 DEF doInitialize, DataInv
    <2>. QED BY <1>10, <2>1, <2>5 DEF doInitialize, Answered
<1>11. CASE c = "sntp"
    <2>1. doSNTP(c, url)
        BY <1>11, Called
    <2>2. DataInv'
        BY <2>1, NumberOrIsInt DEF doSNTP, DataInv
    <2>3. 8 + 2 + Width(SNTP') + 1 \in 0..169
        BY ShortBodies
    <2>4. Reply(c, 8 + 2 + Width(SNTP') + 1)
        BY <2>1 DEF doSNTP
    <2>. QED BY <1>11, <2>2, <2>3, <2>4, ShortAnswers
<1>12. CASE c = "wifiport"
    <2>1. doWifiport(c, url)
        BY <1>12, Called
    <2>2. DataInv'
        BY <2>1, NumberOrIsInt DEF doWifiport, DataInv
    <2>3. 14 + 2 + Width(ServerPort') + 1 \in 0..169
        BY ShortBodies
    <2>4. Reply(c, 14 + 2 + Width(ServerPort') + 1)
        BY <2>1 DEF doWifiport
    <2>. QED BY <1>12, <2>2, <2>3, <2>4, ShortAnswers
<1>13. CASE c = "setpin"
    <2>1. UNCHANGED data /\ Reply(c, StatusBody)
        BY <1>13, Called DEF doSetPin
    <2>. QED BY <1>13, <2>1, DataKept, StatusAnswers
<1>14. CASE c \in {"status", "scan"}
    <2>1. UNCHANGED data /\ Reply(c, StatusBody)
        BY <1>14, Called DEF doStatus, NoPin
    <2>. QED BY <1>14, <2>1, DataKept, StatusAnswers
<1>. QED BY <1>1, <1>2, <1>3, <1>4, <1>5, <1>6, <1>7, <1>8, <1>9, <1>10, <1>11, <1>12,
           <1>13, <1>14 DEF Commands

-----------------------------------------------------------------------------
(* The command table. *)

\* Every command stands in the part of the table that is looked at, "END" does not.
LEMMA ReachedCommands == Reached = Commands
<1> DEFINE T == RestPtrsTable
<1>1. /\ T[1] = "flipinput" /\ T[2] = "open" /\ T[3] = "status" /\ T[4] = "setwifi"
      /\ T[5] = "getwifi" /\ T[6] = "events" /\ T[7] = "event" /\ T[8] = "time"
      /\ T[9] = "portsinfo" /\ T[10] = "portinfo" /\ T[11] = "initialize"
      /\ T[12] = "sntp" /\ T[13] = "wifiport" /\ T[14] = "scan" /\ T[15] = "setpin"
    BY DEF RestPtrsTable
<1>2. LookedAt = {1, 2, 3, 4, 5, 6, 7, 8, 9, 10, 11, 12, 13, 14, 15}
    BY DEF LookedAt
<1>. HIDE DEF T
<1>3. {T[idx] : idx \in LookedAt} =
          {T[1], T[2], T[3], T[4], T[5], T[6], T[7], T[8], T[9], T[10], T[11], T[12],
           T[13], T[14], T[15]}
    BY <1>2, Zenon
<1>4. Reached = {T[idx] : idx \in LookedAt}
    BY DEF Reached, T
<1>. QED BY <1>1, <1>3, <1>4, Zenon DEF Commands

\* The comparison with the table finds the command that a URL's first field names.
LEMMA CommandedIsField ==
    ASSUME NEW url \in Seq(Words)
    PROVE  Commanded(url) = {c \in Commands : Field(url, "/", 1) = <<c>>}
<1>1. Param(url, 1) = Field(url, "/", 1)
    BY GetValueIsRight DEF Param
<1>. QED BY <1>1, ReachedCommands DEF Commanded

\* There is at most one.
LEMMA OneRequest ==
    ASSUME NEW l, NEW c \in RequestedBy(l)
    PROVE  RequestedBy(l) = {c} /\ c \in Commands
<1> DEFINE f == Field(Path(l.url), "/", 1)
<1>1. RequestedBy(l) = {d \in Commands : f = <<d>>} \/ RequestedBy(l) = {}
    BY DEF RequestedBy
<1>2. \A d : f = <<d>> /\ f = <<c>> => d = c
    OBVIOUS
<1>. HIDE DEF f
<1>. QED BY <1>1, <1>2

LEMMA LineIsUrl ==
    ASSUME NEW l \in Lines \cup {NoLine}
    PROVE  l.url \in Seq(Words) /\ Path(l.url) \in Seq(Words)
<1>1. l.url \in Seq(Words)
    <2>1. CASE l \in Lines
        BY <2>1, LinesAssumption
    <2>2. CASE l = NoLine
        <3>1. l.url = <<>> /\ <<>> \in Seq(Words)
            BY <2>2 DEF NoLine
        <3>. QED BY <3>1
    <2>. QED BY <2>1, <2>2
<1>. QED BY <1>1, PathIsUrl

\* What a line makes ServerParseHeaderURL do.
LEMMA ParseStep ==
    ASSUME NEW l \in Lines, ServerParseHeaderURL(l)
    PROVE  /\ line' = l /\ ~outside /\ outside' = ~LineInside(l)
           /\ \/ \E c \in RequestedBy(l) :
                     LineInside(l) /\ Inside(c, Path(l.url)) /\ ParseURLCommand(c, Path(l.url))
              \/ LineInside(l) /\ RequestedBy(l) = {} /\ Ignored
              \/ ~LineInside(l) /\ Ignored
<1>1. Path(l.url) \in Seq(Words)
    BY LineIsUrl
<1>2. (IF IsParsed(l) THEN Commanded(Path(l.url)) ELSE {}) = RequestedBy(l)
    BY <1>1, CommandedIsField DEF RequestedBy
<1>3. CASE LineInside(l)
    <2>1. (IF IsParsed(l) /\ LineInside(l) THEN Commanded(Path(l.url)) ELSE {}) = RequestedBy(l)
        BY <1>2, <1>3
    <2>2. \A c \in RequestedBy(l) : Inside(c, Path(l.url))
        BY <1>2, <1>3 DEF LineInside
    <2>. QED BY <1>3, <2>1, <2>2 DEF ServerParseHeaderURL
<1>4. CASE ~LineInside(l)
    BY <1>4 DEF ServerParseHeaderURL
<1>. QED BY <1>3, <1>4

-----------------------------------------------------------------------------
(* The arrays. *)

\* The fields that a modest line has, and those that getValue copies for missing
\* ones, fit into the smallest array.
LEMMA ModestFits ==
    ASSUME NEW l \in Lines, Modest(l), NEW c \in RequestedBy(l), c # "initialize",
           NEW i \in 2..7
    PROVE  LET text == Copied(Path(l.url), "/", i)
           IN  TextLength(text) \in Nat /\ TextLength(text) < 10
<1> DEFINE url == Path(l.url)
           text == Copied(url, "/", i)
<1>1. url \in Seq(Words)
    BY LineIsUrl
<1>2. c \in Commands /\ Field(url, "/", 1) = <<c>>
    BY DEF RequestedBy
<1>3. \A k \in {0} \cup 2..7 : TextLength(Field(url, "/", k)) < 10
    BY DEF Modest
<1>. HIDE DEF url
<1>4. i \in Nat /\ 1 \in 0..i /\ <<c>> # <<>>
    OBVIOUS
<1>5. PICK j \in 0..i :
          /\ text = Field(url, "/", j)
          /\ \A k \in 0..i : Field(url, "/", k) # <<>> => k <= j
    BY <1>1, <1>4, CopiedIsField
<1>6. 1 <= j
    BY <1>2, <1>4, <1>5
<1>7. text \in Seq(Words)
    <2>1. j \in Nat
        OBVIOUS
    <2>. QED BY <1>1, <1>5, <2>1, GetValueIsRight
<1>8. CASE j = 1
    <2>1. text = <<c>>
        BY <1>2, <1>5, <1>8
    <2>2. c \in Words
        <3>1. text[1] = c /\ 1 \in 1..Len(text)
            BY <2>1
        <3>. QED BY <1>7, <3>1
    <2>3. Chars[c] < 10
        BY <1>2, <2>2, WordsAssumption
    <2>. QED BY <1>7, <2>1, <2>2, <2>3, TextOfOne, TextIsNat DEF url
<1>9. CASE j # 1
    <2>1. j \in {0} \cup 2..7
        BY <1>6, <1>9
    <2>. QED BY <1>3, <1>5, <1>7, <2>1, TextIsNat DEF url
<1>. QED BY <1>8, <1>9

LEMMA ModestTime ==
    ASSUME NEW l \in Lines, Modest(l), NEW i \in {5, 6}
    PROVE  TimeFits(Param(Path(l.url), i))
<1> DEFINE url == Path(l.url)
           text == Param(url, i)
<1>1. url \in Seq(Words)
    BY LineIsUrl
<1>2. text = Field(url, "/", i) /\ text \in Seq(Words)
    <2>1. i \in Nat
        OBVIOUS
    <2>. QED BY <1>1, <2>1, GetValueIsRight DEF Param
<1>3. \A j \in {0, 1} : TextLength(Field(Field(url, "/", i), ":", j)) < 10
    BY DEF Modest
<1>. HIDE DEF text, url
<1>4. ASSUME NEW k \in {0, 1} PROVE TextLength(Copied(text, ":", k)) < 10
    <2>1. k \in Nat /\ 0..k \subseteq {0, 1}
        OBVIOUS
    <2>2. PICK j \in 0..k : Copied(text, ":", k) = Field(text, ":", j)
        BY <1>2, <2>1, CopiedIsField
    <2>. QED BY <1>2, <1>3, <2>1, <2>2
<1>. QED BY <1>4 DEF TimeFits, Fits, text, url

\* A modest request to a device of modest settings keeps within the arrays.
LEMMA ModestCommand ==
    ASSUME DataInv, ModestData, NEW l \in Lines, Modest(l), NEW c \in RequestedBy(l)
    PROVE  Inside(c, Path(l.url))
<1> DEFINE url == Path(l.url)
<1>1. url \in Seq(Words)
    BY LineIsUrl
<1>2. c \in Commands
    BY OneRequest
<1>3. /\ Number(url, 2) = atoi(Field(url, "/", 2))
      /\ getValue(url, "/", 2).size # -1 <=> Field(url, "/", 2) # <<>>
    BY <1>1, GetValueIsRight DEF Number, Param
<1>4. ASSUME c # "initialize", NEW i \in 2..7, NEW size \in {10, 20, 50, 120}
      PROVE  Fits(url, "/", i, size)
    <2>1. TextLength(Copied(url, "/", i)) \in Nat /\ TextLength(Copied(url, "/", i)) < 10
        BY <1>4, ModestFits
    <2>. HIDE DEF url
    <2>. QED BY <2>1 DEF Fits
<1>5. c # "initialize" =>
           /\ Fits(url, "/", 2, 10) /\ Fits(url, "/", 3, 10)
           /\ Fits(url, "/", 2, 20) /\ Fits(url, "/", 2, 50)
           /\ Fits(url, "/", 2, 120) /\ Fits(url, "/", 3, 120)
           /\ \A i \in 2..7 : Fits(url, "/", i, 120)
    <2>1. 2 \in 2..7 /\ 3 \in 2..7
        OBVIOUS
    <2>. HIDE DEF url
    <2>. QED BY <1>4, <2>1
<1>6. \A p \in Ports : TextLength(names[p]) \in Nat /\ TextLength(names[p]) < 12
    BY TextIsNat DEF ModestData, DataInv, Name
<1>7. ASSUME NEW p \in Ports, NEW name, TextLength(name) \in Nat, TextLength(name) < 12
      PROVE  TextLength(name) < PORT_NAME_LEN /\ PortPiece(p, name) < 50
    <2> DEFINE a == Width(numbers[p].PortPinNumber)
               b == Width(numbers[p].Type)
    <2>1. a \in Nat /\ b \in Nat
        BY WidthBounded
    <2>2. a + b <= 3
        BY DEF ModestData
    <2>3. PortPiece(p, name) = 35 + a + b + TextLength(name)
        BY DEF PortPiece
    <2>. HIDE DEF a, b
    <2>. QED BY <1>7, <2>1, <2>2, <2>3, SizesAssumption
<1>8. NamesEnd(names) /\ PortsInside(names)
    BY <1>6, <1>7 DEF NamesEnd, PortsInside
<1>9. ASSUME NEW i \in {2, 3}
      PROVE  TextLength(Param(url, i)) \in Nat /\ TextLength(Param(url, i)) < 10
    <2>1. Param(url, i) = Field(url, "/", i) /\ Param(url, i) \in Seq(Words)
        <3>1. i \in Nat
            OBVIOUS
        <3>. QED BY <1>1, <3>1, GetValueIsRight DEF Param
    <2>2. TextLength(Field(url, "/", i)) < 10
        BY DEF Modest
    <2>. QED BY <2>1, <2>2, TextIsNat
<1>10. c \in {"setpin", "flipinput", "portinfo"} => Number(url, 2) \in Ports
    <2>1. c \in {"setpin", "flipinput", "portinfo"} => atoi(Field(url, "/", 2)) \in Ports
        BY Zenon DEF Modest
    <2>. HIDE DEF url
    <2>. QED BY <1>3, <2>1
<1>11. c = "open" => NumberOr(url, 6) \in Ports
    <2>1. c = "open" =>
              (IF Field(url, "/", 2) = <<>> THEN 6 ELSE atoi(Field(url, "/", 2))) \in Ports
        BY Zenon DEF Modest
    <2>. HIDE DEF url
    <2>. QED BY <1>3, <2>1 DEF NumberOr
<1>12. c = "event" => Number(url, 2) \in EventIds
    <2>1. c = "event" => atoi(Field(url, "/", 2)) \in EventIds
        BY Zenon DEF Modest
    <2>. HIDE DEF url
    <2>. QED BY <1>3, <2>1
<1>13. c \in {"sntp", "wifiport"} => Width(Number(url, 2)) < 8
    <2>1. c \in {"sntp", "wifiport"} => Width(atoi(Field(url, "/", 2))) < 8
        BY Zenon DEF Modest
    <2>. HIDE DEF url
    <2>. QED BY <1>3, <2>1
<1>. SUFFICES Inside(c, url)
    OBVIOUS
<1>. HIDE DEF url
<1>14. CASE c = "setpin"
    BY <1>5, <1>8, <1>10, <1>14, InsideOf
<1>15. CASE c = "flipinput"
    BY <1>5, <1>8, <1>10, <1>15, InsideOf
<1>16. CASE c = "open"
    BY <1>5, <1>16, <1>11, InsideOf
<1>17. CASE c \in {"status", "scan"}
    BY <1>8, <1>17, InsideOf
<1>18. CASE c = "setwifi"
    <2>1. TextLength(Param(url, 2)) < 32 /\ TextLength(Param(url, 3)) < 64
        BY <1>9
    <2>. QED BY <1>5, <1>18, <2>1, InsideOf
<1>19. CASE c = "event"
    <2>1. TimeFits(Param(url, 5)) /\ TimeFits(Param(url, 6))
        BY ModestTime DEF url
    <2>. QED BY <1>5, <1>19, <1>12, <2>1, InsideOf
<1>20. CASE c = "portsinfo"
    BY <1>8, <1>20, InsideOf
<1>21. CASE c = "portinfo"
    <2> DEFINE name == Param(url, 3)
               new == [names EXCEPT ![Number(url, 2)] = name]
    <2>1. TextLength(name) \in Nat /\ TextLength(name) < 12
        BY <1>9
    <2>. HIDE DEF name
    <2>2. \A p \in Ports : TextLength(new[p]) \in Nat /\ TextLength(new[p]) < 12
        BY <1>6, <2>1 DEF DataInv
    <2>. HIDE DEF new
    <2>3. PortsInside(new)
        BY <1>7, <2>2 DEF NamesEnd, PortsInside
    <2>. QED BY <1>5, <1>10, <1>21, <2>3, InsideOf DEF new, name
<1>22. CASE c = "sntp"
    <2>1. Width(NumberOr(url, SNTP)) < 8
        BY <1>3, <1>22, <1>13 DEF NumberOr, ModestData
    <2>2. NumberInside(NumberOr(url, SNTP))
        BY <2>1, WidthBounded DEF NumberInside
    <2>. QED BY <1>5, <1>22, <2>2, InsideOf
<1>23. CASE c = "wifiport"
    <2>1. Width(NumberOr(url, ServerPort)) < 8
        BY <1>3, <1>23, <1>13 DEF NumberOr, ModestData
    <2>2. NumberInside(NumberOr(url, ServerPort))
        BY <2>1, WidthBounded DEF NumberInside
    <2>. QED BY <1>5, <1>23, <2>2, InsideOf
<1>24. CASE c \in {"getwifi", "events", "time", "initialize"}
    BY <1>24, InsideOf
<1>. QED BY <1>2, <1>14, <1>15, <1>16, <1>17, <1>18, <1>19, <1>20, <1>21, <1>22, <1>23, <1>24
         DEF Commands, url

LEMMA ModestInside ==
    ASSUME DataInv, ModestData, NEW l \in Lines, Modest(l)
    PROVE  LineInside(l)
<1> DEFINE url == Path(l.url)
<1>1. url \in Seq(Words)
    BY LineIsUrl
<1>2. Fits(url, "/", 1, 30)
    <2>1. PICK j \in 0..1 : Copied(url, "/", 1) = Field(url, "/", j)
        BY <1>1, CopiedIsField
    <2>2. TextLength(Field(url, "/", 1)) < 30 /\ TextLength(Field(url, "/", 0)) < 10
        BY DEF Modest
    <2>3. Field(url, "/", 0) \in Seq(Words)
        BY <1>1, GetValueIsRight
    <2>4. TextLength(Field(url, "/", 0)) \in Nat
        BY <2>3, TextIsNat
    <2>5. j = 0 \/ j = 1
        OBVIOUS
    <2>. HIDE DEF url
    <2>. QED BY <2>1, <2>2, <2>4, <2>5 DEF Fits
<1>3. ASSUME IsParsed(l), NEW c \in Commanded(url) PROVE Inside(c, url)
    <2>1. c \in RequestedBy(l)
        BY <1>1, <1>3, CommandedIsField DEF RequestedBy
    <2>. QED BY <2>1, ModestCommand
<1>. QED BY <1>2, <1>3 DEF LineInside

-----------------------------------------------------------------------------
(* The invariant: between two lines the send buffer is empty, and what was sent last is the *)
(* one reply to the line parsed last, unless that was not a modest one.                     *)

SentInv ==
    \/ Requested \subseteq {"initialize"} /\ sent = <<>>
    \/ \E c \in Commands \ {"initialize"} :
           Requested = {c} /\ Len(sent) = 1 /\ sent[1].from = <<c>> /\ ~sent[1].lost

RestInv ==
    /\ DataInv
    /\ buffer = Empty
    /\ line \in Lines \cup {NoLine}
    /\ outside \in BOOLEAN
    /\ IF outside THEN sent = <<>> /\ ~(Modest(line) /\ ModestData) ELSE SentInv

LEMMA NoLineAsks == RequestedBy(NoLine) = {}
BY DEF RequestedBy, IsParsed, NoLine

LEMMA RestInit == Init => RestInv
<1>. SUFFICES ASSUME Init PROVE RestInv
    OBVIOUS
<1>1. PICK s \in Stored :
          /\ events = [e \in EventIds |-> s.event]
          /\ names = s.names /\ numbers = s.numbers
          /\ SNTP = s.SNTP /\ ServerPort = s.ServerPort
    BY DEF Init
<1>2. DataInv
    BY <1>1, StoredAssumption DEF DataInv
<1>. QED BY <1>2, NoLineAsks DEF Init, RestInv, SentInv, Requested

LEMMA RestLine ==
    ASSUME RestInv, NEW l \in Lines, ServerParseHeaderURL(l)
    PROVE  RestInv'
<1>1. /\ line' = l /\ Requested' = RequestedBy(l) /\ Path(l.url) \in Seq(Words)
      /\ ~outside /\ outside' = ~LineInside(l)
    BY ParseStep, LineIsUrl DEF Requested
<1>2. CASE ~LineInside(l) /\ Ignored
    <2>1. DataInv' /\ UNCHANGED data
        BY <1>2, DataKept DEF Ignored, RestInv, data
    <2>2. ModestData' <=> ModestData
        BY <2>1 DEF ModestData, data
    <2>3. ~(Modest(line') /\ ModestData')
        BY <1>1, <1>2, <2>2, ModestInside DEF RestInv
    <2>. QED BY <1>1, <1>2, <2>1, <2>3 DEF Ignored, RestInv
<1>3. CASE LineInside(l) /\ RequestedBy(l) = {} /\ Ignored
    <2>1. DataInv'
        BY <1>3, DataKept DEF Ignored, RestInv, data
    <2>. QED BY <1>1, <1>3, <2>1 DEF Ignored, RestInv, SentInv
<1>4. ASSUME NEW c \in RequestedBy(l), LineInside(l), Inside(c, Path(l.url)),
             ParseURLCommand(c, Path(l.url))
      PROVE  RestInv'
    <2>1. c \in Commands /\ RequestedBy(l) = {c}
        BY OneRequest
    <2>2. DataInv' /\ Answered(c)
        BY <1>1, <1>4, <2>1, CommandAnswers DEF RestInv
    <2>3. SentInv'
        BY <1>1, <2>1, <2>2 DEF Answered, SentInv
    <2>. QED BY <1>1, <1>4, <2>2, <2>3 DEF RestInv, Answered
<1>. QED BY <1>2, <1>3, <1>4, ParseStep

LEMMA RestNext == RestInv /\ [Next]_vars => RestInv'
<1>. SUFFICES ASSUME RestInv, [Next]_vars PROVE RestInv'
    OBVIOUS
<1>1. CASE \E l \in Lines : ServerParseHeaderURL(l)
    BY <1>1, RestLine
<1>2. CASE httpdRecvCb
    <2>1. DataInv'
        BY <1>2, DataKept DEF httpdRecvCb, RestInv
    <2>. QED BY <1>2, <2>1, NoLineAsks DEF httpdRecvCb, RestInv, SentInv, Requested
<1>3. CASE UNCHANGED vars
    <2>1. DataInv' /\ UNCHANGED <<data, buffer, line, sent, outside>>
        BY <1>3, DataKept DEF vars, RestInv
    <2>2. (SentInv' <=> SentInv) /\ (Modest(line') <=> Modest(line)) /\ (ModestData' <=> ModestData)
        BY <2>1 DEF SentInv, Requested, ModestData, data
    <2>. QED BY <2>1, <2>2 DEF RestInv
<1>. QED BY <1>1, <1>2, <1>3 DEF Next

THEOREM RestInvariant == Spec => []RestInv
BY RestInit, RestNext, PTL DEF Spec

-----------------------------------------------------------------------------
(* What follows from it. *)

\* Types.
THEOREM RestTypeCorrect == Spec => []TypeOK
<1>1. RestInv => TypeOK
    <2>. SUFFICES ASSUME RestInv PROVE TypeOK
        OBVIOUS
    <2>1. buffer.len \in 0..MAX_SENDBUFF_LEN
        BY SizesAssumption DEF RestInv, Empty
    <2>. QED BY <2>1 DEF RestInv, DataInv, TypeOK
<1>. QED BY <1>1, RestInvariant, PTL

\* In every state getValue returns the fields of the line's URL.
THEOREM GetValueCorrect == Spec => []GetValueIsField
<1>1. RestInv => GetValueIsField
    <2>. SUFFICES ASSUME RestInv, NEW separator \in {"/", ":"}, NEW index \in 0..7
                  PROVE  LET f == Field(line.url, separator, index)
                             v == getValue(line.url, separator, index)
                         IN  v.text = f /\ v.size = IF f = <<>> THEN -1 ELSE Len(f)
        BY DEF GetValueIsField
    <2>1. line.url \in Seq(Words)
        BY LineIsUrl DEF RestInv
    <2>. QED BY <2>1, GetValueIsRight
<1>. QED BY <1>1, RestInvariant, PTL

\* No piece of a reply is dropped, it has the send buffer for itself, and a modest
\* request keeps within the arrays.
THEOREM RepliesWhole == Spec => []RepliesAreWhole
<1>1. RestInv => RepliesAreWhole
    <2>. SUFFICES ASSUME RestInv PROVE RepliesAreWhole
        OBVIOUS
    <2>1. ASSUME NEW i \in 1..Len(sent) PROVE ~sent[i].lost /\ Len(sent[i].from) = 1
        <3>1. sent # <<>>
            OBVIOUS
        <3>2. PICK c \in Commands : Len(sent) = 1 /\ sent[1].from = <<c>> /\ ~sent[1].lost
            BY <3>1 DEF RestInv, SentInv
        <3>3. i = 1
            BY <3>2
        <3>. QED BY <3>2, <3>3
    <2>2. outside => ~(Modest(line) /\ ModestData)
        BY DEF RestInv
    <2>. QED BY <2>1, <2>2 DEF RepliesAreWhole
<1>. QED BY <1>1, RestInvariant, PTL

\* Each request gets the one reply of its command, and nothing else gets any.
THEOREM RequestsAnswered == Spec => []EachRequestAnswered
<1>1. RestInv => EachRequestAnswered
    <2>. SUFFICES ASSUME RestInv PROVE EachRequestAnswered
        OBVIOUS
    <2>1. CASE Requested \subseteq {"initialize"} /\ sent = <<>>
        <3>1. 1..Len(sent) = {} /\ Requested \ {"initialize"} = {}
            BY <2>1
        <3>. QED BY <3>1 DEF EachRequestAnswered
    <2>2. ASSUME NEW c \in Commands \ {"initialize"},
                 Requested = {c}, Len(sent) = 1, sent[1].from = <<c>>
          PROVE  EachRequestAnswered
        <3>1. \A j \in 1..Len(sent) : j = 1
            BY <2>2
        <3>2. 1 \in 1..Len(sent) /\ <<c>> # <<>> /\ <<c>>[1] = c
            BY <2>2
        <3>3. {j \in 1..Len(sent) : sent[j].from # <<>>} = {1}
            BY <2>2, <3>1, <3>2
        <3>. QED BY <2>2, <3>2, <3>3 DEF EachRequestAnswered
    <2>3. CASE outside
        BY <2>3 DEF EachRequestAnswered
    <2>. QED BY <2>1, <2>2, <2>3 DEF RestInv, SentInv
<1>. QED BY <1>1, RestInvariant, PTL

\* What a query makes of the settings and asks of the ports.
LEMMA QueryKeepsData ==
    ASSUME NEW l \in Lines, ServerParseHeaderURL(l), IsQuery(l)
    PROVE  data' = data /\ pin' = <<>>
<1> DEFINE url == Path(l.url)
<1>1. url \in Seq(Words)
    BY LineIsUrl
<1>2. getValue(url, "/", 2).size = -1
    BY <1>1, GetValueIsRight DEF IsQuery
<1>3. CASE Ignored
    BY <1>3 DEF Ignored
<1>4. ASSUME NEW c \in RequestedBy(l), ParseURLCommand(c, url)
      PROVE  data' = data /\ pin' = <<>>
    <2>1. c \in Queries
        BY DEF IsQuery
    <2>. HIDE DEF url
    <2>2. CASE c = "sntp"
        BY <1>2, <1>4, <2>2, Called DEF doSNTP, NumberOr, data
    <2>3. CASE c = "wifiport"
        BY <1>2, <1>4, <2>3, Called DEF doWifiport, NumberOr, data
    <2>4. CASE c = "events"
        BY <1>4, <2>4, Called DEF doGetEvents, NoPin
    <2>5. CASE c \in {"status", "scan"}
        BY <1>4, <2>5, Called DEF doStatus, NoPin
    <2>6. CASE c = "portsinfo"
        BY <1>4, <2>6, Called DEF doGetPorts, NoPin
    <2>7. CASE c = "time"
        BY <1>4, <2>7, Called DEF doGetTime, NoPin
    <2>. QED BY <2>1, <2>2, <2>3, <2>4, <2>5, <2>6, <2>7 DEF Queries
<1>. QED BY <1>3, <1>4, ParseStep

\* A query changes no setting and no port, whatever slashes are at its end.
THEOREM QueriesHarmless == Spec => QueriesChangeNothing
<1>1. [Next]_vars => [data' # data \/ pin' # <<>> => ~IsQuery(line')]_vars
    <2>. SUFFICES ASSUME Next, data' # data \/ pin' # <<>> PROVE ~IsQuery(line')
        BY DEF vars
    <2>1. ASSUME NEW l \in Lines, ServerParseHeaderURL(l) PROVE ~IsQuery(line')
        <3>1. line' = l
            BY <2>1, ParseStep
        <3>. QED BY <2>1, <3>1, QueryKeepsData
    <2>2. CASE httpdRecvCb
        BY <2>2 DEF httpdRecvCb
    <2>. QED BY <2>1, <2>2 DEF Next
<1>. QED BY <1>1, PTL DEF Spec, QueriesChangeNothing

-----------------------------------------------------------------------------
(* The fields of an event. *)

\* Words behind a separator are the beginning of the field that it begins.
LEMMA FieldBegins ==
    ASSUME NEW W, NEW string \in Seq(W), NEW separator, NEW index \in Nat,
           NEW first \in FieldStarts(string, separator, index),
           NEW k \in Nat, first + k <= Len(string),
           \A i \in 1..k : string[first + i] # separator
    PROVE  LET t == getValue(string, separator, index).text
           IN  t \in Seq(W) /\ Len(t) >= k /\ \A i \in 1..k : t[i] = string[first + i]
<1> DEFINE L == Len(string)
           E == Ends(string, separator)
           Behind == {e \in E : first < e}
           f == Field(string, separator, index)
<1>1. L \in Nat /\ E \in SUBSET (1..(L + 1)) /\ first \in 0..L
    <2>1. L \in Nat /\ E \in SUBSET (1..(L + 1)) /\ Cuts(string, separator) \in SUBSET (1..L)
        BY EndIsLast
    <2>2. first \in Cuts(string, separator) \cup {0}
        BY DEF FieldStarts
    <2>. QED BY <2>1, <2>2
<1>2. L + 1 \in Behind
    BY <1>1 DEF Ends
<1>3. PICK end \in Behind : \A e \in Behind : end <= e
    <2>1. Behind \in SUBSET Nat
        BY <1>1
    <2>. HIDE DEF Behind
    <2>. QED BY <1>2, <2>1, LeastNumber
<1>4. /\ end \in E /\ first < end /\ end \in 1..(L + 1)
      /\ \A c \in E : c <= first \/ end <= c
    BY <1>1, <1>3
<1>5. f = SubSeq(string, first + 1, end - 1)
    BY <1>4, FieldBetween
<1>6. first + k < end
    <2>1. SUFFICES ASSUME end <= first + k PROVE FALSE
        BY <1>1, <1>4
    <2>2. end - first \in 1..k /\ first + (end - first) = end /\ end # L + 1
        BY <1>1, <1>4, <2>1
    <2>3. string[end] # separator
        BY <2>2
    <2>. QED BY <1>4, <2>2, <2>3 DEF Ends, Cuts
<1>7. end - 1 \in 0..L /\ first <= end - 1 /\ k <= end - 1 - first
    BY <1>1, <1>4, <1>6
<1>8. f \in Seq(W) /\ Len(f) = end - 1 - first
      /\ \A i \in 1..(end - 1 - first) : f[i] = string[first + i]
    <2>. HIDE DEF f
    <2>. QED BY <1>1, <1>5, <1>7, PartOf
<1>9. getValue(string, separator, index).text = f
    BY GetValueIsRight
<1>10. \A i \in 1..k : i \in 1..(end - 1 - first)
    BY <1>1, <1>4, <1>7
<1>. HIDE DEF f
<1>. QED BY <1>7, <1>8, <1>9, <1>10

\* One word more: a separator begins the next field, any other word does not.
LEMMA StartsNext ==
    ASSUME NEW W, NEW string \in Seq(W), NEW separator
    PROVE  LET Count(n) == Cardinality(Upto(Cuts(string, separator), n))
           IN  /\ Count(0) = 0
               /\ \A n \in 0..(Len(string) - 1) :
                      Count(n + 1) = Count(n) + (IF string[n + 1] = separator THEN 1 ELSE 0)
               /\ 0 \in FieldStarts(string, separator, 0)
               /\ \A n \in 1..Len(string) :
                      string[n] = separator => n \in FieldStarts(string, separator, Count(n))
<1> DEFINE C == Cuts(string, separator)
           L == Len(string)
           Count(n) == Cardinality(Upto(C, n))
<1>1. L \in Nat /\ C \in SUBSET (1..L) /\ Upto(C, 0) = {}
    BY EndIsLast
<1>2. Count(0) = 0
    BY <1>1, FS_EmptySet
<1>3. ASSUME NEW n \in 0..(L - 1)
      PROVE  Count(n + 1) = Count(n) + (IF string[n + 1] = separator THEN 1 ELSE 0)
    <2>1. n \in Nat /\ n + 1 \in 1..L
        BY <1>1
    <2>2. n + 1 \in C <=> string[n + 1] = separator
        BY <2>1 DEF Cuts
    <2>3. Cardinality(Upto(C, n + 1)) = Cardinality(Upto(C, n)) + (IF n + 1 \in C THEN 1 ELSE 0)
        <3>. HIDE DEF C, L
        <3>. QED BY <1>1, <2>1, CountNext
    <2>. QED BY <2>2, <2>3
<1>4. 0 \in FieldStarts(string, separator, 0)
    BY <1>2 DEF FieldStarts
<1>5. ASSUME NEW n \in 1..L, string[n] = separator
      PROVE  n \in FieldStarts(string, separator, Count(n))
    BY <1>5 DEF FieldStarts, Cuts
<1>. QED BY <1>2, <1>3, <1>4, <1>5

\* A URL keeps the words that are before its first question mark.
LEMMA PathKeeps ==
    ASSUME NEW W, NEW url \in Seq(W), NEW k \in 0..Len(url), \A i \in 1..k : url[i] # "?"
    PROVE  Len(Path(url)) >= k /\ \A i \in 1..k : Path(url)[i] = url[i]
<1>1. PICK n \in 0..Len(url) :
          /\ Path(url) = SubSeq(url, 1, n)
          /\ n = Len(url) \/ url[n + 1] = "?"
    BY PathIsPrefix
<1>2. n >= k
    <2>1. SUFFICES ASSUME n < k PROVE FALSE
        OBVIOUS
    <2>2. n + 1 \in 1..k /\ n # Len(url)
        BY <2>1
    <2>. QED BY <1>1, <2>2
<1>3. 0 \in 0..Len(url) /\ 0 <= n /\ 0 + 1 = 1 /\ n - 0 = n
    OBVIOUS
<1>4. LET part == SubSeq(url, 0 + 1, n)
      IN  Len(part) = n - 0 /\ \A i \in 1..(n - 0) : part[i] = url[0 + i]
    BY <1>3, PartOf
<1>5. Len(Path(url)) = n /\ \A i \in 1..n : Path(url)[i] = url[i]
    BY <1>1, <1>3, <1>4
<1>. QED BY <1>2, <1>5

\* atoi of a field is the number in it, whatever follows.
LEMMA NumberAt ==
    ASSUME NEW W, NEW url \in Seq(W), NEW separator, separator \in {"/", ":"},
           NEW index \in Nat, NEW first \in FieldStarts(url, separator, index),
           first + 1 <= Len(url), url[first + 1] \in DOMAIN Numeral
    PROVE  atoi(getValue(url, separator, index).text) = Numeral[url[first + 1]]
<1> DEFINE t == getValue(url, separator, index).text
<1>1. url[first + 1] # separator
    BY WordsAssumption
<1>2. t \in Seq(W) /\ Len(t) >= 1 /\ \A i \in 1..1 : t[i] = url[first + i]
    <2>1. \A i \in 1..1 : url[first + i] # separator
        BY <1>1
    <2>. QED BY <2>1, FieldBegins
<1>3. t # <<>> /\ t[1] = url[first + 1]
    BY <1>2
<1>. HIDE DEF t
<1>4. atoi(t) = Numeral[url[first + 1]]
    BY <1>3 DEF atoi
<1>. QED BY <1>4 DEF t

\* A time in a URL.
LEMMA TimeAt ==
    ASSUME NEW W, NEW url \in Seq(W), NEW index \in Nat,
           NEW first \in FieldStarts(url, "/", index), first + 3 <= Len(url),
           url[first + 1] \in DOMAIN Numeral, url[first + 2] = ":",
           url[first + 3] \in DOMAIN Numeral
    PROVE  TimeOf(Param(url, index)) =
               [Hour |-> Numeral[url[first + 1]], Min |-> Numeral[url[first + 3]]]
<1> DEFINE t == Param(url, index)
<1>1. \A i \in 1..3 : url[first + i] # "/"
    <2>1. url[first + 1] # "/" /\ url[first + 2] # "/" /\ url[first + 3] # "/"
        BY WordsAssumption
    <2>2. \A i \in 1..3 : i = 1 \/ i = 2 \/ i = 3
        OBVIOUS
    <2>. QED BY <2>1, <2>2
<1>2. t \in Seq(W) /\ Len(t) >= 3 /\ \A i \in 1..3 : t[i] = url[first + i]
    BY <1>1, FieldBegins DEF Param
<1>. HIDE DEF t
<1>3. /\ 0 \in FieldStarts(t, ":", 0)
      /\ 2 \in FieldStarts(t, ":", 1)
    <2> DEFINE Count(n) == Cardinality(Upto(Cuts(t, ":"), n))
    <2>1. /\ Count(0) = 0
          /\ \A n \in 0..(Len(t) - 1) : Count(n + 1) = Count(n) + (IF t[n + 1] = ":" THEN 1 ELSE 0)
          /\ 0 \in FieldStarts(t, ":", 0)
          /\ \A n \in 1..Len(t) : t[n] = ":" => n \in FieldStarts(t, ":", Count(n))
        BY <1>2, StartsNext
    <2>2. t[1] # ":" /\ t[2] = ":"
        BY <1>2, WordsAssumption
    <2>3. 0 \in 0..(Len(t) - 1) /\ 1 \in 0..(Len(t) - 1) /\ 2 \in 1..Len(t)
          /\ 0 + 1 = 1 /\ 1 + 1 = 2
        BY <1>2
    <2>. HIDE DEF Count
    <2>4. Count(1) = 0 /\ Count(2) = 1
        BY <2>1, <2>2, <2>3
    <2>. QED BY <2>1, <2>2, <2>3, <2>4
<1>4. /\ t[0 + 1] = url[first + 1] /\ 0 + 1 <= Len(t)
      /\ t[2 + 1] = url[first + 3] /\ 2 + 1 <= Len(t)
    BY <1>2
<1>5. atoi(getValue(t, ":", 0).text) = Numeral[url[first + 1]]
    BY <1>2, <1>3, <1>4, NumberAt
<1>6. atoi(getValue(t, ":", 1).text) = Numeral[url[first + 3]]
    BY <1>2, <1>3, <1>4, NumberAt
<1>. QED BY <1>5, <1>6 DEF TimeOf, t

-----------------------------------------------------------------------------
(* The values of an event and of a pin are read from their fields. *)

EventShape(u) ==
    /\ Len(u) >= 16
    /\ u = EventUrl(u[4], u[6], u[8], u[10], u[12], u[14], u[16]) \o SubSeq(u, 17, Len(u))
    /\ \A i \in {4, 6, 8, 10, 12, 14, 16} : u[i] \in DOMAIN Numeral
    /\ Numeral[u[4]] \in EventIds /\ Numeral[u[6]] \in 0..255

PinShape(u) ==
    /\ Len(u) = 6
    /\ u = PinUrl(u[4], u[6])
    /\ \A i \in {4, 6} : u[i] \in DOMAIN Numeral

EventOf(u) ==
    [Active    |-> Numeral[u[6]],
     Port      |-> Numeral[u[8]],
     StartTime |-> [Hour |-> Numeral[u[10]], Min |-> Numeral[u[12]]],
     EndTime   |-> [Hour |-> Numeral[u[14]], Min |-> Numeral[u[16]]]]

\* The property in these terms.
PlacedInv == ~outside =>
    /\ Requested = {"event"} /\ EventShape(line.url) =>
           events[Numeral[line.url[4]]] = EventOf(line.url)
    /\ Requested = {"setpin"} /\ PinShape(line.url) =>
           pin = <<Numeral[line.url[4]], Numeral[line.url[6]]>>

\* The separators of such a URL.
LEMMA EventTokens ==
    ASSUME NEW u \in Seq(Words), EventShape(u)
    PROVE  /\ u[1] = "/" /\ u[2] = "event" /\ u[3] = "/" /\ u[5] = "/" /\ u[7] = "/"
           /\ u[9] = "/" /\ u[11] = ":" /\ u[13] = "/" /\ u[15] = ":"
<1> DEFINE t == EventUrl(u[4], u[6], u[8], u[10], u[12], u[14], u[16])
           r == SubSeq(u, 17, Len(u))
           S == Words \cup {"/", "event", ":"}
<1>1. Len(u) \in Nat /\ Len(u) >= 16
    BY Zenon, LenProperties DEF EventShape
<1>2. u = t \o r
    BY Zenon DEF EventShape
<1>3. u[4] \in S /\ u[6] \in S /\ u[8] \in S /\ u[10] \in S /\ u[12] \in S /\ u[14] \in S
      /\ u[16] \in S
    BY <1>1
<1>4. Len(t) = 16 /\ t \in Seq(S)
    <2>. HIDE DEF S
    <2>1. "/" \in S /\ "event" \in S /\ ":" \in S
        BY DEF S
    <2>. QED BY <1>3, <2>1 DEF EventUrl
<1>5. r \in Seq(S)
    BY <1>1
<1>6. /\ t[1] = "/" /\ t[2] = "event" /\ t[3] = "/" /\ t[5] = "/" /\ t[7] = "/"
      /\ t[9] = "/" /\ t[11] = ":" /\ t[13] = "/" /\ t[15] = ":"
    BY DEF EventUrl
<1>. HIDE DEF t, r, S
<1>7. \A i \in 1..16 : (t \o r)[i] = t[i]
    <2>1. \A v, w \in Seq(S) : \A i \in 1..Len(v) : (v \o w)[i] = v[i]
        OBVIOUS
    <2>. QED BY <1>4, <1>5, <2>1
<1>8. 1 \in 1..16 /\ 2 \in 1..16 /\ 3 \in 1..16 /\ 5 \in 1..16 /\ 7 \in 1..16 /\ 9 \in 1..16
      /\ 11 \in 1..16 /\ 13 \in 1..16 /\ 15 \in 1..16
    OBVIOUS
<1>. QED BY <1>2, <1>6, <1>7, <1>8, Zenon

\* The fields of such a URL begin behind its slashes.
LEMMA EventStarts ==
    ASSUME NEW u \in Seq(Words), EventShape(u)
    PROVE  LET p == Path(u)
           IN  /\ p \in Seq(Words) /\ Len(p) >= 16 /\ \A i \in 1..16 : p[i] = u[i]
               /\ 3 \in FieldStarts(p, "/", 2)
               /\ 5 \in FieldStarts(p, "/", 3)
               /\ 7 \in FieldStarts(p, "/", 4)
               /\ 9 \in FieldStarts(p, "/", 5)
               /\ 13 \in FieldStarts(p, "/", 6)
<1> DEFINE p == Path(u)
           Count(n) == Cardinality(Upto(Cuts(p, "/"), n))
<1>1. /\ u[1] = "/" /\ u[2] = "event" /\ u[3] = "/" /\ u[5] = "/" /\ u[7] = "/"
      /\ u[9] = "/" /\ u[11] = ":" /\ u[13] = "/" /\ u[15] = ":"
    BY EventTokens
<1>2. \A i \in {4, 6, 8, 10, 12, 14, 16} : u[i] \notin {"/", ":", "?"}
    BY WordsAssumption DEF EventShape
<1>3. Len(u) \in Nat /\ 16 \in 0..Len(u)
    <2>1. Len(u) >= 16
        BY DEF EventShape
    <2>. QED BY <2>1
<1>4. \A i \in 1..16 : u[i] # "?"
    <2>1. \A i \in 1..16 : i \in {1, 2, 3, 5, 7, 9, 11, 13, 15} \/ i \in {4, 6, 8, 10, 12, 14, 16}
        OBVIOUS
    <2>2. \A i \in {1, 2, 3, 5, 7, 9, 11, 13, 15} : u[i] \in {"/", "event", ":"}
        BY <1>1
    <2>. QED BY <1>2, <2>1, <2>2
<1>5. p \in Seq(Words) /\ Len(p) \in Nat /\ Len(p) >= 16 /\ \A i \in 1..16 : p[i] = u[i]
    <2>1. p \in Seq(Words)
        BY PathIsUrl
    <2>2. Len(p) >= 16 /\ \A i \in 1..16 : p[i] = u[i]
        BY <1>3, <1>4, PathKeeps
    <2>. HIDE DEF p
    <2>. QED BY <2>1, <2>2
<1>. HIDE DEF p
<1>6. p \in Seq(Words)
    BY <1>5
<1>7. Len(p) \in Nat /\ 16 <= Len(p)
    BY <1>5
<1>8. \A i \in 1..16 : p[i] = u[i]
    BY <1>5
<1>9. /\ Count(0) = 0
      /\ \A n \in 0..(Len(p) - 1) : Count(n + 1) = Count(n) + (IF p[n + 1] = "/" THEN 1 ELSE 0)
      /\ \A n \in 1..Len(p) : p[n] = "/" => n \in FieldStarts(p, "/", Count(n))
    BY <1>6, StartsNext
<1>. HIDE DEF Count
<1>10. \A n \in 0..15 : Count(n + 1) = Count(n) + (IF u[n + 1] = "/" THEN 1 ELSE 0)
    <2>. TAKE n \in 0..15
    <2>1. n \in 0..(Len(p) - 1) /\ n + 1 \in 1..16
        BY <1>7
    <2>. QED BY <1>8, <1>9, <2>1
<1>11. \A n \in 1..16 : u[n] = "/" => n \in FieldStarts(p, "/", Count(n))
    <2>. TAKE n \in 1..16
    <2>1. n \in 1..Len(p)
        BY <1>7
    <2>. QED BY <1>8, <1>9, <2>1
<1>12. /\ u[2] # "/" /\ u[4] # "/" /\ u[6] # "/" /\ u[8] # "/" /\ u[10] # "/"
      /\ u[11] # "/" /\ u[12] # "/"
    BY <1>1, <1>2
<1>13. Count(3) = 2 /\ Count(5) = 3 /\ Count(7) = 4 /\ Count(9) = 5 /\ Count(13) = 6
    <2>1. Count(0 + 1) = Count(0) + 1 /\ Count(1 + 1) = Count(1) /\ Count(2 + 1) = Count(2) + 1
        BY <1>1, <1>9, <1>10, <1>12
    <2>2. Count(3) = 2
        BY <1>9, <2>1
    <2>3. Count(3 + 1) = Count(3) + 0 /\ Count(4 + 1) = Count(4) + 1
        BY <1>1, <1>10, <1>12, <2>2
    <2>4. Count(5) = 3
        BY <2>2, <2>3
    <2>5. Count(5 + 1) = Count(5) + 0 /\ Count(6 + 1) = Count(6) + 1
        BY <1>1, <1>10, <1>12, <2>4
    <2>6. Count(7) = 4
        BY <2>4, <2>5
    <2>7. Count(7 + 1) = Count(7) + 0 /\ Count(8 + 1) = Count(8) + 1
        BY <1>1, <1>10, <1>12, <2>6
    <2>8. Count(9) = 5
        BY <2>6, <2>7
    <2>9. Count(9 + 1) = Count(9) + 0 /\ Count(10 + 1) = Count(10) + 0
          /\ Count(11 + 1) = Count(11) + 0 /\ Count(12 + 1) = Count(12) + 1
        BY <1>1, <1>10, <1>12, <2>8
    <2>. QED BY <2>2, <2>4, <2>6, <2>8, <2>9
<1>14. /\ 3 \in FieldStarts(p, "/", 2) /\ 5 \in FieldStarts(p, "/", 3)
       /\ 7 \in FieldStarts(p, "/", 4) /\ 9 \in FieldStarts(p, "/", 5)
       /\ 13 \in FieldStarts(p, "/", 6)
    <2>1. /\ 3 \in 1..16 /\ 5 \in 1..16 /\ 7 \in 1..16 /\ 9 \in 1..16 /\ 13 \in 1..16
        OBVIOUS
    <2>. QED BY <1>1, <1>11, <1>13, <2>1, Zenon
<1>. QED BY <1>5, <1>14 DEF p

LEMMA EventRead ==
    ASSUME NEW u \in Seq(Words), EventShape(u)
    PROVE  /\ Number(Path(u), 2) = Numeral[u[4]]
           /\ Number(Path(u), 3) = Numeral[u[6]]
           /\ Number(Path(u), 4) = Numeral[u[8]]
           /\ TimeOf(Param(Path(u), 5)) = [Hour |-> Numeral[u[10]], Min |-> Numeral[u[12]]]
           /\ TimeOf(Param(Path(u), 6)) = [Hour |-> Numeral[u[14]], Min |-> Numeral[u[16]]]
<1> DEFINE p == Path(u)
<1>1. /\ p \in Seq(Words) /\ Len(p) >= 16 /\ \A i \in 1..16 : p[i] = u[i]
      /\ 3 \in FieldStarts(p, "/", 2) /\ 5 \in FieldStarts(p, "/", 3)
      /\ 7 \in FieldStarts(p, "/", 4) /\ 9 \in FieldStarts(p, "/", 5)
      /\ 13 \in FieldStarts(p, "/", 6)
    BY EventStarts
<1>2. /\ u[4] \in DOMAIN Numeral /\ u[6] \in DOMAIN Numeral /\ u[8] \in DOMAIN Numeral
      /\ u[10] \in DOMAIN Numeral /\ u[12] \in DOMAIN Numeral
      /\ u[14] \in DOMAIN Numeral /\ u[16] \in DOMAIN Numeral
    BY DEF EventShape
<1>. HIDE DEF p
<1>3. p \in Seq(Words)
    BY <1>1
<1>4. Len(p) \in Nat /\ Len(p) >= 16
    BY <1>1, <1>3
<1>5. /\ p[3 + 1] = u[4] /\ p[5 + 1] = u[6] /\ p[7 + 1] = u[8]
      /\ p[9 + 1] = u[10] /\ p[9 + 2] = u[11] /\ p[9 + 3] = u[12]
      /\ p[13 + 1] = u[14] /\ p[13 + 2] = u[15] /\ p[13 + 3] = u[16]
    BY <1>1
<1>6. 3 + 1 <= Len(p) /\ 5 + 1 <= Len(p) /\ 7 + 1 <= Len(p) /\ 9 + 3 <= Len(p)
      /\ 13 + 3 <= Len(p)
    BY <1>4
<1>7. u[11] = ":" /\ u[15] = ":"
    BY EventTokens
<1>8. /\ 3 \in FieldStarts(p, "/", 2) /\ 5 \in FieldStarts(p, "/", 3)
      /\ 7 \in FieldStarts(p, "/", 4) /\ 9 \in FieldStarts(p, "/", 5)
      /\ 13 \in FieldStarts(p, "/", 6)
    BY <1>1
<1>9. atoi(getValue(p, "/", 2).text) = Numeral[u[4]]
    <2>1. 3 \in FieldStarts(p, "/", 2) /\ 3 + 1 <= Len(p)
        BY <1>6, <1>8
    <2>2. p[3 + 1] = u[4] /\ p[3 + 1] \in DOMAIN Numeral
        BY <1>2, <1>5
    <2>. QED BY <1>3, <2>1, <2>2, NumberAt
<1>10. atoi(getValue(p, "/", 3).text) = Numeral[u[6]]
    <2>1. 5 \in FieldStarts(p, "/", 3) /\ 5 + 1 <= Len(p)
        BY <1>6, <1>8
    <2>2. p[5 + 1] = u[6] /\ p[5 + 1] \in DOMAIN Numeral
        BY <1>2, <1>5
    <2>. QED BY <1>3, <2>1, <2>2, NumberAt
<1>11. atoi(getValue(p, "/", 4).text) = Numeral[u[8]]
    BY <1>2, <1>3, <1>5, <1>6, <1>8, NumberAt
<1>12. TimeOf(Param(p, 5)) = [Hour |-> Numeral[u[10]], Min |-> Numeral[u[12]]]
    BY <1>2, <1>3, <1>5, <1>6, <1>7, <1>8, TimeAt
<1>13. TimeOf(Param(p, 6)) = [Hour |-> Numeral[u[14]], Min |-> Numeral[u[16]]]
    BY <1>2, <1>3, <1>5, <1>6, <1>7, <1>8, TimeAt
<1>. QED BY <1>9, <1>10, <1>11, <1>12, <1>13 DEF p, Number, Param

\* Both values of a pin.
LEMMA PinRead ==
    ASSUME NEW u \in Seq(Words), PinShape(u)
    PROVE  /\ Number(Path(u), 2) = Numeral[u[4]]
           /\ Number(Path(u), 3) = Numeral[u[6]]
<1> DEFINE p == Path(u)
           Count(n) == Cardinality(Upto(Cuts(p, "/"), n))
<1>1. u = <<"/", "setpin", "/", u[4], "/", u[6]>> /\ Len(u) = 6
    BY Zenon DEF PinShape, PinUrl
<1>2. u[4] \in DOMAIN Numeral /\ u[6] \in DOMAIN Numeral
    BY DEF PinShape
<1>3. u[4] \notin {"/", "?"} /\ u[6] \notin {"/", "?"}
    BY <1>2, WordsAssumption
<1>4. \A v, a, b : v = <<"/", "setpin", "/", a, "/", b>> =>
                       v[1] = "/" /\ v[2] = "setpin" /\ v[3] = "/" /\ v[5] = "/"
    OBVIOUS
<1>5. u[1] = "/" /\ u[2] = "setpin" /\ u[3] = "/" /\ u[5] = "/"
    BY <1>1, <1>4, Zenon
<1>6. p \in Seq(Words)
    BY PathIsUrl
<1>7. 6 \in 0..Len(u) /\ \A i \in 1..6 : u[i] # "?"
    <2>1. Len(u) = 6
        BY DEF PinShape
    <2>2. \A i \in 1..6 : i \in {1, 2, 3, 4, 5, 6}
        OBVIOUS
    <2>3. \A i \in {1, 2, 3, 4, 5, 6} : u[i] # "?"
        BY <1>3, <1>5
    <2>. QED BY <2>1, <2>2, <2>3
<1>8. Len(p) >= 6 /\ \A i \in 1..6 : p[i] = u[i]
    BY <1>7, PathKeeps
<1>. HIDE DEF p
<1>9. Len(p) \in Nat /\ Len(p) >= 6
    BY <1>6, <1>8
<1>10. p[1] = "/" /\ p[2] # "/" /\ p[3] = "/" /\ p[4] = u[4] /\ p[5] = "/" /\ p[6] = u[6]
    BY <1>5, <1>8
<1>11. /\ Count(0) = 0
       /\ \A n \in 0..(Len(p) - 1) : Count(n + 1) = Count(n) + (IF p[n + 1] = "/" THEN 1 ELSE 0)
       /\ \A n \in 1..Len(p) : p[n] = "/" => n \in FieldStarts(p, "/", Count(n))
    BY <1>6, StartsNext
<1>. HIDE DEF Count
<1>12. \A n \in 0..4 : n \in 0..(Len(p) - 1) /\ n + 1 \in 1..Len(p)
    BY <1>9
<1>13. Count(3) = 2 /\ Count(5) = 3
    <2>1. Count(0 + 1) = 0 + 1 /\ Count(1 + 1) = Count(1) /\ Count(2 + 1) = Count(2) + 1
        BY <1>10, <1>11, <1>12
    <2>2. Count(3 + 1) = Count(3) + 0 /\ Count(4 + 1) = Count(4) + 1
        <3>1. p[3 + 1] # "/" /\ p[4 + 1] = "/"
            BY <1>3, <1>10
        <3>. QED BY <1>11, <1>12, <3>1
    <2>3. Count(3) = 2
        BY <2>1
    <2>. QED BY <2>2, <2>3
<1>14. 3 \in FieldStarts(p, "/", 2) /\ 5 \in FieldStarts(p, "/", 3)
    <2>1. 3 \in 1..Len(p) /\ 5 \in 1..Len(p)
        BY <1>9
    <2>. QED BY <1>10, <1>11, <1>13, <2>1, Zenon
<1>15. 3 + 1 <= Len(p) /\ 5 + 1 <= Len(p) /\ p[3 + 1] = u[4] /\ p[5 + 1] = u[6]
    BY <1>9, <1>10
<1>16. atoi(getValue(p, "/", 2).text) = Numeral[u[4]]
    BY <1>2, <1>6, <1>14, <1>15, NumberAt
<1>17. atoi(getValue(p, "/", 3).text) = Numeral[u[6]]
    BY <1>2, <1>6, <1>14, <1>15, NumberAt
<1>. QED BY <1>16, <1>17 DEF p, Number, Param

\* What a line leaves behind.
LEMMA PlacedLine ==
    ASSUME RestInv, NEW l \in Lines, ServerParseHeaderURL(l)
    PROVE  PlacedInv'
<1>1. /\ line' = l /\ Requested' = RequestedBy(l) /\ l.url \in Seq(Words)
      /\ outside' = ~LineInside(l)
    BY ParseStep, LineIsUrl DEF Requested
<1>. SUFFICES ASSUME LineInside(l) PROVE PlacedInv'
    BY <1>1 DEF PlacedInv
<1>2. ASSUME NEW c, RequestedBy(l) = {c} PROVE ParseURLCommand(c, Path(l.url))
    <2>1. c \in RequestedBy(l)
        BY <1>2
    <2>2. PICK d \in RequestedBy(l) : ParseURLCommand(d, Path(l.url))
        BY <2>1, ParseStep
    <2>. QED BY <1>2, <2>2
<1>3. ASSUME RequestedBy(l) = {"event"}, EventShape(l.url)
      PROVE  events'[Numeral[l.url[4]]] = EventOf(l.url)
    <2>1. doSetEvent("event", Path(l.url))
        BY <1>2, <1>3, Called
    <2>2. StoreEvent(Path(l.url))
        BY <2>1 DEF doSetEvent
    <2>3. /\ Number(Path(l.url), 2) = Numeral[l.url[4]]
          /\ Number(Path(l.url), 3) = Numeral[l.url[6]]
          /\ Number(Path(l.url), 4) = Numeral[l.url[8]]
          /\ TimeOf(Param(Path(l.url), 5)) = [Hour |-> Numeral[l.url[10]], Min |-> Numeral[l.url[12]]]
          /\ TimeOf(Param(Path(l.url), 6)) = [Hour |-> Numeral[l.url[14]], Min |-> Numeral[l.url[16]]]
        BY <1>1, <1>3, EventRead
    <2>4. Numeral[l.url[4]] \in EventIds /\ Numeral[l.url[6]] \in 0..255
        BY <1>3 DEF EventShape
    <2>5. DOMAIN events = EventIds
        BY DEF RestInv, DataInv
    <2>6. \A n \in 0..255 : n % 256 = n
        OBVIOUS
    <2>. QED BY <2>2, <2>3, <2>4, <2>5, <2>6 DEF StoreEvent, EventOf
<1>4. ASSUME RequestedBy(l) = {"setpin"}, PinShape(l.url)
      PROVE  pin' = <<Numeral[l.url[4]], Numeral[l.url[6]]>>
    <2>1. doSetPin("setpin", Path(l.url))
        BY <1>2, <1>4, Called
    <2>2. /\ Number(Path(l.url), 2) = Numeral[l.url[4]]
          /\ Number(Path(l.url), 3) = Numeral[l.url[6]]
        BY <1>1, <1>4, PinRead
    <2>. QED BY <2>1, <2>2 DEF doSetPin
<1>. QED BY <1>1, <1>3, <1>4 DEF PlacedInv

LEMMA PlacedNext == RestInv /\ PlacedInv /\ [Next]_vars => PlacedInv'
<1>. SUFFICES ASSUME RestInv, PlacedInv, [Next]_vars PROVE PlacedInv'
    OBVIOUS
<1>1. CASE \E l \in Lines : ServerParseHeaderURL(l)
    BY <1>1, PlacedLine
<1>2. CASE httpdRecvCb
    <2>1. Requested' = {}
        BY <1>2, NoLineAsks DEF httpdRecvCb, Requested
    <2>. QED BY <2>1 DEF PlacedInv
<1>3. CASE UNCHANGED vars
    BY <1>3 DEF vars, data, PlacedInv, Requested
<1>. QED BY <1>1, <1>2, <1>3 DEF Next

\* The values of an event and of a pin end up where the URL names them.
THEOREM FieldsStored == Spec => []FieldsInTheirPlace
<1>1. Init => PlacedInv
    <2>. SUFFICES ASSUME Init PROVE PlacedInv
        OBVIOUS
    <2>1. Requested = {}
        BY NoLineAsks DEF Init, Requested
    <2>. QED BY <2>1 DEF PlacedInv
<1>2. PlacedInv => FieldsInTheirPlace
    BY Zenon DEF PlacedInv, FieldsInTheirPlace, EventShape, PinShape, EventOf
<1>. QED BY <1>1, <1>2, PlacedNext, RestInvariant, PTL DEF Spec
=============================================================================
