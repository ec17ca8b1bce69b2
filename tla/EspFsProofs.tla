----------------------------- MODULE EspFsProofs -----------------------------
(***************************************************************************)
(* Proofs about the file system image, for every tree of files, any names  *)
(* that are asked for and reads of any lengths.                            *)
(***************************************************************************)
EXTENDS EspFs, SequenceTheorems, Recursion

-----------------------------------------------------------------------------
(* Lengths. *)

LEMMA RoundFacts ==
    ASSUME NEW n \in Nat
    PROVE  Round4(n) \in Nat /\ Round4(n) % 4 = 0 /\ n <= Round4(n)
<1>1. (n + 3) \div 4 \in Nat /\ n <= ((n + 3) \div 4) * 4
    OBVIOUS
<1> DEFINE q == (n + 3) \div 4
<1>2. (q * 4) % 4 = 0 /\ q * 4 \in Nat
    <2>. q \in Nat
        BY <1>1
    <2>. HIDE DEF q
    <2>. QED OBVIOUS
<1>. QED BY <1>1, <1>2 DEF Round4

\* What is added to a multiple of four may be rounded by itself.
LEMMA RoundAdds ==
    ASSUME NEW a \in Nat, a % 4 = 0, NEW n \in Nat
    PROVE  Round4(a + n) = a + Round4(n)
<1>1. PICK k \in Nat : a = 4 * k
    <2>1. a \div 4 \in Nat /\ a = 4 * (a \div 4) + (a % 4)
        OBVIOUS
    <2>. QED BY <2>1
<1>2. (a + n + 3) \div 4 = k + (n + 3) \div 4
    <2> DEFINE q == (n + 3) \div 4
               r == (n + 3) % 4
    <2>1. q \in Nat /\ r \in Nat /\ r < 4 /\ n + 3 = 4 * q + r
        OBVIOUS
    <2>. HIDE DEF q, r
    <2>2. a + n + 3 = 4 * (k + q) + r
        BY <1>1, <2>1
    <2>3. (a + n + 3) \div 4 = k + q
        BY <2>1, <2>2
    <2>. QED BY <2>3 DEF q
<1>. QED BY <1>1, <1>2 DEF Round4

LEMMA MultiplesAdd ==
    ASSUME NEW a \in Nat, NEW b \in Nat, a % 4 = 0, b % 4 = 0
    PROVE  (a + b) % 4 = 0
OBVIOUS

-----------------------------------------------------------------------------
(* Names. *)

\* However find spells a path, the name in the image is the file's.
LEMMA RealNameIs ==
    ASSUME NEW l \in Files
    PROVE  RealName(l.path) = l.rel
<1> DEFINE C == DOMAIN Chars \cup {".", "/"}
<1>1. l.rel \in Seq(C) /\ l.rel # <<>> /\ l.rel[1] \notin {".", "/"}
    BY FilesAssumption
<1>2. Len(l.rel) \in Nat /\ Len(l.rel) # 0
    BY <1>1
<1>3. CASE l.path = l.rel
    BY <1>1, <1>3 DEF RealName
<1>4. ASSUME NEW w \in C
      PROVE  LET p == <<w>> \o l.rel IN p[1] = w /\ p # <<>> /\ Tail(p) = l.rel
    <2> DEFINE p == <<w>> \o l.rel
    <2>1. <<w>> \in Seq(C) /\ Len(<<w>>) = 1 /\ <<w>>[1] = w
        BY <1>4
    <2>2. /\ p \in Seq(C) /\ Len(p) = 1 + Len(l.rel)
          /\ \A i \in 1..(1 + Len(l.rel)) : p[i] = IF i <= 1 THEN <<w>>[i] ELSE l.rel[i - 1]
        BY <1>1, <2>1, ConcatProperties
    <2>. HIDE DEF p
    <2>3. p[1] = w /\ p # <<>>
        BY <1>2, <2>1, <2>2
    <2>4. /\ Tail(p) \in Seq(C) /\ Len(Tail(p)) = Len(l.rel)
          /\ \A i \in 1..Len(l.rel) : Tail(p)[i] = p[i + 1]
        BY <1>2, <2>2, <2>3, HeadTailProperties
    <2>5. \A i \in 1..Len(l.rel) : Tail(p)[i] = l.rel[i]
        BY <1>2, <2>2, <2>4
    <2>6. Tail(p) = l.rel
        BY <1>1, <2>4, <2>5, SeqEqual
    <2>. QED BY <2>3, <2>6 DEF p
<1>5. CASE l.path = <<"/">> \o l.rel
    <2>1. l.path[1] = "/" /\ l.path # <<>> /\ Tail(l.path) = l.rel
        BY <1>4, <1>5
    <2>. QED BY <2>1 DEF RealName
<1>6. CASE l.path = <<".", "/">> \o l.rel
    <2> DEFINE q == <<"/">> \o l.rel
    <2>1. q[1] = "/" /\ q # <<>> /\ Tail(q) = l.rel /\ q \in Seq(C)
        BY <1>1, <1>4
    <2>2. l.path = <<".">> \o q
        BY <1>1, <1>6
    <2>3. l.path[1] = "." /\ Tail(l.path) = q
        <3>1. <<".">> \in Seq(C) /\ Len(<<".">>) = 1 /\ <<".">>[1] = "."
            OBVIOUS
        <3>. HIDE DEF q
        <3>2. /\ l.path \in Seq(C) /\ Len(l.path) = 1 + Len(q) /\ Len(q) \in Nat
              /\ \A i \in 1..(1 + Len(q)) : l.path[i] = IF i <= 1 THEN <<".">>[i] ELSE q[i - 1]
            BY <2>1, <2>2, <3>1, ConcatProperties
        <3>3. l.path[1] = "." /\ l.path # <<>>
            BY <3>1, <3>2
        <3>4. /\ Tail(l.path) \in Seq(C) /\ Len(Tail(l.path)) = Len(q)
              /\ \A i \in 1..Len(q) : Tail(l.path)[i] = l.path[i + 1]
            BY <3>2, <3>3, HeadTailProperties
        <3>5. \A i \in 1..Len(q) : Tail(l.path)[i] = q[i]
            BY <3>2, <3>4
        <3>. QED BY <2>1, <3>3, <3>4, <3>5, SeqEqual
    <2>. QED BY <2>1, <2>3 DEF RealName
<1>. QED BY <1>3, <1>5, <1>6, FilesAssumption

LEMMA StrlenIsNat ==
    ASSUME NEW name \in Seq(DOMAIN Chars)
    PROVE  strlen(name) \in Nat
<1> DEFINE n == Len(name)
           turn == [i \in 1..n |-> [t \in Nat |-> t + Chars[name[i]]]]
           Body(g) == [i \in 0..n |-> IF i = 0 THEN 0 ELSE g[i - 1] + Chars[name[i]]]
           upto == CHOOSE g : g = Body(g)
<1>1. n \in Nat /\ \A i \in 1..n : name[i] \in DOMAIN Chars /\ Chars[name[i]] \in Nat
    BY CharsAssumption
<1>2. PICK h \in Runs(Nat, 0, n, turn) : TRUE
    <2>1. turn \in Turns(Nat, n)
        BY <1>1 DEF Turns
    <2>. HIDE DEF turn, n
    <2>. QED BY <1>1, <2>1, LoopExists
<1>3. h \in [0..n -> Nat] /\ h[0] = 0 /\ \A i \in 1..n : h[i] = turn[i][h[i - 1]]
    BY <1>2 DEF Runs
<1>4. h = Body(h)
    <2>1. ASSUME NEW i \in 1..n PROVE h[i] = h[i - 1] + Chars[name[i]]
        <3>1. i - 1 \in 0..n
            BY <1>1
        <3>2. h[i - 1] \in Nat
            BY <1>3, <3>1
        <3>. QED BY <1>3, <3>2
    <2>2. ASSUME NEW i \in 0..n PROVE h[i] = Body(h)[i]
        <3>1. CASE i = 0
            BY <1>3, <3>1
        <3>2. CASE i # 0
            <4>1. i \in 1..n
                BY <1>1, <3>2
            <4>. QED BY <2>1, <3>2, <4>1
        <3>. QED BY <3>1, <3>2
    <2>. QED BY <1>3, <2>2
<1>5. upto = Body(upto)
    BY <1>4
<1>6. strlen(name) = upto[n]
    BY DEF strlen
<1>. HIDE DEF upto
<1> DEFINE S == {i \in Nat : upto[i] \in Nat}
<1>7. 0 \in S
    BY <1>1, <1>5
<1>8. ASSUME NEW i \in 0..(n - 1), i \in S PROVE i + 1 \in S
    <2>1. i + 1 \in 1..n /\ i + 1 \in 0..n /\ i + 1 # 0 /\ (i + 1) - 1 = i /\ i + 1 \in Nat
        BY <1>1
    <2>2. upto[i + 1] = upto[i] + Chars[name[i + 1]]
        BY <1>5, <2>1
    <2>3. upto[i] \in Nat
        BY <1>8
    <2>4. Chars[name[i + 1]] \in Nat
        BY <1>1, <2>1
    <2>5. upto[i + 1] \in Nat
        BY <2>2, <2>3, <2>4
    <2>. QED BY <2>1, <2>5
<1>. HIDE DEF S, n
<1>9. \A i \in 0..n : i \in S
    BY <1>1, <1>7, <1>8, BoundedInduction
<1>10. n \in S
    BY <1>1, <1>9
<1>. QED BY <1>6, <1>10 DEF S

-----------------------------------------------------------------------------
(* What the tool writes of a file. *)

\* The lengths and the cells, so that nothing needs to be known of \o.
DataLen(l) == IF Compression(l) = "none" THEN l.size ELSE l.csize

Extent(l) == IF l.size <= 0 THEN 0 ELSE sizeofHeader + NameLen(l) + Round4(DataLen(l))

HeaderCell(l) ==
    [is |-> "header", flags |-> "file", compression |-> Compression(l), nameLen |-> NameLen(l),
     fileLenComp |-> DataLen(l), fileLenDecomp |-> l.size]

LastCell ==
    [is |-> "header", flags |-> "last", compression |-> "none", nameLen |-> 0,
     fileLenComp |-> 0, fileLenDecomp |-> 0]

NameCell(name) == [is |-> "name", text |-> name]

DataCell(l, i) ==
    [is |-> "data", of |-> l.path, at |-> i, packed |-> Compression(l) # "none"]

FillerCell == [is |-> "filler"]

StoredCell(l, k) ==
    IF k = 1 THEN HeaderCell(l)
    ELSE IF k = sizeofHeader + 1 THEN NameCell(l.rel)
    ELSE IF k > sizeofHeader + NameLen(l) /\ k <= sizeofHeader + NameLen(l) + DataLen(l)
         THEN DataCell(l, k - (sizeofHeader + NameLen(l)))
    ELSE FillerCell

Headers ==
    [is : {"header"}, flags : {"file", "last"}, compression : {"none", "heatshrink"},
     nameLen : Nat, fileLenComp : Nat, fileLenDecomp : Nat]

Names == [is : {"name"}, text : Seq(DOMAIN Chars)]

Paths == {l.path : l \in Files}

DataCells == [is : {"data"}, of : Paths, at : Nat, packed : BOOLEAN]

Cells == Headers \cup Names \cup DataCells \cup {FillerCell}

LEMMA StoredLengths ==
    ASSUME NEW l \in Files, l.size > 0
    PROVE  /\ NameLen(l) \in Nat /\ NameLen(l) % 4 = 0 /\ NameLen(l) >= 1
           /\ l.size \in Nat /\ DataLen(l) \in Nat /\ DataLen(l) >= 1
           /\ Compression(l) \in {"none", "heatshrink"}
           /\ Compression(l) # "none" => l.csize \in Nat /\ l.csize > 1 /\ l.csize <= l.size
           /\ Round4(DataLen(l)) \in Nat /\ DataLen(l) <= Round4(DataLen(l))
           /\ Extent(l) = sizeofHeader + NameLen(l) + Round4(DataLen(l))
           /\ Extent(l) \in Nat /\ Extent(l) % 4 = 0
<1>1. strlen(RealName(l.path)) \in Nat
    BY FilesAssumption, RealNameIs, StrlenIsNat
<1>2. NameLen(l) \in Nat /\ NameLen(l) % 4 = 0 /\ NameLen(l) >= 1
    <2> DEFINE n == strlen(RealName(l.path))
    <2>1. NameLen(l) = Round4(n + 1)
        BY DEF NameLen
    <2>2. n \in Nat
        BY <1>1
    <2>. HIDE DEF n
    <2>3. Round4(n + 1) \in Nat /\ Round4(n + 1) % 4 = 0 /\ n + 1 <= Round4(n + 1)
        BY <2>2, RoundFacts
    <2>. QED BY <2>1, <2>2, <2>3
<1>3. l.size \in Nat /\ l.csize \in Nat /\ l.csize > 1
    BY FilesAssumption
<1>4. DataLen(l) \in Nat /\ DataLen(l) >= 1
    BY <1>3 DEF DataLen
<1>5. Round4(DataLen(l)) \in Nat /\ DataLen(l) <= Round4(DataLen(l)) /\ Round4(DataLen(l)) % 4 = 0
    BY <1>4, RoundFacts
<1>6. sizeofHeader = 16
    BY DEF sizeofHeader
<1>7. Compression(l) \in {"none", "heatshrink"} /\ (Compression(l) # "none" => l.csize <= l.size)
    BY <1>3 DEF Compression
<1>8. Extent(l) = sizeofHeader + NameLen(l) + Round4(DataLen(l))
    BY <1>3 DEF Extent
<1> DEFINE a == NameLen(l)
           b == Round4(DataLen(l))
<1>9. a \in Nat /\ b \in Nat /\ a % 4 = 0 /\ b % 4 = 0
    BY <1>2, <1>5
<1>10. Extent(l) = 16 + a + b
    BY <1>6, <1>8
<1>. HIDE DEF a, b
<1>11. Extent(l) \in Nat /\ Extent(l) % 4 = 0
    BY <1>9, <1>10
<1>. QED BY <1>2, <1>3, <1>4, <1>5, <1>7, <1>8, <1>11

LEMMA FillerIs ==
    ASSUME NEW n \in Nat
    PROVE  /\ Filler(n) \in Seq(Cells) /\ Len(Filler(n)) = n
           /\ \A i \in 1..n : Filler(n)[i] = FillerCell
BY DEF Filler, FillerCell, Cells

\* Two pieces, one after the other.
Joins(s, t) ==
    /\ s \o t \in Seq(Cells)
    /\ Len(s \o t) = Len(s) + Len(t)
    /\ \A k \in 1..Len(s) : (s \o t)[k] = s[k]
    /\ \A k \in 1..Len(t) : (s \o t)[Len(s) + k] = t[k]

LEMMA Joined ==
    ASSUME NEW s \in Seq(Cells), NEW t \in Seq(Cells)
    PROVE  Joins(s, t)
<1>1. /\ s \o t \in Seq(Cells)
      /\ Len(s \o t) = Len(s) + Len(t)
      /\ \A i \in 1..(Len(s) + Len(t)) : (s \o t)[i] = IF i <= Len(s) THEN s[i] ELSE t[i - Len(s)]
    BY ConcatProperties
<1>2. Len(s) \in Nat /\ Len(t) \in Nat
    OBVIOUS
<1>3. ASSUME NEW k \in 1..Len(s) PROVE (s \o t)[k] = s[k]
    <2>1. k \in 1..(Len(s) + Len(t)) /\ k <= Len(s)
        BY <1>2
    <2>. QED BY <1>1, <2>1
<1>4. ASSUME NEW k \in 1..Len(t) PROVE (s \o t)[Len(s) + k] = t[k]
    <2>1. /\ Len(s) + k \in 1..(Len(s) + Len(t)) /\ ~ (Len(s) + k <= Len(s))
          /\ Len(s) + k - Len(s) = k
        BY <1>2
    <2>. QED BY <1>1, <2>1
<1>. QED BY <1>1, <1>3, <1>4 DEF Joins

LEMMA StoredIs ==
    ASSUME NEW l \in Files, l.size > 0
    PROVE  /\ Stored(l) \in Seq(Cells)
           /\ Len(Stored(l)) = Extent(l)
           /\ \A k \in 1..Extent(l) : Stored(l)[k] = StoredCell(l, k)
<1> DEFINE n == NameLen(l)
           d == DataLen(l)
           r == Round4(DataLen(l))
           head == <<HeaderCell(l)>>
           name == <<NameCell(l.rel)>>
           data == Data(l, Compression(l))
           s1 == head \o Filler(15)
           s2 == s1 \o name
           s3 == s2 \o Filler(n - 1)
           s4 == s3 \o data
           s5 == s4 \o Filler(r - d)
<1>1. /\ n \in Nat /\ n - 1 \in Nat /\ d \in Nat /\ r \in Nat /\ r - d \in Nat
      /\ Extent(l) = 16 + n + r /\ 15 \in Nat /\ sizeofHeader = 16
    BY StoredLengths DEF sizeofHeader
<1>2. head \in Seq(Cells) /\ Len(head) = 1 /\ head[1] = HeaderCell(l)
    <2>1. HeaderCell(l) \in Cells
        BY StoredLengths DEF HeaderCell, Cells, Headers
    <2>. QED BY <2>1
<1>3. name \in Seq(Cells) /\ Len(name) = 1 /\ name[1] = NameCell(l.rel)
    <2>1. NameCell(l.rel) \in Cells
        BY FilesAssumption DEF NameCell, Cells, Names
    <2>. QED BY <2>1
<1>4. data \in Seq(Cells) /\ Len(data) = d /\ \A i \in 1..d : data[i] = DataCell(l, i)
    <2>1. \A i \in 1..d : DataCell(l, i) \in Cells
        BY <1>1 DEF DataCell, Cells, DataCells, Paths
    <2>2. data = [i \in 1..d |-> DataCell(l, i)]
        BY DEF Data, DataLen, DataCell
    <2>. HIDE DEF data, d
    <2>. QED BY <1>1, <2>1, <2>2
<1>5. Stored(l) = s5
    <2>1. Len(data) = d
        BY <1>4
    <2>2. Header("file", Compression(l), n, d, l.size) = s1
        BY DEF Header, HeaderCell, sizeofHeader
    <2>3. RealName(l.path) = l.rel
        BY RealNameIs
    <2>4. Padding(d) = Filler(r - d)
        BY DEF Padding
    <2>5. Stored(l) = Header("file", Compression(l), n, Len(data), l.size)
                          \o <<[is |-> "name", text |-> RealName(l.path)]>> \o Filler(n - 1)
                          \o data \o Padding(Len(data))
        BY DEF Stored
    <2>. HIDE DEF n, d, r, data, s1
    <2>. QED BY <2>1, <2>2, <2>3, <2>4, <2>5 DEF NameCell
<1>. HIDE DEF n, d, r, head, name, data
<1> DEFINE f1 == Filler(15)
           f2 == Filler(n - 1)
           f3 == Filler(r - d)
<1>6. /\ f1 \in Seq(Cells) /\ Len(f1) = 15 /\ \A i \in 1..15 : f1[i] = FillerCell
      /\ f2 \in Seq(Cells) /\ Len(f2) = n - 1 /\ \A i \in 1..(n - 1) : f2[i] = FillerCell
      /\ f3 \in Seq(Cells) /\ Len(f3) = r - d /\ \A i \in 1..(r - d) : f3[i] = FillerCell
    BY <1>1, FillerIs
<1>. HIDE DEF f1, f2, f3
<1>7. /\ s1 \in Seq(Cells) /\ Len(s1) = 16
      /\ s1[1] = HeaderCell(l) /\ \A k \in 2..16 : s1[k] = FillerCell
    <2>1. /\ s1 \in Seq(Cells) /\ Len(s1) = 1 + 15
          /\ \A k \in 1..1 : s1[k] = head[k]
          /\ \A k \in 1..15 : s1[1 + k] = f1[k]
        <3>1. Joins(head, f1)
            BY <1>2, <1>6, Joined
        <3>. QED BY <1>1, <1>2, <1>6, <3>1 DEF Joins, f1
    <2>. HIDE DEF s1
    <2>2. ASSUME NEW k \in 2..16 PROVE s1[k] = FillerCell
        <3>1. k - 1 \in 1..15 /\ 1 + (k - 1) = k
            OBVIOUS
        <3>2. s1[1 + (k - 1)] = f1[k - 1] /\ f1[k - 1] = FillerCell
            BY <1>6, <2>1, <3>1
        <3>. QED BY <3>1, <3>2
    <2>. QED BY <1>2, <2>1, <2>2
<1>. HIDE DEF s1
<1>8. /\ s2 \in Seq(Cells) /\ Len(s2) = 17
      /\ \A k \in 1..16 : s2[k] = s1[k]
      /\ s2[17] = NameCell(l.rel)
    <2>1. /\ s2 \in Seq(Cells) /\ Len(s2) = 16 + 1
          /\ \A k \in 1..16 : s2[k] = s1[k]
          /\ \A k \in 1..1 : s2[16 + k] = name[k]
        <3>1. Joins(s1, name)
            BY <1>3, <1>7, Joined
        <3>. QED BY <1>1, <1>3, <1>7, <3>1 DEF Joins
    <2>. HIDE DEF s2
    <2>. QED BY <1>3, <2>1
<1>. HIDE DEF s2
<1>9. /\ s3 \in Seq(Cells) /\ Len(s3) = 16 + n
      /\ \A k \in 1..17 : s3[k] = s2[k]
      /\ \A k \in 1..(n - 1) : s3[17 + k] = FillerCell
    <2>1. /\ s3 \in Seq(Cells) /\ Len(s3) = 17 + (n - 1)
          /\ \A k \in 1..17 : s3[k] = s2[k]
          /\ \A k \in 1..(n - 1) : s3[17 + k] = f2[k]
        <3>1. Joins(s2, f2)
            BY <1>6, <1>8, Joined
        <3>. QED BY <1>1, <1>6, <1>8, <3>1 DEF Joins, f2
    <2>. HIDE DEF s3
    <2>2. Len(s3) = 16 + n
        <3>1. 17 + (n - 1) = 16 + n
            BY <1>1
        <3>. QED BY <2>1, <3>1, Zenon
    <2>3. \A k \in 1..(n - 1) : s3[17 + k] = FillerCell
        BY <1>6, <2>1
    <2>. QED BY <2>1, <2>2, <2>3
<1>. HIDE DEF s3
<1>10. /\ s4 \in Seq(Cells) /\ Len(s4) = 16 + n + d
       /\ \A k \in 1..(16 + n) : s4[k] = s3[k]
       /\ \A k \in 1..d : s4[16 + n + k] = DataCell(l, k)
    <2>1. /\ s4 \in Seq(Cells) /\ Len(s4) = (16 + n) + d
          /\ \A k \in 1..(16 + n) : s4[k] = s3[k]
          /\ \A k \in 1..d : s4[(16 + n) + k] = data[k]
        <3>1. Joins(s3, data)
            BY <1>4, <1>9, Joined
        <3>. QED BY <1>1, <1>4, <1>9, <3>1 DEF Joins
    <2>. HIDE DEF s4
    <2>. QED BY <1>4, <2>1
<1>. HIDE DEF s4
<1>11. /\ s5 \in Seq(Cells) /\ Len(s5) = 16 + n + d + (r - d)
       /\ \A k \in 1..(16 + n + d) : s5[k] = s4[k]
       /\ \A k \in 1..(r - d) : s5[16 + n + d + k] = FillerCell
    <2>1. /\ s5 \in Seq(Cells) /\ Len(s5) = (16 + n + d) + (r - d)
          /\ \A k \in 1..(16 + n + d) : s5[k] = s4[k]
          /\ \A k \in 1..(r - d) : s5[(16 + n + d) + k] = f3[k]
        <3>1. Joins(s4, f3)
            BY <1>6, <1>10, Joined
        <3>. QED BY <1>1, <1>6, <1>10, <3>1 DEF Joins, f3
    <2>. HIDE DEF s5
    <2>. QED BY <1>6, <2>1
<1>. HIDE DEF s5
<1>12. ASSUME NEW k \in 1..Extent(l) PROVE s5[k] = StoredCell(l, k)
    <2>1. k \in Nat /\ 1 <= k /\ k <= 16 + n + r /\ n >= 1
        BY <1>1
    <2>2. StoredCell(l, k) = IF k = 1 THEN HeaderCell(l)
                             ELSE IF k = 17 THEN NameCell(l.rel)
                             ELSE IF k > 16 + n /\ k <= 16 + n + d
                                  THEN DataCell(l, k - (16 + n))
                             ELSE FillerCell
        <3>1. sizeofHeader + 1 = 17
            BY <1>1
        <3>. QED BY <1>1, <3>1 DEF StoredCell, n, d
    <2>3. CASE k <= 16
        <3>1. k \in 1..(16 + n + d) /\ k \in 1..(16 + n) /\ k \in 1..17 /\ k \in 1..16
            BY <1>1, <2>1, <2>3
        <3>2. s5[k] = s4[k] /\ s4[k] = s3[k]
            BY <1>10, <1>11, <3>1, Zenon
        <3>5. s3[k] = s2[k] /\ s2[k] = s1[k]
            BY <1>8, <1>9, <3>1, Zenon
        <3>3. k = 1 \/ k \in 2..16
            BY <3>1
        <3>4. k # 17 /\ ~ (k > 16 + n)
            BY <1>1, <2>1, <2>3
        <3>. QED BY <1>7, <2>2, <3>2, <3>3, <3>4, <3>5
    <2>4. CASE k = 17
        <3>1. k \in 1..(16 + n + d) /\ k \in 1..(16 + n) /\ k \in 1..17
            BY <1>1, <2>1, <2>4
        <3>2. ~ (17 = 1)
            OBVIOUS
        <3>. QED BY <1>1, <1>8, <1>9, <1>10, <1>11, <2>4, <2>2, <3>1, <3>2
    <2>5. CASE k > 17 /\ k <= 16 + n
        <3>1. k \in 1..(16 + n + d) /\ k \in 1..(16 + n) /\ k - 17 \in 1..(n - 1) /\ 17 + (k - 17) = k
            BY <1>1, <2>1, <2>5
        <3>2. s5[k] = FillerCell
            <4>1. s3[17 + (k - 17)] = FillerCell
                BY <1>9, <3>1
            <4>. QED BY <1>10, <1>11, <3>1, <4>1
        <3>3. k # 1 /\ k # 17 /\ ~ (k > 16 + n)
            BY <1>1, <2>1, <2>5
        <3>. QED BY <2>2, <3>2, <3>3
    <2>6. CASE k > 16 + n /\ k <= 16 + n + d
        <3>1. k \in 1..(16 + n + d) /\ k - (16 + n) \in 1..d /\ 16 + n + (k - (16 + n)) = k
            BY <1>1, <2>1, <2>6
        <3>2. s5[k] = DataCell(l, k - (16 + n))
            <4>1. s4[16 + n + (k - (16 + n))] = DataCell(l, k - (16 + n))
                BY <1>10, <3>1
            <4>. QED BY <1>11, <3>1, <4>1
        <3>3. k # 1 /\ k # 17
            BY <1>1, <2>1, <2>6
        <3>. QED BY <2>6, <2>2, <3>2, <3>3
    <2>7. CASE k > 16 + n + d
        <3>1. k - (16 + n + d) \in 1..(r - d) /\ 16 + n + d + (k - (16 + n + d)) = k
            BY <1>1, <2>1, <2>7
        <3>2. s5[k] = FillerCell
            <4>1. s5[16 + n + d + (k - (16 + n + d))] = FillerCell
                BY <1>11, <3>1
            <4>. QED BY <3>1, <4>1
        <3>3. k # 1 /\ k # 17 /\ ~ (k <= 16 + n + d)
            BY <1>1, <2>1, <2>7
        <3>. QED BY <2>2, <3>2, <3>3
    <2>. QED BY <1>1, <2>1, <2>3, <2>4, <2>5, <2>6, <2>7
<1>13. Len(s5) = Extent(l)
    BY <1>1, <1>11
<1>. QED BY <1>5, <1>11, <1>12, <1>13

-----------------------------------------------------------------------------
(* The image that is written. *)

\* What any cell of the image, at address p - 1, is known to satisfy by itself.
CellInv(p) ==
    LET c == image[p]
    IN  /\ c.is \in {"header", "name"} \/ (c.is = "data" /\ c.at = 1) => (p - 1) % 4 = 0
        /\ c.is = "header" /\ c.flags # "last" =>
               /\ c.nameLen % 4 = 0
               /\ (p - 1) + sizeofHeader + c.nameLen + Round4(c.fileLenComp) <= Len(image)

\* The file that was listed as the n-th is stored from address at[n] on, and takes
\* no room if it is empty; the end mark follows the last.
Starts == [1..(Len(listed) + 1) -> Nat]

BlockAt(p, l) ==
    /\ p + Extent(l) <= Len(image)
    /\ \A k \in 1..Extent(l) : image[p + k] = StoredCell(l, k)

Placed(at) ==
    /\ at[1] = 0
    /\ \A n \in 1..Len(listed) : at[n + 1] = at[n] + Extent(listed[n])
    /\ \A n \in 1..Len(listed) : at[n] % 4 = 0 /\ BlockAt(at[n], listed[n])
    /\ Len(image) = at[Len(listed) + 1] + (IF finished THEN sizeofHeader ELSE 0)
    /\ finished => image[at[Len(listed) + 1] + 1] = LastCell

ImageInv ==
    /\ listed \in Seq(Files)
    /\ image \in Seq(Cells)
    /\ finished \in BOOLEAN
    /\ Len(image) % 4 = 0
    /\ \A p \in 1..Len(image) : CellInv(p)
    /\ \E at \in Starts : Placed(at)

LEMMA StoredAligned ==
    ASSUME NEW l \in Files, l.size > 0, NEW k \in 1..Extent(l)
    PROVE  LET c == StoredCell(l, k)
           IN  /\ c.is \in {"header", "name"} \/ (c.is = "data" /\ c.at = 1) => (k - 1) % 4 = 0
               /\ c.is = "header" => k = 1 /\ c = HeaderCell(l)
<1> DEFINE n == NameLen(l)
           c == StoredCell(l, k)
<1>1. n \in Nat /\ n % 4 = 0 /\ sizeofHeader = 16 /\ k \in Nat /\ Extent(l) \in Nat
    BY StoredLengths DEF sizeofHeader
<1>2. CASE k = 1
    BY <1>2 DEF StoredCell
<1>3. CASE k # 1 /\ k = sizeofHeader + 1
    <2>1. c = NameCell(l.rel)
        BY <1>3 DEF StoredCell
    <2>2. (k - 1) % 4 = 0
        BY <1>1, <1>3
    <2>. QED BY <2>1, <2>2 DEF NameCell
<1>4. CASE /\ k # 1 /\ k # sizeofHeader + 1
           /\ k > sizeofHeader + n /\ k <= sizeofHeader + n + DataLen(l)
    <2>1. c = DataCell(l, k - (sizeofHeader + n))
        BY <1>4 DEF StoredCell
    <2>2. k - (sizeofHeader + n) = 1 => (k - 1) % 4 = 0
        <3>. SUFFICES ASSUME k - (sizeofHeader + n) = 1 PROVE (k - 1) % 4 = 0
            OBVIOUS
        <3>. HIDE DEF n
        <3>1. k - 1 = 16 + n
            BY <1>1
        <3>. QED BY <1>1, <3>1
    <2>. QED BY <2>1, <2>2 DEF DataCell
<1>5. CASE /\ k # 1 /\ k # sizeofHeader + 1
           /\ ~ (k > sizeofHeader + n /\ k <= sizeofHeader + n + DataLen(l))
    BY <1>5 DEF StoredCell, FillerCell
<1>. QED BY <1>2, <1>3, <1>4, <1>5

\* The end mark: a header and nothing behind it.
LEMMA LastIs ==
    LET last == Header("last", "none", 0, 0, 0)
    IN  /\ last \in Seq(Cells) /\ Len(last) = sizeofHeader
        /\ last[1] = LastCell
        /\ \A k \in 2..sizeofHeader : last[k] = FillerCell
<1> DEFINE one == <<LastCell>>
           rest == Filler(15)
<1>1. one \in Seq(Cells) /\ Len(one) = 1 /\ one[1] = LastCell
    <2>1. LastCell \in Cells
        BY DEF LastCell, Cells, Headers
    <2>. QED BY <2>1
<1>2. rest \in Seq(Cells) /\ Len(rest) = 15 /\ \A i \in 1..15 : rest[i] = FillerCell
    BY FillerIs
<1>3. Header("last", "none", 0, 0, 0) = one \o rest
    BY DEF Header, LastCell, sizeofHeader
<1>. HIDE DEF one, rest
<1>4. Joins(one, rest)
    BY <1>1, <1>2, Joined
<1> DEFINE s == one \o rest
<1>5. /\ s \in Seq(Cells) /\ Len(s) = 1 + 15
      /\ \A k \in 1..1 : s[k] = one[k]
      /\ \A k \in 1..15 : s[1 + k] = rest[k]
    BY <1>1, <1>2, <1>4 DEF Joins
<1>. HIDE DEF s
<1>6. ASSUME NEW k \in 2..16 PROVE s[k] = FillerCell
    <2>1. k - 1 \in 1..15 /\ 1 + (k - 1) = k
        OBVIOUS
    <2>2. s[1 + (k - 1)] = rest[k - 1] /\ rest[k - 1] = FillerCell
        BY <1>2, <1>5, <2>1
    <2>. QED BY <2>1, <2>2
<1>7. s[1] = LastCell /\ Len(s) = 16
    BY <1>1, <1>5
<1>8. s = Header("last", "none", 0, 0, 0) /\ sizeofHeader = 16
    BY <1>3 DEF s, sizeofHeader
<1>. QED BY <1>5, <1>6, <1>7, <1>8

LEMMA ImageInit == Init => ImageInv
<1>. SUFFICES ASSUME Init PROVE ImageInv
    OBVIOUS
<1>1. listed = <<>> /\ image = <<>> /\ finished = FALSE
    BY DEF Init
<1>2. Len(listed) = 0 /\ Len(image) = 0 /\ listed \in Seq(Files) /\ image \in Seq(Cells)
    BY <1>1
<1>3. [n \in 1..1 |-> 0] \in Starts /\ Placed([n \in 1..1 |-> 0])
    BY <1>1, <1>2 DEF Starts, Placed
<1>4. \A p \in 1..Len(image) : CellInv(p)
    BY <1>2
<1>5. \E at \in Starts : Placed(at)
    BY <1>3
<1>6. finished \in BOOLEAN /\ Len(image) % 4 = 0
    <2>1. 0 % 4 = 0
        OBVIOUS
    <2>. QED BY <1>1, <1>2, <2>1, Zenon
<1>. QED BY <1>2, <1>4, <1>5, <1>6, Zenon DEF ImageInv

\* Adding cells at the end of the image disturbs none that is there.
LEMMA ImageGrows ==
    ASSUME ImageInv, NEW s \in Seq(Cells), image' = image \o s
    PROVE  /\ image' \in Seq(Cells)
           /\ Len(image') = Len(image) + Len(s)
           /\ Len(image) \in Nat /\ Len(s) \in Nat
           /\ \A p \in 1..Len(image) : image'[p] = image[p]
           /\ \A k \in 1..Len(s) : image'[Len(image) + k] = s[k]
<1>1. image \in Seq(Cells)
    BY DEF ImageInv
<1>2. Joins(image, s)
    BY <1>1, Joined
<1>3. Len(image) \in Nat /\ Len(s) \in Nat
    BY <1>1
<1>. QED BY <1>2, <1>3 DEF Joins

\* The cells that are there stay what they are known to be.
LEMMA CellsKept ==
    ASSUME ImageInv, image' \in Seq(Cells), Len(image) <= Len(image'),
           \A p \in 1..Len(image) : image'[p] = image[p],
           NEW p \in 1..Len(image)
    PROVE  CellInv(p)'
<1>1. CellInv(p) /\ image[p] \in Cells
    BY DEF ImageInv
<1>2. image'[p] = image[p]
    OBVIOUS
<1>3. image[p].is = "header" => image[p].nameLen \in Nat /\ image[p].fileLenComp \in Nat
    BY <1>1 DEF Cells, Headers, Names, DataCells, FillerCell
<1>4. image[p].is = "header" => Round4(image[p].fileLenComp) \in Nat
    BY <1>3, RoundFacts
<1>5. Len(image) \in Nat /\ Len(image') \in Nat /\ p \in Nat /\ sizeofHeader \in Nat
    BY DEF ImageInv, sizeofHeader
<1> DEFINE c == image[p]
           e == (p - 1) + sizeofHeader + c.nameLen + Round4(c.fileLenComp)
<1>6. c.is = "header" => e \in Int
    BY <1>3, <1>4, <1>5
<1>7. CellInv(p)' <=> /\ c.is \in {"header", "name"} \/ (c.is = "data" /\ c.at = 1) => (p - 1) % 4 = 0
                      /\ c.is = "header" /\ c.flags # "last" => c.nameLen % 4 = 0 /\ e <= Len(image')
    BY <1>2 DEF CellInv
<1>8. CellInv(p) <=> /\ c.is \in {"header", "name"} \/ (c.is = "data" /\ c.at = 1) => (p - 1) % 4 = 0
                     /\ c.is = "header" /\ c.flags # "last" => c.nameLen % 4 = 0 /\ e <= Len(image)
    BY DEF CellInv
<1>. HIDE DEF c, e
<1>. QED BY <1>1, <1>5, <1>6, <1>7, <1>8

\* What was stored before stays in its place.
LEMMA BlocksKept ==
    ASSUME ImageInv, image' \in Seq(Cells), Len(image) <= Len(image'),
           \A p \in 1..Len(image) : image'[p] = image[p],
           UNCHANGED options, NEW l \in Files, NEW q \in Nat, BlockAt(q, l)
    PROVE  BlockAt(q, l)'
<1>1. Extent(l) \in Nat
    <2>1. CASE l.size > 0
        BY <2>1, StoredLengths
    <2>2. CASE ~ (l.size > 0)
        <3>1. l.size <= 0
            BY <2>2, FilesAssumption
        <3>. QED BY <3>1 DEF Extent
    <2>. QED BY <2>1, <2>2
<1>2. compType' = compType
    BY DEF options
<1>3. Extent(l)' = Extent(l) /\ \A k \in 1..Extent(l) : StoredCell(l, k)' = StoredCell(l, k)
    BY <1>2 DEF Extent, StoredCell, HeaderCell, DataCell, DataLen, Compression
<1>4. Len(image) \in Nat /\ Len(image') \in Nat
    BY DEF ImageInv
<1>5. q + Extent(l) <= Len(image) /\ q + Extent(l) <= Len(image')
    BY <1>1, <1>4 DEF BlockAt
<1>6. ASSUME NEW k \in 1..Extent(l) PROVE image'[q + k] = StoredCell(l, k)
    <2>1. q + k \in 1..Len(image)
        BY <1>1, <1>4, <1>5
    <2>2. image'[q + k] = image[q + k]
        BY <2>1
    <2>. QED BY <2>2 DEF BlockAt
<1>. QED BY <1>3, <1>5, <1>6 DEF BlockAt

LEMMA ExtentIsNat ==
    ASSUME NEW l \in Files
    PROVE  Extent(l) \in Nat /\ Extent(l) % 4 = 0 /\ (l.size <= 0 <=> ~ (l.size > 0))
<1>1. l.size \in Int
    BY FilesAssumption
<1>2. CASE l.size > 0
    BY <1>1, <1>2, StoredLengths
<1>3. CASE ~ (l.size > 0)
    <2>1. Extent(l) = 0
        BY <1>1, <1>3 DEF Extent
    <2>2. 0 % 4 = 0
        OBVIOUS
    <2>. QED BY <1>1, <1>3, <2>1, <2>2
<1>. QED BY <1>2, <1>3

\* The places of a list that has got one file more, which is stored at the end.
LEMMA PlaceAdded ==
    ASSUME ImageInv, ~finished, finished' = finished, UNCHANGED options,
           NEW l \in Files, listed' = Append(listed, l),
           image' \in Seq(Cells), Len(image') = Len(image) + Extent(l),
           \A p \in 1..Len(image) : image'[p] = image[p],
           \A k \in 1..Extent(l) : image'[Len(image) + k] = StoredCell(l, k)
    PROVE  (\E at \in Starts : Placed(at))'
<1>1. PICK at \in Starts : Placed(at)
    BY DEF ImageInv
<1> DEFINE N == Len(listed)
<1>2. /\ N \in Nat /\ listed' \in Seq(Files) /\ Len(listed') = N + 1
      /\ \A n \in 1..N : listed'[n] = listed[n] /\ listed[n] \in Files
      /\ listed'[N + 1] = l
    BY DEF ImageInv
<1>3. Extent(l) \in Nat /\ Len(image) \in Nat /\ Len(image) % 4 = 0
    BY ExtentIsNat DEF ImageInv
<1>4. /\ at \in [1..(N + 1) -> Nat] /\ at[1] = 0 /\ at[N + 1] = Len(image)
      /\ \A n \in 1..N : at[n + 1] = at[n] + Extent(listed[n])
      /\ \A n \in 1..N : at[n] % 4 = 0 /\ BlockAt(at[n], listed[n])
    BY <1>1, <1>2 DEF Starts, Placed
<1>5. compType' = compType
    BY DEF options
<1>6. \A m \in Files : Extent(m)' = Extent(m)
    BY <1>5 DEF Extent, DataLen, Compression
<1>7. \A k \in 1..Extent(l) : StoredCell(l, k)' = StoredCell(l, k)
    BY <1>5 DEF StoredCell, HeaderCell, DataCell, DataLen, Compression
<1>15. Len(image) <= Len(image')
    <2>1. \A a, b \in Nat : a <= a + b
        OBVIOUS
    <2>2. Len(image) \in Nat /\ Extent(l) \in Nat
        BY <1>3
    <2>3. Len(image) <= Len(image) + Extent(l)
        BY <2>1, <2>2, Zenon
    <2>. QED BY <2>3, Zenon
<1>. HIDE DEF N
<1>8. PICK later \in [1..(N + 2) -> Nat] :
          /\ \A n \in 1..(N + 1) : later[n] = at[n] /\ later[n] \in Nat
          /\ later[N + 2] = Len(image) + Extent(l)
    <2> DEFINE f == [n \in 1..(N + 2) |-> IF n = N + 2 THEN Len(image) + Extent(l) ELSE at[n]]
    <2>1. /\ f \in [1..(N + 2) -> Nat]
          /\ \A n \in 1..(N + 1) : f[n] = at[n] /\ f[n] \in Nat
          /\ f[N + 2] = Len(image) + Extent(l)
        BY <1>2, <1>3, <1>4
    <2>. HIDE DEF f
    <2>. QED BY <2>1
<1>9. later \in Starts'
    <2>1. N + 2 = Len(listed') + 1
        BY <1>2
    <2>. QED BY <1>8, <2>1 DEF Starts
<1>10. later[1] = 0
    BY <1>2, <1>4, <1>8
<1>11. ASSUME NEW n \in 1..(N + 1), NEW m \in Files, m = listed'[n]
       PROVE  /\ later[n + 1] = later[n] + Extent(m)'
              /\ later[n] % 4 = 0 /\ BlockAt(later[n], m)'
    <2>1. CASE n = N + 1
        <3>1. later[n] = Len(image) /\ later[n + 1] = Len(image) + Extent(l) /\ m = l
            <4>1. n + 1 = N + 2 /\ N + 1 \in 1..(N + 1)
                BY <1>2, <2>1
            <4>. QED BY <1>2, <1>4, <1>8, <1>11, <2>1, <4>1
        <3> DEFINE q == later[n]
        <3>2. BlockAt(q, l)'
            <4>1. q + Extent(l)' <= Len(image')
                BY <1>3, <1>6, <3>1
            <4>2. \A k \in 1..Extent(l)' : image'[q + k] = StoredCell(l, k)'
                BY <1>6, <1>7, <3>1
            <4>. QED BY <4>1, <4>2 DEF BlockAt
        <3>. QED BY <1>3, <1>6, <3>1, <3>2
    <2>2. CASE n # N + 1
        <3>1. n \in 1..N /\ n + 1 \in 1..(N + 1)
            BY <1>2, <2>2
        <3>2. m = listed[n] /\ at[n] \in Nat /\ later[n] = at[n] /\ later[n + 1] = at[n + 1]
            BY <1>2, <1>4, <1>8, <1>11, <3>1
        <3>3. BlockAt(at[n], m) /\ at[n] % 4 = 0 /\ at[n + 1] = at[n] + Extent(m)
            BY <1>4, <3>1, <3>2
        <3>4. BlockAt(at[n], m)'
            BY <1>15, <3>2, <3>3, BlocksKept
        <3>. QED BY <1>6, <3>2, <3>3, <3>4
    <2>. QED BY <2>1, <2>2
<1>12. Len(image') = later[Len(listed') + 1] + (IF finished' THEN sizeofHeader ELSE 0)
    <2>1. Len(listed') + 1 = N + 2
        BY <1>2
    <2>. QED BY <1>3, <1>8, <2>1
<1>13. ASSUME NEW n \in 1..Len(listed')
       PROVE  /\ later[n + 1] = later[n] + Extent(listed[n])'
              /\ later[n] % 4 = 0 /\ BlockAt(later[n], listed[n])'
    <2>1. PICK m \in Files : m = listed'[n]
        BY <1>2
    <2>2. n \in 1..(N + 1)
        BY <1>2
    <2>3. later[n + 1] = later[n] + Extent(m)' /\ later[n] % 4 = 0 /\ BlockAt(later[n], m)'
        BY <1>11, <2>1, <2>2
    <2>4. Extent(listed[n])' = Extent(m)'
        BY <2>1 DEF Extent, DataLen, Compression
    <2>5. BlockAt(later[n], listed[n])'
        BY <2>1, <2>3, <2>4 DEF BlockAt, StoredCell, HeaderCell, DataCell, DataLen, Compression
    <2>. QED BY <2>3, <2>4, <2>5
<1>14. Placed(later)'
    BY <1>10, <1>12, <1>13 DEF Placed
<1>. QED BY <1>9, <1>14

\* The cells of a file that is added to the image.
LEMMA CellAdded ==
    ASSUME ImageInv, NEW l \in Files, l.size > 0,
           Len(image') = Len(image) + Extent(l),
           NEW k \in 1..Extent(l), NEW p \in Nat, p = Len(image) + k,
           image'[p] = StoredCell(l, k)
    PROVE  CellInv(p)'
<1> DEFINE c == StoredCell(l, k)
           L == Len(image)
           M == Len(image')
<1>1. L \in Nat /\ L % 4 = 0 /\ sizeofHeader = 16 /\ sizeofHeader \in Nat
    BY DEF ImageInv, sizeofHeader
<1>2. /\ NameLen(l) \in Nat /\ NameLen(l) % 4 = 0
      /\ Round4(DataLen(l)) \in Nat /\ Extent(l) \in Nat
      /\ Extent(l) = sizeofHeader + NameLen(l) + Round4(DataLen(l))
    BY StoredLengths
<1>3. /\ c.is \in {"header", "name"} \/ (c.is = "data" /\ c.at = 1) => (k - 1) % 4 = 0
      /\ c.is = "header" => k = 1 /\ c = HeaderCell(l)
    BY StoredAligned
<1>4. c.is = "header" => c.nameLen = NameLen(l) /\ c.fileLenComp = DataLen(l)
    BY <1>3 DEF HeaderCell
<1>5. image'[p] = c /\ M = L + Extent(l)
    OBVIOUS
<1>6. CellInv(p)' <=> /\ c.is \in {"header", "name"} \/ (c.is = "data" /\ c.at = 1) => (p - 1) % 4 = 0
                      /\ c.is = "header" /\ c.flags # "last" =>
                             /\ c.nameLen % 4 = 0
                             /\ (p - 1) + sizeofHeader + c.nameLen + Round4(c.fileLenComp) <= M
    BY <1>5 DEF CellInv
<1>7. p = L + k
    OBVIOUS
<1>. HIDE DEF c, L, M
<1>8. (k - 1) % 4 = 0 => (p - 1) % 4 = 0
    <2>. SUFFICES ASSUME (k - 1) % 4 = 0 PROVE (p - 1) % 4 = 0
        OBVIOUS
    <2>1. L \in Nat /\ k \in Nat /\ 1 <= k
        BY <1>1, <1>2
    <2>2. k - 1 \in Nat /\ p - 1 = L + (k - 1)
        BY <1>7, <2>1
    <2>. QED BY <1>1, <2>2, MultiplesAdd
<1>9. k = 1 => (p - 1) + sizeofHeader + NameLen(l) + Round4(DataLen(l)) <= M
    <2>1. PICK n \in Nat : n = NameLen(l)
        BY <1>2
    <2>2. PICK r \in Nat : r = Round4(DataLen(l))
        BY <1>2
    <2>3. M = L + (16 + n + r) /\ L \in Nat
        BY <1>1, <1>2, <1>5, <2>1, <2>2
    <2>4. k = 1 => (p - 1) + 16 + n + r <= M
        BY <1>7, <2>3
    <2>. QED BY <1>1, <2>1, <2>2, <2>4
<1>. QED BY <1>2, <1>3, <1>4, <1>6, <1>8, <1>9

\* What keeps the image, and what was listed, keeps all this.
LEMMA ImageStays ==
    ASSUME ImageInv, UNCHANGED <<options, tool>>
    PROVE  ImageInv'
<1>1. image' = image /\ listed' = listed /\ finished' = finished /\ compType' = compType
    BY DEF options, tool
<1>2. ASSUME NEW l PROVE Extent(l)' = Extent(l)
    BY <1>1 DEF Extent, DataLen, Compression
<1>3. ASSUME NEW l, NEW k PROVE StoredCell(l, k)' = StoredCell(l, k)
    BY <1>1 DEF StoredCell, HeaderCell, DataCell, DataLen, Compression
<1>4. ASSUME NEW p \in 1..Len(image) PROVE CellInv(p)'
    BY <1>1 DEF CellInv, ImageInv
<1>5. PICK at \in Starts : Placed(at)
    BY DEF ImageInv
<1>6. at \in Starts'
    BY <1>1, <1>5 DEF Starts
<1>7. ASSUME NEW n \in 1..Len(listed)
      PROVE  at[n + 1] = at[n] + Extent(listed[n])' /\ at[n] % 4 = 0 /\ BlockAt(at[n], listed[n])'
    <2>1. PICK l : l = listed[n]
        OBVIOUS
    <2>2. at[n + 1] = at[n] + Extent(l) /\ at[n] % 4 = 0 /\ BlockAt(at[n], l)
        BY <1>5, <2>1 DEF Placed
    <2>3. BlockAt(at[n], l)'
        BY <1>1, <1>2, <1>3, <2>2 DEF BlockAt
    <2>4. listed'[n] = l
        BY <1>1, <2>1
    <2>5. Extent(listed[n])' = Extent(l)
        BY <1>1, <2>4 DEF Extent, DataLen, Compression
    <2>6. BlockAt(at[n], listed[n])'
        BY <2>3, <2>4 DEF BlockAt, Extent, StoredCell, HeaderCell, DataCell, DataLen, Compression
    <2>. QED BY <2>2, <2>5, <2>6
<1>8. Placed(at)'
    <2>1. /\ at[1] = 0
          /\ Len(image) = at[Len(listed) + 1] + (IF finished THEN sizeofHeader ELSE 0)
          /\ finished => image[at[Len(listed) + 1] + 1] = LastCell
        BY <1>5 DEF Placed
    <2>. QED BY <1>1, <1>7, <2>1 DEF Placed
<1>9. (\E a \in Starts : Placed(a))'
    BY <1>6, <1>8
<1>10. /\ listed' \in Seq(Files) /\ image' \in Seq(Cells) /\ finished' \in BOOLEAN
       /\ Len(image') % 4 = 0
    BY <1>1, Zenon DEF ImageInv
<1>11. \A p \in 1..Len(image') : CellInv(p)'
    BY <1>1, <1>4
<1>. QED BY <1>9, <1>10, <1>11, Zenon DEF ImageInv

LEMMA FileAdded ==
    ASSUME ImageInv, NEW l \in Files, handleFile(l)
    PROVE  ImageInv'
<1> DEFINE L == Len(image)
<1>1. /\ ~finished /\ finished' = finished /\ UNCHANGED options
      /\ listed' = Append(listed, l)
      /\ image' = IF l.size <= 0 THEN image ELSE image \o Stored(l)
    BY DEF handleFile
<1>2. listed' \in Seq(Files)
    BY <1>1 DEF ImageInv
<1>3. Extent(l) \in Nat /\ Extent(l) % 4 = 0 /\ (l.size <= 0 <=> ~ (l.size > 0))
    BY ExtentIsNat
<1>4. L \in Nat /\ L % 4 = 0 /\ image \in Seq(Cells)
    BY DEF ImageInv
<1>5. /\ image' \in Seq(Cells) /\ Len(image') = L + Extent(l)
      /\ \A p \in 1..L : image'[p] = image[p]
      /\ \A k \in 1..Extent(l) : image'[L + k] = StoredCell(l, k)
    <2>1. CASE l.size > 0
        <3>1. image' = image \o Stored(l)
            BY <1>1, <1>3, <2>1
        <3>2. /\ Stored(l) \in Seq(Cells)
              /\ Len(Stored(l)) = Extent(l)
              /\ \A k \in 1..Extent(l) : Stored(l)[k] = StoredCell(l, k)
            BY <2>1, StoredIs
        <3>3. /\ image' \in Seq(Cells)
              /\ Len(image') = Len(image) + Len(Stored(l))
              /\ \A p \in 1..Len(image) : image'[p] = image[p]
              /\ \A k \in 1..Len(Stored(l)) : image'[Len(image) + k] = Stored(l)[k]
            BY <3>1, <3>2, ImageGrows
        <3>. QED BY <3>2, <3>3
    <2>2. CASE ~ (l.size > 0)
        <3>1. image' = image /\ Extent(l) = 0
            BY <1>1, <1>3, <2>2 DEF Extent
        <3>2. Len(image') = L + Extent(l)
            BY <1>4, <3>1
        <3>. QED BY <1>4, <3>1, <3>2
    <2>. QED BY <2>1, <2>2
<1>6. (\E at \in Starts : Placed(at))'
    BY <1>1, <1>5, PlaceAdded
<1>. HIDE DEF L
<1>7. Len(image') \in Nat /\ L <= Len(image') /\ Len(image') % 4 = 0
    <2>1. PICK e \in Nat : e = Extent(l) /\ e % 4 = 0
        BY <1>3
    <2>2. Len(image') = L + e
        BY <1>5, <2>1
    <2>3. L + e \in Nat /\ L <= L + e
        BY <1>4
    <2>4. (L + e) % 4 = 0
        BY <1>4, <2>1, MultiplesAdd
    <2>. QED BY <2>2, <2>3, <2>4, Zenon
<1>8. ASSUME NEW p \in 1..Len(image') PROVE CellInv(p)'
    <2>1. CASE p \in 1..L
        BY <1>5, <1>7, <2>1, CellsKept DEF L
    <2>2. CASE p \notin 1..L
        <3>1. PICK k \in 1..Extent(l) : p = L + k
            <4>1. p - L \in 1..Extent(l) /\ p = L + (p - L)
                BY <1>3, <1>4, <1>5, <2>2
            <4>. QED BY <4>1
        <3>2. l.size > 0
            <4>. SUFFICES ASSUME ~ (l.size > 0) PROVE FALSE
                OBVIOUS
            <4>1. Extent(l) = 0
                BY <1>3 DEF Extent
            <4>. QED BY <4>1
        <3>3. p \in Nat /\ p = Len(image) + k /\ image'[p] = StoredCell(l, k)
            BY <1>5, <1>7, <3>1 DEF L
        <3>. QED BY <1>5, <3>2, <3>3, CellAdded DEF L
    <2>. QED BY <2>1, <2>2
<1>9. finished' \in BOOLEAN
    BY <1>1 DEF ImageInv
<1>. QED BY <1>2, <1>5, <1>6, <1>7, <1>8, <1>9 DEF ImageInv

LEMMA ArchiveEnds ==
    ASSUME ImageInv, finishArchive
    PROVE  ImageInv'
<1> DEFINE L == Len(image)
           last == Header("last", "none", 0, 0, 0)
<1>1. ~finished /\ finished' = TRUE /\ image' = image \o last /\ listed' = listed /\ UNCHANGED options
    BY DEF finishArchive
<1>2. /\ last \in Seq(Cells) /\ Len(last) = sizeofHeader
      /\ last[1] = LastCell
      /\ \A k \in 2..sizeofHeader : last[k] = FillerCell
    BY LastIs
<1>3. /\ image' \in Seq(Cells)
      /\ Len(image') = L + Len(last)
      /\ \A p \in 1..L : image'[p] = image[p]
      /\ \A k \in 1..Len(last) : image'[L + k] = last[k]
    BY <1>1, <1>2, ImageGrows
<1>4. sizeofHeader = 16 /\ L \in Nat /\ L % 4 = 0
    BY DEF sizeofHeader, ImageInv
<1>. HIDE DEF last, L
<1>5. Len(image') = L + 16 /\ L <= Len(image') /\ 1 \in 1..Len(last) /\ Len(last) = 16
    BY <1>2, <1>3, <1>4
<1>6. ASSUME NEW p \in 1..Len(image') PROVE CellInv(p)'
    <2>1. CASE p \in 1..L
        BY <1>3, <1>5, <2>1, CellsKept DEF L
    <2>2. CASE p = L + 1
        <3>1. image'[p] = LastCell
            BY <1>2, <1>3, <1>5, <2>2
        <3>2. (p - 1) % 4 = 0
            BY <1>4, <2>2
        <3>. QED BY <3>1, <3>2 DEF CellInv, LastCell
    <2>3. CASE p \notin 1..L /\ p # L + 1
        <3>1. p - L \in 2..16 /\ p - L \in 1..16 /\ p = L + (p - L)
            BY <1>4, <1>5, <2>3
        <3>2. image'[L + (p - L)] = last[p - L] /\ last[p - L] = FillerCell
            BY <1>2, <1>3, <1>4, <1>5, <3>1
        <3>3. image'[p] = FillerCell
            BY <3>1, <3>2
        <3>. QED BY <3>3 DEF CellInv, FillerCell
    <2>. QED BY <2>1, <2>2, <2>3
<1>7. PICK at \in Starts : Placed(at)
    BY DEF ImageInv
<1> DEFINE N == Len(listed)
<1>8. /\ N \in Nat /\ \A n \in 1..N : listed[n] \in Files /\ n \in 1..(N + 1)
      /\ at \in [1..(N + 1) -> Nat]
      /\ at[1] = 0
      /\ \A n \in 1..N : at[n + 1] = at[n] + Extent(listed[n])
      /\ \A n \in 1..N : at[n] % 4 = 0 /\ BlockAt(at[n], listed[n])
      /\ L = at[N + 1]
    <2>1. listed \in Seq(Files)
        BY DEF ImageInv
    <2>2. L = at[N + 1] + 0
        BY <1>1, <1>7 DEF Placed, L
    <2>3. N + 1 \in 1..(N + 1) /\ at \in [1..(N + 1) -> Nat]
        BY <1>7, <2>1 DEF Starts
    <2>4. L = at[N + 1]
        BY <2>2, <2>3
    <2>. QED BY <1>7, <2>1, <2>3, <2>4 DEF Placed
<1>9. compType' = compType
    BY <1>1 DEF options
<1>10. ASSUME NEW n \in 1..N
       PROVE  at[n + 1] = at[n] + Extent(listed[n])' /\ at[n] % 4 = 0 /\ BlockAt(at[n], listed[n])'
    <2>1. PICK l \in Files : l = listed[n]
        BY <1>8
    <2>2. at[n] \in Nat
        BY <1>8
    <2>3. at[n + 1] = at[n] + Extent(l) /\ at[n] % 4 = 0 /\ BlockAt(at[n], l)
        BY <1>8, <2>1
    <2>4. BlockAt(at[n], l)'
        BY <1>1, <1>3, <1>5, <2>2, <2>3, BlocksKept DEF L
    <2>5. listed'[n] = l
        BY <1>1, <2>1
    <2>6. Extent(listed[n])' = Extent(l)
        BY <1>9, <2>5 DEF Extent, DataLen, Compression
    <2>7. BlockAt(at[n], listed[n])'
        BY <2>4, <2>5 DEF BlockAt, Extent, StoredCell, HeaderCell, DataCell, DataLen, Compression
    <2>. QED BY <2>3, <2>6, <2>7
<1>11. Placed(at)'
    <2>1. image'[at[N + 1] + 1] = LastCell
        BY <1>2, <1>3, <1>5, <1>8
    <2>2. Len(image') = at[N + 1] + sizeofHeader
        BY <1>4, <1>5, <1>8
    <2>3. Len(listed') = N
        BY <1>1
    <2>. QED BY <1>1, <1>8, <1>10, <2>1, <2>2, <2>3 DEF Placed
<1>12. at \in Starts'
    BY <1>1, <1>8 DEF Starts
<1>13. (\E a \in Starts : Placed(a))'
    BY <1>11, <1>12
<1>14. Len(image') % 4 = 0
    BY <1>4, <1>5
<1>15. listed' \in Seq(Files) /\ finished' \in BOOLEAN
    BY <1>1 DEF ImageInv
<1>. QED BY <1>3, <1>6, <1>13, <1>14, <1>15, Zenon DEF ImageInv

LEMMA ImageStep == ImageInv /\ [Next]_vars => ImageInv'
<1>. SUFFICES ASSUME ImageInv, [Next]_vars PROVE ImageInv'
    OBVIOUS
<1>1. ASSUME NEW l \in Files, handleFile(l) PROVE ImageInv'
    BY <1>1, FileAdded
<1>2. ASSUME finishArchive PROVE ImageInv'
    BY <1>2, ArchiveEnds
<1>3. ASSUME NEW fileName \in Asked, espFsOpen(fileName) PROVE ImageInv'
    BY <1>3, ImageStays DEF espFsOpen
<1>4. ASSUME NEW len \in Lengths, espFsRead(len) PROVE ImageInv'
    BY <1>4, ImageStays DEF espFsRead
<1>5. ASSUME espFsClose PROVE ImageInv'
    BY <1>5, ImageStays DEF espFsClose
<1>6. CASE UNCHANGED vars
    BY <1>6, ImageStays DEF vars
<1>. QED BY <1>1, <1>2, <1>3, <1>4, <1>5, <1>6 DEF Next

-----------------------------------------------------------------------------
(* The walk over the headers. *)

\* What the reader sees of a file that is stored.
LEMMA BlockIs ==
    ASSUME ImageInv, NEW l \in Files, l.size > 0, NEW q \in Nat, q % 4 = 0, BlockAt(q, l)
    PROVE  /\ q < Len(image) /\ Cell(q) = HeaderCell(l)
           /\ Cell(q + sizeofHeader) = NameCell(l.rel)
           /\ Following(q, HeaderCell(l)) = q + Extent(l)
           /\ \A i \in 1..DataLen(l) :
                  Cell(q + sizeofHeader + NameLen(l) + i - 1) = DataCell(l, i)
<1> DEFINE L == Len(image)
           E == Extent(l)
           n == NameLen(l)
           d == DataLen(l)
           r == Round4(DataLen(l))
<1>1. /\ L \in Nat /\ E \in Nat /\ n \in Nat /\ n % 4 = 0 /\ n >= 1 /\ d \in Nat /\ d >= 1
      /\ r \in Nat /\ d <= r
      /\ E = 16 + n + r /\ sizeofHeader = 16
    <2>1. L \in Nat
        BY DEF ImageInv
    <2>2. sizeofHeader = 16
        BY DEF sizeofHeader
    <2>. QED BY <2>1, <2>2, StoredLengths
<1>2. q + E <= L /\ \A k \in 1..E : image[q + k] = StoredCell(l, k)
    BY DEF BlockAt
<1>3. Following(q, HeaderCell(l)) = q + E
    <2>1. Following(q, HeaderCell(l)) = Round4(q + 16 + n + d)
        BY <1>1 DEF Following, HeaderCell
    <2>. HIDE DEF n, d, E
    <2>2. (q + 16 + n) \in Nat /\ (q + 16 + n) % 4 = 0
        BY <1>1
    <2>3. Round4((q + 16 + n) + d) = (q + 16 + n) + r
        BY <1>1, <2>2, RoundAdds DEF d
    <2>. QED BY <1>1, <2>1, <2>3
<1>4. \A k \in 1..E : StoredCell(l, k) = IF k = 1 THEN HeaderCell(l)
                                         ELSE IF k = 17 THEN NameCell(l.rel)
                                         ELSE IF k > 16 + n /\ k <= 16 + n + d
                                              THEN DataCell(l, k - (16 + n))
                                         ELSE FillerCell
    <2>1. sizeofHeader + 1 = 17
        BY <1>1
    <2>. QED BY <1>1, <2>1 DEF StoredCell
<1>5. ASSUME NEW k \in 1..E PROVE Cell(q + k - 1) = StoredCell(l, k)
    <2>. HIDE DEF L, E
    <2>1. q + k - 1 < L /\ q + k - 1 + 1 = q + k
        BY <1>1, <1>2
    <2>. QED BY <1>2, <2>1 DEF Cell, L
<1>. HIDE DEF L, E, n, d, r
<1>6. q < L /\ Cell(q) = HeaderCell(l)
    <2>1. 1 \in 1..E /\ q + 1 - 1 = q
        BY <1>1
    <2>2. Cell(q + 1 - 1) = HeaderCell(l)
        BY <1>4, <1>5, <2>1
    <2>3. Cell(q) = HeaderCell(l)
        BY <2>1, <2>2
    <2>. QED BY <1>1, <1>2, <2>3
<1>7. Cell(q + sizeofHeader) = NameCell(l.rel)
    <2>1. 17 \in 1..E /\ q + 17 - 1 = q + sizeofHeader
        BY <1>1
    <2>2. Cell(q + 17 - 1) = StoredCell(l, 17)
        BY <1>5, <2>1
    <2>3. StoredCell(l, 17) = NameCell(l.rel)
        BY <1>4, <2>1
    <2>. QED BY <2>1, <2>2, <2>3
<1>8. ASSUME NEW i \in 1..d PROVE Cell(q + sizeofHeader + n + i - 1) = DataCell(l, i)
    <2>1. PICK k \in 1..E : k = 16 + n + i
        BY <1>1
    <2>2. /\ q + k - 1 = q + sizeofHeader + n + i - 1 /\ k - (16 + n) = i
          /\ k # 1 /\ k # 17 /\ k > 16 + n /\ k <= 16 + n + d
        BY <1>1, <2>1
    <2>3. Cell(q + k - 1) = StoredCell(l, k)
        BY <1>5
    <2>4. StoredCell(l, k) = DataCell(l, k - (16 + n))
        BY <1>4, <2>2
    <2>. QED BY <2>2, <2>3, <2>4
<1>. QED BY <1>3, <1>6, <1>7, <1>8 DEF L, E, n, d

\* Every header that is not the last is followed by another address of the image.
LEMMA WalkGoesOn ==
    ASSUME ImageInv, NEW p \in 0..Len(image), Cell(p).is = "header", Cell(p).flags # "last"
    PROVE  Following(p, Cell(p)) \in 0..Len(image) /\ p < Following(p, Cell(p))
<1> DEFINE h == Cell(p)
           n == h.nameLen
           r == Round4(h.fileLenComp)
<1>1. Len(image) \in Nat /\ sizeofHeader = 16
    BY DEF ImageInv, sizeofHeader
<1>2. p < Len(image)
    BY DEF Cell
<1>3. p + 1 \in 1..Len(image) /\ h = image[p + 1] /\ p + 1 - 1 = p
    BY <1>1, <1>2 DEF Cell
<1>4. h \in Cells
    BY <1>3 DEF ImageInv
<1>5. h \in Headers
    BY <1>4 DEF Cells, Names, DataCells, FillerCell
<1>6. n \in Nat /\ h.fileLenComp \in Nat
    BY <1>5 DEF Headers
<1>7. r \in Nat
    BY <1>6, RoundFacts
<1>8. CellInv(p + 1)
    BY <1>3 DEF ImageInv
<1>9. p % 4 = 0 /\ n % 4 = 0 /\ p + sizeofHeader + n + r <= Len(image)
    BY <1>3, <1>8 DEF CellInv
<1>10. Following(p, h) = Round4(p + 16 + n + h.fileLenComp)
    BY <1>1 DEF Following
<1> DEFINE b == h.fileLenComp
<1>11. b \in Nat /\ r = Round4(b)
    BY <1>6
<1>. HIDE DEF h, n, r, b
<1>12. (p + 16 + n) \in Nat /\ (p + 16 + n) % 4 = 0
    BY <1>6, <1>9
<1>13. Round4((p + 16 + n) + b) = (p + 16 + n) + r
    BY <1>11, <1>12, RoundAdds
<1>14. Following(p, h) = p + 16 + n + r
    BY <1>10, <1>13 DEF b
<1>. QED BY <1>1, <1>6, <1>7, <1>9, <1>14 DEF h

\* The walk of Find, with the rest of it given by from.
Walk(name, from) ==
    [p \in 0..Len(image) |->
        LET h == Cell(p)
        IN  IF h.is # "header" THEN [result |-> "broken", header |-> p]
            ELSE IF h.flags = "last" THEN [result |-> "absent", header |-> p]
            ELSE IF IsNamed(Cell(p + sizeofHeader), name)
                 THEN [result |-> "found", header |-> p]
                 ELSE from[Following(p, h)]]

LEMMA WalkIs ==
    ASSUME ImageInv, NEW name
    PROVE  \E from : from = Walk(name, from) /\ Find(name) = from[0]
<1> DEFINE A == 0..Len(image)
           T == {p \in A : /\ Cell(p).is = "header" /\ Cell(p).flags # "last"
                           /\ ~IsNamed(Cell(p + sizeofHeader), name)}
           step == [p \in A |-> IF p \in T THEN Following(p, Cell(p)) ELSE p]
           measure == [p \in A |-> Len(image) - p]
<1>1. \A p \in T : Following(p, Cell(p)) \in A /\ p < Following(p, Cell(p))
    BY WalkGoesOn
<1>2. step \in Steps(A)
    BY <1>1 DEF Steps
<1>3. measure \in Measures(A, T, step)
    <2>1. Len(image) \in Nat
        BY DEF ImageInv
    <2>2. measure \in [A -> Nat]
        BY <2>1
    <2>3. ASSUME NEW p \in T PROVE measure[step[p]] < measure[p]
        <3>1. p \in A /\ step[p] \in A /\ p < step[p] /\ p \in Nat /\ step[p] \in Nat
            BY <1>1, <2>1
        <3>2. measure[p] = Len(image) - p /\ measure[step[p]] = Len(image) - step[p]
            BY <3>1
        <3>. HIDE DEF A, T, step, measure
        <3>. QED BY <2>1, <3>1, <3>2
    <2>. QED BY <2>2, <2>3 DEF Measures
<1>4. PICK h \in WhileLoops(A, T, step) : TRUE
    <2>1. T \in SUBSET A
        OBVIOUS
    <2>. HIDE DEF A, T, step, measure
    <2>. QED BY <1>2, <1>3, <2>1, WhileExists
<1>5. h \in [A -> A] /\ \A p \in A : h[p] = IF p \in T THEN h[step[p]] ELSE p
    BY <1>4 DEF WhileLoops
<1> DEFINE ends(p) == IF Cell(p).is # "header" THEN [result |-> "broken", header |-> p]
                      ELSE IF Cell(p).flags = "last" THEN [result |-> "absent", header |-> p]
                      ELSE [result |-> "found", header |-> p]
           g == [p \in A |-> ends(h[p])]
<1>6. g = Walk(name, g)
    <2>1. ASSUME NEW p \in A PROVE g[p] = Walk(name, g)[p]
        <3>1. CASE p \in T
            <4>1. step[p] \in A /\ step[p] = Following(p, Cell(p)) /\ h[p] = h[step[p]]
                BY <1>1, <1>5, <3>1
            <4>2. g[p] = g[step[p]]
                BY <4>1
            <4>3. Walk(name, g)[p] = g[Following(p, Cell(p))]
                BY <3>1 DEF Walk
            <4>. QED BY <4>1, <4>2, <4>3
        <3>2. CASE p \notin T
            <4>1. h[p] = p
                BY <1>5, <3>2
            <4>2. g[p] = ends(p)
                BY <4>1
            <4>3. Walk(name, g)[p] = ends(p)
                BY <3>2 DEF Walk
            <4>. QED BY <4>2, <4>3
        <3>. QED BY <3>1, <3>2
    <2>2. Walk(name, g) = [p \in A |-> Walk(name, g)[p]]
        BY DEF Walk
    <2>3. g = [p \in A |-> g[p]]
        OBVIOUS
    <2>. HIDE DEF g
    <2>. QED BY <2>1, <2>2, <2>3
<1> DEFINE from == CHOOSE f : f = Walk(name, f)
<1>7. from = Walk(name, from)
    <2>. HIDE DEF g
    <2>. QED BY <1>6
<1>8. Find(name) = from[0]
    BY DEF Find, Walk
<1>. HIDE DEF from
<1>. QED BY <1>7, <1>8

\* The walk comes to the first file of the name, and else to the end mark.
LEMMA FindIs ==
    ASSUME ImageInv, finished, NEW at \in Starts, Placed(at),
           NEW name, strlen(name) < sizeofNamebuf
    PROVE  /\ Named(name) = {} => Find(name).result = "absent"
           /\ Named(name) # {} =>
                  /\ Min(Named(name)) \in Named(name)
                  /\ Find(name) = [result |-> "found", header |-> at[Min(Named(name))]]
<1> DEFINE N == Len(listed)
           H == Named(name)
<1>1. PICK from : from = Walk(name, from) /\ Find(name) = from[0]
    BY WalkIs
<1>2. /\ N \in Nat /\ Len(image) \in Nat /\ sizeofHeader = 16
      /\ \A n \in 1..N : listed[n] \in Files /\ n \in 1..(N + 1)
      /\ at \in [1..(N + 1) -> Nat] /\ at[1] = 0
      /\ \A n \in 1..N : at[n + 1] = at[n] + Extent(listed[n])
      /\ \A n \in 1..N : at[n] % 4 = 0 /\ BlockAt(at[n], listed[n])
      /\ Len(image) = at[N + 1] + sizeofHeader
      /\ image[at[N + 1] + 1] = LastCell
    BY DEF ImageInv, sizeofHeader, Starts, Placed
<1>3. H = {i \in 1..N : listed[i].size > 0 /\ listed[i].rel = name}
    BY DEF Named
<1>. HIDE DEF N, H
\* What from[at[n]] is.
<1>4. ASSUME NEW n \in 1..N
      PROVE  from[at[n]] = IF n \in H THEN [result |-> "found", header |-> at[n]]
                           ELSE from[at[n + 1]]
    <2>1. PICK l \in Files : l = listed[n]
        BY <1>2
    <2>2. PICK q \in Nat : q = at[n]
        BY <1>2
    <2>3. at[n + 1] = q + Extent(l) /\ q % 4 = 0 /\ BlockAt(q, l)
        BY <1>2, <2>1, <2>2
    <2>4. n \in H <=> l.size > 0 /\ l.rel = name
        BY <1>3, <2>1
    <2>5. CASE l.size > 0
        <3>1. /\ q < Len(image) /\ Cell(q) = HeaderCell(l)
              /\ Cell(q + sizeofHeader) = NameCell(l.rel)
              /\ Following(q, HeaderCell(l)) = q + Extent(l)
            BY <2>3, <2>5, BlockIs
        <3>2. q \in 0..Len(image)
            BY <1>2, <3>1
        <3>3. HeaderCell(l).is = "header" /\ HeaderCell(l).flags # "last"
            BY DEF HeaderCell
        <3>4. IsNamed(NameCell(l.rel), name) <=> l.rel = name
            BY DEF NameCell, IsNamed
        <3>5. Walk(name, from)[q] = IF l.rel = name THEN [result |-> "found", header |-> q]
                                    ELSE from[q + Extent(l)]
            BY <3>1, <3>2, <3>3, <3>4 DEF Walk
        <3>6. from[q] = Walk(name, from)[q]
            BY <1>1
        <3>. QED BY <2>2, <2>3, <2>4, <2>5, <3>5, <3>6
    <2>6. CASE ~ (l.size > 0)
        <3>1. Extent(l) = 0
            BY <2>6, ExtentIsNat DEF Extent
        <3>2. at[n + 1] = q
            BY <2>2, <2>3, <3>1
        <3>. QED BY <2>2, <2>4, <2>6, <3>2
    <2>. QED BY <2>5, <2>6
<1>5. from[at[N + 1]].result = "absent"
    <2>1. PICK q \in Nat : q = at[N + 1]
        <3>1. N + 1 \in 1..(N + 1)
            BY <1>2
        <3>. QED BY <1>2, <3>1
    <2>2. q < Len(image) /\ q \in 0..Len(image)
        BY <1>2, <2>1
    <2>3. Cell(q) = LastCell
        BY <1>2, <2>1, <2>2 DEF Cell
    <2>4. Walk(name, from)[q] = [result |-> "absent", header |-> q]
        BY <2>2, <2>3 DEF Walk, LastCell
    <2>5. from[q] = Walk(name, from)[q]
        BY <1>1
    <2>. QED BY <2>1, <2>4, <2>5
<1> DEFINE S == {k \in Nat : (\A i \in 1..k : i \notin H) => from[at[k + 1]] = from[0]}
<1>6. 0 \in S
    <2>1. at[0 + 1] = 0
        BY <1>2
    <2>. QED BY <2>1
<1>7. ASSUME NEW k \in 0..(N - 1), k \in S PROVE k + 1 \in S
    <2>1. k + 1 \in 1..N /\ k \in Nat /\ k + 1 \in Nat
        BY <1>2
    <2>2. SUFFICES ASSUME \A i \in 1..(k + 1) : i \notin H
                   PROVE  from[at[(k + 1) + 1]] = from[0]
        BY <2>1
    <2>3. k + 1 \notin H /\ \A i \in 1..k : i \notin H
        BY <2>1, <2>2
    <2>4. from[at[k + 1]] = from[0]
        BY <1>7, <2>3
    <2>5. from[at[k + 1]] = from[at[(k + 1) + 1]]
        BY <1>4, <2>1, <2>3
    <2>. QED BY <2>4, <2>5
<1>8. \A k \in 0..N : k \in S
    <2>. HIDE DEF S
    <2>. QED BY <1>2, <1>6, <1>7, BoundedInduction
<1>9. CASE H = {}
    <2>1. N \in S
        <3>1. N \in 0..N
            BY <1>2
        <3>. HIDE DEF S
        <3>. QED BY <1>8, <3>1
    <2>2. from[at[N + 1]] = from[0]
        BY <1>9, <2>1
    <2>. QED BY <1>1, <1>5, <1>9, <2>2 DEF H
<1>10. CASE H # {}
    <2>1. H \in SUBSET Nat
        BY <1>2, <1>3
    <2>2. PICK m \in H : \A j \in H : m <= j
        BY <1>10, <2>1, LeastNumber
    <2>3. Min(H) \in H /\ \A j \in H : Min(H) <= j
        BY <2>2 DEF Min
    <2>4. PICK k \in Nat : k + 1 = Min(H) /\ k \in 0..N /\ k + 1 \in 1..N
        <3>1. Min(H) \in 1..N
            BY <1>3, <2>3
        <3>2. PICK j \in 1..N : j = Min(H)
            BY <3>1
        <3>3. j - 1 \in Nat /\ (j - 1) + 1 = j /\ j - 1 \in 0..N
            BY <1>2
        <3>. QED BY <3>2, <3>3
    <2>5. \A i \in 1..k : i \notin H
        <3>. SUFFICES ASSUME NEW i \in 1..k, i \in H PROVE FALSE
            OBVIOUS
        <3>1. k + 1 <= i
            BY <2>3, <2>4
        <3>. QED BY <2>4, <3>1
    <2>6. from[at[k + 1]] = from[0]
        BY <1>8, <2>4, <2>5
    <2>7. from[at[k + 1]] = [result |-> "found", header |-> at[k + 1]]
        BY <1>4, <2>3, <2>4
    <2>. QED BY <1>1, <1>10, <2>3, <2>4, <2>6, <2>7 DEF H
<1>. QED BY <1>9, <1>10

-----------------------------------------------------------------------------
(* Reading. *)

LEMMA MinOfTwo ==
    ASSUME NEW a \in Int, NEW b \in Int
    PROVE  /\ Min({a, b}) \in {a, b} /\ Min({a, b}) \in Int
           /\ Min({a, b}) <= a /\ Min({a, b}) <= b
<1>1. \E x \in {a, b} : \A y \in {a, b} : x <= y
    <2>1. a <= b \/ b <= a
        OBVIOUS
    <2>2. a <= a /\ b <= b
        OBVIOUS
    <2>. QED BY <2>1, <2>2
<1>2. Min({a, b}) \in {a, b} /\ \A y \in {a, b} : Min({a, b}) <= y
    BY <1>1, Zenon DEF Min
<1>. QED BY <1>2

LEMMA MinOfThree ==
    ASSUME NEW a \in Int, NEW b \in Int, NEW c \in Int
    PROVE  /\ Min({a, b, c}) \in {a, b, c} /\ Min({a, b, c}) \in Int
           /\ Min({a, b, c}) <= a /\ Min({a, b, c}) <= b /\ Min({a, b, c}) <= c
<1>1. \E x \in {a, b, c} : \A y \in {a, b, c} : x <= y
    <2>1. PICK x \in {a, b, c} : x <= a /\ x <= b /\ x <= c
        OBVIOUS
    <2>. QED BY <2>1
<1>2. Min({a, b, c}) \in {a, b, c} /\ \A y \in {a, b, c} : Min({a, b, c}) <= y
    BY <1>1, Zenon DEF Min
<1>. QED BY <1>2

\* An even share of the whole.
LEMMA ShareFacts ==
    ASSUME NEW c \in Nat, c > 0, NEW s \in Nat
    PROVE  /\ \A n \in Nat : (n * s) \div c \in Nat
           /\ (0 * s) \div c = 0
           /\ \A n, m \in Nat : n <= m => (n * s) \div c <= (m * s) \div c
           /\ \A n \in Nat : n <= c => (n * s) \div c <= s
           /\ c <= s => \A n, m \in Nat : n < m => (n * s) \div c < (m * s) \div c
<1>1. \A x \in Nat : x \div c \in Nat /\ c * (x \div c) <= x /\ x < c * (x \div c) + c
    <2>1. ASSUME NEW x \in Nat PROVE x \div c \in Nat
        OBVIOUS
    <2>2. ASSUME NEW x \in Nat PROVE c * (x \div c) <= x
        OBVIOUS
    <2>3. ASSUME NEW x \in Nat PROVE x < c * (x \div c) + c
        OBVIOUS
    <2>. QED BY <2>1, <2>2, <2>3
<1>2. \A x, y \in Nat : x <= y => x \div c <= y \div c
    <2>. SUFFICES ASSUME NEW x \in Nat, NEW y \in Nat, x <= y, ~ (x \div c <= y \div c)
                  PROVE  FALSE
        OBVIOUS
    <2>1. PICK u \in Nat : u = x \div c
        BY <1>1
    <2>2. PICK v \in Nat : v = y \div c
        BY <1>1
    <2>3. c * u <= x /\ y < c * v + c
        BY <1>1, <2>1, <2>2
    <2>4. u >= v + 1
        BY <2>1, <2>2
    <2>5. c * u >= c * (v + 1) /\ c * (v + 1) = c * v + c
        BY <2>4
    <2>6. c * u \in Int /\ c * v \in Int
        OBVIOUS
    <2>. QED BY <2>3, <2>5, <2>6
<1>3. \A n \in Nat : n * s \in Nat
    OBVIOUS
<1>4. \A n, m \in Nat : n <= m => n * s <= m * s
    OBVIOUS
<1>5. (c * s) \div c = s
    OBVIOUS
<1>6. 0 * s = 0 /\ 0 \div c = 0
    OBVIOUS
<1>7. ASSUME c <= s, NEW n \in Nat, NEW m \in Nat, n < m
      PROVE  (n * s) \div c < (m * s) \div c
    <2>1. PICK x \in Nat : x = n * s
        BY <1>3
    <2>2. PICK y \in Nat : y = m * s
        BY <1>3
    <2>3. x + s <= y
        <3>1. (n + 1) * s <= m * s
            BY <1>4, <1>7
        <3>2. (n + 1) * s = n * s + s
            OBVIOUS
        <3>. QED BY <2>1, <2>2, <3>1, <3>2
    <2>4. x + c <= y
        BY <1>7, <2>3
    <2>5. (x + c) \div c = x \div c + 1
        OBVIOUS
    <2>6. (x + c) \div c <= y \div c
        BY <1>2, <2>4
    <2>7. x \div c \in Nat /\ y \div c \in Nat
        BY <1>1
    <2>8. x \div c < y \div c
        BY <2>5, <2>6, <2>7
    <2>. QED BY <2>1, <2>2, <2>8
<1>. QED BY <1>1, <1>2, <1>3, <1>4, <1>5, <1>6, <1>7

\* How many bytes of a file the decoder has made of the first n that it is fed.
PlainLen(l, n) == (n * l.size) \div (l.csize - 1)

Content(l, i) == [is |-> "data", of |-> l.path, at |-> i, packed |-> FALSE]

LEMMA PlainLenFacts ==
    ASSUME NEW l \in Files, l.size > 0, Compression(l) # "none"
    PROVE  /\ \A n \in Nat : PlainLen(l, n) \in Nat
           /\ PlainLen(l, 0) = 0
           /\ \A n, m \in Nat : n <= m => PlainLen(l, n) <= PlainLen(l, m)
           /\ \A n \in Nat : n <= l.csize - 1 => PlainLen(l, n) <= l.size
           /\ \A n, m \in Nat : n < m => PlainLen(l, n) < PlainLen(l, m)
<1> DEFINE c == l.csize - 1
           s == l.size
<1>1. c \in Nat /\ c > 0 /\ s \in Nat /\ c <= s
    BY StoredLengths
<1>. HIDE DEF c, s
<1>2. /\ \A n \in Nat : (n * s) \div c \in Nat
      /\ (0 * s) \div c = 0
      /\ \A n, m \in Nat : n <= m => (n * s) \div c <= (m * s) \div c
      /\ \A n \in Nat : n <= c => (n * s) \div c <= s
      /\ \A n, m \in Nat : n < m => (n * s) \div c < (m * s) \div c
    BY <1>1, ShareFacts
<1>3. \A n : PlainLen(l, n) = (n * s) \div c
    BY DEF PlainLen, c, s
<1>. QED BY <1>2, <1>3, Zenon DEF c, s

Handles ==
    [header : Nat, decompressor : {"none", "heatshrink"}, posComp : Nat, posStart : Nat,
     posDecomp : Nat, fed : Seq(DataCells)]

\* What the decoder was fed is the file's, from its second byte on, and of what was
\* polled some is left of at most the last 16 of those bytes.
FedInv(l, f) ==
    /\ f.posComp = f.posStart + 1 + Len(f.fed)
    /\ Len(f.fed) <= l.csize - 1
    /\ \A i \in 1..Len(f.fed) : f.fed[i] = DataCell(l, i + 1)
    /\ f.posDecomp <= PlainLen(l, Len(f.fed))
    /\ \A n \in 0..Len(f.fed) : f.posDecomp <= PlainLen(l, n) => Len(f.fed) - n <= 16

\* A handle of the file l.
FileInv(l, f) ==
    /\ f \in Handles
    /\ f.header % 4 = 0 /\ BlockAt(f.header, l)
    /\ f.posStart = f.header + sizeofHeader + NameLen(l)
    /\ f.decompressor = Compression(l)
    /\ f.posDecomp <= l.size
    /\ Compression(l) = "none" => f.posComp = f.posStart + f.posDecomp
    /\ Compression(l) # "none" => FedInv(l, f)

\* Of the stored file nothing is left to read.
IsRead(l, f) == f.posComp = f.posStart + DataLen(l)

\* The handle, of the first file of the name that was asked for, and what was read.
HandleInv ==
    /\ result # "none" => finished
    /\ result # "open" => fh = NoFile
    /\ result # "none" =>
           IF Named(StripSlashes(asked)) = {} THEN result = "absent"
           ELSE /\ result \in {"open", "no memory", "invalid"}
                /\ result = "invalid" => ~EFS_HEATSHRINK /\ Compression(AskedFor) # "none"
    /\ result = "open" =>
           /\ Compression(AskedFor) = "none" \/ EFS_HEATSHRINK
           /\ FileInv(AskedFor, fh)
           /\ out = [i \in 1..fh.posDecomp |-> Content(AskedFor, i)]
           /\ short => IsRead(AskedFor, fh)

\* The addresses behind a handle hold the file.
LEMMA FileIs ==
    ASSUME ImageInv, NEW l \in Files, l.size > 0, NEW f, FileInv(l, f)
    PROVE  /\ Cell(f.header) = HeaderCell(l)
           /\ \A i \in 1..DataLen(l) : Cell(f.posStart + i - 1) = DataCell(l, i)
           /\ Unread(f) = DataLen(l) - (f.posComp - f.posStart)
<1>1. f.header \in Nat /\ f.header % 4 = 0 /\ BlockAt(f.header, l)
    BY DEF FileInv, Handles
<1>2. /\ Cell(f.header) = HeaderCell(l)
      /\ \A i \in 1..DataLen(l) : Cell(f.header + sizeofHeader + NameLen(l) + i - 1) = DataCell(l, i)
    BY <1>1, BlockIs
<1>3. f.posStart = f.header + sizeofHeader + NameLen(l)
    BY DEF FileInv
<1>4. Unread(f) = DataLen(l) - (f.posComp - f.posStart)
    BY <1>2 DEF Unread, HeaderCell
<1>. QED BY <1>2, <1>3, <1>4

\* The decoder makes the file of what it was fed.
LEMMA PlainIs ==
    ASSUME ImageInv, NEW l \in Files, l.size > 0, Compression(l) # "none",
           NEW f, FileInv(l, f), NEW n \in 0..Len(f.fed)
    PROVE  Plain(f, n) = [i \in 1..PlainLen(l, n) |-> Content(l, i)]
<1>1. Cell(f.header) = HeaderCell(l)
    BY FileIs
<1>2. HeaderCell(l).fileLenDecomp = l.size /\ HeaderCell(l).fileLenComp = l.csize
    BY DEF HeaderCell, DataLen
<1>3. Len(f.fed) \in Nat /\ \A i \in 1..Len(f.fed) : f.fed[i] = DataCell(l, i + 1)
    BY DEF FileInv, FedInv, Handles
<1>4. \A i : DataCell(l, i).is = "data" /\ DataCell(l, i).packed /\ DataCell(l, i).at = i
             /\ DataCell(l, i).of = l.path
    BY DEF DataCell
<1>5. \A i \in 1..n : f.fed[i].is = "data" /\ f.fed[i].packed /\ f.fed[i].at = i + 1
    BY <1>3, <1>4
<1>6. Plain(f, n) = [i \in 1..PlainLen(l, n) |->
                        [is |-> "data", of |-> f.fed[1].of, at |-> i, packed |-> FALSE]]
    BY <1>1, <1>2, <1>5 DEF Plain, PlainLen
<1>7. CASE n = 0
    <2>1. PlainLen(l, n) = 0
        BY <1>7, PlainLenFacts
    <2>2. 1..0 = {}
        OBVIOUS
    <2>. QED BY <1>6, <2>1, <2>2
<1>8. CASE n # 0
    <2>1. f.fed[1] = DataCell(l, 2)
        <3>1. 1 \in 1..Len(f.fed) /\ 1 + 1 = 2
            BY <1>3, <1>8
        <3>. QED BY <1>3, <3>1
    <2>2. f.fed[1].of = l.path
        BY <1>4, <2>1
    <2>. QED BY <1>6, <2>2 DEF Content
<1>. QED BY <1>7, <1>8

\* There is room for no less than nothing, and what it takes is no more than 16 bytes
\* ahead of what was polled.
LEMMA RoomIs ==
    ASSUME ImageInv, NEW l \in Files, l.size > 0, Compression(l) # "none",
           NEW f, FileInv(l, f)
    PROVE  /\ Room(f) \in Nat
           /\ \A n \in 0..Len(f.fed) :
                  f.posDecomp <= PlainLen(l, n) => Len(f.fed) + Room(f) - n <= 16
           /\ \E n \in 0..Len(f.fed) :
                  f.posDecomp <= PlainLen(l, n) /\ Room(f) = 16 - (Len(f.fed) - n)
<1> DEFINE k == Len(f.fed)
           S == {n \in 0..k : Len(Plain(f, n)) >= f.posDecomp}
           R == {n \in 0..k : f.posDecomp <= PlainLen(l, n)}
<1>1. /\ k \in Nat /\ f.posDecomp \in Nat
      /\ f.posDecomp <= PlainLen(l, k)
      /\ \A n \in 0..k : f.posDecomp <= PlainLen(l, n) => k - n <= 16
    BY DEF FileInv, FedInv, Handles
<1>2. ASSUME NEW n \in 0..k PROVE Len(Plain(f, n)) = PlainLen(l, n) /\ PlainLen(l, n) \in Nat
    <2>1. Plain(f, n) = [i \in 1..PlainLen(l, n) |-> Content(l, i)]
        BY PlainIs
    <2>2. PlainLen(l, n) \in Nat
        BY <1>1, PlainLenFacts
    <2>. QED BY <2>1, <2>2
<1>3. S = R
    <2>. HIDE DEF k
    <2>1. \A n \in 0..k : Len(Plain(f, n)) >= f.posDecomp <=> f.posDecomp <= PlainLen(l, n)
        BY <1>1, <1>2
    <2>. QED BY <2>1
<1>4. k \in R
    BY <1>1
<1>5. PICK m \in R : \A j \in R : m <= j
    <2>1. R \in SUBSET Nat /\ R # {}
        BY <1>4
    <2>. QED BY <2>1, LeastNumber
<1>6. Min(R) \in R /\ \A j \in R : Min(R) <= j
    BY <1>5 DEF Min
<1>7. PICK x \in R : x = Min(R) /\ x \in Nat /\ k - x <= 16 /\ \A j \in R : x <= j
    <2>1. PICK x \in R : x = Min(R) /\ \A j \in R : x <= j
        BY <1>6
    <2>2. x \in 0..k /\ f.posDecomp <= PlainLen(l, x)
        OBVIOUS
    <2>3. x \in Nat /\ k - x <= 16
        BY <1>1, <2>2
    <2>. QED BY <2>1, <2>3
<1>8. Room(f) = 16 - (k - x)
    BY <1>3, <1>7 DEF Room
<1>9. ASSUME NEW n \in 0..k, f.posDecomp <= PlainLen(l, n) PROVE k + Room(f) - n <= 16
    <2>1. x <= n
        BY <1>7, <1>9
    <2>. HIDE DEF k, R
    <2>. QED BY <1>1, <1>7, <1>8, <2>1
<1>10. x \in 0..k /\ f.posDecomp <= PlainLen(l, x)
    OBVIOUS
<1>11. Room(f) \in Nat
    BY <1>1, <1>7, <1>8
<1>. QED BY <1>8, <1>9, <1>10, <1>11

\* What is fed is the file's, and no more than it has.
LEMMA SinkKeeps ==
    ASSUME ImageInv, NEW l \in Files, l.size > 0, Compression(l) # "none",
           NEW f, FileInv(l, f)
    PROVE  /\ FileInv(l, Sink(f))
           /\ Sink(f).posDecomp = f.posDecomp
           /\ Len(Sink(f).fed) = Len(f.fed) + Min({Unread(f), 16, Room(f)})
<1> DEFINE k == Len(f.fed)
           g == Sink(f)
           rlen == Min({Unread(f), 16, Room(f)})
           more == Bytes(f.posComp, rlen)
<1>1. /\ f \in Handles /\ k \in Nat
      /\ f.posComp = f.posStart + 1 + k /\ k <= l.csize - 1 /\ f.posStart \in Nat
      /\ f.fed \in Seq(DataCells)
      /\ \A i \in 1..k : f.fed[i] = DataCell(l, i + 1)
    BY DEF FileInv, FedInv, Handles
<1>2. DataLen(l) = l.csize /\ l.csize \in Nat /\ l.csize > 1
    BY StoredLengths DEF DataLen
<1>3. /\ Unread(f) = l.csize - (1 + k)
      /\ \A i \in 1..l.csize : Cell(f.posStart + i - 1) = DataCell(l, i)
    <2>1. /\ Unread(f) = DataLen(l) - (f.posComp - f.posStart)
          /\ \A i \in 1..DataLen(l) : Cell(f.posStart + i - 1) = DataCell(l, i)
        BY FileIs
    <2>. QED BY <1>1, <1>2, <2>1
<1>4. /\ Room(f) \in Nat
      /\ \A n \in 0..k : f.posDecomp <= PlainLen(l, n) => k + Room(f) - n <= 16
    BY RoomIs
<1>5. rlen \in Nat /\ rlen <= Unread(f) /\ rlen <= 16 /\ rlen <= Room(f)
    <2>1. PICK u \in Nat : u = Unread(f)
        BY <1>1, <1>2, <1>3
    <2>2. PICK v \in Nat : v = Room(f)
        BY <1>4
    <2>3. u \in Int /\ 16 \in Int /\ v \in Int
        OBVIOUS
    <2>4. /\ Min({u, 16, v}) \in {u, 16, v}
          /\ Min({u, 16, v}) <= u /\ Min({u, 16, v}) <= 16 /\ Min({u, 16, v}) <= v
        BY <2>3, MinOfThree
    <2>5. Min({u, 16, v}) \in Nat
        BY <2>4
    <2>. QED BY <2>1, <2>2, <2>4, <2>5
<1>. HIDE DEF k, rlen
<1>6. /\ more \in Seq(DataCells) /\ Len(more) = rlen
      /\ \A i \in 1..rlen : more[i] = DataCell(l, k + i + 1)
    <2>1. ASSUME NEW i \in 1..rlen
          PROVE  Cell(f.posComp + i - 1) = DataCell(l, k + i + 1)
        <3>1. PICK j \in 1..l.csize : j = k + i + 1
            BY <1>1, <1>2, <1>3, <1>5
        <3>2. f.posStart + j - 1 = f.posComp + i - 1
            BY <1>1, <3>1
        <3>. QED BY <1>3, <3>1, <3>2
    <2>2. \A j \in Nat : DataCell(l, j) \in DataCells
        BY DEF DataCell, DataCells, Paths
    <2>3. \A i \in 1..rlen : k + i + 1 \in Nat
        BY <1>1, <1>5
    <2>4. \A i \in 1..rlen : Cell(f.posComp + i - 1) \in DataCells
        BY <2>1, <2>2, <2>3
    <2>5. more = [i \in 1..rlen |-> Cell(f.posComp + i - 1)]
        BY DEF Bytes
    <2>. HIDE DEF more
    <2>. QED BY <1>5, <2>1, <2>4, <2>5
<1>. HIDE DEF more
<1>7. g = [f EXCEPT !.fed = f.fed \o more, !.posComp = f.posComp + rlen]
    BY DEF Sink, more, rlen
<1> DEFINE fed == f.fed \o more
<1>8. /\ fed \in Seq(DataCells) /\ Len(fed) = k + rlen
      /\ \A i \in 1..(k + rlen) : fed[i] = DataCell(l, i + 1)
    <2>1. /\ fed \in Seq(DataCells) /\ Len(fed) = k + rlen
          /\ \A i \in 1..(k + rlen) : fed[i] = IF i <= k THEN f.fed[i] ELSE more[i - k]
        <3>1. PICK s \in Seq(DataCells) : s = f.fed
            BY <1>1
        <3>2. PICK t \in Seq(DataCells) : t = more
            BY <1>6
        <3>3. /\ s \o t \in Seq(DataCells) /\ Len(s \o t) = Len(s) + Len(t)
              /\ \A i \in 1..(Len(s) + Len(t)) : (s \o t)[i] = IF i <= Len(s) THEN s[i] ELSE t[i - Len(s)]
            BY ConcatProperties
        <3>4. Len(s) = k /\ Len(t) = rlen
            BY <1>6, <3>1, <3>2 DEF k
        <3>. QED BY <3>1, <3>2, <3>3, <3>4
    <2>2. ASSUME NEW i \in 1..(k + rlen) PROVE fed[i] = DataCell(l, i + 1)
        <3>1. CASE i <= k
            <4>1. i \in 1..k
                BY <1>1, <3>1
            <4>. QED BY <1>1, <2>1, <3>1, <4>1
        <3>2. CASE ~ (i <= k)
            <4>1. i - k \in 1..rlen /\ k + (i - k) + 1 = i + 1
                BY <1>1, <1>5, <3>2
            <4>2. more[i - k] = DataCell(l, k + (i - k) + 1)
                BY <1>6, <4>1
            <4>. QED BY <2>1, <3>2, <4>1, <4>2
        <3>. QED BY <3>1, <3>2
    <2>. QED BY <2>1, <2>2
<1>. HIDE DEF fed
<1>9. /\ g.fed = fed /\ g.posComp = f.posComp + rlen
      /\ g.header = f.header /\ g.posStart = f.posStart
      /\ g.decompressor = f.decompressor /\ g.posDecomp = f.posDecomp
    BY <1>1, <1>7 DEF Handles, fed
<1>10. g \in Handles
    <2>1. f.posComp + rlen \in Nat
        BY <1>1, <1>5 DEF Handles
    <2>. QED BY <1>1, <1>7, <1>8, <2>1 DEF Handles, fed
<1>11. FedInv(l, g)
    <2>1. g.posComp = g.posStart + 1 + Len(g.fed)
        <3>1. PICK b \in Nat : b = f.posStart
            BY <1>1
        <3>2. f.posComp + rlen = b + 1 + (k + rlen)
            BY <1>1, <1>5, <3>1
        <3>. QED BY <1>8, <1>9, <3>1, <3>2
    <2>2. Len(g.fed) <= l.csize - 1
        BY <1>1, <1>2, <1>3, <1>5, <1>8, <1>9
    <2>3. \A i \in 1..Len(g.fed) : g.fed[i] = DataCell(l, i + 1)
        BY <1>8, <1>9
    <2>4. g.posDecomp <= PlainLen(l, Len(g.fed))
        <3>1. f.posDecomp <= PlainLen(l, k) /\ f.posDecomp \in Nat
            BY DEF FileInv, FedInv, Handles, k
        <3>2. /\ PlainLen(l, k) <= PlainLen(l, k + rlen)
              /\ PlainLen(l, k) \in Nat /\ PlainLen(l, k + rlen) \in Nat
            <4>1. k + rlen \in Nat /\ k <= k + rlen
                BY <1>1, <1>5
            <4>. QED BY <1>1, <4>1, PlainLenFacts
        <3>. QED BY <1>8, <1>9, <3>1, <3>2
    <2>5. ASSUME NEW n \in 0..Len(g.fed), g.posDecomp <= PlainLen(l, n)
          PROVE  Len(g.fed) - n <= 16
        <3>1. n \in Nat /\ n <= k + rlen /\ Len(g.fed) = k + rlen
            BY <1>1, <1>5, <1>8, <1>9
        <3>2. CASE n <= k
            <4>1. n \in 0..k
                BY <1>1, <3>1, <3>2
            <4>2. k + Room(f) - n <= 16
                BY <1>4, <1>9, <2>5, <4>1
            <4>. QED BY <1>1, <1>4, <1>5, <3>1, <4>2
        <3>3. CASE ~ (n <= k)
            BY <1>1, <1>5, <3>1, <3>3
        <3>. QED BY <3>2, <3>3
    <2>. QED BY <2>1, <2>2, <2>3, <2>4, <2>5 DEF FedInv
<1>. HIDE DEF g
<1>12. FileInv(l, g)
    BY <1>9, <1>10, <1>11 DEF FileInv
<1>13. Len(g.fed) = k + rlen
    BY <1>8, <1>9
<1>. QED BY <1>9, <1>12, <1>13 DEF g, k, rlen

\* Polling takes the bytes of the file that come next, if the decoder has made them.
LEMMA PollKeeps ==
    ASSUME NEW l \in Files, l.size > 0, Compression(l) # "none",
           NEW g, FileInv(l, g), NEW rlen \in Nat,
           g.posDecomp + rlen <= PlainLen(l, Len(g.fed))
    PROVE  FileInv(l, [g EXCEPT !.posDecomp = g.posDecomp + rlen])
<1> DEFINE e == [g EXCEPT !.posDecomp = g.posDecomp + rlen]
           k == Len(g.fed)
<1>1. /\ g \in Handles /\ g.posDecomp \in Nat /\ k \in Nat /\ l.csize \in Nat
      /\ k <= l.csize - 1
      /\ \A n \in 0..k : g.posDecomp <= PlainLen(l, n) => k - n <= 16
    BY StoredLengths DEF FileInv, FedInv, Handles
<1>10. PICK d \in Nat : d = g.posDecomp + rlen
    BY <1>1
<1>11. e = [g EXCEPT !.posDecomp = d]
    BY <1>10
<1>. HIDE DEF e, k
<1>2. /\ e.fed = g.fed /\ e.posComp = g.posComp /\ e.header = g.header
      /\ e.posStart = g.posStart /\ e.decompressor = g.decompressor
      /\ e.posDecomp = g.posDecomp + rlen
    BY <1>1, <1>10, <1>11 DEF Handles
<1>3. e \in Handles
    BY <1>1, <1>11 DEF Handles
<1>4. /\ \A n \in 0..k : PlainLen(l, n) \in Nat
      /\ PlainLen(l, k) <= l.size /\ PlainLen(l, k) \in Nat /\ l.size \in Nat
    <2>1. \A n \in 0..k : n \in Nat
        BY <1>1
    <2>. QED BY <1>1, <2>1, PlainLenFacts, StoredLengths
<1>5. e.posDecomp <= PlainLen(l, k) /\ e.posDecomp <= l.size /\ g.posDecomp <= e.posDecomp
      /\ e.posDecomp \in Nat
    <2>1. g.posDecomp + rlen <= PlainLen(l, k)
        BY DEF k
    <2>. QED BY <1>1, <1>2, <1>4, <2>1
<1>6. \A n \in 0..k : e.posDecomp <= PlainLen(l, n) => k - n <= 16
    <2>1. ASSUME NEW n \in 0..k, e.posDecomp <= PlainLen(l, n) PROVE k - n <= 16
        <3>1. g.posDecomp <= PlainLen(l, n)
            BY <1>1, <1>4, <1>5, <2>1
        <3>. QED BY <1>1, <3>1
    <2>. QED BY <2>1
<1>7. FedInv(l, e)
    <2>1. FedInv(l, g)
        BY DEF FileInv
    <2>. QED BY <1>2, <1>5, <1>6, <2>1, Zenon DEF FedInv, k
<1>8. FileInv(l, e)
    BY <1>2, <1>3, <1>5, <1>7 DEF FileInv
<1>. QED BY <1>8 DEF e

\* The state of the loop of espFsRead, which began at the byte p of the file.
TurnInv(l, p, s) ==
    /\ s \in [file : Handles, bytes : Seq(Cells)]
    /\ FileInv(l, s.file)
    /\ s.file.posDecomp = p + Len(s.bytes)
    /\ \A i \in 1..Len(s.bytes) : s.bytes[i] = Content(l, p + i)

LEMMA TurnKeeps ==
    ASSUME ImageInv, NEW l \in Files, l.size > 0, Compression(l) # "none",
           NEW p \in Nat, NEW s, TurnInv(l, p, s), NEW len \in Nat
    PROVE  TurnInv(l, p, InflateTurn(s, len))
<1>1. CASE Len(s.bytes) >= len \/ Unread(s.file) = 0
    BY <1>1 DEF InflateTurn
<1>2. CASE ~ (Len(s.bytes) >= len \/ Unread(s.file) = 0)
    <2> DEFINE g == Sink(s.file)
               k == Len(g.fed)
               all == Plain(g, k)
               rlen == Min({len - Len(s.bytes), Len(all) - g.posDecomp})
               b == SubSeq(all, g.posDecomp + 1, g.posDecomp + rlen)
               q == Len(s.bytes)
    <2>1. /\ s \in [file : Handles, bytes : Seq(Cells)] /\ FileInv(l, s.file)
          /\ s.file.posDecomp = p + q /\ q \in Nat
          /\ \A i \in 1..q : s.bytes[i] = Content(l, p + i)
          /\ s.bytes \in Seq(Cells)
        BY DEF TurnInv
    <2>2. FileInv(l, g) /\ g.posDecomp = p + q
        BY <2>1, SinkKeeps
    <2>3. InflateTurn(s, len) = [file  |-> [g EXCEPT !.posDecomp = g.posDecomp + rlen],
                                 bytes |-> s.bytes \o b]
        BY <1>2 DEF InflateTurn
    <2>. HIDE DEF g
    <2>4. k \in Nat /\ g.posDecomp <= PlainLen(l, k) /\ g.posDecomp \in Nat /\ PlainLen(l, k) \in Nat
        <3>1. k \in Nat /\ g.posDecomp <= PlainLen(l, k) /\ g.posDecomp \in Nat
            BY <2>2 DEF FileInv, FedInv, Handles
        <3>. QED BY <3>1, PlainLenFacts
    <2>5. all = [i \in 1..PlainLen(l, k) |-> Content(l, i)]
        <3>1. k \in 0..Len(g.fed)
            BY <2>4
        <3>. QED BY <2>2, <3>1, PlainIs
    <2>6. Len(all) = PlainLen(l, k)
        BY <2>4, <2>5
    <2>. HIDE DEF all, k, q
    <2>7. rlen \in Nat /\ g.posDecomp + rlen <= PlainLen(l, k)
        <3>1. PICK u \in Nat : u = len - q
            <4>1. ~ (q >= len) /\ q \in Nat
                BY <1>2, <2>1, Zenon DEF q
            <4>. HIDE DEF rlen
            <4>2. len - q \in Nat
                BY <4>1
            <4>. QED BY <4>2
        <3>2. PICK v \in Nat : v = Len(all) - g.posDecomp
            BY <2>4, <2>6
        <3>3. u \in Int /\ v \in Int
            OBVIOUS
        <3>4. Min({u, v}) \in {u, v} /\ Min({u, v}) <= u /\ Min({u, v}) <= v
            BY <3>3, MinOfTwo
        <3>5. rlen = Min({u, v})
            BY <3>1, <3>2 DEF q
        <3>6. rlen \in Nat /\ rlen <= v
            BY <3>4, <3>5
        <3>7. v = PlainLen(l, k) - g.posDecomp
            BY <2>6, <3>2
        <3>. HIDE DEF rlen
        <3>. QED BY <2>4, <3>6, <3>7
    <2>. HIDE DEF rlen
    <2>8. FileInv(l, [g EXCEPT !.posDecomp = g.posDecomp + rlen])
        BY <2>2, <2>7, PollKeeps DEF k
    <2>9. /\ b \in Seq(Cells) /\ Len(b) = rlen
          /\ \A i \in 1..rlen : b[i] = Content(l, p + q + i)
        <3>1. PICK m \in Nat : m = g.posDecomp
            BY <2>4
        <3>2. ASSUME NEW i \in (m + 1)..(m + rlen) PROVE all[i] = Content(l, i) /\ all[i] \in Cells
            <4>1. i \in 1..PlainLen(l, k) /\ i \in Nat
                BY <2>4, <2>7, <3>1
            <4>2. all[i] = Content(l, i)
                BY <2>5, <4>1
            <4>. QED BY <4>1, <4>2 DEF Content, Cells, DataCells, Paths
        <3>3. /\ b \in Seq(Cells)
              /\ Len(b) = IF m + 1 <= m + rlen THEN (m + rlen) - (m + 1) + 1 ELSE 0
              /\ \A i \in 1..((m + rlen) - (m + 1) + 1) : b[i] = all[(m + 1) + i - 1]
            <4>1. m + 1 \in Int /\ m + rlen \in Int /\ \A i \in (m + 1)..(m + rlen) : all[i] \in Cells
                BY <2>7, <3>2
            <4>2. b = SubSeq(all, m + 1, m + rlen)
                BY <3>1
            <4>. HIDE DEF b
            <4>. QED BY <4>1, <4>2, SubSeqProperties
        <3>4. (m + rlen) - (m + 1) + 1 = rlen /\ (m + 1 <= m + rlen <=> rlen # 0)
            BY <2>7
        <3>5. ASSUME NEW i \in 1..rlen PROVE b[i] = Content(l, p + q + i)
            <4>1. (m + 1) + i - 1 = p + q + i /\ p + q + i \in (m + 1)..(m + rlen)
                BY <2>1, <2>2, <2>7, <3>1 DEF q
            <4>2. b[i] = all[(m + 1) + i - 1]
                BY <3>3, <3>4
            <4>. QED BY <3>2, <4>1, <4>2
        <3>. QED BY <2>7, <3>3, <3>4, <3>5
    <2>. HIDE DEF b
    <2> DEFINE r == s.bytes \o b
    <2>10. /\ r \in Seq(Cells) /\ Len(r) = q + rlen
           /\ \A i \in 1..(q + rlen) : r[i] = Content(l, p + i)
        <3>1. Joins(s.bytes, b)
            BY <2>1, <2>9, Joined
        <3>2. /\ r \in Seq(Cells) /\ Len(r) = q + rlen
              /\ \A i \in 1..q : r[i] = s.bytes[i]
              /\ \A i \in 1..rlen : r[q + i] = b[i]
            BY <2>1, <2>9, <3>1 DEF Joins, q
        <3>. HIDE DEF r
        <3>3. ASSUME NEW i \in 1..(q + rlen) PROVE r[i] = Content(l, p + i)
            <4>1. CASE i \in 1..q
                BY <2>1, <3>2, <4>1 DEF q
            <4>2. CASE i \notin 1..q
                <5>1. i - q \in 1..rlen /\ q + (i - q) = i /\ p + q + (i - q) = p + i
                    BY <2>1, <2>7, <4>2
                <5>2. r[q + (i - q)] = b[i - q] /\ b[i - q] = Content(l, p + q + (i - q))
                    BY <2>9, <3>2, <5>1
                <5>. QED BY <5>1, <5>2
            <4>. QED BY <4>1, <4>2
        <3>. QED BY <3>2, <3>3
    <2>. HIDE DEF r
    <2> DEFINE e == [g EXCEPT !.posDecomp = g.posDecomp + rlen]
    <2>11. e \in Handles /\ e.posDecomp = p + (q + rlen)
        <3>1. g \in Handles
            BY <2>2 DEF FileInv
        <3>2. e \in Handles /\ e.posDecomp = g.posDecomp + rlen
            <4>1. PICK d \in Nat : d = g.posDecomp + rlen
                BY <2>4, <2>7
            <4>2. e = [g EXCEPT !.posDecomp = d]
                BY <4>1
            <4>. HIDE DEF e
            <4>. QED BY <3>1, <4>1, <4>2 DEF Handles
        <3>. HIDE DEF e
        <3>3. g.posDecomp + rlen = p + (q + rlen)
            BY <2>1, <2>2, <2>7
        <3>. QED BY <3>2, <3>3
    <2>12. InflateTurn(s, len) = [file |-> e, bytes |-> r]
        BY <2>3 DEF r
    <2>13. FileInv(l, e)
        BY <2>8
    <2>. HIDE DEF e
    <2>14. PICK t : t = [file |-> e, bytes |-> r]
        OBVIOUS
    <2>15. t.file = e /\ t.bytes = r /\ t \in [file : Handles, bytes : Seq(Cells)]
        BY <2>10, <2>11, <2>14
    <2>16. t.file.posDecomp = p + Len(t.bytes)
        BY <2>10, <2>11, <2>15
    <2>17. \A i \in 1..Len(t.bytes) : t.bytes[i] = Content(l, p + i)
        BY <2>10, <2>15
    <2>18. TurnInv(l, p, t)
        BY <2>13, <2>15, <2>16, <2>17, Zenon DEF TurnInv
    <2>. QED BY <2>12, <2>14, <2>18
<1>. QED BY <1>1, <1>2

\* Whether the loop is over, and what is left for it to feed and to deliver.
Over(s, len) == Len(s.bytes) >= len \/ Unread(s.file) = 0

Owed(s, len) == Unread(s.file) + len - Len(s.bytes)

LEMMA UnreadIs ==
    ASSUME ImageInv, NEW l \in Files, l.size > 0, Compression(l) # "none", NEW f, FileInv(l, f)
    PROVE  /\ Len(f.fed) \in Nat
           /\ Unread(f) \in Nat /\ Unread(f) = l.csize - (1 + Len(f.fed))
<1>1. Unread(f) = DataLen(l) - (f.posComp - f.posStart)
    BY FileIs
<1>2. DataLen(l) = l.csize /\ l.csize \in Nat
    BY StoredLengths DEF DataLen
<1>3. /\ f.posComp = f.posStart + 1 + Len(f.fed) /\ Len(f.fed) <= l.csize - 1
      /\ f.posStart \in Nat /\ Len(f.fed) \in Nat
    BY DEF FileInv, FedInv, Handles
<1>. QED BY <1>1, <1>2, <1>3

\* A turn feeds the decoder a byte or takes one from it: if there is no room for a byte,
\* the 16 that it holds have made one that was not polled.
LEMMA TurnProgress ==
    ASSUME ImageInv, NEW l \in Files, l.size > 0, Compression(l) # "none",
           NEW p \in Nat, NEW s, TurnInv(l, p, s), NEW len \in Nat, ~Over(s, len)
    PROVE  Owed(InflateTurn(s, len), len) < Owed(s, len)
<1> DEFINE f == s.file
           g == Sink(f)
           k == Len(g.fed)
           all == Plain(g, k)
           room == Min({len - Len(s.bytes), Len(all) - g.posDecomp})
           fedNow == Min({Unread(f), 16, Room(f)})
           b == SubSeq(all, g.posDecomp + 1, g.posDecomp + room)
           t == InflateTurn(s, len)
           q == Len(s.bytes)
<1>1. /\ FileInv(l, f) /\ s.bytes \in Seq(Cells) /\ q \in Nat
      /\ f.posDecomp = p + q
    BY DEF TurnInv
<1>2. /\ FileInv(l, g) /\ g.posDecomp = p + q
      /\ k = Len(f.fed) + fedNow
    BY <1>1, SinkKeeps
<1>3. t = [file |-> [g EXCEPT !.posDecomp = g.posDecomp + room], bytes |-> s.bytes \o b]
    BY DEF InflateTurn, Over
<1>4. TurnInv(l, p, t)
    BY TurnKeeps
<1>5. PICK c \in Nat : c = l.csize
    BY StoredLengths
<1>6. PICK u \in Nat : u = Unread(f) /\ u = c - (1 + Len(f.fed)) /\ u # 0
    BY <1>1, <1>5, UnreadIs DEF Over
<1>7. PICK v \in Nat : v = Room(f)
    BY <1>1, RoomIs
<1>8. PICK r \in Nat : r = fedNow /\ r \in {u, 16, v} /\ (r = 0 => v = 0)
    <2>1. u \in Int /\ 16 \in Int /\ v \in Int
        OBVIOUS
    <2>2. Min({u, 16, v}) \in {u, 16, v}
        BY <2>1, MinOfThree
    <2>3. Min({u, 16, v}) \in Nat
        BY <2>2
    <2>4. fedNow = Min({u, 16, v})
        BY <1>6, <1>7
    <2>. HIDE DEF fedNow
    <2>5. fedNow \in Nat /\ fedNow \in {u, 16, v}
        BY <2>2, <2>3, <2>4, Zenon
    <2>6. fedNow = 0 => v = 0
        BY <1>6, <2>5
    <2>. QED BY <2>5, <2>6
<1>9. PICK j \in Nat : j = Len(f.fed) /\ k = j + r
    BY <1>1, <1>2, <1>8, UnreadIs
<1>10. /\ t.file.posDecomp = p + Len(t.bytes) /\ FileInv(l, t.file) /\ Len(t.bytes) \in Nat
    BY <1>4 DEF TurnInv
<1>11. t.file.fed = g.fed /\ t.file.posDecomp = g.posDecomp + room
    <2>1. g \in Handles
        BY <1>2 DEF FileInv
    <2>2. PICK d : d = g.posDecomp + room
        OBVIOUS
    <2>3. t.file = [g EXCEPT !.posDecomp = d]
        BY <1>3, <2>2
    <2>. HIDE DEF g, t, room
    <2>. QED BY <2>1, <2>2, <2>3 DEF Handles
<1>12. Unread(t.file) = c - (1 + k)
    BY <1>5, <1>10, <1>11, UnreadIs
<1>13. PICK w \in Nat : w = PlainLen(l, k) /\ Len(all) = w /\ p + q <= w
    <2>1. k \in Nat /\ k \in 0..Len(g.fed)
        BY <1>2, UnreadIs
    <2>2. all = [i \in 1..PlainLen(l, k) |-> Content(l, i)]
        BY <1>2, <2>1, PlainIs
    <2>3. PlainLen(l, k) \in Nat
        BY <2>1, PlainLenFacts
    <2>4. p + q <= PlainLen(l, k)
        BY <1>2 DEF FileInv, FedInv
    <2>. HIDE DEF all
    <2>. QED BY <2>2, <2>3, <2>4
<1>14. r = 0 => w - (p + q) # 0
    <2>. SUFFICES ASSUME r = 0 PROVE w - (p + q) # 0
        OBVIOUS
    <2>1. PICK n \in 0..j : f.posDecomp <= PlainLen(l, n) /\ v = 16 - (j - n)
        BY <1>1, <1>7, <1>9, RoomIs
    <2>2. n \in Nat /\ j \in Nat /\ n < j /\ k = j
        BY <1>8, <1>9, <2>1
    <2>3. PlainLen(l, n) < PlainLen(l, j) /\ PlainLen(l, n) \in Nat /\ PlainLen(l, j) \in Nat
        BY <2>2, PlainLenFacts
    <2>4. p + q <= PlainLen(l, n) /\ w = PlainLen(l, j)
        BY <1>1, <1>13, <2>1, <2>2
    <2>. HIDE DEF f, k, q
    <2>5. q \in Nat
        BY <1>1
    <2>. QED BY <2>3, <2>4, <2>5
<1>15. PICK o \in Nat : o = room /\ (r = 0 => o # 0)
    <2>1. ~ (q >= len)
        BY DEF Over
    <2>2. PICK x \in Nat : x = len - q /\ x # 0
        <3>. HIDE DEF q
        <3>1. len - q \in Nat /\ len - q # 0
            BY <1>1, <2>1
        <3>. QED BY <3>1
    <2>3. PICK y \in Nat : y = Len(all) - g.posDecomp /\ (r = 0 => y # 0)
        <3>1. w - (p + q) \in Nat
            <4>. HIDE DEF q
            <4>. QED BY <1>1, <1>13
        <3>. QED BY <1>2, <1>13, <1>14, <3>1
    <2>4. x \in Int /\ y \in Int
        OBVIOUS
    <2>5. Min({x, y}) \in {x, y}
        BY <2>4, MinOfTwo
    <2>. QED BY <2>2, <2>3, <2>5
<1>16. Len(t.bytes) = q + o
    <2>1. PICK z \in Nat : z = Len(t.bytes)
        BY <1>10
    <2>2. p + z = (p + q) + o
        BY <1>2, <1>10, <1>11, <1>15, <2>1
    <2>3. q \in Nat
        BY <1>1
    <2>. HIDE DEF q, t
    <2>4. z = q + o
        BY <2>2, <2>3
    <2>. QED BY <2>1, <2>4
<1>17. Owed(t, len) = c - (1 + (j + r)) + len - (q + o)
    BY <1>9, <1>12, <1>16 DEF Owed
<1>18. Owed(s, len) = c - (1 + j) + len - q
    BY <1>6, <1>9 DEF Owed
<1>19. q \in Nat
    BY <1>1
<1>. HIDE DEF f, g, k, all, room, fedNow, b, t, q
<1>20. Owed(t, len) < Owed(s, len)
    BY <1>15, <1>17, <1>18, <1>19
<1>. QED BY <1>20 DEF t

LEMMA InflateIs ==
    ASSUME ImageInv, NEW l \in Files, l.size > 0, Compression(l) # "none",
           NEW f, FileInv(l, f), NEW len \in Nat
    PROVE  TurnInv(l, f.posDecomp, Inflate(f, len)) /\ Over(Inflate(f, len), len)
<1> DEFINE p == f.posDecomp
           A == {s \in [file : Handles, bytes : Seq(Cells)] : TurnInv(l, p, s)}
           start == [file |-> f, bytes |-> <<>>]
           n == Unread(f) + len
           turn == [i \in 1..n |-> [s \in A |-> InflateTurn(s, len)]]
           Body(g) == [i \in 0..n |-> IF i = 0 THEN start ELSE InflateTurn(g[i - 1], len)]
           after == CHOOSE g : g = Body(g)
<1>1. p \in Nat /\ f \in Handles
    BY DEF FileInv, Handles
<1>2. n \in Nat
    BY UnreadIs
<1>3. start \in A
    <2>1. start.file = f /\ start.bytes = <<>> /\ Len(<<>>) = 0 /\ <<>> \in Seq(Cells)
        OBVIOUS
    <2>2. start \in [file : Handles, bytes : Seq(Cells)]
        BY <1>1, <2>1
    <2>3. start.file.posDecomp = p + Len(start.bytes)
        BY <1>1, <2>1
    <2>4. \A i \in 1..Len(start.bytes) : start.bytes[i] = Content(l, p + i)
        BY <2>1
    <2>. HIDE DEF start, p
    <2>5. TurnInv(l, p, start)
        BY <2>1, <2>2, <2>3, <2>4 DEF TurnInv
    <2>. QED BY <2>2, <2>5
<1>4. ASSUME NEW s \in A PROVE InflateTurn(s, len) \in A
    <2>1. TurnInv(l, p, s)
        OBVIOUS
    <2>2. TurnInv(l, p, InflateTurn(s, len))
        BY <1>1, <2>1, TurnKeeps
    <2>3. InflateTurn(s, len) \in [file : Handles, bytes : Seq(Cells)]
        BY <2>2 DEF TurnInv
    <2>. QED BY <2>2, <2>3
<1>5. Inflate(f, len) = after[n]
    BY DEF Inflate
<1>14. ASSUME NEW s \in A
       PROVE  Unread(s.file) \in Nat /\ Len(s.bytes) \in Nat /\ Owed(s, len) \in Int
    <2>1. FileInv(l, s.file) /\ s.bytes \in Seq(Cells)
        BY DEF TurnInv
    <2>2. Unread(s.file) \in Nat /\ Len(s.bytes) \in Nat
        BY <2>1, UnreadIs
    <2>. QED BY <2>2 DEF Owed
<1>. HIDE DEF A, start, n
<1>6. turn \in Turns(A, n)
    BY <1>4 DEF Turns
<1>7. PICK h \in Runs(A, start, n, turn) : TRUE
    <2>. HIDE DEF turn
    <2>. QED BY <1>2, <1>3, <1>6, LoopExists
<1>8. h \in [0..n -> A] /\ h[0] = start /\ \A i \in 1..n : h[i] = turn[i][h[i - 1]]
    BY <1>7 DEF Runs
<1>9. h = Body(h)
    <2>1. ASSUME NEW i \in 1..n PROVE h[i] = InflateTurn(h[i - 1], len)
        <3>1. i - 1 \in 0..n
            BY <1>2
        <3>2. h[i - 1] \in A
            BY <1>8, <3>1
        <3>. QED BY <1>8, <3>2
    <2>2. ASSUME NEW i \in 0..n PROVE h[i] = Body(h)[i]
        <3>1. CASE i = 0
            BY <1>8, <3>1
        <3>2. CASE i # 0
            <4>1. i \in 1..n
                BY <1>2, <3>2
            <4>. QED BY <2>1, <3>2, <4>1
        <3>. QED BY <3>1, <3>2
    <2>. QED BY <1>8, <2>2
<1>10. after = Body(after)
    BY <1>9
<1>. HIDE DEF after
\* Either the loop is over after i turns, or no more than n - i steps are left.
<1> DEFINE Ends(s, i) == Over(s, len) \/ Owed(s, len) <= n - i
           S == {i \in Nat : after[i] \in A /\ Ends(after[i], i)}
<1>11. 0 \in S
    <2>1. after[0] = start
        BY <1>2, <1>10
    <2>2. Owed(start, len) = n
        BY <1>2, UnreadIs DEF Owed, start, n
    <2>3. n <= n - 0
        BY <1>2
    <2>. QED BY <1>3, <2>1, <2>2, <2>3
<1>12. ASSUME NEW i \in 0..(n - 1), i \in S PROVE i + 1 \in S
    <2>1. i + 1 \in 0..n /\ i + 1 # 0 /\ (i + 1) - 1 = i /\ i + 1 \in Nat
        BY <1>2
    <2>2. after[i + 1] = InflateTurn(after[i], len)
        BY <1>10, <2>1
    <2>3. PICK s \in A : s = after[i] /\ Ends(s, i)
        BY <1>12
    <2>4. PICK t \in A : t = InflateTurn(s, len)
        BY <1>4
    <2>5. Ends(t, i + 1)
        <3>1. CASE Over(s, len)
            <4>1. t = s
                BY <2>4, <3>1 DEF Over, InflateTurn
            <4>. QED BY <3>1, <4>1
        <3>2. CASE ~Over(s, len)
            <4>1. TurnInv(l, p, s)
                BY DEF A
            <4>2. Owed(t, len) < Owed(s, len)
                BY <1>1, <2>4, <3>2, <4>1, TurnProgress
            <4>3. Owed(s, len) <= n - i
                BY <2>3, <3>2
            <4>4. Owed(s, len) \in Int /\ Owed(t, len) \in Int
                BY <1>14
            <4>5. Owed(t, len) <= n - (i + 1)
                BY <1>2, <4>2, <4>3, <4>4
            <4>. QED BY <4>5
        <3>. QED BY <3>1, <3>2
    <2>. HIDE DEF Ends
    <2>. QED BY <2>1, <2>2, <2>3, <2>4, <2>5
<1>13. after[n] \in A /\ Ends(after[n], n)
    <2>. HIDE DEF S, Ends
    <2>1. \A i \in 0..n : i \in S
        BY <1>2, <1>11, <1>12, BoundedInduction
    <2>2. n \in S
        BY <1>2, <2>1
    <2>. QED BY <2>2 DEF S
<1>15. Over(after[n], len)
    <2>. SUFFICES ASSUME ~Over(after[n], len) PROVE FALSE
        OBVIOUS
    <2>1. PICK s \in A : s = after[n]
        BY <1>13
    <2>2. PICK u \in Nat : u = Unread(s.file)
        BY <1>14
    <2>3. PICK q \in Nat : q = Len(s.bytes)
        BY <1>14
    <2>4. q < len /\ u # 0
        BY <2>1, <2>2, <2>3 DEF Over
    <2>5. u + len - q <= n - n
        BY <1>13, <2>1, <2>2, <2>3 DEF Owed
    <2>. QED BY <1>2, <2>4, <2>5
<1>. QED BY <1>5, <1>13, <1>15 DEF A

\* A file that is not compressed is copied, and is at its end when less is copied than
\* was asked for.
LEMMA CopiedIs ==
    ASSUME ImageInv, NEW l \in Files, l.size > 0, Compression(l) = "none",
           NEW f, FileInv(l, f), NEW len \in Nat
    PROVE  /\ TurnInv(l, f.posDecomp, Copied(f, len))
           /\ Len(Copied(f, len).bytes) < len => Copied(f, len).file.posDecomp = l.size
<1>1. /\ f \in Handles /\ f.posDecomp \in Nat /\ f.posStart \in Nat
      /\ f.posComp = f.posStart + f.posDecomp /\ f.posDecomp <= l.size
      /\ l.size \in Nat /\ DataLen(l) = l.size
    BY StoredLengths DEF FileInv, Handles, DataLen
<1>2. PICK u \in Nat : u = Unread(f) /\ u = l.size - f.posDecomp
    <2>1. Unread(f) = DataLen(l) - (f.posComp - f.posStart)
        BY FileIs
    <2>. QED BY <1>1, <2>1
<1>3. PICK n \in Nat : n = Min({len, Unread(f)}) /\ n <= len /\ n <= u /\ n \in {len, u}
    <2>1. len \in Int /\ u \in Int
        OBVIOUS
    <2>2. Min({len, u}) \in {len, u} /\ Min({len, u}) <= len /\ Min({len, u}) <= u
        BY <2>1, MinOfTwo
    <2>3. Min({len, u}) \in Nat
        BY <2>2
    <2>. QED BY <1>2, <2>2, <2>3
<1> DEFINE e == [f EXCEPT !.posDecomp = f.posDecomp + n, !.posComp = f.posComp + n]
           b == Bytes(f.posComp, n)
<1>4. Copied(f, len) = [file |-> e, bytes |-> b]
    BY <1>3 DEF Copied
<1>5. /\ e \in Handles /\ e.posDecomp = f.posDecomp + n /\ e.posComp = f.posComp + n
      /\ e.header = f.header /\ e.posStart = f.posStart /\ e.decompressor = f.decompressor
    <2>1. PICK q \in Nat : q = f.posDecomp + n
        BY <1>1
    <2>2. PICK c \in Nat : c = f.posComp + n
        BY <1>1
    <2>3. e = [f EXCEPT !.posDecomp = q, !.posComp = c]
        BY <2>1, <2>2
    <2>. HIDE DEF e
    <2>. QED BY <1>1, <2>1, <2>2, <2>3 DEF Handles
<1>. HIDE DEF e
<1>6. FileInv(l, e)
    <2>1. e.posDecomp <= l.size /\ e.posComp = e.posStart + e.posDecomp
        BY <1>1, <1>2, <1>3, <1>5
    <2>. QED BY <1>5, <2>1 DEF FileInv
<1>7. b \in Seq(Cells) /\ Len(b) = n /\ \A i \in 1..n : b[i] = Content(l, f.posDecomp + i)
    <2>1. ASSUME NEW i \in 1..n
          PROVE  /\ Cell(f.posComp + i - 1) = Content(l, f.posDecomp + i)
                 /\ Cell(f.posComp + i - 1) \in Cells
        <3>1. PICK j \in 1..DataLen(l) : j = f.posDecomp + i
            BY <1>1, <1>2, <1>3
        <3>2. f.posStart + j - 1 = f.posComp + i - 1 /\ j \in Nat
            BY <1>1, <3>1
        <3>3. Cell(f.posStart + j - 1) = DataCell(l, j)
            BY FileIs
        <3>4. DataCell(l, j) = Content(l, j) /\ Content(l, j) \in Cells
            BY <3>2 DEF DataCell, Content, Cells, DataCells, Paths
        <3>. QED BY <3>1, <3>2, <3>3, <3>4
    <2>2. b = [i \in 1..n |-> Cell(f.posComp + i - 1)]
        BY DEF Bytes
    <2>3. PICK p : p = f.posComp
        OBVIOUS
    <2>4. \A i \in 1..n : Cell(p + i - 1) = Content(l, f.posDecomp + i)
        BY <2>1, <2>3
    <2>5. \A i \in 1..n : Cell(p + i - 1) \in Cells
        BY <2>1, <2>3
    <2>6. b = [i \in 1..n |-> Cell(p + i - 1)]
        BY <2>2, <2>3
    <2>. HIDE DEF b
    <2>. QED BY <2>4, <2>5, <2>6
<1>. HIDE DEF b
<1>8. PICK t : t = Copied(f, len)
    OBVIOUS
<1>9. t.file = e /\ t.bytes = b /\ t \in [file : Handles, bytes : Seq(Cells)]
    BY <1>4, <1>5, <1>7, <1>8
<1>10. t.file.posDecomp = f.posDecomp + Len(t.bytes)
    BY <1>5, <1>7, <1>9
<1>11. \A i \in 1..Len(t.bytes) : t.bytes[i] = Content(l, f.posDecomp + i)
    BY <1>7, <1>9
<1>12. TurnInv(l, f.posDecomp, t)
    BY <1>6, <1>9, <1>10, <1>11, Zenon DEF TurnInv
<1>13. Len(t.bytes) < len => t.file.posDecomp = l.size
    <2>1. n < len => f.posDecomp + n = l.size
        BY <1>1, <1>2, <1>3
    <2>. QED BY <1>5, <1>7, <1>9, <2>1
<1>. QED BY <1>8, <1>12, <1>13

-----------------------------------------------------------------------------
(* The handle, step by step. *)

First(name) == listed[Min(Named(name))]

LEMMA FirstIs ==
    ASSUME ImageInv, NEW name, Named(name) # {}
    PROVE  Min(Named(name)) \in Named(name) /\ First(name) \in Files /\ First(name).size > 0
<1>1. listed \in Seq(Files)
    BY DEF ImageInv
<1>2. Named(name) = {i \in 1..Len(listed) : listed[i].size > 0 /\ listed[i].rel = name}
    BY DEF Named
<1> DEFINE H == Named(name)
<1>3. H \in SUBSET Nat
    BY <1>1, <1>2
<1>. HIDE DEF H
<1>4. PICK m \in H : \A j \in H : m <= j
    BY <1>3, LeastNumber DEF H
<1>5. Min(H) \in H
    BY <1>4 DEF Min
<1>6. PICK i \in 1..Len(listed) : i = Min(H) /\ listed[i].size > 0
    BY <1>2, <1>5 DEF H
<1>7. listed[i] \in Files
    BY <1>1
<1>. QED BY <1>5, <1>6, <1>7 DEF First, H

LEMMA FileStays ==
    ASSUME UNCHANGED <<options, tool>>, NEW l, NEW f, FileInv(l, f)
    PROVE  FileInv(l, f)'
<1>1. image' = image /\ compType' = compType
    BY DEF options, tool
<1>2. Extent(l)' = Extent(l) /\ Compression(l)' = Compression(l)
    BY <1>1 DEF Extent, DataLen, Compression
<1>3. ASSUME NEW k PROVE StoredCell(l, k)' = StoredCell(l, k) /\ DataCell(l, k)' = DataCell(l, k)
    BY <1>1 DEF StoredCell, HeaderCell, DataCell, DataLen, Compression
<1>4. \A q : BlockAt(q, l)' <=> BlockAt(q, l)
    BY <1>1, <1>2, <1>3 DEF BlockAt
<1>5. FedInv(l, f)' <=> FedInv(l, f)
    BY <1>3 DEF FedInv
<1>. QED BY <1>2, <1>4, <1>5 DEF FileInv

LEMMA HandleNext ==
    ASSUME UNCHANGED <<options, tool>>,
           NEW name, name = StripSlashes(asked'), NEW l, l = First(name), NEW f, f = fh',
           result' # "none" => finished,
           result' # "open" => f = NoFile,
           result' # "none" =>
               IF Named(name) = {} THEN result' = "absent"
               ELSE /\ result' \in {"open", "no memory", "invalid"}
                    /\ result' = "invalid" => ~EFS_HEATSHRINK /\ Compression(l) # "none",
           result' = "open" =>
               /\ Compression(l) = "none" \/ EFS_HEATSHRINK
               /\ FileInv(l, f)
               /\ out' = [i \in 1..f.posDecomp |-> Content(l, i)]
               /\ short' => IsRead(l, f)
    PROVE  HandleInv'
<1>1. /\ compType' = compType /\ EFS_HEATSHRINK' = EFS_HEATSHRINK
      /\ listed' = listed /\ finished' = finished
    BY DEF options, tool
<1>2. Named(StripSlashes(asked))' = Named(name)
    BY <1>1 DEF Named, StripSlashes
<1>3. AskedFor' = l
    <2>1. AskedFor' = listed'[Min(Named(StripSlashes(asked))')]
        BY DEF AskedFor, Min
    <2>. QED BY <1>1, <1>2, <2>1 DEF First
<1>4. Compression(AskedFor)' = Compression(l)
    BY <1>1, <1>3 DEF Compression
<1>5. result' = "open" => FileInv(AskedFor, fh)'
    <2>1. FileInv(l, f) => FileInv(l, f)'
        BY FileStays
    <2>2. FileInv(l, f)' => FileInv(AskedFor, fh)'
        BY <1>3 DEF FileInv, FedInv
    <2>. QED BY <2>1, <2>2
<1>6. IsRead(AskedFor, fh)' <=> IsRead(l, f)
    BY <1>1, <1>3, <1>4 DEF IsRead, DataLen
<1>. QED BY <1>1, <1>2, <1>3, <1>4, <1>5, <1>6 DEF HandleInv, Content

\* A file that is just opened.
LEMMA OpenedIs ==
    ASSUME ImageInv, NEW l \in Files, l.size > 0,
           NEW q \in Nat, q % 4 = 0, BlockAt(q, l)
    PROVE  FileInv(l, Opened(q)) /\ Opened(q).posDecomp = 0
<1> DEFINE f == Opened(q)
           content == q + sizeofHeader + NameLen(l)
<1>1. Cell(q) = HeaderCell(l)
    BY BlockIs
<1>2. /\ NameLen(l) \in Nat /\ sizeofHeader \in Nat /\ l.size \in Nat
      /\ Compression(l) \in {"none", "heatshrink"}
      /\ Compression(l) # "none" => l.csize \in Nat /\ l.csize > 1
    BY StoredLengths DEF sizeofHeader
<1>3. content \in Nat
    BY <1>2
<1>4. f = [header |-> q, decompressor |-> Compression(l),
           posComp |-> IF Compression(l) = "none" THEN content ELSE content + 1,
           posStart |-> content, posDecomp |-> 0, fed |-> <<>>]
    BY <1>1 DEF Opened, HeaderCell
<1>. HIDE DEF f, content
<1>5. /\ f.header = q /\ f.decompressor = Compression(l) /\ f.posStart = content
      /\ f.posComp = (IF Compression(l) = "none" THEN content ELSE content + 1)
      /\ f.posDecomp = 0 /\ f.fed = <<>>
    BY <1>4
<1>6. f \in Handles
    <2>1. content + 1 \in Nat /\ <<>> \in Seq(DataCells)
        BY <1>3
    <2>. QED BY <1>2, <1>3, <1>4, <2>1 DEF Handles
<1>7. Compression(l) # "none" => FedInv(l, f)
    <2>. SUFFICES ASSUME Compression(l) # "none" PROVE FedInv(l, f)
        OBVIOUS
    <2>1. Len(f.fed) = 0
        BY <1>5
    <2>2. f.posComp = f.posStart + 1 + 0
        BY <1>3, <1>5
    <2>3. 0 <= l.csize - 1
        BY <1>2
    <2>4. f.posDecomp <= PlainLen(l, 0)
        BY <1>5, PlainLenFacts
    <2>5. \A n \in 0..0 : 0 - n <= 16
        OBVIOUS
    <2>6. \A i \in 1..0 : f.fed[i] = DataCell(l, i + 1)
        OBVIOUS
    <2>. QED BY <2>1, <2>2, <2>3, <2>4, <2>5, <2>6 DEF FedInv
<1>8. Compression(l) = "none" => f.posComp = f.posStart + f.posDecomp
    BY <1>3, <1>5
<1>9. f.posDecomp <= l.size
    BY <1>2, <1>5
<1>10. FileInv(l, f)
    BY <1>5, <1>6, <1>7, <1>8, <1>9 DEF FileInv, content
<1>. QED BY <1>5, <1>10 DEF f

LEMMA OpenStep ==
    ASSUME ImageInv, HandleInv, NEW fileName \in Asked, espFsOpen(fileName)
    PROVE  HandleInv'
<1>1. PICK name : name = StripSlashes(fileName) /\ strlen(name) < sizeofNamebuf
    BY AskedAssumption
<1>2. PICK w : w = Find(name)
    OBVIOUS
<1>3. /\ finished /\ asked' = fileName
      /\ result' \in IF w.result # "found" THEN {w.result}
                     ELSE {"no memory",
                           IF Cell(w.header).compression = "none" \/ EFS_HEATSHRINK
                           THEN "open" ELSE "invalid"}
      /\ fh' = IF result' = "open" THEN Opened(w.header) ELSE NoFile
      /\ out' = <<>> /\ short' = FALSE /\ UNCHANGED <<options, tool>>
    BY <1>1, <1>2 DEF espFsOpen
<1>4. PICK at \in Starts : Placed(at)
    BY DEF ImageInv
<1>5. PICK f : f = fh'
    OBVIOUS
<1>6. PICK l : l = First(name)
    OBVIOUS
<1>7. name = StripSlashes(asked')
    BY <1>1, <1>3
<1>8. CASE Named(name) = {}
    <2>1. w.result = "absent"
        BY <1>1, <1>2, <1>3, <1>4, <1>8, FindIs
    <2>2. result' = "absent" /\ f = NoFile
        BY <1>3, <1>5, <2>1
    <2>. QED BY <1>3, <1>5, <1>6, <1>7, <1>8, <2>2, HandleNext
<1>9. CASE Named(name) # {}
    <2>1. Min(Named(name)) \in Named(name) /\ l \in Files /\ l.size > 0
        BY <1>6, <1>9, FirstIs
    <2>2. w = [result |-> "found", header |-> at[Min(Named(name))]]
        BY <1>1, <1>2, <1>3, <1>4, <1>9, FindIs
    <2>3. PICK n \in 1..Len(listed) : n = Min(Named(name)) /\ listed[n] = l
        BY <1>6, <2>1 DEF Named, First
    <2>4. PICK q \in Nat : q = at[n] /\ q % 4 = 0 /\ BlockAt(q, l)
        <3>1. n \in 1..(Len(listed) + 1) /\ listed \in Seq(Files)
            BY DEF ImageInv
        <3>2. at[n] \in Nat
            BY <1>4, <3>1 DEF Starts
        <3>3. at[n] % 4 = 0 /\ BlockAt(at[n], listed[n])
            BY <1>4 DEF Placed
        <3>. QED BY <2>3, <3>2, <3>3
    <2>5. w.result = "found" /\ w.header = q
        BY <2>2, <2>3, <2>4
    <2>6. Cell(q).compression = Compression(l)
        <3>1. Cell(q) = HeaderCell(l)
            BY <2>1, <2>4, BlockIs
        <3>. QED BY <3>1 DEF HeaderCell
    <2>7. FileInv(l, Opened(q)) /\ Opened(q).posDecomp = 0
        BY <2>1, <2>4, OpenedIs
    <2>8. CASE result' = "open"
        <3>1. Compression(l) = "none" \/ EFS_HEATSHRINK
            BY <1>3, <2>5, <2>6, <2>8
        <3>2. f = Opened(q)
            BY <1>3, <1>5, <2>5, <2>8
        <3>3. out' = [i \in 1..f.posDecomp |-> Content(l, i)]
            <4>1. f.posDecomp = 0
                BY <2>7, <3>2
            <4>2. [i \in 1..0 |-> Content(l, i)] = <<>>
                <5> DEFINE e == [i \in 1..0 |-> Content(l, i)]
                <5>1. e \in Seq({}) /\ Len(e) = 0
                    OBVIOUS
                <5>. HIDE DEF e
                <5>2. e = <<>>
                    BY <5>1
                <5>. QED BY <5>2 DEF e
            <4>. QED BY <1>3, <4>1, <4>2
        <3>4. FileInv(l, f)
            BY <2>7, <3>2
        <3>. QED BY <1>3, <1>5, <1>6, <1>7, <1>9, <2>8, <3>1, <3>3, <3>4, HandleNext
    <2>9. CASE result' # "open"
        <3>1. /\ result' \in {"no memory", "invalid"}
              /\ result' = "invalid" => ~EFS_HEATSHRINK /\ Compression(l) # "none"
            BY <1>3, <2>5, <2>6, <2>9
        <3>2. f = NoFile
            BY <1>3, <1>5, <2>9
        <3>. QED BY <1>3, <1>5, <1>6, <1>7, <1>9, <2>9, <3>1, <3>2, HandleNext
    <2>. QED BY <2>8, <2>9
<1>. QED BY <1>8, <1>9

\* What a read adds to what was read before.
LEMMA ReadAdds ==
    ASSUME NEW l \in Files, NEW p \in Nat, NEW s, TurnInv(l, p, s)
    PROVE  [i \in 1..p |-> Content(l, i)] \o s.bytes = [i \in 1..s.file.posDecomp |-> Content(l, i)]
<1> DEFINE before == [i \in 1..p |-> Content(l, i)]
           b == s.bytes
           q == Len(s.bytes)
           all == before \o b
<1>1. \A i \in Nat : Content(l, i) \in Cells
    BY DEF Content, Cells, DataCells, Paths
<1>2. before \in Seq(Cells) /\ Len(before) = p
    BY <1>1
<1>3. /\ b \in Seq(Cells) /\ q \in Nat /\ s.file.posDecomp = p + q
      /\ \A i \in 1..q : b[i] = Content(l, p + i)
    BY DEF TurnInv
<1>4. \A i \in 1..p : before[i] = Content(l, i)
    OBVIOUS
<1>. HIDE DEF before, b
<1>5. Joins(before, b)
    BY <1>2, <1>3, Joined
<1>6. /\ all \in Seq(Cells) /\ Len(all) = p + q
      /\ \A i \in 1..p : all[i] = before[i]
      /\ \A i \in 1..q : all[p + i] = b[i]
    BY <1>2, <1>3, <1>5 DEF Joins, b
<1>. HIDE DEF all, q
<1>7. ASSUME NEW i \in 1..(p + q) PROVE all[i] = Content(l, i)
    <2>1. CASE i \in 1..p
        BY <1>4, <1>6, <2>1
    <2>2. CASE i \notin 1..p
        <3>1. i - p \in 1..q /\ p + (i - p) = i
            BY <1>3, <2>2
        <3>2. all[p + (i - p)] = b[i - p] /\ b[i - p] = Content(l, p + (i - p))
            BY <1>3, <1>6, <3>1
        <3>. QED BY <3>1, <3>2
    <2>. QED BY <2>1, <2>2
<1>8. all = [i \in 1..(p + q) |-> Content(l, i)]
    <2>1. all = [i \in 1..(p + q) |-> all[i]]
        BY <1>6
    <2>. QED BY <1>7, <2>1
<1>. QED BY <1>3, <1>8 DEF all, before, b

LEMMA ReadStep ==
    ASSUME ImageInv, HandleInv, NEW len \in Lengths, espFsRead(len)
    PROVE  HandleInv'
<1>1. PICK name : name = StripSlashes(asked)
    OBVIOUS
<1>2. PICK l : l = First(name)
    OBVIOUS
<1>3. PICK g : g = fh
    OBVIOUS
<1>4. PICK r : r = IF g.decompressor = "none" THEN Copied(g, len) ELSE Inflate(g, len)
    OBVIOUS
<1>5. PICK f : f = fh'
    OBVIOUS
<1>6. /\ result = "open" /\ f = r.file /\ out' = out \o r.bytes
      /\ short' = (Len(r.bytes) < len)
      /\ UNCHANGED <<options, tool>> /\ asked' = asked /\ result' = "open"
    BY <1>3, <1>4, <1>5 DEF espFsRead
<1>7. AskedFor = l
    BY <1>1, <1>2 DEF AskedFor, First
<1>8. /\ finished /\ Named(name) # {}
      /\ Compression(l) = "none" \/ EFS_HEATSHRINK
      /\ FileInv(l, g)
      /\ out = [i \in 1..g.posDecomp |-> Content(l, i)]
    BY <1>1, <1>3, <1>6, <1>7 DEF HandleInv
<1>9. l \in Files /\ l.size > 0
    BY <1>2, <1>8, FirstIs
<1>10. len \in Nat /\ g.posDecomp \in Nat /\ g.decompressor = Compression(l)
    BY <1>8, LengthsAssumption DEF FileInv, Handles
<1>11. /\ TurnInv(l, g.posDecomp, r)
       /\ Len(r.bytes) < len => IsRead(l, r.file)
    <2>1. CASE Compression(l) = "none"
        <3>1. r = Copied(g, len)
            BY <1>4, <1>10, <2>1
        <3>2. /\ TurnInv(l, g.posDecomp, r)
              /\ Len(r.bytes) < len => r.file.posDecomp = l.size
            BY <1>8, <1>9, <1>10, <2>1, <3>1, CopiedIs
        <3>3. r.file.posComp = r.file.posStart + r.file.posDecomp
            BY <2>1, <3>2 DEF TurnInv, FileInv
        <3>. QED BY <2>1, <3>2, <3>3 DEF IsRead, DataLen
    <2>2. CASE Compression(l) # "none"
        <3>1. r = Inflate(g, len)
            BY <1>4, <1>10, <2>2
        <3>2. TurnInv(l, g.posDecomp, r) /\ Over(r, len)
            BY <1>8, <1>9, <1>10, <2>2, <3>1, InflateIs
        <3>3. FileInv(l, r.file)
            BY <3>2 DEF TurnInv
        <3>4. PICK h : h = r.file
            OBVIOUS
        <3>5. /\ Unread(h) = DataLen(l) - (h.posComp - h.posStart)
              /\ h.posComp \in Nat /\ h.posStart \in Nat /\ DataLen(l) \in Nat
            BY <1>9, <3>3, <3>4, FileIs, StoredLengths DEF FileInv, Handles, DataLen
        <3>6. Unread(h) = 0 => IsRead(l, h)
            BY <3>5 DEF IsRead
        <3>7. Len(r.bytes) \in Nat
            BY <3>2 DEF TurnInv
        <3>. QED BY <1>10, <3>2, <3>4, <3>6, <3>7 DEF Over
    <2>. QED BY <2>1, <2>2
<1>12. FileInv(l, f)
    BY <1>6, <1>11 DEF TurnInv
<1>13. out' = [i \in 1..f.posDecomp |-> Content(l, i)]
    <2>1. [i \in 1..g.posDecomp |-> Content(l, i)] \o r.bytes
              = [i \in 1..r.file.posDecomp |-> Content(l, i)]
        BY <1>9, <1>10, <1>11, ReadAdds
    <2>. QED BY <1>6, <1>8, <2>1
<1>14. short' => IsRead(l, f)
    BY <1>6, <1>11
<1>15. name = StripSlashes(asked')
    BY <1>1, <1>6
<1>. QED BY <1>2, <1>5, <1>6, <1>8, <1>12, <1>13, <1>14, <1>15, HandleNext

LEMMA HandleStep == ImageInv /\ HandleInv /\ [Next]_vars => HandleInv'
<1>. SUFFICES ASSUME ImageInv, HandleInv, [Next]_vars PROVE HandleInv'
    OBVIOUS
<1>1. ASSUME NEW l \in Files, handleFile(l) PROVE HandleInv'
    <2>1. ~finished /\ UNCHANGED handle
        BY <1>1 DEF handleFile
    <2>. QED BY <2>1 DEF HandleInv, handle, NoFile
<1>2. ASSUME finishArchive PROVE HandleInv'
    <2>1. ~finished /\ UNCHANGED handle
        BY <1>2 DEF finishArchive
    <2>. QED BY <2>1 DEF HandleInv, handle, NoFile
<1>3. ASSUME NEW fileName \in Asked, espFsOpen(fileName) PROVE HandleInv'
    BY <1>3, OpenStep
<1>4. ASSUME NEW len \in Lengths, espFsRead(len) PROVE HandleInv'
    BY <1>4, ReadStep
<1>5. ASSUME espFsClose PROVE HandleInv'
    BY <1>5 DEF espFsClose, HandleInv, NoFile
<1>6. ASSUME UNCHANGED vars PROVE HandleInv'
    <2>1. PICK name : name = StripSlashes(asked)
        OBVIOUS
    <2>2. PICK l : l = First(name)
        OBVIOUS
    <2>3. PICK f : f = fh
        OBVIOUS
    <2>4. /\ UNCHANGED <<options, tool>> /\ asked' = asked /\ result' = result /\ fh' = f
          /\ out' = out /\ short' = short
        BY <1>6, <2>3 DEF vars, handle
    <2>5. AskedFor = l
        BY <2>1, <2>2 DEF AskedFor, First
    <2>6. /\ result # "none" => finished
          /\ result # "open" => f = NoFile
          /\ result # "none" =>
                 IF Named(name) = {} THEN result = "absent"
                 ELSE /\ result \in {"open", "no memory", "invalid"}
                      /\ result = "invalid" => ~EFS_HEATSHRINK /\ Compression(l) # "none"
          /\ result = "open" =>
                 /\ Compression(l) = "none" \/ EFS_HEATSHRINK
                 /\ FileInv(l, f)
                 /\ out = [i \in 1..f.posDecomp |-> Content(l, i)]
                 /\ short => IsRead(l, f)
        BY <2>1, <2>3, <2>5 DEF HandleInv
    <2>. QED BY <2>1, <2>2, <2>4, <2>6, HandleNext
<1>. QED BY <1>1, <1>2, <1>3, <1>4, <1>5, <1>6 DEF Next

-----------------------------------------------------------------------------
(* What the tool and the reader promise. *)

EspFsInv == ImageInv /\ HandleInv

LEMMA EspFsInvInductive == Spec => []EspFsInv
<1>1. Init => EspFsInv
    <2>. SUFFICES ASSUME Init PROVE HandleInv
        BY ImageInit DEF EspFsInv
    <2>. QED BY DEF Init, HandleInv
<1>2. EspFsInv /\ [Next]_vars => EspFsInv'
    BY ImageStep, HandleStep DEF EspFsInv
<1>. QED BY <1>1, <1>2, PTL DEF Spec

\* In every image, of whatever files, headers, names and data begin at a multiple of
\* four, and so does what the reader comes to.
THEOREM ImageIsAligned == Spec => []IsAligned
<1>1. EspFsInv => IsAligned
    <2>. SUFFICES ASSUME ImageInv, HandleInv PROVE IsAligned
        BY DEF EspFsInv
    <2>1. ASSUME NEW p \in 0..(Len(image) - 1)
          PROVE  image[p + 1].is \in {"header", "name"}
                 \/ (image[p + 1].is = "data" /\ image[p + 1].at = 1) => p % 4 = 0
        <3>1. p + 1 \in 1..Len(image) /\ (p + 1) - 1 = p
            <4>1. Len(image) \in Nat
                BY DEF ImageInv
            <4>. QED BY <4>1
        <3>2. CellInv(p + 1)
            BY <3>1 DEF ImageInv
        <3>. QED BY <3>1, <3>2 DEF CellInv
    <2>2. fh.header % 4 = 0 /\ fh.posStart % 4 = 0
        <3>1. CASE result = "open"
            <4>1. PICK name : name = StripSlashes(asked) /\ Named(name) # {}
                BY <3>1 DEF HandleInv
            <4>2. PICK l \in Files : l = AskedFor /\ l.size > 0
                BY <4>1, FirstIs DEF AskedFor, First
            <4>3. FileInv(l, fh)
                BY <3>1, <4>2 DEF HandleInv
            <4>4. PICK q \in Nat : q = fh.header /\ q % 4 = 0
                BY <4>3 DEF FileInv, Handles
            <4>5. fh.posStart = q + 16 + NameLen(l)
                BY <4>3, <4>4 DEF FileInv, sizeofHeader
            <4>6. PICK n \in Nat : n = NameLen(l) /\ n % 4 = 0
                BY <4>2, StoredLengths
            <4>7. (q + 16 + n) % 4 = 0
                BY <4>4, <4>6
            <4>. QED BY <4>4, <4>5, <4>6, <4>7
        <3>2. CASE result # "open"
            <4>9. fh = NoFile
                BY <3>2 DEF HandleInv
            <4>1. fh.header = 0 /\ fh.posStart = 0
                BY <4>9 DEF NoFile
            <4>2. 0 % 4 = 0
                OBVIOUS
            <4>. QED BY <4>1, <4>2
        <3>. QED BY <3>1, <3>2
    <2>. QED BY <2>1, <2>2 DEF IsAligned
<1>. QED BY <1>1, EspFsInvInductive, PTL

\* Whatever names that namebuf holds are asked for of whatever tree, with longer names
\* in it or not, the file that is opened is the first of that name, and the walk comes
\* to an end.
THEOREM OpenIsRight == Spec => []OpenFindsFirst
<1>1. EspFsInv => OpenFindsFirst
    <2>. SUFFICES ASSUME ImageInv, HandleInv PROVE OpenFindsFirst
        BY DEF EspFsInv
    <2>1. PICK name : name = StripSlashes(asked)
        OBVIOUS
    <2>2. PICK l : l = AskedFor
        OBVIOUS
    <2>3. ASSUME result = "open"
          PROVE  /\ Named(name) # {}
                 /\ Cell(fh.header).fileLenDecomp = l.size
                 /\ Cell(fh.posStart).of = l.path
                 /\ Compression(l) = "none" \/ EFS_HEATSHRINK
        <3>1. /\ Named(name) # {} /\ FileInv(l, fh)
              /\ Compression(l) = "none" \/ EFS_HEATSHRINK
            BY <2>1, <2>2, <2>3 DEF HandleInv
        <3>2. l \in Files /\ l.size > 0
            BY <2>1, <2>2, <3>1, FirstIs DEF AskedFor, First
        <3>3. /\ Cell(fh.header) = HeaderCell(l)
              /\ \A i \in 1..DataLen(l) : Cell(fh.posStart + i - 1) = DataCell(l, i)
            BY <3>1, <3>2, FileIs
        <3>4. 1 \in 1..DataLen(l)
            BY <3>2, StoredLengths
        <3>5. Cell(fh.posStart + 1 - 1) = DataCell(l, 1)
            BY <3>3, <3>4
        <3>6. fh.posStart + 1 - 1 = fh.posStart
            BY <3>1 DEF FileInv, Handles
        <3>. QED BY <3>1, <3>3, <3>5, <3>6 DEF HeaderCell, DataCell
    <2>4. result # "none" =>
              IF Named(name) = {} THEN result = "absent"
              ELSE /\ result \in {"open", "no memory", "invalid"}
                   /\ result = "invalid" => ~EFS_HEATSHRINK /\ Compression(l) # "none"
        BY <2>1, <2>2 DEF HandleInv
    <2>. QED BY <2>1, <2>2, <2>3, <2>4 DEF OpenFindsFirst
<1>. QED BY <1>1, EspFsInvInductive, PTL

\* Reads of any lengths give the bytes of the file from the first on, in order and none
\* twice, of a compressed file too, and a read is short only if nothing of the stored
\* file is left.
THEOREM ReadsAreRight == Spec => []ReadsAreContent
<1>1. EspFsInv => ReadsAreContent
    <2>. SUFFICES ASSUME ImageInv, HandleInv, result = "open" PROVE ReadsAreContent
        BY DEF EspFsInv, ReadsAreContent
    <2>1. PICK l : l = AskedFor
        OBVIOUS
    <2>2. /\ FileInv(l, fh)
          /\ out = [i \in 1..fh.posDecomp |-> Content(l, i)]
          /\ short => IsRead(l, fh)
        BY <2>1 DEF HandleInv
    <2>3. PICK p \in Nat : p = fh.posDecomp /\ p <= l.size
        BY <2>2 DEF FileInv, Handles
    <2>4. Len(out) = p /\ \A i \in 1..p : out[i] = Content(l, i)
        BY <2>2, <2>3
    <2>5. /\ l \in Files /\ l.size > 0
          /\ Unread(fh) = DataLen(l) - (fh.posComp - fh.posStart)
          /\ fh.posStart \in Nat /\ l.size \in Nat /\ DataLen(l) \in Nat
          /\ fh.decompressor = Compression(l)
          /\ Compression(l) = "none" => fh.posComp = fh.posStart + fh.posDecomp
        <3>1. PICK name : name = StripSlashes(asked) /\ Named(name) # {} /\ l = First(name)
            BY <2>1 DEF HandleInv, AskedFor, First
        <3>2. l \in Files /\ l.size > 0
            BY <3>1, FirstIs
        <3>. QED BY <2>2, <3>2, FileIs, StoredLengths DEF FileInv, Handles
    <2>6. short => Unread(fh) = 0
        BY <2>2, <2>5 DEF IsRead
    <2>7. short /\ fh.decompressor = "none" => p = l.size
        BY <2>2, <2>3, <2>5 DEF IsRead, DataLen
    <2>. QED BY <2>1, <2>2, <2>3, <2>4, <2>6, <2>7 DEF ReadsAreContent, Content
<1>. QED BY <1>1, EspFsInvInductive, PTL

\* The loop of espFsRead over the decoder comes to an end, for it has delivered len bytes
\* or fed the file to the last byte: no turn is wasted, however little the decoder has
\* room for or gives.
THEOREM InflateEnds ==
    ASSUME EspFsInv, result = "open", Compression(AskedFor) # "none", NEW len \in Nat
    PROVE  LET r == Inflate(fh, len)
           IN  Len(r.bytes) >= len \/ Unread(r.file) = 0
<1>1. PICK l : l = AskedFor
    OBVIOUS
<1>2. ImageInv /\ FileInv(l, fh) /\ Named(StripSlashes(asked)) # {}
    BY <1>1 DEF EspFsInv, HandleInv
<1>3. l \in Files /\ l.size > 0
    BY <1>1, <1>2, FirstIs DEF AskedFor, First
<1>4. Over(Inflate(fh, len), len)
    BY <1>1, <1>2, <1>3, InflateIs
<1>. QED BY <1>4 DEF Over

=============================================================================
