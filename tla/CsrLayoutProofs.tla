--------------------------- MODULE CsrLayoutProofs ---------------------------
(* What a memory map answers is consistent, whatever its resources and its     *)
(* windows, and in whatever order they are added; and the registers of a       *)
(* builder, and the chunks of a shadow, are where they are looked for.         *)
EXTENDS CsrLayout, SequenceTheorems, FiniteSetTheorems, WellFoundedInduction, TLAPS

Name  == Seq(STRING)
Items == DOMAIN Resources \cup DOMAIN Windows \cup DOMAIN Registers
Key   == [start : Nat, stop : Nat, step : Nat \ {0}, item : Items, name : Name]

TypeInv == keys \in Seq(Key) /\ names \in SUBSET Name /\ next_addr \in Nat

\* The ranges are in ascending order and do not overlap.
Ordered ==
  /\ \A i \in DOMAIN keys : keys[i].start < keys[i].stop
  /\ \A i, j \in DOMAIN keys : i < j => keys[i].stop <= keys[j].start

\* A window covers all addresses of its map.
WindowOf(key) ==
  /\ key.name = Windows[key.item].name
  /\ key.step = Windows[key.item].ratio
  /\ 2^Windows[key.item].addr_width \div key.step <= key.stop - key.start

\* The names under which an item is known.
NamesOf(key) == IF IsResource(key) THEN {key.name} ELSE Queries(key.item)

Apart(m, n) == ~IsPrefix(m, n) /\ ~IsPrefix(n, m)

Placed ==
  /\ \A i \in DOMAIN keys :
       /\ ~IsResource(keys[i]) => WindowOf(keys[i])
       /\ NamesOf(keys[i]) \subseteq names
  /\ \A i, j \in DOMAIN keys : i # j =>
       /\ keys[i].item # keys[j].item
       /\ \A m \in NamesOf(keys[i]), n \in NamesOf(keys[j]) : Apart(m, n)

IInv == TypeInv /\ Ordered /\ Placed

-----------------------------------------------------------------------------
(* Counting and sequences.                                                     *)

\* The lowest positions are counted: bisecting is counting.
LEMMA Lowest ==
  ASSUME NEW n \in Nat, NEW D \in SUBSET (1 .. n), \A i \in D : 1 .. i \subseteq D
  PROVE  Cardinality(D) \in 0 .. n /\ D = 1 .. Cardinality(D)
<1>1. IsFiniteSet(1 .. n) /\ \A k \in 0 .. n : IsFiniteSet(1 .. k) /\ Cardinality(1 .. k) = k
  BY FS_Interval
<1>2. IsFiniteSet(D) /\ Cardinality(D) \in Nat
  BY <1>1, FS_Subset, FS_CardinalityType
<1>3. ASSUME NEW i \in D PROVE i <= Cardinality(D)
  <2>1. Cardinality(1 .. i) = i /\ Cardinality(1 .. i) <= Cardinality(D)
    BY <1>1, <1>2, FS_Subset
  <2>2. QED  BY <2>1
<1>4. ASSUME NEW i \in 1 .. n, i \notin D PROVE Cardinality(D) < i
  <2>1. D \subseteq 1 .. i - 1
    <3>1. ASSUME NEW j \in D PROVE j < i
      <4>1. j \in 1 .. n /\ (i <= j => i \in 1 .. j)
        OBVIOUS
      <4>2. QED  BY <4>1, <1>4
    <3>2. QED  BY <3>1
  <2>2. Cardinality(D) <= Cardinality(1 .. i - 1)
    <3>1. i - 1 \in 0 .. n
      OBVIOUS
    <3>2. IsFiniteSet(1 .. i - 1) /\ Cardinality(1 .. i - 1) = i - 1
      BY <1>1, <3>1
    <3>3. QED  BY <2>1, <3>2, FS_Subset
  <2>3. QED  BY <2>2, <1>1, <1>2
<1>5. Cardinality(D) <= n
  <2>1. IsFiniteSet(1 .. n) /\ Cardinality(1 .. n) = n
    BY <1>1
  <2>2. QED  BY <2>1, FS_Subset
<1> DEFINE c == Cardinality(D)
<1>6. c \in 0 .. n /\ \A i \in 1 .. n : i \in D <=> i <= c
  BY <1>2, <1>3, <1>4, <1>5
<1> HIDE DEF c
<1>7. D = 1 .. c
  <2>1. \A i \in 1 .. c : i \in D
    BY <1>6
  <2>2. \A i \in D : i \in 1 .. c
    BY <1>6
  <2>3. QED  BY <2>1, <2>2
<1>8. QED  BY <1>6, <1>7 DEF c

\* Insertion moves what comes after.
LEMMA Inserted ==
  ASSUME NEW S, NEW s \in Seq(S), NEW e \in S, NEW p \in 0 .. Len(s),
         NEW t, t = InsertAt(s, p + 1, e)
  PROVE  /\ t \in Seq(S) /\ Len(t) = Len(s) + 1
         /\ t[p + 1] = e
         /\ \A i \in 1 .. p : t[i] = s[i]
         /\ \A i \in 1 .. Len(s) + 1 : i > p + 1 => t[i] = s[i - 1]
<1> DEFINE low == SubSeq(s, 1, p)
           high == SubSeq(s, p + 1, Len(s))
<1>1. Len(s) \in Nat /\ p \in Nat /\ p <= Len(s) /\ \A i \in 1 .. Len(s) : s[i] \in S
  BY LenProperties, ElementOfSeq
<1>2. low \in Seq(S) /\ Len(low) = p /\ \A i \in 1 .. p : low[i] = s[i]
  BY <1>1, SubSeqProperties
<1>3. high \in Seq(S) /\ Len(high) = Len(s) - p
      /\ \A i \in 1 .. Len(s) - p : high[i] = s[p + i]
  <2>1. \A i \in p + 1 .. Len(s) : s[i] \in S
    BY <1>1
  <2>2. /\ high \in Seq(S)
        /\ Len(high) = IF p + 1 <= Len(s) THEN Len(s) - (p + 1) + 1 ELSE 0
        /\ \A i \in 1 .. Len(s) - (p + 1) + 1 : high[i] = s[(p + 1) + i - 1]
    BY <1>1, <2>1, SubSeqProperties
  <2>3. Len(s) - (p + 1) + 1 = Len(s) - p /\ \A i \in Int : (p + 1) + i - 1 = p + i
    BY <1>1
  <2> HIDE DEF high
  <2>4. Len(high) = Len(s) - p
    BY <1>1, <2>2
  <2>5. ASSUME NEW i \in 1 .. Len(s) - p PROVE high[i] = s[p + i]
    <3>1. i \in 1 .. Len(s) - (p + 1) + 1 /\ (p + 1) + i - 1 = p + i
      BY <2>3
    <3>2. QED  BY <2>2, <3>1
  <2>6. QED  BY <2>2, <2>4, <2>5
<1> HIDE DEF low, high
<1>4. t = low \o <<e>> \o high
  <2>1. (p + 1) - 1 = p
    BY <1>1
  <2>2. t = SubSeq(s, 1, (p + 1) - 1) \o <<e>> \o SubSeq(s, p + 1, Len(s))
    BY Zenon DEF InsertAt
  <2>3. QED  BY <2>1, <2>2, Zenon DEF low, high
<1>5. <<e>> \in Seq(S) /\ Len(<<e>>) = 1 /\ <<e>>[1] = e
  OBVIOUS
<1> DEFINE u == low \o <<e>>
<1>6. /\ u \in Seq(S) /\ Len(u) = p + 1 /\ u[p + 1] = e
      /\ \A i \in 1 .. p : u[i] = s[i]
  <2>1. /\ u \in Seq(S) /\ Len(u) = Len(low) + Len(<<e>>)
        /\ \A i \in 1 .. Len(low) + Len(<<e>>) :
             u[i] = IF i <= Len(low) THEN low[i] ELSE <<e>>[i - Len(low)]
    BY <1>2, <1>5, ConcatProperties
  <2> HIDE DEF u
  <2>2. Len(u) = p + 1 /\ \A i \in 1 .. p + 1 : u[i] = IF i <= p THEN low[i] ELSE <<e>>[i - p]
    BY <1>2, <1>5, <2>1
  <2>3. p + 1 \in 1 .. p + 1 /\ ~(p + 1 <= p) /\ p + 1 - p = 1
    BY <1>1
  <2>4. u[p + 1] = e
    BY <1>5, <2>2, <2>3
  <2>5. \A i \in 1 .. p : u[i] = s[i]
    BY <1>1, <1>2, <2>2
  <2>6. QED  BY <2>1, <2>2, <2>4, <2>5
<1> HIDE DEF u
<1>7. /\ t \in Seq(S) /\ Len(t) = Len(s) + 1
      /\ \A i \in 1 .. p + 1 : t[i] = u[i]
      /\ \A i \in 1 .. Len(s) + 1 : i > p + 1 => t[i] = s[i - 1]
  <2>1. t = u \o high
    BY <1>4 DEF u
  <2>2. t \in Seq(S) /\ Len(t) = Len(u) + Len(high)
        /\ \A i \in 1 .. Len(u) + Len(high) :
             t[i] = IF i <= Len(u) THEN u[i] ELSE high[i - Len(u)]
    <3>1. u \in Seq(S) /\ high \in Seq(S)
      BY <1>3, <1>6
    <3>2. QED  BY <2>1, <3>1, ConcatProperties
  <2>3. ASSUME NEW i \in 1 .. Len(s) + 1, i > p + 1 PROVE t[i] = s[i - 1]
    <3>0. i \in 1 .. Len(u) + Len(high) /\ ~(i <= Len(u))
      BY <1>1, <1>3, <1>6, <2>3
    <3>1. t[i] = high[i - (p + 1)]
      BY <1>6, <2>2, <3>0
    <3>2. i - (p + 1) \in 1 .. Len(s) - p /\ p + (i - (p + 1)) = i - 1
      BY <1>1, <2>3
    <3>3. QED  BY <1>3, <3>1, <3>2
  <2>4. Len(t) = Len(s) + 1
    BY <1>1, <1>3, <1>6, <2>2
  <2>5. \A i \in 1 .. p + 1 : t[i] = u[i]
    <3>1. \A i \in 1 .. p + 1 : i \in 1 .. Len(u) + Len(high) /\ i <= Len(u)
      BY <1>1, <1>3, <1>6
    <3>2. QED  BY <2>2, <3>1
  <2>6. QED  BY <2>2, <2>3, <2>4, <2>5
<1>8. \A i \in 1 .. p : t[i] = s[i] /\ t[p + 1] = e
  BY <1>1, <1>6, <1>7
<1>9. t[p + 1] = e
  BY <1>1, <1>6, <1>7
<1>10. QED  BY <1>7, <1>8, <1>9

-----------------------------------------------------------------------------
(* The ranges in ascending order.                                              *)

\* Counting the starts and the stops below a point finds its place.
LEMMA Bisected ==
  ASSUME TypeInv, Ordered, NEW point \in Nat
  PROVE  /\ StopsUpTo(point) \in 0 .. Len(keys)
         /\ \A i \in DOMAIN keys : keys[i].stop <= point <=> i <= StopsUpTo(point)
         /\ StartsUpTo(point) \in 0 .. Len(keys)
         /\ \A i \in DOMAIN keys : keys[i].start <= point <=> i <= StartsUpTo(point)
<1> DEFINE stops == {i \in DOMAIN keys : keys[i].stop <= point}
           starts == {i \in DOMAIN keys : keys[i].start <= point}
<1>1. DOMAIN keys = 1 .. Len(keys) /\ Len(keys) \in Nat
      /\ \A i \in 1 .. Len(keys) : keys[i].start \in Nat /\ keys[i].stop \in Nat
  <2>1. \A k \in Key : k.start \in Nat /\ k.stop \in Nat
    BY DEF Key
  <2>2. QED  BY <2>1, ElementOfSeq, LenProperties DEF TypeInv
<1>2. stops \in SUBSET (1 .. Len(keys)) /\ starts \in SUBSET (1 .. Len(keys))
  BY <1>1
<1>3. \A i \in stops : 1 .. i \subseteq stops
  <2> SUFFICES ASSUME NEW i \in stops, NEW j \in 1 .. i PROVE j \in stops
    OBVIOUS
  <2>1. i \in 1 .. Len(keys) /\ j \in 1 .. Len(keys) /\ (j = i \/ j < i)
    BY <1>1
  <2>2. j < i => keys[j].stop <= keys[i].start /\ keys[i].start < keys[i].stop
    BY <1>1, <2>1 DEF Ordered
  <2>3. QED  BY <1>1, <2>1, <2>2
<1>4. \A i \in starts : 1 .. i \subseteq starts
  <2> SUFFICES ASSUME NEW i \in starts, NEW j \in 1 .. i PROVE j \in starts
    OBVIOUS
  <2>1. i \in 1 .. Len(keys) /\ j \in 1 .. Len(keys) /\ (j = i \/ j < i)
    BY <1>1
  <2>2. j < i => keys[j].stop <= keys[i].start /\ keys[j].start < keys[j].stop
    BY <1>1, <2>1 DEF Ordered
  <2>3. QED  BY <1>1, <2>1, <2>2
<1>5. StopsUpTo(point) = Cardinality(stops) /\ StartsUpTo(point) = Cardinality(starts)
  BY DEF StopsUpTo, StartsUpTo
<1>6. \A i \in DOMAIN keys :
        (i \in stops <=> keys[i].stop <= point) /\ (i \in starts <=> keys[i].start <= point)
  OBVIOUS
<1> HIDE DEF stops, starts
<1>7. /\ Cardinality(stops) \in 0 .. Len(keys) /\ stops = 1 .. Cardinality(stops)
      /\ Cardinality(starts) \in 0 .. Len(keys) /\ starts = 1 .. Cardinality(starts)
  BY <1>1, <1>2, <1>3, <1>4, Lowest
<1>8. \A i \in 1 .. Len(keys) : (i \in stops <=> i <= Cardinality(stops))
                                /\ (i \in starts <=> i <= Cardinality(starts))
  BY <1>7
<1>9. QED  BY <1>1, <1>5, <1>6, <1>7, <1>8

\* A range that is accepted is free.
LEMMA Free ==
  ASSUME TypeInv, Ordered, NEW range, range.start \in Nat, range.stop \in Nat,
         range.start < range.stop, ~Overlaps(range)
  PROVE  \A i \in DOMAIN keys :
           keys[i].stop <= range.start \/ range.stop <= keys[i].start
<1> DEFINE below == {i \in DOMAIN keys : keys[i].stop <= range.start}
           begun == {i \in DOMAIN keys : keys[i].start < range.stop}
<1>1. DOMAIN keys = 1 .. Len(keys) /\ Len(keys) \in Nat
      /\ \A i \in 1 .. Len(keys) : keys[i].start \in Nat /\ keys[i].stop \in Nat
  <2>1. \A k \in Key : k.start \in Nat /\ k.stop \in Nat
    BY DEF Key
  <2>2. QED  BY <2>1, ElementOfSeq, LenProperties DEF TypeInv
<1>2. below \subseteq begun /\ begun \subseteq 1 .. Len(keys)
  BY <1>1 DEF Ordered
<1>3. ~(Cardinality(below) < Cardinality(begun))
  BY DEF Overlaps, StopsUpTo, StartsBefore
<1>4. \A i \in DOMAIN keys : begun = below => i \in below \/ ~(i \in begun)
  OBVIOUS
<1> HIDE DEF below, begun
<1>5. IsFiniteSet(1 .. Len(keys))
  BY <1>1, FS_Interval
<1>6. IsFiniteSet(begun)
  BY <1>2, <1>5, FS_Subset
<1>7. IsFiniteSet(below) /\ Cardinality(below) <= Cardinality(begun)
      /\ (Cardinality(begun) = Cardinality(below) => begun = below)
  BY <1>2, <1>6, FS_Subset
<1>8. Cardinality(below) \in Nat /\ Cardinality(begun) \in Nat
  BY <1>6, <1>7, FS_CardinalityType
<1>9. begun = below
  BY <1>3, <1>7, <1>8
<1>10. QED  BY <1>1, <1>4, <1>9 DEF below, begun

\* Get finds the key whose range has the point.
LEMMA Found ==
  ASSUME TypeInv, Ordered, NEW point \in Nat
  PROVE  \A key : key \in Get(point) <=>
           \E i \in DOMAIN keys : /\ key = keys[i]
                                  /\ keys[i].start <= point /\ point < keys[i].stop
<1> DEFINE n == StopsUpTo(point) + 1
<1>1. DOMAIN keys = 1 .. Len(keys) /\ Len(keys) \in Nat
      /\ \A i \in 1 .. Len(keys) : keys[i].start \in Nat /\ keys[i].stop \in Nat
  <2>1. \A k \in Key : k.start \in Nat /\ k.stop \in Nat
    BY DEF Key
  <2>2. QED  BY <2>1, ElementOfSeq, LenProperties DEF TypeInv
<1>2. StopsUpTo(point) \in 0 .. Len(keys)
      /\ \A i \in DOMAIN keys : keys[i].stop <= point <=> i <= StopsUpTo(point)
  BY Bisected
<1>3. n \in 1 .. Len(keys) + 1 /\ \A i \in 1 .. Len(keys) : point < keys[i].stop <=> n <= i
  BY <1>1, <1>2
<1>4. Get(point) = IF n <= Len(keys) /\ point >= keys[n].start THEN {keys[n]} ELSE {}
  BY DEF Get
<1> HIDE DEF n
<1>5. ASSUME NEW i \in DOMAIN keys, keys[i].start <= point, point < keys[i].stop
      PROVE  i = n /\ keys[i] \in Get(point)
  <2>1. i \in 1 .. Len(keys) /\ n <= i /\ n \in 1 .. Len(keys)
    BY <1>1, <1>3, <1>5
  <2>2. point < keys[n].stop
    BY <1>3, <2>1
  <2>3. n < i => keys[n].stop <= keys[i].start
    BY <1>1, <2>1 DEF Ordered
  <2>4. i = n
    BY <1>1, <1>5, <2>1, <2>2, <2>3
  <2>5. QED  BY <1>1, <1>4, <1>5, <2>1, <2>4
<1>6. ASSUME NEW key \in Get(point)
      PROVE  n \in DOMAIN keys /\ key = keys[n] /\ keys[n].start <= point /\ point < keys[n].stop
  <2>1. n <= Len(keys) /\ point >= keys[n].start /\ key = keys[n]
    BY <1>4
  <2>2. n \in 1 .. Len(keys)
    BY <1>1, <1>3, <2>1
  <2>3. QED  BY <1>1, <1>3, <2>1, <2>2
<1>7. QED  BY <1>5, <1>6

-----------------------------------------------------------------------------
(* The calls.                                                                  *)

\* What was there before a key was inserted, and where it is now.
LEMMA InsertKeys ==
  ASSUME TypeInv, Ordered, NEW key \in Key, Insert(key)
  PROVE  \E p \in 0 .. Len(keys) :
           /\ keys' \in Seq(Key) /\ DOMAIN keys' = 1 .. Len(keys) + 1
           /\ keys'[p + 1] = key
           /\ \A i \in 1 .. Len(keys) : keys[i].start <= key.start <=> i <= p
           /\ \A i \in 1 .. Len(keys) + 1 :
                \/ i = p + 1
                \/ i <= p /\ i \in 1 .. Len(keys) /\ keys'[i] = keys[i]
                \/ i > p + 1 /\ i - 1 \in 1 .. Len(keys) /\ keys'[i] = keys[i - 1]
<1> DEFINE p == StartsUpTo(key.start)
<1>1. keys \in Seq(Key) /\ Len(keys) \in Nat /\ DOMAIN keys = 1 .. Len(keys) /\ key.start \in Nat
  BY LenProperties DEF TypeInv, Key
<1>2. p \in 0 .. Len(keys) /\ \A i \in 1 .. Len(keys) : keys[i].start <= key.start <=> i <= p
  BY <1>1, Bisected
<1>3. keys' = InsertAt(keys, p + 1, key)
  BY DEF Insert
<1> HIDE DEF p
<1>4. /\ keys' \in Seq(Key) /\ Len(keys') = Len(keys) + 1
      /\ keys'[p + 1] = key
      /\ \A i \in 1 .. p : keys'[i] = keys[i]
      /\ \A i \in 1 .. Len(keys) + 1 : i > p + 1 => keys'[i] = keys[i - 1]
  <2> DEFINE t == InsertAt(keys, p + 1, key)
  <2>1. t \in Seq(Key) /\ Len(t) = Len(keys) + 1
    BY <1>1, <1>2, Inserted
  <2>2. t[p + 1] = key
    BY <1>1, <1>2, Inserted
  <2>3. \A i \in 1 .. p : t[i] = keys[i]
    BY <1>1, <1>2, Inserted
  <2>4. \A i \in 1 .. Len(keys) + 1 : i > p + 1 => t[i] = keys[i - 1]
    BY <1>1, <1>2, Inserted
  <2> HIDE DEF t
  <2>5. keys' = t
    BY <1>3 DEF t
  <2>6. QED  BY <2>1, <2>2, <2>3, <2>4, <2>5
<1>5. ASSUME NEW i \in 1 .. Len(keys) + 1
      PROVE  \/ i = p + 1
             \/ i <= p /\ i \in 1 .. Len(keys) /\ keys'[i] = keys[i]
             \/ i > p + 1 /\ i - 1 \in 1 .. Len(keys) /\ keys'[i] = keys[i - 1]
  <2>1. CASE i <= p
    BY <1>1, <1>2, <1>4, <2>1
  <2>2. CASE i > p + 1
    <3>1. i - 1 \in 1 .. Len(keys)
      BY <1>1, <1>2, <2>2
    <3>2. QED  BY <1>4, <2>2, <3>1
  <2>3. QED  BY <1>1, <1>2, <2>1, <2>2
<1>6. DOMAIN keys' = 1 .. Len(keys) + 1
  BY <1>4
<1>7. QED  BY <1>2, <1>4, <1>5, <1>6

LEMMA PlaceStep ==
  ASSUME IInv, NEW key \in Key, Insert(key),
         key.start < key.stop, ~Overlaps(key),
         Unplaced(key.item),
         ~IsResource(key) => WindowOf(key),
         IsAvailable(NamesOf(key)), names' = names \cup NamesOf(key)
  PROVE  keys' \in Seq(Key) /\ Ordered' /\ Placed'
<1>1. TypeInv /\ Ordered /\ Placed
  BY DEF IInv
<1>2. PICK p \in 0 .. Len(keys) :
        /\ keys' \in Seq(Key) /\ DOMAIN keys' = 1 .. Len(keys) + 1
        /\ keys'[p + 1] = key
        /\ \A i \in 1 .. Len(keys) : keys[i].start <= key.start <=> i <= p
        /\ \A i \in 1 .. Len(keys) + 1 :
             \/ i = p + 1
             \/ i <= p /\ i \in 1 .. Len(keys) /\ keys'[i] = keys[i]
             \/ i > p + 1 /\ i - 1 \in 1 .. Len(keys) /\ keys'[i] = keys[i - 1]
  BY <1>1, InsertKeys
<1>3. DOMAIN keys = 1 .. Len(keys) /\ Len(keys) \in Nat /\ p \in Nat
      /\ key.start \in Nat /\ key.stop \in Nat
      /\ \A i \in 1 .. Len(keys) : keys[i].start \in Nat /\ keys[i].stop \in Nat
  <2>1. \A k \in Key : k.start \in Nat /\ k.stop \in Nat
    BY DEF Key
  <2>2. QED  BY <1>1, <2>1, ElementOfSeq, LenProperties DEF TypeInv
\* The key, or one that was there already.
<1> DEFINE Old(i) == IF i <= p THEN i ELSE i - 1
<1>4. /\ \A i \in DOMAIN keys' : i # p + 1 => Old(i) \in DOMAIN keys /\ keys'[i] = keys[Old(i)]
      /\ \A i, j \in DOMAIN keys' : i # p + 1 /\ j # p + 1 =>
           (i < j => Old(i) < Old(j)) /\ (i # j => Old(i) # Old(j))
      /\ \A i \in DOMAIN keys' : (i < p + 1 => Old(i) <= p) /\ (p + 1 < i => ~(Old(i) <= p))
  BY <1>2, <1>3
<1>5. \A i \in DOMAIN keys :
        /\ i <= p => keys[i].stop <= key.start
        /\ ~(i <= p) => key.stop <= keys[i].start
  <2>1. \A i \in DOMAIN keys : keys[i].stop <= key.start \/ key.stop <= keys[i].start
    BY <1>1, <1>3, Free
  <2>2. \A i \in DOMAIN keys : keys[i].start < keys[i].stop
    BY <1>1 DEF Ordered
  <2>3. QED  BY <1>2, <1>3, <2>1, <2>2
<1> HIDE DEF Old
<1>6. Ordered'
  <2>1. ASSUME NEW i \in DOMAIN keys' PROVE keys'[i].start < keys'[i].stop
    BY <1>1, <1>2, <1>4 DEF Ordered
  <2>2. ASSUME NEW i \in DOMAIN keys', NEW j \in DOMAIN keys', i < j
        PROVE  keys'[i].stop <= keys'[j].start
    <3>1. CASE i = p + 1
      <4>1. j # p + 1 /\ Old(j) \in DOMAIN keys /\ ~(Old(j) <= p)
        BY <1>2, <1>3, <1>4, <2>2, <3>1
      <4>2. QED  BY <1>2, <1>4, <1>5, <3>1, <4>1
    <3>2. CASE j = p + 1
      <4>1. i # p + 1 /\ Old(i) \in DOMAIN keys /\ Old(i) <= p
        BY <1>2, <1>3, <1>4, <2>2, <3>2
      <4>2. QED  BY <1>2, <1>4, <1>5, <3>2, <4>1
    <3>3. CASE i # p + 1 /\ j # p + 1
      BY <1>1, <1>4, <2>2, <3>3 DEF Ordered
    <3>4. QED  BY <3>1, <3>2, <3>3
  <2>3. QED  BY <2>1, <2>2 DEF Ordered
<1>7. Placed'
  <2>1. \A k : /\ IsResource(k)' <=> IsResource(k)
               /\ WindowOf(k)' <=> WindowOf(k)
               /\ NamesOf(k)' = NamesOf(k)
    BY DEF IsResource, WindowOf, NamesOf, Queries
  <2>2. \A i \in DOMAIN keys : NamesOf(keys[i]) \subseteq names /\ keys[i].item # key.item
    BY <1>1 DEF Placed, Unplaced
  <2>3. \A m \in NamesOf(key), n \in names : Apart(m, n) /\ Apart(n, m)
    BY DEF IsAvailable, Apart
  <2>4. ASSUME NEW i \in DOMAIN keys'
        PROVE  /\ ~IsResource(keys'[i]) => WindowOf(keys'[i])
               /\ NamesOf(keys'[i]) \subseteq names'
    <3>1. CASE i = p + 1
      BY <1>2, <3>1
    <3>2. CASE i # p + 1
      BY <1>1, <1>4, <2>2, <3>2 DEF Placed
    <3>3. QED  BY <3>1, <3>2
  <2>5. ASSUME NEW i \in DOMAIN keys', NEW j \in DOMAIN keys', i # j
        PROVE  /\ keys'[i].item # keys'[j].item
               /\ \A m \in NamesOf(keys'[i]), n \in NamesOf(keys'[j]) : Apart(m, n)
    <3>1. CASE i = p + 1
      <4>1. j # p + 1 /\ Old(j) \in DOMAIN keys /\ keys'[j] = keys[Old(j)]
        BY <1>4, <2>5, <3>1
      <4>2. QED  BY <1>2, <2>2, <2>3, <3>1, <4>1
    <3>2. CASE j = p + 1
      <4>1. i # p + 1 /\ Old(i) \in DOMAIN keys /\ keys'[i] = keys[Old(i)]
        BY <1>4, <2>5, <3>2
      <4>2. QED  BY <1>2, <2>2, <2>3, <3>2, <4>1
    <3>3. CASE i # p + 1 /\ j # p + 1
      BY <1>1, <1>4, <2>5, <3>3 DEF Placed
    <3>4. QED  BY <3>1, <3>2, <3>3
  <2>6. QED  BY <2>1, <2>4, <2>5 DEF Placed
<1>8. QED  BY <1>2, <1>6, <1>7

\* Alignments are powers of two.
LEMMA Powers ==
  /\ \A n \in Alignments : 2^MaxOf(n, Alignment) \in Nat \ {0}
  /\ \A w \in DOMAIN Windows :
       LET width == Windows[w].addr_width
       IN  /\ 2^width \in Nat \ {0}
           /\ 2^MaxOf(Alignment, width \div Windows[w].ratio) \in Nat \ {0}
<1>1. \A n \in Nat : 2^n > 0 => 2^n \in Nat \ {0}
  OBVIOUS
<1>2. Alignment \in Nat /\ 2^Alignment \in Nat \ {0}
  BY <1>1, WidthAssumption, PowersAssumption
<1>3. \A n \in Alignments : 2^n \in Nat \ {0}
  BY <1>1, ArgumentsAssumption, PowersAssumption
<1>4. \A w \in DOMAIN Windows : 2^Windows[w].addr_width \in Nat \ {0}
  BY <1>1, WindowsAssumption, PowersAssumption
<1>5. \A w \in DOMAIN Windows : 2^(Windows[w].addr_width \div Windows[w].ratio) \in Nat \ {0}
  <2>1. \A w \in DOMAIN Windows : Windows[w].addr_width \div Windows[w].ratio \in Nat
    BY WindowsAssumption
  <2>2. QED  BY <1>1, <2>1, PowersAssumption
<1>6. \A a, b : MaxOf(a, b) = a \/ MaxOf(a, b) = b
  BY DEF MaxOf
<1>7. QED  BY <1>2, <1>3, <1>4, <1>5, <1>6, Zenon

LEMMA Aligned ==
  ASSUME NEW value \in Nat, NEW n, 2^n \in Nat \ {0}
  PROVE  AlignUp(value, n) \in Nat /\ AlignUp(value, n) >= value
<1>1. \A m \in Nat \ {0} : value % m \in 0 .. m - 1
  OBVIOUS
<1>2. \A m \in Nat \ {0} : value + m - (value % m) \in Nat /\ value + m - (value % m) >= value
  BY <1>1
<1>3. QED  BY <1>2 DEF AlignUp

LEMMA RangeType ==
  ASSUME TypeInv, NEW addr \in Nat \cup {NoAddr}, NEW asked \in Nat, NEW n, 2^n \in Nat \ {0},
         NEW range, range = ComputeRange(addr, asked, n)
  PROVE  /\ range.start \in Nat /\ range.stop \in Nat /\ range.start < range.stop
         /\ asked <= range.stop - range.start
<1> DEFINE start == IF addr = NoAddr THEN AlignUp(next_addr, n) ELSE addr
           length == AlignUp(MaxOf(asked, 1), n)
<1>1. start \in Nat
  BY Aligned DEF TypeInv
<1>2. length \in Nat /\ length >= 1 /\ length >= asked
  <2>1. MaxOf(asked, 1) \in Nat /\ MaxOf(asked, 1) >= 1 /\ MaxOf(asked, 1) >= asked
    BY DEF MaxOf
  <2> DEFINE m == MaxOf(asked, 1)
  <2> HIDE DEF m
  <2>2. m \in Nat /\ m >= 1 /\ m >= asked /\ length = AlignUp(m, n)
    BY <2>1 DEF m
  <2> HIDE DEF length
  <2>3. length \in Nat /\ length >= m
    BY <2>2, Aligned
  <2>4. QED  BY <2>2, <2>3
<1>3. range.start = start /\ range.stop = start + length
  BY DEF ComputeRange
<1> HIDE DEF start, length
<1>4. QED  BY <1>1, <1>2, <1>3

LEMMA InitIInv == Init => IInv
<1> SUFFICES ASSUME Init PROVE IInv
  OBVIOUS
<1>1. DOMAIN keys = {}
  BY EmptySeq DEF Init
<1>2. TypeInv
  BY EmptySeq DEF Init, TypeInv
<1>3. QED  BY <1>1, <1>2 DEF IInv, Ordered, Placed

LEMMA AddResourceStep ==
  ASSUME IInv, NEW r \in Items \ DOMAIN Windows, NEW name \in Name, NEW asked \in Nat,
         NEW addr \in Nat \cup {NoAddr}, NEW alignment, 2^MaxOf(alignment, Alignment) \in Nat \ {0},
         AddResource(r, name, asked, addr, alignment)
  PROVE  IInv'
<1>1. PICK range : range = ComputeRange(addr, asked, MaxOf(alignment, Alignment))
  OBVIOUS
<1> DEFINE key == [start |-> range.start, stop |-> range.stop, step |-> 1, item |-> r,
                   name |-> name]
<1>2. /\ Unplaced(r) /\ IsAvailable({name})
      /\ ~Overlaps(range)
      /\ Insert(key) /\ next_addr' = range.stop
      /\ names' = names \cup {name}
  BY <1>1 DEF AddResource, Accepted, Place
<1>3. range.start \in Nat /\ range.stop \in Nat /\ range.start < range.stop
  BY <1>1, RangeType DEF IInv
<1>4. name \in Name /\ r \notin DOMAIN Windows /\ r \in Items
  OBVIOUS
<1>5. key \in Key /\ IsResource(key) /\ NamesOf(key) = {name} /\ key.item = r
  BY <1>3, <1>4 DEF Key, IsResource, NamesOf
<1>6. ~Overlaps(key) /\ key.start < key.stop
  BY <1>2, <1>3 DEF Overlaps
<1> HIDE DEF key
<1>7. keys' \in Seq(Key) /\ Ordered' /\ Placed'
  BY <1>2, <1>5, <1>6, PlaceStep
<1>8. names' \in SUBSET Name /\ next_addr' \in Nat
  BY <1>2, <1>3, <1>4 DEF IInv, TypeInv
<1>9. QED  BY <1>7, <1>8 DEF IInv, TypeInv

LEMMA AddWindowStep ==
  ASSUME IInv, NEW w \in DOMAIN Windows, NEW addr \in Nat \cup {NoAddr}, AddWindow(w, addr)
  PROVE  IInv'
<1> DEFINE ratio == Windows[w].ratio
           asked == 2^Windows[w].addr_width \div ratio
           n == MaxOf(Alignment, Windows[w].addr_width \div ratio)
<1>1. PICK range : range = ComputeRange(addr, asked, n)
  OBVIOUS
<1> DEFINE key == [start |-> range.start, stop |-> range.stop, step |-> ratio, item |-> w,
                   name |-> Windows[w].name]
<1>2. /\ Unplaced(w) /\ IsAvailable(Queries(w))
      /\ ~Overlaps(range)
      /\ Insert(key) /\ next_addr' = range.stop
      /\ names' = names \cup Queries(w)
  BY <1>1 DEF AddWindow, Accepted, Place
<1>3. ratio \in Nat \ {0} /\ asked \in Nat /\ 2^n \in Nat \ {0}
  <2>1. ratio \in Nat \ {0} /\ 2^Windows[w].addr_width \in Nat /\ 2^n \in Nat \ {0}
    BY WindowsAssumption, Powers
  <2>2. QED  BY <2>1
<1>4. /\ Windows[w].name \in Name /\ w \in Items
      /\ Queries(w) \subseteq Name
  BY WindowsAssumption DEF Name, Items, Queries
<1> HIDE DEF n
<1>5. /\ range.start \in Nat /\ range.stop \in Nat /\ range.start < range.stop
      /\ asked <= range.stop - range.start
  BY <1>1, <1>3, RangeType DEF IInv
<1>6. key \in Key /\ NamesOf(key) = Queries(w) /\ key.item = w /\ WindowOf(key)
  BY <1>3, <1>4, <1>5 DEF Key, IsResource, NamesOf, WindowOf
<1>7. ~Overlaps(key) /\ key.start < key.stop
  BY <1>2, <1>5 DEF Overlaps
<1> HIDE DEF key, asked, ratio
<1>8. keys' \in Seq(Key) /\ Ordered' /\ Placed'
  BY <1>2, <1>6, <1>7, PlaceStep
<1>9. names' \in SUBSET Name /\ next_addr' \in Nat
  BY <1>2, <1>4, <1>5 DEF IInv, TypeInv
<1>10. QED  BY <1>8, <1>9 DEF IInv, TypeInv

LEMMA NextIInv == IInv /\ [Call]_vars => IInv'
<1> SUFFICES ASSUME IInv, [Call]_vars PROVE IInv'
  OBVIOUS
<1>1. ASSUME NEW r \in DOMAIN Resources, NEW asked \in Sizes, NEW addr \in Addresses \union {NoAddr},
             NEW alignment \in Alignments, AddResource(r, Resources[r], asked, addr, alignment)
      PROVE  IInv'
  <2>1. r \in Items \ DOMAIN Windows /\ Resources[r] \in Name
    BY ResourcesAssumption DEF Items, Name
  <2>2. 2^MaxOf(alignment, Alignment) \in Nat \ {0}
    BY Powers
  <2>3. asked \in Nat /\ addr \in Nat \cup {NoAddr}
    BY ArgumentsAssumption
  <2>4. QED  BY <1>1, <2>1, <2>2, <2>3, AddResourceStep
<1>2. ASSUME NEW w \in DOMAIN Windows, NEW addr \in Addresses \union {NoAddr}, AddWindow(w, addr)
      PROVE  IInv'
  BY <1>2, AddWindowStep, ArgumentsAssumption
<1>3. ASSUME UNCHANGED <<keys, names>>, next_addr' \in Nat PROVE IInv'
  BY <1>3 DEF IInv, TypeInv, Ordered, Placed, IsResource, WindowOf, NamesOf, Queries
<1>4. ASSUME NEW alignment \in Alignments, AlignTo(alignment) PROVE IInv'
  BY <1>3, <1>4, Aligned, Powers DEF AlignTo, IInv, TypeInv
<1>5. CASE Freeze
  BY <1>3, <1>5 DEF Freeze, IInv, TypeInv
<1>6. CASE UNCHANGED vars
  BY <1>3, <1>6 DEF vars, IInv, TypeInv
<1>7. QED  BY <1>1, <1>2, <1>4, <1>5, <1>6 DEF Call

LEMMA Invariance == Spec => []IInv
BY InitIInv, NextIInv, PTL DEF Spec

-----------------------------------------------------------------------------
(* Decoding.                                                                   *)
InRange(key, address) == key.start <= address /\ address < key.stop

\* Where an address in the range of a key leads.
Leads(key, address) ==
  IF IsResource(key) THEN {<<key.item>>}
  ELSE {<<key.item, r>> : r \in {q \in DOMAIN Windows[key.item].resources :
          /\ Windows[key.item].resources[q].start <= (address - key.start) * key.step
          /\ (address - key.start) * key.step < Windows[key.item].resources[q].stop}}

\* What is listed for a key.
Listed(key) ==
  IF IsResource(key)
  THEN {[id |-> <<key.item>>, path |-> key.name, start |-> key.start, stop |-> key.stop]}
  ELSE {[id    |-> <<key.item, r>>, path |-> key.name \o r,
         start |-> Translate(key, Windows[key.item].resources[r]).start,
         stop  |-> Translate(key, Windows[key.item].resources[r]).stop]
          : r \in DOMAIN Windows[key.item].resources}

LEMMA Decoded ==
  ASSUME IInv, NEW address \in Nat
  PROVE  \A id : id \in DecodeAddress(address) <=>
           \E i \in DOMAIN keys : InRange(keys[i], address) /\ id \in Leads(keys[i], address)
<1>1. DecodeAddress(address) = UNION {Leads(key, address) : key \in Get(address)}
  BY DEF DecodeAddress, Leads
<1>2. \A key : key \in Get(address) <=>
        \E i \in DOMAIN keys : key = keys[i] /\ InRange(keys[i], address)
  BY Found DEF IInv, InRange
<1>3. QED  BY <1>1, <1>2

LEMMA AllListed ==
  \A r \in AllResources : \E i \in DOMAIN keys : r \in Listed(keys[i])
<1>1. AllResources = UNION {Listed(keys[i]) : i \in DOMAIN keys}
  BY DEF AllResources, Listed
<1>2. QED  BY <1>1

LEMMA KeyType ==
  ASSUME IInv, NEW i \in DOMAIN keys
  PROVE  /\ keys[i] \in Key /\ keys[i].start \in Nat /\ keys[i].stop \in Nat
         /\ keys[i].step \in Nat \ {0} /\ keys[i].name \in Name
         /\ keys[i].start < keys[i].stop
<1>1. \A k \in Key : k.start \in Nat /\ k.stop \in Nat /\ k.step \in Nat \ {0} /\ k.name \in Name
  BY DEF Key
<1>2. keys[i] \in Key
  BY ElementOfSeq DEF IInv, TypeInv
<1>3. QED  BY <1>1, <1>2 DEF IInv, Ordered

\* Addresses of a dense window: what is at an address there, and where.
LEMMA Dense ==
  ASSUME NEW q \in Nat \ {0}, NEW start \in Nat, NEW stop \in Nat, NEW a \in Nat,
         NEW low \in Nat, NEW high \in Nat, low < high, low % q = 0, high % q = 0,
         high \div q <= stop - start
  PROVE  /\ (start <= a /\ a < stop /\ low <= (a - start) * q /\ (a - start) * q < high)
            <=> (low \div q + start <= a /\ a < low \div q + start + (high - low) \div q)
<1>1. \A m \in Nat : m % q = 0 => m \div q \in Nat /\ m = (m \div q) * q
  OBVIOUS
<1> DEFINE u == low \div q
           v == high \div q
<1>2. u \in Nat /\ v \in Nat /\ low = u * q /\ high = v * q
  BY <1>1
<1>3. (high - low) \div q = v - u
  <2>1. \A m, n \in Nat : m % q = 0 /\ n % q = 0 /\ m <= n => (n - m) \div q = n \div q - m \div q
    OBVIOUS
  <2>2. low <= high
    OBVIOUS
  <2>3. QED  BY <2>1, <2>2, Zenon
<1> HIDE DEF u, v
<1>4. \A m, n \in Int : m <= n <=> m * q <= n * q
  OBVIOUS
<1> DEFINE d == a - start
<1>5. d \in Int
  OBVIOUS
<1> HIDE DEF d
<1>6. low <= d * q <=> u <= d
  BY <1>2, <1>4, <1>5
<1>7. d * q < high <=> d < v
  <2>1. v <= d <=> v * q <= d * q
    BY <1>2, <1>4, <1>5
  <2>2. d * q \in Int
    BY <1>5
  <2>3. QED  BY <1>2, <1>5, <2>1, <2>2
<1>8. (start <= a /\ a < stop /\ u <= d /\ d < v) <=> (u + start <= a /\ a < u + start + (v - u))
  <2>1. v <= stop - start
    BY DEF v
  <2>2. QED  BY <1>2, <2>1 DEF d
<1>9. QED  BY <1>3, <1>6, <1>7, <1>8 DEF d, u

DenseAt(q, start, stop, low, high, a) ==
  (start <= a /\ a < stop /\ low <= (a - start) * q /\ (a - start) * q < high)
  <=> (low \div q + start <= a /\ a < low \div q + start + (high - low) \div q)

LEMMA DenseAlways ==
  \A q \in Nat \ {0}, start \in Nat, stop \in Nat, low \in Nat, high \in Nat, a \in Nat :
    low < high /\ low % q = 0 /\ high % q = 0 /\ high \div q <= stop - start
    => DenseAt(q, start, stop, low, high, a)
<1>1. TAKE q \in Nat \ {0}, start \in Nat, stop \in Nat, low \in Nat, high \in Nat, a \in Nat
<1>2. HAVE low < high /\ low % q = 0 /\ high % q = 0 /\ high \div q <= stop - start
<1>3. QED  BY <1>2, Dense DEF DenseAt

\* An address leads to what it has in its own window only.
LEMMA LeadsHere ==
  ASSUME IInv, NEW address \in Nat, NEW i \in DOMAIN keys
  PROVE  /\ IsResource(keys[i]) =>
              (<<keys[i].item>> \in DecodeAddress(address) <=> InRange(keys[i], address))
         /\ ~IsResource(keys[i]) => \A r :
              <<keys[i].item, r>> \in DecodeAddress(address)
              <=> InRange(keys[i], address) /\ <<keys[i].item, r>> \in Leads(keys[i], address)
<1>1. \A j \in DOMAIN keys : keys[j].item = keys[i].item => j = i
  BY DEF IInv, Placed
<1>2. \A x, y, z : <<x>> # <<y, z>> /\ (<<x>> = <<y>> => x = y)
  OBVIOUS
<1>3. \A x, y, z, w : <<x, w>> = <<y, z>> => x = y /\ w = z
  OBVIOUS
<1>4. \A j \in DOMAIN keys : <<keys[i].item>> \in Leads(keys[j], address) => j = i
  BY <1>1, <1>2 DEF Leads
<1>5. \A j \in DOMAIN keys : \A r : <<keys[i].item, r>> \in Leads(keys[j], address) => j = i
  BY <1>1, <1>2, <1>3 DEF Leads
<1>6. IsResource(keys[i]) => <<keys[i].item>> \in Leads(keys[i], address)
  BY DEF Leads
<1>7. QED  BY <1>4, <1>5, <1>6, Decoded, Zenon

-----------------------------------------------------------------------------
(* Prefixes.                                                                   *)
LEMMA PrefixMeans ==
  ASSUME NEW S, NEW s \in Seq(S), NEW t \in Seq(S)
  PROVE  IsPrefix(s, t) <=> Len(s) <= Len(t) /\ \A i \in 1 .. Len(s) : s[i] = t[i]
<1> DEFINE n == Len(s)
           low == SubSeq(s, 1, n)
           high == SubSeq(t, 1, n)
<1>1. n \in Nat /\ Len(t) \in Nat /\ \A i \in 1 .. n : s[i] \in S
  BY LenProperties, ElementOfSeq
<1>2. ASSUME n <= Len(t)
      PROVE  (low = high) <=> \A i \in 1 .. n : s[i] = t[i]
  <2>1. \A i \in 1 .. n : t[i] \in S
    BY <1>1, <1>2, ElementOfSeq
  <2> HIDE DEF n
  <2>2. low \in Seq(S) /\ Len(low) = n /\ \A i \in 1 .. n : low[i] = s[i]
    BY <1>1, SubSeqProperties
  <2>3. high \in Seq(S) /\ Len(high) = n /\ \A i \in 1 .. n : high[i] = t[i]
    BY <1>1, <2>1, SubSeqProperties
  <2> HIDE DEF low, high
  <2>4. ASSUME \A i \in 1 .. n : s[i] = t[i] PROVE low = high
    <3>1. Len(low) = Len(high) /\ \A i \in 1 .. Len(low) : low[i] = high[i]
      BY <2>2, <2>3, <2>4
    <3>2. QED  BY <2>2, <2>3, <3>1, SeqEqual
  <2>5. QED  BY <2>2, <2>3, <2>4
<1>3. IsPrefix(s, t) <=> n <= Len(t) /\ low = high
  BY DEF IsPrefix
<1>4. QED  BY <1>2, <1>3

\* What leads to a prefix leads to the whole; and of two prefixes of a sequence
\* one leads to the other.
LEMMA PrefixesMeet ==
  ASSUME NEW S, NEW s \in Seq(S), NEW t \in Seq(S), NEW u \in Seq(S), IsPrefix(t, u)
  PROVE  /\ IsPrefix(s, t) => IsPrefix(s, u)
         /\ IsPrefix(s, u) => IsPrefix(s, t) \/ IsPrefix(t, s)
<1>1. Len(s) \in Nat /\ Len(t) \in Nat /\ Len(u) \in Nat
  BY LenProperties
<1>2. Len(t) <= Len(u) /\ \A i \in 1 .. Len(t) : t[i] = u[i]
  BY PrefixMeans
<1>3. ASSUME IsPrefix(s, t) PROVE IsPrefix(s, u)
  <2>1. Len(s) <= Len(t) /\ \A i \in 1 .. Len(s) : s[i] = t[i]
    BY <1>3, PrefixMeans
  <2>2. Len(s) <= Len(u) /\ \A i \in 1 .. Len(s) : s[i] = u[i]
    BY <1>1, <1>2, <2>1
  <2>3. QED  BY <2>2, PrefixMeans
<1>4. ASSUME IsPrefix(s, u) PROVE IsPrefix(s, t) \/ IsPrefix(t, s)
  <2>1. Len(s) <= Len(u) /\ \A i \in 1 .. Len(s) : s[i] = u[i]
    BY <1>4, PrefixMeans
  <2>2. ASSUME Len(s) <= Len(t) PROVE IsPrefix(s, t)
    <3>1. \A i \in 1 .. Len(s) : s[i] = t[i]
      BY <1>1, <1>2, <2>1, <2>2
    <3>2. QED  BY <2>2, <3>1, PrefixMeans
  <2>3. ASSUME Len(t) <= Len(s) PROVE IsPrefix(t, s)
    <3>1. \A i \in 1 .. Len(t) : t[i] = s[i]
      BY <1>1, <1>2, <2>1, <2>3
    <3>2. QED  BY <2>3, <3>1, PrefixMeans
  <2>4. QED  BY <1>1, <2>2, <2>3
<1>5. QED  BY <1>3, <1>4

\* A name before both neither makes nor breaks a prefix.
LEMMA PrefixAfterName ==
  ASSUME NEW S, NEW name \in Seq(S), NEW s \in Seq(S), NEW t \in Seq(S)
  PROVE  /\ name \o s \in Seq(S) /\ IsPrefix(name, name \o s)
         /\ IsPrefix(name \o s, name \o t) => IsPrefix(s, t)
<1> DEFINE n == Len(name)
           u == name \o s
           v == name \o t
<1>1. n \in Nat /\ Len(s) \in Nat /\ Len(t) \in Nat
  BY LenProperties
<1>2. u \in Seq(S) /\ Len(u) = n + Len(s)
      /\ \A i \in 1 .. n + Len(s) : u[i] = IF i <= n THEN name[i] ELSE s[i - n]
  BY ConcatProperties
<1>3. v \in Seq(S) /\ Len(v) = n + Len(t)
      /\ \A i \in 1 .. n + Len(t) : v[i] = IF i <= n THEN name[i] ELSE t[i - n]
  BY ConcatProperties
<1> HIDE DEF u, v
<1>4. IsPrefix(name, u)
  <2>1. Len(name) <= Len(u) /\ \A i \in 1 .. Len(name) : name[i] = u[i]
    BY <1>1, <1>2
  <2>2. QED  BY <1>2, <2>1, PrefixMeans
<1>5. ASSUME IsPrefix(u, v) PROVE IsPrefix(s, t)
  <2>1. Len(u) <= Len(v) /\ \A i \in 1 .. Len(u) : u[i] = v[i]
    BY <1>2, <1>3, <1>5, PrefixMeans
  <2>2. Len(s) <= Len(t)
    BY <1>1, <1>2, <1>3, <2>1
  <2> HIDE DEF n
  <2>3. ASSUME NEW i \in 1 .. Len(s) PROVE s[i] = t[i]
    <3>1. n + i \in 1 .. n + Len(s) /\ n + i \in 1 .. n + Len(t) /\ ~(n + i <= n) /\ (n + i) - n = i
      BY <1>1, <2>2
    <3>2. u[n + i] = s[i] /\ v[n + i] = t[i]
      BY <1>2, <1>3, <3>1
    <3>3. QED  BY <1>2, <2>1, <3>1, <3>2
  <2>4. QED  BY <2>2, <2>3, PrefixMeans
<1>6. QED  BY <1>2, <1>4, <1>5 DEF u, v

-----------------------------------------------------------------------------
(* What the map answers.                                                       *)
LEMMA LookupsFollow == IInv => LookupsAgree
<1> SUFFICES ASSUME IInv, NEW a \in BusAddresses, NEW r \in AllResources
             PROVE  (r.id \in DecodeAddress(a)) <=> (r.start <= a /\ a < r.stop)
  BY DEF LookupsAgree
<1>1. a \in Nat
  <2>1. 2^AddrWidth - 1 \in Int
    BY WidthAssumption
  <2>2. QED  BY <2>1 DEF BusAddresses
<1>2. PICK i \in DOMAIN keys : r \in Listed(keys[i])
  BY AllListed
<1>3. CASE IsResource(keys[i])
  BY <1>1, <1>2, <1>3, LeadsHere DEF Listed, InRange
<1>4. CASE ~IsResource(keys[i])
  <2> DEFINE key == keys[i]
             w == key.item
  <2>1. PICK q \in DOMAIN Windows[w].resources :
          r = [id    |-> <<w, q>>, path |-> key.name \o q,
               start |-> Translate(key, Windows[w].resources[q]).start,
               stop  |-> Translate(key, Windows[w].resources[q]).stop]
    BY <1>2, <1>4 DEF Listed
  <2>2. PICK range : range = Windows[w].resources[q]
    OBVIOUS
  <2>3. w \in DOMAIN Windows
    BY <1>4 DEF IsResource
  <2>4. /\ key.step = Windows[w].ratio /\ key.step \in Nat \ {0}
        /\ 2^Windows[w].addr_width \div key.step <= key.stop - key.start
        /\ key.start \in Nat /\ key.stop \in Nat
    BY <1>4, KeyType DEF IInv, Placed, WindowOf
  <2>5. /\ range.start \in Nat /\ range.stop \in Nat /\ range.start < range.stop
        /\ range.stop <= 2^Windows[w].addr_width
        /\ range.start % key.step = 0 /\ range.stop % key.step = 0
    BY <2>2, <2>3, <2>4, WindowsAssumption
  <2>6. range.stop \div key.step <= key.stop - key.start
    <3>1. \A p \in Nat \ {0}, m, n \in Nat :
            m <= n => m \div p <= n \div p /\ m \div p \in Int /\ n \div p \in Int
      OBVIOUS
    <3>2. 2^Windows[w].addr_width \in Nat
      BY <2>3, Powers
    <3>3. \A x, y, z \in Int : x <= y /\ y <= z => x <= z
      OBVIOUS
    <3>4. key.stop - key.start \in Int
      BY <2>4
    <3>5. QED  BY <2>4, <2>5, <3>1, <3>2, <3>3, <3>4
  <2>7. <<w, q>> \in Leads(key, a) <=>
          range.start <= (a - key.start) * key.step /\ (a - key.start) * key.step < range.stop
    <3>1. \A x, y, z, v : <<x, y>> = <<z, v>> => x = z /\ y = v
      OBVIOUS
    <3>2. QED  BY <1>4, <2>2, <3>1 DEF Leads
  <2>8. r.id = <<w, q>>
        /\ r.start = range.start \div key.step + key.start
        /\ r.stop = range.start \div key.step + key.start
                    + (range.stop - range.start) \div key.step
    BY <2>1, <2>2 DEF Translate
  <2> HIDE DEF key, w
  <2>9. <<w, q>> \in DecodeAddress(a) <=> InRange(key, a) /\ <<w, q>> \in Leads(key, a)
    BY <1>1, <1>4, LeadsHere DEF key, w
  <2>10. (key.start <= a /\ a < key.stop /\ range.start <= (a - key.start) * key.step
            /\ (a - key.start) * key.step < range.stop)
         <=> (r.start <= a /\ a < r.stop)
    <3>1. DenseAt(key.step, key.start, key.stop, range.start, range.stop, a)
      BY <1>1, <2>4, <2>5, <2>6, DenseAlways
    <3>2. QED  BY <2>8, <3>1 DEF DenseAt
  <2>11. QED  BY <2>7, <2>8, <2>9, <2>10 DEF InRange
<1>5. QED  BY <1>3, <1>4

LEMMA PathsFollow == IInv => PathsAreDistinct
<1>1. ASSUME IInv, NEW i \in DOMAIN keys, NEW r \in Listed(keys[i])
      PROVE  /\ r.path \in Name
             /\ \E m \in NamesOf(keys[i]) : m \in Name /\ IsPrefix(m, r.path)
  <2> DEFINE key == keys[i]
  <2>1. key.name \in Name
    BY <1>1, KeyType
  <2>2. CASE IsResource(key)
    <3>1. r.path = key.name /\ NamesOf(key) = {key.name}
      BY <2>2 DEF Listed, NamesOf
    <3>2. IsPrefix(key.name, key.name)
      BY <2>1, PrefixMeans, LenProperties DEF Name
    <3>3. QED  BY <2>1, <3>1, <3>2
  <2>3. CASE ~IsResource(key)
    <3> DEFINE w == key.item
    <3>1. PICK q \in DOMAIN Windows[w].resources :
            r = [id    |-> <<w, q>>, path |-> key.name \o q,
                 start |-> Translate(key, Windows[w].resources[q]).start,
                 stop  |-> Translate(key, Windows[w].resources[q]).stop]
      BY <2>3 DEF Listed
    <3>2. w \in DOMAIN Windows /\ key.name = Windows[w].name
      BY <1>1, <2>3 DEF IsResource, IInv, Placed, WindowOf
    <3>3. q \in Name
      BY <3>1, <3>2, WindowsAssumption DEF Name
    <3>4. NamesOf(key) = Queries(w) /\ r.path = key.name \o q
      BY <2>3, <3>1 DEF NamesOf
    <3> HIDE DEF key, w
    <3>5. r.path \in Name /\ IsPrefix(key.name, r.path)
      BY <2>1, <3>3, <3>4, PrefixAfterName DEF Name
    <3>6. CASE key.name = Anonymous
      <4>1. r.path = q
        BY <3>3, <3>4, <3>6, ConcatEmptySeq DEF Anonymous, Name
      <4>2. IsPrefix(q, r.path)
        BY <3>3, <4>1, PrefixMeans, LenProperties DEF Name
      <4>3. q \in NamesOf(key)
        BY <3>1, <3>2, <3>4, <3>6 DEF Queries
      <4>4. QED  BY <3>3, <3>5, <4>2, <4>3 DEF key
    <3>7. CASE key.name # Anonymous
      <4>1. key.name \in NamesOf(key)
        BY <3>2, <3>4, <3>7 DEF Queries
      <4>2. QED  BY <2>1, <3>5, <4>1 DEF key
    <3>8. QED  BY <3>6, <3>7
  <2>4. QED  BY <2>2, <2>3
<1>2. ASSUME IInv, NEW i \in DOMAIN keys, NEW r \in Listed(keys[i]), NEW s \in Listed(keys[i]),
             r.id # s.id
      PROVE  ~IsPrefix(r.path, s.path)
  <2> DEFINE key == keys[i]
             w == key.item
  <2>1. ~IsResource(key)
    <3>1. ASSUME IsResource(key) PROVE r = s
      BY <3>1 DEF Listed
    <3>2. QED  BY <1>2, <3>1
  <2>2. PICK p \in DOMAIN Windows[w].resources :
          r = [id    |-> <<w, p>>, path |-> key.name \o p,
               start |-> Translate(key, Windows[w].resources[p]).start,
               stop  |-> Translate(key, Windows[w].resources[p]).stop]
    BY <2>1 DEF Listed
  <2>3. PICK q \in DOMAIN Windows[w].resources :
          s = [id    |-> <<w, q>>, path |-> key.name \o q,
               start |-> Translate(key, Windows[w].resources[q]).start,
               stop  |-> Translate(key, Windows[w].resources[q]).stop]
    BY <2>1 DEF Listed
  <2>4. p # q /\ w \in DOMAIN Windows /\ r.path = key.name \o p /\ s.path = key.name \o q
    BY <1>2, <2>1, <2>2, <2>3 DEF IsResource
  <2>5. p \in Name /\ q \in Name /\ key.name \in Name /\ ~IsPrefix(p, q)
    BY <1>2, <2>4, KeyType, WindowsAssumption DEF Name
  <2> HIDE DEF key, w
  <2>6. QED  BY <2>4, <2>5, PrefixAfterName DEF Name
<1>3. ASSUME IInv, NEW r \in AllResources, NEW s \in AllResources, r.id # s.id,
             IsPrefix(r.path, s.path)
      PROVE  FALSE
  <2>1. PICK i \in DOMAIN keys : r \in Listed(keys[i])
    BY AllListed
  <2>2. PICK j \in DOMAIN keys : s \in Listed(keys[j])
    BY AllListed
  <2>3. i # j
    BY <1>2, <1>3, <2>1, <2>2
  <2>4. PICK m \in NamesOf(keys[i]) : m \in Name /\ IsPrefix(m, r.path)
    BY <1>1, <1>3, <2>1
  <2>5. PICK n \in NamesOf(keys[j]) : n \in Name /\ IsPrefix(n, s.path)
    BY <1>1, <1>3, <2>2
  <2>6. r.path \in Name /\ s.path \in Name
    BY <1>1, <1>3, <2>1, <2>2
  <2>7. IsPrefix(m, s.path)
    BY <1>3, <2>4, <2>6, PrefixesMeet DEF Name
  <2>8. IsPrefix(m, n) \/ IsPrefix(n, m)
    BY <2>4, <2>5, <2>6, <2>7, PrefixesMeet DEF Name
  <2>9. Apart(m, n)
    BY <1>3, <2>3 DEF IInv, Placed
  <2>10. QED  BY <2>8, <2>9 DEF Apart
<1>4. QED  BY <1>3 DEF PathsAreDistinct

LEMMA PatternsFollow == IInv => PlainPatternsSelect
<1> DEFINE span(l) == 2^Windows[l.item].addr_width
           Plain == \A k \in WindowKeys : k.step = 1 /\ k.start % span(k) = 0
<1>1. ASSUME IInv, Plain, NEW i \in DOMAIN keys, keys[i].item \in DOMAIN Windows, NEW a \in Nat
      PROVE  /\ span(keys[i]) \in Nat \ {0} /\ span(keys[i]) <= keys[i].stop - keys[i].start
             /\ Matches(keys[i], a)
                <=> keys[i].start <= a /\ a < keys[i].start + span(keys[i])
  <2> DEFINE l == keys[i]
             p == span(l)
  <2>1. l.start \in Nat /\ l.stop \in Nat
    BY <1>1, KeyType
  <2>2. l \in WindowKeys
    BY <1>1 DEF WindowKeys
  <2>3. l.step = 1 /\ l.start % p = 0
    BY <1>1, <2>2
  <2>4. p \in Nat \ {0}
    BY <1>1, Powers
  <2>5. p \div 1 <= l.stop - l.start
    BY <1>1, <2>3 DEF IInv, Placed, WindowOf, IsResource
  <2>6. Matches(l, a) <=> a \div p = l.start \div p
    BY DEF Matches
  <2> HIDE DEF p, l, Plain
  <2>7. p <= l.stop - l.start
    <3>1. \A m \in Nat : m \div 1 = m
      OBVIOUS
    <3>2. QED  BY <2>4, <2>5, <3>1
  <2>8. a \div p = l.start \div p <=> l.start <= a /\ a < l.start + p
    <3>1. \A d \in Nat \ {0}, m \in Nat, n \in Nat :
            m % d = 0 => (n \div d = m \div d <=> m <= n /\ n < m + d)
      OBVIOUS
    <3>2. QED  BY <1>1, <2>1, <2>3, <2>4, <3>1, Zenon
  <2>9. QED  BY <2>4, <2>6, <2>7, <2>8 DEF l, p
<1>2. ASSUME IInv, Plain, NEW a \in BusAddresses, NEW k \in WindowKeys, NEW l \in WindowKeys,
             k \in Get(a),
             NEW r \in DOMAIN Windows[k.item].resources, <<k.item, r>> \in DecodeAddress(a)
      PROVE  Matches(l, a) <=> k = l
  <2>1. a \in Nat
    <3>1. 2^AddrWidth - 1 \in Int
      BY WidthAssumption
    <3>2. QED  BY <3>1 DEF BusAddresses
  <2>2. PICK i \in DOMAIN keys : k = keys[i] /\ keys[i].item \in DOMAIN Windows
    BY DEF WindowKeys
  <2>3. PICK j \in DOMAIN keys : l = keys[j] /\ keys[j].item \in DOMAIN Windows
    BY DEF WindowKeys
  <2>4. /\ k.start \in Nat /\ k.stop \in Nat /\ l.start \in Nat /\ l.stop \in Nat
    BY <1>2, <2>2, <2>3, KeyType
  <2>5. /\ span(k) \in Nat \ {0} /\ span(k) <= k.stop - k.start
        /\ Matches(k, a) <=> k.start <= a /\ a < k.start + span(k)
    BY <1>1, <1>2, <2>1, <2>2
  <2>6. /\ span(l) \in Nat \ {0} /\ span(l) <= l.stop - l.start
        /\ Matches(l, a) <=> l.start <= a /\ a < l.start + span(l)
    BY <1>1, <1>2, <2>1, <2>3
  <2>7. k.start <= a /\ a < k.start + span(k)
    <3>1. InRange(k, a) /\ <<k.item, r>> \in Leads(k, a)
      BY <1>2, <2>1, <2>2, LeadsHere DEF IsResource
    <3>2. (a - k.start) * k.step < Windows[k.item].resources[r].stop
      <4>1. \A x, y, z, v : <<x, y>> = <<z, v>> => x = z /\ y = v
        OBVIOUS
      <4>2. QED  BY <2>2, <3>1, <4>1 DEF Leads, IsResource
    <3>3. Windows[k.item].resources[r].stop \in Nat
          /\ Windows[k.item].resources[r].stop <= span(k)
      BY <2>2, WindowsAssumption
    <3>4. k.step = 1 /\ k.start <= a
      BY <1>2, <3>1 DEF InRange
    <3>5. (a - k.start) * 1 = a - k.start
      BY <2>1, <2>4
    <3> DEFINE stop == Windows[k.item].resources[r].stop
    <3>6. a - k.start < stop /\ stop \in Nat /\ stop <= span(k)
      BY <3>2, <3>3, <3>4, <3>5
    <3> HIDE DEF stop, span
    <3>7. QED  BY <2>1, <2>4, <2>5, <3>4, <3>6
  <2>8. ASSUME Matches(l, a) PROVE i = j
    <3> HIDE DEF span
    <3>1. a < k.stop /\ a < l.stop /\ k.start <= a /\ l.start <= a
      BY <2>1, <2>4, <2>5, <2>6, <2>7, <2>8
    <3>2. ~(k.stop <= l.start) /\ ~(l.stop <= k.start)
      BY <2>1, <2>4, <3>1
    <3>3. ~(i < j) /\ ~(j < i)
      BY <1>2, <2>2, <2>3, <3>2 DEF IInv, Ordered
    <3>4. i \in Nat /\ j \in Nat
      BY <1>2, LenProperties DEF IInv, TypeInv
    <3>5. QED  BY <3>3, <3>4
  <2>9. QED  BY <2>2, <2>3, <2>5, <2>7, <2>8
<1>3. QED  BY <1>2 DEF PlainPatternsSelect, PatternsSelect

-----------------------------------------------------------------------------
(* Least elements, sums and remainders.                                        *)
LEMMA LeastExists ==
  ASSUME NEW S \in SUBSET Nat, S # {}
  PROVE  \E least \in S : \A n \in S : least <= n
<1> DEFINE Before == OpToRel(<, Nat)
<1>1. PICK least \in S : \A n \in S : ~(<<n, least>> \in Before)
  <2>1. IsWellFoundedOn(Before, Nat)
    BY NatLessThanWellFounded
  <2> HIDE DEF Before
  <2>2. QED  BY <2>1, WFMin
<1>2. \A n \in S : n < least => <<n, least>> \in Before
  BY DEF OpToRel
<1> HIDE DEF Before
<1>3. ASSUME NEW n \in S PROVE least <= n
  <2>1. n \in Nat /\ least \in Nat /\ ~(n < least)
    BY <1>1, <1>2
  <2>2. QED  BY <2>1
<1>4. QED  BY <1>3

\* f has the sums of the first elements of w.
IsSum(f, w, n) == f = [i \in 0 .. n |-> IF i = 0 THEN 0 ELSE f[i - 1] + w[i]]

LEMMA SumExists ==
  ASSUME NEW n \in Nat, NEW w
  PROVE  \E f : IsSum(f, w, n)
<1> DEFINE without == {m \in Nat : \A f : ~IsSum(f, w, m)}
<1> SUFFICES ASSUME n \in without PROVE FALSE
  OBVIOUS
<1>1. PICK m \in without : \A k \in without : m <= k
  <2> HIDE DEF without
  <2>1. without \in SUBSET Nat
    BY DEF without
  <2>2. QED  BY <2>1, LeastExists
<1>2. m # 0
  <2> DEFINE f == [i \in 0 .. 0 |-> 0]
  <2>1. f = [i \in 0 .. 0 |-> IF i = 0 THEN 0 ELSE f[i - 1] + w[i]]
    OBVIOUS
  <2>2. IsSum(f, w, 0)
    BY <2>1 DEF IsSum
  <2>3. QED  BY <2>2
<1>3. m - 1 \in Nat /\ m \in Nat /\ m - 1 \notin without
  BY <1>1, <1>2
<1>4. PICK f : IsSum(f, w, m - 1)
  BY <1>3
<1> DEFINE g == [i \in 0 .. m |-> IF i = m THEN f[m - 1] + w[m] ELSE f[i]]
<1>5. ASSUME NEW i \in 0 .. m PROVE g[i] = IF i = 0 THEN 0 ELSE g[i - 1] + w[i]
  <2>1. \A j \in 0 .. m - 1 : f[j] = IF j = 0 THEN 0 ELSE f[j - 1] + w[j]
    BY <1>4 DEF IsSum
  <2>2. CASE i = m
    BY <1>2, <1>3, <2>2
  <2>3. CASE i # m
    <3>1. i \in 0 .. m - 1 /\ g[i] = f[i]
      BY <1>3, <2>3
    <3>2. i # 0 => i - 1 \in 0 .. m /\ i - 1 # m
      BY <1>3
    <3>3. QED  BY <2>1, <3>1, <3>2
  <2>4. QED  BY <2>2, <2>3
<1>6. IsSum(g, w, m)
  <2>1. g = [i \in 0 .. m |-> g[i]]
    OBVIOUS
  <2> HIDE DEF g
  <2>2. QED  BY <1>5, <2>1 DEF IsSum
<1>7. QED  BY <1>1, <1>6

LEMMA SumGrows ==
  ASSUME NEW n \in Nat, NEW w, \A i \in 1 .. n : w[i] \in Nat, NEW f, IsSum(f, w, n)
  PROVE  /\ f[0] = 0 /\ \A i \in 1 .. n : f[i] = f[i - 1] + w[i]
         /\ \A i \in 0 .. n : f[i] \in Nat
         /\ \A i, j \in 0 .. n : i <= j => f[i] <= f[j]
<1>1. \A i \in 0 .. n : f[i] = IF i = 0 THEN 0 ELSE f[i - 1] + w[i]
  BY DEF IsSum
<1>2. f[0] = 0 /\ \A i \in 1 .. n : f[i] = f[i - 1] + w[i]
  BY <1>1
<1>3. ASSUME NEW i \in 0 .. n PROVE f[i] \in Nat
  <2> DEFINE bad == {m \in 0 .. n : f[m] \notin Nat}
  <2> SUFFICES ASSUME bad # {} PROVE FALSE
    OBVIOUS
  <2>1. PICK m \in bad : \A k \in bad : m <= k
    <3>1. bad \in SUBSET Nat
      OBVIOUS
    <3> HIDE DEF bad
    <3>2. QED  BY <3>1, LeastExists
  <2>2. m # 0 /\ m - 1 \in 0 .. n /\ m - 1 \notin bad /\ m \in 1 .. n
    BY <1>2, <2>1
  <2>3. f[m - 1] \in Nat /\ w[m] \in Nat /\ f[m] = f[m - 1] + w[m]
    BY <1>2, <2>2
  <2>4. QED  BY <2>1, <2>3
<1>4. ASSUME NEW i \in 0 .. n, NEW j \in 0 .. n, i <= j PROVE f[i] <= f[j]
  <2> DEFINE bad == {m \in i .. n : ~(f[i] <= f[m])}
  <2> SUFFICES ASSUME bad # {} PROVE FALSE
    BY <1>4
  <2>1. PICK m \in bad : \A k \in bad : m <= k
    <3>1. bad \in SUBSET Nat
      OBVIOUS
    <3> HIDE DEF bad
    <3>2. QED  BY <3>1, LeastExists
  <2>2. m # i /\ m - 1 \in i .. n /\ m - 1 \notin bad /\ m \in 1 .. n
    BY <1>3, <2>1
  <2>3. f[m] = f[m - 1] + w[m] /\ f[i] <= f[m - 1] /\ w[m] \in Nat
    BY <1>2, <2>2
  <2>4. f[m] \in Nat /\ f[m - 1] \in Nat /\ f[i] \in Nat
    BY <1>3, <2>2
  <2>5. QED  BY <2>1, <2>3, <2>4
<1>5. QED  BY <1>2, <1>3, <1>4

LEMMA RemainderInWindow ==
  ASSUME NEW d \in Nat \ {0}, NEW m \in Int, NEW x \in Int, m % d = 0, m <= x, x < m + d
  PROVE  x % d = x - m
OBVIOUS

LEMMA Division ==
  ASSUME NEW d \in Nat \ {0}, NEW x \in Int
  PROVE  x \div d \in Int /\ x % d \in 0 .. d - 1 /\ x = (x \div d) * d + (x % d)
<1>1. (x \div d) * d <= x /\ x < (x \div d) * d + d
  OBVIOUS
<1>2. \A k \in Int : (k * d) % d = 0 /\ k * d \in Int
  OBVIOUS
<1>3. x \div d \in Int /\ x % d \in 0 .. d - 1
  OBVIOUS
<1> DEFINE below == (x \div d) * d
<1>4. below \in Int /\ below % d = 0 /\ below <= x /\ x < below + d
  BY <1>1, <1>2, <1>3
<1> HIDE DEF below
<1>5. x % d = x - below
  BY <1>4, RemainderInWindow
<1>6. x = below + (x % d)
  BY <1>4, <1>5
<1>7. QED  BY <1>3, <1>6 DEF below

-----------------------------------------------------------------------------
(* The builder.                                                                *)

LEMMA Widths ==
  ASSUME NEW reg \in DOMAIN Registers
  PROVE  /\ Len(Fields[reg]) \in Nat /\ DOMAIN Fields[reg] = 1 .. Len(Fields[reg])
         /\ \A i \in DOMAIN Fields[reg] :
              /\ Fields[reg][i].field.width \in Nat
              /\ WidthUpTo(reg, i) = WidthUpTo(reg, i - 1) + Fields[reg][i].field.width
         /\ \A i \in 0 .. Len(Fields[reg]) : WidthUpTo(reg, i) \in Nat
         /\ \A i, j \in 0 .. Len(Fields[reg]) : i <= j => WidthUpTo(reg, i) <= WidthUpTo(reg, j)
<1> DEFINE n == Len(Fields[reg])
           w == [i \in 1 .. n |-> Fields[reg][i].field.width]
           total == CHOOSE f : f = [i \in 0 .. n |-> IF i = 0 THEN 0
                                                     ELSE f[i - 1] + Fields[reg][i].field.width]
<1>1. n \in Nat /\ DOMAIN Fields[reg] = 1 .. n
  BY RegistersAssumption, LenProperties
<1>2. \A i \in 1 .. n : w[i] = Fields[reg][i].field.width /\ w[i] \in Nat
  BY <1>1, RegistersAssumption
<1>3. \A i : WidthUpTo(reg, i) = total[i]
  BY DEF WidthUpTo
<1>4. \A f : IsSum(f, w, n) <=> f = [i \in 0 .. n |-> IF i = 0 THEN 0
                                                      ELSE f[i - 1] + Fields[reg][i].field.width]
  <2> SUFFICES ASSUME NEW f
               PROVE  [i \in 0 .. n |-> IF i = 0 THEN 0 ELSE f[i - 1] + w[i]]
                      = [i \in 0 .. n |-> IF i = 0 THEN 0
                                          ELSE f[i - 1] + Fields[reg][i].field.width]
    BY DEF IsSum
  <2>1. \A i \in 0 .. n : i # 0 => i \in 1 .. n
    BY <1>1
  <2> HIDE DEF w, n
  <2>2. QED  BY <1>2, <2>1
<1>5. IsSum(total, w, n)
  <2> HIDE DEF w, n
  <2>1. \E f : IsSum(f, w, n)
    BY <1>1, SumExists
  <2>2. QED  BY <1>4, <2>1
<1> HIDE DEF total, w, n
<1>6. /\ \A i \in 1 .. n : total[i] = total[i - 1] + w[i]
      /\ \A i \in 0 .. n : total[i] \in Nat
      /\ \A i, j \in 0 .. n : i <= j => total[i] <= total[j]
  BY <1>1, <1>2, <1>5, SumGrows
<1>7. QED  BY <1>1, <1>2, <1>3, <1>6 DEF n

\* A bit of a field is a bit of the register, and of no other field.
LEMMA FieldBits ==
  ASSUME NEW reg \in DOMAIN Registers,
         NEW i \in DOMAIN Fields[reg], NEW bit \in 0 .. Fields[reg][i].field.width - 1
  PROVE  /\ FieldStart(reg, i) + bit \in Bits(reg)
         /\ \A j \in DOMAIN Fields[reg] : \A other \in 0 .. Fields[reg][j].field.width - 1 :
              FieldStart(reg, i) + bit = FieldStart(reg, j) + other => i = j /\ bit = other
<1> DEFINE n == Len(Fields[reg])
           Up(k) == WidthUpTo(reg, k)
           Wide(k) == Fields[reg][k].field.width
<1>1. /\ n \in Nat /\ DOMAIN Fields[reg] = 1 .. n
      /\ \A k \in 1 .. n : Wide(k) \in Nat /\ Up(k) = Up(k - 1) + Wide(k)
      /\ \A k \in 0 .. n : Up(k) \in Nat
      /\ \A k, l \in 0 .. n : k <= l => Up(k) <= Up(l)
  BY Widths
<1>2. \A k : FieldStart(reg, k) = Up(k - 1)
  BY DEF FieldStart
<1>3. Bits(reg) = 0 .. Up(n) - 1
  BY DEF Bits, Width
<1>4. bit \in 0 .. Wide(i) - 1
  OBVIOUS
<1> HIDE DEF Up, Wide, n
<1>5. i \in 1 .. n /\ i - 1 \in 0 .. n /\ i \in 0 .. n /\ n \in 0 .. n
  BY <1>1
<1>6. Up(i - 1) + bit \in 0 .. Up(n) - 1
  <2>1. Up(i - 1) \in Nat /\ Up(i) \in Nat /\ Up(n) \in Nat /\ Wide(i) \in Nat
    BY <1>1, <1>5
  <2>2. Up(i) = Up(i - 1) + Wide(i) /\ Up(i) <= Up(n)
    BY <1>1, <1>5
  <2>3. QED  BY <1>4, <2>1, <2>2
<1>7. ASSUME NEW j \in 1 .. n, NEW other \in 0 .. Wide(j) - 1, Up(i - 1) + bit = Up(j - 1) + other
      PROVE  i = j /\ bit = other
  <2>1. j - 1 \in 0 .. n /\ j \in 0 .. n
    BY <1>1
  <2>2. /\ Up(i - 1) \in Nat /\ Up(i) \in Nat /\ Up(j - 1) \in Nat /\ Up(j) \in Nat
        /\ Wide(i) \in Nat /\ Wide(j) \in Nat
        /\ Up(i) = Up(i - 1) + Wide(i) /\ Up(j) = Up(j - 1) + Wide(j)
    BY <1>1, <1>5, <2>1
  <2>3. Up(i - 1) + bit < Up(i) /\ Up(i - 1) + bit >= Up(i - 1)
    BY <1>4, <2>2
  <2>4. Up(j - 1) + other < Up(j) /\ Up(j - 1) + other >= Up(j - 1)
    BY <2>2
  <2>5. ~(i < j) /\ ~(j < i)
    <3>1. i < j => i <= j - 1 /\ Up(i) <= Up(j - 1)
      BY <1>1, <1>5, <2>1
    <3>2. j < i => j <= i - 1 /\ Up(j) <= Up(i - 1)
      BY <1>1, <1>5, <2>1
    <3>3. Up(i - 1) + bit \in Int /\ Up(j - 1) + other \in Int
      BY <1>4, <2>2
    <3>4. QED  BY <1>7, <2>2, <2>3, <2>4, <3>1, <3>2, <3>3
  <2>6. i = j
    BY <1>1, <1>5, <2>5
  <2>7. QED  BY <1>4, <1>7, <2>2, <2>6
<1>8. ASSUME NEW j \in DOMAIN Fields[reg], NEW other \in 0 .. Fields[reg][j].field.width - 1,
             FieldStart(reg, i) + bit = FieldStart(reg, j) + other
      PROVE  i = j /\ bit = other
  <2>1. j \in 1 .. n
    BY <1>1
  <2>2. other \in 0 .. Wide(j) - 1
    BY DEF Wide
  <2>3. QED  BY <1>2, <1>7, <1>8, <2>1, <2>2
<1>9. QED  BY <1>2, <1>3, <1>6, <1>8

\* The chunks of a register have room for its bits, one place for each.
LEMMA ChunksHold ==
  ASSUME NEW reg \in DOMAIN Registers
  PROVE  /\ RegChunks(reg) \in Nat
         /\ \A bit \in Bits(reg) :
              /\ bit \div DataWidth \in 0 .. RegChunks(reg) - 1
              /\ \A other \in Bits(reg) :
                   bit \div DataWidth = other \div DataWidth /\ bit % DataWidth = other % DataWidth
                     => bit = other
<1> DEFINE d == DataWidth
           width == Width(reg)
           up == width + d - 1
           c == up \div d
<1>1. d \in Nat \ {0} /\ width \in Nat /\ up \in Nat
  <2>1. width \in Nat
    BY Widths DEF Width
  <2>2. QED  BY <2>1, GranularityAssumption
<1>2. RegChunks(reg) = c /\ Bits(reg) = 0 .. width - 1
  BY DEF RegChunks, Bits
<1> HIDE DEF d, width, up
<1>3. ASSUME NEW m \in Nat PROVE m \div d \in Nat /\ m = (m \div d) * d + (m % d) /\ m % d \in 0 .. d - 1
  <2>1. m \div d \in Nat
    BY <1>1
  <2>2. QED  BY <1>1, <2>1, Division
<1>4. c \in Nat /\ up = c * d + (up % d) /\ up % d \in 0 .. d - 1
  BY <1>1, <1>3
<1>5. ASSUME NEW bit \in 0 .. width - 1 PROVE bit \div d \in 0 .. c - 1
  <2> DEFINE q == bit \div d
  <2>1. q \in Nat /\ bit = q * d + (bit % d) /\ bit % d \in 0 .. d - 1
    BY <1>1, <1>3
  <2> HIDE DEF q, c
  <2>2. ASSUME c <= q PROVE FALSE
    <3>1. c * d <= q * d /\ c * d \in Int /\ q * d \in Int
      BY <1>1, <1>4, <2>1, <2>2
    <3> DEFINE cd == c * d
               qd == q * d
    <3>2. up = cd + (up % d) /\ bit = qd + (bit % d) /\ cd <= qd /\ cd \in Int /\ qd \in Int
      BY <1>4, <2>1, <3>1
    <3> HIDE DEF cd, qd
    <3>3. up <= qd + d - 1 /\ qd <= width - 1
      BY <1>1, <1>4, <2>1, <3>2
    <3>4. QED  BY <1>1, <3>2, <3>3 DEF up
  <2>3. QED  BY <1>4, <2>1, <2>2 DEF q
<1>6. ASSUME NEW bit \in 0 .. width - 1, NEW other \in 0 .. width - 1,
             bit \div d = other \div d, bit % d = other % d
      PROVE  bit = other
  <2>1. bit \in Int /\ other \in Int
    BY <1>1
  <2>2. bit = (bit \div d) * d + (bit % d) /\ other = (other \div d) * d + (other % d)
    BY <1>1, <2>1, Division
  <2>3. QED  BY <1>6, <2>2
<1>7. QED  BY <1>2, <1>4, <1>5, <1>6 DEF d

-----------------------------------------------------------------------------
(* The invariant of a layout.                                                  *)
Entry == [reg : DOMAIN Registers, name : Name, offset : Nat \cup {NoOffset}]

BuilderInv == registers \in Seq(Entry) /\ scope \in Name

\* A range is within the map, and that of a register has room for its chunks.
Sized ==
  \A i \in DOMAIN keys :
    /\ keys[i].stop <= 2^AddrWidth
    /\ keys[i].item \in DOMAIN Registers =>
         RegChunks(keys[i].item) <= keys[i].stop - keys[i].start

RangeInMap(r) ==
  r.start \in Nat /\ r.stop \in Nat /\ r.start < r.stop /\ r.stop <= 2^AddrWidth

\* A shadow is as large as several registers that were rounded up, of each.
ShadowInv ==
  /\ size \in Nat \ {0}
  /\ stage = "adding" => size \in Shadow!PowersOfTwo
  /\ \A r \in ranges : RangeInMap(r) /\ size % Shadow!RegSize(r) = 0

LayoutInv == IInv /\ Sized /\ BuilderInv /\ ShadowInv

LEMMA InsertedOrOld ==
  ASSUME TypeInv, Ordered, NEW key \in Key, Insert(key)
  PROVE  \A i \in DOMAIN keys' : keys'[i] = key \/ \E j \in DOMAIN keys : keys'[i] = keys[j]
<1>1. PICK p \in 0 .. Len(keys) :
        /\ DOMAIN keys' = 1 .. Len(keys) + 1
        /\ keys'[p + 1] = key
        /\ \A i \in 1 .. Len(keys) + 1 :
             \/ i = p + 1
             \/ i <= p /\ i \in 1 .. Len(keys) /\ keys'[i] = keys[i]
             \/ i > p + 1 /\ i - 1 \in 1 .. Len(keys) /\ keys'[i] = keys[i - 1]
  BY InsertKeys
<1>2. DOMAIN keys = 1 .. Len(keys)
  BY LenProperties DEF TypeInv
<1>3. QED  BY <1>1, <1>2

LEMMA PlaceSized ==
  ASSUME IInv, Sized, NEW key \in Key, Insert(key), key.stop <= 2^AddrWidth,
         key.item \in DOMAIN Registers => RegChunks(key.item) <= key.stop - key.start
  PROVE  Sized'
<1>1. \A i \in DOMAIN keys' : keys'[i] = key \/ \E j \in DOMAIN keys : keys'[i] = keys[j]
  BY InsertedOrOld DEF IInv
<1>2. QED  BY <1>1 DEF Sized

LEMMA AddResourceSized ==
  ASSUME IInv, Sized, NEW r \in Items \ DOMAIN Windows, NEW name \in Name, NEW asked \in Nat,
         NEW addr \in Nat \cup {NoAddr}, NEW alignment, 2^MaxOf(alignment, Alignment) \in Nat \ {0},
         AddResource(r, name, asked, addr, alignment),
         r \in DOMAIN Registers => RegChunks(r) <= asked
  PROVE  Sized'
<1>1. PICK range : range = ComputeRange(addr, asked, MaxOf(alignment, Alignment))
  OBVIOUS
<1> DEFINE key == [start |-> range.start, stop |-> range.stop, step |-> 1, item |-> r, name |-> name]
<1>2. Insert(key) /\ range.stop <= 2^AddrWidth
  BY <1>1 DEF AddResource, Accepted, Place
<1>3. /\ range.start \in Nat /\ range.stop \in Nat /\ range.start < range.stop
      /\ asked <= range.stop - range.start
  BY <1>1, RangeType DEF IInv
<1>4. key \in Key /\ key.stop <= 2^AddrWidth
  BY <1>2, <1>3 DEF Key
<1>5. key.item \in DOMAIN Registers => RegChunks(key.item) <= key.stop - key.start
  BY <1>3, ChunksHold
<1> HIDE DEF key
<1>6. QED  BY <1>2, <1>4, <1>5, PlaceSized

LEMMA AddWindowSized ==
  ASSUME IInv, Sized, NEW w \in DOMAIN Windows, NEW addr \in Nat \cup {NoAddr}, AddWindow(w, addr)
  PROVE  Sized'
<1> DEFINE ratio == Windows[w].ratio
           asked == 2^Windows[w].addr_width \div ratio
           n == MaxOf(Alignment, Windows[w].addr_width \div ratio)
<1>1. PICK range : range = ComputeRange(addr, asked, n)
  OBVIOUS
<1> DEFINE key == [start |-> range.start, stop |-> range.stop, step |-> ratio, item |-> w,
                   name |-> Windows[w].name]
<1>2. Insert(key) /\ range.stop <= 2^AddrWidth
  BY <1>1 DEF AddWindow, Accepted, Place
<1>3. ratio \in Nat \ {0} /\ asked \in Nat /\ 2^n \in Nat \ {0}
  <2>1. ratio \in Nat \ {0} /\ 2^Windows[w].addr_width \in Nat /\ 2^n \in Nat \ {0}
    BY WindowsAssumption, Powers
  <2>2. QED  BY <2>1
<1>4. Windows[w].name \in Name /\ w \in Items /\ w \notin DOMAIN Registers
  BY WindowsAssumption, LayoutAssumption DEF Name, Items
<1> HIDE DEF n, asked
<1>5. range.start \in Nat /\ range.stop \in Nat /\ range.start < range.stop
  BY <1>1, <1>3, RangeType DEF IInv
<1>6. key \in Key /\ key.stop <= 2^AddrWidth /\ key.item \notin DOMAIN Registers
  BY <1>2, <1>3, <1>4, <1>5 DEF Key
<1> HIDE DEF key
<1>7. QED  BY <1>2, <1>6, PlaceSized

LEMMA CallStep ==
  ASSUME IInv, Sized, Call
  PROVE  IInv' /\ Sized'
<1>1. ASSUME NEW r \in DOMAIN Resources, NEW asked \in Sizes, NEW addr \in Addresses \union {NoAddr},
             NEW alignment \in Alignments, AddResource(r, Resources[r], asked, addr, alignment)
      PROVE  Sized'
  <2>1. r \in Items \ DOMAIN Windows /\ Resources[r] \in Name /\ r \notin DOMAIN Registers
    BY ResourcesAssumption, LayoutAssumption DEF Items, Name
  <2>2. 2^MaxOf(alignment, Alignment) \in Nat \ {0}
    BY Powers
  <2>3. asked \in Nat /\ addr \in Nat \cup {NoAddr}
    BY ArgumentsAssumption
  <2>4. QED  BY <1>1, <2>1, <2>2, <2>3, AddResourceSized
<1>2. ASSUME NEW w \in DOMAIN Windows, NEW addr \in Addresses \union {NoAddr}, AddWindow(w, addr)
      PROVE  Sized'
  BY <1>2, AddWindowSized, ArgumentsAssumption
<1>3. ASSUME NEW alignment \in Alignments, AlignTo(alignment) PROVE Sized'
  BY <1>3 DEF AlignTo, Sized
<1>4. ASSUME Freeze PROVE Sized'
  BY <1>4 DEF Freeze, Sized
<1>5. Sized'
  BY <1>1, <1>2, <1>3, <1>4 DEF Call
<1>6. QED  BY <1>5, NextIInv

\* A register of a builder is a resource of its name and size.
LEMMA AskMapStep ==
  ASSUME LayoutInv, NEW entry \in Entry, AskMap(entry)
  PROVE  IInv' /\ Sized'
<1> DEFINE chunks == RegChunks(entry.reg)
<1>1. entry.reg \in DOMAIN Registers /\ entry.name \in Name /\ entry.offset \in Nat \cup {NoOffset}
  BY DEF Entry
<1>2. chunks \in Nat
  BY <1>1, ChunksHold
<1>3. AddResource(entry.reg, entry.name, chunks, RegAddr(entry), CeilLog2(chunks))
  BY DEF AskMap
<1>4. RegAddr(entry) \in Nat \cup {NoAddr}
  <2>1. DataWidth \in Nat \ {0} /\ Granularity \in Nat
    BY GranularityAssumption
  <2>2. \A m \in Nat : m * Granularity \in Nat
    BY <2>1
  <2>3. \A m \in Nat : m \div DataWidth \in Nat
    BY <2>1
  <2>4. entry.offset # NoOffset => (entry.offset * Granularity) \div DataWidth \in Nat
    BY <1>1, <2>2, <2>3
  <2>5. QED  BY <2>4 DEF RegAddr, NoOffset, NoAddr
<1>5. 2^MaxOf(CeilLog2(chunks), Alignment) \in Nat \ {0}
  <2>1. 2^CeilLog2(chunks) \in Nat \ {0}
    BY <1>1, LayoutAssumption
  <2>2. Alignment \in Nat /\ 2^Alignment > 0
    BY WidthAssumption, PowersAssumption
  <2>3. \A n \in Nat : 2^n > 0 => 2^n \in Nat \ {0}
    OBVIOUS
  <2>4. \A a, b : MaxOf(a, b) = a \/ MaxOf(a, b) = b
    BY DEF MaxOf
  <2>5. QED  BY <2>1, <2>2, <2>3, <2>4, Zenon
<1>6. entry.reg \in Items \ DOMAIN Windows
  BY <1>1, LayoutAssumption DEF Items
<1>7. chunks <= chunks
  BY <1>2
<1> HIDE DEF chunks
<1>8. entry.reg \in DOMAIN Registers => RegChunks(entry.reg) <= chunks
  BY <1>7 DEF chunks
<1>9. IInv /\ Sized
  BY DEF LayoutInv
<1>10. IInv'
  BY <1>1, <1>2, <1>3, <1>4, <1>5, <1>6, <1>9, AddResourceStep
<1>11. Sized'
  BY <1>1, <1>2, <1>3, <1>4, <1>5, <1>6, <1>8, <1>9, AddResourceSized
<1>12. QED  BY <1>10, <1>11

LEMMA MapNextStep ==
  ASSUME LayoutInv, MapNext
  PROVE  IInv' /\ Sized'
<1>1. ASSUME NEW i \in DOMAIN registers, AskMap(registers[i]) PROVE IInv' /\ Sized'
  <2>1. registers[i] \in Entry
    BY ElementOfSeq DEF LayoutInv, BuilderInv
  <2>2. QED  BY <1>1, <2>1, AskMapStep
<1>2. CASE Freeze
  BY <1>2, CallStep DEF LayoutInv, Call
<1>3. CASE UNCHANGED mapVars
  BY <1>3, NextIInv DEF LayoutInv, Sized, mapVars, vars
<1>4. QED  BY <1>1, <1>2, <1>3 DEF MapNext

LEMMA BuildStep ==
  ASSUME BuilderInv, Build
  PROVE  BuilderInv'
<1>1. ASSUME NEW label \in Labels, Enter(label) PROVE BuilderInv'
  BY <1>1, CallsAssumption, AppendProperties DEF BuilderInv, Enter, Name
<1>2. CASE Leave
  <2>1. Len(scope) \in Nat /\ scope' = SubSeq(scope, 1, Len(scope) - 1)
        /\ \A i \in 1 .. Len(scope) - 1 : scope[i] \in STRING
    BY <1>2, ElementOfSeq, LenProperties DEF BuilderInv, Leave, Name
  <2>2. SubSeq(scope, 1, Len(scope) - 1) \in Seq(STRING)
    BY <2>1, SubSeqProperties
  <2>3. QED  BY <1>2, <2>1, <2>2 DEF BuilderInv, Leave, Name
<1>3. ASSUME NEW reg \in DOMAIN Registers, NEW offset \in Offsets \union {NoOffset}, Add(reg, offset)
      PROVE  BuilderInv'
  <2> DEFINE entry == [reg |-> reg, name |-> Append(scope, reg), offset |-> offset]
  <2>1. Append(scope, reg) \in Name
    BY RegistersAssumption, AppendProperties DEF BuilderInv, Name
  <2>2. entry \in Entry
    BY <2>1, CallsAssumption DEF Entry
  <2>3. registers' = Append(registers, entry) /\ UNCHANGED scope
    BY <1>3 DEF Add
  <2> HIDE DEF entry
  <2>4. QED  BY <2>2, <2>3, AppendProperties DEF BuilderInv
<1>4. CASE Finish
  BY <1>4 DEF Finish, BuilderInv
<1>5. QED  BY <1>1, <1>2, <1>3, <1>4 DEF Build

-----------------------------------------------------------------------------
(* The shadow.                                                                 *)
LEMMA RegSizeFits ==
  ASSUME NEW r, RangeInMap(r)
  PROVE  /\ Shadow!RegSize(r) \in Shadow!PowersOfTwo /\ Shadow!RegSize(r) \in Nat \ {0}
         /\ r.stop - r.start <= Shadow!RegSize(r)
<1> DEFINE fitting == {n \in Shadow!PowersOfTwo : Shadow!Length(r) <= n}
           most == 2^AddrWidth
<1>1. 2^most \in Shadow!PowersOfTwo /\ most \in Nat
  BY LayoutAssumption DEF Shadow!PowersOfTwo
<1>2. fitting \in SUBSET Nat /\ fitting # {}
  <2>1. 2^most \in Nat /\ most <= 2^most
    BY <1>1, LayoutAssumption
  <2>2. Shadow!Length(r) \in Int /\ Shadow!Length(r) <= most
    BY <1>1 DEF Shadow!Length, RangeInMap
  <2> HIDE DEF most
  <2>3. Shadow!Length(r) <= 2^most
    BY <1>1, <2>1, <2>2
  <2>4. QED  BY <1>1, <2>3, LayoutAssumption
<1>3. PICK least \in fitting : \A n \in fitting : least <= n
  <2> HIDE DEF fitting
  <2>1. QED  BY <1>2, LeastExists
<1>4. Shadow!RegSize(r) \in Shadow!PowersOfTwo /\ Shadow!Length(r) <= Shadow!RegSize(r)
  BY <1>3 DEF Shadow!RegSize
<1>5. QED  BY <1>4, LayoutAssumption DEF Shadow!Length

LEMMA ElaborateStep ==
  ASSUME LayoutInv, Elaborate
  PROVE  ShadowInv'
<1>1. ShadowInv
  BY DEF LayoutInv
<1>2. ASSUME NEW r \in RangesToAdd, Shadow!Add(r) PROVE ShadowInv'
  <2>1. RangeInMap(r)
    <3>1. PICK i \in DOMAIN keys : r = [start |-> keys[i].start, stop |-> keys[i].stop]
      BY DEF RangesToAdd
    <3>2. keys[i].start \in Nat /\ keys[i].stop \in Nat /\ keys[i].start < keys[i].stop
      BY KeyType DEF LayoutInv
    <3>3. keys[i].stop <= 2^AddrWidth
      BY DEF LayoutInv, Sized
    <3>4. QED  BY <3>1, <3>2, <3>3 DEF RangeInMap
  <2>2. /\ stage = "adding" /\ stage' = "adding" /\ ranges' = ranges \cup {r}
        /\ size' = IF Shadow!RegSize(r) > size THEN Shadow!RegSize(r) ELSE size
    BY <1>2 DEF Shadow!Add, Shadow!GrownTo
  <2>3. size \in Shadow!PowersOfTwo /\ size \in Nat \ {0}
    BY <1>1, <2>2 DEF ShadowInv
  <2>4. Shadow!RegSize(r) \in Shadow!PowersOfTwo /\ Shadow!RegSize(r) \in Nat \ {0}
    BY <2>1, RegSizeFits
  <2>5. size' \in Shadow!PowersOfTwo /\ size' \in Nat \ {0} /\ size <= size' /\ Shadow!RegSize(r) <= size'
    BY <2>2, <2>3, <2>4
  <2>6. size' % Shadow!RegSize(r) = 0
    BY <2>4, <2>5, LayoutAssumption
  <2>7. ASSUME NEW s \in ranges PROVE RangeInMap(s) /\ size' % Shadow!RegSize(s) = 0
    <3>1. RangeInMap(s) /\ size % Shadow!RegSize(s) = 0
      BY <1>1 DEF ShadowInv
    <3>2. Shadow!RegSize(s) \in Shadow!PowersOfTwo /\ Shadow!RegSize(s) \in Nat \ {0}
      BY <3>1, RegSizeFits
    <3>3. Shadow!RegSize(s) <= size
      <4>1. \A d, n \in Nat \ {0} : n % d = 0 => d <= n
        OBVIOUS
      <4>2. QED  BY <2>3, <3>1, <3>2, <4>1
    <3>4. Shadow!RegSize(s) <= size'
      BY <2>3, <2>5, <3>2, <3>3
    <3>5. QED  BY <2>5, <3>1, <3>2, <3>4, LayoutAssumption
  <2>8. \A s : (Shadow!RegSize(s))' = Shadow!RegSize(s) /\ (RangeInMap(s)' <=> RangeInMap(s))
    BY DEF RangeInMap, Shadow!RegSize, Shadow!Length, Shadow!PowersOfTwo
  <2>9. Shadow!PowersOfTwo' = Shadow!PowersOfTwo
    BY DEF Shadow!PowersOfTwo
  <2>10. QED  BY <2>1, <2>2, <2>5, <2>6, <2>7, <2>8, <2>9 DEF ShadowInv
<1>3. ASSUME UNCHANGED <<ranges, size>>, stage' # "adding" PROVE ShadowInv'
  BY <1>1, <1>3 DEF ShadowInv, RangeInMap
<1>4. CASE Shadow!Prepare
  BY <1>3, <1>4 DEF Shadow!Prepare
<1>5. CASE Shadow!Freeze
  BY <1>3, <1>5 DEF Shadow!Freeze
<1>6. CASE Shadow!Double
  <2>1. /\ stage' = stage /\ stage # "adding" /\ ranges' = ranges
        /\ size' = size \/ size' = 2 * size
    BY <1>6 DEF Shadow!Double
  <2>2. size' \in Nat \ {0}
    BY <1>1, <2>1 DEF ShadowInv
  <2>3. ASSUME NEW r \in ranges PROVE RangeInMap(r) /\ size' % Shadow!RegSize(r) = 0
    <3>1. RangeInMap(r) /\ size % Shadow!RegSize(r) = 0 /\ size \in Nat
      BY <1>1 DEF ShadowInv
    <3>2. Shadow!RegSize(r) \in Nat \ {0}
      BY <3>1, RegSizeFits
    <3>3. \A d \in Nat \ {0}, n \in Nat : n % d = 0 => (2 * n) % d = 0
      <4>1. TAKE d \in Nat \ {0}, n \in Nat
      <4>2. HAVE n % d = 0
      <4>3. n \div d \in Int /\ n = (n \div d) * d + (n % d)
        BY Division
      <4> DEFINE k == n \div d
      <4>4. k \in Int /\ 2 * n = (2 * k) * d
        BY <4>2, <4>3
      <4> HIDE DEF k
      <4>5. \A m \in Int : (m * d) % d = 0
        OBVIOUS
      <4>6. 2 * k \in Int
        BY <4>4
      <4>7. QED  BY <4>4, <4>5, <4>6
    <3>4. QED  BY <2>1, <3>1, <3>2, <3>3
  <2>4. \A r : (Shadow!RegSize(r))' = Shadow!RegSize(r) /\ (RangeInMap(r)' <=> RangeInMap(r))
    BY DEF RangeInMap, Shadow!RegSize, Shadow!Length, Shadow!PowersOfTwo
  <2>5. QED  BY <2>1, <2>2, <2>3, <2>4 DEF ShadowInv
<1>7. QED  BY <1>2, <1>4, <1>5, <1>6 DEF Elaborate

\* Every address of a range has a chunk, and the chunk leads back to it.
LEMMA RoundTrip ==
  ASSUME NEW r, RangeInMap(r), NEW n \in Nat \ {0}, n % Shadow!RegSize(r) = 0,
         NEW addr \in Shadow!AddressesOf(r)
  PROVE  LET offset == Shadow!DecodeAddress(addr, r, n)
         IN  offset \in 0 .. n - 1 /\ Shadow!EncodeOffset(offset, r) = addr
<1> DEFINE d == Shadow!RegSize(r)
           bottom == r.start % n
           upper == bottom \div d
           low == addr % d
           high == addr \div d
           offset == upper * d + low
<1>1. r.start \in Nat /\ addr \in Nat /\ r.start <= addr /\ addr < r.stop /\ r.stop \in Nat
  BY DEF RangeInMap, Shadow!AddressesOf
<1>2. d \in Nat \ {0} /\ r.stop - r.start <= d
  BY RegSizeFits
<1>3. Shadow!DecodeAddress(addr, r, n) = offset
      /\ Shadow!EncodeOffset(offset, r) = r.start + ((offset - r.start) % d)
  BY DEF Shadow!DecodeAddress, Shadow!EncodeOffset
<1>4. n % d = 0
  OBVIOUS
<1> HIDE DEF d
<1>a. ASSUME NEW x \in Int, NEW e \in Nat \ {0}
      PROVE  x \div e \in Int /\ x % e \in 0 .. e - 1 /\ x = (x \div e) * e + (x % e)
  BY Division
<1>b. r.start \in Int /\ addr \in Int
  BY <1>1
<1>5. bottom \in 0 .. n - 1
  BY <1>a, <1>b, Zenon
<1>6. upper \in Int /\ bottom = upper * d + (bottom % d) /\ bottom % d \in 0 .. d - 1
  <2> HIDE DEF bottom
  <2>1. bottom \in Int
    BY <1>5
  <2>2. QED  BY <1>2, <2>1, Division
<1>7. low \in 0 .. d - 1 /\ addr = high * d + low /\ high \in Int
  BY <1>2, <1>a, <1>b, Zenon
<1>8. n = (n \div d) * d /\ n \div d \in Int
  BY <1>2, <1>4, Division
<1> DEFINE count == n \div d
           um == upper * d
           hm == high * d
<1>9. upper \in Nat
  <2> HIDE DEF bottom
  <2>1. \A m \in Nat : m \div d \in Nat
    BY <1>2
  <2>2. QED  BY <1>5, <2>1
<1> HIDE DEF bottom, upper, low, high, count
\* What is below n by a remainder is below it by d.
<1>10. um + d <= n /\ um \in Nat
  <2>1. um \in Nat /\ um <= bottom /\ bottom < n
    <3>1. upper * d \in Nat
      BY <1>2, <1>9
    <3>2. um \in Nat
      BY <3>1
    <3> HIDE DEF um
    <3>3. bottom = um + (bottom % d)
      BY <1>6 DEF um
    <3>4. QED  BY <1>2, <1>5, <1>6, <3>2, <3>3
  <2>2. n = count * d /\ count \in Int
    BY <1>8 DEF count
  <2>3. upper < count
    <3>1. count <= upper => count * d <= upper * d
      BY <1>2, <1>9, <2>2
    <3> HIDE DEF um
    <3>2. ~(n <= um)
      BY <1>5, <2>1
    <3>3. QED  BY <1>9, <2>2, <3>1, <3>2 DEF um
  <2>4. (upper + 1) * d <= count * d
    BY <1>2, <1>9, <2>2, <2>3
  <2>5. (upper + 1) * d = um + d
    BY <1>2, <1>9
  <2>6. QED  BY <2>1, <2>2, <2>4, <2>5
<1>11. offset = um + low
  OBVIOUS
<1>12. hm \in Int /\ addr = hm + low
  BY <1>2, <1>7
<1>13. (um - hm) % d = 0 /\ um - hm \in Int
  <2>1. upper - high \in Int /\ um - hm = (upper - high) * d
    BY <1>2, <1>7, <1>9
  <2>2. \A k \in Int : (k * d) % d = 0 /\ k * d \in Int
    BY <1>2
  <2>3. QED  BY <2>1, <2>2
<1> HIDE DEF um, hm, offset
<1>14. offset \in 0 .. n - 1
  BY <1>2, <1>7, <1>10, <1>11
<1>15. (offset - r.start) % d = addr - r.start
  <2>1. offset - r.start = (um - hm) + (addr - r.start)
    BY <1>1, <1>2, <1>7, <1>10, <1>11, <1>12
  <2> DEFINE m == um - hm
             x == offset - r.start
  <2>2. m \in Int /\ m % d = 0 /\ x = m + (addr - r.start) /\ x \in Int
    BY <1>1, <1>13, <1>14, <2>1
  <2> HIDE DEF m, x
  <2>3. m <= x /\ x < m + d
    BY <1>1, <1>2, <2>2
  <2>4. x % d = x - m
    BY <1>2, <2>2, <2>3, RemainderInWindow
  <2>5. QED  BY <1>1, <2>2, <2>4 DEF x
<1>16. r.start + (addr - r.start) = addr
  BY <1>1
<1>17. QED  BY <1>3, <1>14, <1>15, <1>16

LEMMA LayoutStep == LayoutInv /\ [LayoutNext]_allVars => LayoutInv'
<1> SUFFICES ASSUME LayoutInv, [LayoutNext]_allVars PROVE LayoutInv'
  OBVIOUS
<1>1. UNCHANGED <<registers, scope>> => BuilderInv'
  BY DEF LayoutInv, BuilderInv
<1>2. UNCHANGED <<ranges, size, stage>> => ShadowInv'
  BY DEF LayoutInv, ShadowInv, RangeInMap, Shadow!RegSize, Shadow!Length, Shadow!PowersOfTwo
<1>3. UNCHANGED mapVars => IInv' /\ Sized'
  BY NextIInv DEF LayoutInv, Sized, mapVars, vars
<1>4. ASSUME Build, UNCHANGED <<mapVars, ranges, size, stage>> PROVE LayoutInv'
  BY <1>2, <1>3, <1>4, BuildStep DEF LayoutInv
<1>5. CASE MapNext
  BY <1>1, <1>2, <1>5, MapNextStep DEF LayoutInv, MapNext, builderVars
<1>6. ASSUME Call, UNCHANGED <<builderVars, ranges, size, stage>> PROVE LayoutInv'
  BY <1>1, <1>2, <1>6, CallStep DEF LayoutInv, builderVars
<1>7. CASE Elaborate
  BY <1>1, <1>3, <1>7, ElaborateStep DEF LayoutInv, Elaborate, builderVars
<1>8. CASE UNCHANGED allVars
  BY <1>1, <1>2, <1>3, <1>8 DEF LayoutInv, allVars, builderVars, mapVars
<1>9. QED  BY <1>4, <1>5, <1>6, <1>7, <1>8 DEF LayoutNext

LEMMA StartsInLayoutInv == LayoutInit => LayoutInv
<1> SUFFICES ASSUME LayoutInit PROVE LayoutInv
  OBVIOUS
<1>1. IInv
  BY InitIInv DEF LayoutInit
<1>2. Sized
  <2>1. DOMAIN keys = {}
    BY EmptySeq DEF LayoutInit, Init
  <2>2. QED  BY <2>1 DEF Sized
<1>3. BuilderInv
  BY EmptySeq DEF LayoutInit, BuilderInit, BuilderInv, Name
<1>4. ShadowInv
  BY LayoutAssumption DEF LayoutInit, Shadow!Init, ShadowInv
<1>5. QED  BY <1>1, <1>2, <1>3, <1>4 DEF LayoutInv

LEMMA LayoutInvariance == LayoutSpec => []LayoutInv
BY StartsInLayoutInv, LayoutStep, PTL DEF LayoutSpec

-----------------------------------------------------------------------------
(* Fields and chunks.                                                          *)

\* The bits of a register's fields are where the map decodes them to it.
LEMMA FieldsFollow == LayoutInv => FieldBitsAreReached
<1> DEFINE Reached(k, reg, i, bit) ==
             LET position == Position(keys[k], FieldStart(reg, i) + bit)
             IN  /\ DecodeAddress(position[1]) = {<<reg>>}
                 /\ \A j \in DOMAIN Fields[reg] : \A other \in 0 .. Fields[reg][j].field.width - 1 :
                      Position(keys[k], FieldStart(reg, j) + other) = position
                        => i = j /\ bit = other
<1>0. FieldBitsAreReached <=>
        \A k \in {i \in DOMAIN keys : keys[i].item \in DOMAIN Registers} :
          \A i \in DOMAIN Fields[keys[k].item] :
            \A bit \in 0 .. Fields[keys[k].item][i].field.width - 1 : Reached(k, keys[k].item, i, bit)
  BY DEF FieldBitsAreReached
<1> HIDE DEF Reached
<1> SUFFICES ASSUME LayoutInv, NEW k \in DOMAIN keys, NEW reg, reg = keys[k].item,
                    reg \in DOMAIN Registers,
                    NEW i \in DOMAIN Fields[reg],
                    NEW bit \in 0 .. Fields[reg][i].field.width - 1
             PROVE  Reached(k, reg, i, bit)
  BY <1>0, Zenon
<1> DEFINE place == FieldStart(reg, i) + bit
           address == keys[k].start + (place \div DataWidth)
<1>1. /\ place \in Bits(reg)
      /\ \A j \in DOMAIN Fields[reg] : \A other \in 0 .. Fields[reg][j].field.width - 1 :
           /\ FieldStart(reg, j) + other \in Bits(reg)
           /\ place = FieldStart(reg, j) + other => i = j /\ bit = other
  BY FieldBits
<1>2. /\ RegChunks(reg) \in Nat
      /\ place \div DataWidth \in 0 .. RegChunks(reg) - 1
      /\ \A other \in Bits(reg) :
           place \div DataWidth = other \div DataWidth /\ place % DataWidth = other % DataWidth
             => place = other
  <2> HIDE DEF place
  <2>1. QED  BY <1>1, ChunksHold
<1>3. \A other \in Bits(reg) : other \div DataWidth \in Int
  BY ChunksHold
<1> HIDE DEF place
<1>4. /\ keys[k].start \in Nat /\ keys[k].stop \in Nat
      /\ RegChunks(reg) <= keys[k].stop - keys[k].start
  BY KeyType DEF LayoutInv, Sized
<1>5. address \in Nat /\ InRange(keys[k], address)
  <2> DEFINE q == place \div DataWidth
  <2>1. q \in 0 .. RegChunks(reg) - 1
    BY <1>2
  <2> HIDE DEF q
  <2>2. keys[k].start + q \in Nat /\ keys[k].start + q < keys[k].stop /\ keys[k].start <= keys[k].start + q
    BY <1>2, <1>4, <2>1
  <2>3. QED  BY <2>2 DEF q, InRange
<1>6. IsResource(keys[k])
  BY LayoutAssumption DEF IsResource
<1> HIDE DEF address
<1>7. DecodeAddress(address) = {<<reg>>}
  <2>1. ASSUME NEW j \in DOMAIN keys, InRange(keys[j], address) PROVE j = k
    <3>1. keys[j].start \in Nat /\ keys[j].stop \in Nat
      BY KeyType DEF LayoutInv
    <3>2. ~(keys[j].stop <= keys[k].start) /\ ~(keys[k].stop <= keys[j].start)
      BY <1>4, <1>5, <2>1, <3>1 DEF InRange
    <3>3. ~(j < k) /\ ~(k < j)
      BY <3>2 DEF LayoutInv, IInv, Ordered
    <3>4. j \in Nat /\ k \in Nat
      BY LenProperties DEF LayoutInv, IInv, TypeInv
    <3>5. QED  BY <3>3, <3>4
  <2>2. Leads(keys[k], address) = {<<reg>>}
    BY <1>6 DEF Leads
  <2>3. \A id : id \in DecodeAddress(address) <=>
          \E j \in DOMAIN keys : InRange(keys[j], address) /\ id \in Leads(keys[j], address)
    BY <1>5, Decoded DEF LayoutInv
  <2>4. \A id : id \in DecodeAddress(address) <=> id \in {<<reg>>}
    BY <1>5, <2>1, <2>2, <2>3, Zenon
  <2>5. QED  BY <2>4
<1>8. ASSUME NEW j \in DOMAIN Fields[reg], NEW other \in 0 .. Fields[reg][j].field.width - 1,
             Position(keys[k], FieldStart(reg, j) + other) = Position(keys[k], place)
      PROVE  i = j /\ bit = other
  <2> DEFINE place2 == FieldStart(reg, j) + other
  <2>1. place2 \in Bits(reg) /\ (place = place2 => i = j /\ bit = other)
    BY <1>1
  <2> HIDE DEF place2
  <2>2. /\ keys[k].start + (place2 \div DataWidth) = keys[k].start + (place \div DataWidth)
        /\ place2 % DataWidth = place % DataWidth
    <3>1. <<keys[k].start + (place2 \div DataWidth), place2 % DataWidth>>
          = <<keys[k].start + (place \div DataWidth), place % DataWidth>>
      BY <1>8 DEF Position, place2
    <3>2. \A x, y, z, w : <<x, y>> = <<z, w>> => x = z /\ y = w
      OBVIOUS
    <3>3. QED  BY <3>1, <3>2, Zenon
  <2>3. place2 \div DataWidth = place \div DataWidth
    <3>1. place2 \div DataWidth \in Int /\ place \div DataWidth \in Int
      BY <1>1, <1>3, <2>1
    <3>2. \A x, y \in Int, n \in Nat : n + x = n + y => x = y
      OBVIOUS
    <3>3. QED  BY <1>4, <2>2, <3>1, <3>2, Zenon
  <2>4. QED  BY <1>2, <2>1, <2>2, <2>3, Zenon
<1>9. Position(keys[k], place)[1] = address
  <2>1. \A x, y : <<x, y>>[1] = x
    OBVIOUS
  <2>2. QED  BY <2>1, Zenon DEF Position, address
<1>10. QED  BY <1>7, <1>8, <1>9 DEF place, Reached

LEMMA ChunksFollow == LayoutInv => ChunksRoundTrip
<1> SUFFICES ASSUME LayoutInv, NEW r \in ranges, NEW addr \in Shadow!AddressesOf(r)
             PROVE  LET offset == Shadow!DecodeAddress(addr, r, size)
                    IN  offset \in 0 .. size - 1 /\ Shadow!EncodeOffset(offset, r) = addr
  BY DEF ChunksRoundTrip
<1>1. size \in Nat \ {0} /\ RangeInMap(r) /\ size % Shadow!RegSize(r) = 0
  BY DEF LayoutInv, ShadowInv
<1>2. QED  BY <1>1, RoundTrip

-----------------------------------------------------------------------------
(* Theorems.  A map alone, with its callers, and a map of a builder's or its   *)
(* callers' registers for which a shadow is laid out.                          *)

\* decode_address, find_resource and all_resources agree, for all widths,
\* sizes, alignments and data width ratios (memory.py).
THEOREM LookupsAlwaysAgree == (Spec => []LookupsAgree) /\ (LayoutSpec => []LookupsAgree)
<1>1. LayoutInv => LookupsAgree
  BY LookupsFollow DEF LayoutInv
<1>2. QED  BY <1>1, LookupsFollow, Invariance, LayoutInvariance, PTL

\* No path in the map is or leads to another, through windows with and without
\* names (memory.py, _Namespace).
THEOREM PathsStayDistinct == (Spec => []PathsAreDistinct) /\ (LayoutSpec => []PathsAreDistinct)
<1>1. LayoutInv => PathsAreDistinct
  BY PathsFollow DEF LayoutInv
<1>2. QED  BY <1>1, PathsFollow, Invariance, LayoutInvariance, PTL

\* The pattern of a window selects it, and no other, at the addresses that lead
\* through it, where the windows are sparse and aligned (memory.py, _addr_pattern
\* and window_patterns).
THEOREM PlainPatternsAlwaysSelect ==
  (Spec => []PlainPatternsSelect) /\ (LayoutSpec => []PlainPatternsSelect)
<1>1. LayoutInv => PlainPatternsSelect
  BY PatternsFollow DEF LayoutInv
<1>2. QED  BY <1>1, PatternsFollow, Invariance, LayoutInvariance, PTL

\* For all registers with all collections of fields, for all data widths,
\* granularities, offsets and alignments, and whatever the order of the builder's
\* calls: every bit of a field is at an address that decodes to its register,
\* and has that place for itself (csr/reg.py, Builder and Register; memory.py).
THEOREM FieldBitsAreAlwaysReached == LayoutSpec => []FieldBitsAreReached
BY FieldsFollow, LayoutInvariance, PTL

\* While a shadow grows, register by register and then in prepare(), for all
\* maps and numbers of overlaps: every address of a register has a chunk in it,
\* and encode_offset leads from there back to it (csr/bus.py, _Shadow).
THEOREM ChunksAlwaysRoundTrip == LayoutSpec => []ChunksRoundTrip
BY ChunksFollow, LayoutInvariance, PTL
=============================================================================
