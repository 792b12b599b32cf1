--------------------------- MODULE EventLogProofs ---------------------------
(***************************************************************************)
(* Safety of EventLog, for a ring of any size, a tail of any size and any  *)
(* number of events, and the refinement of EventWindow.                    *)
(*                                                                         *)
(* The argument: the slots in use are the used slots before head (Sound);  *)
(* appending moves both by one, and opening puts the r-th line replayed    *)
(* where the r-th append would have, whatever lines there are (Reopened).  *)
(* Without failures of the file system a line in the tail is followed by   *)
(* the line of the next number (Chained), so the window is consecutive     *)
(* (Follows).  If in addition every line fits the tail (LinesFit), line k  *)
(* of the file is event k (Recorded), an open finds the last of them, and  *)
(* the window is the latest used numbers (Latest).                         *)
(***************************************************************************)
EXTENDS EventLog, SequenceTheorems, FiniteSetTheorems, TLAPS

(* The slots of r that hold an event are the u slots before h, the last of *)
(* them that of n and the first that of o.                                 *)
SoundAt(r, h, u, n, o) ==
  /\ \A i \in 0 .. u - 1 : r[SlotOf(h, u, i)] > 0
  /\ \A j \in Slots : r[j] > 0 => \E i \in 0 .. u - 1 : j = SlotOf(h, u, i)
  /\ u > 0 => r[SlotOf(h, u, u - 1)] = n /\ r[SlotOf(h, u, 0)] = o
  /\ u = 0 => n = 0

Sound == SoundAt(ring, head, used, newest, oldest)

(* The generations in the file have a bound. *)
Bounded == \E b \in Nat : \A k \in 1 .. Len(file) : file[k].gen <= b

FaultInv == TypeOK /\ Sound /\ Bounded

(* The lines carry numbers, in the order in which they start; from a line  *)
(* that is in the tail on, every line has the number after the last.       *)
Chained ==
  /\ \A k \in 1 .. Len(file) : file[k].seq > 0 /\ file[k].closed /\ file[k].at < length
  /\ \A i, k \in 1 .. Len(file) : i < k => file[i].at < file[k].at
  /\ \A i, k \in 1 .. Len(file) : i <= k /\ InTail(i) => file[k].seq = file[i].seq + (k - i)

(* The slots in use hold consecutive numbers that end at newest. *)
Consecutive == \A i \in 0 .. used - 1 : ring[SlotOf(head, used, i)] = newest - used + 1 + i

(* An open log has the number of the last line, or found no line to start  *)
(* from, and its window ends there.                                        *)
Follows ==
  up => /\ fd
        /\ IF newest = 0 THEN \A k \in 1 .. Len(file) : ~InTail(k)
                         ELSE file # <<>> /\ file[Len(file)].seq = newest
        /\ Consecutive

WindowInv == FaultInv /\ Chained /\ Follows

(* Every line fits the tail, so the last one is always replayed. *)
LinesFit == \A size \in Sizes : size < TailSize

(* Line k of the file is the whole record of event k. *)
Recorded ==
  /\ Len(file) = Len(issued)
  /\ \A k \in 1 .. Len(file) : /\ file[k].seq = k /\ file[k].gen = issued[k].gen
                               /\ file[k].closed /\ file[k].at < length
  /\ \A i, k \in 1 .. Len(file) : i < k => file[i].at < file[k].at
  /\ IF file = <<>> THEN length = 0 ELSE length - file[Len(file)].at < TailSize

(* Events are numbered in order, and no generation is followed by an older *)
(* one.                                                                    *)
Numbered ==
  /\ \A k \in 1 .. Len(issued) : issued[k].seq = k
  /\ \A i, k \in 1 .. Len(issued) : i <= k => issued[i].gen <= issued[k].gen

(* An open log holds the latest events. *)
Latest ==
  IF up
    THEN /\ fd /\ newest = Len(issued) /\ used <= Len(issued) /\ generation > 0
         /\ issued # <<>> => used > 0 /\ issued[Len(issued)].gen <= generation
         /\ Consecutive
    ELSE used = 0 /\ generation = 0

Inv == FaultInv /\ Recorded /\ Numbered /\ Latest

-----------------------------------------------------------------------------
(* Remainders by Cap.                                                      *)

USE EventLogAssumption

LEMMA Divided ==
  \A a \in Nat : /\ a \div Cap \in Nat /\ a % Cap \in 0 .. Cap - 1
                 /\ a = Cap * (a \div Cap) + (a % Cap)
  OBVIOUS

LEMMA DivisionUnique ==
  ASSUME NEW p \in Nat, NEW q \in Nat, NEW r \in 0 .. Cap - 1, NEW s \in 0 .. Cap - 1,
         Cap * p + r = Cap * q + s
  PROVE  p = q /\ r = s
  OBVIOUS

LEMMA RemainderFirst == \A a, x \in Nat : ((a % Cap) + x) % Cap = (a + x) % Cap
  <1> TAKE a, x \in Nat
  <1> DEFINE b == (a % Cap) + x
             p == (a \div Cap) + (b \div Cap)
             r == b % Cap
             q == (a + x) \div Cap
             s == (a + x) % Cap
  <1>1. a = Cap * (a \div Cap) + (a % Cap) /\ a \div Cap \in Nat /\ b \in Nat
    BY Divided
  <1>2. b = Cap * (b \div Cap) + r /\ b \div Cap \in Nat /\ r \in 0 .. Cap - 1
    BY <1>1, Divided
  <1>3. a + x = Cap * q + s /\ q \in Nat /\ s \in 0 .. Cap - 1
    BY Divided
  <1>4. p \in Nat /\ Cap * p = Cap * (a \div Cap) + Cap * (b \div Cap)
    BY <1>1, <1>2
  <1> HIDE DEF p, q, r, s
  <1>5. Cap * p + r = Cap * q + s
    BY <1>1, <1>2, <1>3, <1>4
  <1>6. r = s
    <2>1. \A m, n \in Nat, k, l \in 0 .. Cap - 1 : Cap * m + k = Cap * n + l => k = l
      BY DivisionUnique
    <2> QED BY <1>2, <1>3, <1>4, <1>5, <2>1
  <1> QED BY <1>6 DEF r, s

LEMMA RemainderOnce == \A a \in Nat : (a + Cap) % Cap = a % Cap
  <1> TAKE a \in Nat
  <1>1. Cap % Cap = 0
    OBVIOUS
  <1>2. ((Cap % Cap) + a) % Cap = (Cap + a) % Cap
    BY RemainderFirst
  <1> QED BY <1>1, <1>2

LEMMA RemaindersDiffer ==
  ASSUME NEW a \in Nat, NEW b \in Nat, a % Cap = b % Cap, a <= b, b - a < Cap
  PROVE  a = b
  <1> DEFINE p == a \div Cap
             q == b \div Cap
             r == a % Cap
  <1>1. a = Cap * p + r /\ b = Cap * q + r /\ p \in Nat /\ q \in Nat /\ r \in Nat
    BY Divided
  <1> HIDE DEF p, q, r
  <1>2. p = q
    <2>1. CASE p >= q + 1
      <3>1. Cap * p >= Cap * (q + 1)
        BY <1>1, <2>1
      <3> QED BY <1>1, <3>1
    <2>2. CASE q >= p + 1
      <3>1. Cap * q >= Cap * (p + 1)
        BY <1>1, <2>2
      <3> QED BY <1>1, <3>1
    <2> QED BY <1>1, <2>1, <2>2
  <1> QED BY <1>1, <1>2

(* The slots in use, from head backwards, around the end of the ring. *)
LEMMA SlotIs ==
  ASSUME NEW h \in Slots, NEW u \in 1 .. Cap, NEW i \in 0 .. u - 1
  PROVE  SlotOf(h, u, i) = IF h + i >= u THEN h - u + i ELSE h + Cap - u + i
  <1> DEFINE a == h + Cap - u + i
  <1>1. h \in 0 .. Cap - 1
    BY DEF Slots
  <1>2. CASE h + i >= u
    <2>1. a - Cap \in 0 .. Cap - 1 /\ a = (a - Cap) + Cap
      BY <1>1, <1>2
    <2>2. a % Cap = (a - Cap) % Cap
      BY <2>1, RemainderOnce
    <2>3. \A b \in 0 .. Cap - 1 : b % Cap = b
      OBVIOUS
    <2>4. a % Cap = a - Cap
      BY <2>1, <2>2, <2>3
    <2> QED BY <1>1, <1>2, <2>4 DEF SlotOf
  <1>3. CASE ~(h + i >= u)
    <2>1. a \in 0 .. Cap - 1
      BY <1>1, <1>3
    <2>2. a % Cap = a
      BY <2>1
    <2> QED BY <1>3, <2>2 DEF SlotOf
  <1> QED BY <1>2, <1>3

LEMMA SlotsApart ==
  ASSUME NEW h \in Slots, NEW u \in 1 .. Cap
  PROVE  /\ \A i \in 0 .. u - 1 : SlotOf(h, u, i) \in Slots
         /\ \A i, k \in 0 .. u - 1 : SlotOf(h, u, i) = SlotOf(h, u, k) => i = k
  <1>1. h \in 0 .. Cap - 1
    BY DEF Slots
  <1>2. ASSUME NEW i \in 0 .. u - 1 PROVE SlotOf(h, u, i) \in Slots
    BY <1>1, SlotIs DEF Slots
  <1>3. ASSUME NEW i \in 0 .. u - 1, NEW k \in 0 .. u - 1, SlotOf(h, u, i) = SlotOf(h, u, k)
        PROVE  i = k
    <2> DEFINE a == h + Cap - u + i
               b == h + Cap - u + k
    <2>1. a \in Nat /\ b \in Nat /\ b - a = k - i /\ b - a < Cap /\ a - b < Cap
      BY <1>1
    <2>2. a % Cap = b % Cap
      BY <1>3 DEF SlotOf
    <2> HIDE DEF a, b
    <2>3. a <= b => a = b
      BY <2>1, <2>2, RemaindersDiffer
    <2>4. b <= a => b = a
      BY <2>1, <2>2, RemaindersDiffer
    <2> QED BY <2>1, <2>3, <2>4
  <1> QED BY <1>2, <1>3

(* One event more: it is the last, and the others move down by one if the  *)
(* ring was full.                                                          *)
LEMMA SlotsAfter ==
  ASSUME NEW h \in Slots, NEW u \in 0 .. Cap
  PROVE  /\ NextSlot(h) \in Slots /\ MoreUsed(u) \in 1 .. Cap
         /\ SlotOf(NextSlot(h), MoreUsed(u), MoreUsed(u) - 1) = h
         /\ \A i \in 0 .. MoreUsed(u) - 2 :
              /\ i + 1 + u - MoreUsed(u) \in 0 .. u - 1
              /\ SlotOf(NextSlot(h), MoreUsed(u), i) = SlotOf(h, u, i + 1 + u - MoreUsed(u))
         /\ u = Cap => SlotOf(h, u, 0) = h
  <1>1. h \in 0 .. Cap - 1
    BY DEF Slots
  <1>2. NextSlot(h) = IF h + 1 = Cap THEN 0 ELSE h + 1
    <2>1. CASE h + 1 = Cap
      BY <2>1 DEF NextSlot
    <2>2. CASE h + 1 # Cap
      <3>1. h + 1 \in 0 .. Cap - 1
        BY <1>1, <2>2
      <3>2. (h + 1) % Cap = h + 1
        BY <3>1
      <3> QED BY <2>2, <3>2 DEF NextSlot
    <2> QED BY <2>1, <2>2
  <1>3. NextSlot(h) \in Slots
    BY <1>1, <1>2 DEF Slots
  <1>4. MoreUsed(u) \in 1 .. Cap /\ MoreUsed(u) = IF u < Cap THEN u + 1 ELSE u
    BY DEF MoreUsed
  <1>5. SlotOf(NextSlot(h), MoreUsed(u), MoreUsed(u) - 1) = h
    BY <1>1, <1>2, <1>3, <1>4, SlotIs
  <1>6. ASSUME NEW i \in 0 .. MoreUsed(u) - 2
        PROVE  /\ i + 1 + u - MoreUsed(u) \in 0 .. u - 1
               /\ SlotOf(NextSlot(h), MoreUsed(u), i) = SlotOf(h, u, i + 1 + u - MoreUsed(u))
    <2>1. i + 1 + u - MoreUsed(u) \in 0 .. u - 1 /\ u \in 1 .. Cap /\ i \in 0 .. MoreUsed(u) - 1
      BY <1>4
    <2>2. SlotOf(h, u, i + 1 + u - MoreUsed(u)) =
            IF h + (i + 1 + u - MoreUsed(u)) >= u
              THEN h - u + (i + 1 + u - MoreUsed(u))
              ELSE h + Cap - u + (i + 1 + u - MoreUsed(u))
      BY <2>1, SlotIs
    <2>3. SlotOf(NextSlot(h), MoreUsed(u), i) =
            IF NextSlot(h) + i >= MoreUsed(u)
              THEN NextSlot(h) - MoreUsed(u) + i
              ELSE NextSlot(h) + Cap - MoreUsed(u) + i
      BY <1>3, <1>4, <2>1, SlotIs
    <2> QED BY <1>1, <1>2, <1>4, <2>1, <2>2, <2>3
  <1>7. u = Cap => SlotOf(h, u, 0) = h
    BY <1>1, SlotIs
  <1> QED BY <1>3, <1>4, <1>5, <1>6, <1>7

-----------------------------------------------------------------------------
(* Ranks.                                                                  *)

RankIn(R, k) == Cardinality({i \in R : i <= k})

(* The elements of a finite set of numbers have the ranks 1 to its         *)
(* cardinality, in order.                                                  *)
LEMMA Ranked ==
  ASSUME NEW n \in Nat, NEW R \in SUBSET (0 .. n)
  PROVE  /\ Cardinality(R) \in Nat /\ (Cardinality(R) = 0 <=> R = {})
         /\ \A k \in R : RankIn(R, k) \in 1 .. Cardinality(R)
         /\ \A k, l \in R : k < l => RankIn(R, k) < RankIn(R, l)
         /\ \A r \in 1 .. Cardinality(R) : \E k \in R : RankIn(R, k) = r
  <1> DEFINE m == Cardinality(R)
             upTo(k) == {i \in R : i <= k}
             rank == [k \in R |-> RankIn(R, k)]
             T == {rank[k] : k \in R}
  <1>0. \A k \in R : k \in Int
    OBVIOUS
  <1>1. IsFiniteSet(R) /\ m \in Nat /\ (m = 0 <=> R = {})
    <2>1. IsFiniteSet(0 .. n)
      BY FS_Interval
    <2>2. IsFiniteSet(R)
      BY <2>1, FS_Subset
    <2> QED BY <2>2, FS_CardinalityType, FS_EmptySet
  <1>2. ASSUME NEW k \in R
        PROVE  /\ IsFiniteSet(upTo(k)) /\ RankIn(R, k) = Cardinality(upTo(k))
               /\ RankIn(R, k) \in 1 .. m
    <2>1. upTo(k) \in SUBSET R /\ k \in upTo(k)
      OBVIOUS
    <2>2. IsFiniteSet(upTo(k)) /\ Cardinality(upTo(k)) <= m
      BY <1>1, <2>1, FS_Subset
    <2>3. Cardinality(upTo(k)) \in Nat /\ Cardinality(upTo(k)) # 0
      BY <2>1, <2>2, FS_CardinalityType, FS_EmptySet
    <2> QED BY <1>1, <2>2, <2>3 DEF RankIn
  <1>3. ASSUME NEW k \in R, NEW l \in R, k < l PROVE RankIn(R, k) < RankIn(R, l)
    <2>1. upTo(k) \in SUBSET upTo(l) /\ l \in upTo(l) /\ l \notin upTo(k)
      <3>1. \A i \in R : i <= k => i <= l
        BY <1>0, <1>3
      <3>2. l <= l /\ ~(l <= k)
        BY <1>0, <1>3
      <3> QED BY <3>1, <3>2
    <2>2. IsFiniteSet(upTo(l))
      BY <1>2
    <2> HIDE DEF upTo
    <2>3. /\ Cardinality(upTo(k)) <= Cardinality(upTo(l))
          /\ Cardinality(upTo(k)) # Cardinality(upTo(l))
      BY <2>1, <2>2, FS_Subset
    <2>4. RankIn(R, k) = Cardinality(upTo(k)) /\ RankIn(R, l) = Cardinality(upTo(l))
      BY <1>2
    <2>5. RankIn(R, k) \in Nat /\ RankIn(R, l) \in Nat
      BY <1>1, <1>2
    <2> QED BY <2>3, <2>4, <2>5
  <1> HIDE DEF m
  <1>4. \A k, l \in R : RankIn(R, k) = RankIn(R, l) => k = l
    <2> SUFFICES ASSUME NEW k \in R, NEW l \in R, RankIn(R, k) = RankIn(R, l), k # l
                 PROVE  FALSE
      OBVIOUS
    <2>1. RankIn(R, k) \in 1 .. m
      BY <1>2
    <2>2. CASE k < l
      BY <1>1, <1>3, <2>1, <2>2
    <2>3. CASE l < k
      BY <1>1, <1>3, <2>1, <2>3
    <2> QED BY <1>0, <2>2, <2>3
  <1>5. T = 1 .. m
    <2>1. T \in SUBSET (1 .. m)
      BY <1>2
    <2>2. rank \in Bijection(R, T)
      BY <1>4 DEF Bijection, Injection, Surjection, IsInjective
    <2> HIDE DEF rank, T
    <2>3. Cardinality(T) = m
      BY <1>1, <2>2, FS_Bijection DEF ExistsBijection, m
    <2>4. IsFiniteSet(1 .. m) /\ Cardinality(1 .. m) = m
      BY <1>1, FS_Interval
    <2> QED BY <2>1, <2>3, <2>4, FS_Subset
  <1>6. \A r \in 1 .. m : \E k \in R : RankIn(R, k) = r
    BY <1>5
  <1> QED BY <1>1, <1>2, <1>3, <1>6 DEF m

(* The element of the highest rank is the greatest. *)
LEMMA Greatest ==
  ASSUME NEW n \in Nat, NEW R \in SUBSET (0 .. n), R # {}
  PROVE  /\ Max(R) \in R /\ \A k \in R : k <= Max(R)
         /\ RankIn(R, Max(R)) = Cardinality(R)
  <1>0. /\ Cardinality(R) \in Nat /\ Cardinality(R) # 0
        /\ \A k \in R : RankIn(R, k) \in 1 .. Cardinality(R)
        /\ \A k, l \in R : k < l => RankIn(R, k) < RankIn(R, l)
        /\ \A r \in 1 .. Cardinality(R) : \E k \in R : RankIn(R, k) = r
    BY Ranked
  <1>1. PICK k \in R : RankIn(R, k) = Cardinality(R)
    BY <1>0
  <1>2. \A l \in R : l <= k
    <2> SUFFICES ASSUME NEW l \in R, k < l PROVE FALSE
      OBVIOUS
    <2> QED BY <1>0, <1>1
  <1>3. Max(R) \in R /\ \A l \in R : Max(R) >= l
    <2>1. \E x \in R : \A y \in R : x >= y
      BY <1>2
    <2> QED BY <2>1 DEF Max
  <1>4. Max(R) = k
    <2>1. \A l \in R : l \in Int
      OBVIOUS
    <2>2. Max(R) <= k /\ Max(R) >= k /\ Max(R) \in Int /\ k \in Int
      BY <1>2, <1>3, <2>1
    <2> QED BY <2>2
  <1> QED BY <1>1, <1>2, <1>4

-----------------------------------------------------------------------------
(* One event more.                                                         *)

(* s, g and v are the slots, the head and the count after event n + 1.     *)
PushAt(r, h, u, n, s, g, v) ==
  s = [r EXCEPT ![h] = n + 1] /\ g = NextSlot(h) /\ v = MoreUsed(u)

LEMMA PushedAt ==
  ASSUME NEW r \in [Slots -> Nat], NEW h \in Slots, NEW u \in 0 .. Cap, NEW n \in Nat, NEW o,
         SoundAt(r, h, u, n, o),
         NEW s, NEW g, NEW v, PushAt(r, h, u, n, s, g, v)
  PROVE  /\ s \in [Slots -> Nat] /\ g \in Slots /\ v \in 1 .. Cap
         /\ s[SlotOf(g, v, 0)] \in Nat
         /\ SoundAt(s, g, v, n + 1, s[SlotOf(g, v, 0)])
         /\ s[SlotOf(g, v, v - 1)] = n + 1
         /\ \A i \in 0 .. v - 2 : /\ i + 1 + u - v \in 0 .. u - 1
                                  /\ s[SlotOf(g, v, i)] = r[SlotOf(h, u, i + 1 + u - v)]
  <1>0. s = [r EXCEPT ![h] = n + 1] /\ g = NextSlot(h) /\ v = MoreUsed(u)
    BY DEF PushAt
  <1>1. s \in [Slots -> Nat] /\ s[h] = n + 1 /\ \A j \in Slots \ {h} : s[j] = r[j]
    BY <1>0
  <1>2. g \in Slots /\ v \in 1 .. Cap
    BY <1>0, SlotsAfter
  <1>3. /\ SlotOf(g, v, v - 1) = h
        /\ \A i \in 0 .. v - 2 : /\ i + 1 + u - v \in 0 .. u - 1
                                 /\ SlotOf(g, v, i) = SlotOf(h, u, i + 1 + u - v)
        /\ u = Cap => SlotOf(h, u, 0) = h
    BY <1>0, SlotsAfter
  <1>4. /\ \A i \in 0 .. v - 1 : SlotOf(g, v, i) \in Slots
        /\ \A i, k \in 0 .. v - 1 : SlotOf(g, v, i) = SlotOf(g, v, k) => i = k
    BY <1>2, SlotsApart
  <1>5. ASSUME NEW i \in 0 .. v - 2
        PROVE  s[SlotOf(g, v, i)] = r[SlotOf(h, u, i + 1 + u - v)]
    <2>1. i \in 0 .. v - 1 /\ v - 1 \in 0 .. v - 1 /\ i # v - 1
      BY <1>2
    <2>2. SlotOf(g, v, i) \in Slots \ {h}
      BY <1>3, <1>4, <2>1
    <2> QED BY <1>1, <1>3, <2>2
  <1>6. \A i \in 0 .. v - 1 : s[SlotOf(g, v, i)] > 0
    <2> TAKE i \in 0 .. v - 1
    <2>1. CASE i = v - 1
      BY <1>1, <1>3, <2>1
    <2>2. CASE i # v - 1
      <3>1. i \in 0 .. v - 2
        BY <1>2, <2>2
      <3>2. i + 1 + u - v \in 0 .. u - 1
        BY <1>3, <3>1
      <3> QED BY <1>5, <3>1, <3>2 DEF SoundAt
    <2> QED BY <2>1, <2>2
  <1>7. ASSUME NEW j \in Slots, s[j] > 0
        PROVE  \E i \in 0 .. v - 1 : j = SlotOf(g, v, i)
    <2>1. CASE j = h
      <3>1. v - 1 \in 0 .. v - 1
        BY <1>2
      <3> QED BY <1>3, <2>1, <3>1
    <2>2. CASE j # h
      <3>1. PICK k \in 0 .. u - 1 : j = SlotOf(h, u, k)
        BY <1>1, <1>7, <2>2 DEF SoundAt
      <3> DEFINE i == k + v - u - 1
      <3>2. i \in 0 .. v - 2 /\ i \in 0 .. v - 1 /\ i + 1 + u - v = k
        <4>1. v = (IF u < Cap THEN u + 1 ELSE u)
          BY <1>0 DEF MoreUsed
        <4>2. u = Cap => k # 0
          BY <1>3, <2>2, <3>1
        <4> QED BY <1>2, <4>1, <4>2
      <3> HIDE DEF i
      <3>3. j = SlotOf(g, v, i)
        BY <1>3, <3>1, <3>2
      <3> QED BY <3>2, <3>3
    <2> QED BY <2>1, <2>2
  <1>8. s[SlotOf(g, v, v - 1)] = n + 1 /\ v > 0
    BY <1>1, <1>2, <1>3
  <1>9. SoundAt(s, g, v, n + 1, s[SlotOf(g, v, 0)])
    BY <1>6, <1>7, <1>8 DEF SoundAt
  <1>10. s[SlotOf(g, v, 0)] \in Nat
    <2>1. 0 \in 0 .. v - 1
      BY <1>2
    <2> QED BY <1>1, <1>4, <2>1
  <1> QED BY <1>1, <1>2, <1>3, <1>5, <1>8, <1>9, <1>10

LEMMA Pushed ==
  ASSUME TypeOK, Sound, PushNew
  PROVE  /\ ring' \in [Slots -> Nat] /\ head' \in Slots /\ used' \in 1 .. Cap
         /\ newest' \in Nat /\ oldest' \in Nat
         /\ newest' = newest + 1
         /\ Sound'
         /\ ring'[SlotOf(head', used', used' - 1)] = newest'
         /\ \A i \in 0 .. used' - 2 :
              /\ i + 1 + used - used' \in 0 .. used - 1
              /\ ring'[SlotOf(head', used', i)] = ring[SlotOf(head, used, i + 1 + used - used')]
  <1>1. /\ ring \in [Slots -> Nat] /\ head \in Slots /\ used \in 0 .. Cap /\ newest \in Nat
        /\ newest' = newest + 1 /\ ring' = [ring EXCEPT ![head] = newest + 1]
        /\ head' = NextSlot(head) /\ used' = MoreUsed(used)
        /\ oldest' = ring'[SlotOf(head', used', 0)]
    BY DEF PushNew, TypeOK, OldestSlot
  <1>2. newest' \in Nat
    <2>1. newest + 1 \in Nat
      BY <1>1
    <2> QED BY <1>1, <2>1
  <1> DEFINE s == [ring EXCEPT ![head] = newest + 1]
             g == NextSlot(head)
             v == MoreUsed(used)
             n == newest + 1
  <1>3. s = ring' /\ g = head' /\ v = used' /\ n = newest'
    BY <1>1
  <1>4. /\ s \in [Slots -> Nat] /\ g \in Slots /\ v \in 1 .. Cap
        /\ s[SlotOf(g, v, 0)] \in Nat
        /\ SoundAt(s, g, v, n, s[SlotOf(g, v, 0)])
        /\ s[SlotOf(g, v, v - 1)] = n
        /\ \A i \in 0 .. v - 2 : /\ i + 1 + used - v \in 0 .. used - 1
                                 /\ s[SlotOf(g, v, i)] = ring[SlotOf(head, used, i + 1 + used - v)]
    <2>1. PushAt(ring, head, used, newest, s, g, v) /\ n = newest + 1
      BY DEF PushAt
    <2>2. SoundAt(ring, head, used, newest, oldest)
      BY DEF Sound
    <2> HIDE DEF s, g, v, n
    <2>3. /\ ring \in [Slots -> Nat] /\ head \in Slots /\ used \in 0 .. Cap /\ newest \in Nat
      BY <1>1
    <2>4. /\ s \in [Slots -> Nat] /\ g \in Slots /\ v \in 1 .. Cap
          /\ s[SlotOf(g, v, 0)] \in Nat
          /\ SoundAt(s, g, v, newest + 1, s[SlotOf(g, v, 0)])
          /\ s[SlotOf(g, v, v - 1)] = newest + 1
          /\ \A i \in 0 .. v - 2 : /\ i + 1 + used - v \in 0 .. used - 1
                                   /\ s[SlotOf(g, v, i)] = ring[SlotOf(head, used, i + 1 + used - v)]
      BY <2>1, <2>2, <2>3, PushedAt
    <2> QED BY <2>1, <2>4
  <1> HIDE DEF s, g, v, n
  <1> QED BY <1>1, <1>2, <1>3, <1>4 DEF Sound

(* One event more ends the window, and the rest of it moves down. *)
LEMMA PushedWindow ==
  ASSUME TypeOK, Sound, PushNew, Consecutive
  PROVE  Consecutive'
  <1>1. /\ used \in 0 .. Cap /\ newest \in Nat
        /\ \A i \in 0 .. used - 1 : ring[SlotOf(head, used, i)] = newest - used + 1 + i
    BY DEF TypeOK, Consecutive
  <1>2. /\ used' \in 1 .. Cap /\ newest' = newest + 1
        /\ ring'[SlotOf(head', used', used' - 1)] = newest'
        /\ \A i \in 0 .. used' - 2 :
             /\ i + 1 + used - used' \in 0 .. used - 1
             /\ ring'[SlotOf(head', used', i)] = ring[SlotOf(head, used, i + 1 + used - used')]
    BY Pushed
  <1>3. PICK v : v = used'
    OBVIOUS
  <1>4. PICK g : g = head'
    OBVIOUS
  <1>5. PICK s : s = ring'
    OBVIOUS
  <1>6. PICK w : w = newest'
    OBVIOUS
  <1>7. /\ v \in 1 .. Cap /\ w = newest + 1 /\ s[SlotOf(g, v, v - 1)] = newest + 1
        /\ \A i \in 0 .. v - 2 :
             /\ i + 1 + used - v \in 0 .. used - 1
             /\ s[SlotOf(g, v, i)] = ring[SlotOf(head, used, i + 1 + used - v)]
    BY <1>2, <1>3, <1>4, <1>5, <1>6
  <1>8. ASSUME NEW i \in 0 .. v - 1 PROVE s[SlotOf(g, v, i)] = w - v + 1 + i
    <2>1. newest \in Int /\ v \in Int /\ i \in Int
      BY <1>1, <1>7
    <2>2. CASE i = v - 1
      BY <1>7, <2>1, <2>2
    <2>3. CASE i # v - 1
      <3> DEFINE k == i + 1 + used - v
      <3>1. i \in 0 .. v - 2
        BY <1>7, <2>3
      <3>2. k \in 0 .. used - 1 /\ s[SlotOf(g, v, i)] = ring[SlotOf(head, used, k)]
        BY <1>7, <3>1
      <3>3. newest - used + 1 + k = newest + 1 - v + 1 + i
        BY <1>1, <1>7, <3>1
      <3> HIDE DEF k
      <3>4. s[SlotOf(g, v, i)] = newest + 1 - v + 1 + i
        BY <1>1, <3>2, <3>3
      <3> QED BY <1>7, <2>1, <3>4
    <2> QED BY <2>2, <2>3
  <1> QED BY <1>3, <1>4, <1>5, <1>6, <1>8 DEF Consecutive

-----------------------------------------------------------------------------
(* The replay.                                                             *)

LEMMA RankIs == \A k : Rank(k) = RankIn(Replayed, k)
  BY DEF Rank, RankIn

(* After the replay the ring holds the last lines replayed, in order.      *)
LEMMA Reopened ==
  ASSUME TypeOK
  PROVE  /\ ReplayedRing \in [Slots -> Nat] /\ ReplayedHead \in Slots
         /\ ReplayedUsed \in 0 .. Cap /\ ReplayedNewest \in Nat
         /\ ReplayedUsed = 0 <=> Replayed = {}
         /\ ReplayedUsed = 0 => ReplayedNewest = 0
         /\ ReplayedUsed > 0 =>
              /\ ReplayedNewest > 0
              /\ ReplayedRing[SlotOf(ReplayedHead, ReplayedUsed, ReplayedUsed - 1)] = ReplayedNewest
         /\ \A i \in 0 .. ReplayedUsed - 1 : \E k \in Replayed :
              /\ Rank(k) = Cardinality(Replayed) - ReplayedUsed + i + 1
              /\ ReplayedRing[SlotOf(ReplayedHead, ReplayedUsed, i)] = file[k].seq
         /\ \A j \in Slots : ReplayedRing[j] > 0 =>
              \E i \in 0 .. ReplayedUsed - 1 : j = SlotOf(ReplayedHead, ReplayedUsed, i)
  <1> DEFINE m == Cardinality(Replayed)
             u == ReplayedUsed
             h == ReplayedHead
  <1>1. /\ Len(file) \in Nat /\ \A k \in 1 .. Len(file) : file[k].seq \in Nat
        /\ Replayed \in SUBSET (0 .. Len(file)) /\ Replayed \in SUBSET (1 .. Len(file))
        /\ \A k \in Replayed : file[k].seq \in Nat /\ file[k].seq > 0
    <2>1. file \in Seq(Line)
      BY DEF TypeOK
    <2>2. Len(file) \in Nat /\ \A k \in 1 .. Len(file) : file[k].seq \in Nat
      <3>1. Len(file) \in Nat /\ \A k \in 1 .. Len(file) : file[k] \in Line
        BY <2>1
      <3> QED BY <3>1 DEF Line
    <2> QED BY <2>2 DEF Replayed, TailLines
  <1>2. /\ m \in Nat /\ (m = 0 <=> Replayed = {})
        /\ \A k \in Replayed : Rank(k) \in 1 .. m
        /\ \A k, l \in Replayed : k < l => Rank(k) < Rank(l)
        /\ \A r \in 1 .. m : \E k \in Replayed : Rank(k) = r
    BY <1>1, Ranked, RankIs
  <1>3. u = (IF m < Cap THEN m ELSE Cap) /\ h = m % Cap
    BY DEF ReplayedUsed, ReplayedHead
  <1> HIDE DEF m, u, h
  <1>4. u \in 0 .. Cap /\ u <= m /\ (u = 0 <=> m = 0) /\ h \in Slots
    BY <1>2, <1>3, Divided DEF Slots
  <1>5. \A k, l \in Replayed : Rank(k) = Rank(l) => k = l
    <2> SUFFICES ASSUME NEW k \in Replayed, NEW l \in Replayed, Rank(k) = Rank(l), k # l
                 PROVE  FALSE
      OBVIOUS
    <2>1. Rank(k) \in Int /\ k \in Int /\ l \in Int
      BY <1>1, <1>2
    <2>2. ~(k < l) /\ ~(l < k)
      BY <1>2, <2>1
    <2> QED BY <2>1, <2>2
  (* The slot of a line that is kept. *)
  <1>6. ASSUME NEW i \in 0 .. u - 1
        PROVE  SlotOf(h, u, i) = (m - u + i) % Cap /\ SlotOf(h, u, i) \in Slots
    <2>1. Cap - u + i \in Nat /\ m - u + i \in Nat
      BY <1>2, <1>4
    <2>2. ((m % Cap) + (Cap - u + i)) % Cap = (m + (Cap - u + i)) % Cap
      BY <1>2, <2>1, RemainderFirst
    <2>3. m + (Cap - u + i) = (m - u + i) + Cap
      BY <1>2, <1>4
    <2>4. ((m - u + i) + Cap) % Cap = (m - u + i) % Cap
      BY <2>1, RemainderOnce
    <2>5. h + Cap - u + i = (m % Cap) + (Cap - u + i)
      BY <1>3, <1>4, <2>1 DEF Slots
    <2>6. SlotOf(h, u, i) = (m - u + i) % Cap
      BY <2>2, <2>3, <2>4, <2>5 DEF SlotOf
    <2> QED BY <2>1, <2>6, Divided DEF Slots
  <1>7. ASSUME NEW j \in Slots, NEW k \in KeptInSlot(j)
        PROVE  /\ k \in Replayed /\ Rank(k) > m - Cap /\ (Rank(k) - 1) % Cap = j
               /\ \A l \in KeptInSlot(j) : l = k
               /\ ReplayedRing[j] = file[k].seq
    <2>1. \A l \in KeptInSlot(j) : /\ l \in Replayed /\ Rank(l) > m - Cap
                                   /\ (Rank(l) - 1) % Cap = j
      BY DEF KeptInSlot, m
    <2>2. ASSUME NEW l \in KeptInSlot(j) PROVE l = k
      <3> DEFINE a == Rank(k) - 1
                 b == Rank(l) - 1
      <3>1. a \in Nat /\ b \in Nat /\ a % Cap = b % Cap /\ b - a < Cap /\ a - b < Cap
        BY <1>2, <2>1
      <3> HIDE DEF a, b
      <3>2. a <= b => a = b
        BY <3>1, RemaindersDiffer
      <3>3. b <= a => b = a
        BY <3>1, RemaindersDiffer
      <3>4. a = b
        BY <3>1, <3>2, <3>3
      <3>5. Rank(k) = Rank(l)
        BY <1>2, <2>1, <3>4 DEF a, b
      <3> QED BY <1>5, <2>1, <3>5
    <2>3. KeptInSlot(j) # {} /\ (CHOOSE x \in KeptInSlot(j) : TRUE) = k
      BY <2>2
    <2> QED BY <2>1, <2>2, <2>3 DEF ReplayedRing
  <1>8. ASSUME NEW i \in 0 .. u - 1, NEW k \in Replayed, Rank(k) = m - u + i + 1
        PROVE  ReplayedRing[SlotOf(h, u, i)] = file[k].seq
    <2>1. Rank(k) > m - Cap /\ Rank(k) - 1 = m - u + i
      BY <1>2, <1>4, <1>8
    <2>2. k \in KeptInSlot(SlotOf(h, u, i))
      BY <1>6, <2>1 DEF KeptInSlot, m
    <2> QED BY <1>6, <1>7, <2>2
  <1>9. ASSUME NEW i \in 0 .. u - 1
        PROVE  \E k \in Replayed : /\ Rank(k) = m - u + i + 1
                                   /\ ReplayedRing[SlotOf(h, u, i)] = file[k].seq
    <2>1. m - u + i + 1 \in 1 .. m
      BY <1>2, <1>4
    <2>2. PICK k \in Replayed : Rank(k) = m - u + i + 1
      BY <1>2, <2>1
    <2> QED BY <1>8, <2>2
  <1>10. ASSUME NEW j \in Slots, ReplayedRing[j] > 0
         PROVE  \E i \in 0 .. u - 1 : j = SlotOf(h, u, i)
    <2>1. KeptInSlot(j) # {}
      BY <1>10 DEF ReplayedRing
    <2>2. PICK k \in KeptInSlot(j) : TRUE
      BY <2>1
    <2> DEFINE i == Rank(k) - 1 - (m - u)
    <2>3. Rank(k) \in 1 .. m /\ Rank(k) > m - Cap /\ (Rank(k) - 1) % Cap = j
      BY <1>2, <1>7
    <2>4. i \in 0 .. u - 1 /\ m - u + i = Rank(k) - 1
      BY <1>2, <1>3, <2>3
    <2> QED BY <1>6, <2>3, <2>4
  <1>11. ReplayedRing \in [Slots -> Nat]
    <2>1. ASSUME NEW j \in Slots PROVE ReplayedRing[j] \in Nat
      <3>1. CASE KeptInSlot(j) = {}
        BY <3>1 DEF ReplayedRing
      <3>2. CASE KeptInSlot(j) # {}
        BY <1>1, <1>7, <3>2
      <3> QED BY <3>1, <3>2
    <2> QED BY <2>1 DEF ReplayedRing
  <1>12. CASE Replayed = {}
    <2>1. u = 0 /\ ReplayedNewest = 0
      BY <1>2, <1>4, <1>12 DEF ReplayedNewest
    <2> QED BY <1>4, <1>9, <1>10, <1>11, <1>12, <2>1 DEF u, h, m
  <1>13. CASE Replayed # {}
    <2>1. Max(Replayed) \in Replayed /\ Rank(Max(Replayed)) = m
      BY <1>1, <1>13, Greatest, RankIs DEF m
    <2>2. u > 0 /\ u - 1 \in 0 .. u - 1 /\ m - u + (u - 1) + 1 = m
      BY <1>2, <1>4, <1>13
    <2>3. ReplayedNewest = file[Max(Replayed)].seq
      BY <1>13 DEF ReplayedNewest
    <2>4. ReplayedNewest > 0 /\ ReplayedNewest \in Nat
      BY <1>1, <2>1, <2>3
    <2>5. ReplayedRing[SlotOf(h, u, u - 1)] = ReplayedNewest
      <3> DEFINE i == u - 1
      <3>1. i \in 0 .. u - 1 /\ Rank(Max(Replayed)) = m - u + i + 1
        BY <2>1, <2>2
      <3> HIDE DEF i
      <3>2. ReplayedRing[SlotOf(h, u, i)] = file[Max(Replayed)].seq
        BY <1>8, <2>1, <3>1
      <3> QED BY <2>3, <3>2 DEF i
    <2> QED BY <1>4, <1>9, <1>10, <1>11, <1>13, <2>2, <2>4, <2>5 DEF u, h, m
  <1> QED BY <1>12, <1>13

-----------------------------------------------------------------------------
(* The file.                                                               *)

BoundedBy(f, b) == \A k \in 1 .. Len(f) : f[k].gen <= b

LEMMA LineIs ==
  ASSUME NEW f \in Seq(Line)
  PROVE  /\ Len(f) \in Nat
         /\ \A k \in 1 .. Len(f) :
              /\ f[k] \in Line /\ f[k].seq \in Nat /\ f[k].gen \in Nat /\ f[k].at \in Nat
  <1>1. Len(f) \in Nat /\ \A k \in 1 .. Len(f) : f[k] \in Line
    OBVIOUS
  <1>2. \A l \in Line : l.seq \in Nat /\ l.gen \in Nat /\ l.at \in Nat
    BY DEF Line
  <1> QED BY <1>1, <1>2

LEMMA AppendIs ==
  ASSUME NEW S, NEW q \in Seq(S), NEW x \in S
  PROVE  /\ Append(q, x) # <<>> /\ Len(Append(q, x)) = Len(q) + 1
         /\ Append(q, x)[Len(q) + 1] = x
         /\ \A k \in 1 .. Len(q) : Append(q, x)[k] = q[k]
  OBVIOUS

LEMMA Extended ==
  ASSUME NEW f \in Seq(Line), NEW l \in Line, NEW b \in Nat, BoundedBy(f, b), l.gen <= b
  PROVE  Append(f, l) \in Seq(Line) /\ BoundedBy(Append(f, l), b)
  <1>1. /\ Append(f, l) \in Seq(Line) /\ Len(Append(f, l)) = Len(f) + 1 /\ Len(f) \in Nat
        /\ \A k \in 1 .. Len(f) : Append(f, l)[k] = f[k]
        /\ Append(f, l)[Len(f) + 1] = l
    OBVIOUS
  <1> QED BY <1>1 DEF BoundedBy

LEMMA Rewritten ==
  ASSUME NEW f \in Seq(Line), f # <<>>, NEW b \in Nat, BoundedBy(f, b)
  PROVE  /\ [f EXCEPT ![Len(f)].closed = TRUE] \in Seq(Line)
         /\ BoundedBy([f EXCEPT ![Len(f)].closed = TRUE], b)
  <1> DEFINE n == Len(f)
             l == [f[n] EXCEPT !.closed = TRUE]
             g == [f EXCEPT ![n] = l]
  <1>1. n \in Nat /\ n \in 1 .. n /\ f[n] \in Line
    OBVIOUS
  <1>2. l \in Line /\ l.gen = f[n].gen
    BY <1>1 DEF Line
  <1> HIDE DEF l
  <1>3. g \in Seq(Line) /\ Len(g) = n /\ g[n] = l /\ \A k \in 1 .. n : k # n => g[k] = f[k]
    BY <1>1, <1>2
  <1>4. BoundedBy(g, b)
    BY <1>1, <1>2, <1>3 DEF BoundedBy
  <1> QED BY <1>3, <1>4 DEF l

LEMMA Cut ==
  ASSUME NEW f \in Seq(Line), NEW b \in Nat, BoundedBy(f, b), NEW k \in 0 .. Len(f) - 1
  PROVE  SubSeq(f, 1, k) \in Seq(Line) /\ BoundedBy(SubSeq(f, 1, k), b)
  <1>1. Len(f) \in Nat /\ k \in Nat /\ \A i \in 1 .. k : f[i] \in Line /\ i \in 1 .. Len(f)
    OBVIOUS
  <1>2. SubSeq(f, 1, k) = [i \in 1 .. k |-> f[i]]
    BY <1>1
  <1>3. SubSeq(f, 1, k) \in Seq(Line) /\ Len(SubSeq(f, 1, k)) = k
    BY <1>1
  <1>4. \A i \in 1 .. k : SubSeq(f, 1, k)[i] = f[i]
    BY <1>2
  <1> QED BY <1>1, <1>3, <1>4 DEF BoundedBy

(* What is readable of a line cut short is a number, no greater than the   *)
(* one that was written.                                                   *)
LEMMA ReadableIs ==
  ASSUME NEW seq \in Nat, NEW gen \in Nat, NEW r \in Readable(seq, gen)
  PROVE  r[1] \in Nat /\ r[2] \in Nat /\ r[2] <= gen
  <1>1. \A n \in Nat : \A p \in Prefixes(n) : p \in Nat /\ p <= n
    BY DEF Prefixes
  <1>2. CASE r \in {<<s, 0>> : s \in {0, seq} \cup Prefixes(seq)}
    BY <1>1, <1>2
  <1>3. CASE r \in {<<seq, g>> : g \in {gen} \cup Prefixes(gen)}
    BY <1>1, <1>3
  <1> QED BY <1>2, <1>3 DEF Readable

LEMMA Torn ==
  ASSUME NEW f \in Seq(Line), NEW start \in Nat, NEW seq \in Nat, NEW gen \in Nat,
         NEW b \in Nat, BoundedBy(f, b), gen <= b,
         NEW g \in WithTornLine(f, start, seq, gen)
  PROVE  g \in Seq(Line) /\ BoundedBy(g, b)
  <1>1. CASE g = f
    BY <1>1
  <1>2. CASE g # f
    <2>1. PICK r \in Readable(seq, gen) :
            g = Append(f, [seq |-> r[1], gen |-> r[2], at |-> start, closed |-> FALSE])
      BY <1>2 DEF WithTornLine
    <2> DEFINE l == [seq |-> r[1], gen |-> r[2], at |-> start, closed |-> FALSE]
    <2>2. r[1] \in Nat /\ r[2] \in Nat /\ r[2] <= gen
      BY ReadableIs
    <2>3. l \in Line /\ l.gen <= b
      BY <2>2 DEF Line
    <2> HIDE DEF l
    <2>4. Append(f, l) \in Seq(Line) /\ BoundedBy(Append(f, l), b)
      BY <2>3, Extended
    <2> QED BY <2>1, <2>4 DEF l
  <1> QED BY <1>1, <1>2

(* A line is written whole, or there is no file. *)
LEMMA Written ==
  ASSUME TypeOK, Bounded, NEW seq \in Nat, NEW gen \in Nat, NEW size \in Nat,
         WriteLine(seq, gen, size)
  PROVE  /\ file' \in Seq(Line) /\ length' \in Nat /\ synced' \in Nat
         /\ unsynced' \in 0 .. SyncEvery - 1
         /\ Bounded'
  <1>1. /\ file \in Seq(Line) /\ length \in Nat /\ synced \in Nat
        /\ unsynced \in 0 .. SyncEvery - 1
    BY DEF TypeOK
  <1>2. CASE ~fd
    <2>1. file' = file /\ length' = length /\ synced' = synced /\ unsynced' = unsynced
      BY <1>2 DEF WriteLine, disk
    <2> QED BY <1>1, <2>1 DEF Bounded
  <1>3. CASE fd
    <2>1. file' = WithLine(seq, gen) /\ length' = length + size /\ CountWrite
      BY <1>3 DEF WriteLine
    <2>2. length + size \in Nat
      BY <1>1
    <2>3. length' \in Nat
      BY <2>1, <2>2
    <2>4. synced' \in Nat /\ unsynced' \in 0 .. SyncEvery - 1
      <3>1. CASE unsynced + 1 >= SyncEvery
        BY <2>1, <2>3, <3>1 DEF CountWrite
      <3>2. CASE ~(unsynced + 1 >= SyncEvery)
        <4>1. unsynced + 1 \in 0 .. SyncEvery - 1
          BY <1>1, <3>2
        <4> QED BY <1>1, <2>1, <3>2, <4>1 DEF CountWrite
      <3> QED BY <3>1, <3>2
    <2>5. PICK b \in Nat : BoundedBy(file, b)
      BY DEF Bounded, BoundedBy
    <2> DEFINE c == IF b < gen THEN gen ELSE b
    <2>6. c \in Nat /\ BoundedBy(file, c) /\ gen <= c
      <3>1. c \in Nat /\ b <= c /\ gen <= c
        OBVIOUS
      <3> HIDE DEF c
      <3>2. \A k \in 1 .. Len(file) : file[k].gen \in Nat
        BY <1>1, LineIs
      <3> QED BY <2>5, <3>1, <3>2 DEF BoundedBy
    <2> HIDE DEF c
    <2>7. WithLine(seq, gen) \in Seq(Line) /\ BoundedBy(WithLine(seq, gen), c)
      <3>1. CASE OpenTail
        BY <1>1, <2>6, <3>1, Rewritten DEF WithLine, OpenTail
      <3>2. CASE ~OpenTail
        <4> DEFINE l == [seq |-> seq, gen |-> gen, at |-> length, closed |-> TRUE]
        <4>1. l \in Line /\ l.gen <= c /\ WithLine(seq, gen) = Append(file, l)
          BY <1>1, <2>6, <3>2 DEF Line, WithLine
        <4> HIDE DEF l
        <4> QED BY <1>1, <2>6, <4>1, Extended
      <3> QED BY <3>1, <3>2
    <2>8. Bounded'
      BY <2>1, <2>6, <2>7 DEF Bounded, BoundedBy
    <2> QED BY <2>1, <2>3, <2>4, <2>7, <2>8
  <1> QED BY <1>2, <1>3

(* Opening takes a generation above those it reads. *)
LEMMA GenerationIs ==
  ASSUME TypeOK, Bounded
  PROVE  /\ ReplayedGeneration \in Nat \ {0}
         /\ \A k \in TailLines : file[k].gen < ReplayedGeneration
  <1> DEFINE R == {1} \cup {file[k].gen : k \in TailLines}
  <1>1. /\ file \in Seq(Line) /\ Len(file) \in Nat
        /\ \A k \in TailLines : k \in 1 .. Len(file) /\ file[k].gen \in Nat
    BY LineIs DEF TypeOK, TailLines
  <1>2. PICK b \in Nat : \A k \in 1 .. Len(file) : file[k].gen <= b
    BY DEF Bounded
  <1>3. R \in SUBSET (0 .. b + 1) /\ R # {} /\ b + 1 \in Nat /\ \A x \in R : x \in Nat
    BY <1>1, <1>2
  <1>4. \A k \in TailLines : file[k].gen \in R
    OBVIOUS
  <1> HIDE DEF R
  <1>5. Max(R) \in R /\ \A x \in R : x <= Max(R)
    BY <1>3, Greatest
  <1>6. Max(R) \in Nat
    BY <1>3, <1>5
  <1>7. CASE file = <<>>
    <2>1. TailLines = {}
      BY <1>7 DEF TailLines
    <2> QED BY <1>7, <2>1 DEF ReplayedGeneration
  <1>8. CASE file # <<>>
    <2>1. ReplayedGeneration = Max(R) + 1
      BY <1>8 DEF ReplayedGeneration, R
    <2> QED BY <1>1, <1>4, <1>5, <1>6, <2>1
  <1> QED BY <1>7, <1>8

-----------------------------------------------------------------------------
(* Whatever the file system does.                                          *)

(* A log that is empty is sound. *)
LEMMA Emptied ==
  /\ SoundAt(EmptyRing, 0, 0, 0, 1) /\ EmptyRing \in [Slots -> Nat]
  /\ 0 \in Slots /\ 0 \in 0 .. Cap
  BY DEF SoundAt, EmptyRing, Slots

LEMMA FreedInv ==
  ASSUME Freed
  PROVE  /\ up' \in BOOLEAN /\ fd' \in BOOLEAN /\ ring' \in [Slots -> Nat] /\ head' \in Slots
         /\ used' \in 0 .. Cap /\ newest' \in Nat /\ oldest' \in Nat /\ generation' \in Nat
         /\ Sound'
  <1>1. Sound'
    BY Emptied DEF Freed, Sound
  <1>2. up' \in BOOLEAN /\ fd' \in BOOLEAN
    BY DEF Freed
  <1>3. /\ ring' \in [Slots -> Nat] /\ head' \in Slots /\ used' \in 0 .. Cap
    BY Emptied DEF Freed
  <1>4. newest' \in Nat /\ oldest' \in Nat /\ generation' \in Nat
    BY DEF Freed
  <1> QED BY <1>1, <1>2, <1>3, <1>4

LEMMA FaultInit == Init => FaultInv
  <1> SUFFICES ASSUME Init PROVE FaultInv
    OBVIOUS
  <1>1. Sound
    BY Emptied DEF Init, Sound
  <1>2. TypeOK
    <2>1. <<>> \in Seq(Line) /\ <<>> \in Seq(Cursor) /\ 0 \in 0 .. SyncEvery - 1 /\ 0 \in 0 .. Cap
      OBVIOUS
    <2> QED BY <2>1, Emptied DEF Init, TypeOK
  <1>3. Bounded
    BY DEF Init, Bounded
  <1> QED BY <1>1, <1>2, <1>3 DEF FaultInv

LEMMA FaultOpen ==
  ASSUME FaultInv, Open
  PROVE  FaultInv'
  <1>1. TypeOK /\ Bounded
    BY DEF FaultInv
  <1>2. /\ up' = TRUE /\ fd' = TRUE /\ ring' = ReplayedRing /\ head' = ReplayedHead
        /\ used' = ReplayedUsed /\ newest' = ReplayedNewest
        /\ oldest' = IF newest' > 0 THEN ring'[OldestSlot(head', used')] ELSE 1
        /\ generation' = ReplayedGeneration /\ unsynced' = 0
        /\ file' = file /\ length' = length /\ synced' = synced /\ issued' = issued
    BY DEF Open
  <1> DEFINE r == ReplayedRing
             h == ReplayedHead
             u == ReplayedUsed
             n == ReplayedNewest
             o == IF n > 0 THEN r[SlotOf(h, u, 0)] ELSE 1
  <1>3. /\ r \in [Slots -> Nat] /\ h \in Slots /\ u \in 0 .. Cap /\ n \in Nat
        /\ u = 0 => n = 0
        /\ u > 0 => n > 0 /\ r[SlotOf(h, u, u - 1)] = n
        /\ \A i \in 0 .. u - 1 : \E k \in Replayed : r[SlotOf(h, u, i)] = file[k].seq
        /\ \A j \in Slots : r[j] > 0 => \E i \in 0 .. u - 1 : j = SlotOf(h, u, i)
    BY <1>1, Reopened
  <1>4. oldest' = o
    BY <1>2 DEF OldestSlot
  <1> HIDE DEF r, h, u, n
  <1>5. o \in Nat
    <2>1. CASE u = 0
      BY <1>3, <2>1
    <2>2. CASE u # 0
      <3>1. u \in 1 .. Cap /\ 0 \in 0 .. u - 1
        BY <1>3, <2>2
      <3>2. SlotOf(h, u, 0) \in Slots
        BY <1>3, <3>1, SlotsApart
      <3> QED BY <1>3, <3>2
    <2> QED BY <2>1, <2>2
  <1>6. SoundAt(r, h, u, n, o)
    <2>1. \A k \in Replayed : file[k].seq > 0
      BY DEF Replayed
    <2>2. \A i \in 0 .. u - 1 : r[SlotOf(h, u, i)] > 0
      BY <1>3, <2>1
    <2> QED BY <1>3, <2>2 DEF SoundAt
  <1>7. Sound'
    BY <1>2, <1>4, <1>6 DEF Sound, r, h, u, n
  <1>8. TypeOK'
    <2>1. ReplayedGeneration \in Nat /\ 0 \in 0 .. SyncEvery - 1
      BY <1>1, GenerationIs
    <2> HIDE DEF o
    <2> QED BY <1>1, <1>2, <1>3, <1>4, <1>5, <2>1 DEF TypeOK, r, h, u, n
  <1>9. Bounded'
    BY <1>1, <1>2 DEF Bounded
  <1> QED BY <1>7, <1>8, <1>9 DEF FaultInv

(* An event is issued and goes to the ring; what it leaves of the file is  *)
(* given by the hypotheses.                                                *)
LEMMA FaultIssue ==
  ASSUME FaultInv, PushNew, up' = up, fd' = fd, NEW gen \in Nat, Issue(gen, newest + 1),
         generation' \in Nat, file' \in Seq(Line), length' \in Nat, synced' \in Nat,
         unsynced' \in 0 .. SyncEvery - 1, Bounded'
  PROVE  FaultInv'
  <1>1. TypeOK /\ Sound
    BY DEF FaultInv
  <1>2. /\ ring' \in [Slots -> Nat] /\ head' \in Slots /\ used' \in 1 .. Cap
        /\ newest' \in Nat /\ oldest' \in Nat /\ Sound'
    BY <1>1, Pushed
  <1>3. issued' \in Seq(Cursor)
    <2>1. [gen |-> gen, seq |-> newest + 1] \in Cursor /\ issued \in Seq(Cursor)
      BY <1>1 DEF TypeOK, Cursor
    <2> QED BY <2>1 DEF Issue
  <1>4. used' \in 0 .. Cap
    BY <1>2
  <1>5. TypeOK'
    BY <1>1, <1>2, <1>3, <1>4 DEF TypeOK
  <1> QED BY <1>2, <1>5 DEF FaultInv

LEMMA FaultAppendEvent ==
  ASSUME FaultInv, NEW size \in Sizes, AppendEvent(size)
  PROVE  FaultInv'
  <1>1. TypeOK /\ Bounded /\ newest + 1 \in Nat /\ generation \in Nat /\ size \in Nat
    BY DEF FaultInv, TypeOK
  <1>2. /\ PushNew /\ up' = up /\ fd' = fd /\ generation' = generation
        /\ WriteLine(newest + 1, generation, size) /\ Issue(generation, newest + 1)
    BY DEF AppendEvent
  <1>3. /\ file' \in Seq(Line) /\ length' \in Nat /\ synced' \in Nat
        /\ unsynced' \in 0 .. SyncEvery - 1 /\ Bounded'
    BY <1>1, <1>2, Written
  <1> QED BY <1>1, <1>2, <1>3, FaultIssue

LEMMA FaultBumpGeneration ==
  ASSUME FaultInv, NEW size \in Sizes, BumpGeneration(size)
  PROVE  FaultInv'
  <1>1. TypeOK /\ Bounded /\ newest + 1 \in Nat /\ generation + 1 \in Nat /\ size \in Nat
    BY DEF FaultInv, TypeOK
  <1>2. /\ PushNew /\ up' = up /\ fd' = fd /\ generation' = generation + 1
        /\ WriteLine(newest + 1, generation + 1, size) /\ Issue(generation + 1, newest + 1)
    BY DEF BumpGeneration
  <1>3. /\ file' \in Seq(Line) /\ length' \in Nat /\ synced' \in Nat
        /\ unsynced' \in 0 .. SyncEvery - 1 /\ Bounded'
    BY <1>1, <1>2, Written
  <1> QED BY <1>1, <1>2, <1>3, FaultIssue

LEMMA FaultAppendTorn ==
  ASSUME FaultInv, AppendTorn
  PROVE  FaultInv'
  <1>1. /\ TypeOK /\ Bounded /\ newest + 1 \in Nat /\ generation \in Nat /\ length \in Nat
        /\ length + 1 \in Nat /\ file \in Seq(Line) /\ synced \in Nat
        /\ unsynced \in 0 .. SyncEvery - 1
    BY DEF FaultInv, TypeOK
  <1>2. /\ PushNew /\ up' = up /\ fd' = fd /\ generation' = generation
        /\ synced' = synced /\ unsynced' = unsynced /\ Issue(generation, newest + 1)
    BY DEF AppendTorn
  <1>3. file' \in Seq(Line) /\ length' \in Nat /\ Bounded'
    <2>1. CASE UNCHANGED <<file, length>>
      BY <1>1, <2>1 DEF Bounded
    <2>2. CASE /\ file' \in WithTornLine(file, length, newest + 1, generation)
               /\ length' = length + 1
      <3>1. PICK b \in Nat : BoundedBy(file, b)
        BY <1>1 DEF Bounded, BoundedBy
      <3>2. PICK c \in Nat : c >= b /\ c >= generation
        <4>1. CASE b >= generation
          BY <1>1, <4>1
        <4>2. CASE ~(b >= generation)
          BY <1>1, <4>2
        <4> QED BY <4>1, <4>2
      <3>3. BoundedBy(file, c)
        BY <1>1, <3>1, <3>2, LineIs DEF BoundedBy
      <3>4. \A g \in WithTornLine(file, length, newest + 1, generation) :
              g \in Seq(Line) /\ BoundedBy(g, c)
        BY <1>1, <3>2, <3>3, Torn
      <3>5. file' \in Seq(Line) /\ BoundedBy(file', c)
        BY <2>2, <3>4
      <3> QED BY <1>1, <2>2, <3>5 DEF Bounded, BoundedBy
    <2> QED BY <2>1, <2>2 DEF AppendTorn
  <1>4. generation' \in Nat /\ synced' \in Nat /\ unsynced' \in 0 .. SyncEvery - 1
    BY <1>1, <1>2
  <1> QED BY <1>1, <1>2, <1>3, <1>4, FaultIssue

LEMMA FaultPowerLoss ==
  ASSUME FaultInv, PowerLoss
  PROVE  FaultInv'
  <1>1. /\ TypeOK /\ Bounded /\ file \in Seq(Line) /\ unsynced \in 0 .. SyncEvery - 1
        /\ issued \in Seq(Cursor)
    BY DEF FaultInv, TypeOK
  <1>2. PICK k \in 0 .. Len(file) - 1 :
          \/ file' = SubSeq(file, 1, k) /\ length' = file[k + 1].at
          \/ /\ file' \in WithTornLine(SubSeq(file, 1, k), file[k + 1].at,
                                       file[k + 1].seq, file[k + 1].gen)
             /\ length' = file[k + 1].at + 1
    BY DEF PowerLoss
  <1>3. PICK b \in Nat : BoundedBy(file, b)
    BY <1>1 DEF Bounded, BoundedBy
  <1>4. SubSeq(file, 1, k) \in Seq(Line) /\ BoundedBy(SubSeq(file, 1, k), b)
    BY <1>1, <1>3, Cut
  <1>5. /\ file[k + 1].at \in Nat /\ file[k + 1].seq \in Nat /\ file[k + 1].gen \in Nat
        /\ file[k + 1].gen <= b /\ file[k + 1].at + 1 \in Nat
    <2>1. k + 1 \in 1 .. Len(file)
      BY <1>1, LineIs
    <2>2. file[k + 1].at \in Nat /\ file[k + 1].seq \in Nat /\ file[k + 1].gen \in Nat
      BY <1>1, <2>1, LineIs
    <2> QED BY <1>3, <2>1, <2>2 DEF BoundedBy
  <1>6. \A g \in WithTornLine(SubSeq(file, 1, k), file[k + 1].at,
                              file[k + 1].seq, file[k + 1].gen) :
          g \in Seq(Line) /\ BoundedBy(g, b)
    BY <1>4, <1>5, Torn
  <1>7. file' \in Seq(Line) /\ BoundedBy(file', b) /\ length' \in Nat
    BY <1>2, <1>4, <1>5, <1>6
  <1>8. Bounded'
    BY <1>7 DEF Bounded, BoundedBy
  <1>9. /\ Freed /\ synced' = length' /\ unsynced' = unsynced /\ issued' = issued
    BY DEF PowerLoss
  <1>10. TypeOK' /\ Sound'
    BY <1>1, <1>7, <1>9, FreedInv DEF TypeOK
  <1> QED BY <1>8, <1>10 DEF FaultInv

LEMMA FaultStep ==
  ASSUME FaultInv, [FaultNext]_vars
  PROVE  FaultInv'
  <1>1. /\ TypeOK /\ Bounded /\ Sound
        /\ length \in Nat /\ synced \in Nat /\ 0 \in 0 .. SyncEvery - 1
    BY DEF FaultInv, TypeOK
  <1>2. CASE Open
    BY <1>2, FaultOpen
  <1>3. CASE Close
    <2>1. /\ Freed /\ file' = file /\ length' = length /\ unsynced' = unsynced /\ issued' = issued
          /\ synced' \in Nat
      BY <1>1, <1>3 DEF Close
    <2>2. TypeOK' /\ Sound'
      BY <1>1, <2>1, FreedInv DEF TypeOK
    <2> QED BY <1>1, <2>1, <2>2 DEF FaultInv, Bounded
  <1>4. CASE Kill
    <2>1. /\ Freed /\ file' = file /\ length' = length /\ unsynced' = unsynced /\ issued' = issued
          /\ synced' = synced
      BY <1>4 DEF Kill, disk
    <2>2. TypeOK' /\ Sound'
      BY <1>1, <2>1, FreedInv DEF TypeOK
    <2> QED BY <1>1, <2>1, <2>2 DEF FaultInv, Bounded
  <1>5. ASSUME NEW size \in Sizes, AppendEvent(size) PROVE FaultInv'
    BY <1>5, FaultAppendEvent
  <1>6. ASSUME NEW size \in Sizes, BumpGeneration(size) PROVE FaultInv'
    BY <1>6, FaultBumpGeneration
  <1>7. CASE AppendTorn
    BY <1>7, FaultAppendTorn
  <1>8. CASE PowerLoss
    BY <1>8, FaultPowerLoss
  <1>9. CASE OpenWithoutFile
    <2>1. /\ up' = TRUE /\ fd' = FALSE /\ ring' = EmptyRing /\ head' = 0 /\ used' = 0
          /\ newest' = 0 /\ oldest' = 1 /\ generation' = 1 /\ unsynced' = 0
          /\ file' = file /\ length' = length /\ synced' = synced /\ issued' = issued
      BY <1>9 DEF OpenWithoutFile
    <2>2. Sound'
      BY <2>1, Emptied DEF Sound
    <2>3. /\ up' \in BOOLEAN /\ fd' \in BOOLEAN /\ ring' \in [Slots -> Nat] /\ head' \in Slots
          /\ used' \in 0 .. Cap
      BY <2>1, Emptied
    <2>4. newest' \in Nat /\ oldest' \in Nat /\ generation' \in Nat
      BY <2>1
    <2>5. /\ file' \in Seq(Line) /\ length' \in Nat /\ synced' \in Nat
          /\ unsynced' \in 0 .. SyncEvery - 1 /\ issued' \in Seq(Cursor)
      BY <1>1, <2>1 DEF TypeOK
    <2>6. TypeOK'
      BY <2>3, <2>4, <2>5 DEF TypeOK
    <2> QED BY <1>1, <2>1, <2>2, <2>6 DEF FaultInv, Bounded
  <1>10. CASE UNCHANGED vars
    BY <1>10 DEF FaultInv, TypeOK, Sound, Bounded, vars, memory, disk
  <1> QED BY <1>2, <1>3, <1>4, <1>5, <1>6, <1>7, <1>8, <1>9, <1>10 DEF FaultNext, Next

(* The slots in use are as many as used says. *)
LEMMA Described == TypeOK /\ Sound => CursorsDescribeRing
  <1> SUFFICES ASSUME TypeOK, Sound PROVE CursorsDescribeRing
    OBVIOUS
  <1> DEFINE S == 0 .. used - 1
             T == {j \in Slots : ring[j] > 0}
             f == [i \in S |-> SlotOf(head, used, i)]
  <1>1. head \in Slots /\ used \in 0 .. Cap /\ ring \in [Slots -> Nat]
    BY DEF TypeOK
  <1>2. /\ \A i \in S : SlotOf(head, used, i) \in Slots
        /\ \A i, k \in S : SlotOf(head, used, i) = SlotOf(head, used, k) => i = k
    <2>1. CASE used = 0
      BY <2>1
    <2>2. CASE used # 0
      <3>1. used \in 1 .. Cap
        BY <1>1, <2>2
      <3> QED BY <1>1, <3>1, SlotsApart
    <2> QED BY <2>1, <2>2
  <1>3. /\ \A i \in S : ring[SlotOf(head, used, i)] > 0
        /\ \A j \in Slots : ring[j] > 0 => \E i \in S : j = SlotOf(head, used, i)
        /\ used > 0 => /\ ring[SlotOf(head, used, used - 1)] = newest
                       /\ ring[SlotOf(head, used, 0)] = oldest
        /\ used = 0 => newest = 0
    BY DEF Sound, SoundAt
  <1>4. IsFiniteSet(S) /\ Cardinality(S) = used
    <2>1. \A n \in Int : IsFiniteSet(0 .. n) /\ Cardinality(0 .. n) = IF 0 > n THEN 0 ELSE n + 1
      BY FS_Interval
    <2>2. used - 1 \in Int /\ used \in Nat
      BY <1>1
    <2> QED BY <2>1, <2>2
  <1>5. f \in Bijection(S, T)
    <2>1. f \in [S -> T]
      BY <1>2, <1>3
    <2>2. \A i, k \in S : f[i] = f[k] => i = k
      BY <1>2
    <2>3. \A j \in T : \E i \in S : f[i] = j
      BY <1>3
    <2> HIDE DEF f, S, T
    <2> QED BY <2>1, <2>2, <2>3 DEF Bijection, Injection, Surjection, IsInjective
  <1> HIDE DEF f, S
  <1>6. Cardinality(T) = used
    BY <1>4, <1>5, FS_Bijection DEF ExistsBijection
  <1> QED BY <1>3, <1>6 DEF CursorsDescribeRing

(* Types are kept, with and without failures of the file system. *)
THEOREM TypesKept == Spec \/ FaultSpec => []TypeOK
  <1>1. FaultInv => TypeOK
    BY DEF FaultInv
  <1>2. FaultInv /\ [FaultNext]_vars => FaultInv'
    BY FaultStep
  <1>3. [Next]_vars => [FaultNext]_vars
    BY DEF FaultNext
  <1> QED BY FaultInit, <1>1, <1>2, <1>3, PTL DEF Spec, FaultSpec

(* Whatever the file system did to the lines, the cursors of an open log   *)
(* describe its slots.                                                     *)
THEOREM CursorsKept == FaultSpec => []CursorsDescribeRing
  <1>1. FaultInv => CursorsDescribeRing
    BY Described DEF FaultInv
  <1>2. FaultInv /\ [FaultNext]_vars => FaultInv'
    BY FaultStep
  <1> QED BY FaultInit, <1>1, <1>2, PTL DEF FaultSpec

-----------------------------------------------------------------------------
(* Without failures of the file system.                                    *)

(* Lines that carry numbers and start one after the other are replayed     *)
(* from the first that is in the tail to the last.                         *)
LEMMA Suffix ==
  ASSUME TypeOK, \A k \in 1 .. Len(file) : file[k].seq > 0,
         \A i, k \in 1 .. Len(file) : i < k => file[i].at < file[k].at
  PROVE  /\ Cardinality(Replayed) \in 0 .. Len(file)
         /\ Replayed = {k \in 1 .. Len(file) : InTail(k)}
         /\ \A k \in Replayed : Rank(k) = k - (Len(file) - Cardinality(Replayed))
         /\ Replayed # {} => Len(file) \in Replayed
  <1> DEFINE L == Len(file)
             m == Cardinality(Replayed)
  <1>1. /\ L \in Nat /\ length \in Nat
        /\ \A k \in 1 .. L : file[k].seq \in Nat /\ file[k].at \in Nat
    BY LineIs DEF TypeOK
  <1>2. Replayed = {k \in 1 .. L : InTail(k)}
    BY <1>1 DEF Replayed, TailLines
  <1>3. \A i, k \in 1 .. L : InTail(i) /\ i < k => InTail(k)
    BY <1>1 DEF InTail
  <1>4. CASE Replayed = {}
    <2>1. m = 0
      BY <1>4, FS_EmptySet
    <2> QED BY <1>1, <1>2, <1>4, <2>1
  <1>5. CASE Replayed # {}
    <2>1. Replayed \in SUBSET (0 .. L)
      BY <1>2
    <2>2. /\ m \in Nat /\ m # 0 /\ \A k \in Replayed : Rank(k) \in 1 .. m
          /\ \A k, l \in Replayed : k < l => Rank(k) < Rank(l)
          /\ \A r \in 1 .. m : \E k \in Replayed : Rank(k) = r
      BY <1>1, <1>5, <2>1, Ranked, RankIs
    <2>3. PICK f \in Replayed : Rank(f) = 1
      BY <2>2
    <2>4. ASSUME NEW k \in Replayed PROVE f <= k
      <3>1. f \in Int /\ k \in Int
        BY <2>1
      <3>2. ~(k < f)
        BY <2>2, <2>3
      <3> QED BY <3>1, <3>2
    <2>5. Replayed = f .. L
      <3>1. f \in 1 .. L /\ InTail(f)
        BY <1>2
      <3>2. \A k \in f .. L : InTail(k) /\ k \in 1 .. L
        BY <1>1, <1>3, <3>1
      <3> QED BY <1>1, <1>2, <2>4, <3>1, <3>2
    <2>6. f \in 1 .. L
      BY <1>2
    <2>7. m = L - f + 1
      BY <1>1, <2>5, <2>6, FS_Interval
    <2>8. ASSUME NEW k \in Replayed PROVE Rank(k) = k - (L - m)
      <3>1. k \in f .. L
        BY <2>5
      <3>2. {i \in Replayed : i <= k} = f .. k
        BY <1>1, <2>5, <2>6, <3>1
      <3>3. Cardinality(f .. k) = k - f + 1
        BY <1>1, <2>6, <3>1, FS_Interval
      <3>4. Rank(k) = k - f + 1
        BY <3>2, <3>3 DEF Rank
      <3> QED BY <1>1, <2>6, <2>7, <3>1, <3>4
    <2>9. m \in 0 .. L /\ L \in Replayed
      BY <1>1, <2>5, <2>6, <2>7
    <2> QED BY <1>2, <1>5, <2>8, <2>9
  <1> QED BY <1>4, <1>5

(* Opening a log. *)
LEMMA FollowsOpen ==
  ASSUME WindowInv, Open
  PROVE  WindowInv'
  <1>1. TypeOK /\ Bounded /\ Chained /\ FaultInv
    BY DEF WindowInv, FaultInv
  <1>2. /\ up' = TRUE /\ fd' = TRUE /\ ring' = ReplayedRing /\ head' = ReplayedHead
        /\ used' = ReplayedUsed /\ newest' = ReplayedNewest
        /\ file' = file /\ length' = length
    BY DEF Open
  <1>3. FaultInv' /\ Chained'
    BY <1>1, <1>2, FaultOpen DEF Chained, InTail
  <1> DEFINE r == ReplayedRing
             h == ReplayedHead
             u == ReplayedUsed
             n == ReplayedNewest
             m == Cardinality(Replayed)
             L == Len(file)
  <1>4. /\ u \in 0 .. Cap /\ n \in Nat /\ (u = 0 <=> Replayed = {})
        /\ u = 0 => n = 0
        /\ u > 0 => n > 0 /\ r[SlotOf(h, u, u - 1)] = n
        /\ \A i \in 0 .. u - 1 : \E k \in Replayed :
             Rank(k) = m - u + i + 1 /\ r[SlotOf(h, u, i)] = file[k].seq
    BY <1>1, Reopened
  <1>5. /\ L \in Nat /\ m \in 0 .. L /\ Replayed = {k \in 1 .. L : InTail(k)}
        /\ \A k \in Replayed : Rank(k) = k - (L - m)
        /\ Replayed # {} => L \in Replayed
    BY <1>1, LineIs, Suffix DEF TypeOK, Chained
  <1>6. /\ \A k \in 1 .. L : file[k].seq \in Nat
        /\ \A k \in Replayed : k \in 1 .. L /\ file[L].seq = file[k].seq + (L - k)
    <2>1. \A k \in 1 .. L : file[k].seq \in Nat
      BY <1>1, LineIs DEF TypeOK
    <2> QED BY <1>1, <1>5, <2>1 DEF Chained
  <1> HIDE DEF r, h, u, n, m, L
  <1>7. ASSUME NEW i \in 0 .. u - 1 PROVE r[SlotOf(h, u, i)] = file[L].seq - u + 1 + i
    <2>1. PICK k \in Replayed : Rank(k) = m - u + i + 1 /\ r[SlotOf(h, u, i)] = file[k].seq
      BY <1>4
    <2>2. /\ k \in 1 .. L /\ file[L].seq = file[k].seq + (L - k) /\ Rank(k) = k - (L - m)
          /\ file[k].seq \in Nat
      BY <1>5, <1>6, <2>1
    <2>3. u \in Int /\ m \in Int /\ L \in Int /\ i \in Int /\ k \in Int
      BY <1>4, <1>5, <2>2
    <2>4. k - (L - m) = m - u + i + 1
      BY <2>1, <2>2
    <2>5. L - k = u - 1 - i
      BY <2>3, <2>4
    <2>6. file[k].seq = file[L].seq - u + 1 + i
      <3>1. PICK a \in Nat : a = file[k].seq
        BY <2>2
      <3>2. PICK b : b = file[L].seq
        OBVIOUS
      <3>3. b = a + (L - k)
        BY <2>2, <3>1, <3>2
      <3>4. a = b - u + 1 + i
        BY <2>3, <2>5, <3>1, <3>3
      <3> QED BY <3>1, <3>2, <3>4
    <2> QED BY <2>1, <2>6
  <1>8. CASE u = 0
    <2>1. /\ newest' = 0 /\ \A k \in 1 .. L : ~InTail(k)
      BY <1>2, <1>4, <1>5, <1>8 DEF n
    <2>2. \A i \in 0 .. used' - 1 : FALSE
      <3>1. \A i \in 0 .. u - 1 : FALSE
        BY <1>8
      <3> QED BY <1>2, <3>1 DEF u
    <2>3. Follows'
      BY <1>2, <2>1, <2>2 DEF Follows, Consecutive, InTail, L
    <2> QED BY <1>3, <2>3 DEF WindowInv
  <1>9. CASE u # 0
    <2>1. L \in 1 .. L /\ file # <<>>
      BY <1>1, <1>4, <1>5, <1>9 DEF TypeOK, L
    <2>2. n = file[L].seq /\ n # 0
      <3> DEFINE i == u - 1
      <3>1. i \in 0 .. u - 1 /\ u > 0
        BY <1>4, <1>9
      <3>2. file[L].seq - u + 1 + i = file[L].seq
        <4>1. u \in Int /\ file[L].seq \in Int
          BY <1>4, <1>6, <2>1
        <4> QED BY <4>1
      <3> HIDE DEF i
      <3>3. r[SlotOf(h, u, i)] = file[L].seq
        BY <1>7, <3>1, <3>2
      <3> QED BY <1>4, <3>1, <3>3 DEF i
    <2>3. \A i \in 0 .. u - 1 : r[SlotOf(h, u, i)] = n - u + 1 + i
      BY <1>7, <2>2
    <2>4. \A i \in 0 .. used' - 1 : ring'[SlotOf(head', used', i)] = newest' - used' + 1 + i
      BY <1>2, <2>3 DEF r, h, u, n
    <2>5. newest' # 0 /\ file' # <<>> /\ file'[Len(file')].seq = newest'
      BY <1>2, <2>1, <2>2 DEF n, L
    <2>6. Follows'
      BY <1>2, <2>4, <2>5 DEF Follows, Consecutive
    <2> QED BY <1>3, <2>6 DEF WindowInv
  <1> QED BY <1>8, <1>9

(* An event is written after the line that carries the number before it,   *)
(* or after lines that no open reads again.                                *)
LEMMA FollowsIssue ==
  ASSUME WindowInv, FaultInv', up, PushNew, fd' = fd, NEW gen \in Nat, NEW size \in Sizes,
         WriteLine(newest + 1, gen, size)
  PROVE  WindowInv'
  <1> DEFINE L == Len(file)
             l == [seq |-> newest + 1, gen |-> gen, at |-> length, closed |-> TRUE]
             f == Append(file, l)
             n == length + size
             In(g, z, k) == z <= TailSize \/ g[k].at > z - TailSize
  <1>1. /\ TypeOK /\ Sound /\ file \in Seq(Line) /\ length \in Nat /\ newest \in Nat /\ L \in Nat
        /\ fd /\ Consecutive /\ size \in Nat /\ size > 0
        /\ IF newest = 0 THEN \A k \in 1 .. L : ~InTail(k)
                         ELSE file # <<>> /\ file[L].seq = newest
    <2>1. TypeOK /\ Sound /\ Follows
      BY DEF WindowInv, FaultInv
    <2>2. file \in Seq(Line) /\ length \in Nat /\ newest \in Nat /\ L \in Nat
      BY <2>1 DEF TypeOK
    <2>3. /\ fd /\ Consecutive
          /\ IF newest = 0 THEN \A k \in 1 .. L : ~InTail(k)
                           ELSE file # <<>> /\ file[L].seq = newest
      BY <2>1 DEF Follows
    <2>4. size \in Nat /\ size > 0
      OBVIOUS
    <2> QED BY <2>1, <2>2, <2>3, <2>4
  <1>2. /\ \A k \in 1 .. L : /\ file[k].seq > 0 /\ file[k].closed /\ file[k].at < length
                             /\ file[k].at \in Nat /\ file[k].seq \in Nat
        /\ \A i, k \in 1 .. L : i < k => file[i].at < file[k].at
        /\ \A i, k \in 1 .. L : i <= k /\ InTail(i) => file[k].seq = file[i].seq + (k - i)
    BY <1>1, LineIs DEF WindowInv, Chained
  <1>3. ~OpenTail
    <2>1. file # <<>> => Len(file) \in 1 .. L
      BY <1>1
    <2> QED BY <1>2, <2>1 DEF OpenTail
  <1>4. file' = f /\ length' = n
    BY <1>1, <1>3 DEF WriteLine, WithLine
  <1>5. l.seq = newest + 1 /\ l.at = length /\ l.closed /\ l \in Line
    BY <1>1 DEF Line
  <1> HIDE DEF l
  <1>6. f # <<>> /\ Len(f) = L + 1 /\ f[L + 1] = l /\ \A k \in 1 .. L : f[k] = file[k]
    BY <1>1, <1>5, AppendIs
  <1> HIDE DEF f, L
  <1>7. /\ \A k \in 1 .. L + 1 : f[k].seq > 0 /\ f[k].closed /\ f[k].at < n
        /\ \A i, k \in 1 .. L + 1 : i < k => f[i].at < f[k].at
    <2>1. ASSUME NEW k \in 1 .. L + 1
          PROVE  /\ f[k].seq > 0 /\ f[k].closed /\ f[k].at < n
                 /\ \A i \in 1 .. L + 1 : i < k => f[i].at < f[k].at
      <3>1. CASE k = L + 1
        <4>1. f[k].seq = newest + 1 /\ f[k].at = length /\ f[k].closed
          BY <1>5, <1>6, <3>1
        <4>2. f[k].seq > 0 /\ length < n
          BY <1>1, <4>1
        <4>3. ASSUME NEW i \in 1 .. L + 1, i < k PROVE f[i].at < f[k].at
          <5>1. i \in 1 .. L
            BY <1>1, <3>1, <4>3
          <5>2. f[i] = file[i] /\ file[i].at < length
            BY <1>2, <1>6, <5>1
          <5> QED BY <4>1, <5>2
        <4> QED BY <4>1, <4>2, <4>3
      <3>2. CASE k # L + 1
        <4>1. k \in 1 .. L /\ \A i \in 1 .. L + 1 : i < k => i \in 1 .. L
          BY <1>1, <3>2
        <4>2. f[k] = file[k] /\ file[k].at < length /\ file[k].at \in Nat
          BY <1>2, <1>6, <4>1
        <4>3. f[k].seq > 0 /\ f[k].closed /\ f[k].at < n
          <5>1. length < n
            BY <1>1
          <5> QED BY <1>1, <1>2, <4>1, <4>2, <5>1
        <4>4. ASSUME NEW i \in 1 .. L + 1, i < k PROVE f[i].at < f[k].at
          <5>1. i \in 1 .. L /\ f[i] = file[i]
            BY <1>6, <4>1, <4>4
          <5>2. file[i].at < file[k].at
            BY <1>2, <4>1, <4>4, <5>1
          <5> QED BY <4>2, <5>1, <5>2
        <4> QED BY <4>3, <4>4
      <3> QED BY <3>1, <3>2
    <2> QED BY <2>1
  (* A line that is in the tail now was in the tail before. *)
  <1>8. ASSUME NEW i \in 1 .. L, In(f, n, i)
        PROVE  InTail(i)
    BY <1>1, <1>2, <1>6, <1>8 DEF InTail
  <1>9. ASSUME NEW i \in 1 .. L + 1, NEW k \in 1 .. L + 1, i <= k, In(f, n, i)
        PROVE  f[k].seq = f[i].seq + (k - i)
    <2>1. CASE i = L + 1
      <3>1. k = i
        BY <1>1, <1>9, <2>1
      <3> QED BY <1>1, <1>5, <1>6, <2>1, <3>1
    <2>2. CASE i # L + 1
      <3>1. i \in 1 .. L
        BY <1>1, <2>2
      <3>2. InTail(i)
        BY <1>8, <1>9, <3>1
      <3>3. CASE k # L + 1
        <4>1. k \in 1 .. L
          BY <1>1, <3>3
        <4> QED BY <1>2, <1>6, <1>9, <3>1, <3>2, <4>1
      <3>4. CASE k = L + 1
        <4>1. L \in 1 .. L /\ i <= L
          BY <1>1, <3>1
        <4>2. file[L].seq = newest
          BY <1>1, <3>1, <3>2
        <4>3. newest = file[i].seq + (L - i)
          BY <1>2, <3>1, <3>2, <4>1, <4>2
        <4>4. f[i] = file[i] /\ f[k].seq = newest + 1 /\ file[i].seq \in Nat
          BY <1>2, <1>5, <1>6, <3>1, <3>4
        <4>5. newest + 1 = file[i].seq + (L + 1 - i)
          <5>1. PICK a \in Nat : a = file[i].seq
            BY <4>4
          <5>2. newest = a + (L - i)
            BY <4>3, <5>1
          <5>3. newest + 1 = a + (L + 1 - i)
            BY <1>1, <3>1, <5>2
          <5> QED BY <5>1, <5>3
        <4>6. L + 1 - i = k - i
          BY <1>1, <3>1, <3>4
        <4> QED BY <4>4, <4>5, <4>6
      <3> QED BY <3>3, <3>4
    <2> QED BY <2>1, <2>2
  <1>10. Chained'
    <2>1. \A k : InTail(k)' = In(f, n, k)
      BY <1>4 DEF InTail
    <2> QED BY <1>4, <1>6, <1>7, <1>9, <2>1 DEF Chained
  <1>11. newest' # 0 /\ file' # <<>> /\ file'[Len(file')].seq = newest'
    <2>1. newest' = newest + 1 /\ newest + 1 # 0
      BY <1>1, Pushed
    <2> QED BY <1>4, <1>5, <1>6, <2>1
  <1>12. Follows'
    BY <1>1, <1>11, PushedWindow DEF Follows
  <1> QED BY <1>10, <1>12 DEF WindowInv

LEMMA FollowsStep ==
  ASSUME WindowInv, [Next]_vars
  PROVE  WindowInv'
  <1>1. FaultInv /\ Chained /\ Follows /\ generation \in Nat
    BY DEF WindowInv, FaultInv, TypeOK
  <1>2. FaultInv'
    BY <1>1, FaultStep DEF FaultNext
  <1>3. CASE Open
    BY <1>3, FollowsOpen
  <1>4. CASE Close \/ Kill
    <2>1. up' = FALSE /\ file' = file /\ length' = length
      BY <1>4 DEF Close, Kill, Freed, disk
    <2>2. Chained' /\ Follows'
      BY <1>1, <2>1 DEF Chained, InTail, Follows
    <2> QED BY <1>2, <2>2 DEF WindowInv
  <1>5. ASSUME NEW size \in Sizes, AppendEvent(size) PROVE WindowInv'
    BY <1>1, <1>2, <1>5, FollowsIssue DEF AppendEvent
  <1>6. ASSUME NEW size \in Sizes, BumpGeneration(size) PROVE WindowInv'
    <2>1. generation + 1 \in Nat
      BY <1>1
    <2> QED BY <1>2, <1>6, <2>1, FollowsIssue DEF BumpGeneration
  <1>7. CASE UNCHANGED vars
    BY <1>1, <1>2, <1>7 DEF WindowInv, Chained, InTail, Follows, Consecutive, vars, memory, disk
  <1> QED BY <1>3, <1>4, <1>5, <1>6, <1>7 DEF Next

(* Oldest to newest, the slots in use hold consecutive sequence numbers    *)
(* that end at newest_seq, whatever the sizes of the lines.                *)
THEOREM WindowStaysConsecutive == Spec => []WindowConsecutive
  <1>1. Init => WindowInv
    BY FaultInit DEF Init, WindowInv, Chained, Follows
  <1>2. WindowInv /\ [Next]_vars => WindowInv'
    BY FollowsStep
  <1>3. WindowInv => WindowConsecutive
    BY DEF WindowInv, Follows, Consecutive, WindowConsecutive
  <1> QED BY <1>1, <1>2, <1>3, PTL DEF Spec

-----------------------------------------------------------------------------
(* Lines that fit the tail.                                                *)

LEMMA InvInit == Init => Inv
  BY FaultInit DEF Init, Inv, Recorded, Numbered, Latest, Consecutive

LEMMA EventIs ==
  ASSUME NEW s \in Seq(Cursor)
  PROVE  /\ Len(s) \in Nat
         /\ \A k \in 1 .. Len(s) : s[k] \in Cursor /\ s[k].seq \in Nat /\ s[k].gen \in Nat
  <1>1. Len(s) \in Nat /\ \A k \in 1 .. Len(s) : s[k] \in Cursor
    OBVIOUS
  <1> QED BY <1>1 DEF Cursor

(* When every line fits the tail the last one is replayed. *)
LEMMA LastReplayed ==
  ASSUME TypeOK, Recorded
  PROVE  /\ Cardinality(Replayed) \in 0 .. Len(file)
         /\ \A k \in Replayed : Rank(k) = k - (Len(file) - Cardinality(Replayed))
         /\ file # <<>> => Replayed # {} /\ Len(file) \in TailLines
  <1> DEFINE L == Len(file)
  <1>1. /\ L \in Nat /\ length \in Nat /\ (L = 0 <=> file = <<>>)
        /\ \A k \in 1 .. L : file[k].seq \in Nat /\ file[k].at \in Nat
    BY LineIs DEF TypeOK
  <1>2. /\ \A k \in 1 .. L : file[k].seq = k
        /\ \A i, k \in 1 .. L : i < k => file[i].at < file[k].at
        /\ IF file = <<>> THEN length = 0 ELSE length - file[L].at < TailSize
    BY DEF Recorded
  <1>3. \A k \in 1 .. L : file[k].seq > 0
    BY <1>1, <1>2
  <1>4. /\ Cardinality(Replayed) \in 0 .. L /\ Replayed = {k \in 1 .. L : InTail(k)}
        /\ \A k \in Replayed : Rank(k) = k - (L - Cardinality(Replayed))
    BY <1>2, <1>3, Suffix
  <1>5. file # <<>> => L \in Replayed /\ L \in TailLines
    <2> SUFFICES ASSUME file # <<>> PROVE L \in Replayed /\ L \in TailLines
      OBVIOUS
    <2>1. L \in 1 .. L
      BY <1>1
    <2>2. length <= TailSize \/ file[L].at > length - TailSize
      BY <1>1, <1>2, <2>1
    <2> QED BY <1>4, <2>1, <2>2 DEF InTail, TailLines
  <1> QED BY <1>4, <1>5

LEMMA InvOpen ==
  ASSUME Inv, Open
  PROVE  Inv'
  <1>1. TypeOK /\ Bounded /\ Recorded /\ Numbered /\ FaultInv
    BY DEF Inv, FaultInv
  <1>2. /\ up' = TRUE /\ fd' = TRUE /\ ring' = ReplayedRing /\ head' = ReplayedHead
        /\ used' = ReplayedUsed /\ newest' = ReplayedNewest
        /\ generation' = ReplayedGeneration
        /\ file' = file /\ length' = length /\ issued' = issued
    BY DEF Open
  <1>3. FaultInv' /\ Recorded' /\ Numbered'
    BY <1>1, <1>2, FaultOpen DEF Recorded, Numbered
  <1> DEFINE r == ReplayedRing
             h == ReplayedHead
             u == ReplayedUsed
             n == ReplayedNewest
             m == Cardinality(Replayed)
             L == Len(issued)
  <1>4. /\ u \in 0 .. Cap /\ n \in Nat /\ (u = 0 <=> Replayed = {})
        /\ u = 0 => n = 0
        /\ u > 0 => r[SlotOf(h, u, u - 1)] = n
        /\ \A i \in 0 .. u - 1 : \E k \in Replayed :
             Rank(k) = m - u + i + 1 /\ r[SlotOf(h, u, i)] = file[k].seq
    BY <1>1, Reopened
  <1>5. /\ L \in Nat /\ Len(file) = L /\ (L = 0 <=> file = <<>>) /\ (L = 0 <=> issued = <<>>)
        /\ \A k \in 1 .. L : file[k].seq = k /\ file[k].gen = issued[k].gen
        /\ \A k \in Replayed : k \in 1 .. L
    BY <1>1, LineIs, EventIs DEF TypeOK, Recorded, Replayed, TailLines
  <1>6. m \in 0 .. L /\ \A k \in Replayed : Rank(k) = k - (L - m)
    BY <1>1, <1>5, LastReplayed
  <1>7. u <= m
    BY <1>6 DEF ReplayedUsed
  <1>8. L # 0 => u > 0 /\ L \in TailLines
    BY <1>1, <1>4, <1>5, LastReplayed
  <1>9. ReplayedGeneration > 0 /\ (L # 0 => issued[L].gen <= ReplayedGeneration)
    <2>1. ReplayedGeneration \in Nat \ {0} /\ \A k \in TailLines : file[k].gen < ReplayedGeneration
      BY <1>1, GenerationIs
    <2>2. L # 0 => file[L].gen = issued[L].gen /\ file[L].gen \in Nat
      BY <1>1, <1>5, LineIs DEF TypeOK
    <2> QED BY <1>8, <2>1, <2>2
  <1> HIDE DEF r, h, u, n, m
  <1>10. ASSUME NEW i \in 0 .. u - 1 PROVE r[SlotOf(h, u, i)] = L - u + 1 + i
    <2>1. PICK k \in Replayed : Rank(k) = m - u + i + 1 /\ r[SlotOf(h, u, i)] = file[k].seq
      BY <1>4
    <2>2. k \in 1 .. L /\ file[k].seq = k /\ Rank(k) = k - (L - m)
      BY <1>5, <1>6, <2>1
    <2>3. m \in Nat /\ L \in Nat /\ u \in Nat /\ i \in Nat /\ k \in Nat
      BY <1>4, <1>5, <1>6, <2>2
    <2>4. k - (L - m) = m - u + i + 1
      BY <2>1, <2>2
    <2>5. k = L - u + 1 + i
      BY ONLY <2>3, <2>4
    <2> QED BY <2>1, <2>2, <2>5
  <1>11. n = L
    <2>1. CASE u = 0
      BY <1>4, <1>5, <1>8, <2>1
    <2>2. CASE u # 0
      <3> DEFINE i == u - 1
      <3>1. i \in 0 .. u - 1 /\ L - u + 1 + i = L
        BY <1>4, <1>5, <2>2
      <3> HIDE DEF i
      <3>2. r[SlotOf(h, u, i)] = L
        BY <1>10, <3>1
      <3> QED BY <1>4, <2>2, <3>2 DEF i
    <2> QED BY <2>1, <2>2
  <1>12. u <= L
    BY <1>4, <1>6, <1>7
  <1>13. /\ ring' = r /\ head' = h /\ used' = u /\ newest' = n /\ Len(issued') = L
    BY <1>2 DEF r, h, u, n
  <1>14. /\ newest' = Len(issued') /\ used' <= Len(issued') /\ generation' > 0
         /\ issued' # <<>> => used' > 0 /\ issued'[Len(issued')].gen <= generation'
    BY <1>2, <1>5, <1>8, <1>9, <1>11, <1>12, <1>13
  <1>15. \A i \in 0 .. used' - 1 : ring'[SlotOf(head', used', i)] = newest' - used' + 1 + i
    <2>1. \A i \in 0 .. u - 1 : r[SlotOf(h, u, i)] = n - u + 1 + i
      BY <1>10, <1>11
    <2> QED BY <1>13, <2>1
  <1>16. Latest'
    BY <1>2, <1>14, <1>15 DEF Latest, Consecutive
  <1> QED BY <1>3, <1>16 DEF Inv

(* The lines of the file and the events issued grow together. *)
LEMMA RecordedMore ==
  ASSUME Inv, LinesFit, up, NEW gen \in Nat, NEW size \in Sizes, generation <= gen,
         WriteLine(newest + 1, gen, size), Issue(gen, newest + 1)
  PROVE  /\ Recorded' /\ Numbered'
         /\ Len(issued') = newest + 1 /\ issued'[newest + 1].gen = gen
  <1> DEFINE L == Len(issued)
             l == [seq |-> newest + 1, gen |-> gen, at |-> length, closed |-> TRUE]
             e == [gen |-> gen, seq |-> newest + 1]
  <1>1. /\ file \in Seq(Line) /\ issued \in Seq(Cursor) /\ length \in Nat /\ newest = L
        /\ Len(file) = L /\ L \in Nat /\ fd /\ size \in Nat /\ size > 0 /\ size < TailSize
        /\ generation \in Nat
    BY EventIs DEF Inv, FaultInv, TypeOK, Recorded, Latest, LinesFit
  <1>2. /\ \A k \in 1 .. L : /\ file[k].seq = k /\ file[k].gen = issued[k].gen
                             /\ file[k].closed /\ file[k].at < length /\ file[k].at \in Nat
        /\ \A i, k \in 1 .. L : i < k => file[i].at < file[k].at
        /\ \A k \in 1 .. L : issued[k].seq = k /\ issued[k].gen \in Nat
        /\ \A i, k \in 1 .. L : i <= k => issued[i].gen <= issued[k].gen
        /\ L # 0 => issued[L].gen <= generation
    BY <1>1, LineIs, EventIs DEF Inv, Recorded, Numbered, Latest
  <1>3. ~OpenTail
    <2>1. file # <<>> => Len(file) \in 1 .. L
      BY <1>1
    <2> QED BY <1>1, <1>2, <2>1 DEF OpenTail
  <1>4. file' = Append(file, l) /\ length' = length + size
    BY <1>1, <1>3 DEF WriteLine, WithLine
  <1>5. issued' = Append(issued, e)
    BY DEF Issue
  <1>6. /\ l.seq = L + 1 /\ l.gen = gen /\ l.at = length /\ l.closed /\ e.seq = L + 1 /\ e.gen = gen
        /\ l \in Line /\ e \in Cursor
    BY <1>1 DEF Line, Cursor
  <1> HIDE DEF l, e
  <1> DEFINE f == Append(file, l)
             s == Append(issued, e)
             n == length + size
  <1>7. /\ Len(f) = L + 1 /\ f[L + 1] = l /\ \A k \in 1 .. L : f[k] = file[k]
        /\ Len(s) = L + 1 /\ s[L + 1] = e /\ \A k \in 1 .. L : s[k] = issued[k]
        /\ f # <<>>
    <2>1. f # <<>> /\ Len(f) = Len(file) + 1 /\ f[Len(file) + 1] = l
          /\ \A k \in 1 .. Len(file) : f[k] = file[k]
      BY <1>1, <1>6, AppendIs
    <2>2. Len(s) = Len(issued) + 1 /\ s[Len(issued) + 1] = e
          /\ \A k \in 1 .. Len(issued) : s[k] = issued[k]
      BY <1>1, <1>6, AppendIs
    <2> HIDE DEF f, s
    <2> QED BY <1>1, <2>1, <2>2
  <1> HIDE DEF f, s
  <1>8. /\ Len(f) = Len(s)
        /\ \A k \in 1 .. Len(f) : /\ f[k].seq = k /\ f[k].gen = s[k].gen
                                  /\ f[k].closed /\ f[k].at < n
        /\ n - f[Len(f)].at < TailSize
    <2> SUFFICES ASSUME NEW k \in 1 .. L + 1
                 PROVE  /\ f[k].seq = k /\ f[k].gen = s[k].gen
                        /\ f[k].closed /\ f[k].at < n
      BY <1>1, <1>6, <1>7
    <2>1. CASE k = L + 1
      BY <1>1, <1>6, <1>7, <2>1
    <2>2. CASE k # L + 1
      <3>1. k \in 1 .. L
        BY <1>1, <2>2
      <3> QED BY <1>1, <1>2, <1>7, <3>1
    <2> QED BY <2>1, <2>2
  <1>9. \A i, k \in 1 .. Len(f) : i < k => f[i].at < f[k].at
    <2> SUFFICES ASSUME NEW i \in 1 .. L + 1, NEW k \in 1 .. L + 1, i < k
                 PROVE  f[i].at < f[k].at
      BY <1>7
    <2>1. i \in 1 .. L
      BY <1>1
    <2>2. CASE k = L + 1
      BY <1>2, <1>6, <1>7, <2>1, <2>2
    <2>3. CASE k # L + 1
      <3>1. k \in 1 .. L
        BY <1>1, <2>3
      <3> QED BY <1>2, <1>7, <2>1, <3>1
    <2> QED BY <2>2, <2>3
  <1>10. \A k \in 1 .. Len(s) : s[k].seq = k
    <2> SUFFICES ASSUME NEW k \in 1 .. L + 1 PROVE s[k].seq = k
      BY <1>7
    <2>1. CASE k = L + 1
      BY <1>6, <1>7, <2>1
    <2>2. CASE k # L + 1
      <3>1. k \in 1 .. L
        BY <1>1, <2>2
      <3> QED BY <1>2, <1>7, <3>1
    <2> QED BY <2>1, <2>2
  <1>11. \A i, k \in 1 .. Len(s) : i <= k => s[i].gen <= s[k].gen
    <2> SUFFICES ASSUME NEW i \in 1 .. L + 1, NEW k \in 1 .. L + 1, i <= k
                 PROVE  s[i].gen <= s[k].gen
      BY <1>7
    <2>1. CASE k = L + 1
      <3>1. CASE i = L + 1
        BY <1>6, <1>7, <2>1, <3>1
      <3>2. CASE i # L + 1
        <4>1. i \in 1 .. L /\ L \in 1 .. L /\ i <= L /\ L # 0
          BY <1>1, <3>2
        <4>2. issued[i].gen <= issued[L].gen /\ issued[L].gen <= generation
          BY <1>2, <4>1
        <4>3. issued[i].gen \in Nat /\ issued[L].gen \in Nat
          BY <1>2, <4>1
        <4>4. issued[i].gen <= gen
          BY <1>1, <4>2, <4>3
        <4> QED BY <1>6, <1>7, <2>1, <4>1, <4>4
      <3> QED BY <3>1, <3>2
    <2>2. CASE k # L + 1
      <3>1. k \in 1 .. L /\ i \in 1 .. L
        BY <1>1, <2>2
      <3> QED BY <1>2, <1>7, <3>1
    <2> QED BY <2>1, <2>2
  <1>12. file' = f /\ issued' = s /\ length' = n
    BY <1>4, <1>5 DEF f, s
  <1>13. Recorded'
    BY <1>7, <1>8, <1>9, <1>12 DEF Recorded
  <1>14. Numbered'
    BY <1>10, <1>11, <1>12 DEF Numbered
  <1>15. Len(issued') = newest + 1 /\ issued'[newest + 1].gen = gen
    BY <1>1, <1>6, <1>7, <1>12
  <1> QED BY <1>13, <1>14, <1>15

(* One event more is the latest, and the window still ends with it. *)
LEMMA InvIssue ==
  ASSUME Inv, LinesFit, FaultInv', up, PushNew, up' = up, fd' = fd,
         NEW gen \in {generation, generation + 1}, NEW size \in Sizes, generation' = gen,
         WriteLine(newest + 1, gen, size), Issue(gen, newest + 1)
  PROVE  Inv'
  <1>1. /\ TypeOK /\ Sound /\ used \in 0 .. Cap /\ newest \in Nat /\ generation \in Nat
        /\ generation > 0 /\ fd /\ newest = Len(issued) /\ used <= Len(issued)
        /\ Consecutive
    BY DEF Inv, FaultInv, TypeOK, Latest
  <1>2. gen \in Nat /\ generation <= gen /\ gen > 0
    BY <1>1
  <1>3. /\ Recorded' /\ Numbered'
        /\ Len(issued') = newest + 1 /\ issued'[newest + 1].gen = gen
    BY <1>2, RecordedMore
  <1>4. used' \in 1 .. Cap /\ newest' = newest + 1
    BY <1>1, Pushed
  <1>5. used' = MoreUsed(used)
    BY DEF PushNew
  <1>6. used' <= newest + 1
    <2>1. MoreUsed(used) <= newest + 1
      BY <1>1 DEF MoreUsed
    <2> QED BY <1>5, <2>1
  <1>7. Consecutive'
    BY <1>1, PushedWindow
  <1>8. /\ up' /\ fd' /\ newest' = Len(issued') /\ used' <= Len(issued') /\ generation' > 0
        /\ used' > 0 /\ issued'[Len(issued')].gen <= generation'
    BY <1>1, <1>2, <1>3, <1>4, <1>6
  <1>9. Latest'
    BY <1>7, <1>8 DEF Latest
  <1> QED BY <1>3, <1>9 DEF Inv

LEMMA InvStep ==
  ASSUME LinesFit, Inv, [Next]_vars
  PROVE  Inv'
  <1>1. FaultInv /\ Recorded /\ Numbered /\ Latest
    BY DEF Inv
  <1>2. FaultInv'
    BY <1>1, FaultStep DEF FaultNext
  <1>3. CASE Open
    BY <1>3, InvOpen
  <1>4. CASE Close \/ Kill
    <2>1. /\ Freed /\ file' = file /\ length' = length /\ issued' = issued
      BY <1>4 DEF Close, Kill, disk
    <2>2. Recorded' /\ Numbered'
      BY <1>1, <2>1 DEF Recorded, Numbered
    <2>3. Latest'
      BY <2>1 DEF Freed, Latest
    <2> QED BY <1>2, <2>2, <2>3 DEF Inv
  <1>5. ASSUME NEW size \in Sizes, AppendEvent(size) PROVE Inv'
    <2>1. /\ up /\ PushNew /\ WriteLine(newest + 1, generation, size)
          /\ Issue(generation, newest + 1)
          /\ up' = up /\ fd' = fd /\ generation' = generation
      BY <1>5 DEF AppendEvent
    <2>2. generation \in {generation, generation + 1}
      OBVIOUS
    <2> QED BY <1>2, <2>1, <2>2, InvIssue
  <1>6. ASSUME NEW size \in Sizes, BumpGeneration(size) PROVE Inv'
    <2>1. /\ up /\ PushNew /\ WriteLine(newest + 1, generation + 1, size)
          /\ Issue(generation + 1, newest + 1)
          /\ up' = up /\ fd' = fd /\ generation' = generation + 1
      BY <1>6 DEF BumpGeneration
    <2>2. generation + 1 \in {generation, generation + 1}
      OBVIOUS
    <2> QED BY <1>2, <2>1, <2>2, InvIssue
  <1>7. CASE UNCHANGED vars
    BY <1>1, <1>2, <1>7 DEF Inv, Recorded, Numbered, Latest, Consecutive, vars, memory, disk
  <1> QED BY <1>3, <1>4, <1>5, <1>6, <1>7 DEF Next

(* The invariant of a log whose file system does not fail. *)
THEOREM Invariant == ASSUME LinesFit PROVE Spec => []Inv
  <1>1. Inv /\ [Next]_vars => Inv'
    BY InvStep
  <1> QED BY InvInit, <1>1, PTL DEF Spec

(* A cursor is never given to a second event, restarts included. *)
THEOREM CursorsAreUnique == ASSUME LinesFit PROVE Spec => []CursorUnique
  <1>1. Inv => CursorUnique
    <2> SUFFICES ASSUME Inv, NEW i \in 1 .. Len(issued), NEW j \in 1 .. Len(issued),
                        issued[i] = issued[j]
                 PROVE  i = j
      BY DEF CursorUnique
    <2>1. issued[i].seq = i /\ issued[j].seq = j
      BY DEF Inv, Numbered
    <2> QED BY <2>1
  <1> QED BY Invariant, <1>1, PTL

(* An open log continues at the last event ever appended and holds some of *)
(* the window.                                                             *)
THEOREM OpenRestores == ASSUME LinesFit PROVE Spec => []ReopenRestores
  <1>1. Inv => ReopenRestores
    <2> SUFFICES ASSUME Inv, up, issued # <<>>
                 PROVE  newest = issued[Len(issued)].seq /\ used > 0
      BY DEF ReopenRestores
    <2>1. issued \in Seq(Cursor) /\ newest = Len(issued) /\ used > 0
      BY DEF Inv, FaultInv, TypeOK, Latest
    <2>2. Len(issued) \in 1 .. Len(issued)
      BY <2>1
    <2>3. issued[Len(issued)].seq = Len(issued)
      BY <2>2 DEF Inv, Numbered
    <2> QED BY <2>1, <2>3
  <1> QED BY Invariant, <1>1, PTL

-----------------------------------------------------------------------------
(* The log implements EventWindow.                                         *)

(* The window is the latest used numbers. *)
WindowLatest ==
  /\ RingWindow = [i \in 1 .. used |-> Len(issued) - used + i]
  /\ used \in 0 .. Cap /\ used <= Len(issued)
  /\ ~up => used = 0

LEMMA WindowIs == Inv => WindowLatest
  <1> SUFFICES ASSUME Inv PROVE WindowLatest
    OBVIOUS
  <1>1. /\ used \in 0 .. Cap /\ Len(issued) \in Nat
    BY EventIs DEF Inv, FaultInv, TypeOK
  <1>2. CASE ~up
    <2>1. used = 0
      BY <1>2 DEF Inv, Latest
    <2>2. \A i \in 1 .. used : FALSE
      BY <2>1
    <2> QED BY <1>1, <1>2, <2>1, <2>2 DEF WindowLatest, RingWindow
  <1>3. CASE up
    <2>1. /\ newest = Len(issued) /\ used <= Len(issued)
          /\ \A i \in 0 .. used - 1 : ring[SlotOf(head, used, i)] = newest - used + 1 + i
      BY <1>3 DEF Inv, Latest, Consecutive
    <2>2. ASSUME NEW i \in 1 .. used
          PROVE  ring[SlotOf(head, used, i - 1)] = Len(issued) - used + i
      <3> DEFINE k == i - 1
      <3>1. k \in 0 .. used - 1 /\ newest - used + 1 + k = Len(issued) - used + i
        BY <1>1, <2>1
      <3> HIDE DEF k
      <3>2. ring[SlotOf(head, used, k)] = newest - used + 1 + k
        BY <2>1, <3>1
      <3> QED BY <3>1, <3>2 DEF k
    <2> QED BY <1>1, <1>3, <2>1, <2>2 DEF WindowLatest, RingWindow
  <1> QED BY <1>2, <1>3

LEMMA WindowStaysLatest == Inv' => WindowLatest'
  BY WindowIs, PTL

(* One event more moves the latest numbers up by one. *)
LEMMA Moved ==
  ASSUME NEW n \in Nat, NEW u \in 0 .. Cap, u <= n,
         NEW w, w = [i \in 1 .. u |-> n - u + i]
  PROVE  /\ Len(w) = u
         /\ [i \in 1 .. MoreUsed(u) |-> n + 1 - MoreUsed(u) + i] =
              IF u < Cap THEN Append(w, n + 1) ELSE Append(Tail(w), n + 1)
  <1>1. w \in Seq(Nat) /\ Len(w) = u /\ \A i \in 1 .. u : w[i] = n - u + i
    <2>1. \A i \in 1 .. u : n - u + i \in Nat
      OBVIOUS
    <2> QED BY <2>1
  <1>2. CASE u < Cap
    <2> DEFINE s == Append(w, n + 1)
    <2>1. /\ s \in Seq(Nat) /\ Len(s) = u + 1 /\ s[u + 1] = n + 1
          /\ \A i \in 1 .. u : s[i] = w[i]
      BY <1>1, AppendIs
    <2> HIDE DEF s
    <2>2. s = [i \in 1 .. u + 1 |-> s[i]]
      BY <2>1
    <2>3. \A i \in 1 .. u + 1 : s[i] = n + 1 - (u + 1) + i
      <3> TAKE i \in 1 .. u + 1
      <3>1. CASE i = u + 1
        BY <2>1, <3>1
      <3>2. CASE i # u + 1
        <4>1. i \in 1 .. u
          BY <3>2
        <4> QED BY <1>1, <2>1, <4>1
      <3> QED BY <3>1, <3>2
    <2> QED BY <1>1, <1>2, <2>2, <2>3 DEF s, MoreUsed
  <1>3. CASE ~(u < Cap)
    <2> DEFINE t == Tail(w)
               s == Append(t, n + 1)
    <2>1. u = Cap /\ u >= 1
      BY <1>3
    <2>2. t \in Seq(Nat) /\ Len(t) = u - 1 /\ \A i \in 1 .. u - 1 : t[i] = w[i + 1]
      <3>1. w # <<>>
        BY <1>1, <2>1
      <3>2. w \in Seq(Nat) /\ Len(w) = u
        BY <1>1
      <3>3. /\ Tail(w) \in Seq(Nat) /\ Len(Tail(w)) = Len(w) - 1
            /\ \A i \in 1 .. Len(Tail(w)) : Tail(w)[i] = w[i + 1]
        BY ONLY <3>1, <3>2, HeadTailProperties
      <3> HIDE DEF t
      <3> QED BY <3>2, <3>3 DEF t
    <2> HIDE DEF t
    <2>3. /\ s \in Seq(Nat) /\ Len(s) = u /\ s[u] = n + 1
          /\ \A i \in 1 .. u - 1 : s[i] = t[i]
      <3>1. /\ s \in Seq(Nat) /\ Len(s) = (u - 1) + 1 /\ s[(u - 1) + 1] = n + 1
            /\ \A i \in 1 .. u - 1 : s[i] = t[i]
        BY <2>2, AppendIs
      <3>2. (u - 1) + 1 = u
        OBVIOUS
      <3> QED BY <3>1, <3>2
    <2> HIDE DEF s
    <2>4. s = [i \in 1 .. u |-> s[i]]
      BY <2>3
    <2>5. \A i \in 1 .. u : s[i] = n + 1 - u + i
      <3> TAKE i \in 1 .. u
      <3>1. CASE i = u
        BY <2>3, <3>1
      <3>2. CASE i # u
        <4>1. i \in 1 .. u - 1 /\ i + 1 \in 1 .. u
          BY <3>2
        <4>2. s[i] = w[i + 1] /\ w[i + 1] = n - u + (i + 1)
          BY <1>1, <2>2, <2>3, <4>1
        <4>3. n \in Nat /\ u \in Nat
          BY <1>1
        <4> QED BY ONLY <4>2, <4>3, i \in 1 .. u
      <3> QED BY <3>1, <3>2
    <2> QED BY <1>1, <1>3, <2>4, <2>5 DEF s, t, MoreUsed
  <1> QED BY <1>2, <1>3

LEMMA WindowInit == Init => Window!Init
  <1> SUFFICES ASSUME Init PROVE Window!Init
    OBVIOUS
  <1>1. up = FALSE /\ generation = 0 /\ issued = <<>> /\ used = 0
    BY DEF Init
  <1>2. \A i \in 1 .. used : FALSE
    BY <1>1
  <1>3. RingWindow = <<>>
    BY <1>2 DEF RingWindow
  <1> QED BY <1>1, <1>3 DEF Window!Init

LEMMA WindowStart ==
  ASSUME Inv, WindowLatest', Latest', Open
  PROVE  Window!Start
  <1>1. /\ TypeOK /\ Bounded /\ Recorded /\ ~up /\ up' /\ issued' = issued
        /\ generation' = ReplayedGeneration
    BY DEF Inv, FaultInv, Open
  <1>2. PICK k : k = used'
    OBVIOUS
  <1>3. /\ k \in 0 .. Cap /\ k <= Len(issued) /\ (issued # <<>> => k > 0)
        /\ RingWindow' = [i \in 1 .. k |-> Len(issued) - k + i]
    BY <1>1, <1>2 DEF WindowLatest, Latest
  <1>4. Len(issued) \in Nat /\ (Len(issued) > 0 => issued # <<>>)
    BY <1>1 DEF TypeOK
  <1>5. ReplayedGeneration \in Nat \ {0}
    BY <1>1, GenerationIs
  <1>6. Len(issued) > 0 => ReplayedGeneration > issued[Len(issued)].gen
    <2> SUFFICES ASSUME Len(issued) > 0 PROVE ReplayedGeneration > issued[Len(issued)].gen
      OBVIOUS
    <2>1. Len(file) = Len(issued) /\ Len(file) \in 1 .. Len(file) /\ file # <<>>
      BY <1>1, <1>4 DEF Recorded
    <2>2. file[Len(file)].gen = issued[Len(issued)].gen /\ file[Len(file)].gen \in Nat
      BY <1>1, <2>1, LineIs DEF Recorded, TypeOK
    <2>3. Len(file) \in TailLines
      BY <1>1, <2>1, LastReplayed
    <2>4. file[Len(file)].gen < ReplayedGeneration
      BY <1>1, <2>3, GenerationIs
    <2> QED BY <1>5, <2>2, <2>4
  <1>7. \E j \in 0 .. Cap : /\ j <= Len(issued) /\ (Len(issued) > 0 => j > 0)
                            /\ RingWindow' = Window!LatestNumbers(j)
    BY <1>3, <1>4 DEF Window!LatestNumbers
  <1> QED BY <1>1, <1>5, <1>6, <1>7 DEF Window!Start

LEMMA WindowPublish ==
  ASSUME Inv, WindowLatest, WindowLatest', up, PushNew, up' = up,
         NEW gen \in {generation, generation + 1}, generation' = gen,
         Issue(gen, newest + 1)
  PROVE  Window!Publish
  <1> DEFINE n == Len(issued)
  <1>1. /\ issued \in Seq(Cursor) /\ n \in Nat /\ newest = n /\ used \in 0 .. Cap /\ used <= n
        /\ RingWindow = [i \in 1 .. used |-> n - used + i]
        /\ generation \in Nat
    BY DEF Inv, FaultInv, TypeOK, Latest, WindowLatest
  <1>2. issued' = Append(issued, [gen |-> gen, seq |-> n + 1])
    BY <1>1 DEF Issue
  <1>3. Len(issued') = n + 1
    <2>1. [gen |-> gen, seq |-> n + 1] \in Cursor
      BY <1>1 DEF Cursor
    <2> QED BY <1>1, <1>2, <2>1, AppendIs
  <1>4. PICK v : v = used'
    OBVIOUS
  <1>5. v = MoreUsed(used) /\ RingWindow' = [i \in 1 .. v |-> n + 1 - v + i]
    BY <1>3, <1>4 DEF PushNew, WindowLatest
  <1> HIDE DEF n
  <1>6. /\ Len(RingWindow) = used
        /\ RingWindow' = IF used < Cap THEN Append(RingWindow, n + 1)
                                       ELSE Append(Tail(RingWindow), n + 1)
    <2>1. /\ Len(RingWindow) = used
          /\ [i \in 1 .. MoreUsed(used) |-> n + 1 - MoreUsed(used) + i] =
               IF used < Cap THEN Append(RingWindow, n + 1) ELSE Append(Tail(RingWindow), n + 1)
      <3>1. \A w : w = [i \in 1 .. used |-> n - used + i]
              => /\ Len(w) = used
                 /\ [i \in 1 .. MoreUsed(used) |-> n + 1 - MoreUsed(used) + i] =
                      IF used < Cap THEN Append(w, n + 1) ELSE Append(Tail(w), n + 1)
        BY <1>1, Moved
      <3> QED BY <1>1, <3>1
    <2>2. RingWindow' = [i \in 1 .. MoreUsed(used) |-> n + 1 - MoreUsed(used) + i]
      BY <1>5
    <2> QED BY <2>1, <2>2
  <1> QED BY <1>2, <1>6 DEF Window!Publish, n

(* Every step of the log is a step of the window or leaves it alone. *)
LEMMA WindowStep ==
  ASSUME Inv, WindowLatest, Inv', WindowLatest', [Next]_vars
  PROVE  [Window!Next]_(Window!vars)
  <1>1. CASE Open
    BY <1>1, WindowStart DEF Inv, Window!Next
  <1>2. CASE Close \/ Kill
    <2>1. up /\ up' = FALSE /\ generation' = 0 /\ used' = 0 /\ issued' = issued
      BY <1>2 DEF Close, Kill, Freed
    <2>2. \A i \in 1 .. used' : FALSE
      BY <2>1
    <2>3. RingWindow' = <<>>
      BY <2>2 DEF RingWindow
    <2> QED BY <2>1, <2>3 DEF Window!Stop, Window!Next
  <1>3. ASSUME NEW size \in Sizes, AppendEvent(size) PROVE Window!Next
    <2>1. up /\ PushNew /\ up' = up /\ generation' = generation /\ Issue(generation, newest + 1)
      BY <1>3 DEF AppendEvent
    <2>2. generation \in {generation, generation + 1}
      OBVIOUS
    <2> QED BY <2>1, <2>2, WindowPublish DEF Window!Next
  <1>4. ASSUME NEW size \in Sizes, BumpGeneration(size) PROVE Window!Next
    <2>1. /\ up /\ PushNew /\ up' = up /\ generation' = generation + 1
          /\ Issue(generation + 1, newest + 1)
      BY <1>4 DEF BumpGeneration
    <2>2. generation + 1 \in {generation, generation + 1}
      OBVIOUS
    <2> QED BY <2>1, <2>2, WindowPublish DEF Window!Next
  <1>5. CASE UNCHANGED vars
    BY <1>5 DEF vars, memory, Window!vars, RingWindow
  <1> QED BY <1>1, <1>2, <1>3, <1>4, <1>5 DEF Next

(* The log implements EventWindow: it serves the latest events, and an     *)
(* open continues the sequence under a generation of its own.              *)
THEOREM Refinement == ASSUME LinesFit PROVE Spec => WindowSpec
  <1>1. Init => Window!Init
    BY WindowInit
  <1>2. Inv /\ WindowLatest /\ Inv' /\ WindowLatest' /\ [Next]_vars
          => [Window!Next]_(Window!vars)
    BY WindowStep
  <1> QED BY Invariant, WindowIs, <1>1, <1>2, PTL DEF Spec, WindowSpec, Window!Spec

=============================================================================
