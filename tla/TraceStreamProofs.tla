--------------------------- MODULE TraceStreamProofs ---------------------------
(***************************************************************************)
(* What tracestream.c makes of a turn, for every choice of the markers, of *)
(* RESERVE at least as long as each, and of the tokens: whatever bytes the *)
(* child prints and however its markers are spread over tokens.            *)
(*                                                                         *)
(* The argument.  A round of the loop moves the first bytes that are held  *)
(* to what is emitted, with a kind, and may leave out an end marker        *)
(* (Moves, Went); what every round keeps the loop keeps (DrainKeeps), and  *)
(* a flush empties the parser because every round that goes on leaves less *)
(* to do (Left).  Three things are kept.  The bytes emitted and held are   *)
(* those fed but for one end marker (Keeps).  What was emitted and what    *)
(* the rest would come to, whatever still came, is what the whole turn     *)
(* would come to (SplitInv): markers are found where the whole turn has    *)
(* them, as RESERVE bytes are held back (FindShift).  The plain text told  *)
(* is that of the answers emitted (Told), as the sanitizer takes no plain  *)
(* byte away and adds none, wherever a piece is cut (SanitizeIsExact).     *)
(***************************************************************************)
EXTENDS TraceStream, TextProofs

-----------------------------------------------------------------------------
(* Parts of a sequence.                                                    *)

(* A part of a sequence, element by element. *)
LEMMA PartIs ==
  ASSUME NEW S, NEW s \in Seq(S), NEW i \in Nat, i >= 1, NEW n \in Nat, i + n <= Len(s) + 1
  PROVE  /\ SubSeq(s, i, i + n - 1) \in Seq(S)
         /\ Len(SubSeq(s, i, i + n - 1)) = n
         /\ \A k \in 1 .. n : SubSeq(s, i, i + n - 1)[k] = s[i + k - 1]
  <1>0. Len(s) \in Nat
    BY LenProperties
  <1>1. i \in Int /\ i + n - 1 \in Int /\ \A k \in i .. i + n - 1 : s[k] \in S
    <2>1. \A k \in i .. i + n - 1 : k \in 1 .. Len(s)
      BY <1>0
    <2> QED BY <2>1, ElementOfSeq
  <1>2. /\ SubSeq(s, i, i + n - 1) \in Seq(S)
        /\ Len(SubSeq(s, i, i + n - 1)) = IF i <= i + n - 1 THEN (i + n - 1) - i + 1 ELSE 0
        /\ \A k \in 1 .. (i + n - 1) - i + 1 : SubSeq(s, i, i + n - 1)[k] = s[i + k - 1]
    BY <1>1, SubSeqProperties
  <1>3. (i + n - 1) - i + 1 = n /\ (IF i <= i + n - 1 THEN (i + n - 1) - i + 1 ELSE 0) = n
    BY <1>0
  <1> QED BY <1>2, <1>3

LEMMA UpToConcat ==
  ASSUME NEW S, NEW a \in Seq(S), NEW x \in Seq(S), NEW n \in 0 .. Len(a)
  PROVE  n \in 0 .. Len(a \o x) /\ SubSeq(a \o x, 1, n) = SubSeq(a, 1, n)
  <1>1. /\ a \o x \in Seq(S) /\ Len(a \o x) = Len(a) + Len(x)
        /\ Len(a) \in Nat /\ Len(x) \in Nat
        /\ \A i \in 1 .. Len(a) : (a \o x)[i] = a[i]
    BY ConcatIs
  <1>2. n \in 0 .. Len(a \o x)
    BY <1>1
  <1>3. /\ SubSeq(a, 1, n) \in Seq(S) /\ Len(SubSeq(a, 1, n)) = n
        /\ \A k \in 1 .. n : SubSeq(a, 1, n)[k] = a[k]
    BY UpToIs
  <1>4. /\ SubSeq(a \o x, 1, n) \in Seq(S) /\ Len(SubSeq(a \o x, 1, n)) = n
        /\ \A k \in 1 .. n : SubSeq(a \o x, 1, n)[k] = (a \o x)[k]
    BY <1>1, <1>2, UpToIs
  <1>5. \A k \in 1 .. n : (a \o x)[k] = a[k]
    BY <1>1
  <1>6. SubSeq(a \o x, 1, n) = SubSeq(a, 1, n)
    <2>1. \A k \in 1 .. n : SubSeq(a \o x, 1, n)[k] = SubSeq(a, 1, n)[k]
      BY <1>3, <1>4, <1>5
    <2> QED BY <1>3, <1>4, <2>1, SeqEqual
  <1> QED BY <1>2, <1>6

LEMMA FromOfConcat ==
  ASSUME NEW S, NEW a \in Seq(S), NEW x \in Seq(S), NEW i \in 1 .. Len(a) + 1
  PROVE  i \in 1 .. Len(a \o x) + 1 /\ From(a \o x, i) = From(a, i) \o x
  <1> DEFINE u == SubSeq(a, 1, i - 1)
             v == From(a, i)
  <1>0. Len(a) \in Nat /\ i - 1 \in 0 .. Len(a) /\ (i - 1) + 1 = i
    BY LenProperties
  <1>1. u \in Seq(S) /\ Len(u) = i - 1 /\ v \in Seq(S)
    BY <1>0, UpToIs, FromIs
  <1>2. u \o v = a
    <2>1. u \o From(a, (i - 1) + 1) = a
      BY <1>0, CutAt
    <2> QED BY <1>0, <2>1
  <1> HIDE DEF u, v
  <1>3. a \o x = u \o (v \o x)
    <2>1. u \in Seq(S) /\ v \in Seq(S)
      BY <1>1
    <2>2. (u \o v) \o x = u \o (v \o x)
      BY <2>1, ConcatAssociative, SMTT(30)
    <2> QED BY <1>2, <2>2
  <1>4. v \o x \in Seq(S) /\ Len(v \o x) \in Nat
    BY <1>1, ConcatProperties, LenProperties
  <1>5. 1 \in 1 .. Len(v \o x) + 1
    BY <1>4
  <1>6. Len(u) + 1 \in 1 .. Len(u \o (v \o x)) + 1 /\ From(u \o (v \o x), Len(u) + 1) = From(v \o x, 1)
    BY <1>1, <1>4, <1>5, FromConcat
  <1>7. From(v \o x, 1) = v \o x
    BY <1>4, FromFirst
  <1> QED BY <1>0, <1>1, <1>3, <1>6, <1>7 DEF v

-----------------------------------------------------------------------------
(* Where a marker is.                                                      *)

LEMMA IsAtIs ==
  ASSUME NEW s \in Seq(Byte), NEW m \in Seq(Byte), NEW i \in Nat, i >= 1
  PROVE  IsAt(s, m, i) <=> /\ i + Len(m) - 1 <= Len(s)
                           /\ \A k \in 1 .. Len(m) : s[i + k - 1] = m[k]
  <1>0. Len(s) \in Nat /\ Len(m) \in Nat
    BY LenProperties
  <1> SUFFICES ASSUME i + Len(m) - 1 <= Len(s)
               PROVE  SubSeq(s, i, i + Len(m) - 1) = m <=> \A k \in 1 .. Len(m) : s[i + k - 1] = m[k]
    BY DEF IsAt
  <1> DEFINE p == SubSeq(s, i, i + Len(m) - 1)
  <1>1. i + Len(m) <= Len(s) + 1
    BY <1>0
  <1>2. p \in Seq(Byte) /\ Len(p) = Len(m) /\ \A k \in 1 .. Len(m) : p[k] = s[i + k - 1]
    BY <1>0, <1>1, PartIs
  <1> HIDE DEF p
  <1>3. p = m <=> \A k \in 1 .. Len(m) : p[k] = m[k]
    BY <1>2, SeqEqual
  <1> QED BY <1>2, <1>3 DEF p

LEMMA FindIs ==
  ASSUME NEW s \in Seq(Byte), NEW m
  PROVE  /\ Find(s, m) \in 0 .. Len(s)
         /\ Find(s, m) # 0 => /\ Find(s, m) \in 1 .. Len(s) /\ IsAt(s, m, Find(s, m))
                              /\ \A k \in 1 .. Len(s) : IsAt(s, m, k) => Find(s, m) <= k
         /\ Find(s, m) = 0 => \A k \in 1 .. Len(s) : ~IsAt(s, m, k)
  <1> DEFINE is == {i \in 1 .. Len(s) : IsAt(s, m, i)}
  <1>0. Len(s) \in Nat
    BY LenProperties
  <1>1. CASE is = {}
    <2>1. Find(s, m) = 0
      BY <1>1 DEF Find
    <2>2. \A k \in 1 .. Len(s) : ~IsAt(s, m, k)
      BY <1>1
    <2>3. 0 \in 0 .. Len(s)
      BY <1>0
    <2> QED BY <2>1, <2>2, <2>3
  <1>2. CASE is # {}
    <2>1. Find(s, m) = CHOOSE i \in is : \A k \in is : i <= k
      BY <1>2 DEF Find
    <2>2. \E i \in is : \A k \in is : i <= k
      <3>1. is \in SUBSET Nat
        OBVIOUS
      <3> HIDE DEF is
      <3> QED BY <1>2, <3>1, Least
    <2> HIDE DEF is
    <2>3. Find(s, m) \in is /\ \A k \in is : Find(s, m) <= k
      BY <2>1, <2>2
    <2>4. Find(s, m) \in 1 .. Len(s) /\ IsAt(s, m, Find(s, m))
      BY <2>3 DEF is
    <2>5. \A k \in 1 .. Len(s) : IsAt(s, m, k) => Find(s, m) <= k
      BY <2>3 DEF is
    <2>6. Find(s, m) # 0 /\ Find(s, m) \in 0 .. Len(s)
      BY <1>0, <2>4
    <2> QED BY <2>4, <2>5, <2>6
  <1> QED BY <1>1, <1>2

LEMMA FindAt ==
  ASSUME NEW s \in Seq(Byte), NEW m, NEW i \in 1 .. Len(s), IsAt(s, m, i),
         \A k \in 1 .. Len(s) : IsAt(s, m, k) => i <= k
  PROVE  Find(s, m) = i
  <1>0. Len(s) \in Nat
    BY LenProperties
  <1>1. Find(s, m) # 0
    BY FindIs
  <1>2. Find(s, m) \in 1 .. Len(s) /\ Find(s, m) <= i /\ i <= Find(s, m)
    BY <1>1, FindIs
  <1> QED BY <1>0, <1>2

(* A marker that is there stays where it is. *)
LEMMA FindPrefix ==
  ASSUME NEW a \in Seq(Byte), NEW x \in Seq(Byte), NEW m \in Seq(Byte), Find(a, m) # 0
  PROVE  Find(a \o x, m) = Find(a, m)
  <1> DEFINE at == Find(a, m)
             s == a \o x
  <1>1. /\ s \in Seq(Byte) /\ Len(s) = Len(a) + Len(x)
        /\ Len(a) \in Nat /\ Len(x) \in Nat
        /\ \A i \in 1 .. Len(a) : s[i] = a[i]
    BY ConcatIs
  <1>2. at \in 1 .. Len(a) /\ IsAt(a, m, at) /\ \A k \in 1 .. Len(a) : IsAt(a, m, k) => at <= k
    BY FindIs
  <1>3. Len(m) \in Nat
    BY LenProperties
  <1> HIDE DEF s, at
  <1>4. at + Len(m) - 1 <= Len(a) /\ \A k \in 1 .. Len(m) : a[at + k - 1] = m[k]
    <2>1. at \in Nat /\ at >= 1
      BY <1>1, <1>2
    <2>2. IsAt(a, m, at)
      BY <1>2
    <2> QED BY <2>1, <2>2, IsAtIs
  <1>5. \A k \in 1 .. Len(m) : at + k - 1 \in 1 .. Len(a)
    BY <1>1, <1>2, <1>3, <1>4
  <1>6. IsAt(s, m, at)
    <2>1. at + Len(m) - 1 <= Len(s)
      BY <1>1, <1>2, <1>3, <1>4
    <2>2. \A k \in 1 .. Len(m) : s[at + k - 1] = m[k]
      BY <1>1, <1>4, <1>5
    <2>3. at \in Nat /\ at >= 1
      BY <1>1, <1>2
    <2> QED BY <1>1, <2>1, <2>2, <2>3, IsAtIs
  <1>7. ASSUME NEW k \in 1 .. Len(s), IsAt(s, m, k) PROVE at <= k
    <2> SUFFICES ASSUME k < at PROVE FALSE
      BY <1>1, <1>2
    <2>0. k \in Nat /\ k >= 1 /\ k \in 1 .. Len(a)
      BY <1>1, <1>2
    <2>1. \A l \in 1 .. Len(m) : s[k + l - 1] = m[l]
      BY <1>1, <1>7, <2>0, IsAtIs
    <2>2. k + Len(m) - 1 <= Len(a)
      BY <1>1, <1>2, <1>3, <1>4
    <2>3. \A l \in 1 .. Len(m) : k + l - 1 \in 1 .. Len(a)
      BY <1>1, <1>3, <2>0, <2>2
    <2>4. \A l \in 1 .. Len(m) : a[k + l - 1] = m[l]
      BY <1>1, <2>1, <2>3
    <2>5. IsAt(a, m, k)
      BY <2>0, <2>2, <2>4, IsAtIs
    <2> QED BY <1>1, <1>2, <2>0, <2>5
  <1>8. at \in 1 .. Len(s)
    BY <1>1, <1>2
  <1> QED BY <1>1, <1>6, <1>7, <1>8, FindAt DEF s, at

(* What comes after bytes that cannot be part of a marker has its markers  *)
(* where the whole has them.                                               *)
LEMMA IsAtShift ==
  ASSUME NEW s \in Seq(Byte), NEW m \in Seq(Byte), NEW n \in 0 .. Len(s), NEW i \in Nat, i >= 1
  PROVE  IsAt(From(s, n + 1), m, i) <=> IsAt(s, m, n + i)
  <1> DEFINE t == From(s, n + 1)
  <1>0. Len(s) \in Nat /\ Len(m) \in Nat /\ n \in Nat /\ n + 1 \in 1 .. Len(s) + 1
    BY LenProperties
  <1>1. /\ t \in Seq(Byte) /\ Len(t) = Len(s) + 1 - (n + 1)
        /\ \A k \in 1 .. Len(s) + 1 - (n + 1) : t[k] = s[(n + 1) + k - 1]
    BY <1>0, FromIs
  <1> HIDE DEF t
  <1>2. Len(t) \in Nat /\ Len(t) = Len(s) - n
    BY <1>0, <1>1
  <1>3. IsAt(t, m, i) <=> i + Len(m) - 1 <= Len(t) /\ \A k \in 1 .. Len(m) : t[i + k - 1] = m[k]
    BY <1>1, IsAtIs
  <1>4. IsAt(s, m, n + i) <=> /\ (n + i) + Len(m) - 1 <= Len(s)
                              /\ \A k \in 1 .. Len(m) : s[(n + i) + k - 1] = m[k]
    <2>1. n + i \in Nat /\ n + i >= 1
      BY <1>0
    <2> QED BY <2>1, IsAtIs
  <1>5. i + Len(m) - 1 <= Len(t) <=> (n + i) + Len(m) - 1 <= Len(s)
    BY <1>0, <1>2
  <1>6. ASSUME i + Len(m) - 1 <= Len(t), NEW k \in 1 .. Len(m)
        PROVE  t[i + k - 1] = s[(n + i) + k - 1]
    <2>1. PICK l \in 1 .. Len(s) + 1 - (n + 1) : l = i + k - 1
      BY <1>0, <1>2, <1>6
    <2>2. t[l] = s[(n + 1) + l - 1]
      BY <1>1
    <2>3. (n + 1) + l - 1 = (n + i) + k - 1
      BY <1>0, <2>1
    <2> QED BY <2>1, <2>2, <2>3
  <1>7. i + Len(m) - 1 <= Len(t) =>
          ((\A k \in 1 .. Len(m) : t[i + k - 1] = m[k]) <=> \A k \in 1 .. Len(m) : s[(n + i) + k - 1] = m[k])
    BY <1>6
  <1> QED BY <1>3, <1>4, <1>5, <1>7 DEF t

LEMMA FindShift ==
  ASSUME NEW a \in Seq(Byte), NEW x \in Seq(Byte), NEW m \in Seq(Byte), Find(a, m) = 0,
         NEW n \in 0 .. Len(a), n = 0 \/ n + Len(m) <= Len(a)
  PROVE  /\ Find(From(a \o x, n + 1), m) = 0 <=> Find(a \o x, m) = 0
         /\ Find(a \o x, m) # 0 => Find(a \o x, m) = n + Find(From(a \o x, n + 1), m)
  <1> DEFINE s == a \o x
             t == From(s, n + 1)
  <1>1. /\ s \in Seq(Byte) /\ Len(s) = Len(a) + Len(x)
        /\ Len(a) \in Nat /\ Len(x) \in Nat
        /\ \A i \in 1 .. Len(a) : s[i] = a[i]
    BY ConcatIs
  <1>2. Len(m) \in Nat /\ n \in Nat
    BY <1>1, LenProperties
  <1> HIDE DEF s
  <1>3. n \in 0 .. Len(s) /\ n + 1 \in 1 .. Len(s) + 1
    BY <1>1
  <1>4. t \in Seq(Byte) /\ Len(t) = Len(s) - n /\ Len(t) \in Nat
    <2>1. t \in Seq(Byte) /\ Len(t) = Len(s) + 1 - (n + 1)
      BY <1>1, <1>3, FromIs
    <2>2. Len(s) \in Nat /\ n <= Len(s)
      BY <1>1, <1>3
    <2>3. Len(s) + 1 - (n + 1) = Len(s) - n /\ Len(s) - n \in Nat
      BY <1>2, <2>2
    <2> HIDE DEF t
    <2> QED BY <2>1, <2>3
  <1>5. ASSUME NEW i \in 1 .. Len(s), IsAt(s, m, i) PROVE i > n
    <2> SUFFICES ASSUME i <= n PROVE FALSE
      BY <1>1, <1>2
    <2>0. i \in Nat /\ i >= 1 /\ i \in 1 .. Len(a)
      BY <1>1, <1>2
    <2>1. \A k \in 1 .. Len(m) : s[i + k - 1] = m[k]
      BY <1>1, <1>5, <2>0, IsAtIs
    <2>2. i + Len(m) - 1 <= Len(a)
      BY <1>1, <1>2, <2>0
    <2>3. \A k \in 1 .. Len(m) : i + k - 1 \in 1 .. Len(a)
      BY <1>1, <1>2, <2>0, <2>2
    <2>4. \A k \in 1 .. Len(m) : a[i + k - 1] = m[k]
      BY <1>1, <2>1, <2>3
    <2>5. IsAt(a, m, i)
      BY <2>0, <2>2, <2>4, IsAtIs
    <2> QED BY <2>0, <2>5, FindIs
  <1>6. \A i \in Nat : i >= 1 => (IsAt(t, m, i) <=> IsAt(s, m, n + i))
    BY <1>1, <1>3, IsAtShift
  <1> HIDE DEF t
  <1>7. Find(s, m) \in 0 .. Len(s) /\ Find(t, m) \in 0 .. Len(t)
    BY <1>1, <1>4, FindIs
  <1>8. CASE Find(s, m) = 0
    <2>1. \A k \in 1 .. Len(s) : ~IsAt(s, m, k)
      BY <1>1, <1>8, FindIs
    <2> SUFFICES ASSUME Find(t, m) # 0 PROVE FALSE
      BY <1>8 DEF s, t
    <2>2. Find(t, m) \in 1 .. Len(t) /\ IsAt(t, m, Find(t, m))
      BY <1>4, FindIs
    <2>3. n + Find(t, m) \in 1 .. Len(s) /\ Find(t, m) \in Nat /\ Find(t, m) >= 1
      BY <1>1, <1>2, <1>4, <2>2
    <2> QED BY <1>6, <2>1, <2>2, <2>3
  <1>9. CASE Find(s, m) # 0
    <2>1. /\ Find(s, m) \in 1 .. Len(s) /\ IsAt(s, m, Find(s, m))
          /\ \A k \in 1 .. Len(s) : IsAt(s, m, k) => Find(s, m) <= k
      BY <1>1, <1>9, FindIs
    <2>2. Find(s, m) > n
      BY <1>5, <2>1
    <2>3. PICK i \in Nat : i >= 1 /\ Find(s, m) = n + i /\ i \in 1 .. Len(t)
      <3>1. PICK f \in Nat : f = Find(s, m) /\ f <= Len(s) /\ f > n
        BY <1>1, <1>2, <2>1, <2>2
      <3>2. Len(s) \in Nat /\ Len(t) = Len(s) - n
        BY <1>1, <1>4
      <3>3. f - n \in Nat /\ f - n >= 1 /\ f = n + (f - n) /\ f - n \in 1 .. Len(t)
        <4>1. \A k, f1, l \in Nat : f1 <= l /\ f1 > k =>
                f1 - k \in Nat /\ f1 - k >= 1 /\ f1 = k + (f1 - k) /\ f1 - k <= l - k
          BY SMT
        <4>2. f - n \in Nat /\ f - n >= 1 /\ f = n + (f - n) /\ f - n <= Len(s) - n
          BY <1>2, <3>1, <3>2, <4>1
        <4>3. f - n <= Len(t) /\ Len(t) \in Nat
          BY <1>4, <3>2, <4>2
        <4> QED BY <4>2, <4>3
      <3> QED BY <3>1, <3>3
    <2>4. IsAt(t, m, i)
      BY <1>6, <2>1, <2>3
    <2>5. ASSUME NEW k \in 1 .. Len(t), IsAt(t, m, k) PROVE i <= k
      <3>1. k \in Nat /\ k >= 1 /\ n + k \in 1 .. Len(s)
        BY <1>1, <1>2, <1>4
      <3>2. IsAt(s, m, n + k)
        BY <1>6, <2>5, <3>1
      <3>3. n + i <= n + k
        BY <2>1, <2>3, <3>1, <3>2
      <3> QED BY <1>2, <3>1, <3>3
    <2>6. Find(t, m) = i
      BY <1>4, <2>3, <2>4, <2>5, FindAt
    <2> QED BY <1>9, <2>3, <2>6 DEF s, t
  <1> QED BY <1>8, <1>9

-----------------------------------------------------------------------------
(* Bytes with their kind.                                                  *)

Kinds == {"thinking", "answer", "tool"}

LEMMA TaggedIs ==
  ASSUME NEW kind \in Kinds, NEW s \in Seq(Byte)
  PROVE  /\ Tagged(kind, s) \in Seq(Event) /\ Len(Tagged(kind, s)) = Len(s)
         /\ \A i \in 1 .. Len(s) : Tagged(kind, s)[i] = [kind |-> kind, byte |-> s[i]]
  <1>1. Len(s) \in Nat /\ \A i \in 1 .. Len(s) : s[i] \in Byte
    BY LenProperties, ElementOfSeq
  <1>2. \A i \in 1 .. Len(s) : [kind |-> kind, byte |-> s[i]] \in Event
    BY <1>1 DEF Event, Kinds
  <1>3. Tagged(kind, s) \in [1 .. Len(s) -> Event]
    BY <1>2 DEF Tagged
  <1> QED BY <1>1, <1>3 DEF Tagged

LEMMA TaggedConcat ==
  ASSUME NEW kind \in Kinds, NEW a \in Seq(Byte), NEW b \in Seq(Byte)
  PROVE  Tagged(kind, a \o b) = Tagged(kind, a) \o Tagged(kind, b)
  <1> DEFINE u == Tagged(kind, a)
             v == Tagged(kind, b)
             w == Tagged(kind, a \o b)
  <1>1. /\ a \o b \in Seq(Byte) /\ Len(a \o b) = Len(a) + Len(b)
        /\ Len(a) \in Nat /\ Len(b) \in Nat
        /\ \A i \in 1 .. Len(a) + Len(b) : (a \o b)[i] = IF i <= Len(a) THEN a[i] ELSE b[i - Len(a)]
    BY ConcatProperties, LenProperties
  <1>2. /\ u \in Seq(Event) /\ Len(u) = Len(a)
        /\ \A i \in 1 .. Len(a) : u[i] = [kind |-> kind, byte |-> a[i]]
    BY TaggedIs
  <1>3. /\ v \in Seq(Event) /\ Len(v) = Len(b)
        /\ \A i \in 1 .. Len(b) : v[i] = [kind |-> kind, byte |-> b[i]]
    BY TaggedIs
  <1>4. /\ w \in Seq(Event) /\ Len(w) = Len(a) + Len(b)
        /\ \A i \in 1 .. Len(a) + Len(b) : w[i] = [kind |-> kind, byte |-> (a \o b)[i]]
    BY <1>1, TaggedIs
  <1> HIDE DEF u, v, w
  <1>5. /\ u \o v \in Seq(Event) /\ Len(u \o v) = Len(u) + Len(v)
        /\ \A i \in 1 .. Len(u) + Len(v) : (u \o v)[i] = IF i <= Len(u) THEN u[i] ELSE v[i - Len(u)]
    <2>1. u \in Seq(Event) /\ v \in Seq(Event)
      BY <1>2, <1>3
    <2> QED BY <2>1, ConcatProperties
  <1>6. ASSUME NEW i \in 1 .. Len(a) + Len(b) PROVE w[i] = (u \o v)[i]
    <2>1. CASE i <= Len(a)
      <3>1. i \in 1 .. Len(a) /\ i \in 1 .. Len(u) + Len(v) /\ i <= Len(u)
        BY <1>1, <1>2, <1>3, <2>1
      <3>2. (u \o v)[i] = u[i] /\ (a \o b)[i] = a[i]
        BY <1>1, <1>5, <2>1, <3>1
      <3> QED BY <1>2, <1>4, <3>1, <3>2
    <2>2. CASE ~(i <= Len(a))
      <3>1. i - Len(a) \in 1 .. Len(b) /\ i \in 1 .. Len(u) + Len(v) /\ ~(i <= Len(u))
        BY <1>1, <1>2, <1>3, <2>2
      <3>2. (u \o v)[i] = v[i - Len(a)] /\ (a \o b)[i] = b[i - Len(a)]
        BY <1>1, <1>2, <1>5, <2>2, <3>1
      <3> QED BY <1>3, <1>4, <3>1, <3>2
    <2> QED BY <2>1, <2>2
  <1>7. w = u \o v
    BY <1>2, <1>3, <1>4, <1>5, <1>6, SeqEqual
  <1> QED BY <1>7 DEF u, v, w

LEMMA TaggedEmpty == \A kind : Tagged(kind, <<>>) = <<>>
  BY DEF Tagged

LEMMA BytesIs ==
  ASSUME NEW s \in Seq(Event)
  PROVE  /\ Bytes(s) \in Seq(Byte) /\ Len(Bytes(s)) = Len(s)
         /\ \A i \in 1 .. Len(s) : Bytes(s)[i] = s[i].byte
  <1>1. Len(s) \in Nat /\ \A i \in 1 .. Len(s) : s[i].byte \in Byte
    <2>1. \A i \in 1 .. Len(s) : s[i] \in Event
      BY ElementOfSeq
    <2> QED BY <2>1, LenProperties DEF Event
  <1>2. Bytes(s) \in [1 .. Len(s) -> Byte]
    BY <1>1 DEF Bytes
  <1> QED BY <1>1, <1>2 DEF Bytes

LEMMA BytesOfTagged ==
  ASSUME NEW kind \in Kinds, NEW s \in Seq(Byte)
  PROVE  Bytes(Tagged(kind, s)) = s
  <1> DEFINE e == Tagged(kind, s)
  <1>1. /\ e \in Seq(Event) /\ Len(e) = Len(s)
        /\ \A i \in 1 .. Len(s) : e[i] = [kind |-> kind, byte |-> s[i]]
    BY TaggedIs
  <1> HIDE DEF e
  <1>2. /\ Bytes(e) \in Seq(Byte) /\ Len(Bytes(e)) = Len(s)
        /\ \A i \in 1 .. Len(s) : Bytes(e)[i] = e[i].byte
    BY <1>1, BytesIs
  <1>3. ASSUME NEW i \in 1 .. Len(s) PROVE Bytes(e)[i] = s[i]
    <2>1. Bytes(e)[i] = e[i].byte
      BY <1>1, <1>2
    <2>2. e[i] = [kind |-> kind, byte |-> s[i]]
      BY <1>1
    <2> QED BY <2>1, <2>2
  <1>4. Bytes(e) = s
    BY <1>2, <1>3, SeqEqual
  <1> QED BY <1>4 DEF e

LEMMA BytesConcat ==
  ASSUME NEW a \in Seq(Event), NEW b \in Seq(Event)
  PROVE  Bytes(a \o b) = Bytes(a) \o Bytes(b)
  <1> DEFINE u == Bytes(a)
             v == Bytes(b)
             w == Bytes(a \o b)
  <1>1. /\ a \o b \in Seq(Event) /\ Len(a \o b) = Len(a) + Len(b)
        /\ Len(a) \in Nat /\ Len(b) \in Nat
        /\ \A i \in 1 .. Len(a) + Len(b) : (a \o b)[i] = IF i <= Len(a) THEN a[i] ELSE b[i - Len(a)]
    BY ConcatProperties, LenProperties
  <1>2. /\ u \in Seq(Byte) /\ Len(u) = Len(a) /\ \A i \in 1 .. Len(a) : u[i] = a[i].byte
    BY BytesIs
  <1>3. /\ v \in Seq(Byte) /\ Len(v) = Len(b) /\ \A i \in 1 .. Len(b) : v[i] = b[i].byte
    BY BytesIs
  <1>4. /\ w \in Seq(Byte) /\ Len(w) = Len(a) + Len(b)
        /\ \A i \in 1 .. Len(a) + Len(b) : w[i] = (a \o b)[i].byte
    BY <1>1, BytesIs
  <1> HIDE DEF u, v, w
  <1>5. /\ u \o v \in Seq(Byte) /\ Len(u \o v) = Len(u) + Len(v)
        /\ \A i \in 1 .. Len(u) + Len(v) : (u \o v)[i] = IF i <= Len(u) THEN u[i] ELSE v[i - Len(u)]
    <2>1. u \in Seq(Byte) /\ v \in Seq(Byte)
      BY <1>2, <1>3
    <2> QED BY <2>1, ConcatProperties
  <1>6. ASSUME NEW i \in 1 .. Len(a) + Len(b) PROVE w[i] = (u \o v)[i]
    <2>1. CASE i <= Len(a)
      <3>1. i \in 1 .. Len(a) /\ i \in 1 .. Len(u) + Len(v) /\ i <= Len(u)
        BY <1>1, <1>2, <1>3, <2>1
      <3>2. (u \o v)[i] = u[i] /\ (a \o b)[i] = a[i]
        BY <1>1, <1>5, <2>1, <3>1
      <3> QED BY <1>2, <1>4, <3>1, <3>2
    <2>2. CASE ~(i <= Len(a))
      <3>1. i - Len(a) \in 1 .. Len(b) /\ i \in 1 .. Len(u) + Len(v) /\ ~(i <= Len(u))
        BY <1>1, <1>2, <1>3, <2>2
      <3>2. (u \o v)[i] = v[i - Len(a)] /\ (a \o b)[i] = b[i - Len(a)]
        BY <1>1, <1>2, <1>5, <2>2, <3>1
      <3> QED BY <1>3, <1>4, <3>1, <3>2
    <2> QED BY <2>1, <2>2
  <1>7. w = u \o v
    BY <1>2, <1>3, <1>4, <1>5, <1>6, SeqEqual
  <1> QED BY <1>7 DEF u, v, w

-----------------------------------------------------------------------------
(* The parser.                                                             *)

Parsers ==
  {p \in [answering : BOOLEAN, inDsml : BOOLEAN, acc : Seq(Byte), out : Seq(Event),
          answer : Seq(Byte)] : p.answering \/ ~p.inDsml}

LEMMA ParserFields ==
  ASSUME NEW p \in Parsers
  PROVE  /\ p.answering \in BOOLEAN /\ p.inDsml \in BOOLEAN /\ p.acc \in Seq(Byte)
         /\ p.out \in Seq(Event) /\ p.answer \in Seq(Byte) /\ (p.answering \/ ~p.inDsml)
         /\ Len(p.acc) \in Nat
  <1>1. /\ p.answering \in BOOLEAN /\ p.inDsml \in BOOLEAN /\ p.acc \in Seq(Byte)
        /\ p.out \in Seq(Event) /\ p.answer \in Seq(Byte) /\ (p.answering \/ ~p.inDsml)
    BY DEF Parsers
  <1> QED BY <1>1, LenProperties

(* What is emitted of it: n bytes with a kind, and what is before next is  *)
(* consumed.                                                               *)
Moves(p, q, kind, n, next, answers, dsml) ==
  /\ q \in Parsers
  /\ n \in 0 .. Len(p.acc) /\ next \in n + 1 .. Len(p.acc) + 1
  /\ q.out = p.out \o Tagged(kind, SubSeq(p.acc, 1, n))
  /\ q.acc = From(p.acc, next)
  /\ q.answer = IF kind = "answer" THEN p.answer \o Sanitize(SubSeq(p.acc, 1, n)) ELSE p.answer
  /\ q.answering = answers /\ q.inDsml = dsml

LEMMA SanitizeIs ==
  ASSUME NEW s \in Seq(Byte)
  PROVE  Sanitize(s) \in Seq(Byte)
  <1>1. 1 \in 1 .. Len(s) + 1
    BY LenProperties
  <1> QED BY <1>1, SanitizeIsRest, SanitizeRestIs

LEMMA EmitIs ==
  ASSUME NEW p \in Parsers, NEW kind \in Kinds, NEW n \in 0 .. Len(p.acc),
         NEW next \in n + 1 .. Len(p.acc) + 1, NEW answers \in BOOLEAN, NEW dsml \in BOOLEAN,
         answers \/ ~dsml,
         NEW q, q = [Emit(p, kind, n) EXCEPT !.acc = From(p.acc, next), !.answering = answers,
                                             !.inDsml = dsml]
  PROVE  Moves(p, q, kind, n, next, answers, dsml)
  <1> DEFINE piece == SubSeq(p.acc, 1, n)
             o == p.out \o Tagged(kind, piece)
             w == IF kind = "answer" THEN p.answer \o Sanitize(piece) ELSE p.answer
             c == From(p.acc, next)
  <1>1. /\ p.acc \in Seq(Byte) /\ p.out \in Seq(Event) /\ p.answer \in Seq(Byte) /\ Len(p.acc) \in Nat
    BY ParserFields
  <1>2. piece \in Seq(Byte)
    BY <1>1, UpToIs
  <1>3. o \in Seq(Event)
    <2>1. Tagged(kind, piece) \in Seq(Event)
      BY <1>2, TaggedIs
    <2> QED BY <1>1, <2>1, ConcatProperties
  <1>4. w \in Seq(Byte)
    <2>1. Sanitize(piece) \in Seq(Byte)
      BY <1>2, SanitizeIs
    <2> QED BY <1>1, <2>1, ConcatProperties
  <1>5. c \in Seq(Byte)
    <2>1. next \in 1 .. Len(p.acc) + 1
      BY <1>1
    <2> QED BY <1>1, <2>1, FromIs
  <1>6. q = [[p EXCEPT !.out = @ \o Tagged(kind, piece), !.acc = From(@, n + 1),
                       !.answer = IF kind = "answer" THEN @ \o Sanitize(piece) ELSE @]
              EXCEPT !.acc = c, !.answering = answers, !.inDsml = dsml]
    BY DEF Emit
  <1>7. q = [p EXCEPT !.out = o, !.acc = c, !.answer = w, !.answering = answers, !.inDsml = dsml]
    BY <1>6 DEF Parsers
  <1> HIDE DEF piece, o, w, c
  <1>8. q \in Parsers
    BY <1>3, <1>4, <1>5, <1>7 DEF Parsers
  <1>9. q.out = o /\ q.acc = c /\ q.answer = w /\ q.answering = answers /\ q.inDsml = dsml
    BY <1>7 DEF Parsers
  <1> QED BY <1>8, <1>9 DEF Moves, piece, o, w, c

LEMMA EmitOnly ==
  ASSUME NEW p \in Parsers, NEW kind \in Kinds, NEW n \in 0 .. Len(p.acc)
  PROVE  Moves(p, Emit(p, kind, n), kind, n, n + 1, p.answering, p.inDsml)
  <1> DEFINE e == Emit(p, kind, n)
             q == [e EXCEPT !.acc = From(p.acc, n + 1), !.answering = p.answering,
                            !.inDsml = p.inDsml]
  <1>1. /\ p.answering \in BOOLEAN /\ p.inDsml \in BOOLEAN /\ (p.answering \/ ~p.inDsml)
        /\ Len(p.acc) \in Nat
    BY ParserFields
  <1>2. n + 1 \in n + 1 .. Len(p.acc) + 1
    BY <1>1
  <1>3. Moves(p, q, kind, n, n + 1, p.answering, p.inDsml)
    BY <1>1, <1>2, EmitIs
  <1>4. e = [p EXCEPT !.out = @ \o Tagged(kind, SubSeq(p.acc, 1, n)), !.acc = From(@, n + 1),
                      !.answer = IF kind = "answer" THEN @ \o Sanitize(SubSeq(p.acc, 1, n)) ELSE @]
    BY DEF Emit
  <1>5. q = e
    BY <1>4 DEF Parsers
  <1> QED BY <1>3, <1>5

LEMMA EmitTool ==
  ASSUME NEW p \in Parsers, NEW kind \in Kinds, NEW n \in 0 .. Len(p.acc), NEW dsml \in BOOLEAN,
         p.answering
  PROVE  Moves(p, [Emit(p, kind, n) EXCEPT !.inDsml = dsml], kind, n, n + 1, TRUE, dsml)
  <1> DEFINE e == Emit(p, kind, n)
             q == [e EXCEPT !.acc = From(p.acc, n + 1), !.answering = TRUE, !.inDsml = dsml]
  <1>1. p.answering = TRUE /\ Len(p.acc) \in Nat
    BY ParserFields
  <1>2. n + 1 \in n + 1 .. Len(p.acc) + 1
    BY <1>1
  <1>3. Moves(p, q, kind, n, n + 1, TRUE, dsml)
    BY <1>2, EmitIs
  <1>4. e = [p EXCEPT !.out = @ \o Tagged(kind, SubSeq(p.acc, 1, n)), !.acc = From(@, n + 1),
                      !.answer = IF kind = "answer" THEN @ \o Sanitize(SubSeq(p.acc, 1, n)) ELSE @]
    BY DEF Emit
  <1>5. q = [e EXCEPT !.inDsml = dsml]
    BY <1>1, <1>4 DEF Parsers
  <1> QED BY <1>3, <1>5

LEMMA EmitThinking ==
  ASSUME NEW p \in Parsers, NEW n \in 0 .. Len(p.acc), NEW next \in n + 1 .. Len(p.acc) + 1,
         ~p.answering
  PROVE  Moves(p, [Emit(p, "thinking", n) EXCEPT !.acc = From(p.acc, next), !.answering = TRUE],
               "thinking", n, next, TRUE, FALSE)
  <1> DEFINE e == Emit(p, "thinking", n)
             q == [e EXCEPT !.acc = From(p.acc, next), !.answering = TRUE, !.inDsml = FALSE]
  <1>1. p.inDsml = FALSE /\ Len(p.acc) \in Nat
    BY ParserFields
  <1>2. "thinking" \in Kinds
    BY DEF Kinds
  <1>3. Moves(p, q, "thinking", n, next, TRUE, FALSE)
    BY <1>2, EmitIs
  <1>4. e = [p EXCEPT !.out = @ \o Tagged("thinking", SubSeq(p.acc, 1, n)), !.acc = From(@, n + 1),
                      !.answer = IF "thinking" = "answer" THEN @ \o Sanitize(SubSeq(p.acc, 1, n)) ELSE @]
    BY DEF Emit
  <1>5. q = [e EXCEPT !.acc = From(p.acc, next), !.answering = TRUE]
    BY <1>1, <1>4 DEF Parsers
  <1> QED BY <1>3, <1>5

(* The rounds of the loop. *)
Sent(p, flush) ==
  IF flush THEN Len(p.acc) ELSE IF Len(p.acc) > Reserve THEN Len(p.acc) - Reserve ELSE 0

Stays(p, q, flush) == q = p /\ (p.acc = <<>> \/ ~flush)

Thinks(p, q, flush) ==
  /\ ~p.answering /\ Find(p.acc, ThinkEnd) = 0
  /\ Moves(p, q, "thinking", Sent(p, flush), Sent(p, flush) + 1, FALSE, FALSE)

StopsThinking(p, q) ==
  LET at == Find(p.acc, ThinkEnd) IN
    /\ ~p.answering /\ at # 0
    /\ Moves(p, q, "thinking", at - 1, at + Len(ThinkEnd), TRUE, FALSE)

Answers(p, q, flush) ==
  /\ p.answering /\ ~p.inDsml /\ Find(p.acc, DsmlOpen) = 0
  /\ Moves(p, q, "answer", Sent(p, flush), Sent(p, flush) + 1, TRUE, FALSE)

OpensTool(p, q) ==
  LET at == Find(p.acc, DsmlOpen) IN
    /\ p.answering /\ ~p.inDsml /\ at # 0
    /\ Moves(p, q, "answer", at - 1, at, TRUE, TRUE)

ClosesTool(p, q) ==
  LET at == Find(p.acc, DsmlClose) IN
    /\ p.answering /\ p.inDsml /\ at # 0
    /\ Moves(p, q, "tool", at - 1 + Len(DsmlClose), at + Len(DsmlClose), TRUE, FALSE)

EndsTool(p, q) ==
  /\ p.answering /\ p.inDsml /\ Find(p.acc, DsmlClose) = 0
  /\ Moves(p, q, "tool", Len(p.acc), Len(p.acc) + 1, TRUE, FALSE)

LEMMA MarkerIs ==
  ASSUME TraceAssumption, NEW m \in {ThinkEnd, DsmlOpen, DsmlClose}
  PROVE  m \in Seq(Byte) /\ Len(m) \in Nat /\ Len(m) >= 1 /\ Len(m) <= Reserve /\ Reserve \in Nat
  <1>1. Reserve \in Nat /\ m \in Seq(Byte) /\ Len(m) \in 1 .. Reserve
    BY DEF TraceAssumption
  <1> QED BY <1>1

(* A marker that is found is all there. *)
LEMMA FindEnd ==
  ASSUME TraceAssumption, NEW m \in {ThinkEnd, DsmlOpen, DsmlClose}, NEW s \in Seq(Byte),
         Find(s, m) # 0
  PROVE  /\ Find(s, m) \in Nat /\ Find(s, m) >= 1
         /\ Find(s, m) + Len(m) <= Len(s) + 1 /\ Len(m) \in Nat /\ Len(m) >= 1 /\ Len(s) \in Nat
         /\ IsAt(s, m, Find(s, m))
  <1>0. Len(s) \in Nat
    BY LenProperties
  <1>1. Find(s, m) \in 1 .. Len(s) /\ IsAt(s, m, Find(s, m))
    BY FindIs
  <1>2. m \in Seq(Byte) /\ Len(m) \in Nat /\ Len(m) >= 1
    BY MarkerIs
  <1>3. Find(s, m) \in Nat /\ Find(s, m) >= 1
    BY <1>0, <1>1
  <1>4. Find(s, m) + Len(m) - 1 <= Len(s)
    BY <1>1, <1>2, <1>3, IsAtIs
  <1> QED BY <1>0, <1>1, <1>2, <1>3, <1>4

LEMMA SentIs ==
  ASSUME TraceAssumption, NEW p \in Parsers, NEW flush \in BOOLEAN
  PROVE  /\ Sent(p, flush) \in 0 .. Len(p.acc)
         /\ ~flush => Sent(p, flush) = 0 \/ Sent(p, flush) + Reserve <= Len(p.acc)
         /\ flush => Sent(p, flush) = Len(p.acc)
  <1>1. Len(p.acc) \in Nat /\ Reserve \in Nat
    BY ParserFields DEF TraceAssumption
  <1> QED BY <1>1 DEF Sent

LEMMA EmitRestIs ==
  ASSUME TraceAssumption, NEW p \in Parsers, NEW kind \in Kinds, NEW flush \in BOOLEAN
  PROVE  Moves(p, EmitRest(p, kind, flush), kind, Sent(p, flush), Sent(p, flush) + 1,
               p.answering, p.inDsml)
  <1>1. EmitRest(p, kind, flush) = Emit(p, kind, Sent(p, flush))
    BY DEF EmitRest, EmitAll, EmitSafe, Sent
  <1>2. Sent(p, flush) \in 0 .. Len(p.acc)
    BY SentIs
  <1> QED BY <1>1, <1>2, EmitOnly

Went(p, r, flush) ==
  /\ r.again \in BOOLEAN /\ r.p \in Parsers /\ r = [again |-> r.again, p |-> r.p]
  /\ \/ ~r.again /\ Stays(p, r.p, flush)
     \/ ~r.again /\ Thinks(p, r.p, flush)
     \/ r.again /\ StopsThinking(p, r.p)
     \/ ~r.again /\ Answers(p, r.p, flush)
     \/ r.again /\ OpensTool(p, r.p)
     \/ r.again /\ ClosesTool(p, r.p)
     \/ ~r.again /\ flush /\ EndsTool(p, r.p)

LEMMA ThinkingIs ==
  ASSUME TraceAssumption, NEW p \in Parsers, NEW flush \in BOOLEAN, ~p.answering
  PROVE  Went(p, Thinking(p, flush), flush)
  <1> DEFINE r == Thinking(p, flush)
             at == Find(p.acc, ThinkEnd)
  <1>0. p.answering = FALSE /\ p.inDsml = FALSE /\ p.acc \in Seq(Byte)
    BY ParserFields
  <1>1. CASE at = 0
    <2>1. r = [again |-> FALSE, p |-> EmitRest(p, "thinking", flush)]
      BY <1>1 DEF Thinking
    <2>2. Thinks(p, EmitRest(p, "thinking", flush), flush)
      <3>1. "thinking" \in Kinds
        BY DEF Kinds
      <3>2. Moves(p, EmitRest(p, "thinking", flush), "thinking", Sent(p, flush), Sent(p, flush) + 1,
                  p.answering, p.inDsml)
        BY <3>1, EmitRestIs
      <3> QED BY <1>0, <1>1, <3>2 DEF Thinks
    <2>3. EmitRest(p, "thinking", flush) \in Parsers
      BY <2>2 DEF Thinks, Moves
    <2> HIDE DEF r
    <2>4. r.again = FALSE /\ r.p = EmitRest(p, "thinking", flush)
      BY <2>1
    <2> QED BY <2>1, <2>2, <2>3, <2>4 DEF Went, r
  <1>2. CASE at # 0
    <2> DEFINE q == [Emit(p, "thinking", at - 1) EXCEPT !.acc = From(p.acc, at + Len(ThinkEnd)),
                                                         !.answering = TRUE]
    <2>1. r = [again |-> TRUE, p |-> q]
      BY <1>2 DEF Thinking
    <2>2. StopsThinking(p, q)
      <3>1. /\ at \in Nat /\ at >= 1 /\ at + Len(ThinkEnd) <= Len(p.acc) + 1
            /\ Len(ThinkEnd) \in Nat /\ Len(ThinkEnd) >= 1 /\ Len(p.acc) \in Nat
        BY <1>0, <1>2, FindEnd
      <3> HIDE DEF at
      <3>2. at - 1 \in 0 .. Len(p.acc) /\ at + Len(ThinkEnd) \in (at - 1) + 1 .. Len(p.acc) + 1
        BY <3>1
      <3>3. Moves(p, q, "thinking", at - 1, at + Len(ThinkEnd), TRUE, FALSE)
        BY <3>2, EmitThinking
      <3> QED BY <1>2, <3>3 DEF StopsThinking, at
    <2>3. q \in Parsers
      BY <2>2 DEF StopsThinking, Moves
    <2> HIDE DEF q, r
    <2>4. r.again = TRUE /\ r.p = q
      BY <2>1
    <2> QED BY <2>1, <2>2, <2>3, <2>4 DEF Went, r
  <1> QED BY <1>1, <1>2

LEMMA AnswerIs ==
  ASSUME TraceAssumption, NEW p \in Parsers, NEW flush \in BOOLEAN, p.answering, ~p.inDsml
  PROVE  Went(p, Answer(p, flush), flush)
  <1> DEFINE r == Answer(p, flush)
             at == Find(p.acc, DsmlOpen)
  <1>0. p.answering = TRUE /\ p.inDsml = FALSE /\ p.acc \in Seq(Byte) /\ "answer" \in Kinds
    BY ParserFields DEF Kinds
  <1>1. CASE at = 0
    <2>1. r = [again |-> FALSE, p |-> EmitRest(p, "answer", flush)]
      BY <1>1 DEF Answer
    <2>2. Answers(p, EmitRest(p, "answer", flush), flush)
      <3>1. Moves(p, EmitRest(p, "answer", flush), "answer", Sent(p, flush), Sent(p, flush) + 1,
                  p.answering, p.inDsml)
        BY <1>0, EmitRestIs
      <3> QED BY <1>0, <1>1, <3>1 DEF Answers
    <2>3. EmitRest(p, "answer", flush) \in Parsers
      BY <2>2 DEF Answers, Moves
    <2> HIDE DEF r
    <2>4. r.again = FALSE /\ r.p = EmitRest(p, "answer", flush)
      BY <2>1
    <2> QED BY <2>1, <2>2, <2>3, <2>4 DEF Went, r
  <1>2. CASE at # 0
    <2> DEFINE q == [Emit(p, "answer", at - 1) EXCEPT !.inDsml = TRUE]
    <2>1. r = [again |-> TRUE, p |-> q]
      BY <1>2 DEF Answer
    <2>2. OpensTool(p, q)
      <3>1. at \in Nat /\ at >= 1 /\ at \in 1 .. Len(p.acc) /\ Len(p.acc) \in Nat
        BY <1>0, <1>2, FindIs, LenProperties
      <3> HIDE DEF at
      <3>2. at - 1 \in 0 .. Len(p.acc) /\ (at - 1) + 1 = at
        BY <3>1
      <3>3. Moves(p, q, "answer", at - 1, (at - 1) + 1, TRUE, TRUE)
        BY <1>0, <3>2, EmitTool
      <3> QED BY <1>0, <1>2, <3>2, <3>3 DEF OpensTool, at
    <2>3. q \in Parsers
      BY <2>2 DEF OpensTool, Moves
    <2> HIDE DEF q, r
    <2>4. r.again = TRUE /\ r.p = q
      BY <2>1
    <2> QED BY <2>1, <2>2, <2>3, <2>4 DEF Went, r
  <1> QED BY <1>1, <1>2

LEMMA ToolCallIs ==
  ASSUME TraceAssumption, NEW p \in Parsers, NEW flush \in BOOLEAN, p.answering, p.inDsml
  PROVE  Went(p, ToolCall(p, flush), flush)
  <1> DEFINE r == ToolCall(p, flush)
             at == Find(p.acc, DsmlClose)
  <1>0. /\ p.answering = TRUE /\ p.inDsml = TRUE /\ p.acc \in Seq(Byte) /\ "tool" \in Kinds
        /\ Len(p.acc) \in Nat
    BY ParserFields DEF Kinds
  <1>1. CASE at = 0 /\ ~flush
    <2>1. r = [again |-> FALSE, p |-> p]
      BY <1>1 DEF ToolCall
    <2>2. Stays(p, p, flush)
      BY <1>1 DEF Stays
    <2> HIDE DEF r
    <2>4. r.again = FALSE /\ r.p = p
      BY <2>1
    <2> QED BY <2>1, <2>2, <2>4 DEF Went, r
  <1>2. CASE at = 0 /\ flush
    <2> DEFINE q == [EmitAll(p, "tool") EXCEPT !.inDsml = FALSE]
    <2>1. r = [again |-> FALSE, p |-> q]
      BY <1>2 DEF ToolCall
    <2>2. EndsTool(p, q)
      <3>1. q = [Emit(p, "tool", Len(p.acc)) EXCEPT !.inDsml = FALSE]
        BY DEF EmitAll
      <3>2. Len(p.acc) \in 0 .. Len(p.acc)
        BY <1>0
      <3>3. Moves(p, q, "tool", Len(p.acc), Len(p.acc) + 1, TRUE, FALSE)
        BY <1>0, <3>1, <3>2, EmitTool
      <3> QED BY <1>0, <1>2, <3>3 DEF EndsTool
    <2>3. q \in Parsers
      BY <2>2 DEF EndsTool, Moves
    <2> HIDE DEF q, r
    <2>4. r.again = FALSE /\ r.p = q
      BY <2>1
    <2> QED BY <1>2, <2>1, <2>2, <2>3, <2>4 DEF Went, r
  <1>3. CASE at # 0
    <2> DEFINE q == ToolThroughTag(p, at)
    <2>1. r = [again |-> TRUE, p |-> q]
      BY <1>3 DEF ToolCall
    <2>2. ClosesTool(p, q)
      <3>1. /\ at \in Nat /\ at >= 1 /\ at + Len(DsmlClose) <= Len(p.acc) + 1
            /\ Len(DsmlClose) \in Nat /\ Len(DsmlClose) >= 1 /\ Len(p.acc) \in Nat
        BY <1>0, <1>3, FindEnd
      <3>2. q = [Emit(p, "tool", at - 1 + Len(DsmlClose)) EXCEPT !.inDsml = FALSE]
        BY DEF ToolThroughTag
      <3> HIDE DEF at, q
      <3>3. /\ at - 1 + Len(DsmlClose) \in 0 .. Len(p.acc)
            /\ (at - 1 + Len(DsmlClose)) + 1 = at + Len(DsmlClose)
        BY <3>1
      <3>4. Moves(p, q, "tool", at - 1 + Len(DsmlClose), (at - 1 + Len(DsmlClose)) + 1, TRUE, FALSE)
        BY <1>0, <3>2, <3>3, EmitTool
      <3>5. Moves(p, q, "tool", at - 1 + Len(DsmlClose), at + Len(DsmlClose), TRUE, FALSE)
        BY <3>3, <3>4
      <3> QED BY <1>0, <1>3, <3>5 DEF ClosesTool, at
    <2>3. q \in Parsers
      BY <2>2 DEF ClosesTool, Moves
    <2> HIDE DEF q, r
    <2>4. r.again = TRUE /\ r.p = q
      BY <2>1
    <2> QED BY <2>1, <2>2, <2>3, <2>4 DEF Went, r
  <1> QED BY <1>1, <1>2, <1>3

LEMMA RoundIs ==
  ASSUME TraceAssumption, NEW p \in Parsers, NEW flush \in BOOLEAN
  PROVE  Went(p, Round(p, flush), flush)
  <1>0. p.answering \in BOOLEAN /\ p.inDsml \in BOOLEAN
    BY ParserFields
  <1>1. CASE p.acc = <<>>
    <2> DEFINE r == Round(p, flush)
    <2>1. r = [again |-> FALSE, p |-> p]
      BY <1>1 DEF Round
    <2>2. Stays(p, p, flush)
      BY <1>1 DEF Stays
    <2> HIDE DEF r
    <2>4. r.again = FALSE /\ r.p = p
      BY <2>1
    <2> QED BY <2>1, <2>2, <2>4 DEF Went, r
  <1>2. CASE p.acc # <<>> /\ ~p.answering
    <2>1. Round(p, flush) = Thinking(p, flush)
      BY <1>2 DEF Round
    <2> QED BY <1>2, <2>1, ThinkingIs
  <1>3. CASE p.acc # <<>> /\ p.answering /\ p.inDsml
    <2>1. Round(p, flush) = ToolCall(p, flush)
      BY <1>3 DEF Round
    <2> QED BY <1>3, <2>1, ToolCallIs
  <1>4. CASE p.acc # <<>> /\ p.answering /\ ~p.inDsml
    <2>1. Round(p, flush) = Answer(p, flush)
      BY <1>4 DEF Round
    <2> QED BY <1>4, <2>1, AnswerIs
  <1> QED BY <1>0, <1>1, <1>2, <1>3, <1>4

-----------------------------------------------------------------------------
(* The loop.                                                               *)

AfterAt(p, flush, after, n) ==
  IF n = 0 THEN [again |-> TRUE, p |-> p]
  ELSE IF after[n - 1].again THEN Round(after[n - 1].p, flush) ELSE after[n - 1]

After(p, flush) == CHOOSE after : after = [n \in 0 .. Rounds(p) |-> AfterAt(p, flush, after, n)]

LEMMA DrainIsAfter ==
  ASSUME NEW p, NEW flush
  PROVE  Drain(p, flush) = After(p, flush)[Rounds(p)].p
  BY DEF Drain, After, AfterAt

(* A set of parsers that no round leaves. *)
Closed(P, flush) ==
  P \subseteq Parsers /\ \A p \in P : Round(p, flush).p \in P

Loop(P) == [again : BOOLEAN, p : P]

LEMMA RoundInLoop ==
  ASSUME TraceAssumption, NEW flush \in BOOLEAN, NEW P, Closed(P, flush), NEW p \in P
  PROVE  Round(p, flush) \in Loop(P)
  <1>1. p \in Parsers /\ Round(p, flush).p \in P
    BY DEF Closed
  <1>2. Went(p, Round(p, flush), flush)
    BY <1>1, RoundIs
  <1>3. /\ Round(p, flush).again \in BOOLEAN
        /\ Round(p, flush) = [again |-> Round(p, flush).again, p |-> Round(p, flush).p]
    BY <1>2 DEF Went
  <1> QED BY <1>1, <1>3 DEF Loop

LEMMA AfterAtIs ==
  ASSUME TraceAssumption, NEW flush \in BOOLEAN, NEW P, Closed(P, flush), NEW p \in P,
         NEW n \in Nat, NEW f, n # 0 => f[n - 1] \in Loop(P)
  PROVE  AfterAt(p, flush, f, n) \in Loop(P)
  <1>1. CASE n = 0
    BY <1>1 DEF AfterAt, Loop
  <1>2. CASE n # 0
    <2>1. PICK r \in Loop(P) : r = f[n - 1]
      BY <1>2
    <2>2. AfterAt(p, flush, f, n) = IF r.again THEN Round(r.p, flush) ELSE r
      BY <1>2, <2>1 DEF AfterAt
    <2>3. r.p \in P
      BY DEF Loop
    <2>4. Round(r.p, flush) \in Loop(P)
      BY <2>3, RoundInLoop
    <2> QED BY <2>2, <2>4
  <1> QED BY <1>1, <1>2

LEMMA AfterIs ==
  ASSUME TraceAssumption, NEW flush \in BOOLEAN, NEW P, Closed(P, flush), NEW p \in P
  PROVE  /\ Rounds(p) \in Nat
         /\ After(p, flush)[0] = [again |-> TRUE, p |-> p]
         /\ \A n \in 1 .. Rounds(p) :
              After(p, flush)[n] = AfterAt(p, flush, After(p, flush), n)
         /\ \A n \in 0 .. Rounds(p) : After(p, flush)[n] \in Loop(P)
  <1> DEFINE D == 0 .. Rounds(p)
             T == Loop(P)
             rank == [n \in D |-> n]
             F == [n \in D |-> [f \in [D -> T] |-> AfterAt(p, flush, f, n)]]
             r == After(p, flush)
  <1>0. Rounds(p) \in Nat
    <2>1. p \in Parsers
      BY DEF Closed
    <2>2. Len(p.acc) \in Nat
      BY <2>1, ParserFields
    <2> QED BY <2>2 DEF Rounds
  <1>1. T # {}
    <2>1. [again |-> TRUE, p |-> p] \in T
      BY DEF Loop
    <2> QED BY <2>1
  <1>2. rank \in [D -> Nat]
    BY <1>0
  <1>3. ASSUME NEW x \in D, NEW f \in [D -> T]
        PROVE  AfterAt(p, flush, f, x) \in T
    <2>1. x \in Nat /\ (x # 0 => x - 1 \in D)
      BY <1>0
    <2>2. x # 0 => f[x - 1] \in T
      BY <2>1
    <2> QED BY <2>1, <2>2, AfterAtIs
  <1>4. F \in [D -> [[D -> T] -> T]]
    BY <1>3
  <1>5. \A x \in D : \A f \in [D -> T] : F[x][f] = AfterAt(p, flush, f, x)
    OBVIOUS
  <1>6. \E f \in [D -> T] : \A x \in D : f[x] = F[x][f]
    <2>1. ASSUME NEW x \in D, NEW f \in [D -> T], NEW g \in [D -> T],
                 \A y \in D : rank[y] < rank[x] => f[y] = g[y]
          PROVE  F[x][f] = F[x][g]
      <3>1. x # 0 => x - 1 \in D /\ rank[x - 1] < rank[x]
        BY <1>0
      <3>2. x # 0 => f[x - 1] = g[x - 1]
        BY <2>1, <3>1
      <3>3. AfterAt(p, flush, f, x) = AfterAt(p, flush, g, x)
        BY <3>2 DEF AfterAt
      <3> QED BY <3>3, <1>5
    <2> HIDE DEF D, T, rank, F, r
    <2>2. Recursive(D, T, rank, F)
      BY <1>1, <1>2, <1>4, <2>1 DEF Recursive
    <2> QED BY <2>2, Recursion DEF HasFixpoint
  <1>7. PICK f \in [D -> T] : \A x \in D : f[x] = AfterAt(p, flush, f, x)
    BY <1>5, <1>6
  <1>8. f = [n \in D |-> AfterAt(p, flush, f, n)]
    BY <1>7
  <1>9. r = [n \in D |-> AfterAt(p, flush, r, n)]
    BY <1>8 DEF After
  <1>10. \A n \in D : r[n] = AfterAt(p, flush, r, n)
    BY <1>9
  <1> HIDE DEF r
  <1>11. r[0] = [again |-> TRUE, p |-> p]
    <2>1. 0 \in D
      BY <1>0
    <2>2. r[0] = AfterAt(p, flush, r, 0)
      BY <1>10, <2>1
    <2>3. AfterAt(p, flush, r, 0) = [again |-> TRUE, p |-> p]
      BY DEF AfterAt
    <2> QED BY <2>2, <2>3
  <1>12. \A n \in 1 .. Rounds(p) : r[n] = AfterAt(p, flush, r, n)
    BY <1>0, <1>10
  <1> DEFINE N == {n \in Nat : n \in D => r[n] \in T}
  <1>13. 0 \in N
    <2>1. AfterAt(p, flush, r, 0) \in T
      BY AfterAtIs
    <2> QED BY <1>10, <2>1
  <1>14. ASSUME NEW n \in N PROVE n + 1 \in N
    <2> SUFFICES ASSUME n + 1 \in D PROVE r[n + 1] \in T
      OBVIOUS
    <2>1. n \in D /\ n + 1 # 0 /\ n + 1 - 1 = n /\ n + 1 \in Nat
      BY <1>0
    <2>2. r[n] \in T
      BY <2>1
    <2>3. AfterAt(p, flush, r, n + 1) \in T
      <3>1. PICK m \in Nat : m = n + 1 /\ m - 1 = n
        BY <2>1
      <3>2. m # 0 => r[m - 1] \in T
        BY <2>2, <3>1
      <3>3. AfterAt(p, flush, r, m) \in T
        BY <3>2, AfterAtIs
      <3> QED BY <3>1, <3>3
    <2> QED BY <2>3, <1>10
  <1>15. N = Nat
    <2>1. N \in SUBSET Nat
      OBVIOUS
    <2> HIDE DEF N
    <2> QED BY <1>13, <1>14, <2>1, Induct
  <1>16. \A n \in D : r[n] \in T
    <2> SUFFICES ASSUME NEW n \in D PROVE r[n] \in T
      OBVIOUS
    <2>1. n \in N
      <3>1. n \in Nat
        BY <1>0
      <3> HIDE DEF N
      <3> QED BY <1>15, <3>1
    <2> QED BY <2>1
  <1> QED BY <1>0, <1>11, <1>12, <1>16 DEF r

(* What every round keeps, the loop keeps. *)
LEMMA DrainKeeps ==
  ASSUME TraceAssumption, NEW flush \in BOOLEAN, NEW P, Closed(P, flush), NEW p \in P
  PROVE  Drain(p, flush) \in P
  <1>1. Rounds(p) \in 0 .. Rounds(p)
    <2>1. Rounds(p) \in Nat
      BY AfterIs
    <2> QED BY <2>1
  <1>2. After(p, flush)[Rounds(p)] \in Loop(P)
    BY <1>1, AfterIs
  <1> QED BY <1>2, DrainIsAfter DEF Loop

(* The loop ends: a round that goes on leaves less to do.                  *)
Left(p) == IF p.answering /\ ~p.inDsml THEN 2 * Len(p.acc) + 1 ELSE 2 * Len(p.acc)

LEMMA MovesLen ==
  ASSUME NEW p \in Parsers, NEW q, NEW kind, NEW n, NEW next, NEW answers, NEW dsml,
         Moves(p, q, kind, n, next, answers, dsml)
  PROVE  /\ q \in Parsers /\ q.acc \in Seq(Byte) /\ Len(q.acc) \in Nat
         /\ n \in Nat /\ next \in 1 .. Len(p.acc) + 1
         /\ Len(q.acc) = Len(p.acc) + 1 - next
  <1>1. p.acc \in Seq(Byte) /\ Len(p.acc) \in Nat
    BY ParserFields
  <1>2. /\ q \in Parsers /\ n \in 0 .. Len(p.acc) /\ next \in n + 1 .. Len(p.acc) + 1
        /\ q.acc = From(p.acc, next)
    BY DEF Moves
  <1>3. next \in 1 .. Len(p.acc) + 1 /\ n \in Nat
    BY <1>1, <1>2
  <1>4. Len(From(p.acc, next)) = Len(p.acc) + 1 - next
    BY <1>1, <1>3, FromIs
  <1>5. q.acc \in Seq(Byte) /\ Len(q.acc) \in Nat
    BY <1>2, ParserFields
  <1> QED BY <1>2, <1>3, <1>4, <1>5

LEMMA RoundLeft ==
  ASSUME TraceAssumption, NEW p \in Parsers, NEW flush \in BOOLEAN
  PROVE  /\ Left(p) \in Nat /\ Left(p) <= 2 * Len(p.acc) + 1
         /\ Left(p) = 0 => p.acc = <<>>
         /\ Round(p, flush).again => Left(Round(p, flush).p) < Left(p)
         /\ flush /\ ~Round(p, flush).again => Round(p, flush).p.acc = <<>>
  <1> DEFINE q == Round(p, flush).p
  <1>0. p.acc \in Seq(Byte) /\ Len(p.acc) \in Nat /\ p.answering \in BOOLEAN /\ p.inDsml \in BOOLEAN
    BY ParserFields
  <1>1. Left(p) \in Nat /\ Left(p) <= 2 * Len(p.acc) + 1 /\ (Left(p) = 0 => Len(p.acc) = 0)
    <2> HIDE DEF q
    <2>1. PICK l \in Nat : l = Len(p.acc)
      BY <1>0
    <2>2. Left(p) = 2 * l \/ Left(p) = 2 * l + 1
      <3>1. CASE p.answering /\ ~p.inDsml
        BY <1>0, <2>1, <3>1 DEF Left
      <3>2. CASE ~(p.answering /\ ~p.inDsml)
        BY <1>0, <2>1, <3>2 DEF Left
      <3> QED BY <3>1, <3>2
    <2>3. /\ 2 * l \in Nat /\ 2 * l + 1 \in Nat /\ 2 * l <= 2 * l + 1
          /\ (2 * l = 0 => l = 0) /\ 2 * l + 1 # 0
      OBVIOUS
    <2> QED BY <2>1, <2>2, <2>3
  <1>2. Len(p.acc) = 0 => p.acc = <<>>
    BY <1>0, EmptySeq
  <1>3. Went(p, Round(p, flush), flush)
    BY RoundIs
  <1>4. ASSUME NEW kind, NEW n, NEW next, NEW answers, NEW dsml,
               Moves(p, q, kind, n, next, answers, dsml)
        PROVE  /\ q.acc \in Seq(Byte) /\ Len(q.acc) \in Nat
               /\ n \in Nat /\ next \in 1 .. Len(p.acc) + 1
               /\ Len(q.acc) = Len(p.acc) + 1 - next
               /\ q.answering = answers /\ q.inDsml = dsml
    <2> HIDE DEF q
    <2>1. q.answering = answers /\ q.inDsml = dsml
      BY <1>4 DEF Moves
    <2> QED BY <1>4, <2>1, MovesLen
  <1>5. ASSUME Round(p, flush).again PROVE Left(q) < Left(p)
    <2>1. CASE StopsThinking(p, q)
      <3> DEFINE at == Find(p.acc, ThinkEnd)
      <3>1. ~p.answering /\ at # 0 /\ Moves(p, q, "thinking", at - 1, at + Len(ThinkEnd), TRUE, FALSE)
        BY <2>1 DEF StopsThinking
      <3>2. /\ at \in Nat /\ at >= 1 /\ Len(ThinkEnd) \in Nat /\ Len(ThinkEnd) >= 1
        BY <1>0, <3>1, FindEnd
      <3>3. Len(q.acc) = Len(p.acc) + 1 - (at + Len(ThinkEnd)) /\ Len(q.acc) \in Nat
        BY <1>4, <3>1
      <3> HIDE DEF q, at
      <3>4. Len(q.acc) <= Len(p.acc) - 1
        BY <1>0, <3>2, <3>3
      <3> QED BY <1>0, <3>1, <3>3, <3>4 DEF Left
    <2>2. CASE OpensTool(p, q)
      <3> DEFINE at == Find(p.acc, DsmlOpen)
      <3>1. p.answering /\ ~p.inDsml /\ at # 0 /\ Moves(p, q, "answer", at - 1, at, TRUE, TRUE)
        BY <2>2 DEF OpensTool
      <3>2. /\ at \in Nat /\ at >= 1
        BY <1>0, <3>1, FindEnd
      <3>3. Len(q.acc) = Len(p.acc) + 1 - at /\ Len(q.acc) \in Nat /\ q.inDsml
        BY <1>4, <3>1
      <3> HIDE DEF q, at
      <3>4. Len(q.acc) <= Len(p.acc)
        BY <1>0, <3>2, <3>3
      <3> QED BY <1>0, <3>1, <3>3, <3>4 DEF Left
    <2>3. CASE ClosesTool(p, q)
      <3> DEFINE at == Find(p.acc, DsmlClose)
      <3>1. /\ p.answering /\ p.inDsml /\ at # 0
            /\ Moves(p, q, "tool", at - 1 + Len(DsmlClose), at + Len(DsmlClose), TRUE, FALSE)
        BY <2>3 DEF ClosesTool
      <3>2. /\ at \in Nat /\ at >= 1 /\ Len(DsmlClose) \in Nat /\ Len(DsmlClose) >= 1
        BY <1>0, <3>1, FindEnd
      <3>3. Len(q.acc) = Len(p.acc) + 1 - (at + Len(DsmlClose)) /\ Len(q.acc) \in Nat
        BY <1>4, <3>1
      <3> HIDE DEF q, at
      <3>4. Len(q.acc) <= Len(p.acc) - 1
        BY <1>0, <3>2, <3>3
      <3> QED BY <1>0, <3>1, <3>3, <3>4 DEF Left
    <2> QED BY <1>3, <1>5, <2>1, <2>2, <2>3 DEF Went
  <1>6. ASSUME flush, ~Round(p, flush).again PROVE q.acc = <<>>
    <2>0. Sent(p, flush) = Len(p.acc)
      BY <1>6 DEF Sent
    <2>1. ASSUME NEW kind, NEW answers, NEW dsml,
                 Moves(p, q, kind, Len(p.acc), Len(p.acc) + 1, answers, dsml)
          PROVE  q.acc = <<>>
      <3>1. q.acc = From(p.acc, Len(p.acc) + 1)
        BY <2>1 DEF Moves
      <3> QED BY <1>0, <3>1, FromFirst
    <2>2. CASE Stays(p, q, flush)
      BY <1>6, <2>2 DEF Stays
    <2>3. CASE Thinks(p, q, flush)
      <3>1. Moves(p, q, "thinking", Len(p.acc), Len(p.acc) + 1, FALSE, FALSE)
        BY <2>0, <2>3 DEF Thinks
      <3> QED BY <2>1, <3>1
    <2>4. CASE Answers(p, q, flush)
      <3>1. Moves(p, q, "answer", Len(p.acc), Len(p.acc) + 1, TRUE, FALSE)
        BY <2>0, <2>4 DEF Answers
      <3> QED BY <2>1, <3>1
    <2>5. CASE EndsTool(p, q)
      <3>1. Moves(p, q, "tool", Len(p.acc), Len(p.acc) + 1, TRUE, FALSE)
        BY <2>5 DEF EndsTool
      <3> QED BY <2>1, <3>1
    <2> QED BY <1>3, <1>6, <2>2, <2>3, <2>4, <2>5 DEF Went
  <1> QED BY <1>1, <1>2, <1>5, <1>6

LEMMA ParsersClosed ==
  ASSUME TraceAssumption, NEW flush \in BOOLEAN
  PROVE  Closed(Parsers, flush)
  <1>1. \A p \in Parsers : Round(p, flush).p \in Parsers
    BY RoundIs DEF Went
  <1> QED BY <1>1 DEF Closed

(* A flush holds nothing back. *)
LEMMA FlushEmpties ==
  ASSUME TraceAssumption, NEW p \in Parsers
  PROVE  Drain(p, TRUE).acc = <<>>
  <1> DEFINE r == After(p, TRUE)
             R == Rounds(p)
             N == {n \in Nat : n <= R => IF r[n].again THEN Left(r[n].p) + n <= R
                                         ELSE r[n].p.acc = <<>>}
  <1>0. Closed(Parsers, TRUE) /\ TRUE \in BOOLEAN
    BY ParsersClosed
  <1>1. /\ R \in Nat /\ r[0] = [again |-> TRUE, p |-> p]
        /\ \A n \in 1 .. R : r[n] = AfterAt(p, TRUE, r, n)
        /\ \A n \in 0 .. R : r[n] \in Loop(Parsers)
    BY <1>0, AfterIs
  <1>2. Left(p) \in Nat /\ Left(p) <= R
    BY RoundLeft DEF Rounds
  <1> HIDE DEF r, R
  <1>3. 0 \in N
    <2>1. r[0].again = TRUE /\ r[0].p = p
      BY <1>1
    <2>2. Left(r[0].p) + 0 <= R
      BY <1>1, <1>2, <2>1
    <2> QED BY <2>1, <2>2
  <1>4. ASSUME NEW n \in N PROVE n + 1 \in N
    <2> SUFFICES ASSUME n + 1 <= R
                 PROVE  IF r[n + 1].again THEN Left(r[n + 1].p) + (n + 1) <= R
                        ELSE r[n + 1].p.acc = <<>>
      OBVIOUS
    <2>1. PICK m \in 1 .. R : m = n + 1 /\ m - 1 = n /\ m # 0 /\ n \in 0 .. R
      BY <1>1
    <2>2. IF r[n].again THEN Left(r[n].p) + n <= R ELSE r[n].p.acc = <<>>
      BY <1>1, <2>1
    <2>3. r[m] = IF r[n].again THEN Round(r[n].p, TRUE) ELSE r[n]
      BY <1>1, <2>1 DEF AfterAt
    <2>4. r[n] \in Loop(Parsers)
      BY <1>1, <2>1
    <2>5. r[n].p \in Parsers
      BY <2>4 DEF Loop
    <2>6. CASE ~r[n].again
      BY <2>1, <2>2, <2>3, <2>6
    <2>7. CASE r[n].again
      <3> DEFINE p1 == r[n].p
                 r1 == Round(p1, TRUE)
      <3>1. r[n + 1] = r1
        BY <2>1, <2>3, <2>7
      <3>2. /\ Left(p1) \in Nat /\ (r1.again => Left(r1.p) < Left(p1))
            /\ (~r1.again => r1.p.acc = <<>>)
        BY <2>5, RoundLeft
      <3>3. Went(p1, r1, TRUE)
        BY <2>5, RoundIs
      <3>4. r1.p \in Parsers
        BY <3>3 DEF Went
      <3>5. Left(r1.p) \in Nat
        BY <3>4, RoundLeft
      <3>6. Left(p1) + n <= R
        BY <2>2, <2>7
      <3> HIDE DEF r1, p1
      <3>7. r1.again => Left(r1.p) + (n + 1) <= R
        BY <1>1, <3>2, <3>5, <3>6
      <3> QED BY <3>1, <3>2, <3>7
    <2> QED BY <2>6, <2>7
  <1>5. N = Nat
    <2>1. N \in SUBSET Nat
      OBVIOUS
    <2> HIDE DEF N
    <2> QED BY <1>3, <1>4, <2>1, Induct
  <1>6. IF r[R].again THEN Left(r[R].p) + R <= R ELSE r[R].p.acc = <<>>
    <2>1. R \in N
      <3> HIDE DEF N
      <3> QED BY <1>1, <1>5
    <2> QED BY <1>1, <2>1
  <1>7. r[R].p \in Parsers
    <2>1. R \in 0 .. R
      BY <1>1
    <2>2. r[R] \in Loop(Parsers)
      BY <1>1, <2>1
    <2> QED BY <2>2 DEF Loop
  <1>8. r[R].p.acc = <<>>
    <2>1. Left(r[R].p) \in Nat /\ (Left(r[R].p) = 0 => r[R].p.acc = <<>>)
      BY <1>7, RoundLeft
    <2>2. r[R].again => Left(r[R].p) = 0
      BY <1>1, <1>6, <2>1
    <2> QED BY <1>6, <2>1, <2>2
  <1> QED BY <1>8, DrainIsAfter DEF r, R

-----------------------------------------------------------------------------
(* Nothing is lost.                                                        *)

LEMMA FindSplit ==
  ASSUME TraceAssumption, NEW m \in {ThinkEnd, DsmlOpen, DsmlClose}, NEW s \in Seq(Byte),
         Find(s, m) # 0
  PROVE  /\ SubSeq(s, 1, Find(s, m) - 1) \in Seq(Byte)
         /\ From(s, Find(s, m) + Len(m)) \in Seq(Byte)
         /\ s = SubSeq(s, 1, Find(s, m) - 1) \o (m \o From(s, Find(s, m) + Len(m)))
  <1> DEFINE at == Find(s, m)
             t == From(s, at)
  <1>1. /\ at \in Nat /\ at >= 1 /\ at + Len(m) <= Len(s) + 1 /\ Len(m) \in Nat /\ Len(m) >= 1
        /\ Len(s) \in Nat /\ IsAt(s, m, at)
    BY FindEnd
  <1>2. m \in Seq(Byte)
    BY MarkerIs
  <1> HIDE DEF at
  <1>3. /\ at - 1 \in 0 .. Len(s) /\ (at - 1) + 1 = at /\ at \in 1 .. Len(s) + 1
        /\ at + Len(m) \in 1 .. Len(s) + 1
    BY <1>1
  <1>4. t \in Seq(Byte) /\ Len(t) = Len(s) + 1 - at /\ \A k \in 1 .. Len(s) + 1 - at : t[k] = s[at + k - 1]
    BY <1>3, FromIs
  <1>5. SubSeq(s, 1, at - 1) \o t = s
    <2>1. SubSeq(s, 1, at - 1) \o From(s, (at - 1) + 1) = s
      BY <1>3, CutAt
    <2> QED BY <1>3, <2>1
  <1> HIDE DEF t
  <1>6. Len(m) \in 0 .. Len(t) /\ Len(m) + 1 \in 1 .. Len(t) + 1
    BY <1>1, <1>4
  <1>7. SubSeq(t, 1, Len(m)) = m
    <2>1. /\ SubSeq(t, 1, Len(m)) \in Seq(Byte) /\ Len(SubSeq(t, 1, Len(m))) = Len(m)
          /\ \A k \in 1 .. Len(m) : SubSeq(t, 1, Len(m))[k] = t[k]
      BY <1>4, <1>6, UpToIs
    <2>2. \A k \in 1 .. Len(m) : s[at + k - 1] = m[k]
      BY <1>1, <1>2, IsAtIs
    <2>3. \A k \in 1 .. Len(m) : k \in 1 .. Len(s) + 1 - at
      BY <1>1
    <2>4. \A k \in 1 .. Len(m) : SubSeq(t, 1, Len(m))[k] = m[k]
      BY <1>4, <2>1, <2>2, <2>3
    <2> QED BY <1>2, <2>1, <2>4, SeqEqual
  <1>8. SubSeq(t, 1, Len(m)) \o From(t, Len(m) + 1) = t
    BY <1>4, <1>6, CutAt
  <1>9. From(t, Len(m) + 1) = From(s, at + Len(m))
    <2>1. From(From(s, at), Len(m) + 1) = From(s, at + (Len(m) + 1) - 1)
      BY <1>3, <1>6, FromFrom DEF t
    <2>2. at + (Len(m) + 1) - 1 = at + Len(m)
      BY <1>1
    <2> QED BY <2>1, <2>2 DEF t
  <1>10. SubSeq(s, 1, at - 1) \in Seq(Byte) /\ From(s, at + Len(m)) \in Seq(Byte)
    BY <1>3, UpToIs, FromIs
  <1> QED BY <1>5, <1>7, <1>8, <1>9, <1>10 DEF at

LEMMA ByteConcat ==
  \A s, t \in Seq(Byte) : s \o t \in Seq(Byte)
  <1> SUFFICES ASSUME NEW s \in Seq(Byte), NEW t \in Seq(Byte) PROVE s \o t \in Seq(Byte)
    OBVIOUS
  <1> QED BY ConcatProperties

Joined(a, b, c) == (a \o b) \o c

Associate(a, b, c) == (a \o b) \o c = a \o (b \o c)

LEMMA AssociateIs ==
  \A s1, s2, s3 \in Seq(Byte) : Associate(s1, s2, s3)
  <1> SUFFICES ASSUME NEW s1 \in Seq(Byte), NEW s2 \in Seq(Byte), NEW s3 \in Seq(Byte)
               PROVE  (s1 \o s2) \o s3 = s1 \o (s2 \o s3)
    BY DEF Associate
  <1> QED BY ConcatAssociative

Kept(p) == Bytes(p.out) \o p.acc

(* All of f but one end marker. *)
Lacks(kept, f) ==
  \E a, b \in Seq(Byte) : f = a \o (ThinkEnd \o b) /\ kept = a \o b

Keeps(f, p) == Kept(p) = f \/ (p.answering /\ Lacks(Kept(p), f))

LEMMA MoveBytes ==
  ASSUME NEW p \in Parsers, NEW q, NEW kind \in Kinds, NEW n, NEW next, NEW answers, NEW dsml,
         Moves(p, q, kind, n, next, answers, dsml)
  PROVE  /\ Bytes(p.out) \in Seq(Byte) /\ SubSeq(p.acc, 1, n) \in Seq(Byte)
         /\ From(p.acc, next) \in Seq(Byte)
         /\ Kept(q) = Joined(Bytes(p.out), SubSeq(p.acc, 1, n), From(p.acc, next))
  <1> DEFINE piece == SubSeq(p.acc, 1, n)
  <1>1. p.acc \in Seq(Byte) /\ p.out \in Seq(Event) /\ Len(p.acc) \in Nat
    BY ParserFields
  <1>2. /\ n \in 0 .. Len(p.acc) /\ next \in n + 1 .. Len(p.acc) + 1
        /\ q.out = p.out \o Tagged(kind, piece) /\ q.acc = From(p.acc, next)
    BY DEF Moves
  <1>3. piece \in Seq(Byte)
    BY <1>1, <1>2, UpToIs
  <1>4. Tagged(kind, piece) \in Seq(Event) /\ Bytes(Tagged(kind, piece)) = piece
    BY <1>3, TaggedIs, BytesOfTagged
  <1>5. Bytes(q.out) = Bytes(p.out) \o piece
    BY <1>1, <1>2, <1>4, BytesConcat
  <1>6. Bytes(p.out) \in Seq(Byte)
    BY <1>1, BytesIs
  <1>7. From(p.acc, next) \in Seq(Byte)
    <2>1. next \in 1 .. Len(p.acc) + 1
      BY <1>1, <1>2
    <2> QED BY <1>1, <2>1, FromIs
  <1> QED BY <1>2, <1>3, <1>5, <1>6, <1>7 DEF Kept, Joined

(* A cut that skips nothing keeps all. *)
LEMMA CutKeeps ==
  ASSUME NEW p \in Parsers, NEW q, NEW kind \in Kinds, NEW n, NEW answers, NEW dsml,
         Moves(p, q, kind, n, n + 1, answers, dsml)
  PROVE  Kept(q) = Kept(p)
  <1>1. /\ Bytes(p.out) \in Seq(Byte) /\ SubSeq(p.acc, 1, n) \in Seq(Byte)
        /\ From(p.acc, n + 1) \in Seq(Byte)
        /\ Kept(q) = Joined(Bytes(p.out), SubSeq(p.acc, 1, n), From(p.acc, n + 1))
    BY MoveBytes
  <1>2. p.acc \in Seq(Byte) /\ n \in 0 .. Len(p.acc)
    BY ParserFields DEF Moves
  <1>3. SubSeq(p.acc, 1, n) \o From(p.acc, n + 1) = p.acc
    BY <1>2, CutAt
  <1>4. Kept(q) = Bytes(p.out) \o (SubSeq(p.acc, 1, n) \o From(p.acc, n + 1))
    <2>1. /\ Bytes(p.out) \in Seq(Byte) /\ SubSeq(p.acc, 1, n) \in Seq(Byte)
          /\ From(p.acc, n + 1) \in Seq(Byte)
      BY <1>1
    <2>2. Associate(Bytes(p.out), SubSeq(p.acc, 1, n), From(p.acc, n + 1))
      BY <2>1, AssociateIs
    <2> QED BY <1>1, <2>2 DEF Associate, Joined
  <1> QED BY <1>3, <1>4 DEF Kept

LEMMA RoundKeeps ==
  ASSUME TraceAssumption, NEW f, NEW p \in Parsers, NEW flush \in BOOLEAN, Keeps(f, p)
  PROVE  Keeps(f, Round(p, flush).p)
  <1> SUFFICES ASSUME NEW q, q = Round(p, flush).p PROVE Keeps(f, q)
    OBVIOUS
  <1>0. /\ p.acc \in Seq(Byte) /\ p.answering \in BOOLEAN /\ p.inDsml \in BOOLEAN
        /\ "thinking" \in Kinds /\ "answer" \in Kinds /\ "tool" \in Kinds
    BY ParserFields DEF Kinds
  <1>1. Went(p, Round(p, flush), flush)
    BY RoundIs
  <1>2. ASSUME Kept(q) = Kept(p), p.answering => q.answering
        PROVE  Keeps(f, q)
    BY <1>2 DEF Keeps
  <1>3. CASE Stays(p, q, flush)
    BY <1>2, <1>3 DEF Stays
  <1>4. CASE Thinks(p, q, flush)
    <2>1. Moves(p, q, "thinking", Sent(p, flush), Sent(p, flush) + 1, FALSE, FALSE) /\ ~p.answering
      BY <1>4 DEF Thinks
    <2>2. Kept(q) = Kept(p)
      BY <1>0, <2>1, CutKeeps
    <2> QED BY <1>2, <2>1, <2>2
  <1>5. CASE StopsThinking(p, q)
    <2> DEFINE at == Find(p.acc, ThinkEnd)
               u == SubSeq(p.acc, 1, at - 1)
               b == From(p.acc, at + Len(ThinkEnd))
               a == Bytes(p.out) \o u
    <2>1. ~p.answering /\ at # 0 /\ Moves(p, q, "thinking", at - 1, at + Len(ThinkEnd), TRUE, FALSE)
      BY <1>5 DEF StopsThinking
    <2>2. Bytes(p.out) \in Seq(Byte) /\ Kept(q) = Joined(Bytes(p.out), u, b)
      <3>1. Moves(p, q, "thinking", at - 1, at + Len(ThinkEnd), TRUE, FALSE)
        BY <2>1
      <3>2. PICK n, next, kind, answers, dsml :
              /\ n = at - 1 /\ next = at + Len(ThinkEnd) /\ kind = "thinking"
              /\ answers = TRUE /\ dsml = FALSE
        OBVIOUS
      <3> HIDE DEF at
      <3>3. Moves(p, q, kind, n, next, answers, dsml) /\ kind \in Kinds
        BY <1>0, <3>1, <3>2
      <3>4. /\ Bytes(p.out) \in Seq(Byte)
            /\ Kept(q) = Joined(Bytes(p.out), SubSeq(p.acc, 1, n), From(p.acc, next))
        BY <3>3, MoveBytes
      <3> QED BY <3>2, <3>4
    <2>3. u \in Seq(Byte) /\ b \in Seq(Byte) /\ p.acc = u \o (ThinkEnd \o b)
      BY <1>0, <2>1, FindSplit
    <2>4. Kept(p) = f
      BY <2>1 DEF Keeps
    <2>5. q.answering = TRUE
      BY <2>1 DEF Moves
    <2>6. ThinkEnd \in Seq(Byte)
      BY MarkerIs
    <2> HIDE DEF u, b
    <2>7. ThinkEnd \o b \in Seq(Byte)
      <3>1. ThinkEnd \in Seq(Byte) /\ b \in Seq(Byte)
        BY <2>3, <2>6
      <3> QED BY <3>1, ByteConcat
    <2>8. a \in Seq(Byte)
      <3>1. Bytes(p.out) \in Seq(Byte) /\ u \in Seq(Byte)
        BY <2>2, <2>3
      <3> QED BY <3>1, ByteConcat
    <2>9. f = a \o (ThinkEnd \o b)
      <3>1. f = Bytes(p.out) \o (u \o (ThinkEnd \o b))
        BY <2>3, <2>4 DEF Kept
      <3>2. Bytes(p.out) \in Seq(Byte) /\ u \in Seq(Byte) /\ ThinkEnd \o b \in Seq(Byte)
        BY <2>2, <2>3, <2>7
      <3>3. Associate(Bytes(p.out), u, ThinkEnd \o b)
        BY <3>2, AssociateIs
      <3> QED BY <3>1, <3>3 DEF Associate
    <2>10. Kept(q) = a \o b
      BY <2>2 DEF Joined
    <2> HIDE DEF a
    <2> QED BY <2>3, <2>5, <2>8, <2>9, <2>10 DEF Keeps, Lacks
  <1>6. CASE Answers(p, q, flush)
    <2>1. Moves(p, q, "answer", Sent(p, flush), Sent(p, flush) + 1, TRUE, FALSE)
      BY <1>6 DEF Answers
    <2>2. Kept(q) = Kept(p)
      BY <1>0, <2>1, CutKeeps
    <2>3. q.answering = TRUE
      BY <2>1 DEF Moves
    <2> QED BY <1>2, <2>2, <2>3
  <1>7. CASE OpensTool(p, q)
    <2> DEFINE at == Find(p.acc, DsmlOpen)
    <2>1. Moves(p, q, "answer", at - 1, at, TRUE, TRUE) /\ at # 0
      BY <1>7 DEF OpensTool
    <2>2. (at - 1) + 1 = at
      <3>1. at \in Nat
        BY <1>0, <2>1, FindEnd
      <3> QED BY <3>1
    <2> HIDE DEF at
    <2>3. Moves(p, q, "answer", at - 1, (at - 1) + 1, TRUE, TRUE)
      BY <2>1, <2>2
    <2>4. Kept(q) = Kept(p)
      BY <1>0, <2>3, CutKeeps
    <2>5. q.answering = TRUE
      BY <2>1 DEF Moves
    <2> QED BY <1>2, <2>4, <2>5
  <1>8. CASE ClosesTool(p, q)
    <2> DEFINE at == Find(p.acc, DsmlClose)
               n == at - 1 + Len(DsmlClose)
    <2>1. Moves(p, q, "tool", n, at + Len(DsmlClose), TRUE, FALSE) /\ at # 0
      BY <1>8 DEF ClosesTool
    <2>2. n + 1 = at + Len(DsmlClose)
      <3>1. at \in Nat /\ Len(DsmlClose) \in Nat
        BY <1>0, <2>1, FindEnd
      <3> QED BY <3>1
    <2> HIDE DEF at, n
    <2>3. Moves(p, q, "tool", n, n + 1, TRUE, FALSE)
      BY <2>1, <2>2
    <2>4. Kept(q) = Kept(p)
      BY <1>0, <2>3, CutKeeps
    <2>5. q.answering = TRUE
      BY <2>1 DEF Moves
    <2> QED BY <1>2, <2>4, <2>5
  <1>9. CASE EndsTool(p, q)
    <2>1. Moves(p, q, "tool", Len(p.acc), Len(p.acc) + 1, TRUE, FALSE)
      BY <1>9 DEF EndsTool
    <2>2. Kept(q) = Kept(p)
      BY <1>0, <2>1, CutKeeps
    <2>3. q.answering = TRUE
      BY <2>1 DEF Moves
    <2> QED BY <1>2, <2>2, <2>3
  <1> QED BY <1>1, <1>3, <1>4, <1>5, <1>6, <1>7, <1>8, <1>9 DEF Went

LEMMA DrainKept ==
  ASSUME TraceAssumption, NEW f, NEW p \in Parsers, NEW flush \in BOOLEAN, Keeps(f, p)
  PROVE  Drain(p, flush) \in Parsers /\ Keeps(f, Drain(p, flush))
  <1> DEFINE P == {q \in Parsers : Keeps(f, q)}
  <1>1. \A q \in P : Round(q, flush).p \in P
    <2> SUFFICES ASSUME NEW q \in Parsers, Keeps(f, q)
                 PROVE  Round(q, flush).p \in Parsers /\ Keeps(f, Round(q, flush).p)
      OBVIOUS
    <2>1. Round(q, flush).p \in Parsers
      BY RoundIs DEF Went
    <2> QED BY <2>1, RoundKeeps
  <1>2. Closed(P, flush)
    BY <1>1 DEF Closed
  <1>3. p \in P
    OBVIOUS
  <1> HIDE DEF P
  <1>4. Drain(p, flush) \in P
    BY <1>2, <1>3, DrainKeeps
  <1> QED BY <1>4 DEF P

(* More bytes are held. *)
LEMMA FeedKept ==
  ASSUME TraceAssumption, NEW f \in Seq(Byte), NEW p \in Parsers, NEW t \in Seq(Byte), Keeps(f, p)
  PROVE  /\ [p EXCEPT !.acc = @ \o t] \in Parsers
         /\ Keeps(f \o t, [p EXCEPT !.acc = @ \o t])
  <1> DEFINE q == [p EXCEPT !.acc = @ \o t]
             b == Bytes(p.out)
  <1>1. p.acc \in Seq(Byte) /\ p.out \in Seq(Event)
    BY ParserFields
  <1>2. p.acc \o t \in Seq(Byte) /\ b \in Seq(Byte)
    <2>1. p.acc \in Seq(Byte) /\ t \in Seq(Byte)
      BY <1>1
    <2> QED BY <1>1, <2>1, ByteConcat, BytesIs
  <1>3. q \in Parsers
    BY <1>2 DEF Parsers
  <1>4. q.acc = p.acc \o t /\ q.out = p.out /\ q.answering = p.answering
    BY DEF Parsers
  <1> SUFFICES q \in Parsers /\ Keeps(f \o t, q)
    OBVIOUS
  <1> HIDE DEF b, q
  <1>5. Kept(q) = Kept(p) \o t
    <2>1. Kept(q) = b \o (p.acc \o t)
      BY <1>4 DEF Kept, b
    <2>2. b \in Seq(Byte) /\ p.acc \in Seq(Byte) /\ t \in Seq(Byte)
      BY <1>1, <1>2
    <2>3. Associate(b, p.acc, t)
      BY <2>2, AssociateIs
    <2>4. Kept(p) = b \o p.acc
      BY DEF Kept, b
    <2> QED BY <2>1, <2>3, <2>4 DEF Associate
  <1>6. CASE Kept(p) = f
    BY <1>3, <1>5, <1>6 DEF Keeps
  <1>7. CASE p.answering /\ Lacks(Kept(p), f)
    <2>1. PICK u, v \in Seq(Byte) : f = u \o (ThinkEnd \o v) /\ Kept(p) = u \o v
      BY <1>7 DEF Lacks
    <2>2. ThinkEnd \in Seq(Byte)
      BY MarkerIs
    <2>3. v \o t \in Seq(Byte) /\ ThinkEnd \o v \in Seq(Byte)
      BY <2>2, ByteConcat
    <2>4. Kept(q) = u \o (v \o t)
      <3>1. u \in Seq(Byte) /\ v \in Seq(Byte) /\ t \in Seq(Byte)
        OBVIOUS
      <3>2. Associate(u, v, t)
        BY <3>1, AssociateIs
      <3> QED BY <1>5, <2>1, <3>2 DEF Associate
    <2>5. f \o t = u \o (ThinkEnd \o (v \o t))
      <3>1. u \in Seq(Byte) /\ ThinkEnd \o v \in Seq(Byte) /\ t \in Seq(Byte)
        BY <2>3
      <3>2. Associate(u, ThinkEnd \o v, t)
        BY <3>1, AssociateIs
      <3>3. ThinkEnd \in Seq(Byte) /\ v \in Seq(Byte) /\ t \in Seq(Byte)
        BY <2>2
      <3>4. Associate(ThinkEnd, v, t)
        BY <3>3, AssociateIs
      <3> QED BY <2>1, <3>2, <3>4 DEF Associate
    <2>6. q.answering
      BY <1>4, <1>7
    <2>7. Lacks(Kept(q), f \o t)
      BY <2>3, <2>4, <2>5 DEF Lacks
    <2> QED BY <1>3, <2>6, <2>7 DEF Keeps
  <1> QED BY <1>6, <1>7 DEF Keeps

(* The text that lacks one end marker is cut where the marker is. *)
LEMMA LacksIs ==
  ASSUME TraceAssumption, NEW f \in Seq(Byte), NEW kept, Lacks(kept, f)
  PROVE  \E i \in 1 .. Len(f) :
           IsAt(f, ThinkEnd, i) /\ kept = SubSeq(f, 1, i - 1) \o From(f, i + Len(ThinkEnd))
  <1>1. PICK u, v \in Seq(Byte) : f = u \o (ThinkEnd \o v) /\ kept = u \o v
    BY DEF Lacks
  <1> DEFINE w == ThinkEnd \o v
             i == Len(u) + 1
  <1>2. ThinkEnd \in Seq(Byte) /\ Len(ThinkEnd) \in Nat /\ Len(ThinkEnd) >= 1
    BY MarkerIs
  <1>3. /\ w \in Seq(Byte) /\ Len(w) = Len(ThinkEnd) + Len(v) /\ Len(v) \in Nat
        /\ \A k \in 1 .. Len(ThinkEnd) : w[k] = ThinkEnd[k]
    BY <1>2, ConcatIs
  <1> HIDE DEF w
  <1>4. f = u \o w
    BY <1>1 DEF w
  <1>5. /\ Len(f) = Len(u) + Len(w) /\ Len(u) \in Nat
        /\ \A k \in 1 .. Len(w) : f[Len(u) + k] = w[k]
    <2>1. u \in Seq(Byte) /\ w \in Seq(Byte)
      BY <1>3
    <2>2. /\ Len(u \o w) = Len(u) + Len(w) /\ Len(u) \in Nat
          /\ \A k \in 1 .. Len(w) : (u \o w)[Len(u) + k] = w[k]
      BY <2>1, ConcatIs
    <2> QED BY <1>4, <2>2
  <1>6. i \in Nat /\ i >= 1 /\ i \in 1 .. Len(f) /\ i + Len(ThinkEnd) - 1 <= Len(f) /\ i - 1 = Len(u)
    BY <1>2, <1>3, <1>5
  <1>7. IsAt(f, ThinkEnd, i)
    <2>1. ASSUME NEW k \in 1 .. Len(ThinkEnd) PROVE f[i + k - 1] = ThinkEnd[k]
      <3>1. k \in 1 .. Len(w) /\ i + k - 1 = Len(u) + k
        BY <1>2, <1>3, <1>5
      <3> QED BY <1>3, <1>5, <3>1
    <2> HIDE DEF i
    <2> QED BY <1>2, <1>6, <2>1, IsAtIs
  <1>8. SubSeq(f, 1, Len(u)) = u
    <2>1. Len(u) \in 0 .. Len(u)
      BY <1>5
    <2>2. SubSeq(u \o w, 1, Len(u)) = SubSeq(u, 1, Len(u))
      BY <1>3, <2>1, UpToConcat
    <2>3. SubSeq(u, 1, Len(u)) = u
      BY SubSeqFull
    <2> QED BY <1>4, <2>2, <2>3
  <1>9. From(f, i + Len(ThinkEnd)) = v
    <2>1. /\ Len(ThinkEnd) + 1 \in 1 .. Len(w) + 1
          /\ i + Len(ThinkEnd) = Len(u) + (Len(ThinkEnd) + 1)
      BY <1>2, <1>3, <1>5
    <2>2. From(u \o w, Len(u) + (Len(ThinkEnd) + 1)) = From(w, Len(ThinkEnd) + 1)
      BY <1>3, <2>1, FromConcat
    <2>3. 1 \in 1 .. Len(v) + 1
      BY <1>3
    <2>4. From(ThinkEnd \o v, Len(ThinkEnd) + 1) = From(v, 1)
      BY <1>2, <2>3, FromConcat
    <2>5. From(v, 1) = v
      BY FromFirst
    <2> QED BY <1>4, <2>1, <2>2, <2>4, <2>5 DEF w
  <1> HIDE DEF i
  <1> QED BY <1>1, <1>6, <1>7, <1>8, <1>9

-----------------------------------------------------------------------------
(* The steps.                                                              *)

Fresh == [answering |-> FALSE, inDsml |-> FALSE, acc |-> <<>>, out |-> <<>>, answer |-> <<>>]

Given(p, t) == [p EXCEPT !.acc = @ \o t]

TypeInv ==
  /\ model \in Models /\ stalls \in BOOLEAN /\ over \in BOOLEAN /\ skip \in Nat
  /\ fed \in Seq(Byte) /\ Parser \in Parsers

Begins == over /\ ~over' /\ fed' = <<>> /\ Parser' = Fresh
Waits == over' = over /\ fed' = fed /\ Parser' = Parser
Takes(t) == ~over /\ ~over' /\ fed' = fed \o t /\ Parser' = Drain(Given(Parser, t), FALSE)
Drains == ~over /\ fed' = fed /\ Parser' = Drain(Parser, FALSE)
Flushes == (stalls \/ over) /\ over' = over /\ fed' = fed /\ Parser' = Drain(Parser, TRUE)

LEMMA FreshIs == Fresh \in Parsers /\ Kept(Fresh) = <<>> /\ Keeps(<<>>, Fresh)
  <1>1. <<>> \in Seq(Byte) /\ <<>> \in Seq(Event) /\ Len(<<>>) = 0
    BY EmptySeq
  <1>2. Fresh \in Parsers
    BY <1>1 DEF Fresh, Parsers
  <1>3. Bytes(<<>>) = <<>>
    <2>1. Bytes(<<>>) \in Seq(Byte) /\ Len(Bytes(<<>>)) = 0
      BY <1>1, BytesIs
    <2> QED BY <2>1, EmptySeq
  <1>4. Kept(Fresh) = <<>>
    <2>1. Kept(Fresh) = Bytes(<<>>) \o <<>>
      BY DEF Kept, Fresh
    <2>2. <<>> \o <<>> = <<>>
      OBVIOUS
    <2> QED BY <1>3, <2>1, <2>2
  <1> QED BY <1>2, <1>4 DEF Keeps

LEMMA BecomesIs ==
  ASSUME NEW d \in Parsers, Becomes(d)
  PROVE  Parser' = d
  <1>1. d = [answering |-> d.answering, inDsml |-> d.inDsml, acc |-> d.acc, out |-> d.out,
             answer |-> d.answer]
    BY DEF Parsers
  <1>2. Parser' = [answering |-> answering', inDsml |-> inDsml', acc |-> acc', out |-> out',
                   answer |-> answer']
    BY DEF Parser
  <1> QED BY <1>1, <1>2 DEF Becomes

LEMMA GivenIs ==
  ASSUME NEW p \in Parsers, NEW t \in Seq(Byte)
  PROVE  /\ Given(p, t) \in Parsers
         /\ Given(p, t).acc = p.acc \o t /\ Given(p, t).out = p.out
         /\ Given(p, t).answering = p.answering /\ Given(p, t).inDsml = p.inDsml
         /\ Given(p, t).answer = p.answer
  <1>1. p.acc \in Seq(Byte)
    BY ParserFields
  <1>2. p.acc \o t \in Seq(Byte)
    BY <1>1, ByteConcat
  <1> QED BY <1>2 DEF Given, Parsers

LEMMA DrainIs ==
  ASSUME TraceAssumption, NEW p \in Parsers, NEW flush \in BOOLEAN
  PROVE  Drain(p, flush) \in Parsers
  BY ParsersClosed, DrainKeeps

LEMMA InitIs ==
  ASSUME Init
  PROVE  TypeInv /\ over /\ fed = <<>> /\ Parser = Fresh
  <1>1. Parser = Fresh
    BY DEF Init, Parser, Fresh
  <1>2. <<>> \in Seq(Byte)
    OBVIOUS
  <1> QED BY <1>1, <1>2, FreshIs DEF Init, TypeInv

LEMMA Steps ==
  ASSUME TraceAssumption, TypeInv, [Next]_vars
  PROVE  /\ TypeInv' /\ stalls' = stalls
         /\ \/ Begins
            \/ Waits
            \/ \E t \in Seq(Byte) : Takes(t)
            \/ Drains
            \/ Flushes
  <1>0. /\ model \in Models /\ stalls \in BOOLEAN /\ over \in BOOLEAN /\ skip \in Nat
        /\ fed \in Seq(Byte) /\ Parser \in Parsers
    BY DEF TypeInv
  <1>1. CASE UserLine
    <2>1. Parser' = Fresh
      BY <1>1 DEF UserLine, ResetTurn, Parser, Fresh
    <2>2. Begins /\ stalls' = stalls
      BY <1>1, <2>1 DEF UserLine, Begins
    <2>3. <<>> \in Seq(Byte)
      OBVIOUS
    <2>4. TypeInv'
      BY <1>0, <1>1, <2>1, <2>3, FreshIs DEF UserLine, TypeInv
    <2> QED BY <2>2, <2>4
  <1>2. CASE LabelLine
    <2>1. Parser' = Parser /\ skip' \in Nat
      BY <1>2 DEF LabelLine, Parser, TraceAssumption
    <2>2. Waits /\ stalls' = stalls /\ TypeInv'
      BY <1>0, <1>2, <2>1 DEF LabelLine, Waits, TypeInv
    <2> QED BY <2>2
  <1>3. CASE PromptToken
    <2>1. Parser' = Parser /\ skip' \in Nat
      BY <1>0, <1>3 DEF PromptToken, Parser
    <2>2. Waits /\ stalls' = stalls /\ TypeInv'
      BY <1>0, <1>3, <2>1 DEF PromptToken, Waits, TypeInv
    <2> QED BY <2>2
  <1>4. CASE Token
    <2>1. PICK t \in model.tokens :
            fed' = fed \o t /\ Becomes(Drain([Parser EXCEPT !.acc = @ \o t], FALSE))
      BY <1>4 DEF Token
    <2>2. t \in Seq(Byte)
      BY <1>0 DEF TraceAssumption
    <2>3. Given(Parser, t) \in Parsers
      BY <1>0, <2>2, GivenIs
    <2>4. Drain(Given(Parser, t), FALSE) \in Parsers
      BY <2>3, DrainIs
    <2>5. Parser' = Drain(Given(Parser, t), FALSE)
      <3>1. Becomes(Drain(Given(Parser, t), FALSE))
        BY <2>1 DEF Given
      <3> QED BY <2>4, <3>1, BecomesIs
    <2>6. fed \o t \in Seq(Byte)
      BY <1>0, <2>2, ByteConcat
    <2>7. Takes(t)
      BY <1>4, <2>1, <2>5 DEF Token, Takes
    <2>8. TypeInv' /\ stalls' = stalls
      BY <1>0, <1>4, <2>1, <2>4, <2>5, <2>6 DEF Token, TypeInv
    <2> QED BY <2>2, <2>7, <2>8
  <1>5. CASE OtherLine
    <2>1. Drain(Parser, FALSE) \in Parsers
      BY <1>0, DrainIs
    <2>2. Parser' = Drain(Parser, FALSE)
      BY <1>5, <2>1, BecomesIs DEF OtherLine
    <2>3. Drains /\ TypeInv' /\ stalls' = stalls
      BY <1>0, <1>5, <2>1, <2>2 DEF OtherLine, Drains, TypeInv
    <2> QED BY <2>3
  <1>6. CASE Flush
    <2>1. Drain(Parser, TRUE) \in Parsers
      BY <1>0, DrainIs
    <2>2. Parser' = Drain(Parser, TRUE)
      BY <1>6, <2>1, BecomesIs DEF Flush
    <2>3. Flushes /\ TypeInv' /\ stalls' = stalls
      BY <1>0, <1>6, <2>1, <2>2 DEF Flush, Flushes, TypeInv
    <2> QED BY <2>3
  <1>7. CASE UNCHANGED vars
    <2>1. Parser' = Parser
      BY <1>7 DEF vars, Parser
    <2>2. Waits /\ TypeInv' /\ stalls' = stalls
      BY <1>0, <1>7, <2>1 DEF vars, Waits, TypeInv
    <2> QED BY <2>2
  <1> QED BY <1>1, <1>2, <1>3, <1>4, <1>5, <1>6, <1>7 DEF Next

(* The parser is always in a state that tracestream.c means: bytes are held and
   emitted, and within a tool call the answer mode is on. *)
THEOREM TypesHold == Spec => []TypeInv
  <1>1. Init => TypeInv
    BY InitIs
  <1>2. TypeInv /\ [Next]_vars => TypeInv'
    BY TraceAssumption, Steps
  <1> QED BY <1>1, <1>2, PTL DEF Spec

(* Whatever bytes a token is made of, pin_text_sanitize makes them clean UTF-8
   once and for all, and pin_json_strn writes them as one line that
   pin_json_parse_string reads back. *)
THEOREM LinesHold == Spec => []EventsAreLines
  <1>1. TypeInv => EventsAreLines
    <2> SUFFICES ASSUME fed \in Seq(Byte) PROVE EventsAreLines
      BY DEF TypeInv
    <2>1. SanitizedIsClean
      BY SanitizeIsClean DEF SanitizedIsClean
    <2>2. JsonIsALine
      BY JsonIsRead DEF JsonIsALine
    <2> QED BY <2>1, <2>2 DEF EventsAreLines
  <1> QED BY <1>1, TypesHold, PTL

(* drain in tracestream.c loses no byte and makes none up: what was emitted and
   what is held are what was fed, in order, but for one end marker, also if a
   pause flushes in the middle of one. *)
THEOREM NothingIsLost == Spec => []NoByteLost
  <1> DEFINE Inv == TypeInv /\ Keeps(fed, Parser)
  <1>1. Init => Inv
    <2> SUFFICES ASSUME Init PROVE Inv
      OBVIOUS
    <2> QED BY InitIs, FreshIs
  <1>2. Inv /\ [Next]_vars => Inv'
    <2> SUFFICES ASSUME TypeInv, Keeps(fed, Parser), [Next]_vars
                 PROVE  TypeInv' /\ Keeps(fed', Parser')
      OBVIOUS
    <2>0. TraceAssumption /\ fed \in Seq(Byte) /\ Parser \in Parsers
      BY TraceAssumption DEF TypeInv
    <2>1. TypeInv'
      BY <2>0, Steps
    <2>2. CASE Begins
      BY <2>1, <2>2, FreshIs DEF Begins
    <2>3. CASE Waits
      BY <2>1, <2>3 DEF Waits
    <2>4. ASSUME NEW t \in Seq(Byte), Takes(t)
          PROVE  TypeInv' /\ Keeps(fed', Parser')
      <3>1. Given(Parser, t) \in Parsers /\ Keeps(fed \o t, Given(Parser, t))
        BY <2>0, FeedKept DEF Given
      <3>2. Keeps(fed \o t, Drain(Given(Parser, t), FALSE))
        BY <2>0, <3>1, DrainKept
      <3> QED BY <2>1, <2>4, <3>2 DEF Takes
    <2>5. CASE Drains
      <3>1. Keeps(fed, Drain(Parser, FALSE))
        BY <2>0, DrainKept
      <3> QED BY <2>1, <2>5, <3>1 DEF Drains
    <2>6. CASE Flushes
      <3>1. Keeps(fed, Drain(Parser, TRUE))
        BY <2>0, DrainKept
      <3> QED BY <2>1, <2>6, <3>1 DEF Flushes
    <2> QED BY <2>0, <2>2, <2>3, <2>4, <2>5, <2>6, Steps
  <1>3. Inv => NoByteLost
    <2> SUFFICES ASSUME fed \in Seq(Byte), Keeps(fed, Parser) PROVE NoByteLost
      BY DEF TypeInv
    <2>1. Kept(Parser) = Bytes(out) \o acc
      BY DEF Kept, Parser
    <2>2. CASE Kept(Parser) = fed
      BY <2>1, <2>2 DEF NoByteLost
    <2>3. CASE Lacks(Kept(Parser), fed)
      <3>1. PICK i \in 1 .. Len(fed) :
              IsAt(fed, ThinkEnd, i)
              /\ Kept(Parser) = SubSeq(fed, 1, i - 1) \o From(fed, i + Len(ThinkEnd))
        BY <2>3, TraceAssumption, LacksIs
      <3> QED BY <2>1, <3>1 DEF NoByteLost
    <2> QED BY <2>2, <2>3 DEF Keeps
  <1> QED BY <1>1, <1>2, <1>3, PTL DEF Spec

(* After a flush of the trace reader nothing is held back in the accumulator:
   the loop of drain ran to its end. *)
THEOREM FlushesAll == Spec => [][Flush => acc' = <<>>]_vars
  <1>1. TypeInv /\ [Next]_vars => [Flush => acc' = <<>>]_vars
    <2> SUFFICES ASSUME TypeInv, Flush PROVE acc' = <<>>
      OBVIOUS
    <2>1. Parser \in Parsers
      BY DEF TypeInv
    <2>2. Drain(Parser, TRUE).acc = <<>>
      BY <2>1, TraceAssumption, FlushEmpties
    <2> QED BY <2>2 DEF Flush, Becomes
  <1> QED BY <1>1, TypesHold, PTL DEF Spec

-----------------------------------------------------------------------------
(* A turn is cut at one kind of marker after the other.                    *)

(* Up to the marker m, and b bytes of it, the bytes are of a kind; what R  *)
(* says follows c bytes into the marker.                                   *)
Cuts(s, m, b, c, kind, R) ==
  IF Find(s, m) = 0 THEN Tagged(kind, s)
  ELSE Tagged(kind, SubSeq(s, 1, Find(s, m) - 1 + b)) \o R[From(s, Find(s, m) + c)]

Marks(m, b, c, kind, R) ==
  /\ m \in {ThinkEnd, DsmlOpen, DsmlClose} /\ kind \in Kinds
  /\ b \in 0 .. Len(m) /\ c \in b .. Len(m)
  /\ R \in [Seq(Byte) -> Seq(Event)]

Parts(w, u, v) == w = u \o v

LEMMA EventConcat ==
  \A s, t \in Seq(Event) : s \o t \in Seq(Event)
  <1> SUFFICES ASSUME NEW s \in Seq(Event), NEW t \in Seq(Event) PROVE s \o t \in Seq(Event)
    OBVIOUS
  <1> QED BY ConcatProperties

LEMMA AssociateEvents ==
  \A s1, s2, s3 \in Seq(Event) : Associate(s1, s2, s3)
  <1> SUFFICES ASSUME NEW s1 \in Seq(Event), NEW s2 \in Seq(Event), NEW s3 \in Seq(Event)
               PROVE  (s1 \o s2) \o s3 = s1 \o (s2 \o s3)
    BY DEF Associate
  <1> QED BY ConcatAssociative

LEMMA UpToAfter ==
  ASSUME NEW S, NEW u \in Seq(S), NEW t \in Seq(S), NEW k \in 0 .. Len(t)
  PROVE  /\ Len(u) + k \in 0 .. Len(u \o t)
         /\ SubSeq(u \o t, 1, Len(u) + k) = u \o SubSeq(t, 1, k)
  <1> DEFINE n == Len(u)
             v == SubSeq(t, 1, k)
             w == SubSeq(u \o t, 1, n + k)
             s == u \o t
  <1>1. n \in Nat /\ Len(t) \in Nat
    BY LenProperties
  <1>2. /\ s \in Seq(S) /\ Len(s) = n + Len(t)
        /\ \A i \in 1 .. n + Len(t) : s[i] = IF i <= n THEN u[i] ELSE t[i - n]
    BY ConcatProperties
  <1>3. v \in Seq(S) /\ Len(v) = k /\ \A i \in 1 .. k : v[i] = t[i]
    BY UpToIs
  <1> HIDE DEF s, v
  <1>4. /\ u \o v \in Seq(S) /\ Len(u \o v) = n + Len(v)
        /\ \A i \in 1 .. n + Len(v) : (u \o v)[i] = IF i <= n THEN u[i] ELSE v[i - n]
    <2>1. u \in Seq(S) /\ v \in Seq(S)
      BY <1>3
    <2> QED BY <2>1, ConcatProperties
  <1> HIDE DEF n
  <1>5. n + k \in 0 .. Len(s)
    BY <1>1, <1>2
  <1>6. w \in Seq(S) /\ Len(w) = n + k /\ \A i \in 1 .. n + k : w[i] = s[i]
    BY <1>2, <1>5, UpToIs DEF s
  <1> HIDE DEF w
  <1>7. ASSUME NEW i \in 1 .. n + k PROVE w[i] = (u \o v)[i]
    <2>1. /\ i \in 1 .. n + Len(t) /\ i \in 1 .. n + Len(v)
          /\ (~(i <= n) => i - n \in 1 .. k)
      BY <1>1, <1>3
    <2>2. w[i] = IF i <= n THEN u[i] ELSE t[i - n]
      BY <1>2, <1>6, <2>1
    <2> QED BY <1>3, <1>4, <2>1, <2>2
  <1>8. w = u \o v
    BY <1>3, <1>4, <1>6, <1>7, SeqEqual
  <1> QED BY <1>5, <1>8 DEF w, v, s, n

Shifted(u, t, k, i) ==
  /\ SubSeq(u \o t, 1, Len(u) + k) = u \o SubSeq(t, 1, k)
  /\ From(u \o t, Len(u) + i) = From(t, i)

LEMMA ShiftedIs ==
  ASSUME NEW u \in Seq(Byte), NEW t \in Seq(Byte), NEW k \in 0 .. Len(t),
         NEW i \in 1 .. Len(t) + 1
  PROVE  Shifted(u, t, k, i)
  <1>1. SubSeq(u \o t, 1, Len(u) + k) = u \o SubSeq(t, 1, k)
    BY UpToAfter
  <1>2. From(u \o t, Len(u) + i) = From(t, i)
    BY FromConcat
  <1> QED BY <1>1, <1>2 DEF Shifted

(* Where the cut is. *)
LEMMA CutIs ==
  ASSUME TraceAssumption, NEW m, NEW b, NEW c, NEW kind, NEW R, Marks(m, b, c, kind, R),
         NEW s \in Seq(Byte), Find(s, m) # 0
  PROVE  /\ Find(s, m) - 1 + b \in 0 .. Len(s) /\ Find(s, m) + c \in 1 .. Len(s) + 1
         /\ Find(s, m) \in Nat /\ Find(s, m) >= 1 /\ b \in Nat /\ c \in Nat /\ Len(s) \in Nat
         /\ m \in Seq(Byte) /\ Len(m) \in Nat /\ Len(m) >= 1 /\ Len(m) <= Reserve
         /\ c <= Len(m) /\ Find(s, m) + Len(m) <= Len(s) + 1
  <1>1. m \in {ThinkEnd, DsmlOpen, DsmlClose} /\ b \in 0 .. Len(m) /\ c \in b .. Len(m)
    BY DEF Marks
  <1>2. m \in Seq(Byte) /\ Len(m) \in Nat /\ Len(m) >= 1 /\ Len(m) <= Reserve
    BY <1>1, MarkerIs
  <1>3. /\ Find(s, m) \in Nat /\ Find(s, m) >= 1
        /\ Find(s, m) + Len(m) <= Len(s) + 1 /\ Len(s) \in Nat
    BY <1>1, FindEnd
  <1>4. b \in Nat /\ c \in Nat /\ b <= c /\ c <= Len(m)
    BY <1>1, <1>2
  <1>5. Find(s, m) - 1 + b \in 0 .. Len(s) /\ Find(s, m) + c \in 1 .. Len(s) + 1
    <2>1. PICK f \in Nat : f = Find(s, m)
      BY <1>3
    <2> QED BY <1>2, <1>3, <1>4, <2>1, SMTT(30)
  <1> QED BY <1>2, <1>3, <1>4, <1>5

LEMMA CutsType ==
  ASSUME TraceAssumption, NEW m, NEW b, NEW c, NEW kind, NEW R, Marks(m, b, c, kind, R),
         NEW s \in Seq(Byte)
  PROVE  Cuts(s, m, b, c, kind, R) \in Seq(Event)
  <1>0. kind \in Kinds /\ R \in [Seq(Byte) -> Seq(Event)]
    BY DEF Marks
  <1>1. CASE Find(s, m) = 0
    BY <1>0, <1>1, TaggedIs DEF Cuts
  <1>2. CASE Find(s, m) # 0
    <2> DEFINE n == Find(s, m) - 1 + b
               next == Find(s, m) + c
    <2>1. n \in 0 .. Len(s) /\ next \in 1 .. Len(s) + 1
      BY <1>2, CutIs
    <2>2. Cuts(s, m, b, c, kind, R) = Tagged(kind, SubSeq(s, 1, n)) \o R[From(s, next)]
      BY <1>2 DEF Cuts
    <2> HIDE DEF n, next
    <2>3. SubSeq(s, 1, n) \in Seq(Byte) /\ From(s, next) \in Seq(Byte)
      BY <2>1, UpToIs, FromIs
    <2>4. Tagged(kind, SubSeq(s, 1, n)) \in Seq(Event) /\ R[From(s, next)] \in Seq(Event)
      BY <1>0, <2>3, TaggedIs
    <2> QED BY <2>2, <2>4, EventConcat
  <1> QED BY <1>1, <1>2

(* A marker that is there cuts the same way whatever follows. *)
LEMMA CutsFound ==
  ASSUME TraceAssumption, NEW m, NEW b, NEW c, NEW kind, NEW R, Marks(m, b, c, kind, R),
         NEW a \in Seq(Byte), NEW x \in Seq(Byte), Find(a, m) # 0,
         NEW s, s = a \o x, NEW n, n = Find(a, m) - 1 + b, NEW next, next = Find(a, m) + c,
         NEW t, t = From(a, next) \o x
  PROVE  Parts(Cuts(s, m, b, c, kind, R), Tagged(kind, SubSeq(a, 1, n)), R[t])
  <1>1. n \in 0 .. Len(a) /\ next \in 1 .. Len(a) + 1 /\ m \in Seq(Byte)
    BY CutIs
  <1>2. Find(s, m) = Find(a, m)
    <2>1. Find(a \o x, m) = Find(a, m)
      BY <1>1, FindPrefix
    <2> QED BY <2>1
  <1>3. Cuts(s, m, b, c, kind, R) = Tagged(kind, SubSeq(s, 1, n)) \o R[From(s, next)]
    BY <1>2 DEF Cuts
  <1>4. SubSeq(s, 1, n) = SubSeq(a, 1, n)
    <2>1. SubSeq(a \o x, 1, n) = SubSeq(a, 1, n)
      BY <1>1, UpToConcat
    <2> QED BY <2>1
  <1>5. From(s, next) = t
    <2>1. From(a \o x, next) = From(a, next) \o x
      BY <1>1, FromOfConcat
    <2> QED BY <2>1
  <1> QED BY <1>3, <1>4, <1>5 DEF Parts

(* Bytes that are before any marker come first. *)
LEMMA CutsShift ==
  ASSUME TraceAssumption, NEW m, NEW b, NEW c, NEW kind, NEW R, Marks(m, b, c, kind, R),
         NEW a \in Seq(Byte), NEW x \in Seq(Byte), Find(a, m) = 0,
         NEW n \in 0 .. Len(a), n = 0 \/ n + Reserve <= Len(a),
         NEW s, s = a \o x, NEW t, t = From(a, n + 1) \o x
  PROVE  Parts(Cuts(s, m, b, c, kind, R), Tagged(kind, SubSeq(a, 1, n)), Cuts(t, m, b, c, kind, R))
  <1> DEFINE u == SubSeq(a, 1, n)
  <1>0. /\ m \in {ThinkEnd, DsmlOpen, DsmlClose} /\ kind \in Kinds
        /\ R \in [Seq(Byte) -> Seq(Event)]
    BY DEF Marks
  <1>1. m \in Seq(Byte) /\ Len(m) \in Nat /\ Len(m) <= Reserve /\ Reserve \in Nat
    BY <1>0, MarkerIs
  <1>2. Len(a) \in Nat /\ n \in Nat /\ n + 1 \in 1 .. Len(a) + 1 /\ (n = 0 \/ n + Len(m) <= Len(a))
    BY <1>1, LenProperties, SMTT(30)
  <1>3. n \in 0 .. Len(s) /\ SubSeq(s, 1, n) = u
    <2>1. n \in 0 .. Len(a \o x) /\ SubSeq(a \o x, 1, n) = SubSeq(a, 1, n)
      BY UpToConcat
    <2> QED BY <2>1
  <1>4. n + 1 \in 1 .. Len(s) + 1 /\ From(s, n + 1) = t
    <2>1. n + 1 \in 1 .. Len(a \o x) + 1 /\ From(a \o x, n + 1) = From(a, n + 1) \o x
      BY <1>2, FromOfConcat
    <2> QED BY <2>1
  <1>5. s \in Seq(Byte)
    BY ByteConcat
  <1>6. t \in Seq(Byte)
    BY <1>4, <1>5, FromIs
  <1>7. u \in Seq(Byte) /\ Len(u) = n
    BY UpToIs
  <1>8. s = u \o t
    <2>1. SubSeq(s, 1, n) \o From(s, n + 1) = s
      BY <1>3, <1>5, CutAt
    <2> QED BY <1>3, <1>4, <2>1
  <1>9. (Find(t, m) = 0 <=> Find(s, m) = 0) /\ (Find(s, m) # 0 => Find(s, m) = n + Find(t, m))
    <2>1. /\ Find(From(a \o x, n + 1), m) = 0 <=> Find(a \o x, m) = 0
          /\ Find(a \o x, m) # 0 => Find(a \o x, m) = n + Find(From(a \o x, n + 1), m)
      BY <1>1, <1>2, FindShift
    <2> QED BY <1>4, <2>1
  <1> HIDE DEF u
  <1>10. CASE Find(s, m) = 0
    <2>1. Cuts(s, m, b, c, kind, R) = Tagged(kind, s) /\ Cuts(t, m, b, c, kind, R) = Tagged(kind, t)
      BY <1>9, <1>10 DEF Cuts
    <2>2. Tagged(kind, u \o t) = Tagged(kind, u) \o Tagged(kind, t)
      BY <1>0, <1>6, <1>7, TaggedConcat, ZenonT(30)
    <2> QED BY <1>8, <2>1, <2>2 DEF Parts, u
  <1>11. CASE Find(s, m) # 0
    <2> DEFINE k == Find(t, m) - 1 + b
               next == Find(t, m) + c
               v == SubSeq(t, 1, k)
    <2>1. /\ k \in 0 .. Len(t) /\ next \in 1 .. Len(t) + 1 /\ Find(t, m) \in Nat /\ b \in Nat /\ c \in Nat
      BY <1>6, <1>9, <1>11, CutIs
    <2>2. Find(s, m) - 1 + b = n + k /\ Find(s, m) + c = n + next
      <3>1. PICK f \in Nat : f = Find(t, m) /\ Find(s, m) = n + f /\ k = f - 1 + b /\ next = f + c
        BY <1>9, <1>11, <2>1
      <3>2. \A n1, f1, b1, c1 \in Nat :
              (n1 + f1) - 1 + b1 = n1 + (f1 - 1 + b1) /\ (n1 + f1) + c1 = n1 + (f1 + c1)
        BY SMTT(30)
      <3>3. n \in Nat /\ b \in Nat /\ c \in Nat
        BY <1>2, <2>1
      <3>4. (n + f) - 1 + b = n + (f - 1 + b) /\ (n + f) + c = n + (f + c)
        BY <3>2, <3>3
      <3> HIDE DEF k, next
      <3>5. /\ Find(s, m) - 1 + b = (n + f) - 1 + b /\ Find(s, m) + c = (n + f) + c
            /\ n + (f - 1 + b) = n + k /\ n + (f + c) = n + next
        BY <3>1
      <3> QED BY <3>4, <3>5
    <2>3. Cuts(s, m, b, c, kind, R) = Tagged(kind, SubSeq(s, 1, n + k)) \o R[From(s, n + next)]
      BY <1>11, <2>2 DEF Cuts
    <2>4. Cuts(t, m, b, c, kind, R) = Tagged(kind, v) \o R[From(t, next)]
      BY <1>9, <1>11 DEF Cuts
    <2> HIDE DEF k, next
    <2>6. v \in Seq(Byte)
      BY <1>6, <2>1, UpToIs
    <2>7. SubSeq(s, 1, n + k) = u \o v
      <3>1. Shifted(u, t, k, next)
        BY <1>6, <1>7, <2>1, ShiftedIs
      <3> QED BY <1>7, <1>8, <3>1 DEF Shifted
    <2>8. From(s, n + next) = From(t, next)
      <3>1. Shifted(u, t, k, next)
        BY <1>6, <1>7, <2>1, ShiftedIs
      <3> QED BY <1>7, <1>8, <3>1 DEF Shifted
    <2> HIDE DEF v
    <2>9. Tagged(kind, u \o v) = Tagged(kind, u) \o Tagged(kind, v)
      BY <1>0, <1>7, <2>6, TaggedConcat
    <2>10. Associate(Tagged(kind, u), Tagged(kind, v), R[From(t, next)])
      <3>1. Tagged(kind, u) \in Seq(Event) /\ Tagged(kind, v) \in Seq(Event)
        BY <1>0, <1>7, <2>6, TaggedIs
      <3>2. From(t, next) \in Seq(Byte)
        BY <1>6, <2>1, FromIs
      <3>3. R[From(t, next)] \in Seq(Event)
        BY <1>0, <3>2
      <3> QED BY <3>1, <3>3, AssociateEvents
    <2> QED BY <2>3, <2>4, <2>7, <2>8, <2>9, <2>10 DEF Associate, Parts, u
  <1> QED BY <1>10, <1>11

(* A tool call, through its closing tag, and what R says of the rest. *)
ToolAt(R) == [s \in Seq(Byte) |-> Cuts(s, DsmlClose, Len(DsmlClose), Len(DsmlClose), "tool", R)]

AnswerAt(s, R) ==
  LET open == Find(s, DsmlOpen)
      tool == From(s, open)
      close == Find(tool, DsmlClose)
      end == close + Len(DsmlClose)
  IN  IF open = 0 THEN Tagged("answer", s)
      ELSE Tagged("answer", SubSeq(s, 1, open - 1)) \o
             (IF close = 0 THEN Tagged("tool", tool)
              ELSE Tagged("tool", SubSeq(tool, 1, end - 1)) \o R[From(tool, end)])

LEMMA AnswerOfIsAt == AnswerOf = CHOOSE R : R = [s \in Seq(Byte) |-> AnswerAt(s, R)]
  BY DEF AnswerOf, AnswerAt

LEMMA MarksAre ==
  ASSUME TraceAssumption, NEW R, R \in [Seq(Byte) -> Seq(Event)]
  PROVE  /\ Marks(ThinkEnd, 0, Len(ThinkEnd), "thinking", R)
         /\ Marks(DsmlOpen, 0, 0, "answer", R)
         /\ Marks(DsmlClose, Len(DsmlClose), Len(DsmlClose), "tool", R)
  <1>1. Len(ThinkEnd) \in Nat /\ Len(DsmlOpen) \in Nat /\ Len(DsmlClose) \in Nat
    BY MarkerIs
  <1>2. "thinking" \in Kinds /\ "answer" \in Kinds /\ "tool" \in Kinds
    BY DEF Kinds
  <1>3. /\ 0 \in 0 .. Len(ThinkEnd) /\ Len(ThinkEnd) \in 0 .. Len(ThinkEnd)
        /\ 0 \in 0 .. Len(DsmlOpen) /\ 0 \in 0 .. Len(DsmlOpen)
        /\ Len(DsmlClose) \in 0 .. Len(DsmlClose) /\ Len(DsmlClose) \in Len(DsmlClose) .. Len(DsmlClose)
    BY <1>1
  <1> QED BY <1>2, <1>3 DEF Marks

LEMMA ToolAtIs ==
  ASSUME TraceAssumption, NEW R, R \in [Seq(Byte) -> Seq(Event)]
  PROVE  ToolAt(R) \in [Seq(Byte) -> Seq(Event)]
  <1>1. \A s \in Seq(Byte) :
          Cuts(s, DsmlClose, Len(DsmlClose), Len(DsmlClose), "tool", R) \in Seq(Event)
    BY MarksAre, CutsType
  <1> QED BY <1>1 DEF ToolAt

LEMMA AnswerAtIs ==
  ASSUME TraceAssumption, NEW R, NEW s \in Seq(Byte)
  PROVE  AnswerAt(s, R) = Cuts(s, DsmlOpen, 0, 0, "answer", ToolAt(R))
  <1> DEFINE open == Find(s, DsmlOpen)
             tool == From(s, open)
             close == Find(tool, DsmlClose)
             L == Len(DsmlClose)
             end == close + L
             before == SubSeq(s, 1, open - 1)
  <1>1. CASE open = 0
    BY <1>1 DEF AnswerAt, Cuts
  <1>2. CASE open # 0
    <2>1. open \in 1 .. Len(s) + 1 /\ open \in Nat
      <3>1. /\ open \in Nat /\ open >= 1 /\ open + Len(DsmlOpen) <= Len(s) + 1
            /\ Len(DsmlOpen) \in Nat /\ Len(s) \in Nat
        BY <1>2, FindEnd
      <3> HIDE DEF open
      <3> QED BY <3>1
    <2>2. tool \in Seq(Byte)
      <3> HIDE DEF open
      <3> QED BY <2>1, FromIs
    <2>3. Cuts(s, DsmlOpen, 0, 0, "answer", ToolAt(R)) = Tagged("answer", before) \o ToolAt(R)[tool]
      <3>1. open - 1 + 0 = open - 1 /\ open + 0 = open
        BY <2>1
      <3> QED BY <1>2, <3>1 DEF Cuts
    <2>4. ToolAt(R)[tool] = Cuts(tool, DsmlClose, L, L, "tool", R)
      BY <2>2 DEF ToolAt
    <2>5. Cuts(tool, DsmlClose, L, L, "tool", R)
            = IF close = 0 THEN Tagged("tool", tool)
              ELSE Tagged("tool", SubSeq(tool, 1, end - 1)) \o R[From(tool, end)]
      <3>1. close \in Nat /\ L \in Nat
        <4> HIDE DEF tool
        <4>1. close \in 0 .. Len(tool) /\ Len(tool) \in Nat
          BY <2>2, FindIs, LenProperties
        <4> QED BY <4>1, MarkerIs
      <3>2. close - 1 + L = end - 1
        <4> HIDE DEF L, close
        <4> QED BY <3>1
      <3> QED BY <3>2 DEF Cuts
    <2> QED BY <1>2, <2>3, <2>4, <2>5 DEF AnswerAt
  <1> QED BY <1>1, <1>2

LEMMA AnswerType ==
  ASSUME TraceAssumption, NEW R, R \in [Seq(Byte) -> Seq(Event)], NEW s \in Seq(Byte)
  PROVE  AnswerAt(s, R) \in Seq(Event)
  <1>1. AnswerAt(s, R) = Cuts(s, DsmlOpen, 0, 0, "answer", ToolAt(R))
    BY AnswerAtIs
  <1>2. ToolAt(R) \in [Seq(Byte) -> Seq(Event)]
    BY ToolAtIs
  <1>3. Cuts(s, DsmlOpen, 0, 0, "answer", ToolAt(R)) \in Seq(Event)
    BY <1>2, MarksAre, CutsType
  <1> QED BY <1>1, <1>3

(* Only what is said of shorter texts is used. *)
LEMMA AnswerUses ==
  ASSUME TraceAssumption, NEW R, NEW Q, NEW s \in Seq(Byte),
         \A t \in Seq(Byte) : Len(t) < Len(s) => R[t] = Q[t]
  PROVE  AnswerAt(s, R) = AnswerAt(s, Q)
  <1> DEFINE open == Find(s, DsmlOpen)
             tool == From(s, open)
             close == Find(tool, DsmlClose)
             L == Len(DsmlClose)
             end == close + L
  <1>1. CASE open = 0 \/ close = 0
    BY <1>1 DEF AnswerAt
  <1>2. CASE open # 0 /\ close # 0
    <2>1. open \in 1 .. Len(s) + 1 /\ open \in Nat /\ open >= 1 /\ Len(s) \in Nat
      <3>1. /\ open \in Nat /\ open >= 1 /\ open + Len(DsmlOpen) <= Len(s) + 1
            /\ Len(DsmlOpen) \in Nat /\ Len(s) \in Nat
        BY <1>2, FindEnd
      <3> HIDE DEF open
      <3> QED BY <3>1
    <2>2. tool \in Seq(Byte) /\ Len(tool) = Len(s) + 1 - open
      <3> HIDE DEF open
      <3> QED BY <2>1, FromIs
    <2>3. /\ close \in Nat /\ close >= 1 /\ close + L <= Len(tool) + 1 /\ L \in Nat /\ L >= 1
          /\ Len(tool) \in Nat
      <3> HIDE DEF tool
      <3> QED BY <1>2, <2>2, FindEnd
    <2> HIDE DEF close, L
    <2>4. end \in 1 .. Len(tool) + 1 /\ end >= 2 /\ end \in Nat
      <3> HIDE DEF tool
      <3> QED BY <2>3
    <2> HIDE DEF end
    <2>5. From(tool, end) \in Seq(Byte) /\ Len(From(tool, end)) = Len(tool) + 1 - end
      <3> HIDE DEF tool
      <3> QED BY <2>2, <2>4, FromIs
    <2> HIDE DEF tool, open
    <2>6. Len(tool) + 1 - end < Len(s)
      BY <2>1, <2>2, <2>3, <2>4
    <2>7. R[From(tool, end)] = Q[From(tool, end)]
      BY <2>5, <2>6
    <2> QED BY <2>7 DEF AnswerAt, tool, open, end, close, L
  <1> QED BY <1>1, <1>2

LEMMA AnswerOfIs ==
  ASSUME TraceAssumption
  PROVE  /\ AnswerOf \in [Seq(Byte) -> Seq(Event)]
         /\ \A s \in Seq(Byte) : AnswerOf[s] = Cuts(s, DsmlOpen, 0, 0, "answer", ToolAt(AnswerOf))
  <1> DEFINE D == Seq(Byte)
             T == Seq(Event)
             rank == [s \in D |-> Len(s)]
             F == [s \in D |-> [f \in [D -> T] |-> AnswerAt(s, f)]]
  <1>1. T # {}
    BY EmptySeq
  <1>2. rank \in [D -> Nat]
    BY LenProperties
  <1>3. ASSUME NEW x \in D, NEW f \in [D -> T], NEW g \in [D -> T],
               \A y \in D : rank[y] < rank[x] => f[y] = g[y]
        PROVE  AnswerAt(x, f) = AnswerAt(x, g) /\ AnswerAt(x, f) \in T
    <2>1. \A y \in Seq(Byte) : Len(y) < Len(x) => f[y] = g[y]
      BY <1>3
    <2> QED BY <2>1, AnswerUses, AnswerType
  <1>4. F \in [D -> [[D -> T] -> T]]
    <2>1. \A x \in D : \A f \in [D -> T] : AnswerAt(x, f) \in T
      BY <1>3
    <2> QED BY <2>1
  <1>5. \A x \in D : \A f \in [D -> T] : F[x][f] = AnswerAt(x, f)
    OBVIOUS
  <1>6. \E f \in [D -> T] : \A x \in D : f[x] = F[x][f]
    <2>1. \A x \in D : \A f, g \in [D -> T] :
            (\A y \in D : rank[y] < rank[x] => f[y] = g[y]) => F[x][f] = F[x][g]
      BY <1>3, <1>5
    <2> HIDE DEF D, T, rank, F
    <2>2. Recursive(D, T, rank, F)
      BY <1>1, <1>2, <1>4, <2>1 DEF Recursive
    <2> QED BY <2>2, Recursion DEF HasFixpoint
  <1>7. PICK f \in [D -> T] : \A x \in D : f[x] = AnswerAt(x, f)
    BY <1>5, <1>6
  <1>8. f = [s \in D |-> AnswerAt(s, f)]
    BY <1>7
  <1>9. AnswerOf = [s \in D |-> AnswerAt(s, AnswerOf)]
    BY <1>8, AnswerOfIsAt
  <1>10. \A s \in D : AnswerOf[s] = AnswerAt(s, AnswerOf)
    BY <1>9
  <1> DEFINE N == {n \in Nat : \A s \in D : Len(s) = n => AnswerOf[s] = f[s]}
  <1>11. \A s \in D : AnswerOf[s] = f[s]
    <2>1. ASSUME NEW n \in Nat, \A k \in Nat : k < n => k \in N
          PROVE  n \in N
      <3> SUFFICES ASSUME NEW s \in D, Len(s) = n PROVE AnswerOf[s] = f[s]
        OBVIOUS
      <3>1. ASSUME NEW t \in Seq(Byte), Len(t) < Len(s) PROVE AnswerOf[t] = f[t]
        <4>1. Len(t) \in Nat
          BY LenProperties
        <4> QED BY <2>1, <3>1, <4>1
      <3>2. AnswerAt(s, AnswerOf) = AnswerAt(s, f)
        BY <3>1, AnswerUses
      <3> QED BY <1>7, <1>10, <3>2
    <2>2. N \in SUBSET Nat
      OBVIOUS
    <2>3. N = Nat
      <3> HIDE DEF N
      <3> QED BY <2>1, <2>2, StrongInduct
    <2> SUFFICES ASSUME NEW s \in D PROVE AnswerOf[s] = f[s]
      OBVIOUS
    <2>4. Len(s) \in N
      <3>1. Len(s) \in Nat
        BY LenProperties
      <3> HIDE DEF N
      <3> QED BY <2>3, <3>1
    <2> QED BY <2>4
  <1>12. AnswerOf = f
    BY <1>8, <1>9, <1>11
  <1> QED BY <1>10, <1>12, AnswerAtIs

ToolOf == ToolAt(AnswerOf)

(* What s comes to where the parser p goes on with it. *)
Comes(p, s) ==
  IF ~p.answering THEN TurnOf(s) ELSE IF p.inDsml THEN ToolOf[s] ELSE AnswerOf[s]

(* What a turn comes to if x follows what p holds. *)
Whole(p, x) == p.out \o Comes(p, p.acc \o x)

LEMMA OfAre ==
  ASSUME TraceAssumption
  PROVE  /\ AnswerOf \in [Seq(Byte) -> Seq(Event)] /\ ToolOf \in [Seq(Byte) -> Seq(Event)]
         /\ Marks(ThinkEnd, 0, Len(ThinkEnd), "thinking", AnswerOf)
         /\ Marks(DsmlOpen, 0, 0, "answer", ToolOf)
         /\ Marks(DsmlClose, Len(DsmlClose), Len(DsmlClose), "tool", AnswerOf)
  <1>1. AnswerOf \in [Seq(Byte) -> Seq(Event)]
    BY AnswerOfIs
  <1>2. ToolOf \in [Seq(Byte) -> Seq(Event)]
    BY <1>1, ToolAtIs DEF ToolOf
  <1> QED BY <1>1, <1>2, MarksAre

LEMMA OfForms ==
  ASSUME TraceAssumption, NEW s \in Seq(Byte)
  PROVE  /\ TurnOf(s) = Cuts(s, ThinkEnd, 0, Len(ThinkEnd), "thinking", AnswerOf)
         /\ AnswerOf[s] = Cuts(s, DsmlOpen, 0, 0, "answer", ToolOf)
         /\ ToolOf[s] = Cuts(s, DsmlClose, Len(DsmlClose), Len(DsmlClose), "tool", AnswerOf)
  <1>1. AnswerOf[s] = Cuts(s, DsmlOpen, 0, 0, "answer", ToolOf)
    BY AnswerOfIs DEF ToolOf
  <1>2. ToolOf[s] = Cuts(s, DsmlClose, Len(DsmlClose), Len(DsmlClose), "tool", AnswerOf)
    BY DEF ToolOf, ToolAt
  <1>3. TurnOf(s) = Cuts(s, ThinkEnd, 0, Len(ThinkEnd), "thinking", AnswerOf)
    <2> DEFINE at == Find(s, ThinkEnd)
    <2>1. at - 1 + 0 = at - 1
      <3>1. at \in 0 .. Len(s) /\ Len(s) \in Nat
        BY FindIs, LenProperties
      <3> HIDE DEF at
      <3> QED BY <3>1
    <2> QED BY <2>1 DEF TurnOf, Cuts
  <1> QED BY <1>1, <1>2, <1>3

LEMMA ComesType ==
  ASSUME TraceAssumption, NEW p, NEW s \in Seq(Byte)
  PROVE  Comes(p, s) \in Seq(Event)
  <1>1. /\ Cuts(s, ThinkEnd, 0, Len(ThinkEnd), "thinking", AnswerOf) \in Seq(Event)
        /\ Cuts(s, DsmlOpen, 0, 0, "answer", ToolOf) \in Seq(Event)
        /\ Cuts(s, DsmlClose, Len(DsmlClose), Len(DsmlClose), "tool", AnswerOf) \in Seq(Event)
    BY OfAre, CutsType
  <1> QED BY <1>1, OfForms DEF Comes

LEMMA FindEmpty ==
  ASSUME NEW m
  PROVE  Find(<<>>, m) = 0
  <1>1. <<>> \in Seq(Byte) /\ Len(<<>>) = 0
    BY EmptySeq
  <1>2. Find(<<>>, m) \in 0 .. Len(<<>>)
    BY <1>1, FindIs
  <1> QED BY <1>1, <1>2

(* Nothing comes of nothing. *)
LEMMA ComesEmpty ==
  ASSUME TraceAssumption, NEW p
  PROVE  Comes(p, <<>>) = <<>>
  <1>1. <<>> \in Seq(Byte)
    BY EmptySeq
  <1>2. /\ Cuts(<<>>, ThinkEnd, 0, Len(ThinkEnd), "thinking", AnswerOf) = <<>>
        /\ Cuts(<<>>, DsmlOpen, 0, 0, "answer", ToolOf) = <<>>
        /\ Cuts(<<>>, DsmlClose, Len(DsmlClose), Len(DsmlClose), "tool", AnswerOf) = <<>>
    BY FindEmpty, TaggedEmpty DEF Cuts
  <1> QED BY <1>1, <1>2, OfForms DEF Comes

(* A move of bytes that come first is no change. *)
LEMMA MoveWhole ==
  ASSUME TraceAssumption, NEW p \in Parsers, NEW q, NEW kind \in Kinds, NEW n, NEW next,
         NEW answers, NEW dsml, Moves(p, q, kind, n, next, answers, dsml),
         NEW x \in Seq(Byte), NEW s, s = p.acc \o x, NEW t, t = From(p.acc, next) \o x,
         Parts(Comes(p, s), Tagged(kind, SubSeq(p.acc, 1, n)), Comes(q, t))
  PROVE  Whole(q, x) = Whole(p, x)
  <1> DEFINE piece == SubSeq(p.acc, 1, n)
             e == Tagged(kind, piece)
  <1>1. /\ p.acc \in Seq(Byte) /\ p.out \in Seq(Event) /\ Len(p.acc) \in Nat
    BY ParserFields
  <1>2. /\ n \in 0 .. Len(p.acc) /\ next \in n + 1 .. Len(p.acc) + 1
        /\ q.out = p.out \o e /\ q.acc = From(p.acc, next)
    BY DEF Moves
  <1>3. piece \in Seq(Byte)
    BY <1>1, <1>2, UpToIs
  <1> HIDE DEF piece
  <1>4. e \in Seq(Event)
    BY <1>3, TaggedIs
  <1>5. From(p.acc, next) \in Seq(Byte)
    <2>1. next \in 1 .. Len(p.acc) + 1
      BY <1>1, <1>2
    <2> QED BY <1>1, <2>1, FromIs
  <1>6. t \in Seq(Byte)
    BY <1>5, ByteConcat
  <1>7. Comes(q, t) \in Seq(Event)
    BY <1>6, ComesType
  <1>8. Associate(p.out, e, Comes(q, t))
    BY <1>1, <1>4, <1>7, AssociateEvents
  <1>9. Comes(p, s) = e \o Comes(q, t)
    BY DEF Parts, piece
  <1>10. Whole(p, x) = p.out \o (e \o Comes(q, t))
    BY <1>9 DEF Whole
  <1>11. Whole(q, x) = (p.out \o e) \o Comes(q, t)
    BY <1>2 DEF Whole
  <1> QED BY <1>8, <1>10, <1>11 DEF Associate

(* p is cut at a marker that is there. *)
Cutting(p, q, s, m, b, c, kind, R) ==
  /\ Marks(m, b, c, kind, R) /\ Find(p.acc, m) # 0 /\ Comes(p, s) = Cuts(s, m, b, c, kind, R)
  /\ \E answers, dsml :
       Moves(p, q, kind, Find(p.acc, m) - 1 + b, Find(p.acc, m) + c, answers, dsml)
  /\ \A t \in Seq(Byte) : Comes(q, t) = R[t]

(* No marker is there: what cannot be the start of one is moved. *)
Passing(p, q, flush, m, b, c, kind, R) ==
  /\ Marks(m, b, c, kind, R) /\ Find(p.acc, m) = 0
  /\ \A t \in Seq(Byte) : Comes(p, t) = Cuts(t, m, b, c, kind, R) /\ Comes(q, t) = Comes(p, t)
  /\ \E answers, dsml : Moves(p, q, kind, Sent(p, flush), Sent(p, flush) + 1, answers, dsml)

(* Until it is flushed, a round changes nothing of what the turn comes to, *)
(* whatever follows; a flush changes nothing if nothing follows.           *)
LEMMA RoundWhole ==
  ASSUME TraceAssumption, NEW p \in Parsers, NEW flush \in BOOLEAN, NEW x \in Seq(Byte),
         flush => x = <<>>, NEW q, q = Round(p, flush).p
  PROVE  Whole(q, x) = Whole(p, x)
  <1> DEFINE a == p.acc
             s == a \o x
  <1>0. /\ a \in Seq(Byte) /\ Len(a) \in Nat
        /\ "thinking" \in Kinds /\ "answer" \in Kinds /\ "tool" \in Kinds
    BY ParserFields DEF Kinds
  <1>1. Went(p, Round(p, flush), flush)
    BY RoundIs
  <1>2. s \in Seq(Byte)
    BY <1>0, ByteConcat
  <1>3. /\ TurnOf(s) = Cuts(s, ThinkEnd, 0, Len(ThinkEnd), "thinking", AnswerOf)
        /\ AnswerOf[s] = Cuts(s, DsmlOpen, 0, 0, "answer", ToolOf)
        /\ ToolOf[s] = Cuts(s, DsmlClose, Len(DsmlClose), Len(DsmlClose), "tool", AnswerOf)
    BY <1>2, OfForms
  <1>4. CASE Stays(p, q, flush)
    BY <1>4 DEF Stays
  <1>5. ASSUME NEW m, NEW b, NEW c, NEW kind, NEW R, Cutting(p, q, s, m, b, c, kind, R)
        PROVE  Whole(q, x) = Whole(p, x)
    <2>0. PICK n, next, answers, dsml :
            /\ n = Find(a, m) - 1 + b /\ next = Find(a, m) + c
            /\ Moves(p, q, kind, n, next, answers, dsml)
      BY <1>5 DEF Cutting
    <2>m. /\ Marks(m, b, c, kind, R) /\ Find(a, m) # 0 /\ Comes(p, s) = Cuts(s, m, b, c, kind, R)
          /\ \A t \in Seq(Byte) : Comes(q, t) = R[t]
      BY <1>5 DEF Cutting
    <2>k. kind \in Kinds
      BY <2>m DEF Marks
    <2> DEFINE t == From(a, next) \o x
    <2>1. next \in 1 .. Len(a) + 1
      BY <1>0, <2>0, <2>m, <2>k, CutIs
    <2>2. From(a, next) \in Seq(Byte)
      BY <1>0, <2>1, FromIs
    <2>3. t \in Seq(Byte)
      BY <2>2, ByteConcat
    <2>4. Parts(Cuts(s, m, b, c, kind, R), Tagged(kind, SubSeq(a, 1, n)), R[t])
      BY <1>0, <2>0, <2>m, <2>k, CutsFound
    <2>5. Parts(Comes(p, s), Tagged(kind, SubSeq(a, 1, n)), Comes(q, t))
      BY <2>0, <2>m, <2>k, <2>3, <2>4
    <2> QED BY <2>0, <2>m, <2>k, <2>5, MoveWhole
  <1>6. ASSUME NEW m, NEW b, NEW c, NEW kind, NEW R, Passing(p, q, flush, m, b, c, kind, R)
        PROVE  Whole(q, x) = Whole(p, x)
    <2>0. PICK n, next, answers, dsml :
            n = Sent(p, flush) /\ next = n + 1 /\ Moves(p, q, kind, n, next, answers, dsml)
      BY <1>6 DEF Passing
    <2>m. /\ Marks(m, b, c, kind, R) /\ Find(a, m) = 0
          /\ \A t \in Seq(Byte) : Comes(p, t) = Cuts(t, m, b, c, kind, R)
          /\ \A t \in Seq(Byte) : Comes(q, t) = Comes(p, t)
      BY <1>6 DEF Passing
    <2>k. kind \in Kinds
      BY <2>m DEF Marks
    <2> DEFINE t == From(a, next) \o x
    <2>1. n \in 0 .. Len(a) /\ n \in Nat
      BY <1>0, <2>0, <2>m, <2>k, SentIs
    <2>2. next \in 1 .. Len(a) + 1
      BY <1>0, <2>0, <2>m, <2>k, <2>1
    <2>3. From(a, next) \in Seq(Byte)
      BY <1>0, <2>2, FromIs
    <2>4. t \in Seq(Byte)
      BY <2>3, ByteConcat
    <2>5. Parts(Cuts(s, m, b, c, kind, R), Tagged(kind, SubSeq(a, 1, n)), Cuts(t, m, b, c, kind, R))
      <3>1. CASE ~flush
        <4>1. n = 0 \/ n + Reserve <= Len(a)
          BY <2>0, <2>m, <2>k, <3>1, SentIs
        <4>2. t = From(a, n + 1) \o x
          BY <2>0, <2>m, <2>k
        <4> HIDE DEF a, t, s
        <4> QED BY <1>0, <2>0, <2>m, <2>k, <2>1, <4>1, <4>2, CutsShift DEF s
      <3>2. CASE flush
        <4>1. n = Len(a) /\ x = <<>>
          BY <2>0, <2>m, <2>k, <3>2, SentIs
        <4>2. s = a
          BY <1>0, <4>1, ConcatEmptySeq
        <4>3. From(a, next) = <<>>
          BY <1>0, <2>0, <2>m, <2>k, <4>1, FromFirst
        <4>4. t = <<>>
          <5>1. <<>> \o <<>> = <<>>
            OBVIOUS
          <5> QED BY <4>1, <4>3, <5>1
        <4>5. SubSeq(a, 1, n) = a
          BY <1>0, <4>1, SubSeqFull
        <4>6. Cuts(s, m, b, c, kind, R) = Tagged(kind, a) /\ Cuts(t, m, b, c, kind, R) = <<>>
          BY <2>0, <2>m, <2>k, <4>2, <4>4, FindEmpty, TaggedEmpty DEF Cuts
        <4>7. Tagged(kind, a) \o <<>> = Tagged(kind, a)
          <5>1. Tagged(kind, a) \in Seq(Event)
            BY <1>0, <2>k, TaggedIs
          <5> QED BY <5>1, ConcatEmptySeq
        <4> QED BY <4>5, <4>6, <4>7 DEF Parts
      <3> QED BY <3>1, <3>2
    <2>6. Parts(Comes(p, s), Tagged(kind, SubSeq(a, 1, n)), Comes(q, t))
      BY <1>2, <2>0, <2>m, <2>k, <2>4, <2>5
    <2> QED BY <2>0, <2>m, <2>k, <2>6, MoveWhole
  <1>7. CASE Thinks(p, q, flush)
    <2>1. /\ ~p.answering /\ Find(a, ThinkEnd) = 0
          /\ Moves(p, q, "thinking", Sent(p, flush), Sent(p, flush) + 1, FALSE, FALSE)
      BY <1>7 DEF Thinks
    <2>2. ~q.answering
      BY <2>1 DEF Moves
    <2>3. Passing(p, q, flush, ThinkEnd, 0, Len(ThinkEnd), "thinking", AnswerOf)
      BY <2>1, <2>2, OfAre, OfForms DEF Passing, Comes
    <2> QED BY <1>6, <2>3
  <1>8. CASE StopsThinking(p, q)
    <2> DEFINE at == Find(a, ThinkEnd)
    <2>1. /\ ~p.answering /\ at # 0
          /\ Moves(p, q, "thinking", at - 1, at + Len(ThinkEnd), TRUE, FALSE)
      BY <1>8 DEF StopsThinking
    <2>2. q.answering /\ ~q.inDsml
      BY <2>1 DEF Moves
    <2>3. at - 1 + 0 = at - 1
      <3>1. at \in Nat
        BY <1>0, <2>1, FindEnd
      <3> HIDE DEF at
      <3> QED BY <3>1
    <2>4. Cutting(p, q, s, ThinkEnd, 0, Len(ThinkEnd), "thinking", AnswerOf)
      BY <1>3, <2>1, <2>2, <2>3, OfAre DEF Cutting, Comes
    <2> QED BY <1>5, <2>4
  <1>9. CASE Answers(p, q, flush)
    <2>1. /\ p.answering /\ ~p.inDsml /\ Find(a, DsmlOpen) = 0
          /\ Moves(p, q, "answer", Sent(p, flush), Sent(p, flush) + 1, TRUE, FALSE)
      BY <1>9 DEF Answers
    <2>2. q.answering /\ ~q.inDsml
      BY <2>1 DEF Moves
    <2>3. Passing(p, q, flush, DsmlOpen, 0, 0, "answer", ToolOf)
      BY <2>1, <2>2, OfAre, OfForms DEF Passing, Comes
    <2> QED BY <1>6, <2>3
  <1>10. CASE OpensTool(p, q)
    <2> DEFINE at == Find(a, DsmlOpen)
    <2>1. p.answering /\ ~p.inDsml /\ at # 0 /\ Moves(p, q, "answer", at - 1, at, TRUE, TRUE)
      BY <1>10 DEF OpensTool
    <2>2. q.answering /\ q.inDsml
      BY <2>1 DEF Moves
    <2>3. at - 1 + 0 = at - 1 /\ at + 0 = at
      <3>1. at \in Nat
        BY <1>0, <2>1, FindEnd
      <3> HIDE DEF at
      <3> QED BY <3>1
    <2>4. Cutting(p, q, s, DsmlOpen, 0, 0, "answer", ToolOf)
      BY <1>3, <2>1, <2>2, <2>3, OfAre DEF Cutting, Comes
    <2> QED BY <1>5, <2>4
  <1>11. CASE ClosesTool(p, q)
    <2> DEFINE at == Find(a, DsmlClose)
               L == Len(DsmlClose)
    <2>1. p.answering /\ p.inDsml /\ at # 0 /\ Moves(p, q, "tool", at - 1 + L, at + L, TRUE, FALSE)
      BY <1>11 DEF ClosesTool
    <2>2. q.answering /\ ~q.inDsml
      BY <2>1 DEF Moves
    <2>3. Cutting(p, q, s, DsmlClose, L, L, "tool", AnswerOf)
      BY <1>3, <2>1, <2>2, OfAre DEF Cutting, Comes
    <2> QED BY <1>5, <2>3
  <1>12. ASSUME flush, EndsTool(p, q)
         PROVE  Whole(q, x) = Whole(p, x)
    <2>0. x = <<>>
      BY <1>12
    <2>1. /\ p.answering /\ p.inDsml /\ Find(a, DsmlClose) = 0
          /\ Moves(p, q, "tool", Len(a), Len(a) + 1, TRUE, FALSE)
      BY <1>12 DEF EndsTool
    <2>2. PICK n, next, kind, answers, dsml :
            /\ n = Len(a) /\ next = Len(a) + 1 /\ kind = "tool"
            /\ Moves(p, q, kind, n, next, answers, dsml)
      BY <2>1
    <2> DEFINE t == From(a, next) \o x
    <2>3. s = a
      BY <1>0, <2>0, ConcatEmptySeq
    <2>4. t = <<>>
      <3>1. <<>> \o <<>> = <<>>
        OBVIOUS
      <3>2. From(a, next) = <<>>
        BY <1>0, <2>2, FromFirst
      <3> QED BY <2>0, <3>1, <3>2
    <2>5. Comes(p, s) = Tagged(kind, a)
      BY <1>3, <2>1, <2>2, <2>3 DEF Comes, Cuts
    <2>6. Comes(q, t) = <<>>
      BY <2>4, ComesEmpty
    <2>7. SubSeq(a, 1, n) = a
      BY <1>0, <2>2, SubSeqFull
    <2>8. Parts(Comes(p, s), Tagged(kind, SubSeq(a, 1, n)), Comes(q, t))
      <3>1. Tagged(kind, a) \in Seq(Event)
        BY <1>0, <2>2, TaggedIs
      <3>2. Tagged(kind, a) \o <<>> = Tagged(kind, a)
        BY <3>1, ConcatEmptySeq
      <3> QED BY <2>5, <2>6, <2>7, <3>2 DEF Parts
    <2>9. kind \in Kinds
      BY <1>0, <2>2
    <2> QED BY <2>2, <2>8, <2>9, MoveWhole
  <1> QED BY <1>1, <1>4, <1>7, <1>8, <1>9, <1>10, <1>11, <1>12 DEF Went

LEMMA DrainWhole ==
  ASSUME TraceAssumption, NEW p \in Parsers, NEW flush \in BOOLEAN, NEW x \in Seq(Byte),
         flush => x = <<>>
  PROVE  Whole(Drain(p, flush), x) = Whole(p, x)
  <1> DEFINE P == {q \in Parsers : Whole(q, x) = Whole(p, x)}
  <1>1. \A q \in P : Round(q, flush).p \in P
    <2> SUFFICES ASSUME NEW q \in Parsers, Whole(q, x) = Whole(p, x)
                 PROVE  /\ Round(q, flush).p \in Parsers
                        /\ Whole(Round(q, flush).p, x) = Whole(p, x)
      OBVIOUS
    <2>1. Round(q, flush).p \in Parsers
      BY RoundIs DEF Went
    <2>2. Whole(Round(q, flush).p, x) = Whole(q, x)
      BY RoundWhole
    <2> QED BY <2>1, <2>2
  <1>2. Closed(P, flush)
    BY <1>1 DEF Closed
  <1>3. p \in P
    OBVIOUS
  <1> HIDE DEF P
  <1>4. Drain(p, flush) \in P
    BY <1>2, <1>3, DrainKeeps
  <1> QED BY <1>4 DEF P

(* The turn as it would be if x were all that still came. *)
SplitInv ==
  ~stalls =>
    IF over THEN Whole(Parser, <<>>) = TurnOf(fed)
    ELSE \A x \in Seq(Byte) : Whole(Parser, x) = TurnOf(fed \o x)

LEMMA FreshWhole ==
  ASSUME TraceAssumption, NEW x \in Seq(Byte)
  PROVE  Whole(Fresh, x) = TurnOf(<<>> \o x)
  <1>1. <<>> \o x = x
    BY ConcatEmptySeq
  <1>2. Whole(Fresh, x) = <<>> \o TurnOf(x)
    BY <1>1 DEF Whole, Fresh, Comes
  <1>3. TurnOf(x) \in Seq(Event)
    <2>1. Comes(Fresh, x) \in Seq(Event)
      BY ComesType
    <2> QED BY <2>1 DEF Comes, Fresh
  <1>4. <<>> \o TurnOf(x) = TurnOf(x)
    BY <1>3, ConcatEmptySeq
  <1> QED BY <1>1, <1>2, <1>4

LEMMA GivenWhole ==
  ASSUME NEW p \in Parsers, NEW t \in Seq(Byte), NEW x \in Seq(Byte)
  PROVE  Whole(Given(p, t), x) = Whole(p, t \o x)
  <1>1. p.acc \in Seq(Byte)
    BY ParserFields
  <1>2. Associate(p.acc, t, x)
    BY <1>1, AssociateIs
  <1>3. /\ Given(p, t).acc = p.acc \o t /\ Given(p, t).out = p.out
        /\ Given(p, t).answering = p.answering /\ Given(p, t).inDsml = p.inDsml
    BY GivenIs
  <1>4. Comes(Given(p, t), (p.acc \o t) \o x) = Comes(p, p.acc \o (t \o x))
    BY <1>2, <1>3 DEF Comes, Associate
  <1> QED BY <1>3, <1>4 DEF Whole

(* Unless a pause flushes within a turn, drain gives every byte the kind that it
   has in the turn as a whole, wherever the tokens were cut, and has emitted all
   of the turn when it is over and nothing is held. *)
THEOREM SplitHolds == Spec => []SplitIsRight
  <1> DEFINE Inv == TypeInv /\ SplitInv
  <1>0. <<>> \in Seq(Byte) /\ \A s \in Seq(Byte) : s \o <<>> = s
    BY EmptySeq, ConcatEmptySeq
  <1>1. Init => Inv
    <2> SUFFICES ASSUME Init PROVE Inv
      OBVIOUS
    <2>1. TypeInv /\ over /\ fed = <<>> /\ Parser = Fresh
      BY InitIs
    <2>2. Whole(Fresh, <<>>) = TurnOf(<<>> \o <<>>)
      BY <1>0, TraceAssumption, FreshWhole
    <2> QED BY <1>0, <2>1, <2>2 DEF SplitInv
  <1>2. Inv /\ [Next]_vars => Inv'
    <2> SUFFICES ASSUME TypeInv, SplitInv, [Next]_vars
                 PROVE  TypeInv' /\ SplitInv'
      OBVIOUS
    <2>0. TraceAssumption /\ fed \in Seq(Byte) /\ Parser \in Parsers /\ over \in BOOLEAN
      BY TraceAssumption DEF TypeInv
    <2>1. TypeInv' /\ stalls' = stalls
      BY <2>0, Steps
    <2> SUFFICES ASSUME ~stalls
                 PROVE  IF over' THEN Whole(Parser', <<>>) = TurnOf(fed')
                        ELSE \A x \in Seq(Byte) : Whole(Parser', x) = TurnOf(fed' \o x)
      BY <2>1 DEF SplitInv
    <2>2. /\ over => Whole(Parser, <<>>) = TurnOf(fed)
          /\ ~over => \A x \in Seq(Byte) : Whole(Parser, x) = TurnOf(fed \o x)
      BY DEF SplitInv
    <2>3. CASE Begins
      BY <2>0, <2>3, FreshWhole DEF Begins
    <2>4. CASE Waits
      BY <2>2, <2>4 DEF Waits
    <2>5. ASSUME NEW t \in Seq(Byte), Takes(t)
          PROVE  ~over' /\ \A x \in Seq(Byte) : Whole(Parser', x) = TurnOf(fed' \o x)
      <3> SUFFICES ASSUME NEW x \in Seq(Byte) PROVE Whole(Parser', x) = TurnOf(fed' \o x)
        BY <2>5 DEF Takes
      <3>1. Given(Parser, t) \in Parsers
        BY <2>0, GivenIs
      <3>2. Whole(Parser', x) = Whole(Given(Parser, t), x)
        BY <2>0, <2>5, <3>1, DrainWhole DEF Takes
      <3>3. Whole(Given(Parser, t), x) = Whole(Parser, t \o x)
        BY <2>0, GivenWhole
      <3>4. t \o x \in Seq(Byte)
        BY ByteConcat
      <3>5. Whole(Parser, t \o x) = TurnOf(fed \o (t \o x))
        BY <2>2, <2>5, <3>4 DEF Takes
      <3>6. Associate(fed, t, x)
        BY <2>0, AssociateIs
      <3> QED BY <2>5, <3>2, <3>3, <3>5, <3>6 DEF Takes, Associate
    <2>6. CASE Drains
      <3>1. \A x \in Seq(Byte) : Whole(Parser', x) = TurnOf(fed' \o x)
        <4> SUFFICES ASSUME NEW x \in Seq(Byte) PROVE Whole(Parser', x) = TurnOf(fed' \o x)
          OBVIOUS
        <4>1. Whole(Drain(Parser, FALSE), x) = Whole(Parser, x)
          BY <2>0, DrainWhole
        <4> QED BY <2>2, <2>6, <4>1 DEF Drains
      <3>2. fed' = fed
        BY <2>6 DEF Drains
      <3>3. fed' \o <<>> = fed'
        BY <1>0, <2>0, <3>2
      <3> QED BY <1>0, <3>1, <3>3
    <2>7. CASE Flushes
      <3>1. Whole(Drain(Parser, TRUE), <<>>) = Whole(Parser, <<>>)
        BY <1>0, <2>0, DrainWhole
      <3> QED BY <2>2, <2>7, <3>1 DEF Flushes
    <2> QED BY <2>0, <2>3, <2>4, <2>5, <2>6, <2>7, Steps
  <1>3. Inv => SplitIsRight
    <2> SUFFICES ASSUME TypeInv, SplitInv, ~stalls
                 PROVE  /\ Starts(out, TurnOf(fed))
                        /\ over /\ acc = <<>> => out = TurnOf(fed)
      BY DEF SplitIsRight
    <2>0. fed \in Seq(Byte) /\ Parser \in Parsers /\ Parser.out = out /\ Parser.acc = acc
      BY DEF TypeInv, Parser
    <2>1. Whole(Parser, <<>>) = TurnOf(fed)
      BY <1>0, <2>0 DEF SplitInv
    <2> DEFINE u == Comes(Parser, acc)
    <2>2. out \in Seq(Event) /\ acc \in Seq(Byte)
      BY <2>0, ParserFields
    <2>3. u \in Seq(Event)
      BY <2>2, TraceAssumption, ComesType
    <2>4. TurnOf(fed) = out \o u
      BY <1>0, <2>0, <2>1, <2>2 DEF Whole
    <2>5. acc = <<>> => u = <<>>
      BY TraceAssumption, ComesEmpty
    <2> HIDE DEF u
    <2>6. Starts(out, out \o u)
      <3>1. Len(out) \in Nat /\ Len(u) \in Nat /\ Len(out \o u) = Len(out) + Len(u)
        BY <2>2, <2>3, ConcatIs
      <3>2. Len(out) \in 0 .. Len(out)
        BY <3>1
      <3>3. SubSeq(out \o u, 1, Len(out)) = SubSeq(out, 1, Len(out))
        BY <2>2, <2>3, <3>2, UpToConcat
      <3>4. SubSeq(out, 1, Len(out)) = out
        BY <2>2, SubSeqFull
      <3>5. Len(out) <= Len(out) + Len(u)
        BY <3>1
      <3> QED BY <3>1, <3>3, <3>4, <3>5 DEF Starts
    <2>7. out \o <<>> = out
      BY <2>2, ConcatEmptySeq
    <2> QED BY <2>4, <2>5, <2>6, <2>7
  <1> QED BY <1>1, <1>2, <1>3, PTL DEF Spec

-----------------------------------------------------------------------------
(* What a sequence stands for, element by element.                         *)

MapAt(s, f, upTo, i) == IF i = 0 THEN <<>> ELSE upTo[i - 1] \o f[s[i]]

(* The mapping up to every place. *)
MapUpTo(s, f) == CHOOSE upTo : upTo = [i \in 0 .. Len(s) |-> MapAt(s, f, upTo, i)]

(* f says for the elements of A which sequence of elements of B they are. *)
Maps(f, A, B) == f \in [A -> Seq(B)]

(* The sequences t[i] grow by what the elements of s stand for. *)
Stepwise(s, f, t) == t[0] = <<>> /\ \A i \in 1 .. Len(s) : t[i] = t[i - 1] \o f[s[i]]

AllIn(t, n, B) == \A i \in 0 .. n : t[i] \in Seq(B)

Singly(s, f, t) == Len(t) = Len(s) /\ \A i \in 1 .. Len(s) : f[s[i]] = <<t[i]>>

Away(s, f) == \A i \in 1 .. Len(s) : f[s[i]] = <<>>

LEMMA MappedIsUpTo ==
  ASSUME NEW s, NEW f
  PROVE  Mapped(s, f) = MapUpTo(s, f)[Len(s)]
  BY DEF Mapped, MapUpTo, MapAt

LEMMA MapUpToIs ==
  ASSUME NEW A, NEW B, NEW f, Maps(f, A, B), NEW s \in Seq(A)
  PROVE  Stepwise(s, f, MapUpTo(s, f)) /\ AllIn(MapUpTo(s, f), Len(s), B)
  <1> DEFINE D == 0 .. Len(s)
             T == Seq(B)
             rank == [i \in D |-> i]
             G == [i \in D |-> [g \in [D -> T] |-> MapAt(s, f, g, i)]]
             r == MapUpTo(s, f)
  <1>0. Len(s) \in Nat /\ \A i \in 1 .. Len(s) : s[i] \in A
    BY LenProperties, ElementOfSeq
  <1>f. f \in [A -> Seq(B)]
    BY DEF Maps
  <1>1. T # {}
    BY EmptySeq
  <1>2. rank \in [D -> Nat]
    OBVIOUS
  <1>3. ASSUME NEW x \in D, NEW g, x # 0 => g[x - 1] \in T
        PROVE  MapAt(s, f, g, x) \in T
    <2>1. CASE x = 0
      BY <2>1, EmptySeq DEF MapAt
    <2>2. CASE x # 0
      <3>1. x \in 1 .. Len(s)
        BY <1>0, <2>2
      <3>2. f[s[x]] \in T
        BY <1>0, <1>f, <3>1
      <3>3. MapAt(s, f, g, x) = g[x - 1] \o f[s[x]]
        BY <2>2 DEF MapAt
      <3> QED BY <1>3, <2>2, <3>2, <3>3, ConcatProperties
    <2> QED BY <2>1, <2>2
  <1>4. G \in [D -> [[D -> T] -> T]]
    <2>1. \A x \in D : \A g \in [D -> T] : MapAt(s, f, g, x) \in T
      <3> SUFFICES ASSUME NEW x \in D, NEW g \in [D -> T] PROVE MapAt(s, f, g, x) \in T
        OBVIOUS
      <3>1. x # 0 => x - 1 \in D
        BY <1>0
      <3>2. x # 0 => g[x - 1] \in T
        BY <3>1
      <3> QED BY <1>3, <3>2
    <2> QED BY <2>1
  <1>5. \A x \in D : \A g \in [D -> T] : G[x][g] = MapAt(s, f, g, x)
    OBVIOUS
  <1>6. \E g \in [D -> T] : \A x \in D : g[x] = G[x][g]
    <2>1. ASSUME NEW x \in D, NEW g \in [D -> T], NEW h \in [D -> T],
                 \A y \in D : rank[y] < rank[x] => g[y] = h[y]
          PROVE  G[x][g] = G[x][h]
      <3>1. x # 0 => x - 1 \in D /\ rank[x - 1] < rank[x]
        BY <1>0
      <3>2. x # 0 => g[x - 1] = h[x - 1]
        BY <2>1, <3>1
      <3>3. MapAt(s, f, g, x) = MapAt(s, f, h, x)
        BY <3>2 DEF MapAt
      <3> QED BY <3>3, <1>5
    <2> HIDE DEF D, T, rank, G, r
    <2>2. Recursive(D, T, rank, G)
      BY <1>1, <1>2, <1>4, <2>1 DEF Recursive
    <2> QED BY <2>2, Recursion DEF HasFixpoint
  <1>7. PICK g \in [D -> T] : \A x \in D : g[x] = MapAt(s, f, g, x)
    BY <1>5, <1>6
  <1>8. g = [i \in D |-> MapAt(s, f, g, i)]
    BY <1>7
  <1>9. r = [i \in D |-> MapAt(s, f, r, i)]
    BY <1>8 DEF MapUpTo
  <1>10. \A i \in D : r[i] = MapAt(s, f, r, i)
    BY <1>9
  <1> HIDE DEF r
  <1>11. r[0] = <<>>
    BY <1>0, <1>10 DEF MapAt
  <1>12. \A i \in 1 .. Len(s) : r[i] = r[i - 1] \o f[s[i]]
    <2> SUFFICES ASSUME NEW i \in 1 .. Len(s) PROVE r[i] = r[i - 1] \o f[s[i]]
      OBVIOUS
    <2>1. i \in D /\ i # 0
      BY <1>0
    <2>2. r[i] = MapAt(s, f, r, i)
      BY <1>10, <2>1
    <2> QED BY <2>1, <2>2 DEF MapAt
  <1> DEFINE N == {n \in Nat : n \in D => r[n] \in T}
  <1>13. 0 \in N
    <2>1. 0 \in D /\ MapAt(s, f, r, 0) \in T
      BY <1>0, <1>3
    <2> QED BY <1>10, <2>1
  <1>14. ASSUME NEW n \in N PROVE n + 1 \in N
    <2> SUFFICES ASSUME n + 1 \in D PROVE r[n + 1] \in T
      OBVIOUS
    <2>1. n \in D /\ n + 1 # 0 /\ n + 1 - 1 = n
      BY <1>0
    <2>2. r[n] \in T
      BY <2>1
    <2>3. MapAt(s, f, r, n + 1) \in T
      BY <1>3, <2>1, <2>2
    <2> QED BY <2>3, <1>10
  <1>15. N = Nat
    <2>1. N \in SUBSET Nat
      OBVIOUS
    <2> HIDE DEF N
    <2> QED BY <1>13, <1>14, <2>1, Induct
  <1>16. \A i \in D : r[i] \in T
    <2> SUFFICES ASSUME NEW i \in D PROVE r[i] \in T
      OBVIOUS
    <2>1. i \in Nat
      BY <1>0
    <2>2. i \in N
      <3> HIDE DEF N
      <3> QED BY <1>15, <2>1
    <2> QED BY <2>2
  <1> QED BY <1>11, <1>12, <1>16 DEF r, Stepwise, AllIn

Splits(a, b, f) == Mapped(a \o b, f) = Mapped(a, f) \o Mapped(b, f)

LEMMA MappedIs ==
  ASSUME NEW A, NEW B, NEW f, Maps(f, A, B), NEW s \in Seq(A)
  PROVE  Mapped(s, f) \in Seq(B)
  <1>1. Len(s) \in 0 .. Len(s)
    BY LenProperties
  <1>2. AllIn(MapUpTo(s, f), Len(s), B)
    BY MapUpToIs
  <1> QED BY <1>1, <1>2, MappedIsUpTo DEF AllIn

LEMMA MappedEmpty ==
  ASSUME NEW A, NEW B, NEW f, Maps(f, A, B)
  PROVE  Mapped(<<>>, f) = <<>>
  <1>1. <<>> \in Seq(A) /\ Len(<<>>) = 0
    BY EmptySeq
  <1>2. Stepwise(<<>>, f, MapUpTo(<<>>, f))
    BY <1>1, MapUpToIs
  <1> QED BY <1>1, <1>2, MappedIsUpTo DEF Stepwise

(* A mapping whose every step adds what t says comes to t. *)
LEMMA MappedStepwise ==
  ASSUME NEW A, NEW B, NEW f, Maps(f, A, B), NEW s \in Seq(A), NEW t,
         Stepwise(s, f, t)
  PROVE  \A i \in 0 .. Len(s) : MapUpTo(s, f)[i] = t[i]
  <1> DEFINE r == MapUpTo(s, f)
             N == {n \in Nat : n <= Len(s) => r[n] = t[n]}
  <1>0. Len(s) \in Nat
    BY LenProperties
  <1>1. Stepwise(s, f, r)
    BY MapUpToIs
  <1> HIDE DEF r
  <1>2. 0 \in N
    BY <1>1 DEF Stepwise
  <1>3. ASSUME NEW n \in N PROVE n + 1 \in N
    <2> SUFFICES ASSUME n + 1 <= Len(s) PROVE r[n + 1] = t[n + 1]
      OBVIOUS
    <2>1. PICK m \in Nat : m = n + 1 /\ m - 1 = n
      OBVIOUS
    <2>2. m \in 1 .. Len(s) /\ n <= Len(s)
      BY <1>0, <2>1
    <2>3. r[n] = t[n]
      BY <2>2
    <2>4. r[m] = r[n] \o f[s[m]] /\ t[m] = t[n] \o f[s[m]]
      BY <1>1, <2>1, <2>2 DEF Stepwise
    <2> QED BY <2>1, <2>3, <2>4
  <1>4. N = Nat
    <2>1. N \in SUBSET Nat
      OBVIOUS
    <2> HIDE DEF N
    <2> QED BY <1>2, <1>3, <2>1, Induct
  <1>5. ASSUME NEW i \in 0 .. Len(s) PROVE r[i] = t[i]
    <2>1. i \in Nat /\ i <= Len(s)
      BY <1>0
    <2>2. i \in N
      <3> HIDE DEF N
      <3> QED BY <1>4, <2>1
    <2> QED BY <2>1, <2>2
  <1> QED BY <1>5 DEF r

LEMMA MappedConcat ==
  ASSUME NEW A, NEW B, NEW f, Maps(f, A, B), NEW a \in Seq(A), NEW b \in Seq(A)
  PROVE  Splits(a, b, f)
  <1> DEFINE n == Len(a)
             s == a \o b
             u == MapUpTo(a, f)
             v == MapUpTo(b, f)
             t == [i \in 0 .. Len(s) |-> IF i <= n THEN u[i] ELSE u[n] \o v[i - n]]
  <1>1. n \in Nat /\ Len(b) \in Nat
    BY LenProperties
  <1>2. /\ s \in Seq(A) /\ Len(s) = n + Len(b)
        /\ \A i \in 1 .. n + Len(b) : s[i] = IF i <= n THEN a[i] ELSE b[i - n]
    BY ConcatProperties
  <1>3. /\ u[0] = <<>> /\ \A i \in 1 .. n : u[i] = u[i - 1] \o f[a[i]]
        /\ \A i \in 0 .. n : u[i] \in Seq(B)
    <2>1. Stepwise(a, f, u) /\ AllIn(u, n, B)
      BY MapUpToIs
    <2> QED BY <2>1 DEF Stepwise, AllIn
  <1>4. /\ v[0] = <<>> /\ \A i \in 1 .. Len(b) : v[i] = v[i - 1] \o f[b[i]]
        /\ \A i \in 0 .. Len(b) : v[i] \in Seq(B)
    <2>1. Stepwise(b, f, v) /\ AllIn(v, Len(b), B)
      BY MapUpToIs
    <2> QED BY <2>1 DEF Stepwise, AllIn
  <1>5. \A i \in 1 .. Len(b) : f[b[i]] \in Seq(B)
    BY ElementOfSeq DEF Maps
  <1>6. Mapped(a, f) = u[n] /\ Mapped(b, f) = v[Len(b)] /\ Mapped(s, f) = MapUpTo(s, f)[Len(s)]
    BY MappedIsUpTo
  <1> HIDE DEF n, s, u, v
  <1>7. t[0] = <<>>
    BY <1>1, <1>2, <1>3
  <1>8. ASSUME NEW i \in 1 .. Len(s) PROVE t[i] = t[i - 1] \o f[s[i]]
    <2>1. PICK j : j = i - 1 /\ j \in 0 .. Len(s) /\ i \in 0 .. Len(s)
      BY <1>1, <1>2
    <2>2. CASE i <= n
      <3>1. t[i] = u[i] /\ t[j] = u[j] /\ s[i] = a[i] /\ i \in 1 .. n
        BY <1>1, <1>2, <2>1, <2>2
      <3> QED BY <1>3, <2>1, <3>1
    <2>3. CASE i > n
      <3>1. PICK k : k = i - n /\ k \in 1 .. Len(b) /\ k - 1 \in 0 .. Len(b) /\ k - 1 = j - n
        BY <1>1, <1>2, <2>1, <2>3
      <3>2. t[i] = u[n] \o v[k] /\ s[i] = b[k]
        <4>1. ~(i <= n)
          BY <1>1, <1>2, <2>3
        <4> QED BY <1>2, <2>1, <3>1, <4>1
      <3>6. v[k] = v[k - 1] \o f[b[k]]
        BY <1>4, <3>1
      <3>3. u[n] \in Seq(B) /\ v[k - 1] \in Seq(B) /\ f[b[k]] \in Seq(B)
        <4>1. n \in 0 .. n /\ k - 1 \in 0 .. Len(b) /\ k \in 1 .. Len(b)
          BY <1>1, <3>1
        <4> HIDE DEF t
        <4>2. u[n] \in Seq(B)
          BY <1>3, <4>1
        <4>3. v[k - 1] \in Seq(B)
          BY <1>4, <4>1
        <4>4. f[b[k]] \in Seq(B)
          BY <1>5, <4>1
        <4> QED BY <4>2, <4>3, <4>4
      <3>4. t[j] = u[n] \o v[k - 1]
        <4>1. CASE j <= n
          <5>1. j = n /\ k - 1 = 0
            BY <1>1, <2>1, <2>3, <3>1, <4>1
          <5>2. u[n] \o <<>> = u[n]
            BY <3>3, ConcatEmptySeq
          <5> QED BY <1>4, <2>1, <4>1, <5>1, <5>2
        <4>2. CASE ~(j <= n)
          BY <2>1, <3>1, <4>2
        <4> QED BY <4>1, <4>2
      <3>5. u[n] \o (v[k - 1] \o f[b[k]]) = (u[n] \o v[k - 1]) \o f[b[k]]
        <4>1. PICK x, y, z : x = u[n] /\ y = v[k - 1] /\ z = f[b[k]]
          OBVIOUS
        <4>2. x \in Seq(B) /\ y \in Seq(B) /\ z \in Seq(B)
          BY <3>3, <4>1
        <4>3. (x \o y) \o z = x \o (y \o z)
          BY <4>2, ConcatAssociative, SMTT(30)
        <4> QED BY <4>1, <4>3
      <3> QED BY <2>1, <3>2, <3>4, <3>5, <3>6
    <2>4. i <= n \/ i > n
      BY <1>1, <1>2
    <2> QED BY <2>2, <2>3, <2>4
  <1>9. MapUpTo(s, f)[Len(s)] = t[Len(s)]
    <2>1. Len(s) \in 0 .. Len(s)
      BY <1>1, <1>2
    <2>2. Stepwise(s, f, t)
      BY <1>7, <1>8 DEF Stepwise
    <2> HIDE DEF t
    <2> QED BY <1>2, <2>1, <2>2, MappedStepwise
  <1>10. t[Len(s)] = u[n] \o v[Len(b)]
    <2>1. PICK L : L = Len(s) /\ L \in 0 .. L /\ L = n + Len(b)
      BY <1>1, <1>2
    <2>2. CASE L <= n
      <3>1. L = n /\ Len(b) = 0
        BY <1>1, <2>1, <2>2
      <3>2. u[n] \in Seq(B)
        BY <1>1, <1>3
      <3>3. u[n] \o <<>> = u[n]
        BY <3>2, ConcatEmptySeq
      <3> QED BY <1>4, <2>1, <2>2, <3>1, <3>3
    <2>3. CASE ~(L <= n)
      <3>1. L - n = Len(b)
        BY <1>1, <2>1
      <3> QED BY <2>1, <2>3, <3>1
    <2> QED BY <2>2, <2>3
  <1> QED BY <1>6, <1>9, <1>10 DEF Splits, s

(* Where every element stands for one, the mapping goes element by element.*)
LEMMA MappedSingly ==
  ASSUME NEW A, NEW B, NEW f, Maps(f, A, B), NEW s \in Seq(A), NEW t \in Seq(B),
         Singly(s, f, t)
  PROVE  Mapped(s, f) = t
  <1> DEFINE w == [i \in 0 .. Len(s) |-> SubSeq(t, 1, i)]
  <1>0. Len(s) \in Nat
    BY LenProperties
  <1>t. Len(t) = Len(s) /\ \A i \in 1 .. Len(s) : f[s[i]] = <<t[i]>>
    BY DEF Singly
  <1>1. \A i \in 0 .. Len(s) : SubSeq(t, 1, i) \in Seq(B) /\ Len(SubSeq(t, 1, i)) = i /\
                               \A k \in 1 .. i : SubSeq(t, 1, i)[k] = t[k]
    BY <1>0, <1>t, UpToIs
  <1>2. SubSeq(t, 1, 0) = <<>>
    <2>1. 0 \in 0 .. Len(s)
      BY <1>0
    <2>2. SubSeq(t, 1, 0) \in Seq(B) /\ Len(SubSeq(t, 1, 0)) = 0
      BY <1>1, <2>1
    <2> QED BY <2>2, EmptySeq
  <1>3. ASSUME NEW i \in 1 .. Len(s) PROVE w[i] = w[i - 1] \o f[s[i]]
    <2>1. PICK j : j = i - 1 /\ j \in 0 .. Len(s) /\ i \in 0 .. Len(s) /\ i = j + 1 /\ j \in Nat
      BY <1>0
    <2>2. t[i] \in B
      BY <1>0, <1>t, ElementOfSeq
    <2>3. w[i] = SubSeq(t, 1, i) /\ w[j] = SubSeq(t, 1, j)
      BY <2>1
    <2> DEFINE u == SubSeq(t, 1, i)
               v == SubSeq(t, 1, j)
               x == t[i]
    <2>4. /\ u \in Seq(B) /\ Len(u) = i /\ v \in Seq(B) /\ Len(v) = j
          /\ (\A k \in 1 .. i : u[k] = t[k]) /\ (\A k \in 1 .. j : v[k] = t[k])
      BY <1>1, <2>1
    <2>5. u[i] = x
      BY <2>1, <2>4
    <2> HIDE DEF u, v, x
    <2>6. <<x>> \in Seq(B) /\ Len(<<x>>) = 1 /\ <<x>>[1] = x
      BY <2>2 DEF x
    <2>7. /\ v \o <<x>> \in Seq(B) /\ Len(v \o <<x>>) = j + 1
          /\ \A k \in 1 .. j + 1 : (v \o <<x>>)[k] = IF k <= j THEN v[k] ELSE <<x>>[k - j]
      BY <2>4, <2>6, ConcatProperties
    <2> DEFINE z == v \o <<x>>
    <2>8. z \in Seq(B) /\ Len(z) = i /\ \A k \in 1 .. i : z[k] = IF k <= j THEN v[k] ELSE x
      <3>1. \A k \in 1 .. j + 1 : ~(k <= j) => k - j = 1
        BY <2>1
      <3> QED BY <2>1, <2>6, <2>7, <3>1
    <2> HIDE DEF z
    <2>9. ASSUME NEW k \in 1 .. i PROVE u[k] = z[k]
      <3>1. CASE k <= j
        <4>1. k \in 1 .. j
          BY <2>1, <3>1
        <4> QED BY <2>4, <2>8, <3>1, <4>1
      <3>2. CASE ~(k <= j)
        <4>1. k = i
          BY <2>1, <3>2
        <4> QED BY <2>5, <2>8, <3>2, <4>1
      <3> QED BY <3>1, <3>2
    <2>10. u = z
      BY <2>4, <2>8, <2>9, SeqEqual
    <2>11. f[s[i]] = <<t[i]>>
      BY <1>t
    <2> QED BY <2>1, <2>3, <2>10, <2>11 DEF u, v, x, z
  <1>4. w[0] = <<>>
    BY <1>0, <1>2
  <1>5. Len(s) \in 0 .. Len(s)
    BY <1>0
  <1>6. MapUpTo(s, f)[Len(s)] = w[Len(s)]
    <2>1. Stepwise(s, f, w)
      BY <1>3, <1>4 DEF Stepwise
    <2> HIDE DEF w
    <2> QED BY <1>5, <2>1, MappedStepwise
  <1>7. w[Len(s)] = SubSeq(t, 1, Len(t))
    BY <1>5, <1>t
  <1>8. SubSeq(t, 1, Len(t)) = t
    BY SubSeqFull
  <1> QED BY <1>6, <1>7, <1>8, MappedIsUpTo

(* Where every element stands for nothing, so does the sequence. *)
LEMMA MappedAway ==
  ASSUME NEW A, NEW B, NEW f, Maps(f, A, B), NEW s \in Seq(A),
         Away(s, f)
  PROVE  Mapped(s, f) = <<>>
  <1> DEFINE w == [i \in 0 .. Len(s) |-> <<>>]
  <1>0. Len(s) \in Nat
    BY LenProperties
  <1>1. <<>> \o <<>> = <<>>
    OBVIOUS
  <1>2. ASSUME NEW i \in 1 .. Len(s) PROVE w[i] = w[i - 1] \o f[s[i]]
    <2>1. i \in 0 .. Len(s) /\ i - 1 \in 0 .. Len(s)
      BY <1>0
    <2> QED BY <1>1, <2>1 DEF Away
  <1>3. w[0] = <<>> /\ Len(s) \in 0 .. Len(s) /\ w[Len(s)] = <<>>
    BY <1>0
  <1>4. Stepwise(s, f, w)
    BY <1>2, <1>3 DEF Stepwise
  <1> HIDE DEF w
  <1> QED BY <1>3, <1>4, MappedStepwise, MappedIsUpTo

-----------------------------------------------------------------------------
(* The plain text of the answers.                                          *)

AsciiOf == [b \in Byte |-> IF b < 128 THEN <<b>> ELSE <<>>]
PlainOf == [b \in Byte |-> IF b < 128 /\ ~Dropped(b) THEN <<b>> ELSE <<>>]
AnswerPart == [e \in Event |-> IF e.kind = "answer" THEN <<e.byte>> ELSE <<>>]

LEMMA PartsMap ==
  /\ Maps(AsciiOf, Byte, Byte) /\ Maps(PlainOf, Byte, Byte) /\ Maps(AnswerPart, Event, Byte)
  <1>1. <<>> \in Seq(Byte) /\ \A b \in Byte : <<b>> \in Seq(Byte)
    BY EmptySeq
  <1>2. \A b \in Byte : /\ (IF b < 128 THEN <<b>> ELSE <<>>) \in Seq(Byte)
                        /\ (IF b < 128 /\ ~Dropped(b) THEN <<b>> ELSE <<>>) \in Seq(Byte)
    BY <1>1
  <1>3. \A e \in Event : (IF e.kind = "answer" THEN <<e.byte>> ELSE <<>>) \in Seq(Byte)
    <2> SUFFICES ASSUME NEW e \in Event
                 PROVE  (IF e.kind = "answer" THEN <<e.byte>> ELSE <<>>) \in Seq(Byte)
      OBVIOUS
    <2>1. e.byte \in Byte
      BY DEF Event
    <2> QED BY <1>1, <2>1
  <1>4. AsciiOf \in [Byte -> Seq(Byte)] /\ PlainOf \in [Byte -> Seq(Byte)]
    BY <1>2 DEF AsciiOf, PlainOf
  <1>5. AnswerPart \in [Event -> Seq(Byte)]
    BY <1>3 DEF AnswerPart
  <1> QED BY <1>4, <1>5 DEF Maps

LEMMA PartsAre ==
  /\ \A s : Ascii(s) = Mapped(s, AsciiOf) /\ Plain(s) = Mapped(s, PlainOf)
  /\ \A s : OfKind(s, "answer") = Mapped(s, AnswerPart)
  BY DEF Ascii, Plain, OfKind, AsciiOf, PlainOf, AnswerPart

(* The pieces of an answer and what they come to. *)
TwoPlain(s, t) == Plain(s \o t) = Plain(s) \o Plain(t)
TwoAscii(s, t) == Ascii(s \o t) = Ascii(s) \o Ascii(t)
TwoKinds(s, t) == OfKind(s \o t, "answer") = OfKind(s, "answer") \o OfKind(t, "answer")

LEMMA PlainType ==
  ASSUME NEW s \in Seq(Byte)
  PROVE  Plain(s) \in Seq(Byte) /\ Ascii(s) \in Seq(Byte)
  BY PartsAre, PartsMap, MappedIs

LEMMA PlainSplits ==
  ASSUME NEW s \in Seq(Byte), NEW t \in Seq(Byte)
  PROVE  TwoPlain(s, t) /\ TwoAscii(s, t)
  <1>1. Splits(s, t, PlainOf) /\ Splits(s, t, AsciiOf)
    BY PartsMap, MappedConcat
  <1> QED BY <1>1, PartsAre DEF TwoPlain, TwoAscii, Splits

LEMMA KindType ==
  ASSUME NEW s \in Seq(Event)
  PROVE  OfKind(s, "answer") \in Seq(Byte)
  BY PartsAre, PartsMap, MappedIs

LEMMA KindSplits ==
  ASSUME NEW s \in Seq(Event), NEW t \in Seq(Event)
  PROVE  TwoKinds(s, t)
  <1>1. Splits(s, t, AnswerPart)
    BY PartsMap, MappedConcat
  <1>2. Mapped(s \o t, AnswerPart) = Mapped(s, AnswerPart) \o Mapped(t, AnswerPart)
    BY <1>1 DEF Splits
  <1>3. /\ OfKind(s \o t, "answer") = Mapped(s \o t, AnswerPart)
        /\ OfKind(s, "answer") = Mapped(s, AnswerPart)
        /\ OfKind(t, "answer") = Mapped(t, AnswerPart)
    BY DEF OfKind, AnswerPart
  <1> QED BY <1>2, <1>3 DEF TwoKinds

LEMMA KindOfTagged ==
  ASSUME NEW kind \in Kinds, NEW s \in Seq(Byte), NEW e, e = Tagged(kind, s)
  PROVE  OfKind(e, "answer") = IF kind = "answer" THEN s ELSE <<>>
  <1>1. /\ e \in Seq(Event) /\ Len(e) = Len(s)
        /\ \A i \in 1 .. Len(s) : e[i] = [kind |-> kind, byte |-> s[i]]
    BY TaggedIs
  <1>2. \A i \in 1 .. Len(e) : e[i] \in Event /\ s[i] \in Byte
    BY <1>1, ElementOfSeq
  <1>3. \A i \in 1 .. Len(e) : AnswerPart[e[i]] = IF kind = "answer" THEN <<s[i]>> ELSE <<>>
    <2> SUFFICES ASSUME NEW i \in 1 .. Len(e)
                 PROVE  AnswerPart[e[i]] = IF kind = "answer" THEN <<s[i]>> ELSE <<>>
      OBVIOUS
    <2>1. e[i] = [kind |-> kind, byte |-> s[i]]
      BY <1>1
    <2>2. e[i] \in Event
      BY <1>2
    <2>3. AnswerPart[e[i]] = IF e[i].kind = "answer" THEN <<e[i].byte>> ELSE <<>>
      BY <2>2 DEF AnswerPart
    <2> QED BY <2>1, <2>3
  <1>4. CASE kind = "answer"
    <2>1. Singly(e, AnswerPart, s)
      BY <1>1, <1>3, <1>4 DEF Singly
    <2>2. Mapped(e, AnswerPart) = s
      BY <1>1, <2>1, PartsMap, MappedSingly
    <2> QED BY <1>4, <2>2, PartsAre
  <1>5. CASE kind # "answer"
    <2>1. Away(e, AnswerPart)
      BY <1>1, <1>3, <1>5 DEF Away
    <2>2. Mapped(e, AnswerPart) = <<>>
      BY <1>1, <2>1, PartsMap, MappedAway
    <2> QED BY <1>5, <2>2, PartsAre
  <1> QED BY <1>4, <1>5

High(s) == \A i \in 1 .. Len(s) : s[i] >= 128

LEMMA HighIsAway ==
  ASSUME NEW s \in Seq(Byte), High(s)
  PROVE  Ascii(s) = <<>> /\ Plain(s) = <<>>
  <1>1. \A i \in 1 .. Len(s) : s[i] \in Byte /\ s[i] \in Nat
    BY ElementOfSeq, ByteIs
  <1>2. \A i \in 1 .. Len(s) : ~(s[i] < 128)
    BY <1>1 DEF High
  <1>3. Away(s, AsciiOf) /\ Away(s, PlainOf)
    BY <1>1, <1>2 DEF Away, AsciiOf, PlainOf
  <1>4. Mapped(s, AsciiOf) = <<>> /\ Mapped(s, PlainOf) = <<>>
    BY <1>3, PartsMap, MappedAway
  <1> QED BY <1>4, PartsAre

LEMMA LowIsKept ==
  ASSUME NEW b \in Byte, b < 128, NEW s, s = <<b>>
  PROVE  Ascii(s) = s /\ Plain(s) = IF Dropped(b) THEN <<>> ELSE s
  <1>1. s \in Seq(Byte) /\ Len(s) = 1 /\ \A i \in 1 .. 1 : s[i] = b
    OBVIOUS
  <1>2. Singly(s, AsciiOf, s)
    BY <1>1 DEF Singly, AsciiOf
  <1>3. Ascii(s) = s
    BY <1>1, <1>2, PartsMap, MappedSingly, PartsAre
  <1>4. CASE Dropped(b)
    <2>1. Away(s, PlainOf)
      BY <1>1, <1>4 DEF Away, PlainOf
    <2> QED BY <1>1, <1>3, <1>4, <2>1, PartsMap, MappedAway, PartsAre
  <1>5. CASE ~Dropped(b)
    <2>1. Singly(s, PlainOf, s)
      BY <1>1, <1>5 DEF Singly, PlainOf
    <2>2. Mapped(s, PlainOf) = s
      BY <1>1, <2>1, PartsMap, MappedSingly
    <2>3. Plain(s) = s
      BY <2>2, PartsAre
    <2> QED BY <1>3, <1>5, <2>3
  <1> QED BY <1>4, <1>5

LEMMA EncodeHigh ==
  ASSUME NEW cp \in Nat, cp >= 128
  PROVE  High(Encode(cp))
  <1>1. \A x, y \in Nat : 192 + x >= 128 /\ 128 + x >= 128 /\ 224 + x >= 128 /\ 240 + x >= 128
    BY SMT
  <1>2. /\ cp \div 64 \in Nat /\ cp % 64 \in Nat /\ cp \div 4096 \in Nat
        /\ cp \div 262144 \in Nat /\ (cp \div 64) % 64 \in Nat /\ (cp \div 4096) % 64 \in Nat
    BY SMT
  <1> DEFINE x2 == 192 + (cp \div 64)
             x3 == 224 + (cp \div 4096)
             x4 == 240 + (cp \div 262144)
             y1 == 128 + (cp % 64)
             y2 == 128 + ((cp \div 64) % 64)
             y3 == 128 + ((cp \div 4096) % 64)
  <1>3. x2 >= 128 /\ x3 >= 128 /\ x4 >= 128 /\ y1 >= 128 /\ y2 >= 128 /\ y3 >= 128
    BY <1>1, <1>2
  <1>4. Encode(cp) = <<x2, y1>> \/ Encode(cp) = <<x3, y2, y1>> \/ Encode(cp) = <<x4, y3, y2, y1>>
    <2>1. cp < 2048 => Encode(cp) = <<x2, y1>>
      BY EncodeForms
    <2>2. cp >= 2048 /\ cp < 65536 => Encode(cp) = <<x3, y2, y1>>
      BY EncodeForms
    <2>3. cp >= 65536 => Encode(cp) = <<x4, y3, y2, y1>>
      BY EncodeForms
    <2>4. cp < 2048 \/ (cp >= 2048 /\ cp < 65536) \/ cp >= 65536
      OBVIOUS
    <2> QED BY <2>1, <2>2, <2>3, <2>4
  <1> HIDE DEF x2, x3, x4, y1, y2, y3
  <1>5. CASE Encode(cp) = <<x2, y1>>
    BY <1>3, <1>5 DEF High
  <1>6. CASE Encode(cp) = <<x3, y2, y1>>
    BY <1>3, <1>6 DEF High
  <1>7. CASE Encode(cp) = <<x4, y3, y2, y1>>
    BY <1>3, <1>7 DEF High
  <1> QED BY <1>4, <1>5, <1>6, <1>7

(* What decodes to more than a byte has no plain byte in it, and what does *)
(* not decode does not begin with one.                                     *)
LEMMA DecodePlain ==
  ASSUME NEW s \in Seq(Byte), s # <<>>
  PROVE  /\ s[1] \in Byte /\ s[1] \in Nat /\ Len(s) \in Nat /\ 1 \in 0 .. Len(s)
         /\ Decode(s).used = 0 => s[1] >= 128
         /\ Decode(s).used = 1 => Decode(s).cp = s[1] /\ s[1] < 128
         /\ Decode(s).used \in {2, 3, 4} =>
              Decode(s).cp >= 128 /\ \A i \in 1 .. Decode(s).used : s[i] >= 128
  <1> DEFINE n == SeqLen(s[1])
             ok == /\ n \in 1 .. Len(s)
                   /\ \A i \in 2 .. n : Continues(s[i])
                   /\ NeedsBytes(n, CodePoint(s, n))
  <1>1. Len(s) \in Nat /\ Len(s) >= 1 /\ 1 \in 1 .. Len(s)
    BY EmptySeq, LenProperties
  <1>2. \A i \in 1 .. Len(s) : s[i] \in Nat /\ s[i] \in Byte
    BY ElementOfSeq, ByteIs
  <1>3. s[1] \in Byte /\ s[1] \in Nat /\ 1 \in 0 .. Len(s)
    BY <1>1, <1>2
  <1>4. Decode(s) = IF ok THEN [used |-> n, cp |-> CodePoint(s, n)] ELSE Nothing
    BY DEF Decode
  <1>5. s[1] < 128 => n = 1
    BY <1>3, SeqLenIs
  <1>6. n = 1 => s[1] < 128
    <2> SUFFICES ASSUME NEW b \in Nat, SeqLen(b) = 1 PROVE b < 128
      BY <1>3
    <2>1. b \div 128 = 0
      BY SMT DEF SeqLen
    <2> QED BY <2>1, SMT
  <1>7. n = 1 => ok
    <2> SUFFICES ASSUME n = 1 PROVE ok
      OBVIOUS
    <2>1. NeedsBytes(1, CodePoint(s, 1))
      BY DEF NeedsBytes
    <2> QED BY <1>1, <2>1
  <1>8. ok => n \in {1, 2, 3, 4}
    BY ScalarIs
  <1>9. ok /\ n \in {2, 3, 4} => CodePoint(s, n) >= 128
    <2> SUFFICES ASSUME ok, NEW v, v = CodePoint(s, n), n \in {2, 3, 4} PROVE v >= 128
      OBVIOUS
    <2>1. NeedsBytes(n, v)
      OBVIOUS
    <2>2. v \in Nat
      <3>1. IsScalar(CodePoint(s, n))
        BY ScalarIs
      <3> QED BY <3>1 DEF IsScalar, IsCode
    <2> HIDE DEF n, ok
    <2>3. CASE n = 2
      BY <2>1, <2>3 DEF NeedsBytes
    <2>4. CASE n = 3
      <3>1. v >= 2048
        BY <2>1, <2>4 DEF NeedsBytes
      <3> QED BY <2>2, <3>1, SMT
    <2>5. CASE n = 4
      <3>1. v >= 65536
        BY <2>1, <2>5 DEF NeedsBytes
      <3> QED BY <2>2, <3>1, SMT
    <2> QED BY <2>3, <2>4, <2>5
  <1>10. ok /\ n \in {2, 3, 4} => \A i \in 1 .. n : s[i] >= 128
    <2> SUFFICES ASSUME ok, n \in {2, 3, 4}, NEW i \in 1 .. n PROVE s[i] >= 128
      OBVIOUS
    <2>1. i \in 1 .. Len(s) /\ n \in Nat
      BY <1>1
    <2>2. CASE i = 1
      <3>1. ~(s[1] < 128)
        BY <1>5
      <3> QED BY <1>3, <2>2, <3>1
    <2>3. CASE i # 1
      <3>1. i \in 2 .. n
        BY <2>1, <2>3
      <3>2. Continues(s[i])
        BY <3>1
      <3>3. s[i] \div 64 = 2
        BY <3>2 DEF Continues
      <3>4. \A b \in Nat : b \div 64 = 2 => b >= 128
        BY SMT
      <3> QED BY <1>2, <2>1, <3>3, <3>4
    <2> QED BY <2>2, <2>3
  <1>11. CodePoint(s, 1) = s[1]
    BY CodePointForms
  <1> HIDE DEF n, ok
  <1>12. CASE ok
    <2>1. Decode(s).used = n /\ Decode(s).cp = CodePoint(s, n)
      BY <1>4, <1>12
    <2>2. n # 0
      BY <1>8, <1>12
    <2> QED BY <1>1, <1>3, <1>6, <1>9, <1>10, <1>11, <1>12, <2>1, <2>2
  <1>13. CASE ~ok
    <2>1. Decode(s).used = 0
      BY <1>4, <1>13 DEF Nothing
    <2>2. ~(s[1] < 128)
      BY <1>5, <1>7, <1>13
    <2> QED BY <1>1, <1>3, <2>1, <2>2
  <1> QED BY <1>12, <1>13

(* What the sanitizer makes of the first n bytes, and of the rest. *)
Makes(s, n, e) == Sanitize(s) = e \o Sanitize(From(s, n + 1))

LEMMA SanitizeFirst ==
  ASSUME NEW s \in Seq(Byte), s # <<>>
  PROVE  \E n \in 1 .. Len(s), e \in Seq(Byte) :
           Makes(s, n, e) /\ Ascii(e) = Plain(SubSeq(s, 1, n))
  <1> DEFINE d == Decode(s)
             b == s[1]
             p1 == SubSeq(s, 1, 1)
  <1>1. /\ b \in Byte /\ b \in Nat /\ Len(s) \in Nat /\ 1 \in 0 .. Len(s) /\ 1 \in 1 .. Len(s)
        /\ d.used = 0 => b >= 128
        /\ d.used = 1 => d.cp = b /\ b < 128
        /\ d.used \in {2, 3, 4} => d.cp >= 128 /\ \A i \in 1 .. d.used : s[i] >= 128
    BY DecodePlain
  <1>2. /\ d.used \in 0 .. Len(s) /\ d.cp \in Nat
        /\ d.used # 0 => d.used \in {1, 2, 3, 4} /\ IsScalar(d.cp)
    BY DecodeIs
  <1>3. /\ d.used = 0 => Sanitize(s) = Encode(Replacement) \o Sanitize(From(s, 2))
        /\ d.used # 0 =>
              Sanitize(s) = (IF Dropped(d.cp) THEN <<>> ELSE Encode(d.cp))
                              \o Sanitize(From(s, d.used + 1))
    BY SanitizeStep
  <1>4. p1 \in Seq(Byte) /\ Len(p1) = 1 /\ \A k \in 1 .. 1 : p1[k] = s[k]
    BY <1>1, UpToIs
  <1>5. p1 = <<b>>
    <2> HIDE DEF p1
    <2>1. PICK x \in Byte : x = b
      BY <1>1
    <2>2. p1[1] = x /\ p1 \in Seq(Byte) /\ Len(p1) = 1
      BY <1>4, <2>1
    <2>3. p1 = <<x>>
      BY <2>2
    <2> QED BY <2>1, <2>3
  <1>6. <<>> \in Seq(Byte) /\ High(<<>>)
    BY EmptySeq DEF High
  <1> HIDE DEF d, b, p1
  <1>7. CASE d.used = 0
    <2> DEFINE e == Encode(Replacement)
    <2>1. Replacement \in Nat /\ Replacement >= 128
      BY SMT DEF Replacement
    <2>2. IsCode(Replacement)
      BY ReplacementIs DEF IsScalar
    <2>3. e \in Seq(Byte) /\ High(e)
      BY <2>1, <2>2, EncodeIs, EncodeHigh
    <2>4. Sanitize(s) = e \o Sanitize(From(s, 2))
      BY <1>3, <1>7
    <2> HIDE DEF e
    <2>5. Makes(s, 1, e)
      <3>1. 1 + 1 = 2
        BY SMT
      <3> QED BY <2>4, <3>1 DEF Makes
    <2>6. High(p1)
      BY <1>1, <1>5, <1>7 DEF High
    <2>7. Ascii(e) = <<>> /\ Plain(p1) = <<>>
      BY <1>4, <2>3, <2>6, HighIsAway
    <2> QED BY <1>1, <2>3, <2>5, <2>7 DEF p1
  <1>8. CASE d.used = 1
    <2> DEFINE e == IF Dropped(b) THEN <<>> ELSE <<b>>
    <2>1. d.cp = b /\ b < 128
      BY <1>1, <1>8
    <2>2. Encode(b) = <<b>>
      BY <1>1, <2>1, EncodeForms
    <2>3. Makes(s, 1, e)
      BY <1>3, <1>8, <2>1, <2>2 DEF Makes
    <2>4. Ascii(<<b>>) = <<b>> /\ Plain(p1) = IF Dropped(b) THEN <<>> ELSE <<b>>
      BY <1>1, <1>5, <2>1, LowIsKept
    <2>5. Ascii(<<>>) = <<>>
      BY <1>6, HighIsAway
    <2>6. e \in Seq(Byte)
      BY <1>1, <1>6
    <2>7. Ascii(e) = Plain(p1)
      BY <2>4, <2>5
    <2> HIDE DEF e
    <2> QED BY <1>1, <2>3, <2>6, <2>7 DEF p1
  <1>9. CASE d.used \in {2, 3, 4}
    <2> DEFINE n == d.used
               e == IF Dropped(d.cp) THEN <<>> ELSE Encode(d.cp)
               q == SubSeq(s, 1, n)
    <2>1. n \in 1 .. Len(s) /\ n \in 0 .. Len(s) /\ n # 0
      BY <1>1, <1>2, <1>9
    <2>2. IsCode(d.cp) /\ d.cp \in Nat /\ d.cp >= 128
      BY <1>1, <1>2, <1>9 DEF IsScalar
    <2>3. e \in Seq(Byte) /\ High(e)
      BY <1>6, <2>2, EncodeIs, EncodeHigh
    <2>4. Makes(s, n, e)
      BY <1>3, <2>1 DEF Makes
    <2>5. \A i \in 1 .. n : s[i] >= 128
      BY <1>1, <1>9
    <2> HIDE DEF n, e
    <2>6. q \in Seq(Byte) /\ Len(q) = n /\ \A k \in 1 .. n : q[k] = s[k]
      BY <2>1, UpToIs
    <2> HIDE DEF q
    <2>7. High(q)
      BY <2>5, <2>6 DEF High
    <2>8. Ascii(e) = <<>> /\ Plain(q) = <<>>
      BY <2>3, <2>6, <2>7, HighIsAway
    <2> QED BY <2>1, <2>3, <2>4, <2>8 DEF q
  <1> QED BY <1>2, <1>7, <1>8, <1>9

(* The sanitizer takes no plain byte away and adds none. *)
LEMMA SanitizeIsExact ==
  ASSUME NEW s \in Seq(Byte)
  PROVE  Ascii(Sanitize(s)) = Plain(s)
  <1> DEFINE N == {n \in Nat : \A t \in Seq(Byte) : Len(t) = n => Ascii(Sanitize(t)) = Plain(t)}
  <1>1. ASSUME NEW n \in Nat, \A k \in Nat : k < n => k \in N
        PROVE  n \in N
    <2> SUFFICES ASSUME NEW t \in Seq(Byte), Len(t) = n
                 PROVE  Ascii(Sanitize(t)) = Plain(t)
      OBVIOUS
    <2>1. CASE t = <<>>
      <3>1. <<>> \in Seq(Byte) /\ High(<<>>)
        BY EmptySeq DEF High
      <3>2. Sanitize(t) = <<>>
        BY <2>1, SanitizeStep
      <3> QED BY <2>1, <3>1, <3>2, HighIsAway
    <2>2. CASE t # <<>>
      <3>1. PICK m \in 1 .. Len(t), e \in Seq(Byte) :
              Makes(t, m, e) /\ Ascii(e) = Plain(SubSeq(t, 1, m))
        BY <2>2, SanitizeFirst
      <3> DEFINE a == SubSeq(t, 1, m)
                 r == From(t, m + 1)
      <3>2. m \in 0 .. Len(t) /\ m + 1 \in 1 .. Len(t) + 1 /\ Len(t) + 1 - (m + 1) < n
            /\ Len(t) + 1 - (m + 1) \in Nat
        BY <1>1, <3>1
      <3>3. r \in Seq(Byte) /\ Len(r) = Len(t) + 1 - (m + 1)
        BY <3>2, FromIs
      <3>4. a \in Seq(Byte)
        BY <3>2, UpToIs
      <3>5. a \o r = t
        BY <3>2, CutAt
      <3> HIDE DEF a, r
      <3>6. Ascii(Sanitize(r)) = Plain(r)
        <4>1. Len(r) \in N
          <5> HIDE DEF N
          <5> QED BY <1>1, <3>2, <3>3
        <4> QED BY <3>3, <4>1
      <3>7. Sanitize(r) \in Seq(Byte)
        BY <3>3, SanitizeIs
      <3>8. TwoAscii(e, Sanitize(r)) /\ TwoPlain(a, r)
        BY <3>3, <3>4, <3>7, PlainSplits
      <3>9. Sanitize(t) = e \o Sanitize(r)
        BY <3>1 DEF Makes, r
      <3>10. Ascii(e) = Plain(a)
        BY <3>1 DEF a
      <3> QED BY <3>5, <3>6, <3>8, <3>9, <3>10 DEF TwoAscii, TwoPlain
    <2> QED BY <2>1, <2>2
  <1>2. N = Nat
    <2>1. N \in SUBSET Nat
      OBVIOUS
    <2> HIDE DEF N
    <2> QED BY <1>1, <2>1, StrongInduct
  <1>3. Len(s) \in Nat
    BY LenProperties
  <1>4. Len(s) \in N
    <2> HIDE DEF N
    <2> QED BY <1>2, <1>3
  <1> QED BY <1>4

(* What the parser has told is what the answers it emitted come to. *)
Told(p) == Ascii(p.answer) = Plain(OfKind(p.out, "answer"))

LEMMA MoveTold ==
  ASSUME NEW p \in Parsers, NEW q, NEW kind \in Kinds, NEW n, NEW next, NEW answers, NEW dsml,
         Moves(p, q, kind, n, next, answers, dsml), Told(p)
  PROVE  Told(q)
  <1> DEFINE a == SubSeq(p.acc, 1, n)
             e == Tagged(kind, a)
  <1>1. /\ p.acc \in Seq(Byte) /\ p.out \in Seq(Event) /\ p.answer \in Seq(Byte)
    BY ParserFields
  <1>2. /\ n \in 0 .. Len(p.acc) /\ q.out = p.out \o e
        /\ q.answer = IF kind = "answer" THEN p.answer \o Sanitize(a) ELSE p.answer
    BY DEF Moves
  <1>3. a \in Seq(Byte)
    BY <1>1, <1>2, UpToIs
  <1> HIDE DEF a
  <1>4. e \in Seq(Event) /\ OfKind(e, "answer") = IF kind = "answer" THEN a ELSE <<>>
    BY <1>3, TaggedIs, KindOfTagged
  <1> DEFINE was == OfKind(p.out, "answer")
             adds == OfKind(e, "answer")
  <1>5. was \in Seq(Byte) /\ adds \in Seq(Byte)
    BY <1>1, <1>4, KindType
  <1>6. OfKind(q.out, "answer") = was \o adds
    <2> HIDE DEF e
    <2>1. TwoKinds(p.out, e)
      BY <1>1, <1>4, KindSplits
    <2> QED BY <1>2, <2>1 DEF TwoKinds
  <1>7. Ascii(p.answer) = Plain(was)
    BY DEF Told
  <1>8. adds = IF kind = "answer" THEN a ELSE <<>>
    BY <1>4
  <1> HIDE DEF was, adds, e
  <1>9. CASE kind = "answer"
    <2>1. Sanitize(a) \in Seq(Byte)
      BY <1>3, SanitizeIs
    <2>2. TwoAscii(p.answer, Sanitize(a)) /\ TwoPlain(was, adds)
      BY <1>1, <1>5, <2>1, PlainSplits
    <2>3. Ascii(Sanitize(a)) = Plain(adds)
      BY <1>3, <1>8, <1>9, SanitizeIsExact
    <2>4. q.answer = p.answer \o Sanitize(a)
      BY <1>2, <1>9
    <2>5. Ascii(q.answer) = Plain(was \o adds)
      BY <1>7, <2>2, <2>3, <2>4 DEF TwoAscii, TwoPlain
    <2> QED BY <1>6, <2>5 DEF Told
  <1>10. CASE kind # "answer"
    <2>1. adds = <<>> /\ q.answer = p.answer
      BY <1>2, <1>8, <1>10
    <2>2. was \o adds = was
      BY <1>5, <2>1, ConcatEmptySeq
    <2> QED BY <1>6, <1>7, <2>1, <2>2 DEF Told
  <1> QED BY <1>9, <1>10

LEMMA RoundTold ==
  ASSUME TraceAssumption, NEW p \in Parsers, NEW flush \in BOOLEAN, Told(p),
         NEW q, q = Round(p, flush).p
  PROVE  Told(q)
  <1>1. Went(p, Round(p, flush), flush)
    BY RoundIs
  <1>2. q = p \/ \E kind \in Kinds : \E n, next, answers, dsml :
                    Moves(p, q, kind, n, next, answers, dsml)
    <2>1. "thinking" \in Kinds /\ "answer" \in Kinds /\ "tool" \in Kinds
      BY DEF Kinds
    <2>2. CASE Stays(p, q, flush)
      BY <2>2 DEF Stays
    <2>3. CASE Thinks(p, q, flush)
      BY <2>1, <2>3 DEF Thinks
    <2>4. CASE StopsThinking(p, q)
      BY <2>1, <2>4 DEF StopsThinking
    <2>5. CASE Answers(p, q, flush)
      BY <2>1, <2>5 DEF Answers
    <2>6. CASE OpensTool(p, q)
      BY <2>1, <2>6 DEF OpensTool
    <2>7. CASE ClosesTool(p, q)
      BY <2>1, <2>7 DEF ClosesTool
    <2>8. CASE EndsTool(p, q)
      BY <2>1, <2>8 DEF EndsTool
    <2> QED BY <1>1, <2>2, <2>3, <2>4, <2>5, <2>6, <2>7, <2>8 DEF Went
  <1> QED BY <1>2, MoveTold

LEMMA DrainTold ==
  ASSUME TraceAssumption, NEW p \in Parsers, NEW flush \in BOOLEAN, Told(p)
  PROVE  Told(Drain(p, flush))
  <1> DEFINE P == {q \in Parsers : Told(q)}
  <1>1. \A q \in P : Round(q, flush).p \in P
    <2> SUFFICES ASSUME NEW q \in Parsers, Told(q)
                 PROVE  Round(q, flush).p \in Parsers /\ Told(Round(q, flush).p)
      OBVIOUS
    <2>1. Round(q, flush).p \in Parsers
      BY RoundIs DEF Went
    <2> QED BY <2>1, RoundTold
  <1>2. Closed(P, flush)
    BY <1>1 DEF Closed
  <1>3. p \in P
    OBVIOUS
  <1> HIDE DEF P
  <1>4. Drain(p, flush) \in P
    BY <1>2, <1>3, DrainKeeps
  <1> QED BY <1>4 DEF P

(* Nothing has been told of nothing. *)
LEMMA FreshTold == Told(Fresh)
  <1>1. <<>> \in Seq(Byte) /\ High(<<>>)
    BY EmptySeq DEF High
  <1>2. Ascii(<<>>) = <<>> /\ Plain(<<>>) = <<>>
    BY <1>1, HighIsAway
  <1>3. OfKind(<<>>, "answer") = <<>>
    <2>1. OfKind(<<>>, "answer") = Mapped(<<>>, AnswerPart)
      BY DEF OfKind, AnswerPart
    <2>2. Mapped(<<>>, AnswerPart) = <<>>
      BY PartsMap, MappedEmpty
    <2> QED BY <2>1, <2>2
  <1>4. Fresh.answer = <<>> /\ Fresh.out = <<>>
    BY DEF Fresh
  <1> QED BY <1>2, <1>3, <1>4 DEF Told

(* emit_prose sanitizes every piece of an answer by itself, wherever drain cut
   it; still the plain text of a turn's answers is logged exactly. *)
THEOREM PlainProseHolds == Spec => []PlainProseIsExact
  <1> DEFINE Inv == TypeInv /\ Told(Parser)
  <1>1. Init => Inv
    BY InitIs, FreshTold
  <1>2. Inv /\ [Next]_vars => Inv'
    <2> SUFFICES ASSUME TypeInv, Told(Parser), [Next]_vars
                 PROVE  TypeInv' /\ Told(Parser')
      BY DEF Told
    <2>0. TraceAssumption /\ Parser \in Parsers
      BY TraceAssumption DEF TypeInv
    <2>1. TypeInv'
      BY <2>0, Steps
    <2>2. CASE Begins
      BY <2>1, <2>2, FreshTold DEF Begins
    <2>3. CASE Waits
      BY <2>1, <2>3 DEF Waits
    <2>4. ASSUME NEW t \in Seq(Byte), Takes(t)
          PROVE  Told(Parser')
      <3>1. Given(Parser, t) \in Parsers
        BY <2>0, GivenIs
      <3>2. Told(Given(Parser, t))
        <4>1. Given(Parser, t).out = Parser.out /\ Given(Parser, t).answer = Parser.answer
          BY <2>0, GivenIs
        <4> QED BY <4>1 DEF Told
      <3> QED BY <2>0, <2>4, <3>1, <3>2, DrainTold DEF Takes
    <2>5. CASE Drains
      BY <2>0, <2>1, <2>5, DrainTold DEF Drains
    <2>6. CASE Flushes
      BY <2>0, <2>1, <2>6, DrainTold DEF Flushes
    <2> QED BY <2>0, <2>1, <2>2, <2>3, <2>4, <2>5, <2>6, Steps
  <1>3. Inv /\ SplitIsRight => PlainProseIsExact
    <2> SUFFICES ASSUME Told(Parser), SplitIsRight, ~stalls, over, acc = <<>>
                 PROVE  Ascii(answer) = Plain(OfKind(TurnOf(fed), "answer"))
      BY DEF PlainProseIsExact
    <2>1. out = TurnOf(fed)
      BY DEF SplitIsRight
    <2>2. Parser.out = out /\ Parser.answer = answer
      BY DEF Parser
    <2> QED BY <2>1, <2>2 DEF Told
  <1> QED BY <1>1, <1>2, <1>3, SplitHolds, PTL DEF Spec

=============================================================================
