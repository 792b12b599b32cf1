------------------------------ MODULE TextProofs ------------------------------
(***************************************************************************)
(* What the text helpers do, for every sequence of bytes.                  *)
(*                                                                         *)
(* The scanners are recursive functions.  That one exists is shown once    *)
(* (Recursion), for a functional that is itself a function and a rank that *)
(* falls at every call; what a scanner returns is then shown by induction  *)
(* on a set of numbers (Induct).                                           *)
(***************************************************************************)
EXTENDS Text, SequenceTheorems, WellFoundedInduction, NaturalsInduction, TLAPS

(* A set of numbers that has no least element is empty. *)
LEMMA Least ==
  ASSUME NEW T \in SUBSET Nat, T # {}
  PROVE  \E x \in T : \A y \in T : x <= y
  <1> DEFINE R == OpToRel(<, Nat)
  <1>1. IsWellFoundedOn(R, Nat)
    BY NatLessThanWellFounded
  <1>2. \A x, y \in Nat : y < x => <<y, x>> \in R
    BY DEF OpToRel
  <1> HIDE DEF R
  <1>3. PICK x \in T : \A y \in T : ~(<<y, x>> \in R)
    BY <1>1, WFMin
  <1>4. \A y \in T : ~(y < x)
    BY <1>2, <1>3
  <1> QED BY <1>4

(* Induction, over a set of numbers. *)
LEMMA Induct ==
  ASSUME NEW T \in SUBSET Nat, 0 \in T, \A n \in T : n + 1 \in T
  PROVE  T = Nat
  <1> SUFFICES ASSUME Nat \ T # {} PROVE FALSE
    OBVIOUS
  <1>1. PICK x \in Nat \ T : \A y \in Nat \ T : x <= y
    <2>1. Nat \ T \in SUBSET Nat
      OBVIOUS
    <2> QED BY <2>1, Least
  <1>2. x # 0 /\ x - 1 \in Nat
    BY <1>1
  <1>3. x - 1 \in T
    BY <1>1, <1>2
  <1>4. (x - 1) + 1 \in T
    BY <1>3
  <1> QED BY <1>1, <1>2, <1>4

(* Induction from the end of a sequence to its beginning. *)
LEMMA Downward ==
  ASSUME NEW n \in Nat, NEW T \in SUBSET (1 .. n),
         \A i \in 1 .. n : (\A k \in i + 1 .. n : k \in T) => i \in T
  PROVE  T = 1 .. n
  <1> DEFINE W == {n - i : i \in (1 .. n) \ T}
  <1> SUFFICES ASSUME (1 .. n) \ T # {} PROVE FALSE
    OBVIOUS
  <1>1. W \in SUBSET Nat
    OBVIOUS
  <1>2. W # {}
    <2>1. PICK i \in (1 .. n) \ T : TRUE
      OBVIOUS
    <2>2. n - i \in W
      OBVIOUS
    <2> QED BY <2>2
  <1>3. PICK w \in W : \A v \in W : w <= v
    <2> HIDE DEF W
    <2> QED BY <1>1, <1>2, Least
  <1>4. PICK i \in (1 .. n) \ T : w = n - i
    OBVIOUS
  <1>5. \A k \in i + 1 .. n : k \in T
    <2> SUFFICES ASSUME NEW k \in i + 1 .. n, k \notin T PROVE FALSE
      OBVIOUS
    <2>1. k \in (1 .. n) \ T
      OBVIOUS
    <2>2. n - k \in W
      BY <2>1
    <2>3. w <= n - k
      BY <1>3, <2>2
    <2> QED BY <2>1, <2>3, <1>4
  <1> QED BY <1>4, <1>5

(* Induction where all lower numbers may be used. *)
LEMMA StrongInduct ==
  ASSUME NEW T \in SUBSET Nat, \A n \in Nat : (\A k \in Nat : k < n => k \in T) => n \in T
  PROVE  T = Nat
  <1> SUFFICES ASSUME Nat \ T # {} PROVE FALSE
    OBVIOUS
  <1>1. PICK x \in Nat \ T : \A y \in Nat \ T : x <= y
    <2>1. Nat \ T \in SUBSET Nat
      OBVIOUS
    <2> QED BY <2>1, Least
  <1>2. \A k \in Nat : k < x => k \in T
    BY <1>1
  <1> QED BY <1>1, <1>2

(* A functional whose value at x only depends on values of lower rank has  *)
(* a fixed point.                                                          *)
Recursive(D, T, rank, F) ==
  /\ T # {} /\ rank \in [D -> Nat] /\ F \in [D -> [[D -> T] -> T]]
  /\ \A x \in D : \A f, g \in [D -> T] :
       (\A y \in D : rank[y] < rank[x] => f[y] = g[y]) => F[x][f] = F[x][g]

HasFixpoint(D, T, F) == \E f \in [D -> T] : \A x \in D : f[x] = F[x][f]

LEMMA Recursion ==
  ASSUME NEW D, NEW T, NEW rank, NEW F, Recursive(D, T, rank, F)
  PROVE  HasFixpoint(D, T, F)
  <1> SUFFICES ASSUME T # {}, rank \in [D -> Nat], F \in [D -> [[D -> T] -> T]],
                      \A x \in D : \A f, g \in [D -> T] :
                        (\A y \in D : rank[y] < rank[x] => f[y] = g[y]) => F[x][f] = F[x][g]
               PROVE  \E f \in [D -> T] : \A x \in D : f[x] = F[x][f]
    BY DEF Recursive, HasFixpoint
  <1> DEFINE Upto(n) == {f \in [D -> T] : \A x \in D : rank[x] < n => f[x] = F[x][f]}
             N == {n \in Nat : Upto(n) # {}}
  <1>1. 0 \in N
    <2>1. PICK t \in T : TRUE
      OBVIOUS
    <2>2. [x \in D |-> t] \in Upto(0)
      OBVIOUS
    <2> QED BY <2>2
  <1>2. ASSUME NEW n \in Nat, Upto(n) # {} PROVE Upto(n + 1) # {}
    <2>1. PICK f \in [D -> T] : \A x \in D : rank[x] < n => f[x] = F[x][f]
      BY <1>2
    <2> DEFINE g == [x \in D |-> IF rank[x] = n THEN F[x][f] ELSE f[x]]
    <2>2. g \in [D -> T]
      OBVIOUS
    <2>3. \A x \in D : rank[x] < n => g[x] = f[x]
      OBVIOUS
    <2>4. \A x \in D : rank[x] = n => g[x] = F[x][f]
      OBVIOUS
    <2> HIDE DEF g
    <2>5. ASSUME NEW x \in D, rank[x] < n + 1 PROVE g[x] = F[x][g]
      <3>1. rank[x] \in Nat /\ n \in Nat
        OBVIOUS
      <3>2. \A y \in D : rank[y] < rank[x] => f[y] = g[y]
        <4> SUFFICES ASSUME NEW y \in D, rank[y] < rank[x] PROVE f[y] = g[y]
          OBVIOUS
        <4>1. rank[y] \in Nat
          OBVIOUS
        <4>2. rank[y] < n
          BY <2>5, <3>1, <4>1
        <4> QED BY <4>2, <2>3
      <3>3. F[x][f] = F[x][g]
        BY <3>2, <2>2
      <3>4. CASE rank[x] = n
        BY <3>3, <3>4, <2>4
      <3>5. CASE rank[x] < n
        BY <3>3, <3>5, <2>3, <2>1
      <3>6. rank[x] = n \/ rank[x] < n
        <4>1. \A r, k \in Nat : r < k + 1 => r = k \/ r < k
          OBVIOUS
        <4> QED BY ONLY <2>5, <3>1, <4>1
      <3> QED BY <3>6, <3>4, <3>5
    <2>6. g \in Upto(n + 1)
      BY <2>2, <2>5
    <2> QED BY <2>6
  <1>3. N = Nat
    <2>1. N \in SUBSET Nat
      OBVIOUS
    <2>2. \A n \in N : n + 1 \in N
      <3> HIDE DEF Upto
      <3> QED BY <1>2
    <2> HIDE DEF N
    <2> QED BY <1>1, <2>1, <2>2, Induct
  <1>4. \A n \in Nat : \E f : f \in Upto(n)
    BY <1>3
  <1> DEFINE At(n) == CHOOSE f : f \in Upto(n)
  <1>5. \A n \in Nat : At(n) \in Upto(n)
    BY <1>4
  <1>6. \A n \in Nat : At(n) \in [D -> T] /\ \A x \in D : rank[x] < n => At(n)[x] = F[x][At(n)]
    BY <1>5
  <1> HIDE DEF At
  (* Two of them agree on the ranks of both. *)
  <1>7. ASSUME NEW m \in Nat, NEW n \in Nat, NEW x \in D, rank[x] < m, rank[x] < n
        PROVE  At(m)[x] = At(n)[x]
    <2> DEFINE W == {rank[y] : y \in {y \in D : /\ rank[y] < m /\ rank[y] < n
                                                /\ At(m)[y] # At(n)[y]}}
    <2> SUFFICES ASSUME W # {} PROVE FALSE
      BY <1>7
    <2>1. W \in SUBSET Nat
      OBVIOUS
    <2>2. PICK r \in W : \A k \in W : r <= k
      <3> HIDE DEF W
      <3> QED BY <2>1, Least
    <2>3. PICK y \in D : rank[y] = r /\ rank[y] < m /\ rank[y] < n /\ At(m)[y] # At(n)[y]
      OBVIOUS
    <2>4. \A z \in D : rank[z] < rank[y] => At(m)[z] = At(n)[z]
      <3> SUFFICES ASSUME NEW z \in D, rank[z] < rank[y], At(m)[z] # At(n)[z] PROVE FALSE
        OBVIOUS
      <3>1. rank[z] \in Nat /\ rank[y] \in Nat
        OBVIOUS
      <3>2. rank[z] < m /\ rank[z] < n
        BY <2>3, <3>1
      <3>3. rank[z] \in W
        BY <3>2
      <3>4. r <= rank[z]
        BY <3>3, <2>2
      <3> QED BY <3>1, <3>4, <2>3
    <2>5. F[y][At(m)] = F[y][At(n)]
      BY <2>4, <1>6
    <2> QED BY <2>3, <2>5, <1>6
  <1> DEFINE h == [x \in D |-> At(rank[x] + 1)[x]]
  <1>8. h \in [D -> T]
    BY <1>6
  <1>9. \A x \in D : h[x] = At(rank[x] + 1)[x]
    OBVIOUS
  <1> HIDE DEF h
  <1>10. ASSUME NEW x \in D PROVE h[x] = F[x][h]
    <2> DEFINE n == rank[x] + 1
    <2>1. n \in Nat /\ rank[x] < n
      OBVIOUS
    <2>2. \A y \in D : rank[y] < rank[x] => At(n)[y] = h[y]
      <3> SUFFICES ASSUME NEW y \in D, rank[y] < rank[x] PROVE At(n)[y] = h[y]
        OBVIOUS
      <3>1. rank[y] \in Nat /\ rank[x] \in Nat
        OBVIOUS
      <3>2. rank[y] < n /\ rank[y] < rank[y] + 1 /\ rank[y] + 1 \in Nat
        BY <3>1
      <3> HIDE DEF n
      <3>3. At(n)[y] = At(rank[y] + 1)[y]
        BY <2>1, <3>2, <1>7
      <3> QED BY <3>3, <1>9
    <2> HIDE DEF n
    <2>3. F[x][At(n)] = F[x][h]
      BY <2>1, <2>2, <1>6, <1>8
    <2>4. h[x] = At(n)[x]
      BY <1>9 DEF n
    <2> QED BY <2>1, <2>3, <2>4, <1>6
  <1> QED BY <1>8, <1>10

-----------------------------------------------------------------------------
(* Sequences.                                                              *)

LEMMA FromIs ==
  ASSUME NEW S, NEW s \in Seq(S), NEW i \in 1 .. Len(s) + 1
  PROVE  /\ From(s, i) \in Seq(S)
         /\ Len(From(s, i)) = Len(s) + 1 - i
         /\ \A k \in 1 .. Len(s) + 1 - i : From(s, i)[k] = s[i + k - 1]
  <1>1. Len(s) \in Nat /\ \A k \in i .. Len(s) : s[k] \in S
    <2>1. Len(s) \in Nat
      BY LenProperties
    <2> QED BY <2>1, ElementOfSeq
  <1>2. /\ SubSeq(s, i, Len(s)) \in Seq(S)
        /\ Len(SubSeq(s, i, Len(s))) = IF i <= Len(s) THEN Len(s) - i + 1 ELSE 0
        /\ \A k \in 1 .. Len(s) - i + 1 : SubSeq(s, i, Len(s))[k] = s[i + k - 1]
    BY <1>1, SubSeqProperties
  <1>3. Len(s) + 1 - i = IF i <= Len(s) THEN Len(s) - i + 1 ELSE 0
    BY <1>1
  <1>4. \A k \in 1 .. Len(s) + 1 - i : k \in 1 .. Len(s) - i + 1
    BY <1>1
  <1> QED BY <1>2, <1>3, <1>4 DEF From

LEMMA UpToIs ==
  ASSUME NEW S, NEW s \in Seq(S), NEW n \in 0 .. Len(s)
  PROVE  /\ SubSeq(s, 1, n) \in Seq(S)
         /\ Len(SubSeq(s, 1, n)) = n
         /\ \A k \in 1 .. n : SubSeq(s, 1, n)[k] = s[k]
  <1>1. Len(s) \in Nat /\ \A k \in 1 .. n : s[k] \in S
    <2>1. Len(s) \in Nat
      BY LenProperties
    <2> QED BY <2>1, ElementOfSeq
  <1>2. /\ SubSeq(s, 1, n) \in Seq(S)
        /\ Len(SubSeq(s, 1, n)) = IF 1 <= n THEN n - 1 + 1 ELSE 0
        /\ \A k \in 1 .. n - 1 + 1 : SubSeq(s, 1, n)[k] = s[1 + k - 1]
    BY <1>1, SubSeqProperties
  <1>3. n - 1 + 1 = n /\ (~(1 <= n) => n = 0) /\ \A k \in 1 .. n : 1 + k - 1 = k
    BY <1>1
  <1> QED BY <1>2, <1>3

(* A sequence is what is up to a place and what is from there on. *)
LEMMA CutAt ==
  ASSUME NEW S, NEW s \in Seq(S), NEW n \in 0 .. Len(s)
  PROVE  SubSeq(s, 1, n) \o From(s, n + 1) = s
  <1>1. Len(s) \in Nat /\ n + 1 \in 1 .. Len(s) + 1
    BY LenProperties
  <1>2. CASE Len(s) = 0
    <2>1. s = <<>> /\ SubSeq(s, 1, n) = <<>> /\ From(s, n + 1) = <<>>
      BY <1>1, <1>2, EmptySeq, SubSeqEmpty DEF From
    <2> QED BY <2>1
  <1>3. CASE Len(s) # 0
    <2>1. SubSeq(s, 1, n) \o SubSeq(s, n + 1, Len(s)) = SubSeq(s, 1, Len(s))
      <3>1. 1 \in 1 .. Len(s) + 1 /\ n \in 1 - 1 .. Len(s) /\ Len(s) \in n .. Len(s)
        BY <1>1
      <3> QED BY <3>1, ConcatAdjacentSubSeq
    <2> QED BY <2>1, SubSeqFull DEF From
  <1> QED BY <1>2, <1>3

(* The rest of a concatenation after its first part. *)
LEMMA FromConcat ==
  ASSUME NEW S, NEW a \in Seq(S), NEW b \in Seq(S), NEW i \in 1 .. Len(b) + 1
  PROVE  /\ Len(a) + i \in 1 .. Len(a \o b) + 1
         /\ From(a \o b, Len(a) + i) = From(b, i)
  <1>1. /\ a \o b \in Seq(S) /\ Len(a \o b) = Len(a) + Len(b)
        /\ \A k \in 1 .. Len(a) + Len(b) :
             (a \o b)[k] = IF k <= Len(a) THEN a[k] ELSE b[k - Len(a)]
    BY ConcatProperties
  <1>2. Len(a) \in Nat /\ Len(b) \in Nat
    BY LenProperties
  <1>3. Len(a) + i \in 1 .. Len(a \o b) + 1
    BY <1>1, <1>2
  <1>4. /\ From(a \o b, Len(a) + i) \in Seq(S)
        /\ Len(From(a \o b, Len(a) + i)) = Len(a \o b) + 1 - (Len(a) + i)
        /\ \A k \in 1 .. Len(a \o b) + 1 - (Len(a) + i) :
             From(a \o b, Len(a) + i)[k] = (a \o b)[Len(a) + i + k - 1]
    <2> DEFINE c == a \o b
               n == Len(a) + i
    <2>1. c \in Seq(S) /\ n \in 1 .. Len(c) + 1
      BY <1>1, <1>3
    <2> HIDE DEF c, n
    <2>2. /\ From(c, n) \in Seq(S) /\ Len(From(c, n)) = Len(c) + 1 - n
          /\ \A k \in 1 .. Len(c) + 1 - n : From(c, n)[k] = c[n + k - 1]
      BY <2>1, FromIs
    <2> QED BY <2>2 DEF c, n
  <1>5. /\ From(b, i) \in Seq(S)
        /\ Len(From(b, i)) = Len(b) + 1 - i
        /\ \A k \in 1 .. Len(b) + 1 - i : From(b, i)[k] = b[i + k - 1]
    BY FromIs
  <1>6. Len(a \o b) + 1 - (Len(a) + i) = Len(b) + 1 - i
    BY <1>1, <1>2
  <1>7. ASSUME NEW k \in 1 .. Len(b) + 1 - i
        PROVE  (a \o b)[Len(a) + i + k - 1] = b[i + k - 1]
    <2>1. /\ Len(a) + i + k - 1 \in 1 .. Len(a) + Len(b)
          /\ ~(Len(a) + i + k - 1 <= Len(a))
          /\ Len(a) + i + k - 1 - Len(a) = i + k - 1
      BY <1>2
    <2> QED BY <2>1, <1>1
  <1>8. From(a \o b, Len(a) + i) = From(b, i)
    BY <1>4, <1>5, <1>6, <1>7, SeqEqual
  <1> QED BY <1>3, <1>8

(* A cut of a cut. *)
LEMMA FromFrom ==
  ASSUME NEW S, NEW s \in Seq(S), NEW i \in 1 .. Len(s) + 1,
         NEW k \in 1 .. Len(From(s, i)) + 1
  PROVE  /\ i + k - 1 \in 1 .. Len(s) + 1
         /\ From(From(s, i), k) = From(s, i + k - 1)
  <1>1. Len(s) \in Nat /\ i - 1 \in 0 .. Len(s)
    BY LenProperties
  <1>2. /\ SubSeq(s, 1, i - 1) \in Seq(S) /\ Len(SubSeq(s, 1, i - 1)) = i - 1
    BY <1>1, UpToIs
  <1>3. SubSeq(s, 1, i - 1) \o From(s, i) = s
    <2>1. (i - 1) + 1 = i
      BY <1>1
    <2> QED BY <1>1, <2>1, CutAt
  <1>4. From(s, i) \in Seq(S)
    BY FromIs
  <1>5. From(s, (i - 1) + k) = From(From(s, i), k) /\ (i - 1) + k \in 1 .. Len(s) + 1
    <2> DEFINE a == SubSeq(s, 1, i - 1)
               b == From(s, i)
    <2>1. a \in Seq(S) /\ b \in Seq(S) /\ Len(a) = i - 1 /\ a \o b = s /\ k \in 1 .. Len(b) + 1
      BY <1>2, <1>3, <1>4
    <2> HIDE DEF a, b
    <2>2. Len(a) + k \in 1 .. Len(a \o b) + 1 /\ From(a \o b, Len(a) + k) = From(b, k)
      BY <2>1, FromConcat
    <2> QED BY <2>1, <2>2 DEF b
  <1>6. Len(From(s, i)) \in Nat
    BY <1>4, LenProperties
  <1>7. (i - 1) + k = i + k - 1
    BY <1>1, <1>6
  <1> QED BY <1>5, <1>7

LEMMA FromFirst ==
  ASSUME NEW S, NEW s \in Seq(S)
  PROVE  From(s, 1) = s /\ From(s, Len(s) + 1) = <<>>
  <1>1. Len(s) \in Nat
    BY LenProperties
  <1> QED BY <1>1, SubSeqFull, SubSeqEmpty DEF From

LEMMA ConcatIs ==
  ASSUME NEW S, NEW a \in Seq(S), NEW b \in Seq(S)
  PROVE  /\ a \o b \in Seq(S) /\ Len(a \o b) = Len(a) + Len(b)
         /\ Len(a) \in Nat /\ Len(b) \in Nat
         /\ \A i \in 1 .. Len(a) : (a \o b)[i] = a[i]
         /\ \A i \in 1 .. Len(b) : (a \o b)[Len(a) + i] = b[i]
  <1>1. Len(a) \in Nat /\ Len(b) \in Nat
    BY LenProperties
  <1>2. /\ a \o b \in Seq(S) /\ Len(a \o b) = Len(a) + Len(b)
        /\ \A i \in 1 .. Len(a) + Len(b) :
             (a \o b)[i] = IF i <= Len(a) THEN a[i] ELSE b[i - Len(a)]
    BY ConcatProperties
  <1>3. \A i \in 1 .. Len(a) : (a \o b)[i] = a[i]
    BY <1>1, <1>2
  <1>4. ASSUME NEW i \in 1 .. Len(b) PROVE (a \o b)[Len(a) + i] = b[i]
    <2>1. Len(a) + i \in 1 .. Len(a) + Len(b) /\ ~(Len(a) + i <= Len(a)) /\ Len(a) + i - Len(a) = i
      BY <1>1
    <2> QED BY <2>1, <1>2
  <1> QED BY <1>1, <1>2, <1>3, <1>4

LEMMA FromStep ==
  ASSUME NEW S, NEW s \in Seq(S), NEW i \in 1 .. Len(s)
  PROVE  <<s[i]>> \o From(s, i + 1) = From(s, i)
  <1>0. Len(s) \in Nat /\ i \in 1 .. Len(s) + 1 /\ i + 1 \in 1 .. Len(s) + 1 /\ s[i] \in S
    BY LenProperties, ElementOfSeq
  <1> DEFINE a == <<s[i]>>
             t == From(s, i + 1)
             f == From(s, i)
  <1>1. t \in Seq(S) /\ Len(t) = Len(s) - i /\ \A k \in 1 .. Len(s) - i : t[k] = s[i + k]
    <2>1. /\ From(s, i + 1) \in Seq(S) /\ Len(From(s, i + 1)) = Len(s) + 1 - (i + 1)
          /\ \A k \in 1 .. Len(s) + 1 - (i + 1) : From(s, i + 1)[k] = s[(i + 1) + k - 1]
      BY <1>0, FromIs
    <2>2. Len(s) + 1 - (i + 1) = Len(s) - i /\ \A k \in 1 .. Len(s) - i : (i + 1) + k - 1 = i + k
      BY <1>0
    <2> QED BY <2>1, <2>2
  <1>2. f \in Seq(S) /\ Len(f) = Len(s) + 1 - i /\ \A k \in 1 .. Len(s) + 1 - i : f[k] = s[i + k - 1]
    BY <1>0, FromIs
  <1>3. a \in Seq(S) /\ Len(a) = 1 /\ a[1] = s[i]
    BY <1>0
  <1> HIDE DEF a, t, f
  <1>4. /\ a \o t \in Seq(S) /\ Len(a \o t) = 1 + Len(t)
        /\ \A k \in 1 .. Len(a) : (a \o t)[k] = a[k]
        /\ \A k \in 1 .. Len(t) : (a \o t)[1 + k] = t[k]
    <2>1. /\ a \o t \in Seq(S) /\ Len(a \o t) = Len(a) + Len(t)
          /\ \A k \in 1 .. Len(a) : (a \o t)[k] = a[k]
          /\ \A k \in 1 .. Len(t) : (a \o t)[Len(a) + k] = t[k]
      <3>1. a \in Seq(S) /\ t \in Seq(S)
        BY <1>1, <1>3
      <3> QED BY <3>1, ConcatIs
    <2> QED BY <1>3, <2>1
  <1>5. Len(a \o t) = Len(f)
    BY <1>0, <1>1, <1>2, <1>4
  <1>6. ASSUME NEW k \in 1 .. Len(f) PROVE (a \o t)[k] = f[k]
    <2>1. CASE k = 1
      <3>1. f[1] = s[i + 1 - 1] /\ i + 1 - 1 = i
        BY <1>0, <1>2
      <3>2. (a \o t)[1] = a[1]
        BY <1>3, <1>4
      <3> QED BY <1>3, <2>1, <3>1, <3>2
    <2>2. CASE k # 1
      <3>1. PICK m \in 1 .. Len(s) - i : k = 1 + m
        <4>1. k - 1 \in 1 .. Len(s) - i /\ k = 1 + (k - 1)
          BY <1>0, <1>2, <2>2
        <4> QED BY <4>1
      <3>2. (a \o t)[1 + m] = t[m] /\ t[m] = s[i + m]
        BY <1>1, <1>4
      <3>3. f[k] = s[i + k - 1] /\ i + k - 1 = i + m
        BY <1>0, <1>2, <3>1
      <3> QED BY <3>1, <3>2, <3>3
    <2> QED BY <2>1, <2>2
  <1>7. a \o t = f
    BY <1>2, <1>4, <1>5, <1>6, SeqEqual
  <1> QED BY <1>7 DEF a, t, f

-----------------------------------------------------------------------------
(* Characters.                                                             *)

LEMMA ByteIs == \A b : b \in Byte <=> b \in Nat /\ b < 256
  BY SMTT(30) DEF Byte

(* What Unicode allows as the value of a character. *)
IsCode(cp) == cp \in Nat /\ cp <= 1114111
IsScalar(cp) == IsCode(cp) /\ ~IsHigh(cp) /\ ~IsLow(cp)

LEMMA EncodeForms ==
  ASSUME NEW cp \in Nat
  PROVE  /\ cp < 128 => Encode(cp) = <<cp>>
         /\ cp >= 128 /\ cp < 2048 => Encode(cp) = <<192 + (cp \div 64), 128 + (cp % 64)>>
         /\ cp >= 2048 /\ cp < 65536 =>
              Encode(cp) = <<224 + (cp \div 4096), 128 + ((cp \div 64) % 64), 128 + (cp % 64)>>
         /\ cp >= 65536 =>
              Encode(cp) = <<240 + (cp \div 262144), 128 + ((cp \div 4096) % 64),
                             128 + ((cp \div 64) % 64), 128 + (cp % 64)>>
  <1>1. cp < 128 => Encode(cp) = <<cp>>
    BY SMT DEF Encode
  <1>2. cp >= 128 /\ cp < 2048 => Encode(cp) = <<192 + (cp \div 64), 128 + (cp % 64)>>
    BY SMT DEF Encode
  <1>3. cp >= 2048 /\ cp < 65536 =>
          Encode(cp) = <<224 + (cp \div 4096), 128 + ((cp \div 64) % 64), 128 + (cp % 64)>>
    BY SMT DEF Encode
  <1>4. cp >= 65536 =>
          Encode(cp) = <<240 + (cp \div 262144), 128 + ((cp \div 4096) % 64),
                         128 + ((cp \div 64) % 64), 128 + (cp % 64)>>
    BY SMT DEF Encode
  <1> QED BY <1>1, <1>2, <1>3, <1>4, SMT

LEMMA CodePointForms ==
  ASSUME NEW s
  PROVE  /\ CodePoint(s, 1) = s[1]
         /\ CodePoint(s, 2) = (s[1] % 32) * 64 + (s[2] % 64)
         /\ CodePoint(s, 3) = (s[1] % 16) * 4096 + (s[2] % 64) * 64 + (s[3] % 64)
         /\ CodePoint(s, 4) = (s[1] % 8) * 262144 + (s[2] % 64) * 4096 + (s[3] % 64) * 64
                                + (s[4] % 64)
  <1>1. CodePoint(s, 1) = s[1]
    BY SMT DEF CodePoint
  <1>2. CodePoint(s, 2) = (s[1] % 32) * 64 + (s[2] % 64)
    BY SMT DEF CodePoint
  <1>3. CodePoint(s, 3) = (s[1] % 16) * 4096 + (s[2] % 64) * 64 + (s[3] % 64)
    BY SMT DEF CodePoint
  <1>4. CodePoint(s, 4) = (s[1] % 8) * 262144 + (s[2] % 64) * 4096 + (s[3] % 64) * 64
                            + (s[4] % 64)
    BY SMT DEF CodePoint
  <1> QED BY <1>1, <1>2, <1>3, <1>4, SMT

LEMMA EncodeIs ==
  ASSUME NEW cp, IsCode(cp)
  PROVE  /\ Encode(cp) \in Seq(Byte)
         /\ Len(Encode(cp)) \in {1, 2, 3, 4}
         /\ Encode(cp) # <<>>
  <1>0. cp \in Nat
    BY DEF IsCode
  <1>1. CASE cp < 128
    <2>1. Encode(cp) = <<cp>>
      BY <1>0, <1>1, SMT DEF Encode
    <2>2. cp \in Byte
      BY <1>0, <1>1, ByteIs, SMT
    <2> QED BY <2>1, <2>2
  <1>2. CASE cp >= 128 /\ cp < 2048
    <2>1. Encode(cp) = <<192 + (cp \div 64), 128 + (cp % 64)>>
      BY <1>0, <1>2, SMT DEF Encode
    <2>2. 192 + (cp \div 64) \in Nat /\ 192 + (cp \div 64) < 256
      BY <1>0, <1>2, SMT
    <2>3. 128 + (cp % 64) \in Nat /\ 128 + (cp % 64) < 256
      BY <1>0, SMT
    <2>4. 192 + (cp \div 64) \in Byte /\ 128 + (cp % 64) \in Byte
      BY <2>2, <2>3, ByteIs
    <2> QED BY <2>1, <2>4
  <1>3. CASE cp >= 2048 /\ cp < 65536
    <2>1. Encode(cp) = <<224 + (cp \div 4096), 128 + ((cp \div 64) % 64), 128 + (cp % 64)>>
      BY <1>0, <1>3, SMT DEF Encode
    <2>2. 224 + (cp \div 4096) \in Nat /\ 224 + (cp \div 4096) < 256
      BY <1>0, <1>3, SMT
    <2>3. /\ 128 + (cp % 64) \in Nat /\ 128 + (cp % 64) < 256
          /\ 128 + ((cp \div 64) % 64) \in Nat /\ 128 + ((cp \div 64) % 64) < 256
      BY <1>0, SMT
    <2>4. /\ 224 + (cp \div 4096) \in Byte /\ 128 + (cp % 64) \in Byte
          /\ 128 + ((cp \div 64) % 64) \in Byte
      BY <2>2, <2>3, ByteIs
    <2> QED BY <2>1, <2>4
  <1>4. CASE cp >= 65536
    <2>1. Encode(cp) = <<240 + (cp \div 262144), 128 + ((cp \div 4096) % 64),
                         128 + ((cp \div 64) % 64), 128 + (cp % 64)>>
      BY <1>0, <1>4, SMT DEF Encode
    <2>2. 240 + (cp \div 262144) \in Nat /\ 240 + (cp \div 262144) < 256
      BY <1>0, SMT DEF IsCode
    <2>3. /\ 128 + (cp % 64) \in Nat /\ 128 + (cp % 64) < 256
          /\ 128 + ((cp \div 64) % 64) \in Nat /\ 128 + ((cp \div 64) % 64) < 256
          /\ 128 + ((cp \div 4096) % 64) \in Nat /\ 128 + ((cp \div 4096) % 64) < 256
      BY <1>0, SMT
    <2>4. /\ 240 + (cp \div 262144) \in Byte /\ 128 + (cp % 64) \in Byte
          /\ 128 + ((cp \div 64) % 64) \in Byte /\ 128 + ((cp \div 4096) % 64) \in Byte
      BY <2>2, <2>3, ByteIs, SMT
    <2> QED BY <2>1, <2>4, SMT
  <1> QED BY <1>0, <1>1, <1>2, <1>3, <1>4, SMT

LEMMA CodePointIs ==
  ASSUME NEW s \in Seq(Byte), NEW n \in {1, 2, 3, 4}, n <= Len(s)
  PROVE  CodePoint(s, n) \in Nat
  <1>1. \A i \in 1 .. n : s[i] \in Nat
    <2>1. Len(s) \in Nat
      BY LenProperties
    <2> QED BY <2>1, ElementOfSeq, ByteIs
  <1>2. CASE n = 1
    <2>1. s[1] \in Nat
      BY <1>1, <1>2
    <2> QED BY <1>2, <2>1, SMT DEF CodePoint
  <1>3. CASE n = 2
    <2>1. s[1] \in Nat /\ s[2] \in Nat
      BY <1>1, <1>3
    <2> QED BY <1>3, <2>1, SMT DEF CodePoint
  <1>4. CASE n = 3
    <2>1. s[1] \in Nat /\ s[2] \in Nat /\ s[3] \in Nat
      BY <1>1, <1>4
    <2> QED BY <1>4, <2>1, SMTT(30) DEF CodePoint
  <1>5. CASE n = 4
    <2>1. s[1] \in Nat /\ s[2] \in Nat /\ s[3] \in Nat /\ s[4] \in Nat
      BY <1>1, <1>5
    <2>2. \A a \in Nat : a % 8 \in Nat /\ a % 64 \in Nat
      BY SMT
    <2>3. PICK a \in Nat : a = s[1] % 8
      BY <2>1, <2>2
    <2>4. PICK b \in Nat : b = s[2] % 64
      BY <2>1, <2>2
    <2>5. PICK c \in Nat : c = s[3] % 64
      BY <2>1, <2>2
    <2>6. PICK d \in Nat : d = s[4] % 64
      BY <2>1, <2>2
    <2>7. CodePoint(s, n) = a * 262144 + b * 4096 + c * 64 + d
      BY <1>5, <2>3, <2>4, <2>5, <2>6, SMT DEF CodePoint
    <2> QED BY <2>7, SMT
  <1> QED BY <1>2, <1>3, <1>4, <1>5

(* One sequence of bytes has one meaning at most, and one that is allowed. *)
LEMMA ScalarIs ==
  ASSUME NEW s \in Seq(Byte), s # <<>>, NEW n, n = SeqLen(s[1]), n \in 1 .. Len(s),
         NeedsBytes(n, CodePoint(s, n))
  PROVE  n \in {1, 2, 3, 4} /\ IsScalar(CodePoint(s, n))
  <1>0. n \in {0, 1, 2, 3, 4}
    BY SMT DEF SeqLen
  <1>1. n \in {1, 2, 3, 4} /\ n <= Len(s)
    BY <1>0, LenProperties
  <1>2. \A i \in 1 .. n : s[i] \in Byte
    BY <1>1, LenProperties, ElementOfSeq
  <1>3. CASE n = 1
    <2>1. s[1] \in Nat /\ s[1] < 256
      BY <1>2, <1>3, ByteIs
    <2>2. s[1] \div 128 = 0
      BY <2>1, <1>3, SMT DEF SeqLen
    <2> QED BY <1>1, <1>3, <2>1, <2>2, SMT DEF CodePoint, IsScalar, IsCode, IsHigh, IsLow
  <1>4. CASE n = 2
    <2>1. s[1] \in Nat /\ s[2] \in Nat
      BY <1>2, <1>4, ByteIs
    <2>2. CodePoint(s, n) = (s[1] % 32) * 64 + (s[2] % 64)
      BY <1>4, SMT DEF CodePoint
    <2>3. CodePoint(s, n) \in Nat /\ CodePoint(s, n) < 2048
      BY <2>1, <2>2, SMT
    <2> QED BY <1>1, <1>4, <2>3, SMT DEF IsScalar, IsCode, IsHigh, IsLow
  <1>5. CASE n = 3
    <2>1. s[1] \in Nat /\ s[2] \in Nat /\ s[3] \in Nat
      BY <1>2, <1>5, ByteIs
    <2>2. CodePoint(s, n) = (s[1] % 16) * 4096 + (s[2] % 64) * 64 + (s[3] % 64)
      BY <1>5, SMT DEF CodePoint
    <2>5. /\ s[1] % 16 \in Nat /\ s[2] % 64 \in Nat /\ s[3] % 64 \in Nat
          /\ s[1] % 16 < 16 /\ s[2] % 64 < 64 /\ s[3] % 64 < 64
      BY <2>1, SMTT(30)
    <2>6. \A a, b, c \in Nat : a < 16 /\ b < 64 /\ c < 64 =>
            a * 4096 + b * 64 + c \in Nat /\ a * 4096 + b * 64 + c < 65536
      BY SMT
    <2>3. CodePoint(s, n) \in Nat /\ CodePoint(s, n) < 65536
      BY <2>2, <2>5, <2>6, SMTT(30)
    <2>4. ~IsHigh(CodePoint(s, n)) /\ ~IsLow(CodePoint(s, n))
      BY <1>5, SMT DEF NeedsBytes
    <2> QED BY <1>1, <2>3, <2>4, SMT DEF IsScalar, IsCode
  <1>6. CASE n = 4
    <2>1. CodePoint(s, n) \in Nat
      BY <1>1, CodePointIs
    <2>2. CodePoint(s, n) >= 65536 /\ CodePoint(s, n) <= 1114111
      BY <1>6, SMT DEF NeedsBytes
    <2> QED BY <1>1, <2>1, <2>2, SMT DEF IsScalar, IsCode, IsHigh, IsLow
  <1> QED BY <1>1, <1>3, <1>4, <1>5, <1>6

LEMMA DecodeIs ==
  ASSUME NEW s \in Seq(Byte)
  PROVE  /\ Decode(s).used \in 0 .. Len(s)
         /\ Decode(s).used # 0 => Decode(s).used \in {1, 2, 3, 4} /\ IsScalar(Decode(s).cp)
         /\ Decode(s).used # 0 => s # <<>>
         /\ Decode(s).cp \in Nat
  <1> DEFINE n == IF s = <<>> THEN 0 ELSE SeqLen(s[1])
             ok == /\ n \in 1 .. Len(s)
                   /\ \A i \in 2 .. n : Continues(s[i])
                   /\ NeedsBytes(n, CodePoint(s, n))
  <1>1. Len(s) \in Nat /\ (s = <<>> => n = 0)
    BY LenProperties
  <1>2. Decode(s) = IF ok THEN [used |-> n, cp |-> CodePoint(s, n)] ELSE Nothing
    BY DEF Decode
  <1>3. ok => s # <<>> /\ n = SeqLen(s[1]) /\ n \in 1 .. Len(s) /\ NeedsBytes(n, CodePoint(s, n))
    BY <1>1
  <1> HIDE DEF n, ok
  <1>4. ok => n \in {1, 2, 3, 4} /\ IsScalar(CodePoint(s, n))
    BY <1>3, ScalarIs
  <1>5. ok => CodePoint(s, n) \in Nat
    BY <1>4 DEF IsScalar, IsCode
  <1>6. CASE ok
    <2>1. Decode(s) = [used |-> n, cp |-> CodePoint(s, n)]
      BY <1>2, <1>6
    <2>2. n \in 0 .. Len(s)
      BY <1>1, <1>3, <1>6
    <2> QED BY <2>1, <2>2, <1>6, <1>3, <1>4, <1>5
  <1>7. CASE ~ok
    <2>1. Decode(s) = [used |-> 0, cp |-> 0]
      BY <1>2, <1>7 DEF Nothing
    <2> QED BY <2>1, <1>1
  <1> QED BY <1>6, <1>7

-----------------------------------------------------------------------------
(* The sanitizer.                                                          *)

(* What it makes of the character at i, if rest is what it makes of what   *)
(* follows.                                                                *)
SanitizeAt(s, rest, i) ==
  IF i > Len(s) THEN <<>>
  ELSE LET d == Decode(From(s, i)) IN
         IF d.used = 0 THEN Encode(Replacement) \o rest[i + Resync(From(s, i))]
         ELSE (IF Dropped(d.cp) THEN <<>> ELSE Encode(d.cp)) \o rest[i + d.used]

SanitizeRest(s) == CHOOSE rest : rest = [i \in 1 .. Len(s) + 1 |-> SanitizeAt(s, rest, i)]

LEMMA SanitizeIsRest ==
  ASSUME NEW s \in Seq(Byte)
  PROVE  Sanitize(s) = SanitizeRest(s)[1]
  BY DEF Sanitize, SanitizeRest, SanitizeAt

LEMMA ReplacementIs == IsScalar(Replacement) /\ ~Dropped(Replacement)
  BY SMT DEF Replacement, IsScalar, IsCode, IsHigh, IsLow, Dropped

(* A round at i only uses what follows. *)
LEMMA SanitizeAtIs ==
  ASSUME NEW s \in Seq(Byte), NEW i \in 1 .. Len(s) + 1, NEW f, NEW g,
         \A k \in i + 1 .. Len(s) + 1 : f[k] = g[k] /\ f[k] \in Seq(Byte)
  PROVE  SanitizeAt(s, f, i) = SanitizeAt(s, g, i) /\ SanitizeAt(s, f, i) \in Seq(Byte)
  <1>0. Len(s) \in Nat
    BY LenProperties
  <1>1. CASE i > Len(s)
    BY <1>1 DEF SanitizeAt
  <1>2. CASE ~(i > Len(s))
    <2> DEFINE d == Decode(From(s, i))
    <2>1. From(s, i) \in Seq(Byte) /\ Len(From(s, i)) = Len(s) + 1 - i
      BY FromIs
    <2>2. /\ d.used \in 0 .. Len(From(s, i)) /\ d.cp \in Nat
          /\ d.used # 0 => IsScalar(d.cp)
      BY <2>1, DecodeIs
    <2>3. SanitizeAt(s, f, i) = IF d.used = 0 THEN Encode(Replacement) \o f[i + 1]
            ELSE (IF Dropped(d.cp) THEN <<>> ELSE Encode(d.cp)) \o f[i + d.used]
      BY <1>2 DEF SanitizeAt, Resync
    <2>4. SanitizeAt(s, g, i) = IF d.used = 0 THEN Encode(Replacement) \o g[i + 1]
            ELSE (IF Dropped(d.cp) THEN <<>> ELSE Encode(d.cp)) \o g[i + d.used]
      BY <1>2 DEF SanitizeAt, Resync
    <2> HIDE DEF d
    <2>5. CASE d.used = 0
      <3>1. i + 1 \in i + 1 .. Len(s) + 1
        BY <1>0, <1>2
      <3>2. f[i + 1] = g[i + 1] /\ f[i + 1] \in Seq(Byte)
        BY <3>1
      <3>3. Encode(Replacement) \in Seq(Byte)
        BY ReplacementIs, EncodeIs DEF IsScalar
      <3> QED BY <3>2, <3>3, <2>3, <2>4, <2>5, ConcatProperties
    <2>6. CASE d.used # 0
      <3>1. i + d.used \in i + 1 .. Len(s) + 1
        BY <1>0, <1>2, <2>1, <2>2, <2>6
      <3>2. f[i + d.used] = g[i + d.used] /\ f[i + d.used] \in Seq(Byte)
        BY <3>1
      <3> DEFINE e == IF Dropped(d.cp) THEN <<>> ELSE Encode(d.cp)
      <3>3. e \in Seq(Byte)
        <4>1. Encode(d.cp) \in Seq(Byte)
          BY <2>2, <2>6, EncodeIs DEF IsScalar
        <4> QED BY <4>1, EmptySeq
      <3>4. SanitizeAt(s, f, i) = e \o f[i + d.used] /\ SanitizeAt(s, g, i) = e \o g[i + d.used]
        BY <2>3, <2>4, <2>6
      <3> HIDE DEF e
      <3> QED BY <3>2, <3>3, <3>4, ConcatProperties
    <2> QED BY <2>5, <2>6
  <1> QED BY <1>1, <1>2

LEMMA SanitizeRestIs ==
  ASSUME NEW s \in Seq(Byte)
  PROVE  /\ \A i \in 1 .. Len(s) + 1 : SanitizeRest(s)[i] = SanitizeAt(s, SanitizeRest(s), i)
         /\ \A i \in 1 .. Len(s) + 1 : SanitizeRest(s)[i] \in Seq(Byte)
  <1> DEFINE D == 1 .. Len(s) + 1
             T == Seq(Byte)
             rank == [i \in D |-> Len(s) + 1 - i]
             F == [i \in D |-> [f \in [D -> T] |-> SanitizeAt(s, f, i)]]
             r == SanitizeRest(s)
  <1>0. Len(s) \in Nat
    BY LenProperties
  <1>1. T # {}
    BY EmptySeq
  <1>2. rank \in [D -> Nat]
    BY <1>0
  <1>3. ASSUME NEW x \in D, NEW f \in [D -> T], NEW g \in [D -> T],
               \A y \in D : rank[y] < rank[x] => f[y] = g[y]
        PROVE  SanitizeAt(s, f, x) = SanitizeAt(s, g, x) /\ SanitizeAt(s, f, x) \in T
    <2>1. \A k \in x + 1 .. Len(s) + 1 : k \in D /\ rank[k] < rank[x]
      BY <1>0
    <2>2. \A k \in x + 1 .. Len(s) + 1 : f[k] = g[k] /\ f[k] \in Seq(Byte)
      BY <1>3, <2>1
    <2> QED BY <2>2, SanitizeAtIs
  <1>4. F \in [D -> [[D -> T] -> T]]
    <2>1. \A x \in D : \A f \in [D -> T] : SanitizeAt(s, f, x) \in T
      BY <1>3
    <2> QED BY <2>1
  <1>5. \A x \in D : \A f \in [D -> T] : F[x][f] = SanitizeAt(s, f, x)
    OBVIOUS
  <1>6. \E f \in [D -> T] : \A x \in D : f[x] = F[x][f]
    <2>1. \A x \in D : \A f, g \in [D -> T] :
            (\A y \in D : rank[y] < rank[x] => f[y] = g[y]) => F[x][f] = F[x][g]
      BY <1>3, <1>5
    <2> HIDE DEF D, T, rank, F, r
    <2>2. Recursive(D, T, rank, F)
      BY <1>1, <1>2, <1>4, <2>1 DEF Recursive
    <2> QED BY <2>2, Recursion DEF HasFixpoint
  <1>7. PICK f \in [D -> T] : \A x \in D : f[x] = SanitizeAt(s, f, x)
    BY <1>5, <1>6
  <1>8. f = [i \in D |-> SanitizeAt(s, f, i)]
    BY <1>7
  <1>9. r = [i \in D |-> SanitizeAt(s, r, i)]
    BY <1>8 DEF SanitizeRest
  <1>10. \A i \in D : r[i] = SanitizeAt(s, r, i)
    BY <1>9
  <1> HIDE DEF r
  <1> DEFINE I == {i \in D : r[i] \in T}
  <1>11. ASSUME NEW i \in D, \A k \in i + 1 .. Len(s) + 1 : k \in I
         PROVE  i \in I
    <2>1. \A k \in i + 1 .. Len(s) + 1 : r[k] = r[k] /\ r[k] \in Seq(Byte)
      BY <1>11
    <2>2. SanitizeAt(s, r, i) \in Seq(Byte)
      BY <2>1, SanitizeAtIs
    <2> QED BY <2>2, <1>10
  <1>12. I = D
    <2>1. I \in SUBSET D /\ Len(s) + 1 \in Nat
      BY <1>0
    <2> HIDE DEF I
    <2> QED BY <1>11, <2>1, Downward
  <1> QED BY <1>10, <1>12 DEF r

(* What it makes of the rest of a text is what it makes of that rest as a  *)
(* text of its own.                                                        *)
LEMMA SanitizeShift ==
  ASSUME NEW s \in Seq(Byte), NEW j \in 1 .. Len(s) + 1
  PROVE  SanitizeRest(s)[j] = Sanitize(From(s, j))
  <1> DEFINE u == From(s, j)
             D == 1 .. Len(u) + 1
             a == SanitizeRest(u)
             b == SanitizeRest(s)
             I == {i \in D : a[i] = b[i + j - 1]}
  <1>0. Len(s) \in Nat
    BY LenProperties
  <1>1. u \in Seq(Byte) /\ Len(u) = Len(s) + 1 - j
    BY FromIs
  <1>2. \A i \in D : a[i] = SanitizeAt(u, a, i) /\ a[i] \in Seq(Byte)
    BY <1>1, SanitizeRestIs
  <1>3. \A i \in D : i + j - 1 \in 1 .. Len(s) + 1 /\ b[i + j - 1] = SanitizeAt(s, b, i + j - 1)
    <2>1. \A i \in D : i + j - 1 \in 1 .. Len(s) + 1
      BY <1>0, <1>1
    <2> QED BY <2>1, SanitizeRestIs
  <1>4. ASSUME NEW i \in D, \A k \in i + 1 .. Len(u) + 1 : k \in I
        PROVE  i \in I
    <2>0. \A k \in i + 1 .. Len(u) + 1 : a[k] = b[k + j - 1]
      BY <1>4
    <2>1. From(u, i) = From(s, i + j - 1)
      <3>1. From(From(s, j), i) = From(s, j + i - 1)
        BY FromFrom
      <3>2. j + i - 1 = i + j - 1
        BY <1>0, <1>1
      <3> QED BY <3>1, <3>2
    <2>2. CASE i > Len(u)
      <3>1. i + j - 1 > Len(s)
        BY <1>0, <1>1, <2>2
      <3>2. a[i] = <<>> /\ b[i + j - 1] = <<>>
        BY <1>2, <1>3, <2>2, <3>1 DEF SanitizeAt
      <3> QED BY <3>2
    <2>3. CASE ~(i > Len(u))
      <3> DEFINE d == Decode(From(u, i))
      <3>1. ~(i + j - 1 > Len(s))
        BY <1>0, <1>1, <2>3
      <3>2. a[i] = IF d.used = 0 THEN Encode(Replacement) \o a[i + 1]
              ELSE (IF Dropped(d.cp) THEN <<>> ELSE Encode(d.cp)) \o a[i + d.used]
        BY <1>2, <2>3 DEF SanitizeAt, Resync
      <3>3. b[i + j - 1] = IF d.used = 0 THEN Encode(Replacement) \o b[i + j - 1 + 1]
              ELSE (IF Dropped(d.cp) THEN <<>> ELSE Encode(d.cp)) \o b[i + j - 1 + d.used]
        BY <1>3, <2>1, <3>1 DEF SanitizeAt, Resync
      <3>4. d.used \in 0 .. Len(u) + 1 - i
        <4>1. From(u, i) \in Seq(Byte) /\ Len(From(u, i)) = Len(u) + 1 - i
          BY <1>1, FromIs
        <4> QED BY <4>1, DecodeIs
      <3> HIDE DEF d, a, b
      <3>5. /\ i + 1 \in i + 1 .. Len(u) + 1 /\ i + 1 + j - 1 = i + j - 1 + 1
            /\ d.used # 0 => i + d.used \in i + 1 .. Len(u) + 1
            /\ i + d.used + j - 1 = i + j - 1 + d.used
        <4>1. \A l, x, y, z \in Nat : x \in 1 .. l + 1 /\ ~(x > l) /\ y \in 0 .. l + 1 - x =>
                /\ x + 1 \in x + 1 .. l + 1 /\ x + 1 + z - 1 = x + z - 1 + 1
                /\ y # 0 => x + y \in x + 1 .. l + 1
                /\ x + y + z - 1 = x + z - 1 + y
          OBVIOUS
        <4>2. Len(u) \in Nat /\ i \in Nat /\ d.used \in Nat /\ j \in Nat
          BY <1>0, <1>1, <3>4
        <4> HIDE DEF u
        <4> QED BY <2>3, <3>4, <4>1, <4>2
      <3>6. /\ a[i + 1] = b[i + j - 1 + 1]
            /\ d.used # 0 => a[i + d.used] = b[i + j - 1 + d.used]
        BY <2>0, <3>5
      <3>7. a[i] = b[i + j - 1]
        BY <3>2, <3>3, <3>6
      <3> QED BY <3>7
    <2> QED BY <2>2, <2>3
  <1>5. I = D
    <2>1. I \in SUBSET D /\ Len(u) + 1 \in Nat
      BY <1>0, <1>1
    <2> HIDE DEF I, u
    <2> QED BY <1>4, <2>1, Downward
  <1>6. 1 \in D
    BY <1>0, <1>1
  <1>7. a[1] = b[1 + j - 1] /\ 1 + j - 1 = j
    <2>1. 1 \in I
      BY <1>5, <1>6
    <2>2. 1 + j - 1 = j
      OBVIOUS
    <2> QED BY <2>1, <2>2
  <1> QED BY <1>1, <1>7, SanitizeIsRest

(* The sanitizer, one character at a time. *)
LEMMA SanitizeStep ==
  ASSUME NEW s \in Seq(Byte)
  PROVE  /\ Sanitize(s) \in Seq(Byte)
         /\ s = <<>> => Sanitize(s) = <<>>
         /\ s # <<>> /\ Decode(s).used = 0 =>
              Sanitize(s) = Encode(Replacement) \o Sanitize(From(s, 2))
         /\ Decode(s).used # 0 =>
              Sanitize(s) = (IF Dropped(Decode(s).cp) THEN <<>> ELSE Encode(Decode(s).cp))
                              \o Sanitize(From(s, Decode(s).used + 1))
  <1> DEFINE r == SanitizeRest(s)
             d == Decode(s)
  <1>0. Len(s) \in Nat /\ (s # <<>> => Len(s) > 0) /\ (s = <<>> => Len(s) = 0)
    BY LenProperties, EmptySeq
  <1>1. 1 \in 1 .. Len(s) + 1 /\ Sanitize(s) = r[1]
    BY <1>0, SanitizeIsRest
  <1>2. r[1] = SanitizeAt(s, r, 1) /\ r[1] \in Seq(Byte)
    BY <1>1, SanitizeRestIs
  <1>3. \A j \in 1 .. Len(s) + 1 : r[j] = Sanitize(From(s, j))
    BY SanitizeShift
  <1>4. From(s, 1) = s
    BY FromFirst
  <1>5. s = <<>> => r[1] = <<>>
    BY <1>0, <1>2 DEF SanitizeAt
  <1>6. s # <<>> => r[1] = IF d.used = 0 THEN Encode(Replacement) \o r[2]
          ELSE (IF Dropped(d.cp) THEN <<>> ELSE Encode(d.cp)) \o r[1 + d.used]
    <2>1. s # <<>> => ~(1 > Len(s))
      BY <1>0
    <2>2. 1 + 1 = 2
      OBVIOUS
    <2> QED BY <1>2, <1>4, <2>1, <2>2 DEF SanitizeAt, Resync
  <1>7. d.used \in 0 .. Len(s) /\ (d.used # 0 => s # <<>>)
    BY DecodeIs
  <1> HIDE DEF r, d
  <1>8. s # <<>> => 2 \in 1 .. Len(s) + 1 /\ r[2] = Sanitize(From(s, 2))
    BY <1>0, <1>3
  <1>9. 1 + d.used = d.used + 1 /\ d.used + 1 \in 1 .. Len(s) + 1
        /\ r[d.used + 1] = Sanitize(From(s, d.used + 1))
    <2>1. 1 + d.used = d.used + 1 /\ d.used + 1 \in 1 .. Len(s) + 1
      BY <1>0, <1>7
    <2> QED BY <2>1, <1>3
  <1>10. d.used # 0 => Sanitize(s) = (IF Dropped(d.cp) THEN <<>> ELSE Encode(d.cp))
                              \o Sanitize(From(s, d.used + 1))
    BY <1>1, <1>6, <1>7, <1>9
  <1>11. s # <<>> /\ d.used = 0 => Sanitize(s) = Encode(Replacement) \o Sanitize(From(s, 2))
    BY <1>1, <1>6, <1>8
  <1> QED BY <1>1, <1>2, <1>5, <1>10, <1>11 DEF d

-----------------------------------------------------------------------------
(* A character that is written is read back, whatever follows it.          *)

LEMMA SeqLenIs ==
  ASSUME NEW b \in Nat
  PROVE  /\ b < 128 => SeqLen(b) = 1
         /\ b >= 192 /\ b < 224 => SeqLen(b) = 2
         /\ b >= 224 /\ b < 240 => SeqLen(b) = 3
         /\ b >= 240 /\ b < 248 => SeqLen(b) = 4
         /\ b >= 128 /\ b < 192 => Continues(b)
  <1>1. b < 128 => SeqLen(b) = 1
    BY SMT DEF SeqLen
  <1>2. b >= 192 /\ b < 224 => SeqLen(b) = 2
    BY SMT DEF SeqLen
  <1>3. b >= 224 /\ b < 240 => SeqLen(b) = 3
    BY SMT DEF SeqLen
  <1>4. b >= 240 /\ b < 248 => SeqLen(b) = 4
    BY SMT DEF SeqLen
  <1>5. b >= 128 /\ b < 192 => Continues(b)
    BY SMT DEF Continues
  <1> QED BY <1>1, <1>2, <1>3, <1>4, <1>5

LEMMA DecodeStart ==
  ASSUME NEW s \in Seq(Byte), NEW n \in {1, 2, 3, 4}, n <= Len(s), SeqLen(s[1]) = n,
         \A i \in 2 .. n : Continues(s[i]), NeedsBytes(n, CodePoint(s, n))
  PROVE  Decode(s) = [used |-> n, cp |-> CodePoint(s, n)]
  <1>1. Len(s) \in Nat /\ s # <<>>
    BY LenProperties, EmptySeq
  <1>2. n \in 1 .. Len(s)
    BY <1>1
  <1> QED BY <1>1, <1>2 DEF Decode

LEMMA DecodeEncode ==
  ASSUME NEW cp, IsScalar(cp), NEW x \in Seq(Byte)
  PROVE  Decode(Encode(cp) \o x) = [used |-> Len(Encode(cp)), cp |-> cp]
  <1> DEFINE e == Encode(cp)
             s == e \o x
  <1>0. cp \in Nat
    BY DEF IsScalar, IsCode
  <1>1. e \in Seq(Byte) /\ Len(e) \in {1, 2, 3, 4}
    BY EncodeIs DEF IsScalar
  <1>2. s \in Seq(Byte) /\ Len(e) <= Len(s) /\ \A i \in 1 .. Len(e) : s[i] = e[i]
    <2> HIDE DEF e
    <2>1. /\ s \in Seq(Byte) /\ Len(s) = Len(e) + Len(x) /\ Len(x) \in Nat
          /\ \A i \in 1 .. Len(e) : s[i] = e[i]
      BY <1>1, ConcatIs
    <2> HIDE DEF s
    <2> QED BY <1>1, <2>1
  <1> SUFFICES \E n \in {1, 2, 3, 4} :
                 /\ n = Len(e) /\ SeqLen(s[1]) = n /\ \A i \in 2 .. n : Continues(s[i])
                 /\ CodePoint(s, n) = cp /\ NeedsBytes(n, cp)
    <2> HIDE DEF e, s
    <2>1. PICK n \in {1, 2, 3, 4} :
                 /\ n = Len(e) /\ SeqLen(s[1]) = n /\ \A i \in 2 .. n : Continues(s[i])
                 /\ CodePoint(s, n) = cp /\ NeedsBytes(n, cp)
      OBVIOUS
    <2>2. Decode(s) = [used |-> n, cp |-> CodePoint(s, n)]
      BY <2>1, <1>2, DecodeStart
    <2> QED BY <2>1, <2>2 DEF s, e
  <1> HIDE DEF e, s
  <1>3. CASE cp < 128
    <2>1. e = <<cp>>
      BY <1>0, <1>3, EncodeForms, SMT DEF e
    <2>2. Len(e) = 1 /\ s[1] = cp
      BY <2>1, <1>2
    <2>3. SeqLen(s[1]) = 1 /\ CodePoint(s, 1) = cp /\ NeedsBytes(1, cp)
      BY <2>2, <1>0, <1>3, SeqLenIs, CodePointForms, SMT DEF NeedsBytes
    <2>4. \A i \in 2 .. 1 : Continues(s[i])
      OBVIOUS
    <2> QED BY <2>2, <2>3, <2>4
  <1>4. CASE cp >= 128 /\ cp < 2048
    <2>1. e = <<192 + (cp \div 64), 128 + (cp % 64)>>
      BY <1>0, <1>4, EncodeForms, SMT DEF e
    <2>2. Len(e) = 2 /\ s[1] = 192 + (cp \div 64) /\ s[2] = 128 + (cp % 64)
      BY <2>1, <1>2
    <2>3. \A c \in Nat : c < 2048 =>
            \E q, r \in Nat : q = c \div 64 /\ r = c % 64 /\ c = q * 64 + r /\ q < 32 /\ r < 64
      BY SMT
    <2>4. PICK q, r \in Nat : /\ q = cp \div 64 /\ r = cp % 64 /\ cp = q * 64 + r
                              /\ q < 32 /\ r < 64
      BY <2>3, <1>0, <1>4
    <2>5. s[1] = 192 + q /\ s[2] = 128 + r
      BY <2>2, <2>4
    <2>6. SeqLen(s[1]) = 2 /\ Continues(s[2])
      BY <2>4, <2>5, SeqLenIs
    <2>7. (192 + q) % 32 = q /\ (128 + r) % 64 = r
      BY <2>4, SMT
    <2>8. CodePoint(s, 2) = cp
      <3>1. s[1] % 32 = q /\ s[2] % 64 = r
        BY <2>5, <2>7, SMT
      <3>2. CodePoint(s, 2) = (s[1] % 32) * 64 + (s[2] % 64)
        BY CodePointForms
      <3> QED BY <2>4, <3>1, <3>2, SMT
    <2>9. NeedsBytes(2, cp)
      BY <1>4, SMT DEF NeedsBytes
    <2>10. \A i \in 2 .. 2 : Continues(s[i])
      BY <2>6
    <2> QED BY <2>2, <2>6, <2>8, <2>9, <2>10
  <1>5. CASE cp >= 2048 /\ cp < 65536
    <2>1. e = <<224 + (cp \div 4096), 128 + ((cp \div 64) % 64), 128 + (cp % 64)>>
      BY <1>0, <1>5, EncodeForms, SMT DEF e
    <2>2. /\ Len(e) = 3 /\ s[1] = 224 + (cp \div 4096) /\ s[2] = 128 + ((cp \div 64) % 64)
          /\ s[3] = 128 + (cp % 64)
      BY <2>1, <1>2
    <2>3. \A c \in Nat : c < 65536 =>
            \E p, q, r \in Nat : /\ p = c \div 4096 /\ q = (c \div 64) % 64 /\ r = c % 64
                                 /\ c = p * 4096 + q * 64 + r /\ p < 16 /\ q < 64 /\ r < 64
      BY SMT
    <2>4. PICK p, q, r \in Nat : /\ p = cp \div 4096 /\ q = (cp \div 64) % 64 /\ r = cp % 64
                                 /\ cp = p * 4096 + q * 64 + r /\ p < 16 /\ q < 64 /\ r < 64
      BY <2>3, <1>0, <1>5, SMT
    <2>5. s[1] = 224 + p /\ s[2] = 128 + q /\ s[3] = 128 + r
      BY <2>2, <2>4, SMT
    <2>6. SeqLen(s[1]) = 3 /\ Continues(s[2]) /\ Continues(s[3])
      BY <2>4, <2>5, SeqLenIs, SMT
    <2>7. (224 + p) % 16 = p /\ (128 + q) % 64 = q /\ (128 + r) % 64 = r
      BY <2>4, SMT
    <2>8. CodePoint(s, 3) = cp
      <3>1. s[1] % 16 = p /\ s[2] % 64 = q /\ s[3] % 64 = r
        BY <2>5, <2>7, SMT
      <3>2. CodePoint(s, 3) = (s[1] % 16) * 4096 + (s[2] % 64) * 64 + (s[3] % 64)
        BY CodePointForms
      <3>3. (s[1] % 16) * 4096 + (s[2] % 64) * 64 + (s[3] % 64)
              = p * 4096 + q * 64 + r
        BY <3>1, SMT
      <3> QED BY <2>4, <3>2, <3>3, SMT
    <2>9. NeedsBytes(3, cp)
      BY <1>5, SMT DEF NeedsBytes, IsScalar
    <2>10. \A i \in 2 .. 3 : Continues(s[i])
      BY <2>6, SMT
    <2> QED BY <2>2, <2>6, <2>8, <2>9, <2>10, SMT
  <1>6. CASE cp >= 65536
    <2>1. e = <<240 + (cp \div 262144), 128 + ((cp \div 4096) % 64),
                128 + ((cp \div 64) % 64), 128 + (cp % 64)>>
      BY <1>0, <1>6, EncodeForms, SMT DEF e
    <2>2. /\ Len(e) = 4 /\ s[1] = 240 + (cp \div 262144) /\ s[2] = 128 + ((cp \div 4096) % 64)
          /\ s[3] = 128 + ((cp \div 64) % 64) /\ s[4] = 128 + (cp % 64)
      BY <2>1, <1>2, SMT
    <2>3. \A c \in Nat : c <= 1114111 =>
            \E o, p, q, r \in Nat :
               /\ o = c \div 262144 /\ p = (c \div 4096) % 64 /\ q = (c \div 64) % 64 /\ r = c % 64
               /\ c = o * 262144 + p * 4096 + q * 64 + r
               /\ o < 8 /\ p < 64 /\ q < 64 /\ r < 64
      BY SMT
    <2>4. PICK o, p, q, r \in Nat :
               /\ o = cp \div 262144 /\ p = (cp \div 4096) % 64 /\ q = (cp \div 64) % 64 /\ r = cp % 64
               /\ cp = o * 262144 + p * 4096 + q * 64 + r
               /\ o < 8 /\ p < 64 /\ q < 64 /\ r < 64
      BY <2>3, <1>0, SMT DEF IsScalar, IsCode
    <2>5. s[1] = 240 + o /\ s[2] = 128 + p /\ s[3] = 128 + q /\ s[4] = 128 + r
      BY <2>2, <2>4, SMT
    <2>6. SeqLen(s[1]) = 4 /\ Continues(s[2]) /\ Continues(s[3]) /\ Continues(s[4])
      BY <2>4, <2>5, SeqLenIs, SMT
    <2>7. (240 + o) % 8 = o /\ (128 + p) % 64 = p /\ (128 + q) % 64 = q /\ (128 + r) % 64 = r
      BY <2>4, SMT
    <2>8. CodePoint(s, 4) = cp
      <3>1. s[1] % 8 = o /\ s[2] % 64 = p /\ s[3] % 64 = q /\ s[4] % 64 = r
        BY <2>5, <2>7, SMT
      <3>2. CodePoint(s, 4) = (s[1] % 8) * 262144 + (s[2] % 64) * 4096 + (s[3] % 64) * 64
                            + (s[4] % 64)
        BY CodePointForms
      <3>3. (s[1] % 8) * 262144 + (s[2] % 64) * 4096 + (s[3] % 64) * 64
              + (s[4] % 64)
              = o * 262144 + p * 4096 + q * 64 + r
        BY <3>1, SMTT(30)
      <3> QED BY <2>4, <3>2, <3>3, SMT
    <2>9. NeedsBytes(4, cp)
      BY <1>6, SMT DEF NeedsBytes, IsScalar, IsCode
    <2>10. \A i \in 2 .. 4 : Continues(s[i])
      BY <2>6, SMT
    <2> QED BY <2>2, <2>6, <2>8, <2>9, <2>10, SMT
  <1> QED BY <1>0, <1>3, <1>4, <1>5, <1>6, SMT

-----------------------------------------------------------------------------
(* Clean text.                                                             *)

CleanAt(s, rest, i) ==
  \/ i > Len(s)
  \/ LET d == Decode(From(s, i)) IN
       /\ d.used > 0
       /\ d.cp >= 32 \/ d.cp \in {9, 10}
       /\ d.cp < 128 \/ d.cp > 159
       /\ rest[i + d.used]

CleanRest(s) == CHOOSE rest : rest = [i \in 1 .. Len(s) + 1 |-> CleanAt(s, rest, i)]

LEMMA CleanIsRest ==
  ASSUME NEW s \in Seq(Byte)
  PROVE  IsClean(s) = CleanRest(s)[1]
  BY DEF IsClean, CleanRest, CleanAt

LEMMA CleanAtIs ==
  ASSUME NEW s \in Seq(Byte), NEW i \in 1 .. Len(s) + 1, NEW f, NEW g,
         \A k \in i + 1 .. Len(s) + 1 : f[k] = g[k]
  PROVE  CleanAt(s, f, i) = CleanAt(s, g, i) /\ CleanAt(s, f, i) \in BOOLEAN
  <1>0. Len(s) \in Nat
    BY LenProperties
  <1>1. CASE i > Len(s)
    BY <1>1 DEF CleanAt
  <1>2. CASE ~(i > Len(s))
    <2> DEFINE d == Decode(From(s, i))
               ok == d.used > 0 /\ (d.cp >= 32 \/ d.cp \in {9, 10}) /\ (d.cp < 128 \/ d.cp > 159)
    <2>1. From(s, i) \in Seq(Byte) /\ Len(From(s, i)) = Len(s) + 1 - i
      BY FromIs
    <2>2. d.used \in 0 .. Len(From(s, i))
      BY <2>1, DecodeIs
    <2>3. /\ CleanAt(s, f, i) = (ok /\ f[i + d.used])
          /\ CleanAt(s, g, i) = (ok /\ g[i + d.used])
      BY <1>2, Zenon DEF CleanAt
    <2>4. ok => d.used > 0
      OBVIOUS
    <2>5. ok \in BOOLEAN
      OBVIOUS
    <2> HIDE DEF d, ok
    <2>6. ok => i + d.used \in i + 1 .. Len(s) + 1
      BY <1>0, <1>2, <2>1, <2>2, <2>4
    <2>7. ok => f[i + d.used] = g[i + d.used]
      BY <2>6
    <2>8. CASE ok
      <3>1. f[i + d.used] = g[i + d.used]
        BY <2>7, <2>8
      <3> QED BY <3>1, <2>3, <2>8, Zenon
    <2>9. CASE ~ok
      BY <2>3, <2>9, Zenon
    <2> QED BY <2>8, <2>9
  <1> QED BY <1>1, <1>2

LEMMA CleanRestIs ==
  ASSUME NEW s \in Seq(Byte)
  PROVE  \A i \in 1 .. Len(s) + 1 : CleanRest(s)[i] = CleanAt(s, CleanRest(s), i)
  <1> DEFINE D == 1 .. Len(s) + 1
             rank == [i \in D |-> Len(s) + 1 - i]
             F == [i \in D |-> [f \in [D -> BOOLEAN] |-> CleanAt(s, f, i)]]
             r == CleanRest(s)
  <1>0. Len(s) \in Nat
    BY LenProperties
  <1>2. rank \in [D -> Nat]
    BY <1>0
  <1>3. ASSUME NEW x \in D, NEW f \in [D -> BOOLEAN], NEW g \in [D -> BOOLEAN],
               \A y \in D : rank[y] < rank[x] => f[y] = g[y]
        PROVE  CleanAt(s, f, x) = CleanAt(s, g, x) /\ CleanAt(s, f, x) \in BOOLEAN
    <2>1. \A k \in x + 1 .. Len(s) + 1 : k \in D /\ rank[k] < rank[x]
      BY <1>0
    <2>2. \A k \in x + 1 .. Len(s) + 1 : f[k] = g[k]
      BY <1>3, <2>1
    <2> QED BY <2>2, CleanAtIs
  <1>4. F \in [D -> [[D -> BOOLEAN] -> BOOLEAN]]
    <2>1. \A x \in D : \A f \in [D -> BOOLEAN] : CleanAt(s, f, x) \in BOOLEAN
      BY <1>3
    <2> QED BY <2>1
  <1>5. \A x \in D : \A f \in [D -> BOOLEAN] : F[x][f] = CleanAt(s, f, x)
    OBVIOUS
  <1>6. \E f \in [D -> BOOLEAN] : \A x \in D : f[x] = F[x][f]
    <2>1. \A x \in D : \A f, g \in [D -> BOOLEAN] :
            (\A y \in D : rank[y] < rank[x] => f[y] = g[y]) => F[x][f] = F[x][g]
      BY <1>3, <1>5
    <2> HIDE DEF D, rank, F, r
    <2>2. Recursive(D, BOOLEAN, rank, F)
      BY <1>2, <1>4, <2>1 DEF Recursive
    <2> QED BY <2>2, Recursion DEF HasFixpoint
  <1>7. PICK f \in [D -> BOOLEAN] : \A x \in D : f[x] = CleanAt(s, f, x)
    BY <1>5, <1>6
  <1>8. f = [i \in D |-> CleanAt(s, f, i)]
    BY <1>7
  <1>9. r = [i \in D |-> CleanAt(s, r, i)]
    BY <1>8 DEF CleanRest
  <1> QED BY <1>9, Zenon

LEMMA CleanShift ==
  ASSUME NEW s \in Seq(Byte), NEW j \in 1 .. Len(s) + 1
  PROVE  CleanRest(s)[j] = IsClean(From(s, j))
  <1> DEFINE u == From(s, j)
             D == 1 .. Len(u) + 1
             a == CleanRest(u)
             b == CleanRest(s)
             I == {i \in D : a[i] = b[i + j - 1]}
  <1>0. Len(s) \in Nat
    BY LenProperties
  <1>1. u \in Seq(Byte) /\ Len(u) = Len(s) + 1 - j
    BY FromIs
  <1>2. \A i \in D : a[i] = CleanAt(u, a, i)
    BY <1>1, CleanRestIs
  <1>3. \A i \in D : i + j - 1 \in 1 .. Len(s) + 1 /\ b[i + j - 1] = CleanAt(s, b, i + j - 1)
    <2>1. \A i \in D : i + j - 1 \in 1 .. Len(s) + 1
      BY <1>0, <1>1
    <2> QED BY <2>1, CleanRestIs
  <1>4. ASSUME NEW i \in D, \A k \in i + 1 .. Len(u) + 1 : k \in I
        PROVE  i \in I
    <2>0. \A k \in i + 1 .. Len(u) + 1 : a[k] = b[k + j - 1]
      BY <1>4
    <2>1. From(u, i) = From(s, i + j - 1)
      <3>1. From(From(s, j), i) = From(s, j + i - 1)
        BY FromFrom
      <3>2. j + i - 1 = i + j - 1
        BY <1>0, <1>1
      <3> QED BY <3>1, <3>2
    <2>2. CASE i > Len(u)
      <3>1. i + j - 1 > Len(s)
        BY <1>0, <1>1, <2>2
      <3>2. a[i] = TRUE /\ b[i + j - 1] = TRUE
        BY <1>2, <1>3, <2>2, <3>1, Zenon DEF CleanAt
      <3> QED BY <3>2
    <2>3. CASE ~(i > Len(u))
      <3> DEFINE d == Decode(From(u, i))
                 ok == d.used > 0 /\ (d.cp >= 32 \/ d.cp \in {9, 10}) /\ (d.cp < 128 \/ d.cp > 159)
      <3>1. ~(i + j - 1 > Len(s))
        BY <1>0, <1>1, <2>3
      <3>2. a[i] = (ok /\ a[i + d.used])
        BY <1>2, <2>3, Zenon DEF CleanAt
      <3>3. b[i + j - 1] = (ok /\ b[i + j - 1 + d.used])
        BY <1>3, <2>1, <3>1, Zenon DEF CleanAt
      <3>4. d.used \in 0 .. Len(u) + 1 - i
        <4>1. From(u, i) \in Seq(Byte) /\ Len(From(u, i)) = Len(u) + 1 - i
          BY <1>1, FromIs
        <4> QED BY <4>1, DecodeIs
      <3>5. ok => d.used # 0
        OBVIOUS
      <3> HIDE DEF d, ok, a, b
      <3>6. /\ d.used # 0 => i + d.used \in i + 1 .. Len(u) + 1
            /\ i + d.used + j - 1 = i + j - 1 + d.used
        <4>1. \A l, x, y, z \in Nat : x \in 1 .. l + 1 /\ ~(x > l) /\ y \in 0 .. l + 1 - x =>
                /\ y # 0 => x + y \in x + 1 .. l + 1
                /\ x + y + z - 1 = x + z - 1 + y
          OBVIOUS
        <4>2. Len(u) \in Nat /\ i \in Nat /\ d.used \in Nat /\ j \in Nat
          BY <1>0, <1>1, <3>4
        <4> HIDE DEF u
        <4> QED BY <2>3, <3>4, <4>1, <4>2, SMTT(30)
      <3>7. ok => a[i + d.used] = b[i + j - 1 + d.used]
        BY <2>0, <3>5, <3>6
      <3>8. a[i] = b[i + j - 1]
        <4>1. CASE ok
          <5>1. a[i + d.used] = b[i + j - 1 + d.used]
            BY <3>7, <4>1
          <5> QED BY <3>2, <3>3, <5>1, Zenon
        <4>2. CASE ~ok
          BY <3>2, <3>3, <4>2, Zenon
        <4> QED BY <4>1, <4>2
      <3> QED BY <3>8
    <2> QED BY <2>2, <2>3
  <1>5. I = D
    <2>1. I \in SUBSET D /\ Len(u) + 1 \in Nat
      BY <1>0, <1>1
    <2> HIDE DEF I, u
    <2> QED BY <1>4, <2>1, Downward
  <1>6. 1 \in D
    BY <1>0, <1>1
  <1>7. a[1] = b[1 + j - 1] /\ 1 + j - 1 = j
    <2>1. 1 \in I
      BY <1>5, <1>6
    <2>2. 1 + j - 1 = j
      OBVIOUS
    <2> QED BY <2>1, <2>2
  <1> QED BY <1>1, <1>7, CleanIsRest

LEMMA CleanStep ==
  ASSUME NEW s \in Seq(Byte)
  PROVE  /\ s = <<>> => IsClean(s)
         /\ Decode(s).used # 0 /\ ~Dropped(Decode(s).cp)
            /\ IsClean(From(s, Decode(s).used + 1)) => IsClean(s)
  <1> DEFINE r == CleanRest(s)
             d == Decode(s)
  <1>0. Len(s) \in Nat /\ (s # <<>> => Len(s) > 0) /\ (s = <<>> => Len(s) = 0)
    BY LenProperties, EmptySeq
  <1>1. 1 \in 1 .. Len(s) + 1 /\ IsClean(s) = r[1]
    BY <1>0, CleanIsRest
  <1>2. r[1] = CleanAt(s, r, 1)
    BY <1>1, CleanRestIs
  <1>3. \A j \in 1 .. Len(s) + 1 : r[j] = IsClean(From(s, j))
    BY CleanShift
  <1>4. From(s, 1) = s
    BY FromFirst
  <1>5. s = <<>> => r[1] = TRUE
    <2>1. s = <<>> => 1 > Len(s)
      BY <1>0
    <2> QED BY <1>2, <2>1, Zenon DEF CleanAt
  <1>6. ASSUME d.used # 0, ~Dropped(d.cp), IsClean(From(s, d.used + 1))
        PROVE  IsClean(s)
    <2>1. d.used \in 0 .. Len(s) /\ d.used \in Nat /\ d.cp \in Nat
      BY <1>0, DecodeIs
    <2>2. 1 + d.used = d.used + 1 /\ d.used + 1 \in 1 .. Len(s) + 1 /\ d.used > 0
      BY <1>0, <1>6, <2>1
    <2>3. (d.cp >= 32 \/ d.cp \in {9, 10}) /\ (d.cp < 128 \/ d.cp > 159)
      BY <1>6, <2>1 DEF Dropped
    <2>4. r[1 + d.used]
      BY <1>3, <1>6, <2>2
    <2>5. CleanAt(s, r, 1) = TRUE
      BY <1>4, <2>2, <2>3, <2>4, Zenon DEF CleanAt
    <2> QED BY <1>1, <1>2, <2>5, Zenon
  <1> QED BY <1>1, <1>5, <1>6

LEMMA CleanFirst ==
  ASSUME NEW cp, IsScalar(cp), ~Dropped(cp), NEW t \in Seq(Byte), IsClean(t), Sanitize(t) = t
  PROVE  IsClean(Encode(cp) \o t) /\ Sanitize(Encode(cp) \o t) = Encode(cp) \o t
  <1> DEFINE e == Encode(cp)
             s == e \o t
  <1>1. e \in Seq(Byte) /\ Len(e) \in {1, 2, 3, 4}
    BY EncodeIs DEF IsScalar
  <1>2. Decode(s) = [used |-> Len(e), cp |-> cp]
    BY DecodeEncode
  <1> HIDE DEF e
  <1>3. s \in Seq(Byte)
    BY <1>1, ConcatIs
  <1>4. From(s, Len(e) + 1) = t
    <2>1. 1 \in 1 .. Len(t) + 1
      BY LenProperties
    <2>2. From(e \o t, Len(e) + 1) = From(t, 1)
      BY <1>1, <2>1, FromConcat
    <2> QED BY <2>2, FromFirst
  <1> HIDE DEF s
  <1>5. Decode(s).used = Len(e) /\ Decode(s).cp = cp /\ Decode(s).used # 0
    BY <1>1, <1>2
  <1>6. IsClean(s)
    BY <1>3, <1>4, <1>5, CleanStep
  <1>7. Sanitize(s) = e \o t
    <2>1. Sanitize(s) = (IF Dropped(Decode(s).cp) THEN <<>> ELSE Encode(Decode(s).cp))
                          \o Sanitize(From(s, Decode(s).used + 1))
      BY <1>3, <1>5, SanitizeStep
    <2>2. (IF Dropped(Decode(s).cp) THEN <<>> ELSE Encode(Decode(s).cp)) = e
      BY <1>5 DEF e
    <2>3. Sanitize(From(s, Decode(s).used + 1)) = t
      BY <1>4, <1>5
    <2> QED BY <2>1, <2>2, <2>3
  <1> QED BY <1>6, <1>7 DEF s, e

(* What is sanitized is clean, and sanitizing it again changes nothing,    *)
(* whatever the bytes (pin_text_sanitize).                                 *)
THEOREM SanitizeIsClean ==
  ASSUME NEW s \in Seq(Byte)
  PROVE  IsClean(Sanitize(s)) /\ Sanitize(Sanitize(s)) = Sanitize(s)
  <1> DEFINE Good(x) == IsClean(Sanitize(x)) /\ Sanitize(Sanitize(x)) = Sanitize(x)
             N == {n \in Nat : \A x \in Seq(Byte) : Len(x) = n => Good(x)}
  <1>1. ASSUME NEW n \in Nat, \A k \in Nat : k < n => k \in N
        PROVE  n \in N
    <2> SUFFICES ASSUME NEW x \in Seq(Byte), Len(x) = n PROVE Good(x)
      OBVIOUS
    <2>1. \A y \in Seq(Byte) : Len(y) < n => Good(y)
      <3> HIDE DEF Good
      <3> SUFFICES ASSUME NEW y \in Seq(Byte), Len(y) < n PROVE Good(y)
        OBVIOUS
      <3>1. Len(y) \in Nat
        BY LenProperties
      <3>2. Len(y) \in N
        BY <1>1, <3>1
      <3> QED BY <3>2
    <2>2. CASE x = <<>>
      <3>1. Sanitize(x) = <<>> /\ <<>> \in Seq(Byte)
        BY <2>2, SanitizeStep
      <3>2. Sanitize(<<>>) = <<>> /\ IsClean(<<>>)
        BY <3>1, SanitizeStep, CleanStep
      <3> QED BY <3>1, <3>2
    <2>3. CASE x # <<>>
      <3>0. Len(x) \in Nat /\ Len(x) > 0
        BY <2>3, LenProperties, EmptySeq
      <3> DEFINE d == Decode(x)
      <3>1. d.used \in 0 .. Len(x) /\ (d.used # 0 => IsScalar(d.cp))
        BY DecodeIs
      <3>2. \A k \in 1 .. Len(x) : /\ From(x, k + 1) \in Seq(Byte)
                                   /\ Sanitize(From(x, k + 1)) \in Seq(Byte)
                                   /\ Good(From(x, k + 1))
        <4> HIDE DEF Good
        <4> SUFFICES ASSUME NEW k \in 1 .. Len(x)
                     PROVE  From(x, k + 1) \in Seq(Byte) /\ Good(From(x, k + 1))
          BY SanitizeStep
        <4>1. k + 1 \in 1 .. Len(x) + 1
          BY <3>0
        <4>2. From(x, k + 1) \in Seq(Byte) /\ Len(From(x, k + 1)) = Len(x) + 1 - (k + 1)
          BY <4>1, FromIs
        <4>3. Len(From(x, k + 1)) < n
          BY <3>0, <4>2
        <4> QED BY <4>2, <4>3, <2>1
      <3>3. CASE d.used = 0
        <4> DEFINE t == Sanitize(From(x, 2))
        <4>1. Sanitize(x) = Encode(Replacement) \o t
          BY <2>3, <3>3, SanitizeStep
        <4>2. t \in Seq(Byte) /\ IsClean(t) /\ Sanitize(t) = t
          <5>1. 1 \in 1 .. Len(x) /\ 1 + 1 = 2
            BY <3>0
          <5> QED BY <5>1, <3>2
        <4> HIDE DEF t
        <4>3. /\ IsClean(Encode(Replacement) \o t)
              /\ Sanitize(Encode(Replacement) \o t) = Encode(Replacement) \o t
          BY <4>2, ReplacementIs, CleanFirst
        <4> QED BY <4>1, <4>3
      <3>4. CASE d.used # 0
        <4> DEFINE t == Sanitize(From(x, d.used + 1))
        <4>1. Sanitize(x) = (IF Dropped(d.cp) THEN <<>> ELSE Encode(d.cp)) \o t
          BY <3>4, SanitizeStep
        <4>2. t \in Seq(Byte) /\ IsClean(t) /\ Sanitize(t) = t
          <5>1. d.used \in 1 .. Len(x)
            BY <3>0, <3>1, <3>4
          <5> HIDE DEF d
          <5> QED BY <5>1, <3>2
        <4> HIDE DEF t
        <4>3. CASE Dropped(d.cp)
          <5>1. Sanitize(x) = t
            BY <4>1, <4>2, <4>3, ConcatEmptySeq
          <5> QED BY <5>1, <4>2
        <4>4. CASE ~Dropped(d.cp)
          <5>1. Sanitize(x) = Encode(d.cp) \o t
            BY <4>1, <4>4
          <5>2. IsClean(Encode(d.cp) \o t) /\ Sanitize(Encode(d.cp) \o t) = Encode(d.cp) \o t
            BY <4>2, <4>4, <3>1, <3>4, CleanFirst
          <5> QED BY <5>1, <5>2
        <4> QED BY <4>3, <4>4
      <3> QED BY <3>3, <3>4
    <2> QED BY <2>2, <2>3
  <1>2. N = Nat
    <2>1. N \in SUBSET Nat
      OBVIOUS
    <2> HIDE DEF N
    <2> QED BY <1>1, <2>1, StrongInduct
  <1>3. Len(s) \in Nat
    BY LenProperties
  <1>4. Good(s)
    <2>1. Len(s) \in N
      BY <1>2, <1>3
    <2> HIDE DEF Good
    <2> QED BY <2>1
  <1> QED BY <1>4

-----------------------------------------------------------------------------
(* What is written as a JSON string.                                       *)

Printed == {b \in Byte : b >= 32}

LEMMA PrintedIs == Printed \subseteq Byte /\ \A b : b \in Printed <=> b \in Nat /\ b < 256 /\ b >= 32
  BY ByteIs DEF Printed

LEMMA ShortIs ==
  /\ DOMAIN Short = {8, 9, 10, 12, 13}
  /\ Short[8] = 98 /\ Short[9] = 116 /\ Short[10] = 110 /\ Short[12] = 102 /\ Short[13] = 114
  BY SMT DEF Short

LEMMA EscapeForms ==
  ASSUME NEW c \in Byte
  PROVE  \/ c \in {Quote, Backslash} /\ Escape(c) = <<Backslash, c>>
         \/ c \in DOMAIN Short /\ Escape(c) = <<Backslash, Short[c]>>
         \/ /\ c < 32 /\ c \notin DOMAIN Short
            /\ Escape(c) = <<Backslash, 117, 48, 48, HexDigit(c \div 16), HexDigit(c % 16)>>
         \/ c >= 32 /\ c \notin {Quote, Backslash} /\ Escape(c) = <<c>>
  <1>0. c \in Nat
    BY ByteIs
  <1>1. CASE c \in {Quote, Backslash}
    <2>1. c \notin DOMAIN Short /\ ~(c < 32)
      BY <1>1, ShortIs DEF Quote, Backslash
    <2> QED BY <1>1, <2>1 DEF Escape
  <1>2. CASE c \in DOMAIN Short
    <2>1. c \notin {Quote, Backslash}
      BY <1>2, ShortIs DEF Quote, Backslash
    <2> QED BY <1>2, <2>1 DEF Escape
  <1>3. CASE c < 32 /\ c \notin DOMAIN Short
    <2>1. c \notin {Quote, Backslash}
      BY <1>0, <1>3 DEF Quote, Backslash
    <2> QED BY <1>3, <2>1 DEF Escape
  <1>4. CASE ~(c < 32) /\ c \notin {Quote, Backslash} /\ c \notin DOMAIN Short
    BY <1>0, <1>4 DEF Escape
  <1> QED BY <1>1, <1>2, <1>3, <1>4

LEMMA HexDigitIs ==
  ASSUME NEW n \in Nat, n < 16
  PROVE  HexDigit(n) \in Printed /\ HexValue(HexDigit(n)) = n
  <1>1. HexDigit(n) \in Printed
    BY PrintedIs, SMT DEF HexDigit
  <1>2. CASE n < 10
    <2>1. HexDigit(n) = 48 + n /\ 48 + n >= 48 /\ 48 + n <= 57 /\ 48 + n - 48 = n
      BY <1>2 DEF HexDigit
    <2>2. HexValue(48 + n) = 48 + n - 48
      BY <2>1 DEF HexValue
    <2> QED BY <1>1, <2>1, <2>2
  <1>3. CASE n >= 10
    <2>1. /\ HexDigit(n) = 87 + n /\ 87 + n >= 97 /\ 87 + n <= 102 /\ 87 + n - 87 = n
          /\ ~(87 + n <= 57)
      BY <1>3 DEF HexDigit
    <2>2. HexValue(87 + n) = 87 + n - 87
      BY <2>1 DEF HexValue
    <2> QED BY <1>1, <2>1, <2>2
  <1> QED BY <1>1, <1>2, <1>3

LEMMA Nibbles ==
  ASSUME NEW c \in Nat, c < 32
  PROVE  /\ c \div 16 \in Nat /\ c \div 16 < 16 /\ c % 16 \in Nat /\ c % 16 < 16
         /\ (c \div 16) * 16 + (c % 16) = c
  BY SMT

LEMMA EscapeIs ==
  ASSUME NEW c \in Byte
  PROVE  Escape(c) \in Seq(Printed) /\ Escape(c) # <<>> /\ Len(Escape(c)) \in {1, 2, 6}
  <1>0. c \in Nat /\ c < 256
    BY ByteIs
  <1>1. CASE c \in {Quote, Backslash} /\ Escape(c) = <<Backslash, c>>
    <2>1. Backslash \in Printed /\ c \in Printed
      BY <1>1, PrintedIs DEF Quote, Backslash
    <2> QED BY <1>1, <2>1
  <1>2. CASE c \in DOMAIN Short /\ Escape(c) = <<Backslash, Short[c]>>
    <2>1. Backslash \in Printed /\ Short[c] \in Printed
      BY <1>2, PrintedIs, ShortIs DEF Backslash
    <2> QED BY <1>2, <2>1
  <1>3. CASE /\ c < 32 /\ c \notin DOMAIN Short
             /\ Escape(c) = <<Backslash, 117, 48, 48, HexDigit(c \div 16), HexDigit(c % 16)>>
    <2>1. Backslash \in Printed /\ 117 \in Printed /\ 48 \in Printed
      BY PrintedIs DEF Backslash
    <2>2. HexDigit(c \div 16) \in Printed /\ HexDigit(c % 16) \in Printed
      BY <1>0, <1>3, Nibbles, HexDigitIs
    <2> QED BY <1>3, <2>1, <2>2
  <1>4. CASE c >= 32 /\ c \notin {Quote, Backslash} /\ Escape(c) = <<c>>
    <2>1. c \in Printed
      BY <1>0, <1>4, PrintedIs
    <2> QED BY <1>4, <2>1
  <1> QED BY <1>1, <1>2, <1>3, <1>4, EscapeForms

(* What is written up to the i-th byte. *)
WrittenAt(s, done, i) == IF i = 0 THEN <<Quote>> ELSE done[i - 1] \o Escape(s[i])

Written(s) == CHOOSE done : done = [i \in 0 .. Len(s) |-> WrittenAt(s, done, i)]

LEMMA JsonIsWritten ==
  ASSUME NEW s \in Seq(Byte)
  PROVE  JsonString(s) = Append(Written(s)[Len(s)], Quote)
  BY DEF JsonString, Written, WrittenAt

LEMMA WrittenIs ==
  ASSUME NEW s \in Seq(Byte)
  PROVE  /\ Written(s)[0] = <<Quote>>
         /\ \A i \in 1 .. Len(s) : Written(s)[i] = Written(s)[i - 1] \o Escape(s[i])
         /\ \A i \in 0 .. Len(s) : Written(s)[i] \in Seq(Printed)
  <1> DEFINE D == 0 .. Len(s)
             T == Seq(Printed)
             rank == [i \in D |-> i]
             F == [i \in D |-> [f \in [D -> T] |-> WrittenAt(s, f, i)]]
             r == Written(s)
  <1>0. Len(s) \in Nat /\ \A i \in 1 .. Len(s) : s[i] \in Byte
    BY LenProperties, ElementOfSeq
  <1>1. T # {}
    BY EmptySeq
  <1>2. rank \in [D -> Nat]
    OBVIOUS
  <1>3. ASSUME NEW x \in D, NEW f, x # 0 => f[x - 1] \in T
        PROVE  WrittenAt(s, f, x) \in T
    <2>1. CASE x = 0
      <3>1. Quote \in Printed
        BY PrintedIs DEF Quote
      <3> QED BY <2>1, <3>1 DEF WrittenAt
    <2>2. CASE x # 0
      <3>1. x \in 1 .. Len(s)
        BY <1>0, <2>2
      <3>2. Escape(s[x]) \in T
        BY <1>0, <3>1, EscapeIs
      <3>3. WrittenAt(s, f, x) = f[x - 1] \o Escape(s[x])
        BY <2>2 DEF WrittenAt
      <3> QED BY <1>3, <2>2, <3>2, <3>3, ConcatProperties
    <2> QED BY <2>1, <2>2
  <1>4. F \in [D -> [[D -> T] -> T]]
    <2>1. \A x \in D : \A f \in [D -> T] : WrittenAt(s, f, x) \in T
      <3> SUFFICES ASSUME NEW x \in D, NEW f \in [D -> T] PROVE WrittenAt(s, f, x) \in T
        OBVIOUS
      <3>1. x # 0 => x - 1 \in D
        BY <1>0
      <3>2. x # 0 => f[x - 1] \in T
        BY <3>1
      <3> QED BY <1>3, <3>2
    <2> QED BY <2>1
  <1>5. \A x \in D : \A f \in [D -> T] : F[x][f] = WrittenAt(s, f, x)
    OBVIOUS
  <1>6. \E f \in [D -> T] : \A x \in D : f[x] = F[x][f]
    <2>1. ASSUME NEW x \in D, NEW f \in [D -> T], NEW g \in [D -> T],
                 \A y \in D : rank[y] < rank[x] => f[y] = g[y]
          PROVE  F[x][f] = F[x][g]
      <3>1. x # 0 => x - 1 \in D /\ rank[x - 1] < rank[x]
        BY <1>0
      <3>2. x # 0 => f[x - 1] = g[x - 1]
        BY <2>1, <3>1
      <3>3. WrittenAt(s, f, x) = WrittenAt(s, g, x)
        BY <3>2 DEF WrittenAt
      <3> QED BY <3>3, <1>5
    <2> HIDE DEF D, T, rank, F, r
    <2>2. Recursive(D, T, rank, F)
      BY <1>1, <1>2, <1>4, <2>1 DEF Recursive
    <2> QED BY <2>2, Recursion DEF HasFixpoint
  <1>7. PICK f \in [D -> T] : \A x \in D : f[x] = WrittenAt(s, f, x)
    BY <1>5, <1>6
  <1>8. f = [i \in D |-> WrittenAt(s, f, i)]
    BY <1>7
  <1>9. r = [i \in D |-> WrittenAt(s, r, i)]
    BY <1>8 DEF Written
  <1>10. \A i \in D : r[i] = WrittenAt(s, r, i)
    BY <1>9
  <1> HIDE DEF r
  <1>11. r[0] = <<Quote>>
    BY <1>0, <1>10 DEF WrittenAt
  <1>12. \A i \in 1 .. Len(s) : r[i] = r[i - 1] \o Escape(s[i])
    <2> SUFFICES ASSUME NEW i \in 1 .. Len(s) PROVE r[i] = r[i - 1] \o Escape(s[i])
      OBVIOUS
    <2>1. i \in D /\ i # 0
      BY <1>0
    <2>2. r[i] = WrittenAt(s, r, i)
      BY <1>10, <2>1
    <2> QED BY <2>1, <2>2 DEF WrittenAt
  <1> DEFINE N == {n \in Nat : n \in D => r[n] \in T}
  <1>13. 0 \in N
    <2>1. 0 \in D /\ WrittenAt(s, r, 0) \in T
      BY <1>0, <1>3
    <2>2. r[0] \in T
      BY <1>10, <2>1
    <2> QED BY <2>2
  <1>14. ASSUME NEW n \in N PROVE n + 1 \in N
    <2> SUFFICES ASSUME n + 1 \in D PROVE r[n + 1] \in T
      OBVIOUS
    <2>1. n \in D /\ n + 1 # 0 /\ n + 1 - 1 = n
      BY <1>0
    <2>2. r[n] \in T
      BY <2>1
    <2>3. WrittenAt(s, r, n + 1) \in T
      BY <1>3, <2>1, <2>2
    <2> QED BY <2>3, <1>10
  <1>15. N = Nat
    <2>1. N \in SUBSET Nat
      OBVIOUS
    <2> HIDE DEF N
    <2> QED BY <1>13, <1>14, <2>1, Induct
  <1>16. \A i \in D : r[i] \in T
    <2> SUFFICES ASSUME NEW i \in D PROVE r[i] \in T
      OBVIOUS
    <2>1. i \in Nat
      BY <1>0
    <2>2. i \in N
      <3> HIDE DEF N
      <3> QED BY <1>15, <2>1
    <2> QED BY <2>2
  <1> QED BY <1>11, <1>12, <1>16 DEF r

-----------------------------------------------------------------------------
(* Reading it back.                                                        *)

Parsed == [ok : BOOLEAN, text : Seq(Byte)]
Piece == [used : {0, 1, 2, 6, 12}, bytes : Seq(Byte)]

LEMMA HexValueIs ==
  ASSUME NEW c \in Nat
  PROVE  HexValue(c) \in Nat /\ HexValue(c) <= 16
  BY SMT DEF HexValue

LEMMA Hex4Is ==
  ASSUME NEW s \in Seq(Byte), NEW i \in Nat, i > 0
  PROVE  Hex4(s, i) \in Nat /\ Hex4(s, i) <= 65536
  <1>0. Len(s) \in Nat
    BY LenProperties
  <1>1. CASE i + 3 > Len(s) \/ \E k \in i .. i + 3 : HexValue(s[k]) = 16
    <2>1. Hex4(s, i) = 65536
      BY <1>1, SMT DEF Hex4
    <2> QED BY <2>1, SMT
  <1>2. CASE ~(i + 3 > Len(s) \/ \E k \in i .. i + 3 : HexValue(s[k]) = 16)
    <2>1. \A k \in {i, i + 1, i + 2, i + 3} : k \in 1 .. Len(s) /\ k \in i .. i + 3
      BY <1>0, <1>2
    <2>2. \A k \in {i, i + 1, i + 2, i + 3} :
            HexValue(s[k]) \in Nat /\ HexValue(s[k]) <= 16 /\ HexValue(s[k]) # 16
      <3> SUFFICES ASSUME NEW k \in {i, i + 1, i + 2, i + 3}
                   PROVE  HexValue(s[k]) \in Nat /\ HexValue(s[k]) <= 16 /\ HexValue(s[k]) # 16
        OBVIOUS
      <3>1. s[k] \in Nat
        BY <2>1, ElementOfSeq, ByteIs
      <3> QED BY <3>1, <2>1, <1>2, HexValueIs
    <2>3. PICK a \in Nat : a = HexValue(s[i]) /\ a < 16
      BY <2>2
    <2>4. PICK b \in Nat : b = HexValue(s[i + 1]) /\ b < 16
      BY <2>2
    <2>5. PICK c \in Nat : c = HexValue(s[i + 2]) /\ c < 16
      BY <2>2
    <2>6. PICK d \in Nat : d = HexValue(s[i + 3]) /\ d < 16
      BY <2>2
    <2>7. Hex4(s, i) = a * 4096 + b * 256 + c * 16 + d
      BY <1>2, <2>3, <2>4, <2>5, <2>6, SMT DEF Hex4
    <2>8. a < 16 /\ b < 16 /\ c < 16 /\ d < 16
      BY <2>3, <2>4, <2>5, <2>6
    <2>9. /\ a * 4096 + b * 256 + c * 16 + d \in Nat
          /\ a * 4096 + b * 256 + c * 16 + d <= 65536
      BY <2>8, SMT
    <2> QED BY <2>7, <2>9
  <1> QED BY <1>1, <1>2

LEMMA ShortKeys == \A k \in DOMAIN Short : k \in Byte
  <1>1. \A k \in {8, 9, 10, 12, 13} : k \in Nat /\ k <= 255
    BY SMT
  <1> QED BY <1>1, ShortIs, ByteIs

LEMMA UnescapeIs ==
  ASSUME NEW s \in Seq(Byte), NEW i \in 1 .. Len(s)
  PROVE  Unescape(s, i) \in Piece
  <1>0. Len(s) \in Nat
    BY LenProperties
  <1> DEFINE c == IF i < Len(s) THEN s[i + 1] ELSE 0
             u == Hex4(s, i + 2)
             low == IF i + 7 <= Len(s) /\ s[i + 6] = Backslash /\ s[i + 7] = 117 THEN Hex4(s, i + 8)
                    ELSE 65536
             one == c \in {Quote, Backslash, 47}
             two == \E k \in DOMAIN Short : Short[k] = c
             six == c = 117 /\ u < 65536 /\ ~(IsHigh(u) /\ IsLow(low))
             pair == c = 117 /\ IsHigh(u) /\ IsLow(low)
             joined == 65536 + (u - 55296) * 1024 + (low - 56320)
  <1>1. Unescape(s, i) = CASE one  -> [used |-> 2, bytes |-> <<c>>]
                           [] two  -> [used |-> 2, bytes |-> <<CHOOSE k \in DOMAIN Short : Short[k] = c>>]
                           [] six  -> [used |-> 6, bytes |-> Encode(u)]
                           [] pair -> [used |-> 12, bytes |-> Encode(joined)]
                           [] OTHER -> [used |-> 0, bytes |-> <<>>]
    BY DEF Unescape
  <1>2. u \in Nat
    <2>1. i + 2 \in Nat /\ i + 2 > 0
      BY <1>0
    <2> QED BY <2>1, Hex4Is
  <1>3. c \in Byte
    <2>1. 0 \in Byte
      BY ByteIs
    <2>2. i < Len(s) => i + 1 \in 1 .. Len(s)
      BY <1>0
    <2> QED BY <2>1, <2>2, ElementOfSeq
  <1>4. two => (CHOOSE k \in DOMAIN Short : Short[k] = c) \in Byte
    <2>1. \A k \in DOMAIN Short : k \in Byte
      BY ShortKeys
    <2> HIDE DEF c, u, low, one, six, pair, joined
    <2> QED BY <2>1
  <1>5. six => Encode(u) \in Seq(Byte)
    <2>1. six => IsCode(u)
      <3> HIDE DEF u
      <3> QED BY <1>2, SMT DEF IsCode
    <2> HIDE DEF six, u
    <2> QED BY <2>1, EncodeIs
  <1>6. low \in Nat
    <2>1. i + 8 \in Nat /\ i + 8 > 0
      BY <1>0
    <2>2. Hex4(s, i + 8) \in Nat
      BY <2>1, Hex4Is
    <2> QED BY <2>2, SMT
  <1>7. pair => Encode(joined) \in Seq(Byte)
    <2>1. \A x, y \in Nat : IsHigh(x) /\ IsLow(y) =>
            IsCode(65536 + (x - 55296) * 1024 + (y - 56320))
      BY SMT DEF IsHigh, IsLow, IsCode
    <2>2. pair => IsCode(joined)
      <3>1. pair => IsHigh(u) /\ IsLow(low)
        OBVIOUS
      <3> HIDE DEF u, low, pair
      <3> QED BY <2>1, <3>1, <1>2, <1>6, SMT
    <2> HIDE DEF pair, joined
    <2> QED BY <2>2, EncodeIs
  <1> HIDE DEF c, u, low, one, two, six, pair, joined
  <1>8. <<c>> \in Seq(Byte) /\ <<>> \in Seq(Byte)
    BY <1>3
  <1>9. CASE one
    <2>1. c # 117
      BY <1>9, SMT DEF one, Quote, Backslash
    <2>2. ~two
      BY <1>9, ShortIs, SMT DEF one, two, Quote, Backslash
    <2>3. ~six /\ ~pair
      BY <2>1 DEF six, pair
    <2>4. Unescape(s, i) = [used |-> 2, bytes |-> <<c>>]
      BY <1>1, <1>9, <2>2, <2>3
    <2> QED BY <2>4, <1>8 DEF Piece
  <1>10. CASE two
    <2>1. ~one
      BY <1>10, ShortIs, SMT DEF one, two, Quote, Backslash
    <2>2. c # 117
      BY <1>10, ShortIs, SMT DEF two
    <2>3. ~six /\ ~pair
      BY <2>2 DEF six, pair
    <2>4. Unescape(s, i) = [used |-> 2, bytes |-> <<CHOOSE k \in DOMAIN Short : Short[k] = c>>]
      BY <1>1, <1>10, <2>1, <2>3
    <2> QED BY <2>4, <1>4, <1>10 DEF Piece
  <1>11. CASE ~one /\ ~two /\ six
    <2>1. ~pair
      BY <1>11 DEF six, pair
    <2>2. Unescape(s, i) = [used |-> 6, bytes |-> Encode(u)]
      BY <1>1, <1>11, <2>1
    <2> QED BY <2>2, <1>5, <1>11 DEF Piece
  <1>12. CASE ~one /\ ~two /\ ~six /\ pair
    <2>1. Unescape(s, i) = [used |-> 12, bytes |-> Encode(joined)]
      BY <1>1, <1>12
    <2> QED BY <2>1, <1>7, <1>12 DEF Piece
  <1>13. CASE ~one /\ ~two /\ ~six /\ ~pair
    <2>1. Unescape(s, i) = [used |-> 0, bytes |-> <<>>]
      BY <1>1, <1>13
    <2> QED BY <2>1, <1>8 DEF Piece
  <1> QED BY <1>9, <1>10, <1>11, <1>12, <1>13

ParseAt(s, rest, i) ==
  IF i > Len(s) THEN Unparsed
  ELSE IF s[i] = Quote THEN [ok |-> TRUE, text |-> <<>>]
  ELSE LET e == IF s[i] = Backslash THEN Unescape(s, i)
                ELSE [used |-> 1, bytes |-> <<s[i]>>] IN
         IF e.used = 0 THEN Unparsed
         ELSE Before(e.bytes, rest[i + e.used])

ParseRest(s) == CHOOSE rest : rest = [i \in 1 .. Len(s) + 12 |-> ParseAt(s, rest, i)]

LEMMA ParseIsRest ==
  ASSUME NEW s \in Seq(Byte), s # <<>>, s[1] = Quote
  PROVE  ParseString(s) = ParseRest(s)[2]
  BY DEF ParseString, ParseRest, ParseAt

LEMMA ParseAtIs ==
  ASSUME NEW s \in Seq(Byte), NEW i \in 1 .. Len(s) + 12, NEW f, NEW g,
         \A k \in i + 1 .. Len(s) + 12 : f[k] = g[k] /\ f[k] \in Parsed
  PROVE  ParseAt(s, f, i) = ParseAt(s, g, i) /\ ParseAt(s, f, i) \in Parsed
  <1>0. Len(s) \in Nat /\ Unparsed \in Parsed /\ <<>> \in Seq(Byte)
    BY LenProperties, EmptySeq DEF Unparsed, Parsed
  <1>1. CASE i > Len(s)
    BY <1>0, <1>1 DEF ParseAt
  <1>2. CASE ~(i > Len(s)) /\ s[i] = Quote
    <2>1. ParseAt(s, f, i) = [ok |-> TRUE, text |-> <<>>] /\ ParseAt(s, g, i) = [ok |-> TRUE, text |-> <<>>]
      BY <1>2 DEF ParseAt
    <2> QED BY <2>1, <1>0 DEF Parsed
  <1>3. CASE ~(i > Len(s)) /\ s[i] # Quote
    <2> DEFINE e == IF s[i] = Backslash THEN Unescape(s, i) ELSE [used |-> 1, bytes |-> <<s[i]>>]
    <2>1. i \in 1 .. Len(s)
      BY <1>0, <1>3
    <2>2. e \in Piece
      <3>1. s[i] \in Byte
        BY <2>1, ElementOfSeq
      <3>2. [used |-> 1, bytes |-> <<s[i]>>] \in Piece
        BY <3>1 DEF Piece
      <3> QED BY <2>1, <3>2, UnescapeIs
    <2>3. /\ ParseAt(s, f, i) = IF e.used = 0 THEN Unparsed ELSE Before(e.bytes, f[i + e.used])
          /\ ParseAt(s, g, i) = IF e.used = 0 THEN Unparsed ELSE Before(e.bytes, g[i + e.used])
      BY <1>3 DEF ParseAt
    <2> HIDE DEF e
    <2>4. e.used \in {0, 1, 2, 6, 12} /\ e.bytes \in Seq(Byte)
      BY <2>2 DEF Piece
    <2>5. e.used # 0 => i + e.used \in i + 1 .. Len(s) + 12
      BY <1>0, <2>1, <2>4
    <2>6. CASE e.used = 0
      BY <2>3, <2>6, <1>0
    <2>7. CASE e.used # 0
      <3>1. f[i + e.used] = g[i + e.used] /\ f[i + e.used] \in Parsed
        BY <2>5, <2>7
      <3>2. PICK p \in Parsed : p = f[i + e.used]
        BY <3>1
      <3>3. p.ok \in BOOLEAN /\ p.text \in Seq(Byte)
        BY DEF Parsed
      <3>4. e.bytes \o p.text \in Seq(Byte)
        BY <2>4, <3>3, ConcatProperties
      <3>5. Before(e.bytes, p) \in Parsed
        BY <3>3, <3>4 DEF Before, Parsed
      <3>6. ParseAt(s, f, i) \in Parsed
        BY <2>3, <2>7, <3>2, <3>5
      <3> QED BY <2>3, <2>7, <3>1, <3>6
    <2> QED BY <2>6, <2>7
  <1> QED BY <1>1, <1>2, <1>3

LEMMA ParseRestIs ==
  ASSUME NEW s \in Seq(Byte)
  PROVE  /\ \A i \in 1 .. Len(s) + 12 : ParseRest(s)[i] = ParseAt(s, ParseRest(s), i)
         /\ \A i \in 1 .. Len(s) + 12 : ParseRest(s)[i] \in Parsed
  <1> DEFINE D == 1 .. Len(s) + 12
             rank == [i \in D |-> Len(s) + 12 - i]
             F == [i \in D |-> [f \in [D -> Parsed] |-> ParseAt(s, f, i)]]
             r == ParseRest(s)
  <1>0. Len(s) \in Nat
    BY LenProperties
  <1>1. Parsed # {}
    <2>1. [ok |-> TRUE, text |-> <<>>] \in Parsed
      BY EmptySeq DEF Parsed
    <2> QED BY <2>1
  <1>2. rank \in [D -> Nat]
    BY <1>0
  <1>3. ASSUME NEW x \in D, NEW f \in [D -> Parsed], NEW g \in [D -> Parsed],
               \A y \in D : rank[y] < rank[x] => f[y] = g[y]
        PROVE  ParseAt(s, f, x) = ParseAt(s, g, x) /\ ParseAt(s, f, x) \in Parsed
    <2>1. \A k \in x + 1 .. Len(s) + 12 : k \in D /\ rank[k] < rank[x]
      BY <1>0
    <2>2. \A k \in x + 1 .. Len(s) + 12 : f[k] = g[k] /\ f[k] \in Parsed
      BY <1>3, <2>1
    <2> QED BY <2>2, ParseAtIs
  <1>4. F \in [D -> [[D -> Parsed] -> Parsed]]
    <2>1. \A x \in D : \A f \in [D -> Parsed] : ParseAt(s, f, x) \in Parsed
      BY <1>3
    <2> QED BY <2>1
  <1>5. \A x \in D : \A f \in [D -> Parsed] : F[x][f] = ParseAt(s, f, x)
    OBVIOUS
  <1>6. \E f \in [D -> Parsed] : \A x \in D : f[x] = F[x][f]
    <2>1. \A x \in D : \A f, g \in [D -> Parsed] :
            (\A y \in D : rank[y] < rank[x] => f[y] = g[y]) => F[x][f] = F[x][g]
      BY <1>3, <1>5
    <2> HIDE DEF D, rank, F, r
    <2>2. Recursive(D, Parsed, rank, F)
      BY <1>1, <1>2, <1>4, <2>1 DEF Recursive
    <2> QED BY <2>2, Recursion DEF HasFixpoint
  <1>7. PICK f \in [D -> Parsed] : \A x \in D : f[x] = ParseAt(s, f, x)
    BY <1>5, <1>6
  <1>8. f = [i \in D |-> ParseAt(s, f, i)]
    BY <1>7
  <1>9. r = [i \in D |-> ParseAt(s, r, i)]
    BY <1>8 DEF ParseRest
  <1>10. \A i \in D : r[i] = ParseAt(s, r, i)
    BY <1>9
  <1> HIDE DEF r
  <1> DEFINE I == {i \in D : r[i] \in Parsed}
  <1>11. ASSUME NEW i \in D, \A k \in i + 1 .. Len(s) + 12 : k \in I
         PROVE  i \in I
    <2>1. \A k \in i + 1 .. Len(s) + 12 : r[k] = r[k] /\ r[k] \in Parsed
      BY <1>11
    <2>2. ParseAt(s, r, i) \in Parsed
      BY <2>1, ParseAtIs
    <2> QED BY <2>2, <1>10
  <1>12. I = D
    <2>1. I \in SUBSET D /\ Len(s) + 12 \in Nat
      BY <1>0
    <2> HIDE DEF I
    <2> QED BY <1>11, <2>1, Downward
  <1> QED BY <1>10, <1>12 DEF r

LEMMA ShortLetters ==
  /\ \A k \in DOMAIN Short : Short[k] \in {98, 102, 110, 114, 116}
  /\ \A k, m \in DOMAIN Short : Short[k] = Short[m] => k = m
  BY ShortIs, SMT

(* What is written for a byte is read as that byte. *)
LEMMA UnescapeForms ==
  ASSUME NEW s \in Seq(Byte), NEW i \in 1 .. Len(s), i < Len(s),
         NEW c \in Byte, c = s[i + 1], NEW u \in Nat, u = Hex4(s, i + 2)
  PROVE  /\ c \in {Quote, Backslash} => Unescape(s, i) = [used |-> 2, bytes |-> <<c>>]
         /\ \A k \in DOMAIN Short : Short[k] = c => Unescape(s, i) = [used |-> 2, bytes |-> <<k>>]
         /\ c = 117 /\ u < 65536 /\ ~IsHigh(u) => Unescape(s, i) = [used |-> 6, bytes |-> Encode(u)]
  <1> DEFINE low == IF i + 7 <= Len(s) /\ s[i + 6] = Backslash /\ s[i + 7] = 117 THEN Hex4(s, i + 8)
                    ELSE 65536
             one == c \in {Quote, Backslash, 47}
             two == \E k \in DOMAIN Short : Short[k] = c
             six == c = 117 /\ u < 65536 /\ ~(IsHigh(u) /\ IsLow(low))
             pair == c = 117 /\ IsHigh(u) /\ IsLow(low)
             joined == 65536 + (u - 55296) * 1024 + (low - 56320)
  <1>1. Unescape(s, i) = CASE one  -> [used |-> 2, bytes |-> <<c>>]
                           [] two  -> [used |-> 2, bytes |-> <<CHOOSE k \in DOMAIN Short : Short[k] = c>>]
                           [] six  -> [used |-> 6, bytes |-> Encode(u)]
                           [] pair -> [used |-> 12, bytes |-> Encode(joined)]
                           [] OTHER -> [used |-> 0, bytes |-> <<>>]
    BY DEF Unescape
  <1> HIDE DEF low, one, two, six, pair, joined
  <1>2. ASSUME c \in {Quote, Backslash}
        PROVE  Unescape(s, i) = [used |-> 2, bytes |-> <<c>>]
    <2>1. one
      BY <1>2 DEF one
    <2>2. c # 117
      BY <1>2, SMT DEF Quote, Backslash
    <2>3. ~two
      BY <1>2, ShortIs, SMTT(30) DEF two, Quote, Backslash
    <2>4. ~six /\ ~pair
      BY <2>2 DEF six, pair
    <2> QED BY <1>1, <2>1, <2>3, <2>4
  <1>3. ASSUME NEW k \in DOMAIN Short, Short[k] = c
        PROVE  Unescape(s, i) = [used |-> 2, bytes |-> <<k>>]
    <2>1. two
      BY <1>3 DEF two
    <2>2. c # 117 /\ ~one
      <3>1. c \in {98, 102, 110, 114, 116}
        BY <1>3, ShortLetters
      <3> QED BY <3>1, SMTT(30) DEF one, Quote, Backslash
    <2>3. ~six /\ ~pair
      BY <2>2 DEF six, pair
    <2>4. \A m \in DOMAIN Short : Short[m] = c => m = k
      BY <1>3, ShortLetters
    <2>5. (CHOOSE m \in DOMAIN Short : Short[m] = c) = k
      BY <1>3, <2>4
    <2> QED BY <1>1, <2>1, <2>2, <2>3, <2>5
  <1>4. ASSUME c = 117, u < 65536, ~IsHigh(u)
        PROVE  Unescape(s, i) = [used |-> 6, bytes |-> Encode(u)]
    <2>1. six /\ ~pair
      BY <1>4 DEF six, pair
    <2>2. ~one
      BY <1>4, SMT DEF one, Quote, Backslash
    <2>3. ~two
      BY <1>4, ShortIs, SMT DEF two
    <2> QED BY <1>1, <2>1, <2>2, <2>3
  <1> QED BY <1>2, <1>3, <1>4

(* What is read when all of it was a string. *)
Read(t) == [ok |-> TRUE, text |-> t]

LEMMA ReadLonger ==
  ASSUME NEW t, NEW b
  PROVE  Before(b, Read(t)) = Read(b \o t)
  BY DEF Before, Read

Escaped(s, rest, i, b, t) ==
  /\ ~(i > Len(s)) /\ s[i] = Backslash
  /\ \E n : n # 0 /\ Unescape(s, i) = [used |-> n, bytes |-> b] /\ rest[i + n] = Read(t)

Unescaped(s, rest, i, t) ==
  ~(i > Len(s)) /\ s[i] # Quote /\ s[i] # Backslash /\ rest[i + 1] = Read(t)

LEMMA ParseEscape ==
  ASSUME NEW s, NEW rest, NEW i, NEW b, NEW t, Escaped(s, rest, i, b, t)
  PROVE  ParseAt(s, rest, i) = Read(b \o t)
  <1>1. s[i] # Quote /\ ~(i > Len(s)) /\ s[i] = Backslash
    BY DEF Escaped, Quote, Backslash
  <1>2. PICK n : n # 0 /\ Unescape(s, i) = [used |-> n, bytes |-> b] /\ rest[i + n] = Read(t)
    BY DEF Escaped
  <1>3. ParseAt(s, rest, i) = Before(b, rest[i + n])
    BY <1>1, <1>2 DEF ParseAt
  <1> QED BY <1>2, <1>3, ReadLonger

LEMMA ParsePlain ==
  ASSUME NEW s, NEW rest, NEW i, NEW t, Unescaped(s, rest, i, t)
  PROVE  ParseAt(s, rest, i) = Read(<<s[i]>> \o t)
  <1>1. ~(i > Len(s)) /\ s[i] # Quote /\ s[i] # Backslash /\ rest[i + 1] = Read(t)
    BY DEF Unescaped
  <1>2. ParseAt(s, rest, i) = Before(<<s[i]>>, rest[i + 1])
    BY <1>1 DEF ParseAt
  <1> QED BY <1>1, <1>2, ReadLonger

EscapeAt(s, c, p, rest, t) ==
  /\ p + Len(Escape(c)) < Len(s)
  /\ \A k \in 1 .. Len(Escape(c)) : s[p + k] = Escape(c)[k]
  /\ rest[p + 1 + Len(Escape(c))] = Read(t)

LEMMA EscapeIsRead ==
  ASSUME NEW s \in Seq(Byte), NEW c \in Byte, NEW p \in Nat, NEW rest, NEW t \in Seq(Byte),
         EscapeAt(s, c, p, rest, t)
  PROVE  ParseAt(s, rest, p + 1) = Read(<<c>> \o t)
  <1>9. /\ p + Len(Escape(c)) < Len(s)
        /\ \A k \in 1 .. Len(Escape(c)) : s[p + k] = Escape(c)[k]
        /\ rest[p + 1 + Len(Escape(c))] = Read(t)
    BY DEF EscapeAt
  <1>0. Len(s) \in Nat /\ c \in Nat /\ c < 256
    BY LenProperties, ByteIs
  <1>1. PICK used \in Nat : used = Len(Escape(c)) /\ used \in {1, 2, 6} /\ p + used < Len(s)
    <2>1. Len(Escape(c)) \in {1, 2, 6}
      BY EscapeIs
    <2> QED BY <1>9, <2>1
  <1>2. p + 1 \in 1 .. Len(s) /\ p + 2 \in Nat /\ ~(p + 1 > Len(s))
    BY <1>0, <1>1
  <1>3. ASSUME s[p + 1] = Backslash, Unescape(s, p + 1) = [used |-> used, bytes |-> <<c>>]
        PROVE  ParseAt(s, rest, p + 1) = Read(<<c>> \o t)
    <2>1. used # 0
      BY <1>1
    <2>2. rest[p + 1 + used] = Read(t)
      BY <1>1, <1>9
    <2>3. Escaped(s, rest, p + 1, <<c>>, t)
      BY <1>2, <1>3, <2>1, <2>2 DEF Escaped
    <2> QED BY <2>3, ParseEscape
  <1>4. ASSUME used > 1
        PROVE  /\ p + 1 < Len(s) /\ s[p + 2] \in Byte /\ (p + 1) + 1 = p + 2 /\ (p + 1) + 2 = p + 3
               /\ Hex4(s, p + 3) \in Nat
    <2>1. p + 1 < Len(s) /\ p + 2 \in 1 .. Len(s) /\ (p + 1) + 1 = p + 2 /\ (p + 1) + 2 = p + 3
      BY <1>0, <1>1, <1>4
    <2>2. p + 3 \in Nat /\ p + 3 > 0
      OBVIOUS
    <2>3. s[p + 2] \in Byte
      BY <2>1, ElementOfSeq
    <2> QED BY <2>1, <2>2, <2>3, Hex4Is, SMTT(30)
  <1>5. CASE c \in {Quote, Backslash} /\ Escape(c) = <<Backslash, c>>
    <2>1. used = 2 /\ s[p + 1] = Backslash /\ s[p + 2] = c
      BY <1>1, <1>5, <1>9
    <2>2. Unescape(s, p + 1) = [used |-> 2, bytes |-> <<c>>]
      BY <1>2, <1>4, <1>5, <2>1, UnescapeForms, SMTT(30)
    <2> QED BY <1>3, <2>1, <2>2
  <1>6. CASE c \in DOMAIN Short /\ Escape(c) = <<Backslash, Short[c]>>
    <2>1. used = 2 /\ s[p + 1] = Backslash /\ s[p + 2] = Short[c]
      BY <1>1, <1>6, <1>9
    <2>2. Unescape(s, p + 1) = [used |-> 2, bytes |-> <<c>>]
      <3>1. /\ p + 1 < Len(s) /\ s[p + 2] \in Byte /\ (p + 1) + 1 = p + 2 /\ (p + 1) + 2 = p + 3
            /\ Hex4(s, p + 3) \in Nat
        BY <1>4, <2>1
      <3>2. \A k \in DOMAIN Short :
              Short[k] = s[p + 2] => Unescape(s, p + 1) = [used |-> 2, bytes |-> <<k>>]
        BY <1>2, <3>1, UnescapeForms, SMTT(30)
      <3> QED BY <1>6, <2>1, <3>2
    <2> QED BY <1>3, <2>1, <2>2
  <1>7. CASE /\ c < 32 /\ c \notin DOMAIN Short
             /\ Escape(c) = <<Backslash, 117, 48, 48, HexDigit(c \div 16), HexDigit(c % 16)>>
    <2> DEFINE h == c \div 16
               l == c % 16
    <2>1. h \in Nat /\ h < 16
      BY <1>0, <1>7, Nibbles
    <2>2. l \in Nat /\ l < 16
      BY <1>0, <1>7, Nibbles
    <2>3. h * 16 + l = c
      BY <1>0, <1>7, Nibbles
    <2>15. Escape(c) = <<Backslash, 117, 48, 48, HexDigit(h), HexDigit(l)>>
      BY <1>7
    <2> HIDE DEF h, l
    <2>4. /\ used = 6 /\ s[p + 1] = Backslash /\ s[p + 2] = 117 /\ s[p + 3] = 48 /\ s[p + 4] = 48
          /\ s[p + 5] = HexDigit(h) /\ s[p + 6] = HexDigit(l)
      <3> DEFINE e == <<Backslash, 117, 48, 48, HexDigit(h), HexDigit(l)>>
      <3>1. Escape(c) = e
        BY <2>15
      <3>2. Len(e) = 6 /\ e[1] = Backslash /\ e[2] = 117 /\ e[3] = 48 /\ e[4] = 48
            /\ e[5] = HexDigit(h) /\ e[6] = HexDigit(l)
        OBVIOUS
      <3> HIDE DEF e
      <3>3. used = 6
        BY <1>1, <3>1, <3>2
      <3>4. \A k \in {1, 2, 3, 4, 5, 6} : s[p + k] = e[k]
        BY <1>9, <3>1, <3>2, SMTT(30)
      <3> QED BY <3>2, <3>3, <3>4
    <2>5. HexValue(48) = 0
      BY SMT DEF HexValue
    <2>6. /\ HexValue(s[p + 3]) = 0 /\ HexValue(s[p + 4]) = 0
          /\ HexValue(s[p + 5]) = h /\ HexValue(s[p + 6]) = l
      BY <2>1, <2>2, <2>4, <2>5, HexDigitIs
    <2>7. ~((p + 3) + 3 > Len(s))
      BY <1>0, <1>1, <2>4
    <2>8. \A k \in p + 3 .. (p + 3) + 3 : HexValue(s[k]) # 16
      <3> SUFFICES ASSUME NEW k \in p + 3 .. (p + 3) + 3 PROVE HexValue(s[k]) # 16
        OBVIOUS
      <3>1. k = p + 3 \/ k = p + 4 \/ k = p + 5 \/ k = p + 6
        OBVIOUS
      <3>2. 0 # 16 /\ h # 16 /\ l # 16
        BY <2>1, <2>2
      <3> QED BY <3>1, <3>2, <2>6
    <2>9. Hex4(s, p + 3) = 0 * 4096 + 0 * 256 + h * 16 + l
      <3>1. (p + 3) + 1 = p + 4 /\ (p + 3) + 2 = p + 5 /\ (p + 3) + 3 = p + 6
        OBVIOUS
      <3> QED BY <2>6, <2>7, <2>8, <3>1 DEF Hex4
    <2>10. Hex4(s, p + 3) = c
      BY <2>1, <2>2, <2>3, <2>9, SMT
    <2>11. c < 65536 /\ ~IsHigh(c) /\ c < 128
      BY <1>0, <1>7, SMT DEF IsHigh
    <2>12. Encode(c) = <<c>>
      <3>1. ~(c >= 128 /\ c < 2048) /\ ~(c >= 2048 /\ c < 65536)
        BY <1>0, <2>11, SMT
      <3> QED BY <2>11, <3>1 DEF Encode
    <2>13. Unescape(s, p + 1) = [used |-> 6, bytes |-> <<c>>]
      <3>1. used > 1
        BY <2>4
      <3>2. /\ p + 1 < Len(s) /\ s[p + 2] \in Byte /\ (p + 1) + 1 = p + 2 /\ (p + 1) + 2 = p + 3
            /\ Hex4(s, p + 3) \in Nat
        BY <1>4, <3>1
      <3>3. Unescape(s, p + 1) = [used |-> 6, bytes |-> Encode(Hex4(s, p + 3))]
        <4>1. 117 = s[(p + 1) + 1] /\ 117 \in Byte
          BY <2>4, <3>2
        <4>2. Hex4(s, p + 3) = Hex4(s, (p + 1) + 2) /\ Hex4(s, p + 3) < 65536 /\ ~IsHigh(Hex4(s, p + 3))
          BY <3>2, <2>10, <2>11
        <4>3. p + 1 \in 1 .. Len(s) /\ p + 1 < Len(s)
          BY <1>2, <3>2
        <4> DEFINE u == Hex4(s, p + 3)
        <4>4. u \in Nat /\ u = Hex4(s, (p + 1) + 2) /\ u < 65536 /\ ~IsHigh(u)
          BY <3>2, <4>2
        <4> HIDE DEF u
        <4>5. 117 = 117 /\ u < 65536 /\ ~IsHigh(u) => Unescape(s, p + 1) = [used |-> 6, bytes |-> Encode(u)]
          BY <4>1, <4>3, <4>4, UnescapeForms, SMTT(30)
        <4>6. Unescape(s, p + 1) = [used |-> 6, bytes |-> Encode(u)]
          BY <4>4, <4>5
        <4> QED BY <4>6 DEF u
      <3> QED BY <3>3, <2>10, <2>12
    <2> QED BY <1>3, <2>4, <2>13
  <1>8. CASE c >= 32 /\ c \notin {Quote, Backslash} /\ Escape(c) = <<c>>
    <2>1. used = 1 /\ s[p + 1] = c
      BY <1>1, <1>8, <1>9
    <2>2. rest[p + 1 + 1] = Read(t)
      BY <1>1, <1>9, <2>1
    <2>3. s[p + 1] # Quote /\ s[p + 1] # Backslash
      BY <1>8, <2>1
    <2>4. ParseAt(s, rest, p + 1) = Read(<<s[p + 1]>> \o t)
      <3>1. Unescaped(s, rest, p + 1, t)
        BY <1>2, <2>2, <2>3 DEF Unescaped
      <3> QED BY <3>1, ParsePlain
    <2> QED BY <2>1, <2>4
  <1> QED BY <1>5, <1>6, <1>7, <1>8, EscapeForms

(* What is written of a text, and is read back: its quote, its bytes'      *)
(* escapes and its end.                                                    *)
LEMMA JsonIs ==
  ASSUME NEW s \in Seq(Byte)
  PROVE  /\ JsonString(s) \in Seq(Printed) /\ JsonString(s) \in Seq(Byte)
         /\ JsonString(s) # <<>> /\ JsonString(s)[1] = Quote
         /\ Len(JsonString(s)) = Len(Written(s)[Len(s)]) + 1
         /\ JsonString(s)[Len(JsonString(s))] = Quote
         /\ \A i \in 1 .. Len(Written(s)[Len(s)]) : JsonString(s)[i] = Written(s)[Len(s)][i]
  <1> DEFINE w == Written(s)[Len(s)]
             j == JsonString(s)
  <1>0. Len(s) \in Nat /\ Len(s) \in 0 .. Len(s)
    BY LenProperties
  <1>1. w \in Seq(Printed)
    BY <1>0, WrittenIs
  <1>2. Quote \in Printed /\ Printed \subseteq Byte
    BY PrintedIs DEF Quote
  <1>3. j = Append(w, Quote)
    BY JsonIsWritten
  <1> HIDE DEF w, j
  <1>4. /\ j \in Seq(Printed) /\ Len(j) = Len(w) + 1 /\ j[Len(w) + 1] = Quote
        /\ \A i \in 1 .. Len(w) : j[i] = w[i]
    BY <1>1, <1>2, <1>3, AppendProperties
  <1>5. j \in Seq(Byte)
    BY <1>2, <1>4
  <1>6. Len(w) \in Nat
    BY <1>1, LenProperties
  <1>7. j # <<>>
    BY <1>4, <1>6
  <1>13. /\ Written(s)[0] = <<Quote>>
         /\ \A i \in 1 .. Len(s) : Written(s)[i] = Written(s)[i - 1] \o Escape(s[i])
    BY WrittenIs
  <1> DEFINE L == {n \in Nat : n <= Len(s) => Len(Written(s)[n]) >= 1 /\ Written(s)[n][1] = Quote}
  <1>8. 0 \in L
    <2>1. Len(<<Quote>>) = 1 /\ <<Quote>>[1] = Quote
      OBVIOUS
    <2>2. Len(Written(s)[0]) >= 1 /\ Written(s)[0][1] = Quote
      BY <1>13, <2>1
    <2> QED BY <2>2
  <1>9. ASSUME NEW n \in L PROVE n + 1 \in L
    <2> SUFFICES ASSUME n + 1 <= Len(s)
                 PROVE  Len(Written(s)[n + 1]) >= 1 /\ Written(s)[n + 1][1] = Quote
      OBVIOUS
    <2>1. n + 1 \in 1 .. Len(s) /\ n \in 0 .. Len(s) /\ n + 1 - 1 = n
      BY <1>0
    <2> DEFINE a == Written(s)[n]
               e == Escape(s[n + 1])
    <2>2. Written(s)[n + 1] = a \o e
      <3>1. PICK m \in 1 .. Len(s) : m = n + 1 /\ m - 1 = n
        BY <2>1
      <3>2. Written(s)[m] = Written(s)[m - 1] \o Escape(s[m])
        BY <1>13
      <3> QED BY <3>1, <3>2
    <2>3. Len(a) >= 1 /\ a[1] = Quote
      BY <2>1, <1>0
    <2>4. a \in Seq(Printed) /\ e \in Seq(Printed)
      <3>1. s[n + 1] \in Byte
        BY <2>1, ElementOfSeq
      <3> QED BY <2>1, <3>1, WrittenIs, EscapeIs
    <2> HIDE DEF a, e
    <2>5. /\ Len(a \o e) = Len(a) + Len(e) /\ Len(a) \in Nat /\ Len(e) \in Nat
          /\ \A i \in 1 .. Len(a) : (a \o e)[i] = a[i]
      BY <2>4, ConcatIs
    <2>6. Len(a \o e) >= 1 /\ (a \o e)[1] = Quote
      BY <2>3, <2>5
    <2> QED BY <2>2, <2>6
  <1>10. L = Nat
    <2>1. L \in SUBSET Nat
      OBVIOUS
    <2> HIDE DEF L
    <2> QED BY <1>8, <1>9, <2>1, Induct
  <1>11. Len(w) >= 1 /\ w[1] = Quote
    <2>1. Len(s) \in L
      <3> HIDE DEF L
      <3> QED BY <1>0, <1>10
    <2> QED BY <1>0, <2>1 DEF w
  <1>12. j[1] = Quote
    BY <1>4, <1>6, <1>11
  <1> QED BY <1>4, <1>5, <1>7, <1>12 DEF w, j

(* What has been written stays as it is. *)
Stands(s, i) ==
  /\ Len(Written(s)[i]) < Len(JsonString(s))
  /\ \A k \in 1 .. Len(Written(s)[i]) : JsonString(s)[k] = Written(s)[i][k]

ReadFrom(s, i) ==
  ParseRest(JsonString(s))[Len(Written(s)[i - 1]) + 1] = Read(From(s, i))

LEMMA JsonStep ==
  ASSUME NEW s \in Seq(Byte), NEW i \in 1 .. Len(s), Stands(s, i), ReadFrom(s, i + 1)
  PROVE  Stands(s, i - 1) /\ ReadFrom(s, i)
  <1> DEFINE j == JsonString(s)
             a == Written(s)[i - 1]
             b == Written(s)[i]
             e == Escape(s[i])
             rest == ParseRest(j)
             t == From(s, i + 1)
  <1>0. Len(s) \in Nat /\ i - 1 \in 0 .. Len(s) /\ (i + 1) - 1 = i /\ i + 1 \in 1 .. Len(s) + 1
    BY LenProperties
  <1>1. s[i] \in Byte
    BY ElementOfSeq
  <1>2. b = a \o e /\ a \in Seq(Printed) /\ e \in Seq(Printed) /\ j \in Seq(Byte)
    BY <1>0, <1>1, WrittenIs, EscapeIs, JsonIs
  <1>3. /\ Len(b) < Len(j) /\ (\A k \in 1 .. Len(b) : j[k] = b[k]) /\ rest[Len(b) + 1] = Read(t)
    BY <1>0 DEF Stands, ReadFrom
  <1>4. t \in Seq(Byte)
    BY <1>0, FromIs
  <1>5. \A k \in 1 .. Len(j) + 12 : rest[k] = ParseAt(j, rest, k)
    BY <1>2, ParseRestIs
  <1>6. Len(e) \in {1, 2, 6}
    BY <1>1, EscapeIs
  <1>7. Len(j) \in Nat
    BY <1>2, LenProperties
  <1> HIDE DEF j, a, b, e, rest, t
  <1>8. PICK p \in Nat : p = Len(a)
    BY <1>2, LenProperties
  <1>9. /\ Len(b) = p + Len(e) /\ Len(e) \in Nat /\ (\A k \in 1 .. p : b[k] = a[k])
        /\ \A k \in 1 .. Len(e) : b[p + k] = e[k]
    BY <1>2, <1>8, ConcatIs
  <1>10. p < Len(j) /\ \A k \in 1 .. p : j[k] = a[k]
    BY <1>3, <1>7, <1>9
  <1>11. Stands(s, i - 1)
    BY <1>8, <1>10 DEF Stands, j, a
  <1>12. p + Len(e) < Len(j) /\ \A k \in 1 .. Len(e) : j[p + k] = e[k]
    <2>1. p + Len(e) < Len(j)
      BY <1>3, <1>9
    <2>2. \A k \in 1 .. Len(e) : p + k \in 1 .. Len(b)
      BY <1>9
    <2> QED BY <1>3, <1>9, <2>1, <2>2
  <1>13. rest[p + 1 + Len(e)] = Read(t)
    <2>1. p + 1 + Len(e) = Len(b) + 1
      BY <1>9
    <2> QED BY <1>3, <2>1
  <1>14. ParseAt(j, rest, p + 1) = Read(<<s[i]>> \o t)
    <2>1. EscapeAt(j, s[i], p, rest, t)
      BY <1>12, <1>13 DEF EscapeAt, e
    <2> QED BY <1>1, <1>2, <1>4, <2>1, EscapeIsRead
  <1>15. p + 1 \in 1 .. Len(j) + 12
    BY <1>7, <1>10
  <1>16. <<s[i]>> \o t = From(s, i)
    BY FromStep DEF t
  <1>17. rest[p + 1] = Read(From(s, i))
    BY <1>5, <1>14, <1>15, <1>16
  <1>18. ReadFrom(s, i)
    BY <1>8, <1>17 DEF ReadFrom, a, rest, j
  <1> QED BY <1>11, <1>18

(* A text is written as a JSON string of one line, and read as it was.     *)
THEOREM JsonIsRead ==
  ASSUME NEW s \in Seq(Byte)
  PROVE  /\ \A i \in 1 .. Len(JsonString(s)) : JsonString(s)[i] >= 32
         /\ ParseString(JsonString(s)) = [ok |-> TRUE, text |-> s]
  <1> DEFINE j == JsonString(s)
             T == {i \in 1 .. Len(s) + 1 : Stands(s, i - 1) /\ ReadFrom(s, i)}
             n == Len(s) + 1
  <1>0. Len(s) \in Nat /\ n \in Nat /\ n - 1 = Len(s) /\ n \in 1 .. n
    BY LenProperties
  <1>1. /\ j \in Seq(Printed) /\ j \in Seq(Byte) /\ j # <<>> /\ j[1] = Quote
        /\ Len(j) = Len(Written(s)[Len(s)]) + 1 /\ j[Len(j)] = Quote
        /\ \A i \in 1 .. Len(Written(s)[Len(s)]) : j[i] = Written(s)[Len(s)][i]
    BY JsonIs
  <1>2. \A i \in 1 .. Len(j) : j[i] >= 32
    <2> HIDE DEF j
    <2>1. \A i \in 1 .. Len(j) : j[i] \in Printed
      BY <1>1, ElementOfSeq
    <2> QED BY <2>1, PrintedIs
  <1>3. Stands(s, n - 1) /\ ReadFrom(s, n)
    <2>1. Written(s)[Len(s)] \in Seq(Printed)
      <3>1. Len(s) \in 0 .. Len(s)
        BY <1>0
      <3> QED BY <3>1, WrittenIs
    <2>2. Len(Written(s)[Len(s)]) \in Nat
      BY <2>1, LenProperties
    <2>3. Stands(s, Len(s))
      BY <1>1, <2>2 DEF Stands
    <2>4. Len(j) \in Nat /\ Len(j) \in 1 .. Len(j) + 12 /\ ~(Len(j) > Len(j))
      BY <1>1, <2>2
    <2> HIDE DEF j
    <2>5. ParseRest(j)[Len(j)] = ParseAt(j, ParseRest(j), Len(j))
      BY <1>1, <2>4, ParseRestIs
    <2>6. ParseAt(j, ParseRest(j), Len(j)) = Read(<<>>)
      BY <1>1, <2>4 DEF ParseAt, Read
    <2>7. From(s, n) = <<>>
      BY FromFirst
    <2>8. ReadFrom(s, n)
      BY <1>0, <1>1, <2>5, <2>6, <2>7 DEF ReadFrom, j
    <2> QED BY <1>0, <2>3, <2>8
  <1>4. ASSUME NEW i \in 1 .. n, \A k \in i + 1 .. n : k \in T
        PROVE  i \in T
    <2>1. CASE i = n
      BY <1>0, <1>3, <2>1
    <2>2. CASE i # n
      <3>1. i \in 1 .. Len(s) /\ i + 1 \in i + 1 .. n /\ (i + 1) - 1 = i
        BY <1>0, <2>2
      <3>2. Stands(s, (i + 1) - 1) /\ ReadFrom(s, i + 1)
        BY <1>4, <3>1
      <3>3. Stands(s, i - 1) /\ ReadFrom(s, i)
        BY <3>1, <3>2, JsonStep
      <3> QED BY <3>3
    <2> QED BY <2>1, <2>2
  <1>5. T = 1 .. n
    <2>1. T \in SUBSET (1 .. n)
      OBVIOUS
    <2> HIDE DEF T, n
    <2> QED BY <1>0, <1>4, <2>1, Downward
  <1>6. 1 \in T
    <2>1. 1 \in 1 .. n
      BY <1>0
    <2> HIDE DEF T
    <2> QED BY <1>5, <2>1
  <1>7. ReadFrom(s, 1)
    BY <1>6
  <1>8. ParseRest(j)[2] = Read(s)
    <2>1. Written(s)[1 - 1] = <<Quote>>
      <3> HIDE DEF T, n, j
      <3>1. Written(s)[0] = <<Quote>>
        BY WrittenIs
      <3> QED BY <3>1
    <2>2. Len(Written(s)[1 - 1]) + 1 = 2
      BY <2>1
    <2>3. From(s, 1) = s
      BY FromFirst
    <2> QED BY <1>7, <2>2, <2>3 DEF ReadFrom
  <1>9. ParseString(j) = Read(s)
    <2> HIDE DEF j
    <2> QED BY <1>1, <1>8, ParseIsRest
  <1> QED BY <1>2, <1>9 DEF Read

=============================================================================
