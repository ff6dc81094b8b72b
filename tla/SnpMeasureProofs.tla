-------------------------- MODULE SnpMeasureProofs --------------------------
(***************************************************************************)
(* Theorems about what is calculated for an SNP launch: reading an image,   *)
(* the digest of a machine, and save areas; for any machines and images,    *)
(* any footer tables, sections, CPUs and sizes of pages.                    *)
(***************************************************************************)
EXTENDS SnpLauncher, FiniteSetTheorems, SequenceTheorems, WellFoundedInduction, TLAPS

(* A set of numbers that is not empty has a least one. *)
LEMMA LeastOf ==
  ASSUME NEW T, T \subseteq Nat, T # {}
  PROVE  \E x \in T : \A y \in T : x <= y
<1> DEFINE R == OpToRel(<, Nat)
<1>1. PICK x \in T : \A y \in T : ~ (<<y, x>> \in R)
  <2>1. IsWellFoundedOn(R, Nat)
    BY NatLessThanWellFounded
  <2> HIDE DEF R
  <2> QED
    BY <2>1, WFMin
<1>2. \A y \in T : ~ (y < x)
  BY <1>1 DEF OpToRel
<1> QED
  BY <1>2

(* Induction up to N, with a set for the property. *)
LEMMA InductionTo ==
  ASSUME NEW N \in Nat, NEW S, 0 \in S,
         \A n \in S : n \in Nat /\ n < N => n + 1 \in S
  PROVE  0 .. N \subseteq S
<1> DEFINE T == (0 .. N) \ S
<1>1. SUFFICES ASSUME T # {} PROVE FALSE
  OBVIOUS
<1>2. PICK x \in T : \A y \in T : x <= y
  <2>1. T \subseteq Nat
    OBVIOUS
  <2> HIDE DEF T
  <2> QED
    BY <1>1, <2>1, LeastOf
<1>3. x \in 1 .. N /\ x \notin S
  OBVIOUS
<1>4. PICK y \in 0 .. N : y + 1 = x /\ y < x
  BY <1>3
<1>5. y \in S
  BY <1>2, <1>4
<1> QED
  BY <1>3, <1>4, <1>5

-----------------------------------------------------------------------------
(* Regions put end to end. *)

(* The recursive function of FlattenSeq, for the first N of R. *)
IsFlat(R, N, f) == f = [i \in 1 .. N |-> IF i = 1 THEN R[i] ELSE f[i - 1] \o R[i]]

(* There is one. *)
LEMMA FlatExists ==
  ASSUME NEW R, NEW N \in Nat
  PROVE  \E f : IsFlat(R, N, f)
<1> DEFINE S == {k \in Nat : \E f : IsFlat(R, k, f)}
<1>1. 0 \in S
  <2>1. IsFlat(R, 0, [i \in 1 .. 0 |-> R[i]])
    BY DEF IsFlat
  <2> QED
    BY <2>1
<1>2. ASSUME NEW k \in S PROVE k + 1 \in S
  <2>1. PICK g : IsFlat(R, k, g)
    OBVIOUS
  <2> DEFINE h == [i \in 1 .. k + 1 |-> IF i <= k THEN g[i]
                                        ELSE IF i = 1 THEN R[i] ELSE g[i - 1] \o R[i]]
  <2>2. \A i \in 1 .. k : g[i] = IF i = 1 THEN R[i] ELSE g[i - 1] \o R[i]
    BY <2>1 DEF IsFlat
  <2>3. ASSUME NEW i \in 1 .. k + 1
        PROVE  h[i] = IF i = 1 THEN R[i] ELSE h[i - 1] \o R[i]
    BY <2>2, <2>3
  <2>4. h = [i \in 1 .. k + 1 |-> h[i]]
    OBVIOUS
  <2> HIDE DEF h
  <2>5. IsFlat(R, k + 1, h)
    BY <2>3, <2>4 DEF IsFlat
  <2> QED
    BY <2>5
<1> HIDE DEF S
<1>3. 0 .. N \subseteq S
  BY <1>1, <1>2, InductionTo
<1> QED
  BY <1>3 DEF S

(* What FlattenSeq is. *)
LEMMA FlattenIs ==
  ASSUME NEW R, Len(R) \in Nat, Len(R) # 0
  PROVE  \E f : IsFlat(R, Len(R), f) /\ FlattenSeq(R) = f[Len(R)]
<1> DEFINE flatten == CHOOSE f : f = [i \in 1 .. Len(R) |->
                                        IF i = 1 THEN R[i] ELSE f[i - 1] \o R[i]]
<1>1. FlattenSeq(R) = flatten[Len(R)]
  BY DEF FlattenSeq
<1>2. IsFlat(R, Len(R), flatten)
  BY FlatExists DEF IsFlat
<1> QED
  BY <1>1, <1>2

(* The first r of R, end to end, as sequences over S. *)
IsUpto(S, R, f) ==
  /\ f \in [0 .. Len(R) -> Seq(S)]
  /\ f[0] = <<>>
  /\ \A r \in 1 .. Len(R) : f[r] = f[r - 1] \o R[r]
  /\ f[Len(R)] = FlattenSeq(R)

(* There are such, and FlattenSeq is all of them. *)
LEMMA UptoExists ==
  ASSUME NEW S, NEW R \in Seq(Seq(S))
  PROVE  \E f : IsUpto(S, R, f)
<1> DEFINE N == Len(R)
<1>1. N \in Nat /\ \A r \in 1 .. N : R[r] \in Seq(S)
  OBVIOUS
<1>2. CASE N = 0
  <2>1. R = <<>>
    BY <1>2
  <2>2. FlattenSeq(R) = <<>>
    BY <1>2, <2>1 DEF FlattenSeq
  <2>3. IsUpto(S, R, [r \in 0 .. 0 |-> <<>>])
    BY <1>2, <2>2 DEF IsUpto
  <2> QED
    BY <2>3
<1>3. CASE N # 0
  <2>1. PICK g : IsFlat(R, N, g) /\ FlattenSeq(R) = g[N]
    BY <1>1, <1>3, FlattenIs
  <2>2. \A i \in 1 .. N : g[i] = IF i = 1 THEN R[i] ELSE g[i - 1] \o R[i]
    BY <2>1 DEF IsFlat
  <2>a. ASSUME NEW i \in 1 .. N, NEW j \in 1 .. N, i = j + 1
        PROVE  g[i] = g[j] \o R[i]
    <3>1. i # 1 /\ i - 1 = j
      BY <1>1, <2>a
    <3> QED
      BY <2>2, <3>1
  <2> DEFINE K == {k \in Nat : k \in 1 .. N => g[k] \in Seq(S)}
  <2>3. 0 \in K
    BY <1>1
  <2>4. ASSUME NEW k \in K, k < N PROVE k + 1 \in K
    <3>1. CASE k = 0
      BY <1>1, <2>2, <3>1
    <3>2. CASE k # 0
      <4>1. k \in 1 .. N /\ k + 1 \in 1 .. N
        BY <1>1, <2>4, <3>2
      <4>2. g[k] \in Seq(S) /\ R[k + 1] \in Seq(S)
        BY <1>1, <4>1
      <4>3. g[k + 1] = g[k] \o R[k + 1]
        BY <2>a, <4>1
      <4>4. g[k + 1] \in Seq(S)
        BY <4>2, <4>3, ConcatProperties
      <4> QED
        BY <4>4
    <3> QED
      BY <3>1, <3>2
  <2> HIDE DEF K
  <2>5. 0 .. N \subseteq K
    BY <1>1, <2>3, <2>4, InductionTo
  <2>6. ASSUME NEW r \in 1 .. N PROVE g[r] \in Seq(S)
    <3>1. r \in K
      BY <1>1, <2>5
    <3> QED
      BY <3>1 DEF K
  <2> DEFINE f == [r \in 0 .. N |-> IF r = 0 THEN <<>> ELSE g[r]]
  <2>7. f \in [0 .. N -> Seq(S)] /\ f[0] = <<>> /\ f[N] = FlattenSeq(R)
    BY <1>1, <1>3, <2>1, <2>6
  <2>8. ASSUME NEW r \in 1 .. N PROVE f[r] = f[r - 1] \o R[r]
    <3>1. f[r] = g[r]
      BY <1>1
    <3>2. CASE r = 1
      <4>1. f[0] = <<>> /\ g[1] = R[1] /\ R[1] \in Seq(S)
        BY <1>1, <2>2, <3>2
      <4>2. <<>> \o R[1] = R[1]
        BY <4>1, ConcatEmptySeq
      <4>3. r - 1 = 0
        BY <3>2
      <4> HIDE DEF f
      <4> QED
        BY <3>1, <3>2, <4>1, <4>2, <4>3
    <3>3. CASE r # 1
      <4>1. r - 1 \in 1 .. N /\ r = (r - 1) + 1
        BY <1>1, <3>3
      <4>2. f[r - 1] = g[r - 1]
        BY <1>1, <4>1
      <4>3. g[r] = g[r - 1] \o R[r]
        BY <2>a, <4>1
      <4> QED
        BY <3>1, <4>2, <4>3
    <3> QED
      BY <3>2, <3>3
  <2> HIDE DEF f
  <2>9. IsUpto(S, R, f)
    BY <2>7, <2>8 DEF IsUpto
  <2> QED
    BY <2>9
<1> QED
  BY <1>2, <1>3


(* A recursive function f starts as w does and takes its steps, *)
Follows(N, f, w) ==
  /\ f[0] = w[0]
  /\ \A n \in 1 .. N : f[n - 1] = w[n - 1] => f[n] = w[n]

(* and so is w. *)
LEMMA FollowsIs ==
  ASSUME NEW N \in Nat, NEW f, NEW w, Follows(N, f, w)
  PROVE  \A n \in 0 .. N : f[n] = w[n]
<1> DEFINE S == {n \in Nat : n <= N => f[n] = w[n]}
<1>1. 0 \in S
  BY DEF Follows
<1>2. ASSUME NEW n \in S, n \in Nat, n < N PROVE n + 1 \in S
  <2>1. n + 1 \in 1 .. N /\ (n + 1) - 1 = n
    BY <1>2
  <2> QED
    BY <1>2, <2>1 DEF Follows
<1> HIDE DEF S
<1>3. 0 .. N \subseteq S
  BY <1>1, <1>2, InductionTo
<1> QED
  BY <1>3 DEF S

(* Nothing put end to end is nothing. *)
LEMMA FlattenNil == FlattenSeq(<<>>) = <<>>
BY DEF FlattenSeq

(* Sequences over S, put end to end, are one over S. *)
LEMMA FlattenInSeq ==
  ASSUME NEW S, NEW R \in Seq(Seq(S))
  PROVE  FlattenSeq(R) \in Seq(S)
<1>1. PICK f : IsUpto(S, R, f)
  BY UptoExists
<1>2. Len(R) \in 0 .. Len(R)
  OBVIOUS
<1> QED
  BY <1>1, <1>2 DEF IsUpto

(* One more at the end. *)
LEMMA FlattenAppend ==
  ASSUME NEW S, NEW R \in Seq(Seq(S)), NEW x \in Seq(S)
  PROVE  FlattenSeq(Append(R, x)) = FlattenSeq(R) \o x
<1> DEFINE T == Append(R, x)
           N == Len(R)
<1>1. /\ T \in Seq(Seq(S)) /\ Len(T) = N + 1 /\ N \in Nat /\ T[N + 1] = x
      /\ \A r \in 1 .. N : T[r] = R[r]
  BY AppendProperties
<1> HIDE DEF T
<1>2. PICK f : IsUpto(S, R, f)
  BY UptoExists
<1>3. PICK g : IsUpto(S, T, g)
  BY <1>1, UptoExists
<1>4. g[0] = f[0]
  BY <1>2, <1>3 DEF IsUpto
<1>5. ASSUME NEW r \in 1 .. N, g[r - 1] = f[r - 1] PROVE g[r] = f[r]
  <2>1. r \in 1 .. Len(T)
    BY <1>1
  <2>2. g[r] = g[r - 1] \o T[r] /\ f[r] = f[r - 1] \o R[r]
    BY <1>2, <1>3, <2>1 DEF IsUpto
  <2> QED
    BY <1>1, <1>5, <2>2
<1>6. g[N] = f[N]
  <2>1. Follows(N, g, f)
    BY <1>4, <1>5 DEF Follows
  <2>2. \A r \in 0 .. N : g[r] = f[r]
    BY <1>1, <2>1, FollowsIs
  <2> QED
    BY <1>1, <2>2
<1>7. N + 1 \in 1 .. Len(T) /\ (N + 1) - 1 = N
  BY <1>1
<1>8. g[N + 1] = g[N] \o T[N + 1]
  BY <1>3, <1>7 DEF IsUpto
<1>9. g[N + 1] = FlattenSeq(T) /\ f[N] = FlattenSeq(R)
  BY <1>1, <1>2, <1>3 DEF IsUpto
<1> QED
  BY <1>1, <1>6, <1>8, <1>9 DEF T

(* Concatenation is associative. *)
LEMMA ConcatAssoc ==
  ASSUME NEW S, NEW a \in Seq(S), NEW b \in Seq(S), NEW c \in Seq(S)
  PROVE  (a \o b) \o c = a \o (b \o c)
BY ConcatAssociative

(* Concatenation, for steps that do not look at what \o is. *)
Cat(a, b) == a \o b

(* Cat is associative. *)
LEMMA CatAssoc == \A S : \A a, b, c \in Seq(S) : Cat(Cat(a, b), c) = Cat(a, Cat(b, c))
BY ConcatAssoc, Zenon DEF Cat

(* One more at the beginning. *)
LEMMA FlattenCons ==
  ASSUME NEW S, NEW R \in Seq(Seq(S)), NEW x \in Seq(S)
  PROVE  FlattenSeq(<<x>> \o R) = x \o FlattenSeq(R)
<1> DEFINE T == <<x>> \o R
           N == Len(R)
<1>1. /\ T \in Seq(Seq(S)) /\ Len(T) = N + 1 /\ N \in Nat /\ T[1] = x
      /\ \A r \in 1 .. N : T[r + 1] = R[r]
  OBVIOUS
<1> HIDE DEF T
<1>2. PICK f : IsUpto(S, R, f)
  BY UptoExists
<1>3. PICK g : IsUpto(S, T, g)
  BY <1>1, UptoExists
<1> DEFINE a == [r \in 0 .. N |-> g[r + 1]]
           b == [r \in 0 .. N |-> x \o f[r]]
<1>4. a[0] = b[0]
  <2>1. a[0] = g[1] /\ b[0] = x \o f[0]
    BY <1>1
  <2>2. 1 \in 1 .. Len(T) /\ 1 - 1 = 0
    BY <1>1
  <2>3. g[1] = g[0] \o T[1] /\ g[0] = <<>> /\ f[0] = <<>>
    BY <1>2, <1>3, <2>2 DEF IsUpto
  <2>4. <<>> \o x = x /\ x \o <<>> = x
    BY ConcatEmptySeq
  <2> HIDE DEF a, b
  <2> QED
    BY <1>1, <2>1, <2>3, <2>4
<1>5. ASSUME NEW r \in 1 .. N, a[r - 1] = b[r - 1] PROVE a[r] = b[r]
  <2>1. r + 1 \in 1 .. Len(T) /\ (r + 1) - 1 = r /\ r \in 1 .. Len(R) /\ r - 1 \in 0 .. Len(R)
    BY <1>1
  <2>2. g[r + 1] = g[r] \o T[r + 1] /\ f[r] = f[r - 1] \o R[r] /\ f[r - 1] \in Seq(S)
    BY <1>2, <1>3, <2>1 DEF IsUpto
  <2>3. a[r] = g[r + 1] /\ b[r] = x \o f[r] /\ b[r - 1] = x \o f[r - 1]
    <3>1. r \in 0 .. N /\ r - 1 \in 0 .. N
      BY <1>1
    <3> QED
      BY <3>1, Zenon
  <2>4. a[r - 1] = g[r]
    BY <1>1
  <2>5. (x \o f[r - 1]) \o R[r] = x \o (f[r - 1] \o R[r])
    <3>1. R[r] \in Seq(S) /\ f[r - 1] \in Seq(S)
      BY <2>1, <2>2
    <3>2. Cat(Cat(x, f[r - 1]), R[r]) = Cat(x, Cat(f[r - 1], R[r]))
      BY <3>1, CatAssoc
    <3> QED
      BY <3>2, Zenon DEF Cat
  <2> HIDE DEF a, b
  <2> QED
    BY <1>1, <1>5, <2>2, <2>3, <2>4, <2>5
<1>6. a[N] = b[N]
  <2> HIDE DEF a, b
  <2>1. Follows(N, a, b)
    BY <1>4, <1>5 DEF Follows
  <2>2. \A r \in 0 .. N : a[r] = b[r]
    BY <1>1, <2>1, FollowsIs
  <2> QED
    BY <1>1, <2>2
<1>7. a[N] = g[N + 1] /\ b[N] = x \o f[N]
  BY <1>1
<1>8. g[N + 1] = FlattenSeq(T) /\ f[N] = FlattenSeq(R)
  BY <1>1, <1>2, <1>3 DEF IsUpto
<1> HIDE DEF a, b
<1> QED
  BY <1>6, <1>7, <1>8 DEF T

(* A sequence is two put together. *)
Parts(S, z, x, y) ==
  /\ z \in Seq(S) /\ Len(z) = Len(x) + Len(y) /\ Len(x) \in Nat /\ Len(y) \in Nat
  /\ \A j \in 1 .. Len(x) : z[j] = x[j]
  /\ \A j \in 1 .. Len(y) : z[Len(x) + j] = y[j]

(* The elements of a concatenation are those of its parts. *)
LEMMA PartsOf ==
  ASSUME NEW S, NEW x \in Seq(S), NEW y \in Seq(S), NEW z, z = x \o y
  PROVE  Parts(S, z, x, y)
BY DEF Parts

(* A piece of a sequence. *)
PieceAt(s, from, d) == \A j \in 1 .. Len(d) : s[from + j] = d[j]

(* A piece with the elements of s from a on is that part of s. *)
LEMMA PieceIs ==
  ASSUME NEW S, NEW s \in Seq(S), NEW d \in Seq(S), NEW a \in Nat, NEW l \in Nat,
         l = Len(d), a + l <= Len(s), PieceAt(s, a, d)
  PROVE  d = SubSeq(s, a + 1, a + l)
<1> DEFINE x == SubSeq(s, a + 1, a + l)
<1>1. x \in Seq(S) /\ Len(x) = l
  OBVIOUS
<1>2. ASSUME NEW j \in 1 .. l PROVE x[j] = s[a + j]
  <2>1. x[j] = s[(a + 1) + j - 1] /\ (a + 1) + j - 1 = a + j
    OBVIOUS
  <2> QED
    BY <2>1
<1>3. \A j \in 1 .. l : d[j] = s[a + j]
  BY DEF PieceAt
<1> HIDE DEF x
<1>4. \A j \in 1 .. l : x[j] = d[j]
  BY <1>2, <1>3
<1>5. x = d
  BY <1>1, <1>4, SeqEqual
<1> QED
  BY <1>5 DEF x

(* Where the part R[r] is in the whole. *)
HasPart(R, f, r) ==
  /\ Len(f[r]) = Len(f[r - 1]) + Len(R[r]) /\ Len(f[r - 1]) \in Nat
  /\ Len(f[r]) <= Len(FlattenSeq(R))
  /\ \A j \in 1 .. Len(R[r]) : FlattenSeq(R)[Len(f[r - 1]) + j] = R[r][j]

(* The r-th part lies in the whole after those before it. *)
LEMMA UptoParts ==
  ASSUME NEW S, NEW R \in Seq(Seq(S)), NEW f, IsUpto(S, R, f), NEW r \in 1 .. Len(R)
  PROVE  HasPart(R, f, r)
<1> DEFINE N == Len(R)
           whole == FlattenSeq(R)
           Fits(k) == /\ Len(f[k]) <= Len(whole)
                      /\ \A i \in 1 .. Len(f[k]) : whole[i] = f[k][i]
           K == {k \in Nat : k <= N => Fits(N - k)}
<1>1. N \in Nat /\ \A k \in 1 .. N : R[k] \in Seq(S)
  OBVIOUS
<1>2. ASSUME NEW k \in 1 .. N
      PROVE  /\ f[k] \in Seq(S) /\ f[k - 1] \in Seq(S)
             /\ Len(f[k]) = Len(f[k - 1]) + Len(R[k])
             /\ \A j \in 1 .. Len(f[k - 1]) : f[k][j] = f[k - 1][j]
             /\ \A j \in 1 .. Len(R[k]) : f[k][Len(f[k - 1]) + j] = R[k][j]
  <2>1. k \in 0 .. N /\ k - 1 \in 0 .. N /\ k \in 1 .. Len(R)
    BY <1>1
  <2>2. f[k] \in Seq(S) /\ f[k - 1] \in Seq(S) /\ f[k] = f[k - 1] \o R[k]
    BY <2>1 DEF IsUpto
  <2> DEFINE x == f[k - 1]
             y == R[k]
             z == f[k]
  <2>3. x \in Seq(S) /\ y \in Seq(S) /\ z = x \o y
    BY <1>1, <2>2
  <2> HIDE DEF x, y, z
  <2>4. /\ Len(z) = Len(x) + Len(y)
        /\ \A j \in 1 .. Len(x) : z[j] = x[j]
        /\ \A j \in 1 .. Len(y) : z[Len(x) + j] = y[j]
    BY <2>3
  <2> QED
    BY <2>2, <2>4 DEF x, y, z
<1>3. 0 \in K
  <2>1. f[N] = whole /\ whole \in Seq(S)
    BY FlattenInSeq DEF IsUpto
  <2> HIDE DEF whole
  <2>2. Fits(N)
    BY <2>1
  <2>3. N - 0 = N
    BY <1>1
  <2> HIDE DEF Fits
  <2> QED
    BY <2>2, <2>3
<1>4. ASSUME NEW k \in K, k \in Nat, k < N PROVE k + 1 \in K
  <2>1. N - k \in 1 .. N /\ N - (k + 1) = (N - k) - 1
    BY <1>1, <1>4
  <2> DEFINE n == N - k
  <2>2. Fits(n)
    BY <1>4
  <2> HIDE DEF n, whole, N
  <2>3. /\ f[n] \in Seq(S) /\ f[n - 1] \in Seq(S) /\ R[n] \in Seq(S)
        /\ Len(f[n]) = Len(f[n - 1]) + Len(R[n])
        /\ \A j \in 1 .. Len(f[n - 1]) : f[n][j] = f[n - 1][j]
    BY <1>1, <1>2, <2>1 DEF n
  <2>4. Len(f[n - 1]) \in Nat /\ Len(f[n]) \in Nat /\ Len(R[n]) \in Nat /\ Len(whole) \in Nat
    BY <2>3, FlattenInSeq, LenProperties DEF whole
  <2>5. Fits(n - 1)
    <3> DEFINE x == f[n - 1]
               z == f[n]
               y == R[n]
    <3>1. /\ Len(x) \in Nat /\ Len(z) \in Nat /\ Len(y) \in Nat
          /\ Len(z) = Len(x) + Len(y) /\ Len(z) <= Len(whole)
          /\ \A j \in 1 .. Len(x) : z[j] = x[j]
          /\ \A i \in 1 .. Len(z) : whole[i] = z[i]
      BY <2>2, <2>3, <2>4, Zenon
    <3> HIDE DEF x, y, z
    <3>2. Len(x) <= Len(whole) /\ \A i \in 1 .. Len(x) : whole[i] = x[i]
      BY <2>4, <3>1
    <3> QED
      BY <3>2 DEF x
  <2> HIDE DEF Fits
  <2>6. Fits(N - (k + 1))
    BY <2>1, <2>5 DEF n
  <2> QED
    BY <2>6
<1> HIDE DEF K
<1>5. 0 .. N \subseteq K
  BY <1>1, <1>3, <1>4, InductionTo
<1>6. Fits(r)
  <2>1. N - r \in 0 .. N /\ N - (N - r) = r
    BY <1>1
  <2> HIDE DEF Fits
  <2>2. N - r \in K
    BY <1>5, <2>1
  <2> QED
    BY <1>1, <2>1, <2>2 DEF K
<1>7. Len(f[r]) \in Nat /\ Len(f[r - 1]) \in Nat /\ Len(R[r]) \in Nat /\ r \in 1 .. N
  BY <1>1, <1>2, LenProperties
<1> HIDE DEF whole, N
<1>8. ASSUME NEW j \in 1 .. Len(R[r]) PROVE whole[Len(f[r - 1]) + j] = R[r][j]
  <2>1. Len(f[r - 1]) + j \in 1 .. Len(f[r])
    <3> DEFINE a == Len(f[r - 1])
               b == Len(f[r])
               c == Len(R[r])
    <3>1. a \in Nat /\ b \in Nat /\ c \in Nat /\ b = a + c /\ j \in 1 .. c
      BY <1>2, <1>7
    <3> HIDE DEF a, b, c
    <3>2. a + j \in 1 .. b
      BY <3>1
    <3> QED
      BY <3>2 DEF a, b
  <2>2. f[r][Len(f[r - 1]) + j] = R[r][j]
    BY <1>2, <1>7
  <2> QED
    BY <1>6, <2>1, <2>2
<1> QED
  BY <1>2, <1>6, <1>7, <1>8 DEF whole, HasPart

-----------------------------------------------------------------------------
(* The footer table. *)

(* The table of nothing. *)
Nothing == [ok |-> TRUE, table |-> <<>>]

(* The loop at an offset, with what comes of the offsets before it. *)
WalkStep(bytes, walk, offset) ==
  CASE offset < ENTRY_HEADER_SIZE -> [ok |-> TRUE, table |-> <<>>]
    [] offset >= ENTRY_HEADER_SIZE
         /\ Entry(bytes, offset - ENTRY_HEADER_SIZE).size < ENTRY_HEADER_SIZE -> Failed
    [] offset >= ENTRY_HEADER_SIZE
         /\ Entry(bytes, offset - ENTRY_HEADER_SIZE).size > offset -> [ok |-> TRUE, table |-> <<>>]
    [] OTHER -> Inserted(walk[offset - Entry(bytes, offset - ENTRY_HEADER_SIZE).size],
                         Entry(bytes, offset - ENTRY_HEADER_SIZE).guid,
                         Slice(bytes, offset - Entry(bytes, offset - ENTRY_HEADER_SIZE).size,
                               offset - ENTRY_HEADER_SIZE))

(* What a step of the walk does: it ends, fails, or inserts an entry and    *)
(* goes on before it.                                                       *)
LEMMA WalkCases ==
  ASSUME NEW bytes \in Seq(Nat), NEW walk, NEW offset \in 0 .. Len(bytes)
  PROVE  LET size == bytes[offset - 1]
         IN  /\ offset < 2 => WalkStep(bytes, walk, offset) = Nothing
             /\ offset >= 2 => size \in Nat /\ bytes[offset] \in Nat
             /\ offset >= 2 /\ size < 2 => WalkStep(bytes, walk, offset) = Failed
             /\ offset >= 2 /\ size > offset => WalkStep(bytes, walk, offset) = Nothing
             /\ offset >= 2 /\ size >= 2 /\ size <= offset =>
                  WalkStep(bytes, walk, offset)
                    = Inserted(walk[offset - size], bytes[offset],
                               SubSeq(bytes, (offset - size) + 1, offset - 2))
<1> DEFINE size == bytes[offset - 1]
           e == Entry(bytes, offset - ENTRY_HEADER_SIZE)
<1>1. CASE offset < 2
  <2>1. offset < ENTRY_HEADER_SIZE /\ ~ (offset >= ENTRY_HEADER_SIZE) /\ ~ (offset >= 2)
    BY <1>1 DEF ENTRY_HEADER_SIZE
  <2> QED
    BY <2>1, Zenon DEF WalkStep, Nothing
<1>2. CASE offset >= 2
  <2>1. offset - 1 \in 1 .. Len(bytes) /\ offset \in 1 .. Len(bytes)
    BY <1>2
  <2>2. size \in Nat /\ bytes[offset] \in Nat
    BY <2>1
  <2>3. e = [size |-> size, guid |-> bytes[offset]]
    <3>1. offset - 2 + 1 = offset - 1 /\ offset - 2 + 2 = offset
      OBVIOUS
    <3> QED
      BY <3>1 DEF Entry, ENTRY_HEADER_SIZE
  <2>4. e.size = size /\ e.guid = bytes[offset]
    BY <2>3
  <2>5. /\ ~ (offset < 2) /\ ENTRY_HEADER_SIZE = 2
        /\ Slice(bytes, offset - size, offset - 2) = SubSeq(bytes, (offset - size) + 1, offset - 2)
    BY <1>2 DEF ENTRY_HEADER_SIZE, Slice
  <2> HIDE DEF size, e
  <2>6. CASE size < 2
    <3>1. ~ (size > offset) /\ ~ (size >= 2)
      BY <1>2, <2>2, <2>6
    <3>2. WalkStep(bytes, walk, offset) = Failed
      BY <1>2, <2>4, <2>5, <2>6, <3>1, Zenon DEF WalkStep, e
    <3> QED
      BY <1>2, <2>2, <2>5, <3>1, <3>2, Zenon DEF size
  <2>7. CASE size > offset
    <3>1. ~ (size < 2) /\ ~ (size <= offset)
      BY <1>2, <2>2, <2>7
    <3>2. WalkStep(bytes, walk, offset) = Nothing
      BY <1>2, <2>4, <2>5, <2>7, <3>1, Zenon DEF WalkStep, e, Nothing
    <3> QED
      BY <1>2, <2>2, <2>5, <3>1, <3>2, Zenon DEF size
  <2>8. CASE size >= 2 /\ size <= offset
    <3>1. ~ (size < 2) /\ ~ (size > offset)
      BY <1>2, <2>2, <2>8
    <3>2. WalkStep(bytes, walk, offset) =
            Inserted(walk[offset - size], bytes[offset],
                     SubSeq(bytes, (offset - size) + 1, offset - 2))
      BY <1>2, <2>4, <2>5, <2>8, <3>1, Zenon DEF WalkStep, e
    <3> QED
      BY <1>2, <2>2, <2>5, <3>1, <3>2, Zenon DEF size
  <2> QED
    BY <2>2, <2>6, <2>7, <2>8
<1> QED
  BY <1>1, <1>2

IsWalk(bytes, N, walk) == walk = [offset \in 0 .. N |-> WalkStep(bytes, walk, offset)]

(* The walk over the footer table is a function of the offset. *)
LEMMA WalkExists ==
  ASSUME NEW bytes \in Seq(Nat)
  PROVE  \E walk : IsWalk(bytes, Len(bytes), walk) /\ Walk(bytes) = walk[Len(bytes)]
<1> DEFINE N == Len(bytes)
           S == {k \in Nat : k <= N => \E f : IsWalk(bytes, k, f)}
<1>0. N \in Nat
  OBVIOUS
<1>1. 0 \in S
  <2> DEFINE h == [offset \in 0 .. 0 |-> Nothing]
  <2>1. ASSUME NEW offset \in 0 .. 0 PROVE h[offset] = WalkStep(bytes, h, offset)
    <3>1. offset \in 0 .. Len(bytes) /\ offset < 2
      BY <1>0
    <3> QED
      BY <3>1, WalkCases
  <2>2. h = [offset \in 0 .. 0 |-> h[offset]]
    OBVIOUS
  <2> HIDE DEF h
  <2>3. IsWalk(bytes, 0, h)
    BY <2>1, <2>2 DEF IsWalk
  <2> QED
    BY <2>3
<1>2. ASSUME NEW k \in S, k \in Nat, k < N PROVE k + 1 \in S
  <2>1. PICK g : IsWalk(bytes, k, g)
    BY <1>2
  <2> DEFINE h == [offset \in 0 .. k + 1 |-> IF offset <= k THEN g[offset]
                                             ELSE WalkStep(bytes, g, offset)]
  <2>2. \A offset \in 0 .. k : g[offset] = WalkStep(bytes, g, offset)
    BY <2>1 DEF IsWalk
  <2>3. \A offset \in 0 .. k + 1 : h[offset] = WalkStep(bytes, g, offset)
    BY <2>2
  <2>4. \A offset \in 0 .. k : h[offset] = g[offset]
    BY <1>2
  <2>5. h = [offset \in 0 .. k + 1 |-> h[offset]]
    OBVIOUS
  <2> HIDE DEF h
  <2>6. ASSUME NEW offset \in 0 .. k + 1 PROVE h[offset] = WalkStep(bytes, h, offset)
    <3> DEFINE size == bytes[offset - 1]
    <3>1. offset \in 0 .. Len(bytes)
      BY <1>0, <1>2
    <3>2. CASE offset < 2
      BY <2>3, <3>1, <3>2, WalkCases
    <3>3. CASE offset >= 2
      <4>1. size \in Nat
        BY <3>1, <3>3, WalkCases
      <4>2. CASE size < 2
        BY <2>3, <3>1, <3>3, <4>2, WalkCases
      <4>3. CASE size > offset
        BY <2>3, <3>1, <3>3, <4>3, WalkCases
      <4>4. CASE size >= 2 /\ size <= offset
        <5> HIDE DEF size
        <5>1. offset - size \in 0 .. k
          BY <3>1, <3>3, <4>1, <4>4
        <5>2. h[offset - size] = g[offset - size]
          BY <2>4, <5>1
        <5> DEFINE data == SubSeq(bytes, (offset - size) + 1, offset - 2)
        <5>3. /\ WalkStep(bytes, g, offset) = Inserted(g[offset - size], bytes[offset], data)
              /\ WalkStep(bytes, h, offset) = Inserted(h[offset - size], bytes[offset], data)
          BY <3>1, <3>3, <4>4, WalkCases DEF size
        <5> HIDE DEF data
        <5> QED
          BY <2>3, <5>2, <5>3
      <4> QED
        BY <3>1, <3>3, <4>1, <4>2, <4>3, <4>4
    <3> QED
      BY <3>2, <3>3
  <2>7. IsWalk(bytes, k + 1, h)
    BY <2>5, <2>6 DEF IsWalk
  <2> QED
    BY <2>7
<1> HIDE DEF S
<1>3. 0 .. N \subseteq S
  BY <1>0, <1>1, <1>2, InductionTo
<1>4. N \in S
  BY <1>0, <1>3
<1>5. \E f : f = [offset \in 0 .. N |-> WalkStep(bytes, f, offset)]
  BY <1>4 DEF S, IsWalk
<1> DEFINE walk == CHOOSE f : f = [offset \in 0 .. N |-> WalkStep(bytes, f, offset)]
<1>6. Walk(bytes) = walk[N]
  BY DEF Walk, WalkStep
<1>7. IsWalk(bytes, N, walk)
  BY <1>5 DEF IsWalk
<1> QED
  BY <1>6, <1>7

(* The entries of a footer table. *)
Entries == Seq([guid : Nat, data : Seq(Nat)])

AreFields(x, e) ==
  /\ x \in Seq(Nat) /\ Len(x) = Len(e.data) + 2
  /\ \A j \in 1 .. Len(e.data) : x[j] = e.data[j]
  /\ x[Len(e.data) + 1] = Len(e.data) + 2 /\ x[Len(e.data) + 2] = e.guid

(* An entry's fields are its data, its size and its GUID. *)
LEMMA FieldsOfEntry ==
  ASSUME NEW e \in [guid : Nat, data : Seq(Nat)]
  PROVE  AreFields(EntryFields(e), e)
<1> DEFINE d == e.data
           x == <<Len(d) + 2, e.guid>>
<1>1. d \in Seq(Nat) /\ Len(d) \in Nat /\ e.guid \in Nat
  OBVIOUS
<1>2. x \in Seq(Nat) /\ Len(x) = 2 /\ x[1] = Len(d) + 2 /\ x[2] = e.guid
  BY <1>1
<1>3. EntryFields(e) = d \o x
  BY DEF EntryFields, ENTRY_HEADER_SIZE
<1> HIDE DEF d, x
<1>4. Parts(Nat, EntryFields(e), d, x)
  BY <1>1, <1>2, <1>3, PartsOf
<1>5. 1 \in 1 .. Len(x) /\ 2 \in 1 .. Len(x)
  BY <1>2
<1>6. EntryFields(e)[Len(d) + 1] = x[1] /\ EntryFields(e)[Len(d) + 2] = x[2]
  BY <1>4, <1>5 DEF Parts
<1> QED
  BY <1>2, <1>4, <1>6 DEF d, Parts, AreFields

IsInserted(t, w, guid, data) ==
  /\ t.ok = TRUE /\ DOMAIN t.table = DOMAIN w.table \cup {guid}
  /\ t.table[guid] = data
  /\ \A x \in DOMAIN w.table : t.table[x] = w.table[x]

(* A GUID that is new is inserted beside those before it. *)
LEMMA InsertedIs ==
  ASSUME NEW w, w.ok = TRUE, NEW guid, guid \notin DOMAIN w.table, NEW data
  PROVE  IsInserted(Inserted(w, guid, data), w, guid, data)
BY DEF Inserted, IsInserted

(* The walk has read the first k entries. *)
HasRead(w, entries, k) ==
  /\ w.ok = TRUE
  /\ DOMAIN w.table = {entries[i].guid : i \in 1 .. k}
  /\ \A i \in 1 .. k : w.table[entries[i].guid] = entries[i].data

(* parse_footer_table's loop reads every entry of a table. *)
LEMMA WalkReads ==
  ASSUME NEW entries \in Entries,
         \A i, j \in 1 .. Len(entries) : entries[i].guid = entries[j].guid => i = j
  PROVE  FooterTable(entries) \in Seq(Nat) /\ HasRead(Walk(FooterTable(entries)), entries, Len(entries))
<1> DEFINE N == Len(entries)
           E == [n \in 1 .. Len(entries) |-> EntryFields(entries[n])]
           bytes == FooterTable(entries)
<1>1. N \in Nat /\ \A n \in 1 .. N : entries[n] \in [guid : Nat, data : Seq(Nat)]
  BY LenProperties, ElementOfSeq, Zenon DEF Entries
<1>2. E \in Seq(Seq(Nat)) /\ Len(E) = N /\ \A n \in 1 .. N : E[n] = EntryFields(entries[n])
  BY <1>1, FieldsOfEntry DEF AreFields
<1>3. bytes = FlattenSeq(E)
  BY DEF FooterTable
<1> HIDE DEF E, bytes
<1>4. bytes \in Seq(Nat)
  BY <1>2, <1>3, FlattenInSeq
<1>5. PICK u : IsUpto(Nat, E, u)
  BY <1>2, UptoExists
<1>6. PICK walk : IsWalk(bytes, Len(bytes), walk) /\ Walk(bytes) = walk[Len(bytes)]
  BY <1>4, WalkExists
<1>7. \A offset \in 0 .. Len(bytes) : walk[offset] = WalkStep(bytes, walk, offset)
  BY <1>6 DEF IsWalk
<1> DEFINE S == {k \in Nat : k <= N => HasRead(walk[Len(u[k])], entries, k)}
<1>8. 0 \in S
  <2>1. Len(u[0]) = 0 /\ 0 \in 0 .. Len(bytes)
    BY <1>4, <1>5 DEF IsUpto
  <2>2. walk[0] = Nothing
    BY <1>4, <1>7, <2>1, WalkCases
  <2>3. HasRead(Nothing, entries, 0)
    BY DEF HasRead, Nothing
  <2> QED
    BY <2>1, <2>2, <2>3
<1>9. ASSUME NEW k \in S, k \in Nat, k < N PROVE k + 1 \in S
  <2> DEFINE n == k + 1
             e == entries[n]
             a == Len(u[k])
             o == Len(u[n])
             l == Len(e.data)
  <2>1. n \in 1 .. N /\ n - 1 = k /\ n \in 1 .. Len(E)
    BY <1>1, <1>2, <1>9
  <2>2. e \in [guid : Nat, data : Seq(Nat)] /\ l \in Nat
    BY <1>1, <2>1
  <2> HIDE DEF n, e, l
  <2>3. /\ o = a + Len(E[n]) /\ a \in Nat /\ o <= Len(bytes)
        /\ \A j \in 1 .. Len(E[n]) : bytes[a + j] = E[n][j]
    <3>1. HasPart(E, u, n)
      BY <1>2, <1>5, <2>1, UptoParts
    <3> QED
      BY <1>3, <2>1, <3>1, Zenon DEF HasPart
  <2> HIDE DEF a, o
  <2>4. /\ E[n] = EntryFields(e) /\ Len(E[n]) = l + 2
        /\ \A j \in 1 .. l : E[n][j] = e.data[j]
        /\ E[n][l + 1] = l + 2 /\ E[n][l + 2] = e.guid
    <3>1. E[n] = EntryFields(e)
      BY <1>2, <2>1 DEF e
    <3>2. AreFields(EntryFields(e), e)
      BY <2>2, FieldsOfEntry
    <3> QED
      BY <2>2, <3>1, <3>2, Zenon DEF l, AreFields
  <2>5. /\ o = a + l + 2 /\ o \in 0 .. Len(bytes) /\ o >= 2
        /\ l + 1 \in 1 .. Len(E[n]) /\ l + 2 \in 1 .. Len(E[n]) /\ Len(bytes) \in Nat
    BY <1>4, <2>2, <2>3, <2>4
  <2>6. bytes[a + (l + 1)] = l + 2 /\ bytes[a + (l + 2)] = e.guid
    BY <2>3, <2>4, <2>5
  <2>7. a + (l + 1) = o - 1 /\ a + (l + 2) = o /\ l + 2 >= 2 /\ l + 2 <= o /\ o - (l + 2) = a
    BY <2>2, <2>3, <2>5
  <2>8. bytes[o - 1] = l + 2 /\ bytes[o] = e.guid
    BY <2>6, <2>7
  <2>9. SubSeq(bytes, a + 1, o - 2) = e.data
    <3>1. \A j \in 1 .. l : bytes[a + j] = e.data[j]
      BY <2>2, <2>3, <2>4, SMTT(40)
    <3>2. o - 2 = a + l /\ a + l <= Len(bytes)
      BY <2>2, <2>3, <2>5, SMTT(40)
    <3>3. e.data \in Seq(Nat) /\ Len(e.data) = l
      BY <2>2 DEF l
    <3>4. e.data = SubSeq(bytes, a + 1, a + l)
      <4> DEFINE d == e.data
      <4>1. PieceAt(bytes, a, d) /\ d \in Seq(Nat) /\ l = Len(d)
        BY <3>1, <3>3 DEF PieceAt
      <4> HIDE DEF d
      <4>2. d = SubSeq(bytes, a + 1, a + l)
        <5>1. bytes \in Seq(Nat) /\ a \in Nat /\ l \in Nat /\ a + l <= Len(bytes)
          BY <1>4, <2>2, <2>3, <3>2
        <5> QED
          BY <4>1, <5>1, PieceIs
      <4> QED
        BY <4>2 DEF d
    <3> QED
      BY <3>2, <3>4
  <2>10. WalkStep(bytes, walk, o) = Inserted(walk[a], e.guid, e.data)
    <3> DEFINE size == bytes[o - 1]
    <3>1. size >= 2 /\ size <= o /\ o - size = a
      BY <2>7, <2>8
    <3>2. WalkStep(bytes, walk, o) =
            Inserted(walk[o - size], bytes[o], SubSeq(bytes, (o - size) + 1, o - 2))
      BY <1>4, <2>5, <3>1, WalkCases, Zenon
    <3> HIDE DEF size
    <3> QED
      BY <2>8, <2>9, <3>1, <3>2, Zenon
  <2>11. walk[o] = Inserted(walk[a], e.guid, e.data)
    BY <1>7, <2>5, <2>10
  <2>12. HasRead(walk[a], entries, k)
    BY <1>9 DEF a
  <2> DEFINE w == walk[a]
             t == walk[o]
  <2>13. e.guid \notin DOMAIN w.table
    <3>1. ASSUME NEW i \in 1 .. k PROVE entries[i].guid # e.guid
      <4>1. i \in 1 .. N /\ i # n
        BY <1>1, <1>9, <2>1
      <4> QED
        BY <2>1, <4>1 DEF e
    <3> QED
      BY <2>12, <3>1 DEF HasRead
  <2> HIDE DEF w, t
  <2>14. /\ t.ok = TRUE /\ DOMAIN t.table = DOMAIN w.table \cup {e.guid}
         /\ t.table[e.guid] = e.data
         /\ \A x \in DOMAIN w.table : t.table[x] = w.table[x]
    <3>1. w.ok = TRUE /\ t = Inserted(w, e.guid, e.data)
      BY <2>11, <2>12 DEF w, t, HasRead
    <3>2. IsInserted(Inserted(w, e.guid, e.data), w, e.guid, e.data)
      BY <2>13, <3>1, InsertedIs
    <3> QED
      BY <3>1, <3>2, Zenon DEF IsInserted
  <2>15. /\ DOMAIN w.table = {entries[i].guid : i \in 1 .. k}
         /\ \A i \in 1 .. k : w.table[entries[i].guid] = entries[i].data
    BY <2>12 DEF w, HasRead
  <2>16. \A i \in 1 .. n : i \in 1 .. k \/ i = n
    BY <1>9 DEF n
  <2>17. n \in 1 .. n /\ \A i \in 1 .. k : i \in 1 .. n
    BY <1>9 DEF n
  <2>18. DOMAIN t.table = {entries[i].guid : i \in 1 .. n}
    BY <2>14, <2>15, <2>16, <2>17 DEF e
  <2>19. ASSUME NEW i \in 1 .. n PROVE t.table[entries[i].guid] = entries[i].data
    <3>1. CASE i = n
      BY <2>14, <3>1 DEF e
    <3>2. CASE i \in 1 .. k
      BY <2>14, <2>15, <3>2
    <3> QED
      BY <2>16, <3>1, <3>2
  <2>20. HasRead(walk[Len(u[n])], entries, n)
    BY <2>14, <2>18, <2>19 DEF HasRead, t, o
  <2> QED
    BY <1>9, <2>20 DEF n
<1> HIDE DEF S
<1>10. 0 .. N \subseteq S
  BY <1>1, <1>8, <1>9, InductionTo
<1>11. HasRead(walk[Len(u[N])], entries, N)
  BY <1>1, <1>10 DEF S
<1>12. u[N] = bytes
  BY <1>2, <1>3, <1>5 DEF IsUpto
<1> QED
  BY <1>4, <1>6, <1>11, <1>12 DEF bytes

(* Parts of one width. *)
HasWidth(S, R, w) ==
  /\ FlattenSeq(R) \in Seq(S) /\ Len(FlattenSeq(R)) = Len(R) * w
  /\ \A r \in 1 .. Len(R) : \A j \in 1 .. w : FlattenSeq(R)[(r - 1) * w + j] = R[r][j]

(* A product, one further. *)
LEMMA OneMore ==
  ASSUME NEW r \in Nat, NEW w \in Nat
  PROVE  (r + 1) * w = r * w + w /\ r * w \in Nat /\ 0 * w = 0
OBVIOUS

(* Parts of one width, put end to end, lie at multiples of it. *)
LEMMA FixedWidth ==
  ASSUME NEW S, NEW R \in Seq(Seq(S)), NEW w \in Nat, \A r \in 1 .. Len(R) : Len(R[r]) = w
  PROVE  HasWidth(S, R, w)
<1> DEFINE N == Len(R)
<1>1. PICK f : IsUpto(S, R, f)
  BY UptoExists
<1>2. N \in Nat /\ FlattenSeq(R) \in Seq(S)
  BY FlattenInSeq
<1>3. \A r \in 1 .. N : HasPart(R, f, r)
  BY <1>1, UptoParts
<1> DEFINE K == {k \in Nat : k <= N => Len(f[k]) = k * w}
<1>4. 0 \in K
  <2>1. Len(f[0]) = 0
    BY <1>1 DEF IsUpto
  <2> QED
    BY <2>1, OneMore
<1>5. ASSUME NEW k \in K, k \in Nat, k < N PROVE k + 1 \in K
  <2>1. k + 1 \in 1 .. N /\ (k + 1) - 1 = k
    BY <1>2, <1>5
  <2>2. Len(f[k + 1]) = Len(f[k]) + w
    <3>1. Len(f[k + 1]) = Len(f[(k + 1) - 1]) + Len(R[k + 1])
      BY <1>3, <2>1, Zenon DEF HasPart
    <3> QED
      BY <2>1, <3>1, Zenon
  <2>3. Len(f[k + 1]) = (k + 1) * w
    <3>1. Len(f[k]) = k * w
      BY <1>5
    <3>2. (k + 1) * w = k * w + w
      BY <1>5, OneMore
    <3> QED
      BY <2>2, <3>1, <3>2, Zenon
  <2> QED
    BY <1>5, <2>3
<1> HIDE DEF K
<1>6. 0 .. N \subseteq K
  BY <1>2, <1>4, <1>5, InductionTo
<1>7. ASSUME NEW k \in 0 .. N PROVE Len(f[k]) = k * w
  <2>1. k \in K /\ k <= N
    BY <1>2, <1>6
  <2> QED
    BY <2>1, Zenon DEF K
<1>8. Len(FlattenSeq(R)) = N * w
  <2>1. f[N] = FlattenSeq(R) /\ N \in 0 .. N
    BY <1>1, <1>2 DEF IsUpto
  <2> QED
    BY <1>7, <2>1
<1>9. ASSUME NEW r \in 1 .. N, NEW j \in 1 .. w PROVE FlattenSeq(R)[(r - 1) * w + j] = R[r][j]
  <2>1. HasPart(R, f, r) /\ Len(R[r]) = w
    BY <1>3
  <2>2. r - 1 \in 0 .. N
    BY <1>2
  <2>3. Len(f[r - 1]) = (r - 1) * w
    BY <1>7, <2>2
  <2> QED
    BY <2>1, <2>3, Zenon DEF HasPart
<1> QED
  BY <1>2, <1>8, <1>9 DEF HasWidth

-----------------------------------------------------------------------------
(* What is read of an image. *)

(* d is s[from..to] *)
IsCut(S, s, from, to, d) ==
  /\ s \in Seq(S) /\ from \in Nat /\ to \in Int /\ to <= Len(s) /\ to >= from
  /\ d = SubSeq(s, from + 1, to)

(* A cut has the length between its ends and the elements there. *)
LEMMA PieceAtIs ==
  ASSUME NEW S, NEW s, NEW from, NEW to, NEW d, IsCut(S, s, from, to, d)
  PROVE  d \in Seq(S) /\ Len(d) = to - from /\ PieceAt(s, from, d)
<1> USE DEF IsCut
<1>1. d \in Seq(S) /\ Len(d) = to - from
  <2>1. \A i \in from + 1 .. to : s[i] \in S
    OBVIOUS
  <2>2. d \in Seq(S) /\ Len(d) = IF from + 1 <= to THEN to - (from + 1) + 1 ELSE 0
    BY <2>1, SubSeqProperties
  <2>3. (IF from + 1 <= to THEN to - (from + 1) + 1 ELSE 0) = to - from
    OBVIOUS
  <2> QED
    BY <2>2, <2>3
<1>2. ASSUME NEW j \in 1 .. Len(d) PROVE s[from + j] = d[j]
  <2>1. d[j] = s[(from + 1) + j - 1] /\ (from + 1) + j - 1 = from + j
    BY <1>1
  <2> QED
    BY <2>1
<1> QED
  BY <1>1, <1>2 DEF PieceAt

(* In an image parse_footer_table finds the bytes of the table, and walks   *)
(* over them.                                                               *)
LEMMA FooterOfImage ==
  ASSUME NEW file, NEW entries, NEW m, IsImage(file, entries, m)
  PROVE  parse_footer_table(file) = Walk(FooterTable(entries))
<1> DEFINE table == FooterTable(entries)
           L == Len(file)
           T == Len(table)
           x == <<T + ENTRY_HEADER_SIZE, OVMF_TABLE_FOOTER_GUID>>
           p == SubSeq(file, L - T - 2, L - 1)
           begin == L - 3
<1>1. /\ file \in Seq(Nat) /\ L \in Nat /\ entries \in Entries
      /\ \A i, j \in 1 .. Len(entries) : entries[i].guid = entries[j].guid => i = j
      /\ T + ENTRY_HEADER_SIZE + FOOTER_TO_END <= L
      /\ p = table \o x
  BY LenProperties, Zenon DEF IsImage, Entries
<1>2. table \in Seq(Nat) /\ T \in Nat
  BY <1>1, WalkReads
<1>3. x \in Seq(Nat) /\ Len(x) = 2 /\ x[1] = T + 2 /\ x[2] = OVMF_TABLE_FOOTER_GUID
  BY <1>2 DEF ENTRY_HEADER_SIZE, OVMF_TABLE_FOOTER_GUID
<1>4. T + 3 <= L /\ begin \in Nat /\ begin - T \in Nat /\ begin - T + 1 = L - T - 2
  BY <1>1, <1>2 DEF ENTRY_HEADER_SIZE, FOOTER_TO_END
<1> HIDE DEF table, T, x
<1>5. Parts(Nat, table \o x, table, x)
  BY <1>2, <1>3, PartsOf
<1>6. PieceAt(file, begin - T, table \o x)
  <2>1. SubSeq(file, (begin - T) + 1, L - 1) = table \o x
    BY <1>1, <1>4
  <2>2. L - 1 <= Len(file) /\ L - 1 >= begin - T /\ L - 1 \in Int
    BY <1>1, <1>2, <1>4
  <2> HIDE DEF begin
  <2>3. IsCut(Nat, file, begin - T, L - 1, table \o x)
    BY <1>1, <1>4, <2>1, <2>2 DEF IsCut
  <2> QED
    BY <2>3, PieceAtIs
<1>7. Len(table \o x) = T + 2 /\ T = Len(table)
  BY <1>3, <1>5 DEF Parts, T
<1>8. file[L - 2] = T + 2 /\ file[L - 1] = OVMF_TABLE_FOOTER_GUID
  <2>1. T + 1 \in 1 .. Len(table \o x) /\ T + 2 \in 1 .. Len(table \o x)
    BY <1>2, <1>7
  <2>2. /\ file[(begin - T) + (T + 1)] = (table \o x)[T + 1]
        /\ file[(begin - T) + (T + 2)] = (table \o x)[T + 2]
    BY <1>6, <2>1, Zenon DEF PieceAt
  <2>3. (begin - T) + (T + 1) = L - 2 /\ (begin - T) + (T + 2) = L - 1
    BY <1>1, <1>2
  <2>4. 1 \in 1 .. Len(x) /\ 2 \in 1 .. Len(x)
    BY <1>3
  <2>5. (table \o x)[T + 1] = x[1] /\ (table \o x)[T + 2] = x[2]
    BY <1>5, <1>7, <2>4, Zenon DEF Parts
  <2> QED
    BY <1>3, <2>2, <2>3, <2>5, Zenon
<1>9. SubSeq(file, (begin - T) + 1, begin) = table
  <2>1. \A j \in 1 .. T : file[(begin - T) + j] = table[j]
    <3>1. ASSUME NEW j \in 1 .. T PROVE file[(begin - T) + j] = table[j]
      <4>1. j \in 1 .. Len(table \o x) /\ j \in 1 .. Len(table)
        BY <1>2, <1>7
      <4>2. file[(begin - T) + j] = (table \o x)[j] /\ (table \o x)[j] = table[j]
        BY <1>5, <1>6, <4>1, Zenon DEF PieceAt, Parts
      <4> QED
        BY <4>2
    <3> QED
      BY <3>1
  <2>2. (begin - T) + T = begin /\ (begin - T) + T <= Len(file)
    BY <1>1, <1>2, <1>4
  <2> DEFINE a == begin - T
  <2>3. a \in Nat
    BY <1>4
  <2> HIDE DEF a
  <2>4. table = SubSeq(file, a + 1, a + T)
    <3>1. PieceAt(file, a, table)
      BY <1>7, <2>1 DEF a, PieceAt
    <3>2. a + T <= Len(file)
      BY <2>2 DEF a
    <3> QED
      BY <1>1, <1>2, <1>7, <2>3, <3>1, <3>2, PieceIs, ZenonT(60)
  <2> QED
    BY <2>2, <2>4 DEF a
<1>10. Entry(file, begin) = [size |-> T + 2, guid |-> OVMF_TABLE_FOOTER_GUID]
  <2>1. begin + 1 = L - 2 /\ begin + 2 = L - 1
    BY <1>1
  <2> QED
    BY <1>8, <2>1 DEF Entry
<1>11. /\ begin >= 0 /\ T + 2 >= 2 /\ T <= begin /\ (T + 2) - 2 = T
       /\ L - FOOTER_TO_END - ENTRY_HEADER_SIZE = begin
       /\ ENTRY_HEADER_SIZE = 2
  BY <1>1, <1>2, <1>4 DEF FOOTER_TO_END, ENTRY_HEADER_SIZE
<1>12. parse_footer_table(file) = Walk(Slice(file, begin - T, begin))
  <2> DEFINE e == Entry(file, begin)
  <2>1. e.size = T + 2 /\ e.guid = OVMF_TABLE_FOOTER_GUID
    BY <1>10
  <2> HIDE DEF begin, L
  <2>2. parse_footer_table(file) =
          IF /\ begin >= 0 /\ e.guid = OVMF_TABLE_FOOTER_GUID /\ e.size >= 2 /\ e.size - 2 <= begin
            THEN Walk(Slice(file, begin - (e.size - 2), begin)) ELSE Failed
    BY <1>11, Zenon DEF parse_footer_table, L
  <2> HIDE DEF e
  <2> QED
    BY <1>11, <2>1, <2>2
<1> QED
  BY <1>9, <1>12 DEF Slice, table

Sections == Seq([gpa : Nat, size : Nat, section_type : SectionTypes])

(* The number of a section's type is read back as the type. *)
LEMMA TypeCodeIs ==
  ASSUME NEW type \in SectionTypes
  PROVE  /\ TypeCode(type) \in DOMAIN SectionType /\ TypeCode(type) \in Nat
         /\ SectionType[TypeCode(type)] = type
<1>1. \E n \in DOMAIN SectionType : SectionType[n] = type
  <2>1. /\ 1 \in DOMAIN SectionType /\ SectionType[1] = "SnpSecMemory"
        /\ 2 \in DOMAIN SectionType /\ SectionType[2] = "SnpSecrets"
        /\ 3 \in DOMAIN SectionType /\ SectionType[3] = "CPUID"
        /\ 16 \in DOMAIN SectionType /\ SectionType[16] = "SnpKernelHashes"
    BY DEF SectionType
  <2> QED
    BY <2>1 DEF SectionTypes
<1>2. TypeCode(type) \in DOMAIN SectionType /\ SectionType[TypeCode(type)] = type
  BY <1>1 DEF TypeCode
<1>3. DOMAIN SectionType \subseteq Nat
  BY DEF SectionType
<1> QED
  BY <1>2, <1>3

(* The fields of a description. *)
Fields(d) == <<d.gpa, d.size, TypeCode(d.section_type)>>

(* md is the metadata of some sections, field by field. *)
IsMetadata(md, sections) ==
  /\ md \in Seq(Nat) /\ Len(md) = 4 + Len(sections) * 3
  /\ md[1] = ASEV /\ md[2] = 4 + Len(sections) * 3 /\ md[3] = 1 /\ md[4] = Len(sections)
  /\ \A i \in 1 .. Len(sections) : \A j \in 1 .. 3 :
       md[4 + ((i - 1) * 3 + j)] = Fields(sections[i])[j]

(* Header and descriptors of the metadata, field by field. *)
LEMMA MetadataIs ==
  ASSUME NEW sections \in Sections
  PROVE  IsMetadata(Metadata(sections), sections)
<1> DEFINE N == Len(sections)
           D == [i \in 1 .. N |-> Fields(sections[i])]
           h == <<ASEV, 4 + N * 3, 1, N>>
           md == Metadata(sections)
<1>1. N \in Nat /\ \A i \in 1 .. N : sections[i] \in [gpa : Nat, size : Nat, section_type : SectionTypes]
  BY LenProperties, ElementOfSeq, Zenon DEF Sections
<1>2. ASSUME NEW i \in 1 .. N PROVE Fields(sections[i]) \in Seq(Nat) /\ Len(Fields(sections[i])) = 3
  <2>1. sections[i].gpa \in Nat /\ sections[i].size \in Nat /\ TypeCode(sections[i].section_type) \in Nat
    BY <1>1, TypeCodeIs
  <2> QED
    BY <2>1 DEF Fields
<1>3. D \in Seq(Seq(Nat)) /\ Len(D) = N /\ \A i \in 1 .. N : D[i] = Fields(sections[i])
  BY <1>1, <1>2
<1>4. md = h \o FlattenSeq(D)
  BY DEF Metadata, Fields, METADATA_HEADER_SIZE, SECTION_DESC_SIZE
<1>5. h \in Seq(Nat) /\ Len(h) = 4 /\ h[1] = ASEV /\ h[2] = 4 + N * 3 /\ h[3] = 1 /\ h[4] = N
  BY <1>1 DEF ASEV
<1> HIDE DEF D, h, md, N
<1>6. HasWidth(Nat, D, 3)
  <2>1. \A i \in 1 .. Len(D) : Len(D[i]) = 3
    BY <1>2, <1>3
  <2> QED
    BY <1>3, <2>1, FixedWidth
<1> DEFINE f == FlattenSeq(D)
<1>7. f \in Seq(Nat) /\ Len(f) = N * 3
  BY <1>3, <1>6 DEF HasWidth
<1>8. \A i \in 1 .. N : \A j \in 1 .. 3 : f[(i - 1) * 3 + j] = Fields(sections[i])[j]
  BY <1>3, <1>6, ZenonT(60) DEF HasWidth
<1> HIDE DEF f
<1>9. Parts(Nat, md, h, f)
  BY <1>4, <1>5, <1>7, PartsOf DEF f
<1>10. md[1] = h[1] /\ md[2] = h[2] /\ md[3] = h[3] /\ md[4] = h[4]
  BY <1>5, <1>9 DEF Parts
<1>11. ASSUME NEW i \in 1 .. N, NEW j \in 1 .. 3
       PROVE  md[4 + ((i - 1) * 3 + j)] = Fields(sections[i])[j]
  <2>1. (i - 1) * 3 + j \in 1 .. Len(f)
    BY <1>1, <1>7
  <2>2. md[Len(h) + ((i - 1) * 3 + j)] = f[(i - 1) * 3 + j]
    BY <1>9, <2>1, Zenon DEF Parts
  <2> QED
    BY <1>5, <1>8, <2>2, Zenon
<1>12. md \in Seq(Nat) /\ Len(md) = 4 + N * 3
  BY <1>5, <1>7, <1>9 DEF Parts
<1> QED
  BY <1>5, <1>10, <1>11, <1>12 DEF IsMetadata, md, N

(* Items reads the sections of the metadata in a file. *)
LEMMA ItemsAre ==
  ASSUME NEW file \in Seq(Nat), NEW hs \in Nat, NEW sections \in Sections,
         NEW md, IsMetadata(md, sections), PieceAt(file, hs, md), hs + Len(md) <= Len(file)
  PROVE  Items(file, hs) = [ok |-> TRUE, items |-> sections]
<1> DEFINE N == Len(sections)
           size == file[hs + 2]
           items == Slice(file, hs + 4, hs + size)
           Desc(i) == Slice(items, (i - 1) * 3, i * 3)
<1>1. N \in Nat /\ \A i \in 1 .. N : sections[i] \in [gpa : Nat, size : Nat, section_type : SectionTypes]
  BY LenProperties, ElementOfSeq, Zenon DEF Sections
<1>2. /\ Len(md) = 4 + N * 3
      /\ md[1] = ASEV /\ md[2] = 4 + N * 3 /\ md[3] = 1 /\ md[4] = N
      /\ \A i \in 1 .. N : \A j \in 1 .. 3 : md[4 + ((i - 1) * 3 + j)] = Fields(sections[i])[j]
  BY DEF IsMetadata
<1>3. \A j \in 1 .. Len(md) : file[hs + j] = md[j]
  BY DEF PieceAt
<1> HIDE DEF N
<1>4. file[hs + 1] = ASEV /\ size = 4 + N * 3 /\ file[hs + 3] = 1 /\ file[hs + 4] = N
  <2>1. 1 \in 1 .. Len(md) /\ 2 \in 1 .. Len(md) /\ 3 \in 1 .. Len(md) /\ 4 \in 1 .. Len(md)
    BY <1>1, <1>2
  <2> QED
    BY <1>2, <1>3, <2>1, Zenon
<1> HIDE DEF size
<1>5. hs + size <= Len(file) /\ size >= 4 /\ hs + size \in Int
  BY <1>1, <1>2, <1>4
<1>6. items \in Seq(Nat) /\ Len(items) = N * 3 /\ PieceAt(file, hs + 4, items)
  <2>1. SubSeq(file, (hs + 4) + 1, hs + size) = items /\ hs + size >= hs + 4
    BY <1>4, <1>5 DEF Slice
  <2>2. hs + 4 \in Nat /\ (hs + size) - (hs + 4) = N * 3
    BY <1>1, <1>4
  <2> HIDE DEF items
  <2>3. items \in Seq(Nat) /\ Len(items) = (hs + size) - (hs + 4) /\ PieceAt(file, hs + 4, items)
    <3>1. IsCut(Nat, file, hs + 4, hs + size, items)
      BY <1>5, <2>1, <2>2 DEF IsCut
    <3> QED
      BY <3>1, PieceAtIs
  <2> QED
    BY <2>2, <2>3
<1> HIDE DEF items
<1>7. ASSUME NEW i \in 1 .. N, NEW j \in 1 .. 3 PROVE Desc(i)[j] = Fields(sections[i])[j]
  <2> DEFINE b == (i - 1) * 3
             d == SubSeq(items, b + 1, i * 3)
  <2>1. b \in Nat /\ i * 3 = b + 3 /\ b + 3 <= Len(items) /\ b + j \in 1 .. Len(items)
    BY <1>1, <1>6
  <2> HIDE DEF b
  <2>2. Len(d) = 3 /\ PieceAt(items, b, d)
    <3>1. i * 3 \in Int /\ i * 3 <= Len(items) /\ i * 3 >= b /\ (i * 3) - b = 3
      BY <1>1, <2>1
    <3> HIDE DEF d
    <3>2. SubSeq(items, b + 1, i * 3) = d
      BY DEF d
    <3>3. Len(d) = (i * 3) - b /\ PieceAt(items, b, d)
      <4>1. IsCut(Nat, items, b, i * 3, d)
        BY <1>6, <2>1, <3>1, <3>2 DEF IsCut
      <4> QED
        BY <4>1, PieceAtIs
    <3> QED
      BY <3>1, <3>3
  <2>3. Desc(i) = d
    BY DEF Slice, b
  <2> HIDE DEF d
  <2>4. d[j] = items[b + j]
    BY <2>2 DEF PieceAt
  <2>5. items[b + j] = file[(hs + 4) + (b + j)]
    BY <1>6, <2>1, Zenon DEF PieceAt
  <2>6. (hs + 4) + (b + j) = hs + (4 + (b + j)) /\ 4 + (b + j) \in 1 .. Len(md)
    BY <1>1, <1>2, <1>6, <2>1
  <2>7. file[hs + (4 + (b + j))] = md[4 + (b + j)]
    BY <1>3, <2>6
  <2>8. md[4 + (b + j)] = Fields(sections[i])[j]
    BY <1>2, Zenon DEF b
  <2> HIDE DEF Desc
  <2> QED
    BY <2>3, <2>4, <2>5, <2>6, <2>7, <2>8
<1> HIDE DEF Desc
<1>8. ASSUME NEW i \in 1 .. N
      PROVE  /\ Desc(i)[1] = sections[i].gpa /\ Desc(i)[2] = sections[i].size
             /\ Desc(i)[3] \in DOMAIN SectionType
             /\ SectionType[Desc(i)[3]] = sections[i].section_type
  <2> DEFINE d == sections[i]
  <2>1. /\ Fields(d)[1] = d.gpa /\ Fields(d)[2] = d.size
        /\ Fields(d)[3] = TypeCode(d.section_type) /\ d.section_type \in SectionTypes
    BY <1>1 DEF Fields
  <2>2. 1 \in 1 .. 3 /\ 2 \in 1 .. 3 /\ 3 \in 1 .. 3
    OBVIOUS
  <2> HIDE DEF d
  <2>3. Desc(i)[1] = Fields(d)[1] /\ Desc(i)[2] = Fields(d)[2] /\ Desc(i)[3] = Fields(d)[3]
    BY <1>7, <2>2 DEF d
  <2>4. TypeCode(d.section_type) \in DOMAIN SectionType /\ SectionType[TypeCode(d.section_type)] = d.section_type
    BY <2>1, TypeCodeIs
  <2> QED
    BY <2>1, <2>3, <2>4, Zenon DEF d
<1>9. sections = [i \in 1 .. N |-> [gpa |-> Desc(i)[1], size |-> Desc(i)[2],
                                    section_type |-> SectionType[Desc(i)[3]]]]
  <2>1. \A i \in 1 .. N : sections[i] = [gpa |-> sections[i].gpa, size |-> sections[i].size,
                                         section_type |-> sections[i].section_type]
    BY <1>1
  <2>2. \A i \in 1 .. N : sections[i] = [gpa |-> Desc(i)[1], size |-> Desc(i)[2],
                                         section_type |-> SectionType[Desc(i)[3]]]
    BY <1>8, <2>1, Zenon
  <2>3. sections = [i \in 1 .. N |-> sections[i]]
    BY DEF N, Sections
  <2> QED
    BY <2>2, <2>3, Zenon
<1>10. N * 3 <= Len(items) /\ METADATA_HEADER_SIZE = 4 /\ SECTION_DESC_SIZE = 3
  BY <1>1, <1>6 DEF METADATA_HEADER_SIZE, SECTION_DESC_SIZE
<1>11. Items(file, hs) =
         IF /\ file[hs + 1] = ASEV /\ file[hs + 3] = 1
            /\ size >= 4 /\ hs + size <= Len(file)
            /\ file[hs + 4] * 3 <= Len(items)
            /\ \A i \in 1 .. file[hs + 4] : Desc(i)[3] \in DOMAIN SectionType
           THEN [ok |-> TRUE,
                 items |-> [i \in 1 .. file[hs + 4] |->
                              [gpa |-> Desc(i)[1], size |-> Desc(i)[2],
                               section_type |-> SectionType[Desc(i)[3]]]]]
           ELSE Failed
  BY DEF Items, items, size, Desc, METADATA_HEADER_SIZE, SECTION_DESC_SIZE
<1> QED
  BY <1>4, <1>5, <1>8, <1>9, <1>10, <1>11, Zenon

(* What an entry gives is in the table that was read. *)
LEMMA GivenIsRead ==
  ASSUME NEW w, NEW entries, HasRead(w, entries, Len(entries)), NEW guid, NEW number,
         Gives(entries, guid, number)
  PROVE  guid \in DOMAIN w.table /\ w.table[guid] # <<>> /\ w.table[guid][1] = number
<1>1. PICK n \in 1 .. Len(entries) :
        entries[n].guid = guid /\ entries[n].data # <<>> /\ entries[n].data[1] = number
  BY DEF Gives
<1>2. guid \in DOMAIN w.table /\ w.table[guid] = entries[n].data
  BY <1>1 DEF HasRead
<1> QED
  BY <1>1, <1>2

(* ovmf is what OVMF::new has read of an image of m. *)
IsRead(ovmf, file, m) ==
  /\ ovmf.ok = TRUE /\ ovmf.data = file /\ ovmf.metadata_items = m.sections
  /\ sev_es_reset_eip(ovmf) = {m.eip}
  /\ HasHashes(m) => sev_hashes_table_gpa(ovmf) = {m.hashes_gpa}

(* OVMF::new reads of an image what it was built from. *)
LEMMA ImageIsRead ==
  ASSUME NEW file, NEW entries, NEW m, IsImage(file, entries, m), m.sections \in Sections
  PROVE  IsRead(OVMF_new(file), file, m)
<1> DEFINE w == parse_footer_table(file)
           md == Metadata(m.sections)
           L == Len(file)
<1>1. /\ file \in Seq(Nat) /\ L \in Nat /\ entries \in Entries
      /\ \A i, j \in 1 .. Len(entries) : entries[i].guid = entries[j].guid => i = j
      /\ Gives(entries, SEV_ES_RESET_BLOCK_GUID, m.eip)
      /\ HasHashes(m) => Gives(entries, SEV_HASH_TABLE_RV_GUID, m.hashes_gpa)
  BY LenProperties, Zenon DEF IsImage, Entries
<1>2. PICK at \in Len(md) .. L :
         /\ Gives(entries, OVMF_SEV_META_DATA_GUID, at)
         /\ SubSeq(file, L - at + 1, L - at + Len(md)) = md
  BY Zenon DEF IsImage
<1> HIDE DEF md, w
<1>3. HasRead(w, entries, Len(entries))
  BY <1>1, WalkReads, FooterOfImage DEF w
<1>4. IsMetadata(md, m.sections)
  BY MetadataIs DEF md
<1>5. Len(md) \in Nat /\ Len(md) >= 4
  <2>1. Len(m.sections) \in Nat
    BY LenProperties, Zenon DEF Sections
  <2> QED
    BY <1>4, <2>1 DEF IsMetadata
<1> DEFINE hs == L - at
<1>6. hs \in Nat /\ hs + Len(md) <= L /\ hs + 4 <= L /\ hs >= 0
  BY <1>1, <1>2, <1>5
<1>7. PieceAt(file, hs, md)
  <2>1. IsCut(Nat, file, hs, hs + Len(md), md)
    <3>1. SubSeq(file, hs + 1, hs + Len(md)) = md
      BY <1>2
    <3> HIDE DEF hs
    <3> QED
      BY <1>1, <1>5, <1>6, <3>1 DEF IsCut
  <2> QED
    BY <2>1, PieceAtIs
<1> HIDE DEF hs
<1>8. Items(file, hs) = [ok |-> TRUE, items |-> m.sections]
  BY <1>1, <1>4, <1>6, <1>7, ItemsAre
<1>9. parse_sev_metadata(file, w.table) = Items(file, hs)
  <2> DEFINE t == w.table
  <2>1. /\ OVMF_SEV_META_DATA_GUID \in DOMAIN t /\ t[OVMF_SEV_META_DATA_GUID] # <<>>
        /\ t[OVMF_SEV_META_DATA_GUID][1] = at
    BY <1>2, <1>3, GivenIsRead
  <2> HIDE DEF t
  <2> QED
    BY <1>6, <2>1 DEF parse_sev_metadata, METADATA_HEADER_SIZE, hs, t
<1>10. w.ok = TRUE
  BY <1>3 DEF HasRead
<1> DEFINE o == OVMF_new(file)
<1>11. o = [ok |-> TRUE, data |-> file, table |-> w.table, metadata_items |-> m.sections]
  <2> DEFINE r == parse_sev_metadata(file, w.table)
  <2>1. r.ok = TRUE /\ r.items = m.sections
    BY <1>8, <1>9
  <2>2. o = IF w.ok /\ r.ok
              THEN [ok |-> TRUE, data |-> file, table |-> w.table, metadata_items |-> r.items]
              ELSE Failed
    BY DEF OVMF_new, w
  <2> HIDE DEF r, o
  <2> QED
    BY <1>10, <2>1, <2>2
<1> HIDE DEF o
<1>12. o.ok = TRUE /\ o.data = file /\ o.metadata_items = m.sections /\ o.table = w.table
  BY <1>11
<1>13. ASSUME NEW guid, NEW number, Gives(entries, guid, number)
       PROVE  table_u32(o, guid) = {number}
  <2>1. guid \in DOMAIN w.table /\ w.table[guid] # <<>> /\ w.table[guid][1] = number
    BY <1>3, <1>13, GivenIsRead
  <2> QED
    BY <1>12, <2>1 DEF table_u32
<1>14. sev_es_reset_eip(o) = {m.eip}
  BY <1>1, <1>13 DEF sev_es_reset_eip
<1>15. HasHashes(m) => sev_hashes_table_gpa(o) = {m.hashes_gpa}
  BY <1>1, <1>13 DEF sev_hashes_table_gpa
<1> QED
  BY <1>12, <1>14, <1>15 DEF IsRead, o

(* The sections of a machine. *)
LEMMA MachineIsRead ==
  ASSUME NEW m \in DOMAIN Image
  PROVE  /\ IsRead(OVMF_new(Image[m]), Image[m], m)
         /\ m.sections \in Sections /\ IsMachine(m)
         /\ Image[m] \in Seq(Nat) /\ Len(Image[m]) \in Nat \ {0} /\ Len(Image[m]) % PAGE = 0
<1>1. IsMachine(m) /\ IsImage(Image[m], Footer[m], m)
  BY MachinesAssumption
<1>2. m.sections \in Sections
  BY <1>1 DEF IsMachine, Sections
<1>3. Image[m] \in Seq(Nat) /\ Len(Image[m]) # 0 /\ Len(Image[m]) % PAGE = 0
  BY <1>1, Zenon DEF IsImage
<1> QED
  BY <1>1, <1>2, <1>3, ImageIsRead

-----------------------------------------------------------------------------
(* Pages. *)

(* Division with remainder. *)
LEMMA DivMod ==
  ASSUME NEW a \in Nat, NEW b \in Nat \ {0}
  PROVE  /\ a = b * (a \div b) + (a % b) /\ a \div b \in Nat /\ a % b \in 0 .. b - 1
         /\ a \div b <= a
OBVIOUS

(* Less than one multiple is none. *)
LEMMA Multiple ==
  ASSUME NEW b \in Nat \ {0}, NEW k \in Int, b * k < b, b * k > 0 - b
  PROVE  k = 0
<1>1. k >= 1 => b * k >= b
  OBVIOUS
<1>2. k <= 0 - 1 => b * k <= 0 - b
  OBVIOUS
<1> QED
  BY <1>1, <1>2

(* The offset in a page. *)
LEMMA WithinPage ==
  ASSUME NEW g \in Nat, g % PAGE = 0, NEW r \in 0 .. PAGE - 1
  PROVE  (g + r) % PAGE = r
<1> DEFINE p == g \div PAGE
           q == (g + r) \div PAGE
           s == (g + r) % PAGE
<1>1. PAGE \in Nat \ {0} /\ g + r \in Nat
  BY PageAssumption
<1>2. g = PAGE * p /\ p \in Nat
  BY <1>1, DivMod
<1>3. g + r = PAGE * q + s /\ q \in Nat /\ s \in 0 .. PAGE - 1
  BY <1>1, DivMod
<1> HIDE DEF p, q, s
<1>4. PAGE * (q - p) = r - s
  BY <1>1, <1>2, <1>3
<1>5. r - s < PAGE /\ r - s > 0 - PAGE /\ q - p \in Int
  BY <1>1, <1>2, <1>3
<1>6. q - p = 0
  BY <1>1, <1>4, <1>5, Multiple
<1> QED
  BY <1>1, <1>2, <1>3, <1>6 DEF s

(* A page is one page. *)
LEMMA OnePage == PAGE % PAGE = 0 /\ PAGE \div PAGE = 1
<1> DEFINE q == PAGE \div PAGE
           s == PAGE % PAGE
<1>1. PAGE \in Nat \ {0}
  BY PageAssumption
<1>2. PAGE = PAGE * q + s /\ q \in Nat /\ s \in 0 .. PAGE - 1
  BY <1>1, DivMod
<1> HIDE DEF q, s
<1>3. PAGE * (q - 1) = 0 - s
  BY <1>1, <1>2
<1>4. q - 1 = 0
  BY <1>1, <1>2, <1>3, Multiple
<1>5. q = 1 /\ s = 0
  BY <1>1, <1>2, <1>3, <1>4
<1> QED
  BY <1>5 DEF q, s

(* update_page for a section of zero pages adds them. *)
LEMMA UpdateZero ==
  ASSUME NEW ld, NEW d, d.size % PAGE = 0
  PROVE  update_page(Gctx(ld), "Zero", d.gpa, <<>>, d.size) = Gctx(ld \o ZeroPages(d))
<1>1. Gctx(ld).ld = ld
  BY DEF Gctx
<1> QED
  BY <1>1 DEF update_page, ZeroPages

(* update_page for secrets and CPUID adds a page whose contents are not     *)
(* measured.                                                                *)
LEMMA UpdateOther ==
  ASSUME NEW ld \in Seq(PageInfos), NEW gpa \in Nat, NEW type \in {"Secrets", "Cpuid"}
  PROVE  /\ update_page(Gctx(ld), type, gpa, <<>>, 0) = Gctx(ld \o <<PageInfo(type, gpa, ZEROS)>>)
         /\ PageInfo(type, gpa, ZEROS) \in PageInfos
<1>1. Gctx(ld).ld = ld
  BY DEF Gctx
<1>2. PageInfo(type, gpa, ZEROS) \in PageInfos
  BY DEF PageInfo, PageInfos, ZEROS
<1>3. update_page(Gctx(ld), type, gpa, <<>>, 0) = Gctx(Append(ld, PageInfo(type, gpa, ZEROS)))
  BY <1>1 DEF update_page
<1>4. Append(ld, PageInfo(type, gpa, ZEROS)) = ld \o <<PageInfo(type, gpa, ZEROS)>>
  <2> HIDE DEF PageInfos
  <2>1. ASSUME NEW x \in PageInfos PROVE Append(ld, x) = ld \o <<x>>
    BY AppendIsConcat
  <2> QED
    BY <1>2, <2>1
<1> QED
  BY <1>2, <1>3, <1>4

(* update_page for a page of data adds it. *)
LEMMA UpdateNormal ==
  ASSUME NEW ld, NEW gpa \in Nat, NEW contents \in Seq(Nat), Len(contents) = PAGE
  PROVE  update_page(Gctx(ld), "Normal", gpa, contents, PAGE)
           = Gctx(ld \o <<PageInfo("Normal", gpa, contents)>>)
<1>1. Gctx(ld).ld = ld
  BY DEF Gctx
<1>2. PAGE \in Nat \ {0} /\ PAGE % PAGE = 0 /\ PAGE \div PAGE = 1
  BY PageAssumption, OnePage
<1>3. update_page(Gctx(ld), "Normal", gpa, contents, PAGE) =
        Gctx(ld \o [i \in 1 .. PAGE \div PAGE |->
                      PageInfo("Normal", gpa + (i - 1) * PAGE, PageOf(contents, i))])
  BY <1>1, <1>2 DEF update_page
<1>4. PageOf(contents, 1) = contents
  <2>1. (1 - 1) * PAGE + 1 = 1 /\ 1 * PAGE = PAGE
    BY <1>2
  <2>2. SubSeq(contents, 1, PAGE) = contents
    BY <1>2
  <2> QED
    BY <2>1, <2>2 DEF PageOf, Slice
<1>5. gpa + (1 - 1) * PAGE = gpa
  BY <1>2
<1>6. [i \in 1 .. 1 |-> PageInfo("Normal", gpa + (i - 1) * PAGE, PageOf(contents, i))]
        = <<PageInfo("Normal", gpa, contents)>>
  BY <1>4, <1>5
<1> QED
  BY <1>2, <1>3, <1>6

(* What a machine boots, as snp_calc_launch_digest has it. *)
BootHashes(m) == IF m.kernel = None THEN {} ELSE {SevHashes(m.kernel, m.initrd, m.append)}

(* A section that a machine has. *)
HasDesc(m, d) == \E i \in 1 .. Len(m.sections) : d = m.sections[i]

(* What a section of a machine is. *)
LEMMA DescFacts ==
  ASSUME NEW m, IsMachine(m), NEW d, HasDesc(m, d)
  PROVE  /\ d.gpa \in Nat /\ d.size \in Nat /\ d.section_type \in SectionTypes
         /\ d.size # 0 /\ d.size % PAGE = 0
         /\ d.section_type = "SnpKernelHashes" =>
              /\ d.size = PAGE /\ d.gpa % PAGE = 0 /\ HasHashes(m)
              /\ m.hashes_gpa \in d.gpa .. d.gpa + PAGE - 1
<1>1. PICK i \in 1 .. Len(m.sections) : d = m.sections[i]
  BY DEF HasDesc
<1>2. d \in [gpa : Nat, size : Nat, section_type : SectionTypes]
  BY <1>1, ElementOfSeq, Zenon DEF IsMachine
<1>3. /\ d.size # 0 /\ d.size % PAGE = 0
      /\ d.section_type = "SnpKernelHashes" =>
           /\ d.size = PAGE /\ d.gpa % PAGE = 0
           /\ m.hashes_gpa \in d.gpa .. d.gpa + PAGE - 1
  BY <1>1, Zenon DEF IsMachine
<1>4. d.section_type = "SnpKernelHashes" => HasHashes(m)
  BY <1>1, Zenon DEF HasHashes
<1> QED
  BY <1>2, <1>3, <1>4

(* The page of the hashes in memory is the one that is calculated. *)
LEMMA HashPageIs ==
  ASSUME NEW m, IsMachine(m), m.kernel # None, NEW d, HasDesc(m, d), d.section_type = "SnpKernelHashes"
  PROVE  LET page == construct_page(SevHashes(m.kernel, m.initrd, m.append), m.hashes_gpa % PAGE)
         IN  /\ HashPage(m, d) = <<PageInfo("Normal", d.gpa, page)>>
             /\ page \in Seq(Nat) /\ Len(page) = PAGE
<1> DEFINE h == SevHashes(m.kernel, m.initrd, m.append)
           table == <<SEV_HASH_TABLE_HEADER_GUID, h.cmdline, h.initrd, h.kernel>>
           r == m.hashes_gpa - d.gpa
           Field(at) == IF at \in m.hashes_gpa .. m.hashes_gpa + Len(table) - 1
                          THEN table[at - m.hashes_gpa + 1] ELSE 0
           page == construct_page(h, m.hashes_gpa % PAGE)
<1>1. /\ d.gpa \in Nat /\ d.gpa % PAGE = 0 /\ m.hashes_gpa \in d.gpa .. d.gpa + PAGE - 1
      /\ PAGE \in Nat \ {0} /\ m.hashes_gpa \in Nat
  BY DescFacts, PageAssumption, Zenon DEF IsMachine
<1>2. r \in 0 .. PAGE - 1 /\ d.gpa + r = m.hashes_gpa
  BY <1>1
<1>3. m.hashes_gpa % PAGE = r
  <2> HIDE DEF r
  <2> QED
    BY <1>1, <1>2, WithinPage
<1>4. h.cmdline \in Nat /\ h.initrd \in Nat /\ h.kernel \in Nat
  <2>1. {h.kernel, h.initrd, h.cmdline} \subseteq Hash
    BY Zenon DEF IsMachine
  <2> QED
    BY <2>1 DEF Hash
<1> HIDE DEF h
<1>5. table \in Seq(Nat) /\ Len(table) = 4
  BY <1>4 DEF SEV_HASH_TABLE_HEADER_GUID
<1>6. page = [i \in 1 .. PAGE |-> IF i > r /\ i <= r + Len(table) THEN table[i - r] ELSE 0]
  BY <1>3 DEF construct_page, construct_table
<1> HIDE DEF table, r, page
<1>7. ASSUME NEW i \in 1 .. PAGE
      PROVE  /\ Field(d.gpa + i - 1) = IF i > r /\ i <= r + Len(table) THEN table[i - r] ELSE 0
             /\ Field(d.gpa + i - 1) \in Nat
  <2>1. (d.gpa + i - 1) - m.hashes_gpa + 1 = i - r
    BY <1>1, <1>2
  <2>2. d.gpa + i - 1 \in m.hashes_gpa .. m.hashes_gpa + Len(table) - 1
          <=> i > r /\ i <= r + Len(table)
    BY <1>1, <1>2, <1>5, SMTT(40)
  <2>3. i > r /\ i <= r + Len(table) => table[i - r] \in Nat
    <3>1. i > r /\ i <= r + Len(table) => i - r \in 1 .. Len(table)
      BY <1>2, <1>5
    <3>2. \A k \in 1 .. Len(table) : table[k] \in Nat
      BY <1>5, ElementOfSeq
    <3> QED
      BY <3>1, <3>2, Zenon
  <2> QED
    BY <2>1, <2>2, <2>3
<1>8. HashPage(m, d) = <<PageInfo("Normal", d.gpa, [i \in 1 .. PAGE |-> Field(d.gpa + i - 1)])>>
  BY Zenon DEF HashPage, table, h
<1> HIDE DEF Field
<1>9. [i \in 1 .. PAGE |-> Field(d.gpa + i - 1)] = page
  BY <1>6, <1>7, Zenon
<1>10. page = [i \in 1 .. PAGE |-> Field(d.gpa + i - 1)]
  BY <1>9
<1>11. page \in Seq(Nat) /\ Len(page) = PAGE
  <2>1. \A i \in 1 .. PAGE : page[i] \in Nat
    BY <1>7, <1>10
  <2>2. page = [i \in 1 .. PAGE |-> page[i]]
    BY <1>10
  <2> QED
    BY <1>1, <2>1, <2>2
<1> QED
  BY <1>8, <1>9, <1>11 DEF page, h

(* The type of zero pages. *)
LEMMA ZeroPagesIn ==
  ASSUME NEW d, d.gpa \in Nat, d.size \in Nat
  PROVE  ZeroPages(d) \in Seq(PageInfos)
<1> DEFINE n == d.size \div PAGE
<1>1. n \in Nat /\ PAGE \in Nat \ {0}
  BY DivMod, PageAssumption
<1>2. ASSUME NEW i \in 1 .. n PROVE PageInfo("Zero", d.gpa + (i - 1) * PAGE, ZEROS) \in PageInfos
  <2>1. d.gpa + (i - 1) * PAGE \in Int
    BY <1>1
  <2> QED
    BY <2>1 DEF PageInfo, PageInfos, ZEROS
<1> HIDE DEF n, PageInfos
<1> QED
  BY <1>1, <1>2 DEF ZeroPages, n

(* The type of one page. *)
LEMMA OnePageIn ==
  ASSUME NEW type \in {"Normal", "Secrets", "Cpuid"}, NEW gpa \in Nat, NEW contents \in Seq(Nat)
  PROVE  <<PageInfo(type, gpa, contents)>> \in Seq(PageInfos)
<1>1. PageInfo(type, gpa, contents) \in PageInfos
  BY DEF PageInfo, PageInfos
<1> HIDE DEF PageInfos
<1> QED
  BY <1>1

(* The regions of a machine are pages. *)
LEMMA RegionIn ==
  ASSUME NEW m, IsMachine(m), NEW d, HasDesc(m, d)
  PROVE  Region(m, d) \in Seq(PageInfos)
<1>1. d.gpa \in Nat /\ d.size \in Nat /\ d.section_type \in SectionTypes
  BY DescFacts
<1>2. ZEROS \in Seq(Nat)
  BY DEF ZEROS
<1>3. CASE d.section_type = "SnpSecMemory"
  BY <1>1, <1>3, ZeroPagesIn DEF Region
<1>4. CASE d.section_type = "SnpSecrets"
  BY <1>1, <1>2, <1>4, OnePageIn DEF Region
<1>5. CASE d.section_type = "CPUID"
  BY <1>1, <1>2, <1>5, OnePageIn DEF Region
<1>6. CASE d.section_type = "SnpKernelHashes" /\ m.kernel = None
  BY <1>1, <1>6, ZeroPagesIn DEF Region
<1>7. CASE d.section_type = "SnpKernelHashes" /\ m.kernel # None
  <2>1. Region(m, d) = HashPage(m, d)
    BY <1>7 DEF Region
  <2> DEFINE page == construct_page(SevHashes(m.kernel, m.initrd, m.append), m.hashes_gpa % PAGE)
  <2>2. HashPage(m, d) = <<PageInfo("Normal", d.gpa, page)>> /\ page \in Seq(Nat)
    BY <1>7, HashPageIs
  <2> HIDE DEF page
  <2> QED
    BY <1>1, <2>1, <2>2, OnePageIn
<1> QED
  BY <1>1, <1>3, <1>4, <1>5, <1>6, <1>7 DEF SectionTypes

(* snp_update_section measures the region that is loaded. *)
LEMMA SectionMeasured ==
  ASSUME NEW m, IsMachine(m), NEW d, HasDesc(m, d), NEW ovmf, NEW file, IsRead(ovmf, file, m),
         NEW ld \in Seq(PageInfos)
  PROVE  snp_update_section(Gctx(ld), d, ovmf, BootHashes(m), m.vmm)
           = IF d.section_type = "CPUID" /\ m.vmm = "EC2" THEN Gctx(ld) ELSE Gctx(ld \o Region(m, d))
<1> DEFINE g == Gctx(ld)
           up == snp_update_section(g, d, ovmf, BootHashes(m), m.vmm)
<1>1. d.gpa \in Nat /\ d.size \in Nat /\ d.section_type \in SectionTypes /\ d.size % PAGE = 0
  BY DescFacts
<1>2. CASE d.section_type = "SnpSecMemory"
  <2>1. up = update_page(g, "Zero", d.gpa, <<>>, d.size) /\ Region(m, d) = ZeroPages(d)
    BY <1>2 DEF snp_update_section, Region
  <2> HIDE DEF up
  <2>2. up = Gctx(ld \o ZeroPages(d))
    BY <1>1, <2>1, UpdateZero
  <2> QED
    BY <1>2, <2>1, <2>2 DEF up
<1>3. CASE d.section_type = "SnpSecrets"
  <2>1. up = update_page(g, "Secrets", d.gpa, <<>>, 0) /\ Region(m, d) = <<PageInfo("Secrets", d.gpa, ZEROS)>>
    BY <1>3 DEF snp_update_section, Region
  <2> HIDE DEF up
  <2>2. up = Gctx(ld \o <<PageInfo("Secrets", d.gpa, ZEROS)>>)
    BY <1>1, <2>1, UpdateOther
  <2> QED
    BY <1>3, <2>1, <2>2 DEF up
<1>4. CASE d.section_type = "CPUID"
  <2>1. Region(m, d) = <<PageInfo("Cpuid", d.gpa, ZEROS)>>
    BY <1>4 DEF Region
  <2>2. up = IF m.vmm = "EC2" THEN g ELSE update_page(g, "Cpuid", d.gpa, <<>>, 0)
    BY <1>4 DEF snp_update_section
  <2>3. update_page(g, "Cpuid", d.gpa, <<>>, 0) = Gctx(ld \o <<PageInfo("Cpuid", d.gpa, ZEROS)>>)
    BY <1>1, UpdateOther
  <2> HIDE DEF up
  <2> QED
    BY <1>4, <2>1, <2>2, <2>3 DEF up
<1>5. CASE d.section_type = "SnpKernelHashes"
  <2>1. up = snp_update_kernel_hashes(g, ovmf, BootHashes(m), d.gpa, d.size)
    BY <1>5 DEF snp_update_section
  <2> HIDE DEF up
  <2>2. CASE m.kernel = None
    <3>1. up = update_page(g, "Zero", d.gpa, <<>>, d.size)
      BY <2>1, <2>2 DEF snp_update_kernel_hashes, BootHashes
    <3>2. Region(m, d) = ZeroPages(d)
      BY <1>5, <2>2 DEF Region
    <3>3. up = Gctx(ld \o ZeroPages(d))
      BY <1>1, <3>1, UpdateZero
    <3> QED
      BY <1>5, <3>2, <3>3 DEF up
  <2>3. CASE m.kernel # None
    <3> DEFINE h == SevHashes(m.kernel, m.initrd, m.append)
               page == construct_page(h, m.hashes_gpa % PAGE)
    <3>1. HasHashes(m) /\ d.size = PAGE
      BY <1>5, DescFacts
    <3>2. sev_hashes_table_gpa(ovmf) = {m.hashes_gpa}
      BY <3>1 DEF IsRead
    <3>3. BootHashes(m) = {h}
      BY <2>3 DEF BootHashes
    <3> HIDE DEF h
    <3>4. (CHOOSE x \in {h} : TRUE) = h /\ (CHOOSE x \in {m.hashes_gpa} : TRUE) = m.hashes_gpa
      OBVIOUS
    <3>5. up = update_page(g, "Normal", d.gpa, page, PAGE)
      <4>1. {h} # {} /\ {m.hashes_gpa} # {}
        OBVIOUS
      <4> QED
        BY <2>1, <3>1, <3>2, <3>3, <3>4, <4>1, Zenon DEF snp_update_kernel_hashes
    <3>6. /\ HashPage(m, d) = <<PageInfo("Normal", d.gpa, page)>>
          /\ page \in Seq(Nat) /\ Len(page) = PAGE
      BY <1>5, <2>3, HashPageIs DEF h
    <3> HIDE DEF page
    <3>7. up = Gctx(ld \o <<PageInfo("Normal", d.gpa, page)>>)
      BY <1>1, <3>5, <3>6, UpdateNormal
    <3>8. Region(m, d) = HashPage(m, d)
      BY <1>5, <2>3 DEF Region
    <3> QED
      BY <1>5, <3>6, <3>7, <3>8 DEF up
  <2> QED
    BY <2>2, <2>3
<1> QED
  BY <1>1, <1>2, <1>3, <1>4, <1>5 DEF SectionTypes

-----------------------------------------------------------------------------
(* Sections in the order in which they are loaded. *)

(* The sections of some types among the first n. *)
ChosenStep(sections, types, chosen, n) ==
  IF n = 0 THEN <<>>
  ELSE IF sections[n].section_type \in types THEN Append(chosen[n - 1], sections[n])
  ELSE chosen[n - 1]

DescsOf(sections) == {sections[i] : i \in 1 .. Len(sections)}

IsChosen(sections, types, f) ==
  /\ f[0] = <<>>
  /\ \A n \in 0 .. Len(sections) : f[n] \in Seq(DescsOf(sections))
  /\ \A n \in 1 .. Len(sections) :
       f[n] = IF sections[n].section_type \in types THEN Append(f[n - 1], sections[n]) ELSE f[n - 1]
  /\ f[Len(sections)] = OfTypes(sections, types)

(* The step of OfTypes. *)
LEMMA ChosenSteps ==
  ASSUME NEW sections, NEW types, NEW chosen, NEW n \in Nat
  PROVE  ChosenStep(sections, types, chosen, n) =
           IF n = 0 THEN <<>>
           ELSE IF sections[n].section_type \in types THEN Append(chosen[n - 1], sections[n])
           ELSE chosen[n - 1]
BY DEF ChosenStep

(* OfTypes, as a function of the number of sections seen. *)
LEMMA ChosenExists ==
  ASSUME NEW sections, Len(sections) \in Nat, NEW types
  PROVE  \E f : IsChosen(sections, types, f)
<1> DEFINE N == Len(sections)
           D == DescsOf(sections)
           Eq(f, k) == f = [n \in 0 .. k |-> ChosenStep(sections, types, f, n)]
           S == {k \in Nat : \E f : Eq(f, k)}
<1>1. 0 \in S
  <2> DEFINE h == [n \in 0 .. 0 |-> <<>>]
  <2>1. \A n \in 0 .. 0 : h[n] = ChosenStep(sections, types, h, n)
    BY ChosenSteps
  <2>2. h = [n \in 0 .. 0 |-> h[n]]
    OBVIOUS
  <2> HIDE DEF h
  <2>3. Eq(h, 0)
    BY <2>1, <2>2
  <2> QED
    BY <2>3
<1>2. ASSUME NEW k \in S, k \in Nat, k < N PROVE k + 1 \in S
  <2>1. PICK g : Eq(g, k)
    BY <1>2
  <2> DEFINE h == [n \in 0 .. k + 1 |-> IF n <= k THEN g[n] ELSE ChosenStep(sections, types, g, n)]
  <2>2. \A n \in 0 .. k : g[n] = ChosenStep(sections, types, g, n)
    BY <2>1
  <2>3. \A n \in 0 .. k + 1 : h[n] = ChosenStep(sections, types, g, n)
    BY <2>2
  <2>4. \A n \in 0 .. k : h[n] = g[n]
    BY <1>2
  <2>5. h = [n \in 0 .. k + 1 |-> h[n]]
    OBVIOUS
  <2> HIDE DEF h
  <2>6. ASSUME NEW n \in 0 .. k + 1 PROVE h[n] = ChosenStep(sections, types, h, n)
    <3>1. CASE n = 0
      BY <2>3, <3>1, ChosenSteps
    <3>2. CASE n # 0
      <4>1. n - 1 \in 0 .. k /\ n \in Nat
        BY <1>2, <3>2
      <4>2. h[n - 1] = g[n - 1]
        BY <2>4, <4>1
      <4>3. ChosenStep(sections, types, h, n) = ChosenStep(sections, types, g, n)
        BY <4>2, Zenon DEF ChosenStep
      <4> QED
        BY <2>3, <4>3
    <3> QED
      BY <3>1, <3>2
  <2>7. Eq(h, k + 1)
    BY <2>5, <2>6
  <2> QED
    BY <1>2, <2>7
<1> HIDE DEF S
<1>3. 0 .. N \subseteq S
  BY <1>1, <1>2, InductionTo
<1>4. \E f : f = [n \in 0 .. N |-> ChosenStep(sections, types, f, n)]
  BY <1>3 DEF S
<1> DEFINE f == CHOOSE c : c = [n \in 0 .. N |-> ChosenStep(sections, types, c, n)]
<1>5. f[N] = OfTypes(sections, types)
  BY DEF OfTypes, ChosenStep
<1>6. f = [n \in 0 .. N |-> ChosenStep(sections, types, f, n)]
  BY <1>4
<1> HIDE DEF f
<1>7. \A n \in 0 .. N : f[n] = ChosenStep(sections, types, f, n)
  BY <1>6
<1>8. f[0] = <<>>
  BY <1>7, ChosenSteps
<1>9. ASSUME NEW n \in 1 .. N
      PROVE  f[n] = IF sections[n].section_type \in types THEN Append(f[n - 1], sections[n]) ELSE f[n - 1]
  <2>1. n \in 0 .. N /\ n \in Nat /\ n # 0
    OBVIOUS
  <2>2. ChosenStep(sections, types, f, n) =
          IF n = 0 THEN <<>>
          ELSE IF sections[n].section_type \in types THEN Append(f[n - 1], sections[n])
          ELSE f[n - 1]
    BY <2>1, ChosenSteps
  <2> QED
    BY <1>7, <2>1, <2>2, Zenon
<1> DEFINE K == {k \in Nat : k <= N => f[k] \in Seq(D)}
<1>10. 0 \in K
  <2> HIDE DEF D
  <2>1. <<>> \in Seq(D)
    OBVIOUS
  <2> QED
    BY <1>8, <2>1
<1>11. ASSUME NEW k \in K, k \in Nat, k < N PROVE k + 1 \in K
  <2>1. k + 1 \in 1 .. N /\ (k + 1) - 1 = k
    BY <1>11
  <2>2. sections[k + 1] \in D
    BY <2>1 DEF DescsOf
  <2> HIDE DEF D
  <2>3. f[k] \in Seq(D)
    BY <1>11
  <2>4. Append(f[k], sections[k + 1]) \in Seq(D)
    BY <2>2, <2>3, AppendProperties
  <2>5. f[k + 1] = Append(f[k], sections[k + 1]) \/ f[k + 1] = f[k]
    BY <1>9, <2>1
  <2>6. f[k + 1] \in Seq(D)
    BY <2>3, <2>4, <2>5
  <2> QED
    BY <1>11, <2>6
<1> HIDE DEF K
<1>12. 0 .. N \subseteq K
  BY <1>10, <1>11, InductionTo
<1>13. \A n \in 0 .. N : f[n] \in Seq(D)
  BY <1>12 DEF K
<1>14. IsChosen(sections, types, f)
  BY <1>5, <1>8, <1>9, <1>13 DEF IsChosen
<1> QED
  BY <1>14

(* The pages of some sections. *)
Pages(m, descs) == FlattenSeq([i \in 1 .. Len(descs) |-> Region(m, descs[i])])

(* The type of the pages of some sections. *)
LEMMA RegionsOf ==
  ASSUME NEW m, IsMachine(m), NEW descs \in Seq(DescsOf(m.sections))
  PROVE  /\ [i \in 1 .. Len(descs) |-> Region(m, descs[i])] \in Seq(Seq(PageInfos))
         /\ Pages(m, descs) \in Seq(PageInfos)
<1>1. Len(descs) \in Nat /\ \A i \in 1 .. Len(descs) : descs[i] \in DescsOf(m.sections)
  BY LenProperties, ElementOfSeq, Zenon
<1>2. \A i \in 1 .. Len(descs) : Region(m, descs[i]) \in Seq(PageInfos)
  <2>1. ASSUME NEW i \in 1 .. Len(descs) PROVE HasDesc(m, descs[i])
    BY <1>1 DEF HasDesc, DescsOf
  <2> QED
    BY <2>1, RegionIn
<1> DEFINE R == [i \in 1 .. Len(descs) |-> Region(m, descs[i])]
<1>3. R \in Seq(Seq(PageInfos))
  BY <1>1, <1>2
<1> HIDE DEF R
<1>4. FlattenSeq(R) \in Seq(PageInfos)
  BY <1>3, FlattenInSeq
<1> QED
  BY <1>3, <1>4 DEF R, Pages

(* The pages of one section more. *)
LEMMA PagesAppend ==
  ASSUME NEW m, IsMachine(m), NEW descs \in Seq(DescsOf(m.sections)), NEW d \in DescsOf(m.sections)
  PROVE  Pages(m, Append(descs, d)) = Pages(m, descs) \o Region(m, d)
<1> DEFINE R == [i \in 1 .. Len(descs) |-> Region(m, descs[i])]
           e == Append(descs, d)
           T == [i \in 1 .. Len(e) |-> Region(m, e[i])]
<1>1. R \in Seq(Seq(PageInfos))
  BY RegionsOf
<1>2. Region(m, d) \in Seq(PageInfos)
  BY RegionIn DEF HasDesc, DescsOf
<1>3. /\ Len(e) = Len(descs) + 1 /\ Len(descs) \in Nat /\ e[Len(descs) + 1] = d
      /\ \A i \in 1 .. Len(descs) : e[i] = descs[i]
  BY AppendProperties
<1> HIDE DEF e
<1>4. T = Append(R, Region(m, d))
  <2>1. Len(R) = Len(descs)
    BY <1>3
  <2>2. Append(R, Region(m, d)) = [i \in 1 .. Len(descs) + 1 |-> IF i = Len(descs) + 1 THEN Region(m, d) ELSE R[i]]
    BY <1>3, <2>1
  <2>3. ASSUME NEW i \in 1 .. Len(descs) + 1
        PROVE  Region(m, e[i]) = IF i = Len(descs) + 1 THEN Region(m, d) ELSE R[i]
    BY <1>3
  <2> QED
    BY <1>3, <2>2, <2>3
<1> HIDE DEF R, T
<1>5. FlattenSeq(Append(R, Region(m, d))) = FlattenSeq(R) \o Region(m, d)
  BY <1>1, <1>2, FlattenAppend
<1> QED
  BY <1>4, <1>5 DEF Pages, R, T, e

(* What is loaded after the image, and in which order. *)
Late(m) == IF m.vmm = "EC2" THEN {"CPUID"} ELSE {}

Descs(m) == OfTypes(m.sections, SectionTypes \ Late(m)) \o OfTypes(m.sections, Late(m))

(* The first pass, and the second, with g for what is measured before. *)
FirstPass(g, d, ovmf, hashes, vmm) ==
  IF g.ok THEN snp_update_section(g, d, ovmf, hashes, vmm) ELSE g

SecondPass(g, d, vmm) ==
  IF g.ok /\ vmm = "EC2" /\ d.section_type = "CPUID"
    THEN update_page(g, "Cpuid", d.gpa, <<>>, 0) ELSE g

(* A context that was not failed has its digest. *)
LEMMA GctxIs ==
  ASSUME NEW ld
  PROVE  Gctx(ld).ok = TRUE /\ Gctx(ld).ld = ld
BY DEF Gctx

(* A section of the machine adds its pages in the pass in which the VMM     *)
(* loads them, and nothing in the other.                                    *)
LEMMA SectionPasses ==
  ASSUME NEW m, IsMachine(m), NEW d \in DescsOf(m.sections), NEW ovmf, NEW file,
         IsRead(ovmf, file, m), NEW ld \in Seq(PageInfos), NEW done \in Seq(DescsOf(m.sections)),
         NEW g, g = Gctx(ld \o Pages(m, done))
  PROVE  /\ FirstPass(g, d, ovmf, BootHashes(m), m.vmm)
              = Gctx(ld \o Pages(m, IF d.section_type \in SectionTypes \ Late(m)
                                      THEN Append(done, d) ELSE done))
         /\ SecondPass(g, d, m.vmm)
              = Gctx(ld \o Pages(m, IF d.section_type \in Late(m) THEN Append(done, d) ELSE done))
<1> DEFINE p == Pages(m, done)
           r == Region(m, d)
<1>1. HasDesc(m, d)
  BY DEF HasDesc, DescsOf
<1>2. d.section_type \in SectionTypes /\ d.gpa \in Nat
  BY <1>1, DescFacts
<1>3. p \in Seq(PageInfos) /\ r \in Seq(PageInfos)
  BY <1>1, RegionsOf, RegionIn
<1>4. Pages(m, Append(done, d)) = p \o r
  BY PagesAppend
<1> HIDE DEF p, r
<1>5. (ld \o p) \o r = ld \o (p \o r) /\ ld \o p \in Seq(PageInfos)
  BY <1>3, ConcatAssoc, ConcatProperties
<1>6. g = Gctx(ld \o p) /\ g.ok = TRUE
  BY GctxIs DEF p
<1>7. snp_update_section(g, d, ovmf, BootHashes(m), m.vmm)
        = IF d.section_type = "CPUID" /\ m.vmm = "EC2" THEN g ELSE Gctx((ld \o p) \o r)
  BY <1>1, <1>5, <1>6, SectionMeasured DEF r
<1>8. m.vmm = "EC2" /\ d.section_type = "CPUID" =>
        update_page(g, "Cpuid", d.gpa, <<>>, 0) = Gctx((ld \o p) \o r)
  <2>1. SUFFICES ASSUME d.section_type = "CPUID"
                 PROVE  update_page(g, "Cpuid", d.gpa, <<>>, 0) = Gctx((ld \o p) \o r)
    OBVIOUS
  <2>2. r = <<PageInfo("Cpuid", d.gpa, ZEROS)>>
    BY <2>1 DEF Region, r
  <2> QED
    BY <1>2, <1>5, <1>6, <2>2, UpdateOther
<1>9. /\ d.section_type \in SectionTypes \ Late(m) <=> ~ (d.section_type = "CPUID" /\ m.vmm = "EC2")
      /\ d.section_type \in Late(m) <=> m.vmm = "EC2" /\ d.section_type = "CPUID"
  BY <1>2 DEF Late
<1>10. Pages(m, done) = p
  BY DEF p
<1> QED
  BY <1>4, <1>5, <1>6, <1>7, <1>8, <1>9, <1>10, Zenon DEF FirstPass, SecondPass

(* snp_update_metadata_pages measures the sections as they are loaded. *)
LEMMA SectionsMeasured ==
  ASSUME NEW m, IsMachine(m), m.kernel # None => HasHashes(m), NEW ovmf, NEW file,
         IsRead(ovmf, file, m), NEW ld \in Seq(PageInfos)
  PROVE  snp_update_metadata_pages(Gctx(ld), ovmf, BootHashes(m), m.vmm)
           = Gctx(ld \o Pages(m, Descs(m)))
<1> DEFINE items == ovmf.metadata_items
           N == Len(items)
           B == BootHashes(m)
           D == DescsOf(m.sections)
<1>1. items = m.sections /\ N \in Nat /\ \A n \in 1 .. N : items[n] \in D
  <2>1. items = m.sections
    BY DEF IsRead
  <2>2. Len(m.sections) \in Nat
    BY LenProperties, Zenon DEF IsMachine
  <2> QED
    BY <2>1, <2>2 DEF DescsOf
<1> HIDE DEF D
<1>2. PICK c : IsChosen(m.sections, SectionTypes \ Late(m), c)
  BY <1>1, ChosenExists
<1>3. PICK e : IsChosen(m.sections, Late(m), e)
  BY <1>1, ChosenExists
<1> DEFINE first == CHOOSE f : f = [n \in 0 .. N |-> IF n = 0 THEN Gctx(ld)
                                      ELSE FirstPass(f[n - 1], items[n], ovmf, B, m.vmm)]
           second == CHOOSE f : f = [n \in 0 .. N |-> IF n = 0 THEN first[N]
                                       ELSE SecondPass(f[n - 1], items[n], m.vmm)]
           v == [n \in 0 .. N |-> Gctx(ld \o Pages(m, c[n]))]
           w == [n \in 0 .. N |-> Gctx(ld \o Pages(m, c[N] \o e[n]))]
<1>4. snp_update_metadata_pages(Gctx(ld), ovmf, B, m.vmm) =
        IF B # {} /\ ~has_metadata_section(ovmf, "SnpKernelHashes") THEN Failed ELSE second[N]
  BY DEF snp_update_metadata_pages, FirstPass, SecondPass
<1>5. ~ (B # {} /\ ~has_metadata_section(ovmf, "SnpKernelHashes"))
  <2>1. has_metadata_section(ovmf, "SnpKernelHashes") <=> HasHashes(m)
    BY <1>1, Zenon DEF has_metadata_section, HasHashes
  <2>2. B # {} => m.kernel # None
    BY DEF BootHashes
  <2> QED
    BY <2>1, <2>2
<1> HIDE DEF items, N, B
<1>6. /\ c[0] = <<>> /\ e[0] = <<>>
      /\ \A n \in 0 .. N : c[n] \in Seq(D) /\ e[n] \in Seq(D)
      /\ \A n \in 1 .. N :
           /\ c[n] = IF items[n].section_type \in SectionTypes \ Late(m)
                       THEN Append(c[n - 1], items[n]) ELSE c[n - 1]
           /\ e[n] = IF items[n].section_type \in Late(m) THEN Append(e[n - 1], items[n]) ELSE e[n - 1]
      /\ c[N] \o e[N] = Descs(m)
  BY <1>1, <1>2, <1>3, Zenon DEF IsChosen, D, N, Descs
<1>7. ASSUME NEW n \in 1 .. N PROVE n \in 0 .. N /\ n - 1 \in 0 .. N /\ N \in 0 .. N
  BY <1>1
<1>8. v[0] = Gctx(ld)
  <2>1. Pages(m, <<>>) = <<>>
    <3>1. [i \in 1 .. Len(<<>>) |-> Region(m, <<>>[i])] = <<>>
      OBVIOUS
    <3> QED
      BY <3>1, FlattenNil DEF Pages
  <2>2. ld \o <<>> = ld
    BY ConcatEmptySeq
  <2>3. v[0] = Gctx(ld \o Pages(m, c[0]))
    BY <1>1
  <2> QED
    BY <1>6, <2>1, <2>2, <2>3
<1>9. ASSUME NEW n \in 1 .. N PROVE v[n] = FirstPass(v[n - 1], items[n], ovmf, B, m.vmm)
  <2> DEFINE done == c[n - 1]
             d == items[n]
             g == v[n - 1]
  <2>1. v[n] = Gctx(ld \o Pages(m, c[n])) /\ g = Gctx(ld \o Pages(m, done))
    BY <1>7
  <2>2. d \in D /\ done \in Seq(D)
    BY <1>1, <1>6, <1>7
  <2>3. c[n] = IF d.section_type \in SectionTypes \ Late(m) THEN Append(done, d) ELSE done
    BY <1>6
  <2> HIDE DEF v, d, done, g
  <2>4. FirstPass(g, d, ovmf, BootHashes(m), m.vmm)
              = Gctx(ld \o Pages(m, IF d.section_type \in SectionTypes \ Late(m)
                                      THEN Append(done, d) ELSE done))
    BY <2>1, <2>2, SectionPasses DEF D
  <2> QED
    BY <2>1, <2>3, <2>4 DEF g, d, B
<1>10. \A n \in 0 .. N : first[n] = v[n]
  <2>1. v = [n \in 0 .. N |-> IF n = 0 THEN Gctx(ld) ELSE FirstPass(v[n - 1], items[n], ovmf, B, m.vmm)]
    <3>1. v = [n \in 0 .. N |-> v[n]]
      OBVIOUS
    <3>2. ASSUME NEW n \in 0 .. N
          PROVE  v[n] = IF n = 0 THEN Gctx(ld) ELSE FirstPass(v[n - 1], items[n], ovmf, B, m.vmm)
      <4> HIDE DEF v
      <4>1. n = 0 \/ n \in 1 .. N
        BY <1>1
      <4> QED
        BY <1>1, <1>8, <1>9, <4>1
    <3> HIDE DEF v
    <3> QED
      BY <3>1, <3>2, Zenon
  <2>2. first = [n \in 0 .. N |-> IF n = 0 THEN Gctx(ld) ELSE FirstPass(first[n - 1], items[n], ovmf, B, m.vmm)]
    <3> HIDE DEF v
    <3> QED
      BY <2>1
  <2> HIDE DEF first, v
  <2>3. Follows(N, first, v)
    <3>1. 0 \in 0 .. N
      BY <1>1
    <3>2. first[0] = Gctx(ld)
      BY <2>2, <3>1
    <3>3. ASSUME NEW n \in 1 .. N, first[n - 1] = v[n - 1] PROVE first[n] = v[n]
      <4>1. n \in 0 .. N /\ n # 0
        BY <1>1
      <4>2. first[n] = FirstPass(first[n - 1], items[n], ovmf, B, m.vmm)
        BY <2>2, <4>1
      <4> QED
        BY <1>9, <3>3, <4>2
    <3> QED
      BY <1>8, <3>2, <3>3 DEF Follows
  <2> QED
    BY <1>1, <2>3, FollowsIs
<1> HIDE DEF first
<1>11. w[0] = first[N]
  <2>1. w[0] = Gctx(ld \o Pages(m, c[N] \o e[0])) /\ v[N] = Gctx(ld \o Pages(m, c[N]))
    BY <1>1
  <2>2. c[N] \o <<>> = c[N]
    BY <1>1, <1>6, ConcatEmptySeq
  <2>3. first[N] = v[N]
    BY <1>1, <1>10
  <2> HIDE DEF v, w
  <2> QED
    BY <1>6, <2>1, <2>2, <2>3
<1>12. ASSUME NEW n \in 1 .. N PROVE w[n] = SecondPass(w[n - 1], items[n], m.vmm)
  <2> DEFINE done == c[N] \o e[n - 1]
             d == items[n]
             g == w[n - 1]
  <2>1. w[n] = Gctx(ld \o Pages(m, c[N] \o e[n])) /\ g = Gctx(ld \o Pages(m, done))
    BY <1>7
  <2>2. d \in D /\ c[N] \in Seq(D) /\ e[n - 1] \in Seq(D)
    BY <1>1, <1>6, <1>7
  <2>3. done \in Seq(D)
    BY <2>2, ConcatProperties
  <2>4. c[N] \o Append(e[n - 1], d) = Append(done, d)
    <3>1. ASSUME NEW x \in Seq(D), NEW y \in Seq(D), NEW z \in D
          PROVE  x \o Append(y, z) = Append(x \o y, z)
      OBVIOUS
    <3> QED
      BY <2>2, <3>1
  <2>5. e[n] = IF d.section_type \in Late(m) THEN Append(e[n - 1], d) ELSE e[n - 1]
    BY <1>6
  <2>6. c[N] \o e[n] = IF d.section_type \in Late(m) THEN Append(done, d) ELSE done
    <3> HIDE DEF d, w
    <3> QED
      BY <2>4, <2>5
  <2> HIDE DEF w, d, done, g
  <2>7. SecondPass(g, d, m.vmm)
          = Gctx(ld \o Pages(m, IF d.section_type \in Late(m) THEN Append(done, d) ELSE done))
    BY <2>1, <2>2, <2>3, SectionPasses DEF D
  <2> QED
    BY <2>1, <2>6, <2>7 DEF g, d
<1>13. \A n \in 0 .. N : second[n] = w[n]
  <2>1. w = [n \in 0 .. N |-> IF n = 0 THEN first[N] ELSE SecondPass(w[n - 1], items[n], m.vmm)]
    <3>1. w = [n \in 0 .. N |-> w[n]]
      OBVIOUS
    <3>2. ASSUME NEW n \in 0 .. N
          PROVE  w[n] = IF n = 0 THEN first[N] ELSE SecondPass(w[n - 1], items[n], m.vmm)
      <4> HIDE DEF w
      <4>1. n = 0 \/ n \in 1 .. N
        BY <1>1
      <4> QED
        BY <1>1, <1>11, <1>12, <4>1
    <3> HIDE DEF w
    <3> QED
      BY <3>1, <3>2, Zenon
  <2>2. second = [n \in 0 .. N |-> IF n = 0 THEN first[N] ELSE SecondPass(second[n - 1], items[n], m.vmm)]
    <3> HIDE DEF w
    <3> QED
      BY <2>1
  <2> HIDE DEF second, w
  <2>3. Follows(N, second, w)
    <3>1. 0 \in 0 .. N
      BY <1>1
    <3>2. second[0] = first[N]
      BY <2>2, <3>1
    <3>3. ASSUME NEW n \in 1 .. N, second[n - 1] = w[n - 1] PROVE second[n] = w[n]
      <4>1. n \in 0 .. N /\ n # 0
        BY <1>1
      <4>2. second[n] = SecondPass(second[n - 1], items[n], m.vmm)
        BY <2>2, <4>1
      <4> QED
        BY <1>12, <3>3, <4>2
    <3> QED
      BY <1>11, <3>2, <3>3 DEF Follows
  <2> QED
    BY <1>1, <2>3, FollowsIs
<1>14. w[N] = Gctx(ld \o Pages(m, Descs(m)))
  <2>1. w[N] = Gctx(ld \o Pages(m, c[N] \o e[N]))
    BY <1>1
  <2> HIDE DEF w
  <2> QED
    BY <1>6, <2>1
<1>15. second[N] = w[N]
  BY <1>1, <1>13
<1> HIDE DEF second, w
<1> QED
  BY <1>4, <1>5, <1>14, <1>15 DEF B

-----------------------------------------------------------------------------
(* The image and the save areas. *)

ImagePages(m) ==
  [i \in 1 .. Len(Image[m]) \div PAGE |->
     PageInfo("Normal", FOUR_GB - Len(Image[m]) + (i - 1) * PAGE, PageOf(Image[m], i))]

(* The i-th page is within the data. *)
LEMMA PageIn ==
  ASSUME NEW L \in Nat, L % PAGE = 0, NEW i \in 1 .. L \div PAGE
  PROVE  /\ PAGE \in Nat \ {0} /\ (i - 1) * PAGE \in Nat /\ i * PAGE = (i - 1) * PAGE + PAGE
         /\ i * PAGE <= L
<1> DEFINE q == L \div PAGE
<1>1. PAGE \in Nat \ {0}
  BY PageAssumption
<1>2. L = PAGE * q /\ q \in Nat
  BY <1>1, DivMod
<1> HIDE DEF q
<1>3. i \in 1 .. q
  BY DEF q
<1>4. PAGE * (q - i) \in Nat
  BY <1>1, <1>2, <1>3
<1>5. PAGE * (q - i) = PAGE * q - PAGE * i
  BY <1>1, <1>2, <1>3
<1> QED
  BY <1>1, <1>2, <1>3, <1>4, <1>5

(* It is a page of the data, from its place on. *)
LEMMA PageOfIs ==
  ASSUME NEW data \in Seq(Nat), Len(data) % PAGE = 0, NEW i \in 1 .. Len(data) \div PAGE
  PROVE  /\ PageOf(data, i) \in Seq(Nat) /\ Len(PageOf(data, i)) = PAGE
         /\ PieceAt(data, (i - 1) * PAGE, PageOf(data, i))
<1> DEFINE from == (i - 1) * PAGE
           to == i * PAGE
<1>1. /\ PAGE \in Nat \ {0} /\ from \in Nat /\ to = from + PAGE /\ to <= Len(data)
      /\ Len(data) \in Nat
  BY PageIn
<1>2. PageOf(data, i) = SubSeq(data, from + 1, to)
  BY DEF PageOf, Slice
<1> HIDE DEF from, to
<1>3. IsCut(Nat, data, from, to, PageOf(data, i))
  BY <1>1, <1>2 DEF IsCut
<1>4. to - from = PAGE
  BY <1>1
<1> QED
  BY <1>3, <1>4, PieceAtIs DEF from

(* The type of the image's pages. *)
LEMMA ImagePagesIn ==
  ASSUME NEW m \in DOMAIN Image
  PROVE  ImagePages(m) \in Seq(PageInfos)
<1> DEFINE L == Len(Image[m])
           q == L \div PAGE
<1>1. Image[m] \in Seq(Nat) /\ L \in Nat /\ L % PAGE = 0 /\ PAGE \in Nat \ {0} /\ FOUR_GB \in Nat
  BY MachineIsRead, PageAssumption
<1>2. q \in Nat
  BY <1>1, DivMod
<1>3. ASSUME NEW i \in 1 .. q
      PROVE  PageInfo("Normal", FOUR_GB - L + (i - 1) * PAGE, PageOf(Image[m], i)) \in PageInfos
  <2>1. PageOf(Image[m], i) \in Seq(Nat) /\ (i - 1) * PAGE \in Nat
    BY <1>1, PageOfIs, PageIn
  <2>2. FOUR_GB - L + (i - 1) * PAGE \in Int
    BY <1>1, <2>1
  <2> HIDE DEF L
  <2> QED
    BY <2>1, <2>2 DEF PageInfo, PageInfos
<1> HIDE DEF PageInfos, q
<1> QED
  BY <1>2, <1>3 DEF ImagePages, q

(* What a VMM loads: the image, then the sections in its order. *)
LEMMA RegionsAre ==
  ASSUME NEW m \in DOMAIN Image
  PROVE  /\ Regions(m) = <<ImagePages(m)>> \o [i \in 1 .. Len(Descs(m)) |-> Region(m, Descs(m)[i])]
         /\ Descs(m) \in Seq(DescsOf(m.sections))
         /\ Regions(m) \in Seq(Seq(PageInfos))
         /\ FlattenSeq(Regions(m)) = ImagePages(m) \o Pages(m, Descs(m))
<1> DEFINE ds == Descs(m)
           R == [i \in 1 .. Len(ds) |-> Region(m, ds[i])]
           x == ImagePages(m)
           D == DescsOf(m.sections)
<1>1. Regions(m) = <<x>> \o R
  BY Zenon DEF Regions, Descs, Late, ImagePages
<1>2. IsMachine(m) /\ Len(m.sections) \in Nat
  BY MachineIsRead, LenProperties, Zenon DEF Sections
<1>3. \A types : OfTypes(m.sections, types) \in Seq(D)
  <2>1. ASSUME NEW types PROVE OfTypes(m.sections, types) \in Seq(D)
    <3>1. PICK f : IsChosen(m.sections, types, f)
      BY <1>2, ChosenExists
    <3>2. Len(m.sections) \in 0 .. Len(m.sections)
      BY <1>2
    <3> HIDE DEF D
    <3> QED
      BY <3>1, <3>2, Zenon DEF IsChosen, D
  <2> QED
    BY <2>1
<1> HIDE DEF D
<1>4. ds \in Seq(D)
  BY <1>3, ConcatProperties DEF Descs
<1> HIDE DEF ds
<1>5. R \in Seq(Seq(PageInfos)) /\ Pages(m, ds) = FlattenSeq(R)
  BY <1>2, <1>4, RegionsOf DEF D, Pages
<1>6. x \in Seq(PageInfos)
  BY ImagePagesIn
<1> HIDE DEF R, x
<1>7. <<x>> \o R \in Seq(Seq(PageInfos))
  <2>1. ASSUME NEW S, NEW y \in S, NEW Q \in Seq(S) PROVE <<y>> \o Q \in Seq(S)
    OBVIOUS
  <2> QED
    BY <1>5, <1>6, <2>1
<1>8. FlattenSeq(<<x>> \o R) = x \o FlattenSeq(R)
  BY <1>5, <1>6, FlattenCons
<1> QED
  BY <1>1, <1>4, <1>5, <1>7, <1>8 DEF ds, R, x, D

(* No region is empty. *)
LEMMA RegionHasPages ==
  ASSUME NEW m, IsMachine(m), NEW d, HasDesc(m, d)
  PROVE  Len(Region(m, d)) \in Nat \ {0}
<1>1. /\ d.gpa \in Nat /\ d.size \in Nat /\ d.section_type \in SectionTypes
      /\ d.size # 0 /\ d.size % PAGE = 0
  BY DescFacts
<1>2. Len(ZeroPages(d)) \in Nat \ {0}
  <2> DEFINE k == d.size \div PAGE
             s == d.size
  <2>1. s = PAGE * k + (s % PAGE) /\ k \in Nat
    BY <1>1, PageAssumption, DivMod
  <2>2. s % PAGE = 0 /\ s # 0 /\ PAGE \in Nat
    BY <1>1, PageAssumption
  <2>3. ZeroPages(d) = [i \in 1 .. k |-> PageInfo("Zero", d.gpa + (i - 1) * PAGE, ZEROS)]
    BY DEF ZeroPages
  <2> HIDE DEF k, s
  <2>4. k # 0
    <3>1. k = 0 => PAGE * k = 0
      BY <2>2
    <3>2. k = 0 => s = 0
      BY <2>1, <2>2, <3>1
    <3> QED
      BY <2>2, <3>2
  <2>5. Len(ZeroPages(d)) = k
    BY <2>1, <2>3
  <2> QED
    BY <2>1, <2>4, <2>5
<1>3. CASE d.section_type = "SnpSecMemory"
  BY <1>2, <1>3 DEF Region
<1>4. CASE d.section_type = "SnpSecrets"
  BY <1>4 DEF Region
<1>5. CASE d.section_type = "CPUID"
  BY <1>5 DEF Region
<1>6. CASE d.section_type = "SnpKernelHashes"
  <2>1. Len(HashPage(m, d)) = 1
    BY DEF HashPage
  <2>2. Region(m, d) = IF m.kernel = None THEN ZeroPages(d) ELSE HashPage(m, d)
    BY <1>6 DEF Region
  <2> QED
    BY <1>2, <2>1, <2>2
<1> QED
  BY <1>1, <1>3, <1>4, <1>5, <1>6 DEF SectionTypes

(* The image has as many pages as its length says, and at least one. *)
LEMMA ImageHasPages ==
  ASSUME NEW m \in DOMAIN Image
  PROVE  /\ Len(ImagePages(m)) = Len(Image[m]) \div PAGE
         /\ Len(ImagePages(m)) \in Nat \ {0}
         /\ Len(Image[m]) = PAGE * Len(ImagePages(m))
<1> DEFINE s == Len(Image[m])
           k == s \div PAGE
<1>1. s \in Nat \ {0} /\ s % PAGE = 0 /\ PAGE \in Nat
  BY MachineIsRead, PageAssumption
<1>2. s = PAGE * k + (s % PAGE) /\ k \in Nat
  BY <1>1, PageAssumption, DivMod
<1>3. ImagePages(m) = [i \in 1 .. k |-> PageInfo("Normal", FOUR_GB - s + (i - 1) * PAGE, PageOf(Image[m], i))]
  BY DEF ImagePages
<1> HIDE DEF k
<1>4. Len(ImagePages(m)) = k
  BY <1>2, <1>3
<1> HIDE DEF s
<1>5. k # 0
  <2>1. k = 0 => PAGE * k = 0
    BY <1>1
  <2>2. k = 0 => s = 0
    BY <1>1, <1>2, <2>1
  <2> QED
    BY <1>1, <2>2
<1>6. s = PAGE * k
  <2> DEFINE pk == PAGE * k
  <2>1. pk \in Nat
    BY <1>1, <1>2
  <2>2. s = pk + 0
    BY <1>1, <1>2
  <2> HIDE DEF pk
  <2>3. s = pk
    BY <2>1, <2>2
  <2> QED
    BY <2>3 DEF pk
<1> QED
  BY <1>2, <1>4, <1>5, <1>6 DEF s, k

(* No region is empty. *)
LEMMA RegionsHavePages ==
  ASSUME NEW m \in DOMAIN Image, NEW r \in 1 .. Len(Regions(m))
  PROVE  Len(Regions(m)[r]) # 0
<1> DEFINE D == [i \in 1 .. Len(Descs(m)) |-> Region(m, Descs(m)[i])]
           descs == Descs(m)
<1>1. /\ Regions(m) = <<ImagePages(m)>> \o D /\ descs \in Seq(DescsOf(m.sections)) /\ IsMachine(m)
  BY RegionsAre, MachineIsRead
<1> HIDE DEF descs
<1>2. D \in Seq(Seq(PageInfos)) /\ Len(D) = Len(descs) /\ Len(descs) \in Nat
  <2>1. Len(descs) \in Nat
    BY <1>1
  <2>2. D \in Seq(Seq(PageInfos))
    BY <1>1, RegionsOf DEF descs
  <2>3. Len(D) = Len(descs)
    BY <2>1 DEF descs
  <2> QED
    BY <2>1, <2>2, <2>3
<1>3. ImagePages(m) \in Seq(PageInfos) /\ Len(ImagePages(m)) # 0
  BY ImagePagesIn, ImageHasPages
<1>4. ASSUME NEW i \in 1 .. Len(descs) PROVE Len(D[i]) # 0
  <2>1. D[i] = Region(m, descs[i])
    BY DEF descs
  <2>2. descs[i] \in DescsOf(m.sections)
    BY <1>1
  <2>3. HasDesc(m, descs[i])
    BY <2>2 DEF HasDesc, DescsOf
  <2> HIDE DEF D
  <2>4. Len(Region(m, descs[i])) # 0
    BY <1>1, <2>3, RegionHasPages
  <2> QED
    BY <2>1, <2>4
<1> HIDE DEF D
<1> DEFINE one == <<ImagePages(m)>>
<1>5. one \in Seq(Seq(PageInfos)) /\ Len(one) = 1 /\ one[1] = ImagePages(m)
  BY <1>3
<1> HIDE DEF one
<1>6. Parts(Seq(PageInfos), Regions(m), one, D)
  BY <1>1, <1>2, <1>5, PartsOf DEF one
<1>7. CASE r = 1
  <2>1. Regions(m)[1] = ImagePages(m)
    BY <1>5, <1>6 DEF Parts
  <2> QED
    BY <1>3, <1>7, <2>1
<1>8. CASE r # 1
  <2>1. r - 1 \in 1 .. Len(D) /\ r = 1 + (r - 1)
    BY <1>2, <1>5, <1>6, <1>8 DEF Parts
  <2>2. Regions(m)[r] = D[r - 1]
    BY <1>5, <1>6, <2>1 DEF Parts
  <2> QED
    BY <1>2, <1>4, <2>1, <2>2
<1> QED
  BY <1>7, <1>8

(* x is a sequence of twelve numbers. *)
Twelve(x, a, b, c, d, e, f, g, h, i, j, k, l) ==
  /\ x \in Seq(Nat) /\ Len(x) = 12
  /\ x[1] = a /\ x[2] = b /\ x[3] = c /\ x[4] = d /\ x[5] = e /\ x[6] = f
  /\ x[7] = g /\ x[8] = h /\ x[9] = i /\ x[10] = j /\ x[11] = k /\ x[12] = l

(* The twelve fields of a save area. *)
LEMMA TwelveFields ==
  ASSUME NEW c \in Seq(Nat), Len(c) = 3, NEW b \in Nat, NEW y \in Seq(Nat), Len(y) = 6,
         NEW z \in Seq(Nat), Len(z) = 2
  PROVE  Twelve(SevEsSaveArea(c, b, y, z), c[1], c[2], c[3], b,
                y[1], y[2], y[3], y[4], y[5], y[6], z[1], z[2])
<1> DEFINE x == c \o <<b>>
           p == x \o y
           q == p \o z
<1>1. x \in Seq(Nat) /\ Len(x) = 4 /\ x[1] = c[1] /\ x[2] = c[2] /\ x[3] = c[3] /\ x[4] = b
  <2> DEFINE bb == <<b>>
  <2>1. bb \in Seq(Nat) /\ Len(bb) = 1 /\ bb[1] = b
    OBVIOUS
  <2>2. x = c \o bb
    OBVIOUS
  <2> HIDE DEF bb, x
  <2>3. Parts(Nat, x, c, bb)
    BY <2>1, <2>2, PartsOf
  <2>4. (\A k \in 1 .. 3 : x[k] = c[k]) /\ x[3 + 1] = bb[1] /\ x \in Seq(Nat) /\ Len(x) = 4
    BY <2>1, <2>3 DEF Parts
  <2> QED
    BY <2>1, <2>4
<1>4. SevEsSaveArea(c, b, y, z) = q
  BY DEF SevEsSaveArea
<1> HIDE DEF x
<1>5. Parts(Nat, p, x, y)
  BY <1>1, PartsOf
<1> HIDE DEF p
<1>6. Parts(Nat, q, p, z)
  <2>1. p \in Seq(Nat)
    BY <1>5 DEF Parts
  <2> QED
    BY <2>1, PartsOf
<1> HIDE DEF q
<1>7. Len(p) = 10 /\ q \in Seq(Nat) /\ Len(q) = 12
  BY <1>1, <1>5, <1>6 DEF Parts
<1>8. /\ p[1] = x[1] /\ p[2] = x[2] /\ p[3] = x[3] /\ p[4] = x[4]
      /\ p[4 + 1] = y[1] /\ p[4 + 2] = y[2] /\ p[4 + 3] = y[3]
      /\ p[4 + 4] = y[4] /\ p[4 + 5] = y[5] /\ p[4 + 6] = y[6]
  <2>1. (\A k \in 1 .. 4 : p[k] = x[k]) /\ (\A k \in 1 .. 6 : p[4 + k] = y[k])
    BY <1>1, <1>5 DEF Parts
  <2> QED
    BY <2>1
<1>9. /\ q[1] = p[1] /\ q[2] = p[2] /\ q[3] = p[3] /\ q[4] = p[4] /\ q[5] = p[5] /\ q[6] = p[6]
      /\ q[7] = p[7] /\ q[8] = p[8] /\ q[9] = p[9] /\ q[10] = p[10]
      /\ q[10 + 1] = z[1] /\ q[10 + 2] = z[2]
  <2>1. (\A k \in 1 .. 10 : q[k] = p[k]) /\ (\A k \in 1 .. 2 : q[10 + k] = z[k])
    BY <1>6, <1>7 DEF Parts
  <2> QED
    BY <2>1
<1>10. /\ 4 + 1 = 5 /\ 4 + 2 = 6 /\ 4 + 3 = 7 /\ 4 + 4 = 8 /\ 4 + 5 = 9 /\ 4 + 6 = 10
       /\ 10 + 1 = 11 /\ 10 + 2 = 12
  OBVIOUS
<1>11. Twelve(q, c[1], c[2], c[3], b, y[1], y[2], y[3], y[4], y[5], y[6], z[1], z[2])
  BY <1>1, <1>7, <1>8, <1>9, <1>10 DEF Twelve
<1> QED
  BY <1>4, <1>11

(* The halves of an eip are numbers. *)
LEMMA HalvesIn ==
  ASSUME NEW eip \in Nat
  PROVE  Halves(eip)[1] * 16 \in Nat /\ Halves(eip)[2] \in Nat
<1>1. eip \div 2^16 \in Nat /\ eip % 2^16 \in Nat
  OBVIOUS
<1>2. Halves(eip)[1] \in Nat /\ Halves(eip)[2] \in Nat
  BY <1>1 DEF Halves
<1> QED
  BY <1>2

(* The type of a CPU's signature. *)
LEMMA SigIn ==
  ASSUME NEW type \in CpuTypes
  PROVE  sig(type) \in Nat
<1>1. cpu_sig(23, 1, 2) \in Nat /\ cpu_sig(23, 49, 0) \in Nat
  BY DEF cpu_sig
<1>2. cpu_sig(25, 1, 1) \in Nat /\ cpu_sig(25, 17, 0) \in Nat
  BY DEF cpu_sig
<1> QED
  BY <1>1, <1>2 DEF sig, CpuTypes

(* A save area with these values, whose eip is this one. *)
IsInit(area, eip, features, c, s, t, d, x, w) ==
  Twelve(area, Halves(eip)[1] * 16, Halves(eip)[2], 61440, features, c, s, t, d, x, w, 0, 0)

(* The fields of a save area that is calculated. *)
IsArea(area, eip, features, type, vmm) ==
  /\ vmm = "QEMU" => IsInit(area, eip, features, 155, 147, 139, sig(type), 8064, 895)
  /\ vmm = "EC2" /\ eip = BSP_EIP => IsInit(area, eip, features, 154, 146, 131, 0, 0, 0)
  /\ vmm = "EC2" /\ eip # BSP_EIP => IsInit(area, eip, features, 155, 146, 131, 0, 0, 0)
  /\ vmm = "KRUN" => IsInit(area, eip, features, 154, 146, 131, 0, 0, 0)

(* A save area from the values of a VMM. *)
LEMMA InitIs ==
  ASSUME NEW eip \in Nat, NEW features \in Nat, NEW y \in Seq(Nat), Len(y) = 6, NEW area,
         area = SevEsSaveArea(<<Halves(eip)[1] * 16, Halves(eip)[2], 61440>>, features, y, <<0, 0>>)
  PROVE  /\ IsInit(area, eip, features, y[1], y[2], y[3], y[4], y[5], y[6])
         /\ area \in Seq(Nat) /\ Len(area) = 12
<1> DEFINE base == Halves(eip)[1] * 16
           rip == Halves(eip)[2]
           code == <<base, rip, 61440>>
           z == <<0, 0>>
<1>1. base \in Nat /\ rip \in Nat
  BY HalvesIn
<1>2. area = SevEsSaveArea(code, features, y, z)
  OBVIOUS
<1> HIDE DEF base, rip
<1>3. /\ code \in Seq(Nat) /\ Len(code) = 3 /\ code[1] = base /\ code[2] = rip /\ code[3] = 61440
      /\ z \in Seq(Nat) /\ Len(z) = 2 /\ z[1] = 0 /\ z[2] = 0
  BY <1>1
<1> HIDE DEF code, z
<1>4. Twelve(area, code[1], code[2], code[3], features, y[1], y[2], y[3], y[4], y[5], y[6], z[1], z[2])
  BY <1>2, <1>3, TwelveFields
<1> QED
  BY <1>3, <1>4 DEF IsInit, Twelve, base, rip

(* What build_save_area puts into each field. *)
LEMMA SaveAreaIs ==
  ASSUME NEW eip \in Nat, NEW features \in Nat, NEW type \in CpuTypes,
         NEW vmm \in {"QEMU", "EC2", "KRUN"}, NEW cpus \in Nat \ {0}
  PROVE  /\ IsArea(build_save_area(eip, features, type, vmm, cpus), eip, features, type, vmm)
         /\ build_save_area(eip, features, type, vmm, cpus) \in Seq(Nat)
         /\ Len(build_save_area(eip, features, type, vmm, cpus)) = 12
<1> DEFINE a == build_save_area(eip, features, type, vmm, cpus)
           code == <<Halves(eip)[1] * 16, Halves(eip)[2], 61440>>
           d == sig(type)
<1>1. cpus # 0 /\ d \in Nat
  BY SigIn
<1>2. CASE vmm = "QEMU"
  <2> DEFINE y == <<155, 147, 139, d, 8064, 895>>
  <2>1. a = SevEsSaveArea(code, features, y, <<0, 0>>)
    BY <1>2 DEF build_save_area
  <2>2. /\ y \in Seq(Nat) /\ Len(y) = 6
        /\ y[1] = 155 /\ y[2] = 147 /\ y[3] = 139 /\ y[4] = d /\ y[5] = 8064 /\ y[6] = 895
    BY <1>1
  <2> HIDE DEF a, d, y
  <2>3. /\ IsInit(a, eip, features, y[1], y[2], y[3], y[4], y[5], y[6])
        /\ a \in Seq(Nat) /\ Len(a) = 12
    BY <2>1, <2>2, InitIs
  <2> QED
    BY <1>2, <2>2, <2>3 DEF IsArea, IsInit, a, d
<1>3. CASE vmm = "EC2" /\ eip = BSP_EIP
  <2> DEFINE y == <<154, 146, 131, 0, 0, 0>>
  <2>1. a = SevEsSaveArea(code, features, y, <<0, 0>>)
    BY <1>3 DEF build_save_area
  <2>2. /\ y \in Seq(Nat) /\ Len(y) = 6
        /\ y[1] = 154 /\ y[2] = 146 /\ y[3] = 131 /\ y[4] = 0 /\ y[5] = 0 /\ y[6] = 0
    BY <1>1
  <2> HIDE DEF a, d, y
  <2>3. /\ IsInit(a, eip, features, y[1], y[2], y[3], y[4], y[5], y[6])
        /\ a \in Seq(Nat) /\ Len(a) = 12
    BY <2>1, <2>2, InitIs
  <2> QED
    BY <1>3, <2>2, <2>3 DEF IsArea, IsInit, a, d
<1>4. CASE vmm = "EC2" /\ eip # BSP_EIP
  <2> DEFINE y == <<155, 146, 131, 0, 0, 0>>
  <2>1. a = SevEsSaveArea(code, features, y, <<0, 0>>)
    BY <1>4 DEF build_save_area
  <2>2. /\ y \in Seq(Nat) /\ Len(y) = 6
        /\ y[1] = 155 /\ y[2] = 146 /\ y[3] = 131 /\ y[4] = 0 /\ y[5] = 0 /\ y[6] = 0
    BY <1>1
  <2> HIDE DEF a, d, y
  <2>3. /\ IsInit(a, eip, features, y[1], y[2], y[3], y[4], y[5], y[6])
        /\ a \in Seq(Nat) /\ Len(a) = 12
    BY <2>1, <2>2, InitIs
  <2> QED
    BY <1>4, <2>2, <2>3 DEF IsArea, IsInit, a, d
<1>5. CASE vmm = "KRUN"
  <2> DEFINE y == <<154, 146, 131, 0, 0, 0>>
  <2>1. a = SevEsSaveArea(code, features, y, <<0, 0>>)
    BY <1>1, <1>5 DEF build_save_area
  <2>2. /\ y \in Seq(Nat) /\ Len(y) = 6
        /\ y[1] = 154 /\ y[2] = 146 /\ y[3] = 131 /\ y[4] = 0 /\ y[5] = 0 /\ y[6] = 0
    BY <1>1
  <2> HIDE DEF a, d, y
  <2>3. /\ IsInit(a, eip, features, y[1], y[2], y[3], y[4], y[5], y[6])
        /\ a \in Seq(Nat) /\ Len(a) = 12
    BY <2>1, <2>2, InitIs
  <2> QED
    BY <1>5, <2>2, <2>3 DEF IsArea, IsInit, a, d
<1> QED
  BY <1>2, <1>3, <1>4, <1>5

(* A machine's CPUs, the first and the others. *)
Area(m, i) ==
  build_save_area(IF i = 1 THEN BSP_EIP ELSE m.eip, m.features, m.vcpu_type, m.vmm, m.vcpus)

(* The save area of a machine's i-th CPU. *)
LEMMA AreaIn ==
  ASSUME NEW m, IsMachine(m), NEW i
  PROVE  /\ Area(m, i) \in Seq(Nat) /\ Len(Area(m, i)) = 12 /\ m.eip \in Nat /\ BSP_EIP \in Nat
         /\ IsArea(Area(m, i), IF i = 1 THEN BSP_EIP ELSE m.eip, m.features, m.vcpu_type, m.vmm)
<1>1. m.eip \in 1 .. BSP_EIP - 1 /\ BSP_EIP \in Int
  BY PageAssumption DEF IsMachine, BSP_EIP
<1>2. m.eip \in Nat /\ BSP_EIP \in Nat
  BY <1>1
<1>3. (IF i = 1 THEN BSP_EIP ELSE m.eip) \in Nat
  BY <1>2
<1>4. /\ m.features \in Nat /\ m.vcpu_type \in CpuTypes /\ m.vmm \in {"QEMU", "EC2", "KRUN"}
      /\ m.vcpus \in Nat \ {0}
  BY DEF IsMachine
<1> QED
  <2> DEFINE eip == IF i = 1 THEN BSP_EIP ELSE m.eip
             a == build_save_area(eip, m.features, m.vcpu_type, m.vmm, m.vcpus)
  <2>1. a = Area(m, i) /\ eip \in Nat
    BY <1>3 DEF Area
  <2> HIDE DEF eip
  <2>2. a \in Seq(Nat) /\ Len(a) = 12 /\ IsArea(a, eip, m.features, m.vcpu_type, m.vmm)
    <3> DEFINE f == m.features
               t == m.vcpu_type
               v == m.vmm
               n == m.vcpus
    <3>1. f \in Nat /\ t \in CpuTypes /\ v \in {"QEMU", "EC2", "KRUN"} /\ n \in Nat \ {0}
      BY <1>4
    <3>2. a = build_save_area(eip, f, t, v, n)
      OBVIOUS
    <3> HIDE DEF f, t, v, n, a
    <3>3. /\ IsArea(build_save_area(eip, f, t, v, n), eip, f, t, v)
          /\ build_save_area(eip, f, t, v, n) \in Seq(Nat)
          /\ Len(build_save_area(eip, f, t, v, n)) = 12
      BY <2>1, <3>1, SaveAreaIs
    <3> QED
      BY <3>2, <3>3 DEF f, t, v
  <2> HIDE DEF a
  <2> QED
    BY <1>2, <2>1, <2>2 DEF eip

(* What is calculated of a machine's CPUs. *)
AreaPages(m) == [i \in 1 .. m.vcpus |-> PageInfo("Vmsa", VMSA_GPA, Area(m, i))]

(* vmsa_pages makes these save areas. *)
LEMMA AreaPagesAre ==
  ASSUME NEW m, IsMachine(m)
  PROVE  /\ AreaPages(m) = [i \in 1 .. m.vcpus |-> PageInfo("Vmsa", VMSA_GPA, Area(m, i))]
         /\ AreaPages(m) \in Seq(PageInfos) /\ Len(AreaPages(m)) = m.vcpus /\ m.vcpus \in Nat \ {0}
         /\ vmsa_pages(m.eip, m.vcpu_type, m.vmm, m.vcpus, m.features) = [i \in 1 .. m.vcpus |-> Area(m, i)]
<1>1. m.vcpus \in Nat \ {0} /\ m.eip > 0
  BY PageAssumption DEF IsMachine, BSP_EIP
<1>2. AreaPages(m) = [i \in 1 .. m.vcpus |-> PageInfo("Vmsa", VMSA_GPA, Area(m, i))]
  BY DEF AreaPages
<1>3. ASSUME NEW i \in 1 .. m.vcpus PROVE PageInfo("Vmsa", VMSA_GPA, Area(m, i)) \in PageInfos
  <2>1. Area(m, i) \in Seq(Nat) /\ VMSA_GPA \in Int
    BY AreaIn DEF VMSA_GPA
  <2> QED
    BY <2>1 DEF PageInfo, PageInfos
<1>4. AreaPages(m) \in Seq(PageInfos) /\ Len(AreaPages(m)) = m.vcpus
  <2> HIDE DEF PageInfos
  <2> QED
    BY <1>1, <1>2, <1>3
<1>5. vmsa_pages(m.eip, m.vcpu_type, m.vmm, m.vcpus, m.features) = [i \in 1 .. m.vcpus |-> Area(m, i)]
  <2> DEFINE bsp == build_save_area(BSP_EIP, m.features, m.vcpu_type, m.vmm, m.vcpus)
             ap == build_save_area(m.eip, m.features, m.vcpu_type, m.vmm, m.vcpus)
  <2>1. vmsa_pages(m.eip, m.vcpu_type, m.vmm, m.vcpus, m.features) =
          [i \in 1 .. m.vcpus |-> IF i = 1 THEN bsp ELSE ap]
    BY <1>1, Zenon DEF vmsa_pages
  <2>2. ASSUME NEW i \in 1 .. m.vcpus PROVE (IF i = 1 THEN bsp ELSE ap) = Area(m, i)
    BY Zenon DEF Area
  <2> HIDE DEF bsp, ap
  <2> QED
    BY <2>1, <2>2, Zenon
<1> QED
  BY <1>1, <1>2, <1>4, <1>5

-----------------------------------------------------------------------------
(* The save areas that a VMM has measured. *)

VmsaFields ==
  {"rip", "cs_selector", "cs_base", "cs", "ss", "data", "ldtr", "tr", "rdx", "rsp", "rsi",
   "g_pat", "amd64", "kvm"}

(* cpu_sku writes the signature that is measured. *)
LEMMA SkuIsSig ==
  ASSUME NEW type \in CpuTypes, NEW v
  PROVE  cpu_sku(v, Fms(type)[1], Fms(type)[2], Fms(type)[3]) = [v EXCEPT !.rdx = sig(type)]
<1>1. /\ cpu_sku(v, 23, 1, 2) = [v EXCEPT !.rdx = cpu_sig(23, 1, 2)]
      /\ cpu_sku(v, 23, 49, 0) = [v EXCEPT !.rdx = cpu_sig(23, 49, 0)]
      /\ cpu_sku(v, 25, 1, 1) = [v EXCEPT !.rdx = cpu_sig(25, 1, 1)]
      /\ cpu_sku(v, 25, 17, 0) = [v EXCEPT !.rdx = cpu_sig(25, 17, 0)]
  BY DEF cpu_sku, cpu_sig
<1>2. CASE type \in {"Epyc", "EpycV1", "EpycV2", "EpycIBPB", "EpycV3", "EpycV4"}
  <2>1. sig(type) = cpu_sig(23, 1, 2) /\ Fms(type) = <<23, 1, 2>>
    BY <1>2 DEF sig, Fms
  <2> QED
    BY <1>1, <2>1
<1>3. CASE type \in {"EpycRome", "EpycRomeV1", "EpycRomeV2", "EpycRomeV3"}
  <2>1. sig(type) = cpu_sig(23, 49, 0) /\ Fms(type) = <<23, 49, 0>>
    BY <1>3 DEF sig, Fms
  <2> QED
    BY <1>1, <2>1
<1>4. CASE type \in {"EpycMilan", "EpycMilanV1", "EpycMilanV2"}
  <2>1. sig(type) = cpu_sig(25, 1, 1) /\ Fms(type) = <<25, 1, 1>>
    BY <1>4 DEF sig, Fms
  <2> QED
    BY <1>1, <2>1
<1>5. CASE type \in {"EpycGenoa", "EpycGenoaV1"}
  <2>1. sig(type) = cpu_sig(25, 17, 0) /\ Fms(type) = <<25, 17, 0>>
    BY <1>5 DEF sig, Fms
  <2> QED
    BY <1>1, <2>1
<1> QED
  BY <1>2, <1>3, <1>4, <1>5 DEF CpuTypes

(* The fields of a CPU that are in its save area. *)
HasFields(v, base, rip, selector, cs, ss, tr, rdx, rsp, rsi) ==
  /\ DOMAIN v = VmsaFields
  /\ v.cs_base = base /\ v.rip = rip /\ v.cs_selector = selector
  /\ v.cs = cs /\ v.ss = ss /\ v.tr = tr /\ v.rdx = rdx /\ v.rsp = rsp /\ v.rsi = rsi

(* A CPU as amd64 and KVM have it. *)
LEMMA KvmIs ==
  HasFields(init_kvm(init_amd64(Vmsa_default)), 1048560, 65520, 61440, 0, 0, 131, 0, 0, 0)
<1> DEFINE v == Vmsa_default
           w == init_amd64(v)
           x == init_kvm(w)
<1>1. HasFields(v, 0, 0, 0, 0, 0, 0, 0, 0, 0)
  BY DEF HasFields, Vmsa_default, VmsaFields
<1> HIDE DEF v
<1>2. HasFields(w, 1048560, 65520, 61440, 0, 0, 0, 0, 0, 0)
  BY <1>1 DEF HasFields, init_amd64, VmsaFields
<1> HIDE DEF w
<1>3. HasFields(x, 1048560, 65520, 61440, 0, 0, 131, 0, 0, 0)
  BY <1>2 DEF HasFields, init_kvm, VmsaFields
<1> QED
  BY <1>3 DEF x, w, v

(* A CPU of QEMU. *)
LEMMA QemuIs ==
  ASSUME NEW m, IsMachine(m), m.vmm = "QEMU", NEW cpu
  PROVE  /\ cpu = 0 => HasFields(Vcpu(m, cpu), 1048560, 65520, 61440, 155, 147, 139,
                                 sig(m.vcpu_type), 0, 0)
         /\ cpu # 0 => HasFields(Vcpu(m, cpu), Halves(m.eip)[1] * 16, Halves(m.eip)[2], 61440,
                                 155, 147, 139, sig(m.vcpu_type), 0, 0)
<1> DEFINE kvm == init_kvm(init_amd64(Vmsa_default))
           type == m.vcpu_type
           q == init_qemu(kvm, cpu)
           qemu == cpu_sku(q, Fms(type)[1], Fms(type)[2], Fms(type)[3])
           ap == reset_addr(qemu, Halves(m.eip))
<1>1. type \in CpuTypes
  BY DEF IsMachine
<1>2. HasFields(kvm, 1048560, 65520, 61440, 0, 0, 131, 0, 0, 0)
  BY KvmIs
<1>3. (cpu = 0 => Vcpu(m, cpu) = qemu) /\ (cpu # 0 => Vcpu(m, cpu) = ap)
  BY Zenon DEF Vcpu
<1> HIDE DEF kvm, type
<1>4. HasFields(q, 1048560, 65520, 61440, 155, 147, 139, 0, 0, 0)
  BY <1>2 DEF HasFields, init_qemu, VmsaFields, ATTR, CODE, READ, ACCESSED
<1> HIDE DEF q
<1>5. qemu = [q EXCEPT !.rdx = sig(type)]
  BY <1>1, SkuIsSig
<1> HIDE DEF qemu
<1>6. HasFields(qemu, 1048560, 65520, 61440, 155, 147, 139, sig(type), 0, 0)
  BY <1>4, <1>5 DEF HasFields, VmsaFields
<1> DEFINE half == Halves(m.eip)
<1>7. ap = reset_addr(qemu, half)
  OBVIOUS
<1> HIDE DEF half, ap
<1>8. HasFields(ap, half[1] * 16, half[2], 61440, 155, 147, 139, sig(type), 0, 0)
  BY <1>6, <1>7 DEF HasFields, VmsaFields, reset_addr
<1> QED
  BY <1>3, <1>6, <1>8 DEF half, type

(* A CPU of KRUN. *)
LEMMA KrunIs ==
  ASSUME NEW m, m.vmm = "KRUN", NEW cpu
  PROVE  /\ cpu = 0 => HasFields(Vcpu(m, cpu), 1048560, 65520, 61440, 154, 146, 131, 0, 36848, 28672)
         /\ cpu # 0 => HasFields(Vcpu(m, cpu), 145, 0, 37120, 154, 146, 131, 0, 0, 0)
<1> DEFINE kvm == init_kvm(init_amd64(Vmsa_default))
<1>1. HasFields(kvm, 1048560, 65520, 61440, 0, 0, 131, 0, 0, 0)
  BY KvmIs
<1>2. Vcpu(m, cpu) = init_krun(kvm, cpu)
  BY Zenon DEF Vcpu
<1> HIDE DEF kvm
<1> QED
  BY <1>1, <1>2 DEF HasFields, init_krun, VmsaFields, ATTR, CODE, READ, ACCESSED

(* The save area of a CPU. *)
LEMMA AreaOfIs ==
  ASSUME NEW v, v.cs_base \in Nat, v.rip \in Nat, v.cs_selector \in Nat, v.cs \in Nat, v.ss \in Nat,
         v.tr \in Nat, v.rdx \in Nat, v.rsp \in Nat, v.rsi \in Nat,
         NEW features \in Nat, NEW fpu, fpu[1] \in Nat, fpu[2] \in Nat
  PROVE  Twelve(AreaOf(v, features, fpu), v.cs_base, v.rip, v.cs_selector, features,
                v.cs, v.ss, v.tr, v.rdx, fpu[1], fpu[2], v.rsp, v.rsi)
<1> DEFINE code == <<v.cs_base, v.rip, v.cs_selector>>
           y == <<v.cs, v.ss, v.tr, v.rdx, fpu[1], fpu[2]>>
           z == <<v.rsp, v.rsi>>
           a == AreaOf(v, features, fpu)
<1>1. a = SevEsSaveArea(code, features, y, z)
  BY DEF AreaOf
<1>2. /\ code \in Seq(Nat) /\ Len(code) = 3
      /\ code[1] = v.cs_base /\ code[2] = v.rip /\ code[3] = v.cs_selector
      /\ z \in Seq(Nat) /\ Len(z) = 2 /\ z[1] = v.rsp /\ z[2] = v.rsi
  OBVIOUS
<1>3. /\ y \in Seq(Nat) /\ Len(y) = 6 /\ y[1] = v.cs /\ y[2] = v.ss /\ y[3] = v.tr
      /\ y[4] = v.rdx /\ y[5] = fpu[1] /\ y[6] = fpu[2]
  OBVIOUS
<1> HIDE DEF a, code, y, z
<1>4. Twelve(a, code[1], code[2], code[3], features, y[1], y[2], y[3], y[4], y[5], y[6], z[1], z[2])
  BY <1>1, <1>2, <1>3, TwelveFields
<1> QED
  BY <1>2, <1>3, <1>4 DEF a

(* Save areas with the same fields are the same. *)
LEMMA SameTwelve ==
  ASSUME NEW x \in Seq(Nat), Len(x) = 12, NEW y \in Seq(Nat), Len(y) = 12,
         x[1] = y[1], x[2] = y[2], x[3] = y[3], x[4] = y[4], x[5] = y[5], x[6] = y[6],
         x[7] = y[7], x[8] = y[8], x[9] = y[9], x[10] = y[10], x[11] = y[11], x[12] = y[12]
  PROVE  x = y
<1>1. \A k \in 1 .. 12 : x[k] = y[k]
  OBVIOUS
<1>2. x \in [1 .. 12 -> Nat] /\ y \in [1 .. 12 -> Nat]
  BY Zenon, LenProperties
<1>3. x = [k \in 1 .. 12 |-> x[k]] /\ y = [k \in 1 .. 12 |-> y[k]]
  BY <1>2, Zenon
<1> QED
  BY <1>1, <1>3, Zenon

(* A CPU with the fields of QEMU's has the save area that is calculated. *)
LEMMA QemuArea ==
  ASSUME NEW v, NEW eip \in Nat, NEW features \in Nat, NEW type \in CpuTypes, NEW cpus \in Nat \ {0},
         HasFields(v, Halves(eip)[1] * 16, Halves(eip)[2], 61440, 155, 147, 139, sig(type), 0, 0)
  PROVE  AreaOf(v, features, FPU_RESET) = build_save_area(eip, features, type, "QEMU", cpus)
<1> DEFINE fpu == FPU_RESET
           d == sig(type)
           area == AreaOf(v, features, fpu)
           calc == build_save_area(eip, features, type, "QEMU", cpus)
<1>1. fpu[1] = 8064 /\ fpu[2] = 895 /\ area = AreaOf(v, features, fpu) /\ d \in Nat
  BY SigIn DEF FPU_RESET
<1>2. Halves(eip)[1] * 16 \in Nat /\ Halves(eip)[2] \in Nat
  BY HalvesIn
<1>3. IsArea(calc, eip, features, type, "QEMU")
  BY SaveAreaIs
<1>4. IsInit(calc, eip, features, 155, 147, 139, d, 8064, 895)
  BY <1>3 DEF IsArea
<1> HIDE DEF fpu, area, calc
<1>5. /\ v.cs_base = Halves(eip)[1] * 16 /\ v.rip = Halves(eip)[2] /\ v.cs_selector = 61440
      /\ v.cs = 155 /\ v.ss = 147 /\ v.tr = 139 /\ v.rdx = d /\ v.rsp = 0 /\ v.rsi = 0
  BY DEF HasFields
<1> HIDE DEF d
<1>6. Twelve(area, v.cs_base, v.rip, v.cs_selector, features,
             v.cs, v.ss, v.tr, v.rdx, fpu[1], fpu[2], v.rsp, v.rsi)
  <2>1. /\ v.cs_base \in Nat /\ v.rip \in Nat /\ v.cs_selector \in Nat /\ v.cs \in Nat /\ v.ss \in Nat
        /\ v.tr \in Nat /\ v.rdx \in Nat /\ v.rsp \in Nat /\ v.rsi \in Nat
        /\ fpu[1] \in Nat /\ fpu[2] \in Nat
    BY <1>1, <1>2, <1>5
  <2> QED
    BY <1>1, <2>1, AreaOfIs
<1>7. Twelve(calc, v.cs_base, v.rip, v.cs_selector, features,
             v.cs, v.ss, v.tr, v.rdx, fpu[1], fpu[2], v.rsp, v.rsi)
  BY <1>1, <1>4, <1>5 DEF IsInit
<1>8. /\ area \in Seq(Nat) /\ Len(area) = 12 /\ calc \in Seq(Nat) /\ Len(calc) = 12
      /\ area[1] = calc[1] /\ area[2] = calc[2] /\ area[3] = calc[3] /\ area[4] = calc[4]
      /\ area[5] = calc[5] /\ area[6] = calc[6] /\ area[7] = calc[7] /\ area[8] = calc[8]
      /\ area[9] = calc[9] /\ area[10] = calc[10] /\ area[11] = calc[11] /\ area[12] = calc[12]
  BY <1>6, <1>7 DEF Twelve
<1>9. area = calc
  BY ONLY <1>8, SameTwelve, ZenonT(60)
<1> QED
  BY <1>9 DEF area, calc, fpu

(* What a VMM has measured of a CPU: with QEMU and EC2, what is calculated; *)
(* with KRUN, what is never calculated.                                     *)
IsLoaded(area, m, features, i) ==
  /\ area \in Seq(Nat) /\ Len(area) = 12
  /\ m.vmm # "KRUN" =>
       area = build_save_area(IF i = 1 THEN BSP_EIP ELSE m.eip, features, m.vcpu_type, m.vmm, m.vcpus)
  /\ m.vmm = "KRUN" => area[3] # 61440 \/ area[11] # 0

(* The save areas of QEMU, EC2 and KRUN. *)
LEMMA AreasLoaded ==
  ASSUME NEW m, IsMachine(m), NEW features \in Nat, NEW i \in 1 .. m.vcpus
  PROVE  IsLoaded(AreasWith(m, features)[i], m, features, i)
<1> DEFINE area == AreasWith(m, features)[i]
           v == Vcpu(m, i - 1)
           eip == IF i = 1 THEN BSP_EIP ELSE m.eip
           type == m.vcpu_type
           cpus == m.vcpus
           d == sig(type)
<1>1. /\ type \in CpuTypes /\ m.vmm \in {"QEMU", "EC2", "KRUN"} /\ cpus \in Nat \ {0}
      /\ m.eip \in Nat /\ BSP_EIP \in Nat
  BY AreaIn DEF IsMachine
<1>2. eip \in Nat /\ d \in Nat /\ i \in Nat
  BY <1>1, SigIn
<1>3. CASE m.vmm = "QEMU"
  <2>a. area = AreaOf(v, features, FPU_RESET)
    BY <1>3, Zenon DEF AreasWith
  <2> HIDE DEF area, v
  <2>2. Halves(BSP_EIP)[1] * 16 = 1048560 /\ Halves(BSP_EIP)[2] = 65520
    BY DEF Halves
  <2>3. HasFields(v, Halves(eip)[1] * 16, Halves(eip)[2], 61440, 155, 147, 139, d, 0, 0)
    <3>1. CASE i = 1
      <4>1. i - 1 = 0 /\ eip = BSP_EIP
        BY <3>1
      <4> QED
        BY <1>3, <2>2, <4>1, QemuIs DEF v
    <3>2. CASE i # 1
      <4>1. i - 1 # 0 /\ eip = m.eip
        BY <1>2, <3>2
      <4> QED
        BY <1>3, <4>1, QemuIs DEF v
    <3> QED
      BY <3>1, <3>2
  <2> HIDE DEF eip, d
  <2> HIDE DEF type, cpus
  <2>7. area = build_save_area(eip, features, type, "QEMU", cpus)
    BY <1>1, <1>2, <2>3, <2>a, QemuArea DEF d
  <2>8. area \in Seq(Nat) /\ Len(area) = 12
    BY <1>1, <1>2, <2>7, SaveAreaIs
  <2>9. IsLoaded(area, m, features, i)
    BY <1>3, <2>7, <2>8 DEF IsLoaded, eip, type, cpus
  <2> QED
    BY <2>9 DEF area
<1>4. CASE m.vmm = "EC2"
  <2>1. area = build_save_area(eip, features, type, "EC2", cpus)
    BY <1>4, Zenon DEF AreasWith
  <2> HIDE DEF eip, type, cpus
  <2>2. /\ build_save_area(eip, features, type, "EC2", cpus) \in Seq(Nat)
        /\ Len(build_save_area(eip, features, type, "EC2", cpus)) = 12
    BY <1>1, <1>2, SaveAreaIs
  <2> HIDE DEF area
  <2>3. IsLoaded(area, m, features, i)
    BY <1>4, <2>1, <2>2 DEF IsLoaded, eip, type, cpus
  <2> QED
    BY <2>3 DEF area
<1>5. CASE m.vmm = "KRUN"
  <2> DEFINE fpu == <<0, 0>>
  <2>1. area = AreaOf(v, features, fpu) /\ fpu[1] = 0 /\ fpu[2] = 0
    BY <1>5, Zenon DEF AreasWith
  <2> HIDE DEF area, v, fpu
  <2>2. /\ v.cs_base \in Nat /\ v.rip \in Nat /\ v.cs_selector \in Nat /\ v.cs \in Nat /\ v.ss \in Nat
        /\ v.tr \in Nat /\ v.rdx \in Nat /\ v.rsp \in Nat /\ v.rsi \in Nat
        /\ v.cs_selector # 61440 \/ v.rsp # 0
    <3>1. CASE i = 1
      <4>1. HasFields(v, 1048560, 65520, 61440, 154, 146, 131, 0, 36848, 28672)
        BY <1>5, <3>1, KrunIs DEF v
      <4> QED
        BY <4>1 DEF HasFields
    <3>2. CASE i # 1
      <4>1. i - 1 # 0
        BY <1>2, <3>2
      <4>2. HasFields(v, 145, 0, 37120, 154, 146, 131, 0, 0, 0)
        BY <1>5, <4>1, KrunIs DEF v
      <4> QED
        BY <4>2 DEF HasFields
    <3> QED
      BY <3>1, <3>2
  <2>3. Twelve(area, v.cs_base, v.rip, v.cs_selector, features,
               v.cs, v.ss, v.tr, v.rdx, fpu[1], fpu[2], v.rsp, v.rsi)
    BY <2>1, <2>2, AreaOfIs
  <2>4. IsLoaded(area, m, features, i)
    BY <1>5, <2>2, <2>3 DEF IsLoaded, Twelve
  <2> QED
    BY <2>4 DEF area
<1> QED
  BY <1>1, <1>3, <1>4, <1>5

(* The pages of the save areas that a VMM has measured. *)
LEMMA SaveAreasAre ==
  ASSUME NEW m, IsMachine(m)
  PROVE  /\ SaveAreas(m) \in Seq(PageInfos) /\ Len(SaveAreas(m)) = m.vcpus /\ m.vcpus \in Nat \ {0}
         /\ \A i \in 1 .. m.vcpus : /\ SaveAreas(m)[i].page_type = "Vmsa"
                                    /\ IsLoaded(SaveAreas(m)[i].contents, m, m.features, i)
         /\ m.vmm # "KRUN" => SaveAreas(m) = AreaPages(m)
<1> DEFINE W(i) == AreasWith(m, m.features)[i]
<1>1. m.vcpus \in Nat \ {0} /\ m.features \in Nat
  BY DEF IsMachine
<1>2. \A i \in 1 .. m.vcpus : IsLoaded(W(i), m, m.features, i)
  BY <1>1, AreasLoaded
<1>3. SaveAreas(m) = [i \in 1 .. m.vcpus |-> PageInfo("Vmsa", VMSA_GPA, W(i))]
  BY DEF SaveAreas
<1> HIDE DEF W
<1>4. ASSUME NEW i \in 1 .. m.vcpus PROVE PageInfo("Vmsa", VMSA_GPA, W(i)) \in PageInfos
  <2>1. W(i) \in Seq(Nat) /\ VMSA_GPA \in Int
    BY <1>2 DEF VMSA_GPA, IsLoaded
  <2> QED
    BY <2>1 DEF PageInfo, PageInfos
<1>5. SaveAreas(m) \in Seq(PageInfos) /\ Len(SaveAreas(m)) = m.vcpus
  <2> HIDE DEF PageInfos
  <2> QED
    BY <1>1, <1>3, <1>4
<1>6. ASSUME NEW i \in 1 .. m.vcpus
      PROVE  /\ SaveAreas(m)[i].page_type = "Vmsa"
             /\ IsLoaded(SaveAreas(m)[i].contents, m, m.features, i)
  <2>1. SaveAreas(m)[i].page_type = "Vmsa" /\ SaveAreas(m)[i].contents = W(i)
    BY <1>3 DEF PageInfo
  <2> QED
    BY <1>2, <2>1
<1>7. ASSUME m.vmm # "KRUN" PROVE SaveAreas(m) = AreaPages(m)
  <2>1. \A i \in 1 .. m.vcpus : W(i) = Area(m, i)
    BY <1>2, <1>7 DEF IsLoaded, Area
  <2> QED
    BY <1>3, <2>1, Zenon DEF AreaPages
<1> QED
  BY <1>1, <1>5, <1>6, <1>7

-----------------------------------------------------------------------------
(* The digest. *)

(* A digest extended by save areas, as snp_calc_launch_digest extends it. *)
IsExtended(f, areas, x) ==
  f = CHOOSE e : e = [n \in 0 .. Len(areas) |->
        IF n = 0 THEN Gctx(x) ELSE update_page(e[n - 1], "Vmsa", VMSA_GPA, areas[n], 0)]

(* The pages of some save areas. *)
VmsaPages(areas) == [i \in 1 .. Len(areas) |-> PageInfo("Vmsa", VMSA_GPA, areas[i])]

(* The save areas, one after the other. *)
LEMMA AreasExtend ==
  ASSUME NEW x \in Seq(PageInfos), NEW f, NEW areas \in Seq(Seq(Nat)), IsExtended(f, areas, x)
  PROVE  f[Len(areas)] = Gctx(x \o VmsaPages(areas)) /\ VmsaPages(areas) \in Seq(PageInfos)
<1> DEFINE N == Len(areas)
           A == VmsaPages(areas)
           w == [n \in 0 .. N |-> Gctx(x \o SubSeq(A, 1, n))]
<1>1. A \in Seq(PageInfos) /\ Len(A) = N
  <2>1. ASSUME NEW n \in 1 .. N PROVE PageInfo("Vmsa", VMSA_GPA, areas[n]) \in PageInfos
    <3>1. areas[n] \in Seq(Nat)
      BY ElementOfSeq, Zenon
    <3> QED
      BY <3>1 DEF PageInfo, PageInfos, VMSA_GPA
  <2> QED
    BY <2>1 DEF VmsaPages
<1>2. N \in Nat
  OBVIOUS
<1>3. \A n \in 1 .. N : A[n] = PageInfo("Vmsa", VMSA_GPA, areas[n])
  BY DEF VmsaPages
<1> HIDE DEF N, A
<1>4. w[0] = Gctx(x)
  <2>1. SubSeq(A, 1, 0) = <<>> /\ x \o <<>> = x
    BY <1>1, ConcatEmptySeq
  <2>2. w[0] = Gctx(x \o SubSeq(A, 1, 0))
    BY <1>2
  <2> QED
    BY <2>1, <2>2
<1>5. ASSUME NEW n \in 1 .. N PROVE w[n] = update_page(w[n - 1], "Vmsa", VMSA_GPA, areas[n], 0)
  <2> DEFINE y == x \o SubSeq(A, 1, n - 1)
             a == A[n]
  <2>1. n - 1 \in 0 .. N /\ n \in 0 .. N /\ n \in 1 .. Len(A)
    BY <1>1, <1>2
  <2>2. w[n - 1] = Gctx(y) /\ w[n] = Gctx(x \o SubSeq(A, 1, n))
    BY <2>1
  <2>3. x \o SubSeq(A, 1, n) = Append(y, a)
    <3> HIDE DEF w
    <3>1. ASSUME NEW S, NEW s \in Seq(S), NEW t \in Seq(S), NEW k \in 1 .. Len(t)
          PROVE  s \o SubSeq(t, 1, k) = Append(s \o SubSeq(t, 1, k - 1), t[k])
      OBVIOUS
    <3> HIDE DEF y, a
    <3> QED
      BY <1>1, <2>1, <3>1 DEF y, a
  <2> HIDE DEF w, y
  <2>4. update_page(Gctx(y), "Vmsa", VMSA_GPA, areas[n], 0) = Gctx(Append(y, PageInfo("Vmsa", VMSA_GPA, areas[n])))
    <3>1. Gctx(y).ld = y
      BY GctxIs
    <3> QED
      BY <3>1 DEF update_page
  <2> QED
    BY <1>3, <2>2, <2>3, <2>4
<1>6. w = [n \in 0 .. N |-> IF n = 0 THEN Gctx(x) ELSE update_page(w[n - 1], "Vmsa", VMSA_GPA, areas[n], 0)]
  <2>1. w = [n \in 0 .. N |-> w[n]]
    OBVIOUS
  <2>2. ASSUME NEW n \in 0 .. N
        PROVE  w[n] = IF n = 0 THEN Gctx(x) ELSE update_page(w[n - 1], "Vmsa", VMSA_GPA, areas[n], 0)
    <3> HIDE DEF w
    <3>1. n = 0 \/ n \in 1 .. N
      BY <1>2
    <3> QED
      BY <1>2, <1>4, <1>5, <3>1
  <2> HIDE DEF w
  <2> QED
    BY <2>1, <2>2, Zenon
<1> HIDE DEF w
<1>7. f = [n \in 0 .. N |-> IF n = 0 THEN Gctx(x) ELSE update_page(f[n - 1], "Vmsa", VMSA_GPA, areas[n], 0)]
  BY <1>6 DEF N, IsExtended
<1>8. Follows(N, f, w)
  <2>1. 0 \in 0 .. N
    BY <1>2
  <2>2. f[0] = Gctx(x)
    BY <1>7, <2>1
  <2>3. ASSUME NEW n \in 1 .. N, f[n - 1] = w[n - 1] PROVE f[n] = w[n]
    <3>1. n \in 0 .. N /\ n # 0
      BY <1>2
    <3>2. f[n] = update_page(f[n - 1], "Vmsa", VMSA_GPA, areas[n], 0)
      BY <1>7, <3>1
    <3> QED
      BY <1>5, <2>3, <3>2
  <2> QED
    BY <1>4, <2>2, <2>3 DEF Follows
<1>9. f[N] = w[N]
  <2>1. \A n \in 0 .. N : f[n] = w[n]
    BY <1>2, <1>8, FollowsIs
  <2> QED
    BY <1>2, <2>1
<1>10. w[N] = Gctx(x \o A)
  <2>1. w[N] = Gctx(x \o SubSeq(A, 1, N))
    BY <1>2 DEF w
  <2>2. SubSeq(A, 1, Len(A)) = A
    BY <1>1
  <2> QED
    BY <1>1, <1>2, <2>1, <2>2
<1> QED
  BY <1>1, <1>9, <1>10 DEF N, A

(* The loop over the save areas adds them to the digest. *)
LEMMA AreasMeasured ==
  ASSUME NEW m, IsMachine(m), NEW x \in Seq(PageInfos), NEW f, NEW areas,
         areas = [i \in 1 .. m.vcpus |-> Area(m, i)], IsExtended(f, areas, x)
  PROVE  f[Len(areas)] = Gctx(x \o AreaPages(m))
<1>1. /\ AreaPages(m) = [i \in 1 .. m.vcpus |-> PageInfo("Vmsa", VMSA_GPA, Area(m, i))]
      /\ m.vcpus \in Nat \ {0}
  BY AreaPagesAre
<1>2. \A i \in 1 .. m.vcpus : Area(m, i) \in Seq(Nat)
  BY AreaIn
<1>3. areas \in Seq(Seq(Nat)) /\ Len(areas) = m.vcpus
  BY <1>1, <1>2, SMTT(40)
<1>4. AreaPages(m) = VmsaPages(areas)
  BY <1>1, <1>3 DEF VmsaPages
<1> QED
  BY <1>3, <1>4, AreasExtend

(* The image alone. *)
LEMMA FlashMeasured ==
  ASSUME NEW m \in DOMAIN Image
  PROVE  /\ Flash(OVMF_new(Image[m])) = Gctx(ImagePages(m))
         /\ calc_snp_ovmf_hash(Image[m]) = Gctx(ImagePages(m))
<1> DEFINE o == OVMF_new(Image[m])
           L == Len(Image[m])
<1>1. o.ok = TRUE /\ o.data = Image[m]
  BY MachineIsRead DEF IsRead
<1>2. L % PAGE = 0 /\ ImagePages(m) \in Seq(PageInfos)
  BY MachineIsRead, ImagePagesIn
<1> HIDE DEF o
<1>3. Flash(o) = Gctx(<<>> \o ImagePages(m))
  BY <1>1, <1>2, GctxIs DEF Flash, update_page, ImagePages
<1>4. <<>> \o ImagePages(m) = ImagePages(m)
  BY <1>2, ConcatEmptySeq
<1> QED
  BY <1>1, <1>3, <1>4 DEF calc_snp_ovmf_hash, o

(* The digest calculated for a machine from its own image, or from its      *)
(* hash: the regions, and the save areas as they are calculated.            *)
LEMMA DigestIs ==
  ASSUME NEW m \in DOMAIN Image, m.kernel # None => HasHashes(m),
         NEW hash \in {{}, {calc_snp_ovmf_hash(Image[m]).ld}}
  PROVE  snp_calc_launch_digest(Args(m, Image[m], hash)) = Gctx(FlattenSeq(Regions(m)) \o AreaPages(m))
<1> DEFINE args == Args(m, Image[m], hash)
           ovmf == OVMF_new(args.ovmf_file)
           vmm == IF args.vmm = "none" THEN "QEMU" ELSE args.vmm
           begun == IF args.ovmf_hash = {} THEN Flash(ovmf)
                    ELSE Gctx(CHOOSE ld \in args.ovmf_hash : TRUE)
           hashes == IF args.kernel = None THEN {}
                     ELSE {SevHashes(args.kernel, args.initrd, args.append)}
           pages == snp_update_metadata_pages(begun, ovmf, hashes, vmm)
           eip == CHOOSE e \in sev_es_reset_eip(ovmf) : TRUE
           areas == vmsa_pages(eip, args.vcpu_type, vmm, args.vcpus, args.features)
           f == CHOOSE e : e = [n \in 0 .. Len(areas) |->
                  IF n = 0 THEN pages ELSE update_page(e[n - 1], "Vmsa", VMSA_GPA, areas[n], 0)]
<1>1. snp_calc_launch_digest(args) =
        IF ovmf.ok /\ begun.ok /\ pages.ok /\ sev_es_reset_eip(ovmf) # {} THEN f[Len(areas)] ELSE Failed
  BY Zenon DEF snp_calc_launch_digest
<1>2. /\ args.ovmf_file = Image[m] /\ args.ovmf_hash = hash /\ args.kernel = m.kernel
      /\ args.initrd = m.initrd /\ args.append = m.append /\ args.vcpus = m.vcpus
      /\ args.vcpu_type = m.vcpu_type /\ args.features = m.features
      /\ args.vmm = IF m.vmm = "QEMU" THEN "none" ELSE m.vmm
  BY DEF Args
<1> HIDE DEF args
<1>3. IsMachine(m) /\ IsRead(ovmf, Image[m], m)
  BY <1>2, MachineIsRead
<1> HIDE DEF ovmf
<1>4. vmm = m.vmm
  BY <1>2, <1>3 DEF IsMachine
<1>5. hashes = BootHashes(m)
  BY <1>2 DEF BootHashes
<1>6. begun = Gctx(ImagePages(m))
  <2>1. Flash(ovmf) = Gctx(ImagePages(m)) /\ calc_snp_ovmf_hash(Image[m]).ld = ImagePages(m)
    BY <1>2, FlashMeasured, GctxIs DEF ovmf
  <2>2. CASE hash = {}
    BY <1>2, <2>1, <2>2
  <2>3. CASE hash = {ImagePages(m)}
    BY <1>2, <2>3
  <2> QED
    BY <2>1, <2>2, <2>3
<1>7. ImagePages(m) \in Seq(PageInfos)
  BY ImagePagesIn
<1> HIDE DEF vmm, hashes, begun
<1>8. pages = Gctx(ImagePages(m) \o Pages(m, Descs(m)))
  BY <1>3, <1>4, <1>5, <1>6, <1>7, SectionsMeasured
<1>9. FlattenSeq(Regions(m)) = ImagePages(m) \o Pages(m, Descs(m)) /\ Regions(m) \in Seq(Seq(PageInfos))
  BY RegionsAre
<1> DEFINE x == FlattenSeq(Regions(m))
<1>10. x \in Seq(PageInfos)
  BY <1>9, FlattenInSeq
<1>11. pages = Gctx(x)
  BY <1>8, <1>9
<1> HIDE DEF pages, x
<1>12. sev_es_reset_eip(ovmf) = {m.eip} /\ eip = m.eip
  BY <1>3 DEF IsRead
<1> HIDE DEF eip
<1>13. areas = [i \in 1 .. m.vcpus |-> Area(m, i)]
  BY <1>2, <1>3, <1>4, <1>12, AreaPagesAre
<1> HIDE DEF areas
<1>14. f[Len(areas)] = Gctx(x \o AreaPages(m))
  <2>1. f = CHOOSE e : e = [n \in 0 .. Len(areas) |->
               IF n = 0 THEN Gctx(x) ELSE update_page(e[n - 1], "Vmsa", VMSA_GPA, areas[n], 0)]
    BY <1>11, Zenon
  <2> HIDE DEF f
  <2>2. IsExtended(f, areas, x)
    BY <2>1, Zenon DEF IsExtended
  <2> QED
    BY <1>3, <1>10, <1>13, <2>2, AreasMeasured, Zenon
<1>15. ovmf.ok /\ begun.ok /\ pages.ok /\ sev_es_reset_eip(ovmf) # {}
  BY <1>3, <1>6, <1>11, <1>12, GctxIs DEF IsRead
<1> HIDE DEF f
<1> QED
  BY <1>1, <1>14, <1>15 DEF args, x

(* With QEMU and EC2 it is all that is measured of the machine. *)
LEMMA DigestIsMeasured ==
  ASSUME NEW m \in DOMAIN Image, m.kernel # None => HasHashes(m), m.vmm # "KRUN",
         NEW hash \in {{}, {calc_snp_ovmf_hash(Image[m]).ld}}
  PROVE  snp_calc_launch_digest(Args(m, Image[m], hash)) = Gctx(Measured(m))
<1>1. IsMachine(m)
  BY MachineIsRead
<1>2. SaveAreas(m) = AreaPages(m)
  BY <1>1, SaveAreasAre
<1> QED
  BY <1>2, DigestIs DEF Measured

(* snp_calc_launch_digest, of the image that a machine is launched from or  *)
(* of its hash, is what the VMM's pages and the machine's save areas come   *)
(* to: for any image built as OVMF is, wherever its metadata lies and       *)
(* whatever else is in its footer table, any sections in any order, any     *)
(* kernel and number of CPUs, and QEMU or EC2.  QEMU's save areas are those *)
(* that the calls of Vmsa make, EC2's what build_save_area has of them.     *)
THEOREM MeasurementIsPredicted == Predicted
<1>1. ASSUME NEW m \in {k \in Machines : k.vmm # "KRUN"}
      PROVE  m \in DOMAIN Image /\ m.vmm # "KRUN" /\ (m.kernel # None => HasHashes(m))
  BY MachinesAssumption
<1> QED
  BY <1>1, DigestIsMeasured DEF Predicted

-----------------------------------------------------------------------------
(* What is read of any file, an image or not. *)

(* A table of the walk has the data of entries. *)
IsTable(w) == w = Failed \/ (w.ok = TRUE /\ \A g \in DOMAIN w.table : w.table[g] \in Seq(Nat))

(* An error is not Ok. *)
LEMMA FailedIs == Failed.ok = FALSE
BY DEF Failed

(* The empty table is one. *)
LEMMA NothingIsTable == IsTable(Nothing)
<1>1. Nothing.ok = TRUE /\ DOMAIN Nothing.table = {}
  BY DEF Nothing
<1> QED
  BY <1>1 DEF IsTable

(* An insertion keeps a table one. *)
LEMMA InsertedIsTable ==
  ASSUME NEW w, IsTable(w), NEW guid, NEW data \in Seq(Nat)
  PROVE  IsTable(Inserted(w, guid, data))
<1> DEFINE known == DOMAIN w.table
           table == [g \in known \cup {guid} |-> IF g \in known THEN w.table[g] ELSE data]
<1>1. Inserted(w, guid, data) = IF w.ok THEN [ok |-> TRUE, table |-> table] ELSE Failed
  BY DEF Inserted
<1>2. CASE w = Failed
  BY <1>1, <1>2, FailedIs DEF IsTable
<1>3. CASE w.ok = TRUE /\ \A g \in DOMAIN w.table : w.table[g] \in Seq(Nat)
  <2>1. \A g \in DOMAIN table : table[g] \in Seq(Nat)
    BY <1>3
  <2> HIDE DEF table
  <2>2. Inserted(w, guid, data) = [ok |-> TRUE, table |-> table]
    BY <1>1, <1>3
  <2>3. [ok |-> TRUE, table |-> table].ok = TRUE /\ [ok |-> TRUE, table |-> table].table = table
    OBVIOUS
  <2> QED
    BY <2>1, <2>2, <2>3 DEF IsTable
<1> QED
  BY <1>2, <1>3 DEF IsTable

(* A walk over any bytes ends in a table, or fails. *)
LEMMA WalkIsTable ==
  ASSUME NEW bytes \in Seq(Nat)
  PROVE  IsTable(Walk(bytes))
<1> DEFINE N == Len(bytes)
<1>1. PICK walk : IsWalk(bytes, N, walk) /\ Walk(bytes) = walk[N]
  BY WalkExists
<1>2. \A n \in 0 .. N : walk[n] = WalkStep(bytes, walk, n)
  BY <1>1 DEF IsWalk
<1>3. N \in Nat
  OBVIOUS
<1> DEFINE T == {n \in 0 .. N : ~ IsTable(walk[n])}
<1>4. T = {}
  <2> SUFFICES ASSUME T # {} PROVE FALSE
    OBVIOUS
  <2>1. T \subseteq Nat
    BY <1>3
  <2>2. PICK n \in T : \A k \in T : n <= k
    <3> HIDE DEF T
    <3> QED
      BY <2>1, LeastOf
  <2>3. n \in 0 .. N /\ ~ IsTable(walk[n]) /\ \A k \in 0 .. N : k < n => IsTable(walk[k])
    <3>1. \A k \in 0 .. N : k < n => ~ (n <= k)
      BY <2>1
    <3> QED
      BY <2>2, <3>1
  <2> HIDE DEF T
  <2> DEFINE size == bytes[n - 1]
  <2>4. CASE n < 2
    BY <1>2, <2>3, <2>4, WalkCases, NothingIsTable
  <2>5. CASE n >= 2
    <3>1. size \in Nat
      BY <2>3, <2>5, WalkCases
    <3>2. CASE size < 2
      <4>1. walk[n] = Failed
        BY <1>2, <2>3, <2>5, <3>2, WalkCases
      <4> QED
        BY <2>3, <4>1 DEF IsTable
    <3>3. CASE size > n
      <4>1. walk[n] = Nothing
        BY <1>2, <2>3, <2>5, <3>3, WalkCases
      <4> QED
        BY <2>3, <4>1, NothingIsTable
    <3>4. CASE size >= 2 /\ size <= n
      <4> DEFINE data == SubSeq(bytes, (n - size) + 1, n - 2)
      <4>1. walk[n] = Inserted(walk[n - size], bytes[n], data)
        BY <1>2, <2>3, <2>5, <3>4, WalkCases
      <4> HIDE DEF size
      <4>2. n - size \in 0 .. N /\ n - size < n
        BY <1>3, <2>3, <3>1, <3>4
      <4>3. data \in Seq(Nat)
        <5>1. n - size \in Nat /\ n - 2 \in Int /\ n - 2 <= Len(bytes) /\ n - 2 >= n - size
          BY <1>3, <2>3, <2>5, <3>1, <3>4
        <5>2. IsCut(Nat, bytes, n - size, n - 2, data)
          BY <5>1 DEF IsCut
        <5> QED
          BY <5>2, PieceAtIs
      <4> HIDE DEF data
      <4> QED
        BY <2>3, <4>1, <4>2, <4>3, InsertedIsTable
    <3> QED
      BY <2>3, <3>1, <3>2, <3>3, <3>4
  <2> QED
    BY <2>3, <2>4, <2>5
<1> QED
  BY <1>1, <1>3, <1>4

(* A file ends as an image does. *)
HasFooter(file) == Len(file) >= 3 /\ file[Len(file) - 1] = OVMF_TABLE_FOOTER_GUID

(* So does parse_footer_table for any file, and it is Ok only if the        *)
(* footer's GUID is at its place.                                           *)
LEMMA FooterIsTable ==
  ASSUME NEW file \in Seq(Nat)
  PROVE  /\ IsTable(parse_footer_table(file))
         /\ parse_footer_table(file) # Failed => HasFooter(file)
<1> DEFINE L == Len(file)
           size == file[L - 2]
           w == parse_footer_table(file)
           bytes == SubSeq(file, ((L - 3) - (size - 2)) + 1, L - 3)
<1>1. L \in Nat
  OBVIOUS
<1>2. L - 3 + 1 = L - 2 /\ L - 3 + 2 = L - 1 /\ L - 1 - 2 = L - 3
  BY <1>1
<1>3. w = IF L - 3 >= 0 /\ file[L - 1] = OVMF_TABLE_FOOTER_GUID /\ size >= 2 /\ size - 2 <= L - 3
            THEN Walk(bytes) ELSE Failed
  BY <1>2 DEF parse_footer_table, Entry, Slice, FOOTER_TO_END, ENTRY_HEADER_SIZE
<1> HIDE DEF w
<1>4. CASE L - 3 >= 0 /\ file[L - 1] = OVMF_TABLE_FOOTER_GUID /\ size >= 2 /\ size - 2 <= L - 3
  <2>1. size \in Nat
    <3>1. L - 2 \in 1 .. L
      BY <1>1, <1>4
    <3> QED
      BY <3>1
  <2> HIDE DEF size
  <2>2. bytes \in Seq(Nat)
    <3>1. (L - 3) - (size - 2) \in Nat /\ L - 3 \in Int /\ L - 3 <= L /\ L - 3 >= (L - 3) - (size - 2)
      BY <1>1, <1>4, <2>1
    <3>2. IsCut(Nat, file, (L - 3) - (size - 2), L - 3, bytes)
      BY <3>1 DEF IsCut
    <3> QED
      BY <3>2, PieceAtIs
  <2> HIDE DEF bytes
  <2>3. w = Walk(bytes)
    BY <1>3, <1>4
  <2>4. HasFooter(file)
    BY <1>1, <1>4 DEF HasFooter
  <2> QED
    BY <2>2, <2>3, <2>4, WalkIsTable DEF w
<1>5. CASE ~ (L - 3 >= 0 /\ file[L - 1] = OVMF_TABLE_FOOTER_GUID /\ size >= 2 /\ size - 2 <= L - 3)
  <2>1. w = Failed
    BY <1>3, <1>5
  <2> QED
    BY <2>1 DEF w, IsTable
<1> QED
  BY <1>4, <1>5

(* The metadata of a file is Failed, or has sections. *)
LEMMA ItemsAreSections ==
  ASSUME NEW file \in Seq(Nat), NEW hs \in Nat, hs + 4 <= Len(file)
  PROVE  \/ Items(file, hs) = Failed
         \/ Items(file, hs).ok = TRUE /\ Items(file, hs).items \in Sections
<1> DEFINE N == file[hs + 4]
           size == file[hs + 2]
           items == Slice(file, hs + 4, hs + size)
           Desc(i) == Slice(items, (i - 1) * 3, i * 3)
           list == [i \in 1 .. N |-> [gpa |-> Desc(i)[1], size |-> Desc(i)[2],
                                      section_type |-> SectionType[Desc(i)[3]]]]
           good == /\ file[hs + 1] = ASEV /\ file[hs + 3] = 1
                   /\ size >= 4 /\ hs + size <= Len(file)
                   /\ N * 3 <= Len(items)
                   /\ \A i \in 1 .. N : Desc(i)[3] \in DOMAIN SectionType
<1>1. Items(file, hs) = IF good THEN [ok |-> TRUE, items |-> list] ELSE Failed
  BY DEF Items, METADATA_HEADER_SIZE, SECTION_DESC_SIZE
<1>2. N \in Nat /\ size \in Nat
  <2>1. hs + 4 \in 1 .. Len(file) /\ hs + 2 \in 1 .. Len(file)
    OBVIOUS
  <2> QED
    BY <2>1
<1> HIDE DEF N, size
<1>3. CASE good
  <2>1. items \in Seq(Nat)
    <3>1. hs + 4 \in Nat /\ hs + size \in Int /\ hs + size <= Len(file) /\ hs + size >= hs + 4
      BY <1>2, <1>3
    <3>2. IsCut(Nat, file, hs + 4, hs + size, items)
      BY <3>1 DEF IsCut, Slice
    <3> QED
      BY <3>2, PieceAtIs
  <2> HIDE DEF items
  <2>2. N * 3 <= Len(items) /\ Len(items) \in Nat
    BY <1>3, <2>1
  <2>3. ASSUME NEW i \in 1 .. N
        PROVE  Desc(i) \in Seq(Nat) /\ Len(Desc(i)) = 3 /\ Desc(i)[3] \in DOMAIN SectionType
    <3>1. (i - 1) * 3 \in Nat /\ i * 3 \in Int /\ i * 3 <= Len(items) /\ i * 3 >= (i - 1) * 3
          /\ i * 3 - (i - 1) * 3 = 3
      BY <1>2, <2>2
    <3>2. IsCut(Nat, items, (i - 1) * 3, i * 3, Desc(i))
      BY <2>1, <3>1 DEF IsCut, Slice
    <3>3. Desc(i)[3] \in DOMAIN SectionType
      BY <1>3
    <3> HIDE DEF Desc
    <3>4. Desc(i) \in Seq(Nat) /\ Len(Desc(i)) = i * 3 - (i - 1) * 3
      BY <3>2, PieceAtIs
    <3> QED
      BY <3>1, <3>3, <3>4
  <2> HIDE DEF Desc
  <2>4. ASSUME NEW c \in DOMAIN SectionType PROVE SectionType[c] \in SectionTypes
    BY DEF SectionType, SectionTypes
  <2>5. ASSUME NEW i \in 1 .. N
        PROVE  [gpa |-> Desc(i)[1], size |-> Desc(i)[2], section_type |-> SectionType[Desc(i)[3]]]
                 \in [gpa : Nat, size : Nat, section_type : SectionTypes]
    <3>1. Desc(i)[1] \in Nat /\ Desc(i)[2] \in Nat
      BY <2>3, SMTT(40)
    <3>2. SectionType[Desc(i)[3]] \in SectionTypes
      BY <2>3, <2>4
    <3> QED
      BY <3>1, <3>2
  <2>6. list \in Sections
    BY <1>2, <2>5 DEF Sections
  <2> HIDE DEF list
  <2>7. Items(file, hs) = [ok |-> TRUE, items |-> list]
    <3> HIDE DEF good
    <3> QED
      BY <1>1, <1>3
  <2>8. [ok |-> TRUE, items |-> list].ok = TRUE /\ [ok |-> TRUE, items |-> list].items = list
    OBVIOUS
  <2> QED
    BY <2>6, <2>7, <2>8
<1> HIDE DEF good, list
<1> QED
  BY <1>1, <1>3

(* ovmf is what OVMF::new has read of a file. *)
IsAnyRead(ovmf, file) ==
  /\ ovmf.ok = TRUE /\ ovmf.data = file /\ ovmf.metadata_items \in Sections
  /\ HasFooter(file)
  /\ \A guid : table_u32(ovmf, guid) \subseteq Nat

(* OVMF::new fails, or has read sections and a table. *)
LEMMA FileIsRead ==
  ASSUME NEW file \in Seq(Nat)
  PROVE  OVMF_new(file) = Failed \/ IsAnyRead(OVMF_new(file), file)
<1> DEFINE o == OVMF_new(file)
           w == parse_footer_table(file)
           G == OVMF_SEV_META_DATA_GUID
           hs == Len(file) - w.table[G][1]
           md == parse_sev_metadata(file, w.table)
<1>1. o = IF w.ok /\ md.ok
            THEN [ok |-> TRUE, data |-> file, table |-> w.table, metadata_items |-> md.items]
            ELSE Failed
  BY DEF OVMF_new
<1>2. IsTable(w) /\ (w # Failed => HasFooter(file))
  BY FooterIsTable
<1>3. md = IF /\ G \in DOMAIN w.table /\ w.table[G] # <<>>
              /\ hs >= 0 /\ hs + 4 <= Len(file)
             THEN Items(file, hs) ELSE Failed
  BY DEF parse_sev_metadata, METADATA_HEADER_SIZE
<1> HIDE DEF w, md, o
<1>4. CASE w.ok /\ md.ok
  <2>1. w # Failed /\ md # Failed
    BY <1>4, FailedIs
  <2>2. w.ok = TRUE /\ \A g \in DOMAIN w.table : w.table[g] \in Seq(Nat)
    BY <1>2, <2>1 DEF IsTable
  <2>3. /\ G \in DOMAIN w.table /\ w.table[G] # <<>> /\ hs >= 0 /\ hs + 4 <= Len(file)
        /\ md = Items(file, hs)
    BY <1>3, <2>1, Zenon
  <2>4. hs \in Nat
    <3> DEFINE t == w.table[G]
    <3>1. t \in Seq(Nat) /\ t # <<>>
      BY <2>2, <2>3
    <3> HIDE DEF t
    <3>2. t[1] \in Nat
      BY <3>1
    <3> QED
      BY <2>3, <3>2 DEF t
  <2> HIDE DEF hs
  <2>5. md.items \in Sections
    BY <2>1, <2>3, <2>4, ItemsAreSections
  <2>6. o = [ok |-> TRUE, data |-> file, table |-> w.table, metadata_items |-> md.items]
    BY <1>1, <1>4
  <2>7. o.ok = TRUE /\ o.data = file /\ o.table = w.table /\ o.metadata_items = md.items
    BY <2>6
  <2>8. ASSUME NEW guid PROVE table_u32(o, guid) \subseteq Nat
    <3> DEFINE t == o.table[guid]
    <3>1. table_u32(o, guid) = IF guid \in DOMAIN o.table /\ t # <<>> THEN {t[1]} ELSE {}
      BY DEF table_u32
    <3>2. guid \in DOMAIN o.table => t \in Seq(Nat)
      BY <2>2, <2>7
    <3> HIDE DEF t
    <3>3. ASSUME t \in Seq(Nat), t # <<>> PROVE t[1] \in Nat
      BY <3>3
    <3> QED
      BY <3>1, <3>2, <3>3
  <2> QED
    BY <1>2, <2>1, <2>5, <2>7, <2>8 DEF IsAnyRead, o
<1>5. CASE ~ (w.ok /\ md.ok)
  BY <1>1, <1>5 DEF o
<1> QED
  BY <1>4, <1>5

-----------------------------------------------------------------------------
(* What is measured with any file. *)

(* f goes through the elements of G from g on, by step.                     *)
AreSteps(f, N, G, g, step) ==
  /\ f \in [0 .. N -> G]
  /\ f[0] = g
  /\ \A n \in 1 .. N : f[n] = step[<<f[n - 1], n>>]

(* A function can be defined from its value at 0 and from step to step.     *)
LEMMA StepsExist ==
  ASSUME NEW N \in Nat, NEW G, NEW g \in G, NEW step \in [G \X (1 .. N) -> G]
  PROVE  \E f : AreSteps(f, N, G, g, step)
<1> DEFINE Up(k, f) == f[0] = g /\ \A n \in 1 .. k : f[n] = step[<<f[n - 1], n>>]
           S == {k \in 0 .. N : \E f \in [0 .. k -> G] : Up(k, f)}
<1>1. 0 \in S
  <2> DEFINE f == [n \in 0 .. 0 |-> g]
  <2>1. f \in [0 .. 0 -> G] /\ f[0] = g /\ 1 .. 0 = {}
    OBVIOUS
  <2> HIDE DEF f
  <2> QED
    BY <2>1
<1>2. ASSUME NEW k \in S, k \in Nat, k < N PROVE k + 1 \in S
  <2>1. PICK f \in [0 .. k -> G] : Up(k, f)
    OBVIOUS
  <2> DEFINE e == [n \in 0 .. k + 1 |-> IF n = k + 1 THEN step[<<f[k], k + 1>>] ELSE f[n]]
  <2>2. k + 1 \in 1 .. N /\ f[k] \in G
    BY <1>2
  <2>3. step[<<f[k], k + 1>>] \in G
    BY <2>2
  <2>4. e \in [0 .. k + 1 -> G]
    <3>1. ASSUME NEW n \in 0 .. k + 1, n # k + 1 PROVE n \in 0 .. k
      BY <1>2, <3>1
    <3> QED
      BY <2>3, <3>1
  <2>5. \A n \in 0 .. k : e[n] = f[n]
    BY <1>2
  <2>6. e[k + 1] = step[<<f[k], k + 1>>]
    BY <1>2
  <2> HIDE DEF e
  <2>7. e[0] = g
    BY <1>2, <2>1, <2>5
  <2>8. ASSUME NEW n \in 1 .. k + 1 PROVE e[n] = step[<<e[n - 1], n>>]
    <3>1. CASE n = k + 1
      <4>1. e[n - 1] = f[k]
        BY <1>2, <2>5, <3>1
      <4> QED
        BY <2>6, <3>1, <4>1
    <3>2. CASE n # k + 1
      <4>1. n \in 1 .. k /\ n \in 0 .. k /\ n - 1 \in 0 .. k
        BY <1>2, <3>2
      <4> QED
        BY <2>1, <2>5, <4>1
    <3> QED
      BY <3>1, <3>2
  <2>9. k + 1 \in 0 .. N
    BY <1>2
  <2> QED
    BY <2>4, <2>7, <2>8, <2>9
<1>3. 0 .. N \subseteq S
  <2> HIDE DEF S
  <2> QED
    BY <1>1, <1>2, InductionTo
<1>4. N \in S
  <2>1. N \in 0 .. N
    OBVIOUS
  <2> HIDE DEF S
  <2> QED
    BY <1>3, <2>1
<1>5. PICK f \in [0 .. N -> G] : Up(N, f)
  BY <1>4
<1> QED
  BY <1>5 DEF AreSteps

(* A page with the hashes of what m boots, where the file o has them. *)
IsHashPage(contents, m, o) ==
  /\ m.kernel # None
  /\ \E at \in sev_hashes_table_gpa(o) :
       contents = construct_page(SevHashes(m.kernel, m.initrd, m.append), at % PAGE)

(* Pages that are measured after the image. *)
IsRest(y, m, o) ==
  /\ y \in Seq(PageInfos)
  /\ \A j \in 1 .. Len(y) :
       /\ y[j].page_type # "Vmsa"
       /\ y[j].page_type = "Normal" => IsHashPage(y[j].contents, m, o)

HasNormal(y) == \E j \in 1 .. Len(y) : y[j].page_type = "Normal"

(* The fields of a page info. *)
LEMMA PageInfoIs ==
  ASSUME NEW type, NEW gpa, NEW contents
  PROVE  /\ PageInfo(type, gpa, contents).page_type = type /\ PageInfo(type, gpa, contents).gpa = gpa
         /\ PageInfo(type, gpa, contents).contents = contents
BY DEF PageInfo

(* No pages at all. *)
LEMMA NoRest ==
  ASSUME NEW m, NEW o
  PROVE  IsRest(<<>>, m, o)
<1>1. <<>> \in Seq(PageInfos) /\ 1 .. Len(<<>>) = {}
  OBVIOUS
<1> QED
  BY <1>1 DEF IsRest

(* One page. *)
LEMMA OneRest ==
  ASSUME NEW m, NEW o, NEW p \in PageInfos, p.page_type # "Vmsa",
         p.page_type = "Normal" => IsHashPage(p.contents, m, o)
  PROVE  IsRest(<<p>>, m, o) /\ (p.page_type = "Normal" => HasNormal(<<p>>))
<1>1. <<p>> \in Seq(PageInfos) /\ Len(<<p>>) = 1 /\ <<p>>[1] = p /\ 1 .. 1 = {1} /\ 1 \in {1}
  OBVIOUS
<1> QED
  BY <1>1, Zenon DEF IsRest, HasNormal

(* Zero pages. *)
LEMMA ZeroRest ==
  ASSUME NEW m, NEW o, NEW d, d.gpa \in Nat, d.size \in Nat
  PROVE  IsRest(ZeroPages(d), m, o)
<1> DEFINE y == ZeroPages(d)
           k == d.size \div PAGE
<1>1. y \in Seq(PageInfos)
  BY ZeroPagesIn
<1>2. y = [i \in 1 .. k |-> PageInfo("Zero", d.gpa + (i - 1) * PAGE, ZEROS)]
  BY DEF ZeroPages
<1>3. k \in Nat
  BY PageAssumption, DivMod
<1> HIDE DEF k, y
<1>4. Len(y) = k
  BY <1>2, <1>3
<1>5. ASSUME NEW j \in 1 .. Len(y) PROVE y[j].page_type = "Zero"
  <2>1. y[j] = PageInfo("Zero", d.gpa + (j - 1) * PAGE, ZEROS)
    BY <1>2, <1>4
  <2> QED
    BY <2>1, PageInfoIs
<1>6. "Zero" # "Vmsa" /\ "Zero" # "Normal"
  OBVIOUS
<1> QED
  BY <1>1, <1>5, <1>6 DEF IsRest, y

(* Some pages, then others. *)
LEMMA MoreRest ==
  ASSUME NEW m, NEW o, NEW y, IsRest(y, m, o), NEW z, IsRest(z, m, o)
  PROVE  /\ IsRest(y \o z, m, o)
         /\ (HasNormal(y) \/ HasNormal(z)) => HasNormal(y \o z)
<1> DEFINE w == y \o z
<1>1. y \in Seq(PageInfos) /\ z \in Seq(PageInfos)
  BY DEF IsRest
<1>2. Parts(PageInfos, w, y, z)
  BY <1>1, PartsOf
<1> HIDE DEF w
<1>3. w \in Seq(PageInfos) /\ Len(y) \in Nat /\ Len(z) \in Nat /\ Len(w) = Len(y) + Len(z)
  BY <1>2 DEF Parts
<1>4. ASSUME NEW j \in 1 .. Len(w)
      PROVE  (\E i \in 1 .. Len(y) : w[j] = y[i]) \/ (\E i \in 1 .. Len(z) : w[j] = z[i])
  <2>1. CASE j <= Len(y)
    <3>1. j \in 1 .. Len(y)
      BY <1>3, <2>1
    <3> QED
      BY <1>2, <3>1 DEF Parts
  <2>2. CASE j > Len(y)
    <3>1. j - Len(y) \in 1 .. Len(z) /\ j = Len(y) + (j - Len(y))
      BY <1>3, <2>2
    <3> QED
      BY <1>2, <3>1 DEF Parts
  <2> QED
    BY <1>3, <2>1, <2>2
<1>5. IsRest(w, m, o)
  BY <1>3, <1>4 DEF IsRest
<1>6. ASSUME HasNormal(y) PROVE HasNormal(w)
  <2>1. PICK j \in 1 .. Len(y) : y[j].page_type = "Normal"
    BY <1>6 DEF HasNormal
  <2>2. j \in 1 .. Len(w) /\ w[j] = y[j]
    BY <1>2, <1>3 DEF Parts
  <2> QED
    BY <2>1, <2>2 DEF HasNormal
<1>7. ASSUME HasNormal(z) PROVE HasNormal(w)
  <2>1. PICK j \in 1 .. Len(z) : z[j].page_type = "Normal"
    BY <1>7 DEF HasNormal
  <2>2. Len(y) + j \in 1 .. Len(w) /\ w[Len(y) + j] = z[j]
    BY <1>2, <1>3 DEF Parts
  <2> QED
    BY <2>1, <2>2 DEF HasNormal
<1> QED
  BY <1>5, <1>6, <1>7 DEF w

(* A page of hashes is a page. *)
LEMMA ConstructedIs ==
  ASSUME NEW m, IsMachine(m), m.kernel # None, NEW r \in Nat
  PROVE  LET page == construct_page(SevHashes(m.kernel, m.initrd, m.append), r)
         IN  page \in Seq(Nat) /\ Len(page) = PAGE
<1> DEFINE h == SevHashes(m.kernel, m.initrd, m.append)
           t == construct_table(h)
           k == h.kernel
           i == h.initrd
           c == h.cmdline
           page == construct_page(h, r)
<1>1. k \in Nat /\ i \in Nat /\ c \in Nat
  BY DEF IsMachine, Hash
<1>2. t = <<SEV_HASH_TABLE_HEADER_GUID, c, i, k>>
  BY DEF construct_table
<1> HIDE DEF k, i, c
<1>3. t \in Seq(Nat) /\ Len(t) = 4
  BY <1>1, <1>2 DEF SEV_HASH_TABLE_HEADER_GUID
<1>4. page = [j \in 1 .. PAGE |-> IF j > r /\ j <= r + Len(t) THEN t[j - r] ELSE 0]
  BY DEF construct_page
<1> HIDE DEF t, page
<1>5. ASSUME NEW j \in 1 .. PAGE
      PROVE  (IF j > r /\ j <= r + Len(t) THEN t[j - r] ELSE 0) \in Nat
  <2>1. CASE j > r /\ j <= r + Len(t)
    <3>1. j - r \in 1 .. Len(t)
      BY <1>3, <2>1, PageAssumption
    <3>2. t[j - r] \in Nat
      BY <1>3, <3>1, ElementOfSeq
    <3> QED
      BY <3>2
  <2>2. CASE ~ (j > r /\ j <= r + Len(t))
    BY <2>2
  <2> QED
    BY <2>1, <2>2
<1>6. PAGE \in Nat
  BY PageAssumption
<1>7. page \in [1 .. PAGE -> Nat]
  BY <1>4, <1>5
<1>8. page \in Seq(Nat) /\ Len(page) = PAGE
  BY <1>6, <1>7
<1> QED
  BY <1>8 DEF page

(* The digests that come of sections: ld, and the rest after it. *)
Digests == {Failed} \cup {Gctx(ld) : ld \in Seq(PageInfos)}

Adds(g, ld, m, o, some) ==
  \/ g = Failed
  \/ \E y : IsRest(y, m, o) /\ g = Gctx(ld \o y) /\ (some => HasNormal(y))

(* What adds to a digest gives one, or fails. *)
LEMMA AddsIn ==
  ASSUME NEW g, NEW ld \in Seq(PageInfos), NEW m, NEW o, NEW some, Adds(g, ld, m, o, some)
  PROVE  g \in Digests
<1>1. ASSUME NEW y, IsRest(y, m, o) PROVE ld \o y \in Seq(PageInfos)
  <2>1. y \in Seq(PageInfos)
    BY <1>1 DEF IsRest
  <2> QED
    BY <2>1, ConcatProperties
<1> QED
  BY <1>1 DEF Adds, Digests

(* To add, and then to add more. *)
LEMMA AddsMore ==
  ASSUME NEW ld \in Seq(PageInfos), NEW m, NEW o, NEW y, IsRest(y, m, o), NEW a, a => HasNormal(y),
         NEW g, NEW b, Adds(g, ld \o y, m, o, b), NEW some, some => a \/ b
  PROVE  Adds(g, ld, m, o, some)
<1>1. CASE g = Failed
  BY <1>1 DEF Adds
<1>2. CASE \E z : IsRest(z, m, o) /\ g = Gctx((ld \o y) \o z) /\ (b => HasNormal(z))
  <2>1. PICK z : IsRest(z, m, o) /\ g = Gctx((ld \o y) \o z) /\ (b => HasNormal(z))
    BY <1>2
  <2>2. y \in Seq(PageInfos) /\ z \in Seq(PageInfos)
    BY <2>1 DEF IsRest
  <2>3. (ld \o y) \o z = ld \o (y \o z)
    BY <2>2, ConcatAssoc
  <2>4. IsRest(y \o z, m, o) /\ (HasNormal(y) \/ HasNormal(z) => HasNormal(y \o z))
    BY <2>1, MoreRest
  <2>5. g = Gctx(ld \o (y \o z))
    BY <2>1, <2>3
  <2>6. some => HasNormal(y \o z)
    BY <2>1, <2>4
  <2> QED
    BY <2>4, <2>5, <2>6 DEF Adds
<1> QED
  BY <1>1, <1>2 DEF Adds

IsSection(d) == d.gpa \in Nat /\ d.size \in Nat /\ d.section_type \in SectionTypes

(* Zero pages add no table of hashes. *)
LEMMA AddsZero ==
  ASSUME NEW ld \in Seq(PageInfos), NEW m, NEW o, NEW d, IsSection(d), NEW some, ~some
  PROVE  Adds(update_page(Gctx(ld), "Zero", d.gpa, <<>>, d.size), ld, m, o, some)
<1>1. CASE d.size % PAGE = 0
  <2>1. update_page(Gctx(ld), "Zero", d.gpa, <<>>, d.size) = Gctx(ld \o ZeroPages(d))
    BY <1>1, UpdateZero
  <2>2. IsRest(ZeroPages(d), m, o)
    BY ZeroRest DEF IsSection
  <2> QED
    BY <2>1, <2>2 DEF Adds
<1>2. CASE d.size % PAGE # 0
  <2>1. update_page(Gctx(ld), "Zero", d.gpa, <<>>, d.size) = Failed
    BY <1>2 DEF update_page
  <2> QED
    BY <2>1 DEF Adds
<1> QED
  BY <1>1, <1>2

(* Neither do secrets and CPUID. *)
LEMMA AddsOther ==
  ASSUME NEW ld \in Seq(PageInfos), NEW m, NEW o, NEW d, IsSection(d), NEW type \in {"Secrets", "Cpuid"},
         NEW some, ~some
  PROVE  Adds(update_page(Gctx(ld), type, d.gpa, <<>>, 0), ld, m, o, some)
<1> DEFINE p == PageInfo(type, d.gpa, ZEROS)
<1>1. d.gpa \in Nat
  BY DEF IsSection
<1>2. update_page(Gctx(ld), type, d.gpa, <<>>, 0) = Gctx(ld \o <<p>>) /\ p \in PageInfos
  BY <1>1, UpdateOther
<1>3. p.page_type # "Vmsa" /\ p.page_type # "Normal"
  BY PageInfoIs
<1> HIDE DEF p
<1>4. IsRest(<<p>>, m, o)
  BY <1>2, <1>3, OneRest
<1> QED
  BY <1>2, <1>4 DEF Adds

(* The hashes, of what m boots, for a section of any file. *)
BootsAt(d, m) == d.section_type = "SnpKernelHashes" /\ m.kernel # None

(* snp_update_kernel_hashes adds the table of what is booted, or fails. *)
LEMMA AddsHashes ==
  ASSUME NEW ld \in Seq(PageInfos), NEW m, IsMachine(m), NEW o, NEW file, IsAnyRead(o, file),
         NEW d, IsSection(d)
  PROVE  Adds(snp_update_kernel_hashes(Gctx(ld), o, BootHashes(m), d.gpa, d.size), ld, m, o,
              m.kernel # None)
<1> DEFINE g == snp_update_kernel_hashes(Gctx(ld), o, BootHashes(m), d.gpa, d.size)
           h == SevHashes(m.kernel, m.initrd, m.append)
           gpas == sev_hashes_table_gpa(o)
<1>1. CASE m.kernel = None
  <2>1. BootHashes(m) = {}
    BY <1>1 DEF BootHashes
  <2>2. g = update_page(Gctx(ld), "Zero", d.gpa, <<>>, d.size)
    BY <2>1 DEF snp_update_kernel_hashes
  <2> HIDE DEF g
  <2> QED
    BY <1>1, <2>2, AddsZero DEF g
<1>2. CASE m.kernel # None /\ gpas # {} /\ d.size = PAGE
  <2> DEFINE at == CHOOSE a \in gpas : TRUE
             page == construct_page(h, at % PAGE)
             p == PageInfo("Normal", d.gpa, page)
  <2>1. BootHashes(m) = {h} /\ (CHOOSE x \in {h} : TRUE) = h
    BY <1>2 DEF BootHashes
  <2>2. g = update_page(Gctx(ld), "Normal", d.gpa, page, PAGE)
    <3> HIDE DEF h
    <3> QED
      BY <1>2, <2>1 DEF snp_update_kernel_hashes
  <2>3. at \in gpas /\ at \in Nat
    <3>1. gpas \subseteq Nat
      BY DEF IsAnyRead, sev_hashes_table_gpa
    <3>2. at \in gpas
      BY <1>2
    <3> QED
      BY <3>1, <3>2
  <2>4. at % PAGE \in Nat
    BY <2>3, PageAssumption, DivMod
  <2> HIDE DEF at, gpas
  <2>5. page \in Seq(Nat) /\ Len(page) = PAGE
    BY <1>2, <2>4, ConstructedIs
  <2>6. IsHashPage(page, m, o)
    BY <1>2, <2>3 DEF IsHashPage, gpas
  <2> HIDE DEF page, g
  <2>7. d.gpa \in Nat
    BY DEF IsSection
  <2>8. g = Gctx(ld \o <<p>>)
    BY <2>2, <2>5, <2>7, UpdateNormal
  <2>9. p.page_type = "Normal" /\ p.contents = page
    BY PageInfoIs
  <2>10. p \in PageInfos
    BY <2>5, <2>7 DEF PageInfo, PageInfos
  <2> HIDE DEF p
  <2>11. IsRest(<<p>>, m, o) /\ HasNormal(<<p>>)
    BY <2>6, <2>9, <2>10, OneRest
  <2> QED
    BY <2>8, <2>11 DEF Adds, g
<1>3. CASE m.kernel # None /\ ~ (gpas # {} /\ d.size = PAGE)
  <2>1. BootHashes(m) # {}
    BY <1>3 DEF BootHashes
  <2>2. g = Failed
    BY <1>3, <2>1 DEF snp_update_kernel_hashes
  <2> QED
    BY <2>2 DEF Adds
<1> QED
  BY <1>1, <1>2, <1>3

(* A section adds pages of its type, or fails. *)
LEMMA AddsSection ==
  ASSUME NEW ld \in Seq(PageInfos), NEW m, IsMachine(m), NEW o, NEW file, IsAnyRead(o, file),
         NEW d, IsSection(d), NEW vmm
  PROVE  Adds(snp_update_section(Gctx(ld), d, o, BootHashes(m), vmm), ld, m, o, BootsAt(d, m))
<1> DEFINE g == snp_update_section(Gctx(ld), d, o, BootHashes(m), vmm)
<1>1. CASE d.section_type = "SnpSecMemory"
  <2>1. g = update_page(Gctx(ld), "Zero", d.gpa, <<>>, d.size) /\ ~ BootsAt(d, m)
    BY <1>1 DEF snp_update_section, BootsAt
  <2> HIDE DEF g
  <2> QED
    BY <2>1, AddsZero DEF g
<1>2. CASE d.section_type = "SnpSecrets"
  <2>1. g = update_page(Gctx(ld), "Secrets", d.gpa, <<>>, 0) /\ ~ BootsAt(d, m)
    BY <1>2 DEF snp_update_section, BootsAt
  <2> HIDE DEF g
  <2> QED
    BY <2>1, AddsOther DEF g
<1>3. CASE d.section_type = "CPUID" /\ vmm # "EC2"
  <2>1. g = update_page(Gctx(ld), "Cpuid", d.gpa, <<>>, 0) /\ ~ BootsAt(d, m)
    BY <1>3 DEF snp_update_section, BootsAt
  <2> HIDE DEF g
  <2> QED
    BY <2>1, AddsOther DEF g
<1>4. CASE d.section_type = "CPUID" /\ vmm = "EC2"
  <2>1. g = Gctx(ld) /\ ~ BootsAt(d, m)
    BY <1>4 DEF snp_update_section, BootsAt
  <2>2. ld \o <<>> = ld
    BY ConcatEmptySeq
  <2> HIDE DEF g
  <2>3. g = Gctx(ld \o <<>>)
    BY <2>1, <2>2
  <2> QED
    BY <2>1, <2>3, NoRest DEF Adds, g
<1>5. CASE d.section_type = "SnpKernelHashes"
  <2>1. g = snp_update_kernel_hashes(Gctx(ld), o, BootHashes(m), d.gpa, d.size)
    BY <1>5 DEF snp_update_section
  <2>2. BootsAt(d, m) <=> m.kernel # None
    BY <1>5 DEF BootsAt
  <2> HIDE DEF g
  <2>3. Adds(g, ld, m, o, m.kernel # None)
    BY <2>1, AddsHashes
  <2> QED
    BY <2>2, <2>3 DEF Adds, g
<1> QED
  BY <1>1, <1>2, <1>3, <1>4, <1>5 DEF IsSection, SectionTypes

(* Both passes. *)
LEMMA AddsInPasses ==
  ASSUME NEW ld \in Seq(PageInfos), NEW m, IsMachine(m), NEW o, NEW file, IsAnyRead(o, file),
         NEW d, IsSection(d), NEW vmm, NEW g, NEW a, Adds(g, ld, m, o, a), NEW some
  PROVE  /\ (some => a \/ BootsAt(d, m)) =>
              Adds(FirstPass(g, d, o, BootHashes(m), vmm), ld, m, o, some)
         /\ (some => a) => Adds(SecondPass(g, d, vmm), ld, m, o, some)
<1>1. CASE g = Failed
  <2>1. FirstPass(g, d, o, BootHashes(m), vmm) = g /\ SecondPass(g, d, vmm) = g
    BY <1>1, FailedIs DEF FirstPass, SecondPass
  <2> QED
    BY <1>1, <2>1 DEF Adds
<1>2. CASE \E y : IsRest(y, m, o) /\ g = Gctx(ld \o y) /\ (a => HasNormal(y))
  <2>1. PICK y : IsRest(y, m, o) /\ g = Gctx(ld \o y) /\ (a => HasNormal(y))
    BY <1>2
  <2>2. g.ok = TRUE
    BY <2>1, GctxIs
  <2>3. ld \o y \in Seq(PageInfos)
    <3>1. y \in Seq(PageInfos)
      BY <2>1 DEF IsRest
    <3> QED
      BY <3>1, ConcatProperties
  <2> DEFINE x == ld \o y
             g1 == FirstPass(g, d, o, BootHashes(m), vmm)
             g2 == SecondPass(g, d, vmm)
  <2>4. g1 = snp_update_section(Gctx(x), d, o, BootHashes(m), vmm)
    BY <2>1, <2>2 DEF FirstPass
  <2>5. g2 = IF vmm = "EC2" /\ d.section_type = "CPUID"
               THEN update_page(Gctx(x), "Cpuid", d.gpa, <<>>, 0) ELSE Gctx(x)
    BY <2>1, <2>2 DEF SecondPass
  <2> HIDE DEF g1, g2
  <2>6. Adds(g1, x, m, o, BootsAt(d, m))
    BY <2>3, <2>4, AddsSection
  <2>7. Adds(g2, x, m, o, FALSE)
    <3> HIDE DEF x
    <3>1. Adds(update_page(Gctx(x), "Cpuid", d.gpa, <<>>, 0), x, m, o, FALSE)
      BY <2>3, AddsOther DEF x
    <3>2. Adds(Gctx(x), x, m, o, FALSE)
      <4>1. x \o <<>> = x
        BY <2>3, ConcatEmptySeq DEF x
      <4> QED
        BY <4>1, NoRest DEF Adds
    <3> QED
      BY <2>5, <3>1, <3>2
  <2>8. (some => a \/ BootsAt(d, m)) => Adds(g1, ld, m, o, some)
    BY <2>1, <2>6, AddsMore
  <2>9. (some => a) => Adds(g2, ld, m, o, some)
    BY <2>1, <2>7, AddsMore
  <2> QED
    BY <2>8, <2>9 DEF g1, g2
<1> QED
  BY <1>1, <1>2 DEF Adds

(* To add nothing. *)
LEMMA AddsNothing ==
  ASSUME NEW ld \in Seq(PageInfos), NEW m, NEW o, NEW some, ~some
  PROVE  Adds(Gctx(ld), ld, m, o, some)
<1>1. ld \o <<>> = ld
  BY ConcatEmptySeq
<1> QED
  BY <1>1, NoRest DEF Adds

(* Both passes give a digest, or fail. *)
LEMMA PassesIn ==
  ASSUME NEW m, IsMachine(m), NEW o, NEW file, IsAnyRead(o, file), NEW d, IsSection(d), NEW vmm,
         NEW g \in Digests
  PROVE  FirstPass(g, d, o, BootHashes(m), vmm) \in Digests /\ SecondPass(g, d, vmm) \in Digests
<1>1. PICK ld \in Seq(PageInfos) : g = Failed \/ g = Gctx(ld)
  <2>1. <<>> \in Seq(PageInfos)
    OBVIOUS
  <2> QED
    BY <2>1 DEF Digests
<1>2. Adds(g, ld, m, o, FALSE)
  <2>1. CASE g = Failed
    BY <2>1 DEF Adds
  <2>2. CASE g = Gctx(ld)
    BY <2>2, AddsNothing
  <2> QED
    BY <1>1, <2>1, <2>2
<1> DEFINE g1 == FirstPass(g, d, o, BootHashes(m), vmm)
           g2 == SecondPass(g, d, vmm)
<1>3. Adds(g1, ld, m, o, FALSE) /\ Adds(g2, ld, m, o, FALSE)
  BY <1>2, AddsInPasses
<1> HIDE DEF g1, g2
<1>4. g1 \in Digests /\ g2 \in Digests
  BY <1>3, AddsIn
<1> QED
  BY <1>4 DEF g1, g2

(* The first n sections of a file have one for hashes, and a kernel is      *)
(* booted.                                                                  *)
Seen(o, m, n) == m.kernel # None /\ \E i \in 1 .. n : o.metadata_items[i].section_type = "SnpKernelHashes"

(* The section of the hashes was seen before, or is the next. *)
LEMMA SeenMore ==
  ASSUME NEW o, NEW m, NEW n \in Nat
  PROVE  Seen(o, m, n + 1) => Seen(o, m, n) \/ BootsAt(o.metadata_items[n + 1], m)
<1>1. \A i \in 1 .. n + 1 : i \in 1 .. n \/ i = n + 1
  OBVIOUS
<1> QED
  BY <1>1 DEF Seen, BootsAt

(* The loops of snp_update_metadata_pages. *)
IsFirst(f, ld, m, o, vmm) ==
  f = CHOOSE e : e = [n \in 0 .. Len(o.metadata_items) |-> IF n = 0 THEN Gctx(ld)
                        ELSE FirstPass(e[n - 1], o.metadata_items[n], o, BootHashes(m), vmm)]

IsSecond(f, g, o, vmm) ==
  f = CHOOSE e : e = [n \in 0 .. Len(o.metadata_items) |-> IF n = 0 THEN g
                        ELSE SecondPass(e[n - 1], o.metadata_items[n], vmm)]

(* The type of the sections that were read. *)
LEMMA ItemsAreRead ==
  ASSUME NEW o, NEW file, IsAnyRead(o, file)
  PROVE  /\ Len(o.metadata_items) \in Nat
         /\ \A n \in 1 .. Len(o.metadata_items) : IsSection(o.metadata_items[n])
<1> DEFINE items == o.metadata_items
<1>1. items \in Sections
  BY DEF IsAnyRead
<1> HIDE DEF items
<1>2. Len(items) \in Nat /\ \A n \in 1 .. Len(items) : items[n] \in [gpa : Nat, size : Nat, section_type : SectionTypes]
  BY <1>1, LenProperties, ElementOfSeq, Zenon DEF Sections
<1>3. \A d \in [gpa : Nat, size : Nat, section_type : SectionTypes] : IsSection(d)
  BY DEF IsSection
<1> QED
  BY <1>2, <1>3 DEF items

(* The first pass adds no save area, and the table if it has seen its       *)
(* section.                                                                 *)
LEMMA FirstAdds ==
  ASSUME NEW ld \in Seq(PageInfos), NEW m, IsMachine(m), NEW o, NEW file, IsAnyRead(o, file),
         NEW vmm, NEW f, IsFirst(f, ld, m, o, vmm)
  PROVE  Adds(f[Len(o.metadata_items)], ld, m, o, Seen(o, m, Len(o.metadata_items)))
<1> DEFINE items == o.metadata_items
           N == Len(items)
           B == BootHashes(m)
           step == [x \in Digests \X (1 .. N) |-> FirstPass(x[1], items[x[2]], o, B, vmm)]
<1>1. N \in Nat /\ \A n \in 1 .. N : IsSection(items[n])
  BY ItemsAreRead
<1>2. f = CHOOSE e : e = [n \in 0 .. N |-> IF n = 0 THEN Gctx(ld) ELSE FirstPass(e[n - 1], items[n], o, B, vmm)]
  BY DEF IsFirst
<1> HIDE DEF items, N
<1>3. Gctx(ld) \in Digests
  BY DEF Digests
<1>4. ASSUME NEW g \in Digests, NEW n \in 1 .. N
      PROVE  step[<<g, n>>] = FirstPass(g, items[n], o, B, vmm) /\ step[<<g, n>>] \in Digests
  <2>1. step[<<g, n>>] = FirstPass(g, items[n], o, B, vmm)
    OBVIOUS
  <2>2. FirstPass(g, items[n], o, B, vmm) \in Digests
    BY <1>1, PassesIn
  <2> QED
    BY <2>1, <2>2
<1>5. step \in [Digests \X (1 .. N) -> Digests]
  <2>1. ASSUME NEW x \in Digests \X (1 .. N) PROVE FirstPass(x[1], items[x[2]], o, B, vmm) \in Digests
    <3>1. x[1] \in Digests /\ x[2] \in 1 .. N
      OBVIOUS
    <3> QED
      BY <1>1, <3>1, PassesIn
  <2> QED
    BY <2>1
<1> HIDE DEF step, B
<1> DEFINE g0 == Gctx(ld)
           D == Digests
<1>a. g0 \in D /\ N \in Nat /\ step \in [D \X (1 .. N) -> D]
  BY <1>1, <1>3, <1>5
<1> HIDE DEF g0, D
<1>b. PICK e : AreSteps(e, N, D, g0, step)
  BY <1>a, StepsExist
<1>6. e \in [0 .. N -> Digests] /\ e[0] = Gctx(ld) /\ \A n \in 1 .. N : e[n] = step[<<e[n - 1], n>>]
  BY <1>b DEF AreSteps, g0, D
<1>7. e = [n \in 0 .. N |-> IF n = 0 THEN Gctx(ld) ELSE FirstPass(e[n - 1], items[n], o, B, vmm)]
  <2>1. e = [n \in 0 .. N |-> e[n]]
    BY <1>6
  <2>2. ASSUME NEW n \in 0 .. N
        PROVE  e[n] = IF n = 0 THEN Gctx(ld) ELSE FirstPass(e[n - 1], items[n], o, B, vmm)
    <3>1. CASE n = 0
      BY <1>6, <3>1
    <3>2. CASE n # 0
      <4>1. n \in 1 .. N /\ n - 1 \in 0 .. N
        BY <1>1, <3>2
      <4>2. e[n - 1] \in Digests
        BY <1>6, <4>1
      <4> QED
        BY <1>4, <1>6, <3>2, <4>1, <4>2
    <3> QED
      BY <3>1, <3>2
  <2> QED
    BY <2>1, <2>2, Zenon
<1>8. f = [n \in 0 .. N |-> IF n = 0 THEN Gctx(ld) ELSE FirstPass(f[n - 1], items[n], o, B, vmm)]
  BY <1>2, <1>7
<1>9. f[0] = Gctx(ld) /\ \A n \in 1 .. N : f[n] = FirstPass(f[n - 1], items[n], o, B, vmm)
  <2>1. 0 \in 0 .. N /\ \A n \in 1 .. N : n \in 0 .. N /\ n # 0
    BY <1>1
  <2> QED
    BY <1>8, <2>1
<1> DEFINE S == {n \in 0 .. N : Adds(f[n], ld, m, o, Seen(o, m, n))}
<1>10. 0 \in S
  <2>1. ~ Seen(o, m, 0)
    BY DEF Seen
  <2> QED
    BY <1>1, <1>9, <2>1, AddsNothing
<1>11. ASSUME NEW n \in S, n \in Nat, n < N PROVE n + 1 \in S
  <2>1. n + 1 \in 1 .. N /\ n + 1 \in 0 .. N /\ (n + 1) - 1 = n
    BY <1>1, <1>11
  <2>2. f[n + 1] = FirstPass(f[n], items[n + 1], o, B, vmm)
    BY <1>9, <2>1
  <2>3. Adds(f[n], ld, m, o, Seen(o, m, n)) /\ IsSection(items[n + 1])
    BY <1>1, <2>1
  <2>4. Seen(o, m, n + 1) => Seen(o, m, n) \/ BootsAt(items[n + 1], m)
    BY <1>11, SeenMore DEF items
  <2> DEFINE d == items[n + 1]
             g == f[n]
             a == Seen(o, m, n)
             b == Seen(o, m, n + 1)
  <2>5. Adds(g, ld, m, o, a) /\ IsSection(d) /\ (b => a \/ BootsAt(d, m))
    BY <2>3, <2>4
  <2> HIDE DEF d, g, a, b
  <2>6. Adds(FirstPass(g, d, o, BootHashes(m), vmm), ld, m, o, b)
    BY <2>5, AddsInPasses
  <2>7. Adds(f[n + 1], ld, m, o, Seen(o, m, n + 1))
    BY <2>2, <2>6 DEF d, g, b, B
  <2> QED
    BY <2>1, <2>7
<1> HIDE DEF S
<1>12. 0 .. N \subseteq S
  BY <1>1, <1>10, <1>11, InductionTo
<1>13. N \in S
  BY <1>1, <1>12
<1> QED
  BY <1>13 DEF S, N, items

(* The second pass only adds. *)
LEMMA SecondAdds ==
  ASSUME NEW ld \in Seq(PageInfos), NEW m, IsMachine(m), NEW o, NEW file, IsAnyRead(o, file),
         NEW vmm, NEW some, NEW g, Adds(g, ld, m, o, some), NEW f, IsSecond(f, g, o, vmm)
  PROVE  Adds(f[Len(o.metadata_items)], ld, m, o, some)
<1> DEFINE items == o.metadata_items
           N == Len(items)
           step == [x \in Digests \X (1 .. N) |-> SecondPass(x[1], items[x[2]], vmm)]
<1>1. N \in Nat /\ \A n \in 1 .. N : IsSection(items[n])
  BY ItemsAreRead
<1>2. f = CHOOSE e : e = [n \in 0 .. N |-> IF n = 0 THEN g ELSE SecondPass(e[n - 1], items[n], vmm)]
  BY DEF IsSecond
<1> HIDE DEF items, N
<1>3. g \in Digests
  BY AddsIn
<1>4. ASSUME NEW x \in Digests, NEW n \in 1 .. N
      PROVE  step[<<x, n>>] = SecondPass(x, items[n], vmm) /\ step[<<x, n>>] \in Digests
  <2>1. step[<<x, n>>] = SecondPass(x, items[n], vmm)
    OBVIOUS
  <2>2. SecondPass(x, items[n], vmm) \in Digests
    BY <1>1, PassesIn
  <2> QED
    BY <2>1, <2>2
<1>5. step \in [Digests \X (1 .. N) -> Digests]
  <2>1. ASSUME NEW x \in Digests \X (1 .. N) PROVE SecondPass(x[1], items[x[2]], vmm) \in Digests
    <3>1. x[1] \in Digests /\ x[2] \in 1 .. N
      OBVIOUS
    <3> QED
      BY <1>1, <3>1, PassesIn
  <2> QED
    BY <2>1
<1> HIDE DEF step
<1> DEFINE D == Digests
<1>a. g \in D /\ N \in Nat /\ step \in [D \X (1 .. N) -> D]
  BY <1>1, <1>3, <1>5
<1> HIDE DEF D
<1>b. PICK e : AreSteps(e, N, D, g, step)
  BY <1>a, StepsExist
<1>6. e \in [0 .. N -> Digests] /\ e[0] = g /\ \A n \in 1 .. N : e[n] = step[<<e[n - 1], n>>]
  BY <1>b DEF AreSteps, D
<1>7. e = [n \in 0 .. N |-> IF n = 0 THEN g ELSE SecondPass(e[n - 1], items[n], vmm)]
  <2>1. e = [n \in 0 .. N |-> e[n]]
    BY <1>6
  <2>2. ASSUME NEW n \in 0 .. N
        PROVE  e[n] = IF n = 0 THEN g ELSE SecondPass(e[n - 1], items[n], vmm)
    <3>1. CASE n = 0
      BY <1>6, <3>1
    <3>2. CASE n # 0
      <4>1. n \in 1 .. N /\ n - 1 \in 0 .. N
        BY <1>1, <3>2
      <4>2. e[n - 1] \in Digests
        BY <1>6, <4>1
      <4> QED
        BY <1>4, <1>6, <3>2, <4>1, <4>2
    <3> QED
      BY <3>1, <3>2
  <2> QED
    BY <2>1, <2>2, Zenon
<1>8. f = [n \in 0 .. N |-> IF n = 0 THEN g ELSE SecondPass(f[n - 1], items[n], vmm)]
  BY <1>2, <1>7
<1>9. f[0] = g /\ \A n \in 1 .. N : f[n] = SecondPass(f[n - 1], items[n], vmm)
  <2>1. 0 \in 0 .. N /\ \A n \in 1 .. N : n \in 0 .. N /\ n # 0
    BY <1>1
  <2> QED
    BY <1>8, <2>1
<1> DEFINE S == {n \in 0 .. N : Adds(f[n], ld, m, o, some)}
<1>10. 0 \in S
  BY <1>1, <1>9
<1>11. ASSUME NEW n \in S, n \in Nat, n < N PROVE n + 1 \in S
  <2>1. n + 1 \in 1 .. N /\ n + 1 \in 0 .. N /\ (n + 1) - 1 = n
    BY <1>1, <1>11
  <2> DEFINE d == items[n + 1]
             x == f[n]
  <2>2. f[n + 1] = SecondPass(x, d, vmm)
    BY <1>9, <2>1
  <2>3. Adds(x, ld, m, o, some) /\ IsSection(d)
    BY <1>1, <2>1
  <2> HIDE DEF d, x
  <2>4. Adds(SecondPass(x, d, vmm), ld, m, o, some)
    BY <2>3, AddsInPasses
  <2> QED
    BY <2>1, <2>2, <2>4
<1> HIDE DEF S
<1>12. 0 .. N \subseteq S
  BY <1>1, <1>10, <1>11, InductionTo
<1>13. N \in S
  BY <1>1, <1>12
<1> QED
  BY <1>13 DEF S, N, items

(* Whatever the file says, what is measured after the image has no save     *)
(* area, and hashes only of what is booted, if a kernel is booted.          *)
LEMMA RestMeasured ==
  ASSUME NEW ld \in Seq(PageInfos), NEW m, IsMachine(m), NEW o, NEW file, IsAnyRead(o, file), NEW vmm
  PROVE  Adds(snp_update_metadata_pages(Gctx(ld), o, BootHashes(m), vmm), ld, m, o, m.kernel # None)
<1> DEFINE items == o.metadata_items
           N == Len(items)
           B == BootHashes(m)
           first == CHOOSE f : f = [n \in 0 .. N |-> IF n = 0 THEN Gctx(ld)
                                      ELSE FirstPass(f[n - 1], items[n], o, B, vmm)]
           second == CHOOSE f : f = [n \in 0 .. N |-> IF n = 0 THEN first[N]
                                       ELSE SecondPass(f[n - 1], items[n], vmm)]
           g == snp_update_metadata_pages(Gctx(ld), o, B, vmm)
<1>1. g = IF B # {} /\ ~has_metadata_section(o, "SnpKernelHashes") THEN Failed ELSE second[N]
  BY DEF snp_update_metadata_pages, FirstPass, SecondPass
<1>2. IsFirst(first, ld, m, o, vmm) /\ IsSecond(second, first[N], o, vmm)
  BY DEF IsFirst, IsSecond
<1>3. Seen(o, m, N) <=> m.kernel # None /\ has_metadata_section(o, "SnpKernelHashes")
  BY DEF Seen, has_metadata_section
<1>4. B # {} <=> m.kernel # None
  BY DEF BootHashes
<1> HIDE DEF first, second, g, B
<1>5. Adds(first[N], ld, m, o, Seen(o, m, N))
  BY <1>2, FirstAdds
<1>6. Adds(second[N], ld, m, o, Seen(o, m, N))
  BY <1>2, <1>5, SecondAdds
<1>7. CASE B # {} /\ ~has_metadata_section(o, "SnpKernelHashes")
  BY <1>1, <1>7 DEF Adds, g, B
<1>8. CASE ~ (B # {} /\ ~has_metadata_section(o, "SnpKernelHashes"))
  <2>1. g = second[N] /\ (m.kernel # None => Seen(o, m, N))
    BY <1>1, <1>3, <1>4, <1>8
  <2>2. Adds(g, ld, m, o, m.kernel # None)
    BY <1>6, <2>1 DEF Adds
  <2> QED
    BY <2>2 DEF g, B
<1> QED
  BY <1>7, <1>8
=============================================================================
