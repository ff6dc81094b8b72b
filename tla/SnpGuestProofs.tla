--------------------------- MODULE SnpGuestProofs ---------------------------
(***************************************************************************)
(* Theorems about the guest's requests, for any hosts and certificate       *)
(* tables, any VMPL and any size of a page.                                 *)
(***************************************************************************)
EXTENDS SnpGuest, FiniteSetTheorems, SequenceTheorems, TLAPS

(* A set of numbers that is not empty has a least one. *)
LEMMA LeastOf ==
  ASSUME NEW T, T \subseteq Nat, T # {}
  PROVE  \E x \in T : \A y \in T : x <= y
<1> DEFINE R == OpToRel(<, Nat)
<1>1. PICK x \in T : \A y \in T : ~ (<<y, x>> \in R)
  <2>1. IsWellFoundedOn(R, Nat)
    BY NatLessThanWellFounded
  <2> HIDE DEF R
  <2> QED
    BY <2>1, WFMin
<1>2. \A y \in T : ~ (y < x)
  BY <1>1 DEF OpToRel
<1> QED
  BY <1>2

(* Induction up to N, with a set for the property. *)
LEMMA InductionTo ==
  ASSUME NEW N \in Nat, NEW S, 0 \in S,
         \A n \in S : n \in Nat /\ n < N => n + 1 \in S
  PROVE  0 .. N \subseteq S
<1> DEFINE T == (0 .. N) \ S
<1>1. SUFFICES ASSUME T # {} PROVE FALSE
  OBVIOUS
<1>2. PICK x \in T : \A y \in T : x <= y
  <2>1. T \subseteq Nat
    OBVIOUS
  <2> HIDE DEF T
  <2> QED
    BY <1>1, <2>1, LeastOf
<1>3. x \in 1 .. N /\ x \notin S
  OBVIOUS
<1>4. PICK y \in 0 .. N : y + 1 = x /\ y < x
  BY <1>3
<1>5. y \in S
  BY <1>2, <1>4
<1> QED
  BY <1>3, <1>4, <1>5

-----------------------------------------------------------------------------
(* The table in memory. *)

(* The entries of a table. *)
LEMMA TableFacts ==
  ASSUME NEW t \in Seq(TableEntry)
  PROVE  /\ Len(t) \in Nat /\ DOMAIN t = 1 .. Len(t)
         /\ \A n \in 1 .. Len(t) : /\ t[n] \in TableEntry
                                   /\ t[n].cert_type \in CertTypes
                                   /\ t[n].data \in Seq(Byte)
<1>1. \A x \in TableEntry : x.cert_type \in CertTypes /\ x.data \in Seq(Byte)
  BY DEF TableEntry
<1> QED
  BY <1>1

(* The bytes of the first n entries of t, as a recursive function has them. *)
IsRaw(t, N, f) ==
  f = [n \in 0 .. N |-> IF n = 0 THEN <<>> ELSE f[n - 1] \o t[n].data]

(* It starts with nothing and grows by an entry's bytes. *)
LEMMA RawUnfolds ==
  ASSUME NEW t, NEW N \in Nat, NEW f, IsRaw(t, N, f)
  PROVE  f[0] = <<>> /\ \A n \in 1 .. N : f[n] = f[n - 1] \o t[n].data
BY DEF IsRaw

(* There is such a function. *)
LEMMA RawExists ==
  ASSUME NEW t \in Seq(TableEntry)
  PROVE  \E f : IsRaw(t, Len(t), f)
<1> DEFINE S == {k \in Nat : \E f : IsRaw(t, k, f)}
<1>1. 0 \in S
  <2>1. IsRaw(t, 0, [n \in 0 .. 0 |-> <<>>])
    BY DEF IsRaw
  <2> QED
    BY <2>1
<1>2. ASSUME NEW k \in S PROVE k + 1 \in S
  <2>1. PICK g : IsRaw(t, k, g)
    OBVIOUS
  <2> DEFINE h == [n \in 0 .. k + 1 |-> IF n <= k THEN g[n] ELSE g[k] \o t[k + 1].data]
  <2>2. \A n \in 0 .. k : g[n] = IF n = 0 THEN <<>> ELSE g[n - 1] \o t[n].data
    BY <2>1 DEF IsRaw
  <2>3. ASSUME NEW n \in 0 .. k + 1
        PROVE  h[n] = IF n = 0 THEN <<>> ELSE h[n - 1] \o t[n].data
    BY <2>2, <2>3
  <2>4. h = [n \in 0 .. k + 1 |-> h[n]]
    OBVIOUS
  <2> HIDE DEF h
  <2>5. IsRaw(t, k + 1, h)
    BY <2>3, <2>4 DEF IsRaw
  <2> QED
    BY <2>5
<1>3. Len(t) \in Nat /\ Len(t) \in 0 .. Len(t)
  OBVIOUS
<1> HIDE DEF S
<1>4. 0 .. Len(t) \subseteq S
  BY <1>1, <1>2, <1>3, InductionTo
<1> QED
  BY <1>3, <1>4 DEF S

(* RawOf is one. *)
LEMMA RawIs ==
  ASSUME NEW t \in Seq(TableEntry)
  PROVE  IsRaw(t, Len(t), RawOf(t))
BY RawExists DEF RawOf, IsRaw

(* What appending does to places. *)
LEMMA ConcatFacts ==
  ASSUME NEW X, NEW s \in Seq(X), NEW u \in Seq(X), NEW w, w = s \o u
  PROVE  /\ w \in Seq(X)
         /\ Len(s) \in Nat /\ Len(u) \in Nat /\ Len(w) \in Nat /\ Len(w) = Len(s) + Len(u)
         /\ \A i \in 1 .. Len(s) : w[i] = s[i]
         /\ \A i \in 1 .. Len(u) : w[Len(s) + i] = u[i]
<1>1. Len(s) \in Nat /\ Len(u) \in Nat
  OBVIOUS
<1>2. \A i \in 1 .. Len(u) : w[Len(s) + i] = u[i]
  BY <1>1
<1> QED
  BY <1>1, <1>2

(* Sequences that are put end to end: the first n of d. *)
Ends(f, d, N) == f[0] = <<>> /\ \A n \in 1 .. N : f[n] = f[n - 1] \o d[n]

(* They stay sequences. *)
LEMMA EndsTyped ==
  ASSUME NEW X, NEW N \in Nat, NEW d, NEW f, Ends(f, d, N),
         \A n \in 1 .. N : d[n] \in Seq(X)
  PROVE  \A n \in 0 .. N : f[n] \in Seq(X)
<1> DEFINE S == {n \in Nat : n <= N => f[n] \in Seq(X)}
<1>1. 0 \in S
  <2>1. <<>> \in Seq(X)
    OBVIOUS
  <2>2. f[0] \in Seq(X)
    BY <2>1 DEF Ends
  <2> QED
    BY <2>2
<1>2. ASSUME NEW n \in S, n < N PROVE n + 1 \in S
  <2>1. n + 1 \in 1 .. N /\ (n + 1) - 1 = n /\ n \in Nat
    BY <1>2
  <2>2. f[n + 1] = f[n] \o d[n + 1]
    BY <2>1 DEF Ends
  <2>3. f[n] \in Seq(X) /\ d[n + 1] \in Seq(X)
    BY <1>2, <2>1
  <2>4. f[n + 1] \in Seq(X)
    BY <2>2, <2>3, ConcatFacts
  <2> QED
    BY <2>1, <2>4
<1>3. 0 .. N \subseteq S
  <2> HIDE DEF S
  <2> QED
    BY <1>1, <1>2, InductionTo
<1> QED
  BY <1>3

(* The n-th of them is in the first m, from where those before it end. *)
Holds(f, d, n, m) ==
  /\ Len(f[n - 1]) + Len(d[n]) <= Len(f[m])
  /\ \A i \in 1 .. Len(d[n]) : f[m][Len(f[n - 1]) + i] = d[n][i]

(* What is appended does not move it. *)
LEMMA HoldsStep ==
  ASSUME NEW X, NEW f, NEW d, NEW n \in Nat, NEW m \in Nat, Holds(f, d, n, m),
         f[m] \in Seq(X), d[m + 1] \in Seq(X), f[n - 1] \in Seq(X), d[n] \in Seq(X),
         f[m + 1] = f[m] \o d[m + 1]
  PROVE  Holds(f, d, n, m + 1)
<1> DEFINE a == f[n - 1]
           b == d[n]
           u == f[m]
           w == f[m + 1]
           e == d[m + 1]
<1>0. u \in Seq(X) /\ e \in Seq(X) /\ w = u \o e
  OBVIOUS
<1>1. /\ Len(w) >= Len(u) /\ Len(w) \in Nat /\ Len(u) \in Nat
      /\ \A i \in 1 .. Len(u) : w[i] = u[i]
  <2> HIDE DEF u, e, w
  <2>1. Len(w) = Len(u) + Len(e) /\ Len(w) \in Nat /\ Len(u) \in Nat /\ Len(e) \in Nat
    BY <1>0, ConcatFacts
  <2>2. \A i \in 1 .. Len(u) : w[i] = u[i]
    BY <1>0, ConcatFacts
  <2> QED
    BY <2>1, <2>2
<1>2. Len(a) \in Nat /\ Len(b) \in Nat
  OBVIOUS
<1>3. Len(a) + Len(b) <= Len(u) /\ \A i \in 1 .. Len(b) : u[Len(a) + i] = b[i]
  BY DEF Holds
<1> HIDE DEF a, b, u, w
<1>4. \A i \in 1 .. Len(b) : Len(a) + i \in 1 .. Len(u)
  BY <1>1, <1>2, <1>3
<1>5. Len(a) + Len(b) <= Len(w) /\ \A i \in 1 .. Len(b) : w[Len(a) + i] = b[i]
  BY <1>1, <1>2, <1>3, <1>4
<1> QED
  BY <1>5 DEF Holds, a, b, w

(* What is put end to end can be found again. *)
LEMMA EndsHold ==
  ASSUME NEW X, NEW N \in Nat, NEW d, NEW f, Ends(f, d, N),
         \A n \in 1 .. N : d[n] \in Seq(X), NEW n \in 1 .. N
  PROVE  Holds(f, d, n, N)
<1> DEFINE S == {m \in Nat : m >= n /\ m <= N => Holds(f, d, n, m)}
<1>1. \A k \in 0 .. N : f[k] \in Seq(X)
  BY EndsTyped
<1>2. 0 \in S
  OBVIOUS
<1>3. ASSUME NEW m \in S, m < N PROVE m + 1 \in S
  <2>1. SUFFICES ASSUME m + 1 >= n PROVE Holds(f, d, n, m + 1)
    OBVIOUS
  <2>2. /\ m \in Nat /\ m \in 0 .. N /\ m + 1 \in 1 .. N /\ (m + 1) - 1 = m
        /\ n \in Nat /\ n - 1 \in 0 .. N
    BY <1>3
  <2>3. /\ f[m] \in Seq(X) /\ d[m + 1] \in Seq(X) /\ f[n - 1] \in Seq(X) /\ d[n] \in Seq(X)
        /\ f[m + 1] = f[m] \o d[m + 1]
    BY <1>1, <2>2 DEF Ends
  <2>4. CASE m + 1 = n
    <3>1. n - 1 = m
      BY <2>2, <2>4
    <3>2. /\ Len(f[m]) + Len(d[m + 1]) <= Len(f[m + 1])
          /\ \A i \in 1 .. Len(d[m + 1]) : f[m + 1][Len(f[m]) + i] = d[m + 1][i]
      <4> DEFINE u == f[m]
                 w == f[m + 1]
                 e == d[m + 1]
      <4>1. u \in Seq(X) /\ e \in Seq(X) /\ w = u \o e
        BY <2>3
      <4> HIDE DEF u, w, e
      <4>2. Len(u) + Len(e) = Len(w) /\ Len(w) \in Nat
        BY <4>1, ConcatFacts
      <4>3. Len(u) + Len(e) <= Len(w)
        BY <4>2
      <4>4. \A i \in 1 .. Len(e) : w[Len(u) + i] = e[i]
        BY <4>1, ConcatFacts
      <4> QED
        BY <4>3, <4>4 DEF u, w, e
    <3>3. Len(f[(m + 1) - 1]) + Len(d[m + 1]) <= Len(f[m + 1])
      BY <2>2, <3>2
    <3>4. \A i \in 1 .. Len(d[m + 1]) : f[m + 1][Len(f[(m + 1) - 1]) + i] = d[m + 1][i]
      BY <2>2, <3>2
    <3>5. Holds(f, d, m + 1, m + 1)
      BY <3>3, <3>4 DEF Holds
    <3> QED
      BY <2>4, <3>5
  <2>5. CASE m >= n
    <3>1. Holds(f, d, n, m)
      BY <1>3, <2>2, <2>5
    <3> HIDE DEF S
    <3> QED
      BY <2>2, <2>3, <3>1, HoldsStep
  <2> QED
    BY <2>1, <2>2, <2>4, <2>5
<1>4. 0 .. N \subseteq S
  <2> HIDE DEF S
  <2> QED
    BY <1>2, <1>3, InductionTo
<1> QED
  BY <1>4

(* The data of a table's entries, and RawOf puts them end to end. *)
DataOf(t) == [n \in 1 .. Len(t) |-> t[n].data]

(* So the bytes of a table can. *)
LEMMA RawFacts ==
  ASSUME NEW t \in Seq(TableEntry)
  PROVE  /\ \A n \in 0 .. Len(t) : RawOf(t)[n] \in Seq(Byte)
         /\ \A n \in 1 .. Len(t) : Holds(RawOf(t), DataOf(t), n, Len(t))
<1> DEFINE f == RawOf(t)
           d == DataOf(t)
           N == Len(t)
<1>1. N \in Nat /\ \A n \in 1 .. N : t[n].data \in Seq(Byte)
  BY TableFacts
<1>2. IsRaw(t, N, f)
  BY RawIs
<1>3. \A n \in 1 .. N : d[n] = t[n].data /\ d[n] \in Seq(Byte)
  BY <1>1 DEF DataOf
<1> HIDE DEF f, d, N
<1>4. Ends(f, d, N)
  BY <1>1, <1>2, <1>3, RawUnfolds DEF Ends
<1>5. \A n \in 0 .. N : f[n] \in Seq(Byte)
  BY <1>1, <1>3, <1>4, EndsTyped
<1>6. \A n \in 1 .. N : Holds(f, d, n, N)
  BY <1>1, <1>3, <1>4, EndsHold
<1> QED
  BY <1>5, <1>6 DEF f, d, N

(* A u32 that does not overflow. *)
LEMMA SmallMod ==
  ASSUME NEW a \in Nat, NEW b \in Nat, a < b
  PROVE  a % b = a
OBVIOUS

(* The header of entry i. *)
Header(t, i) ==
  [guid |-> t[i].cert_type,
   offset |-> (EntrySize * (Len(t) + 1) + Len(RawOf(t)[i - 1])) % U32,
   length |-> Len(t[i].data)]

(* Where uapi_to_vec_bytes puts what. *)
LEMMA LayoutFacts ==
  ASSUME NEW t \in Seq(TableEntry)
  PROVE  LET b == uapi_to_vec_bytes(t)
         IN  /\ DOMAIN b.entries = 1 .. Len(t) + 1 /\ Len(b.entries) = Len(t) + 1
             /\ \A i \in 1 .. Len(t) : b.entries[i] = Header(t, i)
             /\ b.entries[Len(t) + 1] = ZeroEntry
             /\ b.raw = RawOf(t)[Len(t)]
<1> DEFINE h == [i \in 1 .. Len(t) |-> Header(t, i)]
           X == {Header(t, i) : i \in 1 .. Len(t)} \cup {ZeroEntry}
           b == uapi_to_vec_bytes(t)
<1>1. Len(t) \in Nat /\ DOMAIN t = 1 .. Len(t)
  BY TableFacts
<1>2. b = [entries |-> Append(h, ZeroEntry), raw |-> RawOf(t)[Len(t)]]
  BY <1>1 DEF uapi_to_vec_bytes, Header
<1>3. h \in [1 .. Len(t) -> X]
  OBVIOUS
<1>4. ZeroEntry \in X
  OBVIOUS
<1>5. DOMAIN h = 1 .. Len(t) /\ \A i \in 1 .. Len(t) : h[i] = Header(t, i)
  OBVIOUS
<1> HIDE DEF h, X, b
<1>6. h \in Seq(X)
  BY <1>1, <1>3, SeqDef
<1>7. Len(h) = Len(t)
  BY <1>1, <1>5, <1>6, LenProperties
<1>8. LET e == Append(h, ZeroEntry)
      IN  /\ DOMAIN e = 1 .. Len(t) + 1 /\ Len(e) = Len(t) + 1
          /\ \A i \in 1 .. Len(t) : e[i] = h[i]
          /\ e[Len(t) + 1] = ZeroEntry
  BY <1>1, <1>4, <1>6, <1>7
<1>9. b.entries = Append(h, ZeroEntry) /\ b.raw = RawOf(t)[Len(t)]
  BY <1>2
<1> QED
  BY <1>5, <1>8, <1>9 DEF b

(* The bytes of entry n are found again at its offset. *)
LEMMA DataFound ==
  ASSUME NEW t \in Seq(TableEntry), Size(uapi_to_vec_bytes(t)) < U32, NEW n \in 1 .. Len(t)
  PROVE  LET b == uapi_to_vec_bytes(t)
         IN  /\ b.entries[n].length = Len(t[n].data)
             /\ \A i \in 1 .. Len(t[n].data) :
                  ByteAt(b, b.entries[n].offset + i - 1) = t[n].data[i]
<1> DEFINE b == uapi_to_vec_bytes(t)
           L == Len(t)
           r == RawOf(t)
           d == t[n].data
           a == Len(r[n - 1])
           first == EntrySize * (L + 1)
<1>1. L \in Nat /\ d \in Seq(Byte) /\ n \in 1 .. L
  BY TableFacts
<1>2. r[L] \in Seq(Byte) /\ r[n - 1] \in Seq(Byte)
  BY <1>1, RawFacts
<1>3. a + Len(d) <= Len(r[L]) /\ \A i \in 1 .. Len(d) : r[L][a + i] = d[i]
  <2>1. Holds(r, DataOf(t), n, L)
    BY RawFacts
  <2>2. DataOf(t)[n] = d
    BY DEF DataOf
  <2> HIDE DEF d
  <2> QED
    BY <2>1, <2>2 DEF Holds
<1>4. /\ Len(b.entries) = L + 1 /\ b.raw = r[L]
      /\ b.entries[n] = Header(t, n)
  BY LayoutFacts
<1>5. Size(b) < U32
  OBVIOUS
<1> HIDE DEF b, L, r, d
<1>6. a \in Nat /\ Len(d) \in Nat /\ Len(r[L]) \in Nat /\ DOMAIN r[L] = 1 .. Len(r[L])
  BY <1>1, <1>2, LenProperties
<1>7. first \in Nat /\ first + Len(r[L]) < U32
  <2>1. Size(b) = first + Len(r[L])
    BY <1>4 DEF Size
  <2>2. first \in Nat
    BY <1>1 DEF EntrySize
  <2> HIDE DEF first, a
  <2> QED
    BY <1>5, <2>1, <2>2
<1> HIDE DEF a, first
<1>8. first + a \in Nat /\ first + a < U32 /\ U32 \in Nat
  BY <1>3, <1>6, <1>7, U32Assumption
<1>9. b.entries[n].offset = first + a /\ b.entries[n].length = Len(d)
  BY <1>4, <1>8, SmallMod DEF Header, first, a, L, r, d
<1>10. ASSUME NEW i \in 1 .. Len(d)
       PROVE  ByteAt(b, b.entries[n].offset + i - 1) = d[i]
  <2>1. (first + a + i - 1) - first + 1 = a + i
    BY <1>6, <1>7
  <2>2. a + i \in DOMAIN r[L]
    BY <1>3, <1>6
  <2>3. EntrySize * Len(b.entries) = first
    BY <1>4 DEF first
  <2>4. ByteAt(b, first + a + i - 1) = r[L][a + i]
    BY <1>4, <2>1, <2>2, <2>3 DEF ByteAt
  <2> QED
    BY <1>3, <1>9, <2>4
<1> QED
  BY <1>9, <1>10 DEF b, d

(* What a guest reads of a table: its entries up to the first Empty one, as *)
(* the host listed them.                                                    *)
LEMMA ParsedIsListed ==
  ASSUME NEW t \in Seq(TableEntry), Size(uapi_to_vec_bytes(t)) < U32
  PROVE  \E k \in 0 .. Len(t) :
           /\ Listed(t) = 1 .. k
           /\ parse_table(uapi_to_vec_bytes(t)) = [n \in 1 .. k |-> t[n]]
<1> DEFINE b == uapi_to_vec_bytes(t)
           e == b.entries
           L == Len(t)
           T == {n \in 1 .. L + 1 : e[n].guid = ZERO_GUID}
           Is(n) == e[n].guid = ZERO_GUID /\ \A i \in 1 .. n - 1 : e[i].guid # ZERO_GUID
           last == CHOOSE n \in DOMAIN e : Is(n)
           Read(n) == [cert_type |-> e[n].guid,
                       data |-> [i \in 1 .. e[n].length |-> ByteAt(b, e[n].offset + i - 1)]]
<1>1. L \in Nat /\ DOMAIN t = 1 .. L
  BY TableFacts
<1>2. DOMAIN e = 1 .. L + 1 /\ e[L + 1].guid = ZERO_GUID
  BY LayoutFacts DEF ZeroEntry
<1>3. \A n \in 1 .. L : e[n].guid = t[n].cert_type
  <2>1. \A n \in 1 .. L : e[n] = Header(t, n)
    BY LayoutFacts
  <2>2. \A n \in 1 .. L : Header(t, n).guid = t[n].cert_type
    BY DEF Header
  <2> HIDE DEF e
  <2> QED
    BY <2>1, <2>2
<1>4. parse_table(b) = [n \in 1 .. last - 1 |-> Read(n)]
  BY DEF parse_table
<1>5. ASSUME NEW n \in 1 .. L
      PROVE  Read(n) = t[n]
  <2> DEFINE d == t[n].data
             c == [i \in 1 .. e[n].length |-> ByteAt(b, e[n].offset + i - 1)]
  <2>1. d \in Seq(Byte)
    BY TableFacts
  <2>2. e[n].length = Len(d) /\ \A i \in 1 .. Len(d) : ByteAt(b, e[n].offset + i - 1) = d[i]
    BY DataFound
  <2>3. c = [i \in 1 .. Len(d) |-> d[i]]
    BY <2>2
  <2>4. d = [i \in 1 .. Len(d) |-> d[i]]
    <3> HIDE DEF d
    <3> QED
      BY <2>1, LenProperties
  <2>5. c = d
    BY <2>3, <2>4
  <2>6. t[n] = [cert_type |-> t[n].cert_type, data |-> t[n].data]
    <3>1. t[n] \in TableEntry
      BY TableFacts
    <3> QED
      BY <3>1 DEF TableEntry
  <2> HIDE DEF c
  <2> QED
    BY <1>3, <2>5, <2>6 DEF c
<1> HIDE DEF b, e, L, Read
<1>6. PICK m \in 1 .. L + 1 : Is(m)
  <2>1. T \subseteq Nat /\ L + 1 \in T
    BY <1>1, <1>2
  <2>2. PICK x \in T : \A y \in T : x <= y
    <3> HIDE DEF T
    <3> QED
      BY <2>1, LeastOf
  <2>3. ASSUME NEW i \in 1 .. x - 1 PROVE e[i].guid # ZERO_GUID
    BY <1>1, <2>2
  <2> QED
    BY <2>2, <2>3
<1>7. last \in 1 .. L + 1 /\ Is(last)
  BY <1>2, <1>6
<1> HIDE DEF last
<1>8. last - 1 \in 0 .. L
  BY <1>1, <1>7
<1>9. [n \in 1 .. last - 1 |-> Read(n)] = [n \in 1 .. last - 1 |-> t[n]]
  <2>1. \A n \in 1 .. last - 1 : n \in 1 .. L
    BY <1>1, <1>8
  <2> QED
    BY <1>5, <2>1
<1>10. ASSUME NEW i \in 1 .. L
       PROVE  (\A j \in 1 .. i : t[j].cert_type # "Empty") <=> i \in 1 .. last - 1
  <2>1. CASE i < last
    <3>1. \A j \in 1 .. i : j \in 1 .. last - 1 /\ j \in 1 .. L
      BY <1>1, <1>7, <2>1
    <3> QED
      BY <1>1, <1>3, <1>7, <2>1, <3>1 DEF ZERO_GUID
  <2>2. CASE i >= last
    <3>1. last \in 1 .. i /\ last \in 1 .. L
      BY <1>1, <1>7, <2>2
    <3>2. t[last].cert_type = "Empty"
      BY <1>3, <1>7, <3>1 DEF ZERO_GUID
    <3> QED
      BY <1>1, <1>7, <2>2, <3>1, <3>2
  <2> QED
    BY <1>1, <1>7, <2>1, <2>2
<1>11. Listed(t) = 1 .. last - 1
  BY <1>1, <1>8, <1>10 DEF Listed
<1> QED
  BY <1>4, <1>8, <1>9, <1>11 DEF b, L

-----------------------------------------------------------------------------
(* Sorting. *)

(* The place of a type in the order of the tests, and of a kind among the   *)
(* arms of CertType::cmp.                                                   *)
RankNo(x) ==
  CASE x = "ARK" -> 1 [] x = "VCEK" -> 2 [] x = "VLEK" -> 3 [] x = "ASK" -> 4
    [] x = "CRL" -> 5 [] x = "OTHER(1)" -> 6 [] x = "OTHER(2)" -> 7 [] x = "Empty" -> 8

ArmNo(x) ==
  CASE x = "Empty" -> 1 [] x = "OTHER" -> 2 [] x = "CRL" -> 3 [] x = "ASK" -> 4
    [] x = "VLEK" -> 5 [] x = "VCEK" -> 6 [] x = "ARK" -> 7

(* They are what Rank says. *)
LEMMA RankIs == \A x \in CertTypes : Rank(x) = RankNo(x) /\ RankNo(x) \in Nat
<1>1. DOMAIN TestOrder = 1 .. 8
  BY DEF TestOrder
<1>2. ASSUME NEW x \in CertTypes
      PROVE  /\ RankNo(x) \in 1 .. 8
             /\ \A n \in 1 .. 8 : TestOrder[n] = x <=> n = RankNo(x)
  <2>1. RankNo(x) \in 1 .. 8
    BY DEF RankNo, CertTypes
  <2>2. TestOrder[RankNo(x)] = x
    BY DEF TestOrder, RankNo, CertTypes
  <2>3. \A n \in 1 .. 8 : RankNo(TestOrder[n]) = n
    BY DEF TestOrder, RankNo
  <2> QED
    BY <2>1, <2>2, <2>3
<1> QED
  BY <1>1, <1>2 DEF Rank

(* CertType::cmp is the order of the tests. *)
LEMMA LessIsRank == \A a, b \in CertTypes : Less(a, b) <=> RankNo(a) < RankNo(b)
<1> DEFINE Ks == {"Empty", "OTHER", "CRL", "ASK", "VLEK", "VCEK", "ARK"}
<1>1. DOMAIN CmpArms = 1 .. 6
  BY DEF CmpArms
<1>2. \A x \in Ks : /\ ArmNo(x) \in 1 .. 7
                    /\ \A i \in 1 .. 6 : CmpArms[i] = x <=> i = ArmNo(x)
  BY DEF CmpArms, ArmNo
<1>3. \A x, y \in Ks : ArmNo(x) = ArmNo(y) => x = y
  BY DEF ArmNo
<1>4. \A a \in CertTypes : Kind(a) \in Ks
  BY DEF CertTypes, Kind
<1>5. ASSUME NEW a \in CertTypes, NEW b \in CertTypes, Kind(a) = Kind(b)
      PROVE  Less(a, b) <=> RankNo(a) < RankNo(b)
  BY <1>5 DEF Less, Kind, RankNo, CertTypes
<1>6. ASSUME NEW a \in CertTypes, NEW b \in CertTypes, Kind(a) # Kind(b)
      PROVE  RankNo(a) < RankNo(b) <=> ArmNo(Kind(b)) < ArmNo(Kind(a))
  BY <1>6 DEF Kind, RankNo, ArmNo, CertTypes
<1>7. ASSUME NEW a \in CertTypes, NEW b \in CertTypes, Kind(a) # Kind(b)
      PROVE  Less(a, b) <=> ArmNo(Kind(b)) < ArmNo(Kind(a))
  <2> DEFINE x == Kind(a)
             y == Kind(b)
             FirstArm(i) == /\ CmpArms[i] \in {x, y}
                            /\ \A j \in 1 .. i - 1 : CmpArms[j] \notin {x, y}
             arm == CHOOSE i \in DOMAIN CmpArms : FirstArm(i)
             m == IF ArmNo(x) < ArmNo(y) THEN ArmNo(x) ELSE ArmNo(y)
  <2>1. x \in Ks /\ y \in Ks /\ x # y
    BY <1>4, <1>7
  <2>2. Less(a, b) <=> CmpArms[arm] = y
    BY <1>7 DEF Less
  <2> HIDE DEF x, y, Ks
  <2>3. ArmNo(x) \in 1 .. 7 /\ ArmNo(y) \in 1 .. 7 /\ ArmNo(x) # ArmNo(y)
    BY <1>2, <1>3, <2>1
  <2>4. m \in 1 .. 6
    BY <2>3
  <2>5. \A i \in 1 .. 6 : CmpArms[i] \in {x, y} <=> i = ArmNo(x) \/ i = ArmNo(y)
    BY <1>2, <2>1
  <2>6. \A i \in 1 .. 6 : FirstArm(i) <=> i = m
    <3>1. FirstArm(m)
      BY <2>3, <2>4, <2>5
    <3>2. ASSUME NEW i \in 1 .. 6, FirstArm(i) PROVE i = m
      BY <2>3, <2>4, <2>5, <3>2
    <3> QED
      BY <3>1, <3>2
  <2>7. arm = m
    BY <1>1, <2>4, <2>6
  <2>8. CmpArms[m] = y <=> ArmNo(y) < ArmNo(x)
    BY <1>2, <2>1, <2>3, <2>4
  <2> QED
    BY <2>2, <2>7, <2>8 DEF x, y
<1> QED
  BY <1>5, <1>6, <1>7

(* A stable sort: the place of i is how many are less, or equal and no      *)
(* later.  Places are different, and in the order of the ranks.             *)
Placed(R, k, i) == {j \in 1 .. k : R[j] < R[i] \/ (j <= i /\ ~(R[i] < R[j]))}

(* It is a place for each. *)
LEMMA PlacesAre ==
  ASSUME NEW k \in Nat, NEW R \in [1 .. k -> Nat]
  PROVE  LET p == [i \in 1 .. k |-> Cardinality(Placed(R, k, i))]
         IN  /\ p \in Bijection(1 .. k, 1 .. k)
             /\ \A i, j \in 1 .. k : p[i] < p[j] => R[i] <= R[j]
<1> DEFINE D(i) == Placed(R, k, i)
           p == [i \in 1 .. k |-> Cardinality(D(i))]
           Before(j, i) == R[j] < R[i] \/ (j <= i /\ ~(R[i] < R[j]))
<1>1. IsFiniteSet(1 .. k) /\ Cardinality(1 .. k) = k
  BY FS_Interval
<1>2. \A i \in 1 .. k : D(i) \subseteq 1 .. k /\ i \in D(i)
  BY DEF Placed
<1>3. \A i \in 1 .. k, j \in 1 .. k : j \in D(i) <=> Before(j, i)
  BY DEF Placed
<1>4. \A i \in 1 .. k : R[i] \in Nat
  OBVIOUS
<1> HIDE DEF D
<1>5. \A i \in 1 .. k : IsFiniteSet(D(i)) /\ Cardinality(D(i)) \in 1 .. k
  <2> SUFFICES ASSUME NEW i \in 1 .. k
               PROVE  IsFiniteSet(D(i)) /\ Cardinality(D(i)) \in 1 .. k
    OBVIOUS
  <2>1. IsFiniteSet(D(i)) /\ Cardinality(D(i)) <= k
    BY <1>1, <1>2, FS_Subset
  <2>2. Cardinality(D(i)) \in Nat /\ Cardinality(D(i)) # 0
    BY <1>2, <2>1, FS_CardinalityType, FS_EmptySet
  <2> QED
    BY <2>1, <2>2
<1>6. ASSUME NEW i \in 1 .. k, NEW j \in 1 .. k, i # j, Before(i, j)
      PROVE  Cardinality(D(i)) < Cardinality(D(j))
  <2>1. D(i) \subseteq D(j)
    <3> SUFFICES ASSUME NEW x \in 1 .. k, Before(x, i) PROVE Before(x, j)
      BY <1>2, <1>3
    <3> QED
      BY <1>4, <1>6
  <2>2. j \in D(j) /\ j \notin D(i)
    <3>1. ~Before(j, i)
      BY <1>4, <1>6
    <3> QED
      BY <1>2, <1>3, <3>1
  <2>3. Cardinality(D(i)) <= Cardinality(D(j)) /\ Cardinality(D(i)) # Cardinality(D(j))
    BY <1>5, <2>1, <2>2, FS_Subset
  <2> QED
    BY <1>5, <2>3
<1>7. \A i, j \in 1 .. k : i = j \/ Before(i, j) \/ Before(j, i)
  BY <1>4
<1>8. p \in [1 .. k -> 1 .. k]
  BY <1>5
<1>9. ASSUME NEW i \in 1 .. k, NEW j \in 1 .. k, p[i] = p[j] PROVE i = j
  <2>1. Cardinality(D(i)) = Cardinality(D(j)) /\ Cardinality(D(i)) \in Nat
    BY <1>5, <1>9
  <2>2. ~(Cardinality(D(i)) < Cardinality(D(j))) /\ ~(Cardinality(D(j)) < Cardinality(D(i)))
    BY <2>1
  <2> HIDE DEF Before
  <2> QED
    BY <1>6, <1>7, <2>2
<1>10. ASSUME NEW i \in 1 .. k, NEW j \in 1 .. k, p[i] < p[j] PROVE R[i] <= R[j]
  <2>1. Cardinality(D(i)) < Cardinality(D(j))
    BY <1>10
  <2>2. ~(Cardinality(D(j)) < Cardinality(D(i))) /\ Cardinality(D(i)) # Cardinality(D(j))
    <3>1. Cardinality(D(i)) \in Nat /\ Cardinality(D(j)) \in Nat
      BY <1>5
    <3> QED
      BY <2>1, <3>1
  <2>3. i # j /\ ~Before(j, i)
    <3> HIDE DEF Before
    <3> QED
      BY <1>6, <2>2
  <2> QED
    BY <1>4, <2>3
<1> HIDE DEF p
<1>11. p \in Injection(1 .. k, 1 .. k)
  BY <1>8, <1>9 DEF Injection, IsInjective
<1>12. p \in Surjection(1 .. k, 1 .. k)
  BY <1>1, <1>11, FS_Injection
<1> QED
  BY <1>10, <1>11, <1>12 DEF Bijection, p, D

(* certificates.sort() is a permutation that puts types in order. *)
LEMMA SortPermutes ==
  ASSUME NEW k \in Nat, NEW s \in [1 .. k -> TableEntry]
  PROVE  \E q \in Bijection(1 .. k, 1 .. k) :
           /\ sort(s) = [n \in 1 .. k |-> s[q[n]]]
           /\ \A n \in 1 .. k - 1 : Rank(s[q[n]].cert_type) <= Rank(s[q[n + 1]].cert_type)
<1> DEFINE R == [i \in 1 .. k |-> RankNo(s[i].cert_type)]
           p == [i \in 1 .. k |-> Cardinality(Placed(R, k, i))]
           Earlier(i) == {j \in 1 .. k : \/ Less(s[j].cert_type, s[i].cert_type)
                                         \/ j <= i /\ ~Less(s[i].cert_type, s[j].cert_type)}
           q == [n \in 1 .. k |-> CHOOSE i \in 1 .. k : Cardinality(Earlier(i)) = n]
<1>1. \A i \in 1 .. k : s[i].cert_type \in CertTypes
  BY DEF TableEntry
<1>2. R \in [1 .. k -> Nat]
  BY <1>1, RankIs
<1>3. \A i \in 1 .. k : Earlier(i) = Placed(R, k, i)
  <2> SUFFICES ASSUME NEW i \in 1 .. k, NEW j \in 1 .. k
               PROVE  /\ Less(s[j].cert_type, s[i].cert_type) <=> R[j] < R[i]
                      /\ Less(s[i].cert_type, s[j].cert_type) <=> R[i] < R[j]
    BY DEF Placed
  <2> QED
    BY <1>1, LessIsRank
<1>4. sort(s) = [n \in 1 .. k |-> s[CHOOSE i \in 1 .. k : Cardinality(Earlier(i)) = n]]
  BY DEF sort
<1>5. /\ p \in Bijection(1 .. k, 1 .. k)
      /\ \A i, j \in 1 .. k : p[i] < p[j] => R[i] <= R[j]
  <2> HIDE DEF R
  <2> QED
    BY <1>2, PlacesAre
<1>6. \A i \in 1 .. k : p[i] = Cardinality(Earlier(i))
  BY <1>3
<1>7. \A i \in 1 .. k : Rank(s[i].cert_type) = R[i]
  BY <1>1, RankIs
<1> HIDE DEF R, p, Earlier
<1>8. sort(s) = [n \in 1 .. k |-> s[q[n]]]
  BY <1>4
<1>9. /\ p \in [1 .. k -> 1 .. k]
      /\ \A i, j \in 1 .. k : p[i] = p[j] => i = j
      /\ \A n \in 1 .. k : \E i \in 1 .. k : p[i] = n
  BY <1>5 DEF Bijection, Injection, Surjection, IsInjective
<1>10. \A n \in 1 .. k : q[n] \in 1 .. k /\ p[q[n]] = n
  BY <1>6, <1>9
<1>11. q \in [1 .. k -> 1 .. k]
  BY <1>10
<1> HIDE DEF q
<1>12. q \in Bijection(1 .. k, 1 .. k)
  <2>1. \A m, n \in 1 .. k : q[m] = q[n] => m = n
    BY <1>10
  <2>2. \A i \in 1 .. k : p[i] \in 1 .. k /\ q[p[i]] = i
    BY <1>9, <1>10
  <2> QED
    BY <1>11, <2>1, <2>2 DEF Bijection, Injection, Surjection, IsInjective
<1>13. ASSUME NEW n \in 1 .. k - 1
       PROVE  Rank(s[q[n]].cert_type) <= Rank(s[q[n + 1]].cert_type)
  <2>1. n \in 1 .. k /\ n + 1 \in 1 .. k /\ n < n + 1
    BY <1>13
  <2>2. q[n] \in 1 .. k /\ q[n + 1] \in 1 .. k /\ p[q[n]] < p[q[n + 1]]
    BY <1>10, <2>1
  <2> QED
    BY <1>5, <1>7, <2>2
<1> QED
  BY <1>8, <1>12, <1>13

-----------------------------------------------------------------------------
(* Tables as a guest gets them. *)

(* certs is the visible part of t in another order, and that is by type. *)
Shows(certs, t) ==
  \E k \in 0 .. Len(t) : \E q \in Bijection(1 .. k, 1 .. k) :
    /\ Listed(t) = 1 .. k
    /\ certs = [n \in 1 .. k |-> t[q[n]]]
    /\ \A n \in 1 .. k - 1 : Rank(t[q[n]].cert_type) <= Rank(t[q[n + 1]].cert_type)

(* What comes of a table in a buffer that it fits in, *)
LEMMA ShowsTable ==
  ASSUME NEW t \in Seq(TableEntry), Size(uapi_to_vec_bytes(t)) < U32
  PROVE  Shows(sort(parse_table(uapi_to_vec_bytes(t))), t)
<1>1. PICK k \in 0 .. Len(t) :
        /\ Listed(t) = 1 .. k
        /\ parse_table(uapi_to_vec_bytes(t)) = [n \in 1 .. k |-> t[n]]
  BY ParsedIsListed
<1> DEFINE s == [n \in 1 .. k |-> t[n]]
<1>2. Len(t) \in Nat /\ \A n \in 1 .. Len(t) : t[n] \in TableEntry
  BY TableFacts
<1>3. k \in Nat /\ s \in [1 .. k -> TableEntry]
  BY <1>2
<1>4. \A n \in 1 .. k : s[n] = t[n]
  OBVIOUS
<1>5. parse_table(uapi_to_vec_bytes(t)) = s
  BY <1>1
<1> HIDE DEF s
<1>6. PICK q \in Bijection(1 .. k, 1 .. k) :
        /\ sort(s) = [n \in 1 .. k |-> s[q[n]]]
        /\ \A n \in 1 .. k - 1 : Rank(s[q[n]].cert_type) <= Rank(s[q[n + 1]].cert_type)
  BY <1>3, SortPermutes
<1>7. \A n \in 1 .. k : q[n] \in 1 .. k
  BY DEF Bijection, Injection
<1>8. \A n \in 1 .. k : s[q[n]] = t[q[n]]
  BY <1>4, <1>7
<1>9. sort(s) = [n \in 1 .. k |-> t[q[n]]]
  BY <1>6, <1>8
<1>10. \A n \in 1 .. k - 1 : Rank(t[q[n]].cert_type) <= Rank(t[q[n + 1]].cert_type)
  <2>1. \A n \in 1 .. k - 1 : n \in 1 .. k /\ n + 1 \in 1 .. k
    BY <1>3
  <2> QED
    BY <1>6, <1>8, <2>1
<1> QED
  BY <1>1, <1>5, <1>9, <1>10 DEF Shows

(* and of a buffer that nothing was written to. *)
Nothing == [entries |-> <<ZeroEntry>>, raw |-> <<>>]

(* It shows as an empty list. *)
LEMMA ShowsNothing == Shows(sort(parse_table(Nothing)), <<>>)
<1> DEFINE s == parse_table(Nothing)
           last == CHOOSE n \in DOMAIN Nothing.entries :
                     /\ Nothing.entries[n].guid = ZERO_GUID
                     /\ \A i \in 1 .. n - 1 : Nothing.entries[i].guid # ZERO_GUID
<1>1. DOMAIN Nothing.entries = {1} /\ Nothing.entries[1].guid = ZERO_GUID
  BY DEF Nothing, ZeroEntry
<1>2. last = 1
  BY <1>1
<1>3. DOMAIN s = 1 .. last - 1
  BY DEF parse_table
<1>4. DOMAIN s = 1 .. 0 /\ s \in [1 .. 0 -> TableEntry]
  <2>1. DOMAIN s = 1 .. 0
    <3> HIDE DEF s, last
    <3>1. last - 1 = 0
      BY <1>2
    <3> QED
      BY <1>3, <3>1
  <2>2. s = [n \in DOMAIN s |-> s[n]]
    BY DEF parse_table
  <2> HIDE DEF s
  <2> QED
    BY <2>1, <2>2
<1> HIDE DEF s
<1>5. PICK q \in Bijection(1 .. 0, 1 .. 0) : sort(s) = [n \in 1 .. 0 |-> s[q[n]]]
  BY <1>4, SortPermutes
<1> DEFINE t == <<>>
<1>6. Listed(t) = 1 .. 0 /\ Len(t) = 0
  BY DEF Listed
<1> HIDE DEF t
<1>7. sort(s) = [n \in 1 .. 0 |-> t[q[n]]]
  BY <1>5
<1>8. \A n \in 1 .. 0 - 1 : Rank(t[q[n]].cert_type) <= Rank(t[q[n + 1]].cert_type)
  OBVIOUS
<1>9. 0 \in 0 .. Len(t)
  BY <1>6
<1>10. Shows(sort(s), t)
  BY <1>6, <1>7, <1>8, <1>9 DEF Shows
<1> QED
  BY <1>10 DEF s, t

(* A table that is shown is shown in full. *)
LEMMA ShowsOrder ==
  ASSUME NEW t, NEW certs, t \in Seq(TableEntry), Shows(certs, t)
  PROVE  OrderOf(certs, t)
<1>0. PICK k \in 0 .. Len(t) : \E q \in Bijection(1 .. k, 1 .. k) :
        /\ Listed(t) = 1 .. k
        /\ certs = [n \in 1 .. k |-> t[q[n]]]
        /\ \A n \in 1 .. k - 1 : Rank(t[q[n]].cert_type) <= Rank(t[q[n + 1]].cert_type)
  BY DEF Shows
<1>1. PICK q \in Bijection(1 .. k, 1 .. k) :
        /\ Listed(t) = 1 .. k
        /\ certs = [n \in 1 .. k |-> t[q[n]]]
        /\ \A n \in 1 .. k - 1 : Rank(t[q[n]].cert_type) <= Rank(t[q[n + 1]].cert_type)
  BY <1>0
<1>2. Len(t) \in Nat /\ k \in Nat /\ \A n \in 1 .. Len(t) : t[n] \in TableEntry
  BY TableFacts
<1>3. /\ q \in [1 .. k -> 1 .. k]
      /\ \A m, n \in 1 .. k : q[m] = q[n] => m = n
      /\ \A i \in 1 .. k : \E n \in 1 .. k : q[n] = i
  BY DEF Bijection, Injection, Surjection, IsInjective
<1>4. certs \in [1 .. k -> TableEntry] /\ \A n \in 1 .. k : certs[n] = t[q[n]]
  <2>1. \A n \in 1 .. k : q[n] \in 1 .. Len(t)
    BY <1>2, <1>3
  <2>2. \A n \in 1 .. k : t[q[n]] \in TableEntry
    BY <1>2, <2>1
  <2> QED
    BY <1>1, <2>2
<1>5. Len(certs) = k /\ DOMAIN certs = 1 .. k
  <2>1. certs \in Seq(TableEntry)
    BY <1>2, <1>4, SeqDef
  <2> QED
    BY <1>2, <1>4, <2>1, LenProperties
<1>6. Len(certs) = Cardinality(Listed(t)) /\ IsFiniteSet(1 .. k)
  BY <1>1, <1>2, <1>5, FS_Interval
<1>7. ASSUME NEW i \in 1 .. k
      PROVE  Cardinality({j \in 1 .. k : t[j] = t[i]}) =
             Cardinality({n \in 1 .. k : certs[n] = t[i]})
  <2> DEFINE A == {j \in 1 .. k : t[j] = t[i]}
             B == {n \in 1 .. k : certs[n] = t[i]}
             g == [n \in B |-> q[n]]
  <2>1. \A n \in 1 .. k : q[n] \in 1 .. k /\ (n \in B <=> q[n] \in A)
    BY <1>3, <1>4
  <2>2. A \subseteq 1 .. k /\ B \subseteq 1 .. k
    OBVIOUS
  <2> HIDE DEF A, B
  <2>3. g \in [B -> A]
    BY <2>1, <2>2
  <2>4. \A m, n \in B : g[m] = g[n] => m = n
    BY <1>3, <2>2
  <2>5. \A j \in A : \E n \in B : g[n] = j
    BY <1>3, <2>1, <2>2
  <2> HIDE DEF g
  <2>6. g \in Bijection(B, A)
    BY <2>3, <2>4, <2>5 DEF Bijection, Injection, Surjection, IsInjective
  <2>7. IsFiniteSet(B)
    BY <1>6, <2>2, FS_Subset
  <2>8. Cardinality(A) = Cardinality(B)
    BY <2>6, <2>7, FS_Bijection DEF ExistsBijection
  <2> QED
    BY <2>8 DEF A, B
<1>8. \A n \in 1 .. Len(certs) - 1 : Rank(certs[n].cert_type) <= Rank(certs[n + 1].cert_type)
  <2>1. \A n \in 1 .. k - 1 : n \in 1 .. k /\ n + 1 \in 1 .. k
    BY <1>2
  <2> QED
    BY <1>1, <1>4, <1>5, <2>1
<1> QED
  BY <1>1, <1>5, <1>6, <1>7, <1>8 DEF OrderOf

-----------------------------------------------------------------------------
(* The requests. *)

(* Nobody's table grows under a kernel that then returns no error (see      *)
(* CertsWhenLargeEnough, which does not hold otherwise).                    *)
TablesKept == \A h \in DOMAIN Hosts : Hosts[h].kernel => Hosts[h].updates = {}

(* A result res of the request rq, with the tables sn since. *)
GoodResult(res, rq, sn) ==
  /\ res.kind \in Kinds
  /\ Cardinality(res.certs) <= 1
  /\ res.key \in {"none", "zero", "derived"}
  /\ res.kind = "Ok" => res.report = Answer(rq).report
  /\ \A certs \in res.certs : \E t \in sn \cup {<<>>} : Shows(certs, t)
  /\ TablesKept => \A certs \in res.certs : \E t \in sn : Shows(certs, t)

(* A call in progress has no result yet. *)
InFlight == pc # "idle" => result = NoResult

(* The second request brings a buffer for a table that is kept. *)
BufferOK ==
  TablesKept /\ pc = "retry" /\ Hosts[host].kernel => Needed <= len

Inv ==
  /\ TypeOK
  /\ table \in seen
  /\ InFlight
  /\ BufferOK
  /\ GoodResult(result, req, seen)

(* The results that are made. *)
LEMMA ResultFields ==
  /\ NoResult.kind = "none" /\ NoResult.certs = {} /\ NoResult.key = "none"
  /\ \A e : Err(e).kind = e /\ Err(e).certs = {} /\ Err(e).key = "none"
  /\ \A r, c : /\ OkReport(r, c).kind = "Ok" /\ OkReport(r, c).report = r
               /\ OkReport(r, c).certs = c /\ OkReport(r, c).key = "none"
  /\ \A k : OkKey(k).kind = "Key" /\ OkKey(k).certs = {} /\ OkKey(k).key = k
<1>1. NoResult.kind = "none" /\ NoResult.certs = {} /\ NoResult.key = "none"
  BY DEF NoResult
<1>2. \A e : Err(e).kind = e /\ Err(e).certs = {} /\ Err(e).key = "none"
  BY DEF NoResult, Err
<1>3. ASSUME NEW r, NEW c
      PROVE  /\ OkReport(r, c).kind = "Ok" /\ OkReport(r, c).report = r
             /\ OkReport(r, c).certs = c /\ OkReport(r, c).key = "none"
  BY DEF NoResult, OkReport
<1>4. ASSUME NEW k
      PROVE  OkKey(k).kind = "Key" /\ OkKey(k).certs = {} /\ OkKey(k).key = k
  BY DEF NoResult, OkKey
<1> QED
  BY <1>1, <1>2, <1>3, <1>4

(* One that has neither a report nor certificates is good. *)
LEMMA PlainIsGood ==
  ASSUME NEW res, NEW rq, NEW sn, res.kind \in Kinds \ {"Ok"}, res.certs = {},
         res.key \in {"none", "zero", "derived"}
  PROVE  GoodResult(res, rq, sn)
BY FS_EmptySet DEF GoodResult

(* An error is. *)
LEMMA ErrIsGood ==
  ASSUME NEW e \in {"VmplError", "IOError", "RateLimitRetryRequest", "InvalidConfig"},
         NEW rq, NEW sn
  PROVE  GoodResult(Err(e), rq, sn)
<1>1. Err(e).kind \in Kinds \ {"Ok"} /\ Err(e).certs = {} /\ Err(e).key \in {"none"}
  BY ResultFields DEF Kinds
<1> QED
  BY <1>1, PlainIsGood

(* One with a report and no certificates. *)
LEMMA ReportIsGood ==
  ASSUME NEW rq, NEW sn
  PROVE  GoodResult(OkReport(Answer(rq).report, {}), rq, sn)
BY ResultFields, FS_EmptySet DEF GoodResult, Kinds

(* One with certificates. *)
LEMMA CertsAreGood ==
  ASSUME NEW rq, NEW sn, NEW certs, \E t \in sn \cup {<<>>} : Shows(certs, t),
         TablesKept => \E t \in sn : Shows(certs, t)
  PROVE  GoodResult(OkReport(Answer(rq).report, {certs}), rq, sn)
<1> DEFINE res == OkReport(Answer(rq).report, {certs})
<1>1. /\ res.kind = "Ok" /\ res.report = Answer(rq).report
      /\ res.certs = {certs} /\ res.key = "none"
  BY ResultFields
<1> HIDE DEF res
<1>2. Cardinality(res.certs) <= 1
  <2>1. Cardinality({certs}) = 1
    BY FS_Singleton
  <2> QED
    BY <1>1, <2>1
<1>3. GoodResult(res, rq, sn)
  BY <1>1, <1>2 DEF GoodResult, Kinds
<1> QED
  BY <1>3 DEF res

(* More tables do no harm. *)
LEMMA GoodForMore ==
  ASSUME NEW res, NEW rq, NEW sn, NEW more, GoodResult(res, rq, sn), sn \subseteq more
  PROVE  GoodResult(res, rq, more)
BY DEF GoodResult

-----------------------------------------------------------------------------
(* The answers of the firmware. *)
LEMMA AnswerType ==
  ASSUME NEW r \in [data : ReportData, vmpl : 0 .. MAX_VMPL]
  PROVE  Answer(r) \in Response
<1>1. r.data \in ReportData /\ r.vmpl \in 0 .. MAX_VMPL
  OBVIOUS
<1>2. Report(r.data, r.vmpl) \in [data : ReportData, vmpl : 0 .. MAX_VMPL, signed_by : {SigningKey}]
  BY <1>1 DEF Report
<1> HIDE DEF DefaultReport, Report
<1> QED
  BY <1>2 DEF Answer, Response

(* The table that the host has now. *)
LEMMA TablesTyped ==
  ASSUME TypeOK
  PROVE  table \in Seq(TableEntry) /\ Size(uapi_to_vec_bytes(table)) < U32
BY TablesAssumption DEF TypeOK

(* The size of a buffer. *)
LEMMA NeededType == TypeOK => Needed \in Nat
<1> SUFFICES ASSUME TypeOK PROVE Needed \in Nat
  OBVIOUS
<1> DEFINE b == uapi_to_vec_bytes(table)
           size == Size(b)
<1>1. table \in Seq(TableEntry)
  BY TablesTyped
<1>2. Len(table) \in Nat /\ Len(b.entries) = Len(table) + 1 /\ b.raw = RawOf(table)[Len(table)]
  BY <1>1, LayoutFacts, TableFacts
<1>3. RawOf(table)[Len(table)] \in Seq(Byte)
  BY <1>1, <1>2, RawFacts
<1> HIDE DEF b
<1>4. Len(b.raw) \in Nat
  BY <1>2, <1>3, LenProperties
<1>5. size \in Nat
  <2> DEFINE a == Len(b.raw)
             c == Len(b.entries)
  <2>1. a \in Nat /\ c \in Nat /\ size = EntrySize * c + a
    BY <1>2, <1>4 DEF Size
  <2> HIDE DEF a, c, size
  <2> QED
    BY <2>1 DEF EntrySize
<1> HIDE DEF size
<1>6. (size + PageSize - 1) \div PageSize \in Nat
  BY <1>5, PageSizeAssumption
<1>7. ((size + PageSize - 1) \div PageSize) * PageSize \in Nat
  BY <1>6, PageSizeAssumption
<1> QED
  BY <1>7 DEF Needed, size, b

(* What an extended request may come to. *)
LEMMA OutcomeFacts ==
  ASSUME TypeOK, NEW o \in SNP_GET_EXT_REPORT \cup {Done(22)}
  PROVE  /\ o.ok \in BOOLEAN /\ o.len \in Nat /\ o.rsp \in Response
         /\ o.fw_err \in (0 .. 2) \X {0, 22}
         /\ o.ok => o.rsp = Answer(req)
         /\ o.fw_err[1] = 1 => o.len = Needed
         /\ o.ok /\ o \in SNP_GET_EXT_REPORT => Needed <= len \/ Hosts[host].kernel
<1>1. Answer(req) \in Response /\ rsp \in Response /\ len \in Nat /\ Needed \in Nat
  BY AnswerType, NeededType DEF TypeOK
<1>2. Hosts[host].kernel \in BOOLEAN
  BY KernelAssumption DEF TypeOK
<1>3. CASE o \in Failures
  <2>1. PICK e \in {<<0, 0>>, <<0, 22>>, <<2, 0>>} :
          o = [ok |-> FALSE, fw_err |-> e, len |-> len, rsp |-> rsp]
    BY <1>3 DEF Failures
  <2>2. o.ok = FALSE /\ o.fw_err = e /\ o.len = len /\ o.rsp = rsp
    BY <2>1
  <2>3. e \in (0 .. 2) \X {0, 22} /\ e[1] # 1
    OBVIOUS
  <2> QED
    BY <1>1, <2>2, <2>3
<1>4. CASE Needed > len /\ o = TooSmall
  <2>1. /\ o.ok = Hosts[host].kernel /\ o.fw_err = <<1, 0>> /\ o.len = Needed
        /\ o.rsp = IF Hosts[host].kernel THEN Answer(req) ELSE rsp
    BY <1>4 DEF TooSmall
  <2>2. <<1, 0>> \in (0 .. 2) \X {0, 22}
    OBVIOUS
  <2> QED
    BY <1>1, <1>2, <2>1, <2>2
<1>5. ASSUME NEW c \in {0, 22}, o = Done(c)
      PROVE  /\ o.ok = TRUE /\ o.fw_err = <<0, c>> /\ o.len = len /\ o.rsp = Answer(req)
             /\ o.fw_err \in (0 .. 2) \X {0, 22} /\ o.fw_err[1] # 1
  <2>1. o.ok = TRUE /\ o.fw_err = <<0, c>> /\ o.len = len /\ o.rsp = Answer(req)
    BY <1>5 DEF Done
  <2>2. <<0, c>> \in (0 .. 2) \X {0, 22} /\ <<0, c>>[1] = 0
    OBVIOUS
  <2> QED
    BY <2>1, <2>2
<1>6. CASE ~(Needed > len) /\ o = Done(0)
  <2>1. Needed <= len
    BY <1>1, <1>6
  <2>2. /\ o.ok = TRUE /\ o.len = len /\ o.rsp = Answer(req)
        /\ o.fw_err \in (0 .. 2) \X {0, 22} /\ o.fw_err[1] # 1
    BY <1>5, <1>6
  <2> QED
    BY <1>1, <2>1, <2>2
<1>7. CASE o = Done(22) /\ o \notin SNP_GET_EXT_REPORT
  BY <1>1, <1>5, <1>7
<1> QED
  BY <1>3, <1>4, <1>6, <1>7 DEF SNP_GET_EXT_REPORT

(* What a response starts as. *)
LEMMA DefaultType == DefaultRsp \in Response
<1>1. DefaultReport \in {DefaultReport}
  OBVIOUS
<1> HIDE DEF DefaultReport
<1> QED
  BY <1>1 DEF DefaultRsp, Response

-----------------------------------------------------------------------------
(* The invariant. *)

(* A good result has its type. *)
LEMMA ResultType ==
  ASSUME NEW res, NEW rq, NEW sn, GoodResult(res, rq, sn)
  PROVE  /\ res.kind \in Kinds /\ Cardinality(res.certs) <= 1
         /\ res.key \in {"none", "zero", "derived"}
BY DEF GoodResult

(* It holds at first. *)
LEMMA InitInv == Init => Inv
<1> SUFFICES ASSUME Init PROVE Inv
  OBVIOUS
<1>1. GoodResult(result, req, seen)
  <2>1. result.kind \in Kinds \ {"Ok"} /\ result.certs = {} /\ result.key \in {"none"}
    BY ResultFields DEF Init, Kinds
  <2> QED
    BY <2>1, PlainIsGood
<1>2. req \in [data : ReportData, vmpl : 0 .. MAX_VMPL]
  BY DEF Init, MAX_VMPL
<1>3. fw_err \in (0 .. 2) \X {0, 22}
  BY DEF Init
<1>4. rsp \in Response
  BY DefaultType DEF Init
<1> QED
  BY <1>1, <1>2, <1>3, <1>4, ResultType DEF Init, Inv, TypeOK, InFlight, BufferOK

(* The host may replace its table at any time. *)
LEMMA SetTableInv == Inv /\ SetTable => Inv'
<1> SUFFICES ASSUME Inv, SetTable PROVE Inv'
  OBVIOUS
<1>1. GoodResult(result', req', seen')
  BY GoodForMore DEF Inv, SetTable
<1>2. TypeOK'
  BY DEF Inv, TypeOK, SetTable
<1>3. BufferOK'
  <2>1. TablesKept => ~Hosts[host].kernel
    BY DEF TablesKept, SetTable, Inv, TypeOK
  <2> QED
    BY <2>1 DEF BufferOK, SetTable
<1> QED
  BY <1>1, <1>2, <1>3 DEF Inv, InFlight, SetTable

(* get_derived_key has no report. *)
LEMMA DerivedKeyInv ==
  ASSUME Inv, NEW v \in 0 .. MAX_VMPL, get_derived_key(v)
  PROVE  Inv'
<1>1. \/ result' = Err("IOError")
      \/ \E k \in {"derived", "zero"} : result' = OkKey(k)
  BY DEF get_derived_key, Return
<1>2. GoodResult(result', req', seen')
  <2>1. CASE result' = Err("IOError")
    BY <2>1, ErrIsGood
  <2>2. ASSUME NEW k \in {"derived", "zero"}, result' = OkKey(k)
        PROVE  GoodResult(result', req', seen')
    <3>1. result'.kind \in Kinds \ {"Ok"} /\ result'.certs = {} /\ result'.key = k
      BY <2>2, ResultFields DEF Kinds
    <3> QED
      BY <3>1, PlainIsGood
  <2> QED
    BY <1>1, <2>1, <2>2
<1>3. TypeOK'
  BY <1>2, ResultType DEF Inv, TypeOK, get_derived_key, Return
<1> QED
  BY <1>2, <1>3 DEF Inv, InFlight, BufferOK, get_derived_key, Return

(* The VMPLs that are let through. *)
LEMMA ReqType ==
  ASSUME NEW d \in ReportData, NEW v \in {NoVmpl} \cup 0 .. MAX_VMPL + 1, ~BadVmpl(v)
  PROVE  [data |-> d, vmpl |-> VmplOf(v)] \in [data : ReportData, vmpl : 0 .. MAX_VMPL]
<1>1. VmplOf(v) \in 0 .. MAX_VMPL
  BY DEF VmplOf, BadVmpl, MAX_VMPL, NoVmpl
<1> QED
  BY <1>1

(* get_report answers, or fails. *)
LEMMA ReportInv ==
  ASSUME Inv, NEW d \in ReportData, NEW v \in {NoVmpl} \cup 0 .. MAX_VMPL + 1,
         get_report(d, v)
  PROVE  Inv'
<1>1. /\ req' \in [data : ReportData, vmpl : 0 .. MAX_VMPL] /\ rsp' \in Response
      /\ GoodResult(result', req', seen')
  <2>1. CASE BadVmpl(v)
    <3>1. result' = Err("VmplError") /\ UNCHANGED <<req, rsp>>
      BY <2>1 DEF get_report, Return
    <3> QED
      BY <3>1, ErrIsGood DEF Inv, TypeOK
  <2>2. CASE ~BadVmpl(v)
    <3>1. /\ req' = [data |-> d, vmpl |-> VmplOf(v)]
          /\ \/ rsp' = DefaultRsp /\ result' = Err("IOError")
             \/ rsp' = Answer(req') /\ result' = OkReport(rsp'.report, {})
      BY <2>2 DEF get_report, Return
    <3>2. req' \in [data : ReportData, vmpl : 0 .. MAX_VMPL]
      BY <2>2, <3>1, ReqType
    <3>3. CASE rsp' = DefaultRsp /\ result' = Err("IOError")
      BY <3>2, <3>3, ErrIsGood, DefaultType
    <3>4. CASE rsp' = Answer(req') /\ result' = OkReport(rsp'.report, {})
      BY <3>2, <3>4, AnswerType, ReportIsGood
    <3> QED
      BY <3>1, <3>3, <3>4
  <2> QED
    BY <2>1, <2>2
<1>2. TypeOK'
  BY <1>1, ResultType DEF Inv, TypeOK, get_report, Return
<1> QED
  BY <1>1, <1>2 DEF Inv, InFlight, BufferOK, get_report, Return

(* get_ext_report begins with an empty buffer. *)
LEMMA ExtReportInv ==
  ASSUME Inv, NEW d \in ReportData, NEW v \in {NoVmpl} \cup 0 .. MAX_VMPL + 1,
         get_ext_report(d, v)
  PROVE  Inv'
<1>1. CASE BadVmpl(v)
  <2>1. /\ pc' = "idle" /\ result' = Err("VmplError") /\ UNCHANGED <<req, len, rsp, fw_err>>
        /\ seen' = {table} /\ UNCHANGED <<host, table>>
    BY <1>1 DEF get_ext_report, Return
  <2>2. GoodResult(result', req', seen')
    BY <2>1, ErrIsGood
  <2> QED
    BY <2>1, <2>2, ResultType DEF Inv, TypeOK, InFlight, BufferOK
<1>2. CASE ~BadVmpl(v)
  <2>1. /\ req' = [data |-> d, vmpl |-> VmplOf(v)] /\ len' = 0 /\ rsp' = DefaultRsp
        /\ fw_err' = <<0, 0>> /\ pc' = "first" /\ result' = NoResult
        /\ seen' = {table} /\ UNCHANGED <<host, table>>
    BY <1>2 DEF get_ext_report
  <2>2. GoodResult(result', req', seen')
    <3>1. NoResult.kind \in Kinds \ {"Ok"} /\ NoResult.certs = {} /\ NoResult.key \in {"none"}
      BY ResultFields DEF Kinds
    <3> QED
      BY <2>1, <3>1, PlainIsGood
  <2>3. req' \in [data : ReportData, vmpl : 0 .. MAX_VMPL] /\ rsp' \in Response
    BY <1>2, <2>1, ReqType, DefaultType
  <2>4. fw_err' \in (0 .. 2) \X {0, 22}
    BY <2>1
  <2> QED
    BY <2>1, <2>2, <2>3, <2>4, ResultType DEF Inv, TypeOK, InFlight, BufferOK
<1> QED
  BY <1>1, <1>2

(* The first request ends the call or learns how much the table needs. *)
LEMMA FirstInv == Inv /\ First => Inv'
<1> SUFFICES ASSUME Inv, First PROVE Inv'
  OBVIOUS
<1>1. PICK o \in SNP_GET_EXT_REPORT \cup {Done(22)} :
        /\ len' = o.len /\ rsp' = o.rsp /\ fw_err' = o.fw_err
        /\ \/ /\ VmmFromU64(o.fw_err) = "InvalidCertificatePageLength"
              /\ pc' = "retry" /\ UNCHANGED result
           \/ Return(Err("RateLimitRetryRequest"))
           \/ Return(Err("IOError"))
           \/ Return(Err("InvalidConfig"))
           \/ o.ok /\ Return(OkReport(o.rsp.report, {}))
  BY DEF First
<1>2. /\ o.len \in Nat /\ o.rsp \in Response /\ o.fw_err \in (0 .. 2) \X {0, 22}
      /\ o.ok => o.rsp = Answer(req)
      /\ o.fw_err[1] = 1 => o.len = Needed
  BY OutcomeFacts DEF Inv
<1>3. pc = "first" /\ UNCHANGED <<host, table, seen, req>>
  BY DEF First
<1>4. /\ GoodResult(result', req', seen') /\ pc' \in {"idle", "retry"}
      /\ InFlight'
      /\ pc' = "retry" => len' = Needed
  <2>1. CASE /\ VmmFromU64(o.fw_err) = "InvalidCertificatePageLength"
             /\ pc' = "retry" /\ UNCHANGED result
    <3>1. o.fw_err[1] = 1
      BY <2>1 DEF VmmFromU64, VmmFromU32
    <3> QED
      BY <1>1, <1>2, <1>3, <2>1, <3>1 DEF Inv, InFlight
  <2>2. ASSUME NEW e \in {"VmplError", "IOError", "RateLimitRetryRequest", "InvalidConfig"},
               Return(Err(e))
        PROVE  GoodResult(result', req', seen') /\ pc' = "idle"
    BY <2>2, ErrIsGood DEF Return
  <2>3. CASE o.ok /\ Return(OkReport(o.rsp.report, {}))
    <3>1. GoodResult(OkReport(Answer(req).report, {}), req, seen)
      BY ReportIsGood
    <3> QED
      BY <1>2, <1>3, <2>3, <3>1 DEF Return, InFlight
  <2> QED
    BY <1>1, <2>1, <2>2, <2>3 DEF InFlight
<1>5. TypeOK'
  BY <1>1, <1>2, <1>3, <1>4, ResultType DEF Inv, TypeOK
<1>6. BufferOK'
  <2>1. Needed' = Needed
    BY <1>3 DEF Needed
  <2>2. Needed \in Nat
    BY NeededType DEF Inv
  <2> QED
    BY <1>4, <2>1, <2>2 DEF BufferOK
<1> QED
  BY <1>3, <1>4, <1>5, <1>6 DEF Inv

(* What the second request brings. *)
LEMMA BufferShows ==
  ASSUME Inv, NEW fits \in BOOLEAN
  PROVE  \/ Shows(sort(parse_table(Buffer(fits))), table)
         \/ ~fits /\ Shows(sort(parse_table(Buffer(fits))), <<>>)
<1>1. CASE fits /\ table # <<>>
  <2>1. Buffer(fits) = uapi_to_vec_bytes(table)
    BY <1>1 DEF Buffer
  <2> QED
    BY <2>1, TablesTyped, ShowsTable DEF Inv
<1>2. CASE ~(fits /\ table # <<>>)
  <2>1. Buffer(fits) = Nothing
    BY <1>2 DEF Buffer, Nothing
  <2> QED
    BY <1>2, <2>1, ShowsNothing
<1> QED
  BY <1>1, <1>2

(* The second brings the table that is there by then. *)
LEMMA RetryInv == Inv /\ Retry => Inv'
<1> SUFFICES ASSUME Inv, Retry PROVE Inv'
  OBVIOUS
<1> DEFINE fits == Needed <= len
           certs == sort(parse_table(Buffer(fits)))
<1>1. PICK o \in SNP_GET_EXT_REPORT :
        /\ len' = o.len /\ rsp' = o.rsp /\ fw_err' = o.fw_err
        /\ \/ Return(Err("IOError"))
           \/ o.ok /\ Return(OkReport(o.rsp.report, {certs}))
  BY DEF Retry
<1>2. /\ o.len \in Nat /\ o.rsp \in Response /\ o.fw_err \in (0 .. 2) \X {0, 22}
      /\ o.ok => o.rsp = Answer(req)
      /\ o.ok => fits \/ Hosts[host].kernel
  BY OutcomeFacts DEF Inv
<1>3. pc = "retry" /\ UNCHANGED <<host, table, seen, req>>
  BY DEF Retry
<1>4. pc' = "idle"
  BY <1>1 DEF Return
<1>5. Shows(certs, table) \/ (~fits /\ Shows(certs, <<>>))
  <2>1. fits \in BOOLEAN
    OBVIOUS
  <2> HIDE DEF fits
  <2> QED
    BY <2>1, BufferShows
<1>6. TablesKept /\ Hosts[host].kernel => fits
  BY <1>3 DEF Inv, BufferOK
<1> HIDE DEF fits, certs
<1>7. GoodResult(result', req', seen')
  <2>1. CASE Return(Err("IOError"))
    BY <2>1, ErrIsGood DEF Return
  <2>2. CASE o.ok /\ Return(OkReport(o.rsp.report, {certs}))
    <3>1. table \in seen
      BY DEF Inv
    <3>2. \E t \in seen \cup {<<>>} : Shows(certs, t)
      BY <1>5, <3>1
    <3>3. TablesKept => \E t \in seen : Shows(certs, t)
      BY <1>2, <1>5, <1>6, <2>2, <3>1
    <3>4. GoodResult(OkReport(Answer(req).report, {certs}), req, seen)
      BY <3>2, <3>3, CertsAreGood
    <3> QED
      BY <1>2, <1>3, <2>2, <3>4 DEF Return
  <2> QED
    BY <1>1, <2>1, <2>2
<1>8. TypeOK'
  BY <1>1, <1>2, <1>3, <1>4, <1>7, ResultType DEF Inv, TypeOK
<1> QED
  BY <1>3, <1>4, <1>7, <1>8 DEF Inv, InFlight, BufferOK

(* Nothing happens. *)
LEMMA StutterInv == Inv /\ UNCHANGED vars => Inv'
<1> SUFFICES ASSUME Inv, UNCHANGED vars PROVE Inv'
  OBVIOUS
<1>1. GoodResult(result', req', seen')
  BY DEF Inv, vars
<1>2. TypeOK' /\ InFlight' /\ BufferOK'
  BY DEF Inv, TypeOK, InFlight, BufferOK, Needed, vars
<1> QED
  BY <1>1, <1>2 DEF Inv, vars

(* Whatever the host does between the two requests, the invariant holds. *)
LEMMA SpecInv == Spec => []Inv
<1>1. Inv /\ [Next]_vars => Inv'
  <2> SUFFICES ASSUME Inv, [Next]_vars PROVE Inv'
    OBVIOUS
  <2> QED
    BY SetTableInv, ReportInv, ExtReportInv, DerivedKeyInv, FirstInv, RetryInv, StutterInv
       DEF Next
<1> QED
  BY InitInv, <1>1, PTL DEF Spec

-----------------------------------------------------------------------------
(* Requests, responses and results keep their types: in particular the      *)
(* buffer that a table needs is a number of bytes, whatever its entries.    *)
THEOREM TypeCorrect == Spec => []TypeOK
<1>1. Inv => TypeOK
  BY DEF Inv
<1> QED
  BY <1>1, SpecInv, PTL

(* A report that get_report or get_ext_report returns is the firmware's     *)
(* answer to this request, whichever of the two ioctls it came with.        *)
THEOREM ReportsAreAnswers == Spec => []ReportIsAnswer
<1>1. Inv => ReportIsAnswer
  <2> SUFFICES ASSUME Inv, result.kind = "Ok", req.vmpl >= Vmpl
               PROVE  result.report = Report(req.data, req.vmpl)
    BY DEF ReportIsAnswer
  <2>1. result.report = Answer(req).report
    BY DEF Inv, GoodResult
  <2> HIDE DEF Report
  <2>2. Answer(req).report = Report(req.data, req.vmpl)
    BY DEF Answer
  <2> QED
    BY <2>1, <2>2
<1> QED
  BY <1>1, SpecInv, PTL

(* When the host keeps its table, or its guests' kernel fails a request     *)
(* with too small a buffer, the certificates that are returned are those of *)
(* one table, in full and in order.                                         *)
THEOREM CertificatesAreHosts ==
  ASSUME TablesKept
  PROVE  Spec => []CertsAreHosts
<1>1. Inv => CertsAreHosts
  <2> SUFFICES ASSUME Inv, NEW certs \in result.certs
               PROVE  \E t \in seen : OrderOf(certs, t)
    BY DEF CertsAreHosts
  <2>1. PICK t \in seen : Shows(certs, t)
    BY DEF Inv, GoodResult
  <2>2. t \in Seq(TableEntry)
    BY TablesAssumption DEF Inv, TypeOK
  <2> QED
    BY <2>1, <2>2, ShowsOrder
<1> QED
  BY <1>1, SpecInv, PTL

-----------------------------------------------------------------------------
(* Attestation. *)

(* The entries that are shown are entries of the table. *)
LEMMA ShownAreListed ==
  ASSUME NEW t, NEW certs, t \in Seq(TableEntry), Shows(certs, t)
  PROVE  \E q : /\ \A n \in DOMAIN certs : q[n] \in Listed(t) /\ certs[n] = t[q[n]]
                /\ \A m, n \in DOMAIN certs : q[m] = q[n] => m = n
                /\ \A i \in Listed(t) : \E n \in DOMAIN certs : q[n] = i
<1>0. PICK k \in 0 .. Len(t) : \E q \in Bijection(1 .. k, 1 .. k) :
        Listed(t) = 1 .. k /\ certs = [n \in 1 .. k |-> t[q[n]]]
  BY DEF Shows
<1>1. PICK q \in Bijection(1 .. k, 1 .. k) :
        Listed(t) = 1 .. k /\ certs = [n \in 1 .. k |-> t[q[n]]]
  BY <1>0
<1>2. /\ q \in [1 .. k -> 1 .. k]
      /\ \A m, n \in 1 .. k : q[m] = q[n] => m = n
      /\ \A i \in 1 .. k : \E n \in 1 .. k : q[n] = i
  BY DEF Bijection, Injection, Surjection, IsInjective
<1>3. DOMAIN certs = 1 .. k /\ \A n \in 1 .. k : certs[n] = t[q[n]]
  BY <1>1
<1>4. \A n \in DOMAIN certs : q[n] \in Listed(t) /\ certs[n] = t[q[n]]
  BY <1>1, <1>2, <1>3
<1>5. /\ \A m, n \in DOMAIN certs : q[m] = q[n] => m = n
      /\ \A i \in Listed(t) : \E n \in DOMAIN certs : q[n] = i
  BY <1>1, <1>2, <1>3
<1> QED
  BY <1>4, <1>5

(* The key of a chain is that of one of the certificates. *)
LEMMA VekIsOneOf ==
  ASSUME NEW entries, parse_from_cert_table(entries).ok
  PROVE  \E i \in DOMAIN entries : /\ parse_from_cert_table(entries).vek = entries[i].data
                                   /\ IsCert(entries[i].data)
<1> DEFINE chain == parse_from_cert_table(entries)
           The(type) == entries[CHOOSE i \in OfType(entries, type) : TRUE].data
           Bad == \/ \E i \in DOMAIN entries : ~IsCert(entries[i].data)
                  \/ \E type \in {"ARK", "ASK", "VCEK", "VLEK"} :
                       Cardinality(OfType(entries, type)) > 1
                  \/ OfType(entries, "ARK") = {} \/ OfType(entries, "ASK") = {}
                  \/ OfType(entries, "VCEK") \cup OfType(entries, "VLEK") = {}
           vek == IF OfType(entries, "VLEK") # {} THEN "VLEK" ELSE "VCEK"
<1>1. chain = IF Bad THEN NoChain
              ELSE [ok |-> TRUE, ark |-> The("ARK"), ask |-> The("ASK"), vek |-> The(vek)]
  BY DEF parse_from_cert_table
<1>2. ~NoChain.ok
  BY DEF NoChain
<1>3. ~Bad
  <2> HIDE DEF Bad
  <2> QED
    BY <1>1, <1>2
<1>4. chain.vek = The(vek)
  <2> HIDE DEF Bad, The, vek
  <2> QED
    BY <1>1, <1>3
<1>5. OfType(entries, vek) # {}
  BY <1>3
<1>6. PICK i \in OfType(entries, vek) : The(vek) = entries[i].data
  BY <1>5
<1>7. i \in DOMAIN entries
  BY DEF OfType
<1> QED
  BY <1>3, <1>4, <1>6, <1>7

(* A report that verifies with the host's certificates is the firmware's    *)
(* answer, although nobody looks at the status of the response: the report  *)
(* of a refused request is signed by nobody.                                *)
THEOREM AttestedReportsAreGenuine == Spec => []AttestedIsGenuine
<1>1. Inv => AttestedIsGenuine
  <2> SUFFICES ASSUME Inv, Attested
               PROVE  req.vmpl >= Vmpl /\ result.report = Report(req.data, req.vmpl)
    BY DEF AttestedIsGenuine
  <2>1. PICK certs \in result.certs : report_verify(parse_from_cert_table(certs), result.report)
    BY DEF Attested
  <2> DEFINE chain == parse_from_cert_table(certs)
  <2>2. chain.ok /\ result.report.signed_by = Key(chain.vek)
    BY <2>1 DEF report_verify
  <2>3. PICK i \in DOMAIN certs : chain.vek = certs[i].data /\ IsCert(certs[i].data)
    BY <2>2, VekIsOneOf
  <2>4. PICK t \in seen \cup {<<>>} : Shows(certs, t)
    BY DEF Inv, GoodResult
  <2>5. t \in Seq(TableEntry) /\ Keyless(t)
    <3>1. CASE t \in seen
      BY <3>1, TablesAssumption DEF Inv, TypeOK
    <3>2. CASE t = <<>>
      BY <3>2 DEF Keyless
    <3> QED
      BY <3>1, <3>2
  <2>6. PICK j \in DOMAIN t : certs[i] = t[j]
    BY <2>4, <2>5, ShownAreListed DEF Listed
  <2>7. t[j].data # <<>>
    <3>1. Len(t[j].data) = 2 /\ Len(<<>>) = 0
      BY <2>3, <2>6 DEF IsCert
    <3> QED
      BY <3>1
  <2>8. result.report.signed_by # "nobody"
    BY <2>2, <2>3, <2>5, <2>6, <2>7 DEF Keyless
  <2>9. result.report = Answer(req).report
    BY DEF Inv, GoodResult, Attested
  <2>10. CASE req.vmpl >= Vmpl
    <3> HIDE DEF Report
    <3>1. Answer(req).report = Report(req.data, req.vmpl)
      BY <2>10 DEF Answer
    <3> QED
      BY <2>9, <2>10, <3>1
  <2>11. CASE ~(req.vmpl >= Vmpl)
    <3>1. Answer(req).report = DefaultReport
      BY <2>11 DEF Answer
    <3>2. DefaultReport.signed_by = "nobody"
      BY DEF DefaultReport
    <3> QED
      BY <2>8, <2>9, <3>1, <3>2
  <2> QED
    BY <2>10, <2>11
<1> QED
  BY <1>1, SpecInv, PTL

(* The certificates of a type, when there is one at most. *)
LEMMA AtMostOne ==
  ASSUME NEW S, IsFiniteSet(S)
  PROVE  Cardinality(S) <= 1 <=> \A x, y \in S : x = y
<1>1. ASSUME Cardinality(S) <= 1, NEW x \in S, NEW y \in S PROVE x = y
  <2>1. Cardinality(S) \in Nat /\ Cardinality(S) # 0
    BY FS_CardinalityType, FS_EmptySet
  <2>2. Cardinality(S) = 1
    BY <1>1, <2>1
  <2>3. PICK z : S = {z}
    BY <2>2, FS_Singleton
  <2> QED
    BY <2>3
<1>2. ASSUME \A x, y \in S : x = y PROVE Cardinality(S) <= 1
  <2>1. CASE S = {}
    BY <2>1, FS_EmptySet
  <2>2. CASE S # {}
    <3>1. PICK z : S = {z}
      BY <1>2, <2>2
    <3>2. Cardinality(S) = 1
      BY <3>1, FS_Singleton
    <3> QED
      BY <3>2
  <2> QED
    BY <2>1, <2>2
<1> QED
  BY <1>1, <1>2

(* The chain of a proper table leads to the firmware's key. *)
LEMMA ProperVerifies ==
  ASSUME NEW t, NEW certs, NEW report, t \in Seq(TableEntry), Shows(certs, t), Proper(t),
         report.signed_by = SigningKey
  PROVE  report_verify(parse_from_cert_table(certs), report)
<1>1. DOMAIN t = 1 .. Len(t) /\ Len(t) \in Nat
  BY TableFacts
<1>2. Listed(t) = DOMAIN t
  BY <1>1 DEF Listed, Proper
<1>3. PICK q : /\ \A n \in DOMAIN certs : q[n] \in DOMAIN t /\ certs[n] = t[q[n]]
               /\ \A m, n \in DOMAIN certs : q[m] = q[n] => m = n
               /\ \A i \in DOMAIN t : \E n \in DOMAIN certs : q[n] = i
  BY <1>2, ShownAreListed
<1>4. \A n \in DOMAIN certs : IsCert(certs[n].data)
  <2>1. \A i \in DOMAIN t : IsCert(t[i].data)
    BY DEF Proper
  <2> QED
    BY <1>3, <2>1
<1> DEFINE Types == {"ARK", "ASK", "VCEK", "VLEK"}
<1>5. ASSUME NEW type \in Types
      PROVE  \A i, j \in DOMAIN t : t[i].cert_type = type /\ t[j].cert_type = type => i = j
  <2> DEFINE S == {i \in DOMAIN t : t[i].cert_type = type}
  <2>1. IsFiniteSet(1 .. Len(t))
    BY <1>1, FS_Interval
  <2>2. IsFiniteSet(S)
    BY <1>1, <2>1, FS_Subset
  <2>3. Cardinality(S) <= 1
    BY DEF Proper
  <2> HIDE DEF S
  <2>4. \A i, j \in S : i = j
    BY <2>2, <2>3, AtMostOne
  <2> QED
    BY <2>4 DEF S
<1>6. ASSUME NEW type \in Types
      PROVE  \A m, n \in OfType(certs, type) : m = n
  BY <1>3, <1>5 DEF OfType
<1>7. ASSUME NEW type \in Types, NEW i \in DOMAIN t, t[i].cert_type = type
      PROVE  /\ OfType(certs, type) # {}
             /\ certs[CHOOSE n \in OfType(certs, type) : TRUE].data = t[i].data
  <2>1. PICK n \in DOMAIN certs : q[n] = i
    BY <1>3
  <2>2. n \in OfType(certs, type) /\ certs[n] = t[i]
    BY <1>3, <1>7, <2>1 DEF OfType
  <2>3. (CHOOSE m \in OfType(certs, type) : TRUE) = n
    BY <1>6, <2>2
  <2> QED
    BY <2>2, <2>3
<1>8. ASSUME NEW type \in Types PROVE ~(Cardinality(OfType(certs, type)) > 1)
  <2> DEFINE S == OfType(certs, type)
  <2>1. S = {} \/ \E x : S = {x}
    BY <1>6
  <2>2. Cardinality(S) = 0 \/ Cardinality(S) = 1
    <3> HIDE DEF S
    <3> QED
      BY <2>1, FS_EmptySet, FS_Singleton
  <2> QED
    BY <2>2
<1>9. PICK a, s, v \in DOMAIN t :
        /\ t[a].cert_type = "ARK" /\ t[s].cert_type = "ASK"
        /\ \/ t[v].cert_type = "VLEK"
           \/ t[v].cert_type = "VCEK" /\ \A i \in DOMAIN t : t[i].cert_type # "VLEK"
        /\ t[v].data[1] = SigningKey /\ t[v].data[2] = t[s].data[1]
        /\ t[s].data[2] = t[a].data[1] /\ t[a].data[2] = t[a].data[1]
  BY DEF Proper
<1> DEFINE The(type) == certs[CHOOSE i \in OfType(certs, type) : TRUE].data
           vek == IF OfType(certs, "VLEK") # {} THEN "VLEK" ELSE "VCEK"
           chain == [ok |-> TRUE, ark |-> The("ARK"), ask |-> The("ASK"), vek |-> The(vek)]
<1>10. The("ARK") = t[a].data /\ The("ASK") = t[s].data
  BY <1>7, <1>9
<1>11. The(vek) = t[v].data /\ OfType(certs, vek) # {}
  <2>1. CASE t[v].cert_type = "VLEK"
    BY <1>7, <2>1
  <2>2. CASE t[v].cert_type = "VCEK" /\ \A i \in DOMAIN t : t[i].cert_type # "VLEK"
    <3>1. OfType(certs, "VLEK") = {}
      BY <1>3, <2>2 DEF OfType
    <3> QED
      BY <1>7, <2>2, <3>1
  <2> QED
    BY <1>9, <2>1, <2>2
<1>12. OfType(certs, "ARK") # {} /\ OfType(certs, "ASK") # {}
  BY <1>7, <1>9
<1>13. OfType(certs, "VCEK") \cup OfType(certs, "VLEK") # {}
  BY <1>11
<1>14. parse_from_cert_table(certs) = chain
  BY <1>4, <1>8, <1>12, <1>13 DEF parse_from_cert_table
<1> HIDE DEF The, vek
<1>15. chain.ok /\ chain.ark = t[a].data /\ chain.ask = t[s].data /\ chain.vek = t[v].data
  BY <1>10, <1>11
<1> HIDE DEF chain
<1>16. report_verify(chain, report)
  BY <1>9, <1>15 DEF report_verify, chain_verify, ca_verify, Signs, Signer, Key
<1> QED
  BY <1>14, <1>16

(* With a proper table on a host that keeps it (or fails a request with too *)
(* small a buffer), attestation succeeds: chain and report verify.          *)
THEOREM AttestationSucceeds ==
  ASSUME TablesKept
  PROVE  Spec => []AttestationWorks
<1>1. Inv => AttestationWorks
  <2> SUFFICES ASSUME Inv, result.kind = "Ok", result.certs # {}, req.vmpl >= Vmpl,
                      \A t \in seen : Proper(t)
               PROVE  Attested
    BY DEF AttestationWorks
  <2>1. PICK certs \in result.certs : TRUE
    OBVIOUS
  <2>2. PICK t \in seen : Shows(certs, t)
    BY DEF Inv, GoodResult
  <2>3. t \in Seq(TableEntry) /\ Proper(t)
    BY TablesAssumption DEF Inv, TypeOK
  <2>4. result.report.signed_by = SigningKey
    <3>1. result.report = Answer(req).report
      BY DEF Inv, GoodResult
    <3>2. Answer(req).report = Report(req.data, req.vmpl)
      <4> HIDE DEF Report
      <4> QED
        BY DEF Answer
    <3> QED
      BY <3>1, <3>2 DEF Report
  <2>5. report_verify(parse_from_cert_table(certs), result.report)
    BY <2>2, <2>3, <2>4, ProperVerifies
  <2> QED
    BY <2>5 DEF Attested
<1> QED
  BY <1>1, SpecInv, PTL
=============================================================================
