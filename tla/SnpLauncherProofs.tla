------------------------- MODULE SnpLauncherProofs --------------------------
(***************************************************************************)
(* Theorems about launching an SNP guest: for any machines, images, owners  *)
(* and orders, any sizes of pages and images, and any failures.             *)
(***************************************************************************)
EXTENDS SnpMeasureProofs

-----------------------------------------------------------------------------
(* The pages of the first r regions. *)
Upto(R) == CHOOSE f : IsUpto(PageInfos, R, f)

(* The pages of the first r regions, region by region. *)
LEMMA UptoIs ==
  ASSUME NEW R \in Seq(Seq(PageInfos))
  PROVE  IsUpto(PageInfos, R, Upto(R))
BY UptoExists DEF Upto

(* A prefix of a sequence of pages. *)
LEMMA Prefix ==
  ASSUME NEW s \in Seq(PageInfos), NEW k \in 0 .. Len(s)
  PROVE  /\ SubSeq(s, 1, k) \in Seq(PageInfos)
         /\ Len(SubSeq(s, 1, k)) = k
         /\ \A i \in 1 .. k : SubSeq(s, 1, k)[i] = s[i]
OBVIOUS

(* A piece of a region. *)
LEMMA PieceOf ==
  ASSUME NEW s \in Seq(PageInfos), NEW a \in Nat, NEW n \in Nat, a + n <= Len(s)
  PROVE  /\ SubSeq(s, a + 1, a + n) \in Seq(PageInfos)
         /\ Len(SubSeq(s, a + 1, a + n)) = n
         /\ \A i \in 1 .. n : SubSeq(s, a + 1, a + n)[i] = s[a + i]
<1>1. \A i \in a + 1 .. a + n : s[i] \in PageInfos
  OBVIOUS
<1> QED
  BY <1>1

(* Nothing added. *)
LEMMA NothingAdded ==
  ASSUME NEW s \in Seq(PageInfos), NEW t \in Seq(PageInfos)
  PROVE  s \o SubSeq(t, 1, 0) = s /\ s \o SubSeq(t, 1, Len(t)) = s \o t
OBVIOUS

(* Concatenation is associative. *)
LEMMA Associative ==
  ASSUME NEW S, NEW u \in Seq(S), NEW p \in Seq(S), NEW q \in Seq(S), NEW r, r = p \o q
  PROVE  (u \o p) \o q = u \o r
BY ConcatAssociative

(* The length of a concatenation. *)
LEMMA LenOf ==
  ASSUME NEW S, NEW p \in Seq(S), NEW q \in Seq(S), NEW r, r = p \o q
  PROVE  Len(r) = Len(p) + Len(q)
OBVIOUS

(* Two parts of a sequence. *)
LEMMA TwoParts ==
  ASSUME NEW S, NEW p \in Seq(S), NEW q \in Seq(S), NEW w \in Seq(S),
         Len(w) = Len(p) + Len(q),
         \A i \in 1 .. Len(p) : p[i] = w[i],
         \A i \in 1 .. Len(q) : q[i] = w[Len(p) + i]
  PROVE  w = p \o q
<1> DEFINE r == p \o q
<1>1. r \in Seq(S) /\ Len(r) = Len(p) + Len(q)
  OBVIOUS
<1>2. ASSUME NEW i \in 1 .. Len(p) + Len(q) PROVE r[i] = w[i]
  <2>1. CASE i <= Len(p)
    BY <2>1
  <2>2. CASE i > Len(p)
    <3>1. r[i] = q[i - Len(p)] /\ i - Len(p) \in 1 .. Len(q)
      BY <2>2
    <3>2. Len(p) + (i - Len(p)) = i
      OBVIOUS
    <3> HIDE DEF r
    <3> QED
      BY <3>1, <3>2
  <2> QED
    BY <2>1, <2>2
<1> HIDE DEF r
<1>3. r = w
  BY <1>1, <1>2, SeqEqual
<1> QED
  BY <1>3 DEF r

(* x is u and the first a of s; t is the n of s after the first a. *)
Grown(x, u, s, a) == x = u \o SubSeq(s, 1, a)
Piece(t, s, a, n) == t = SubSeq(s, a + 1, a + n)

(* The first j pages of the piece after the first a of a region. *)
LEMMA PartGrows ==
  ASSUME NEW u \in Seq(PageInfos), NEW s \in Seq(PageInfos), NEW a \in Nat, NEW n \in Nat,
         a + n <= Len(s), NEW j \in 0 .. n,
         NEW t, Piece(t, s, a, n), NEW x, Grown(x, u, s, a)
  PROVE  Grown(x \o SubSeq(t, 1, j), u, s, a + j)
<1> DEFINE p == SubSeq(s, 1, a)
           q == SubSeq(t, 1, j)
           w == SubSeq(s, 1, a + j)
<1>1. t \in Seq(PageInfos) /\ Len(t) = n /\ \A i \in 1 .. n : t[i] = s[a + i]
  BY PieceOf DEF Piece
<1>2. p \in Seq(PageInfos) /\ Len(p) = a /\ \A i \in 1 .. a : p[i] = s[i]
  BY Prefix
<1>3. w \in Seq(PageInfos) /\ Len(w) = a + j /\ \A i \in 1 .. a + j : w[i] = s[i]
  BY Prefix
<1>4. q \in Seq(PageInfos) /\ Len(q) = j /\ \A i \in 1 .. j : q[i] = s[a + i]
  <2>1. q \in Seq(PageInfos) /\ Len(q) = j /\ \A i \in 1 .. j : q[i] = t[i]
    BY <1>1, Prefix
  <2> QED
    BY <1>1, <2>1
<1> HIDE DEF p, q, w
<1>5. w = p \o q
  <2>1. Len(w) = Len(p) + Len(q)
    BY <1>2, <1>3, <1>4
  <2>2. ASSUME NEW i \in 1 .. Len(p) PROVE p[i] = w[i]
    <3>1. i \in 1 .. a /\ i \in 1 .. a + j
      BY <1>2
    <3>2. p[i] = s[i] /\ w[i] = s[i]
      BY <1>2, <1>3, <3>1, Zenon
    <3> QED
      BY <3>2
  <2>3. ASSUME NEW i \in 1 .. Len(q) PROVE q[i] = w[Len(p) + i]
    <3>1. i \in 1 .. j /\ a + i \in 1 .. a + j
      BY <1>4
    <3> QED
      BY <1>2, <1>3, <1>4, <3>1
  <2> QED
    BY <1>2, <1>3, <1>4, <2>1, <2>2, <2>3, TwoParts
<1>6. (u \o p) \o q = u \o w
  BY <1>2, <1>4, <1>5, Associative, SMTT(40)
<1> QED
  BY <1>6 DEF p, q, w, Grown

-----------------------------------------------------------------------------
(* What the ioctls come to. *)

States == {"none", "init", "started", "running"}

Ids == {Identity(x[1], x[2]) : x \in UNION {o.id_block \X o.id_auth : o \in Orders}}

Guests == [state : States, ld : Seq(PageInfos), policy : Nat, id : SUBSET Ids]

Blame == {BadSignature, BadMeasurement, PolicyFailure}

(* A failure has a code that becomes an io::Error, and keeps its blame. *)
LEMMA CodeIsIoError ==
  ASSUME NEW c \in Nat
  PROVE  /\ ToIo(encapsulate(c)) \in IoError
         /\ \A b \in Blame : ToIo(encapsulate(c)) = ToIo(b) => c = b
<1>1. encapsulate(c) \in Indeterminate
  BY DEF encapsulate, FromIo, FromU32, Indeterminate, IoErr, UnknownErr, KnownCodes
<1>2. ASSUME NEW b \in Blame, encapsulate(c) = b PROVE c = b
  BY <1>2 DEF Blame, encapsulate, FromIo, FromU32, IoErr, UnknownErr, KnownCodes, BadSignature,
              BadMeasurement, PolicyFailure
<1>3. ASSUME NEW x, NEW y, ToIo(x) = ToIo(y) PROVE x = y
  BY <1>3 DEF ToIo, Other
<1>4. ToIo(encapsulate(c)) \in IoError
  BY <1>1 DEF ToIo, Other, IoError
<1> QED
  BY <1>2, <1>3, <1>4

(* The error of a system call is one. *)
LEMMA OsIsIoError == Os \in IoError
BY DEF Os, IoError, Indeterminate

(* What SNP_INIT may do to a guest. *)
LEMMA InitOutcome ==
  ASSUME NEW g \in Guests, NEW o \in SNP_INIT(g)
  PROVE  /\ o.error \in Nat /\ o.g \in Guests
         /\ o.g.ld = g.ld
         /\ o.ok => o.g.state = "init"
         /\ ~o.ok => o.g = g
<1>1. CASE o \in Outcomes(FALSE, Failures, g)
  BY <1>1, FailuresAssumption DEF Outcomes
<1>2. CASE o \in Outcomes(TRUE, {0}, [g EXCEPT !.state = "init"])
  BY <1>2 DEF Outcomes, Guests, States
<1>3. CASE o \in Outcomes(FALSE, {0}, g)
  BY <1>3 DEF Outcomes
<1> QED
  BY <1>1, <1>2, <1>3 DEF SNP_INIT

(* What SNP_LAUNCH_START may do to a guest. *)
LEMMA StartOutcome ==
  ASSUME NEW g \in Guests, g.state = "init", NEW cmd, cmd.policy \in Nat,
         NEW o \in SNP_LAUNCH_START(g, cmd)
  PROVE  /\ o.error \in Nat /\ o.g \in Guests
         /\ o.g.ld = g.ld
         /\ o.ok => o.g.state = "started" /\ o.g.policy = cmd.policy
         /\ ~o.ok => o.g = g
<1> DEFINE g2 == [g EXCEPT !.state = "started", !.policy = cmd.policy]
<1>1. CASE o \in Outcomes(FALSE, Failures, g)
  BY <1>1, FailuresAssumption DEF Outcomes
<1>2. CASE o \in Outcomes(FALSE, {PolicyFailure}, g)
  BY <1>2 DEF Outcomes, PolicyFailure
<1>3. CASE o \in Outcomes(TRUE, {0}, g2)
  <2>1. g2 \in Guests /\ g2.ld = g.ld /\ g2.state = "started" /\ g2.policy = cmd.policy
    BY DEF Guests, States
  <2> HIDE DEF g2
  <2> QED
    BY <1>3, <2>1 DEF Outcomes
<1>4. o \in Outcomes(FALSE, Failures, g) \/ o \in Outcomes(FALSE, {PolicyFailure}, g)
        \/ o \in Outcomes(TRUE, {0}, g2)
  BY DEF SNP_LAUNCH_START
<1> QED
  BY <1>1, <1>2, <1>3, <1>4

(* The first n pages are ones that are not measured yet. *)
Fresh(ld, pages, n) == \A i \in 1 .. n, k \in 1 .. Len(ld) : pages[i].gpa # ld[k].gpa

Added(ld, pages, o) ==
  \E n \in 0 .. Len(pages) : /\ o.g.ld = ld \o SubSeq(pages, 1, n)
                             /\ o.ok => n = Len(pages)
                             /\ ~o.ok => n < Len(pages)
                             /\ Fresh(ld, pages, n)

(* An update adds the first of its pages, all if it is Ok, and only such    *)
(* as the guest has not.                                                    *)
LEMMA UpdateOutcome ==
  ASSUME NEW g \in Guests, g.state = "started", NEW pages \in Seq(PageInfos),
         NEW o \in SNP_LAUNCH_UPDATE(g, pages)
  PROVE  /\ o.error \in Nat /\ o.g \in Guests
         /\ o.g.state = "started" /\ o.g.policy = g.policy
         /\ (~o.ok /\ o.g = g) \/ Added(g.ld, pages, o)
<1> DEFINE has == {g.ld[i].gpa : i \in 1 .. Len(g.ld)}
           fresh == {n \in 0 .. Len(pages) : \A i \in 1 .. n : pages[i].gpa \notin has}
           With(n) == [g EXCEPT !.ld = @ \o SubSeq(pages, 1, n)]
<1>0. Len(pages) \in Nat
  OBVIOUS
<1>1. ASSUME NEW n \in fresh
      PROVE  /\ With(n) \in Guests /\ With(n).state = "started" /\ With(n).policy = g.policy
             /\ With(n).ld = g.ld \o SubSeq(pages, 1, n)
             /\ Fresh(g.ld, pages, n)
  <2>1. SubSeq(pages, 1, n) \in Seq(PageInfos) /\ g.ld \in Seq(PageInfos)
    BY Prefix DEF Guests
  <2>2. g.ld \o SubSeq(pages, 1, n) \in Seq(PageInfos)
    BY <2>1, ConcatProperties
  <2>3. With(n).ld = g.ld \o SubSeq(pages, 1, n)
    BY DEF Guests
  <2>4. With(n) \in Guests /\ With(n).state = "started" /\ With(n).policy = g.policy
    BY <2>2 DEF Guests
  <2>5. Fresh(g.ld, pages, n)
    BY DEF Fresh
  <2> HIDE DEF With
  <2> QED
    BY <2>3, <2>4, <2>5
<1>5. \/ \E n \in fresh \ {Len(pages)} : o \in Outcomes(FALSE, Failures, With(n))
      \/ Len(pages) \in fresh /\ o \in Outcomes(TRUE, {0}, With(Len(pages)))
      \/ o \in Outcomes(FALSE, {0}, g)
  <2>1. g.state = "started" => SNP_LAUNCH_UPDATE(g, pages) =
            (UNION {Outcomes(FALSE, Failures, With(n)) : n \in fresh \ {Len(pages)}})
              \cup IF Len(pages) \in fresh THEN Outcomes(TRUE, {0}, With(Len(pages)))
                   ELSE Outcomes(FALSE, {0}, g)
    BY Zenon DEF SNP_LAUNCH_UPDATE
  <2> DEFINE A == {Outcomes(FALSE, Failures, With(n)) : n \in fresh \ {Len(pages)}}
             B == IF Len(pages) \in fresh THEN Outcomes(TRUE, {0}, With(Len(pages)))
                  ELSE Outcomes(FALSE, {0}, g)
  <2> HIDE DEF With, fresh
  <2>2. o \in UNION A \/ o \in B
    <3> HIDE DEF A, B
    <3>1. SNP_LAUNCH_UPDATE(g, pages) = (UNION A) \cup B
      BY <2>1, Zenon DEF A, B
    <3> QED
      BY <3>1
  <2>3. CASE o \in UNION A
    BY <2>3, Zenon
  <2>4. CASE o \in B
    BY <2>4, Zenon
  <2> QED
    BY <2>2, <2>3, <2>4
<1>6. fresh \subseteq 0 .. Len(pages)
  OBVIOUS
<1> HIDE DEF With, fresh
<1>2. CASE \E n \in fresh \ {Len(pages)} : o \in Outcomes(FALSE, Failures, With(n))
  <2>1. PICK n \in fresh \ {Len(pages)} : o \in Outcomes(FALSE, Failures, With(n))
    BY <1>2
  <2>2. ~o.ok /\ o.error \in Nat /\ o.g = With(n) /\ n \in 0 .. Len(pages) /\ n < Len(pages)
    BY <1>0, <1>6, <2>1, FailuresAssumption DEF Outcomes
  <2> QED
    BY <1>1, <2>2 DEF Added
<1>3. CASE Len(pages) \in fresh /\ o \in Outcomes(TRUE, {0}, With(Len(pages)))
  <2>1. o.ok /\ o.error \in Nat /\ o.g = With(Len(pages)) /\ Len(pages) \in 0 .. Len(pages)
    BY <1>0, <1>3 DEF Outcomes
  <2> QED
    BY <1>1, <1>3, <2>1 DEF Added
<1>4. CASE o \in Outcomes(FALSE, {0}, g)
  <2>1. ~o.ok /\ o.error = 0 /\ o.g = g
    BY <1>4 DEF Outcomes
  <2> QED
    BY <2>1 DEF Guests
<1> QED
  BY <1>2, <1>3, <1>4, <1>5

(* What the firmware wants of an ID block. *)
Passes(ld, policy, block, auth) ==
  /\ Signs(auth.id_pubkey, block, auth.id_block_sig)
  /\ Signs(auth.author_pub_key, auth.id_pubkey, auth.id_key_sig)
  /\ block.launch_digest = {ld}
  /\ block.policy = policy

(* The firmware has nothing to say of a block exactly if it passes. *)
LEMMA Verdict ==
  ASSUME NEW g, NEW block, NEW auth, NEW cmd, cmd.auth_key_en
  PROVE  /\ IdBlockError(g, block, auth, cmd.auth_key_en) \subseteq Blame
         /\ IdBlockError(g, block, auth, cmd.auth_key_en) = {}
              <=> Passes(g.ld, g.policy, block, auth)
<1> DEFINE S == Signs(auth.id_pubkey, block, auth.id_block_sig)
           T == Signs(auth.author_pub_key, auth.id_pubkey, auth.id_key_sig)
           E == IdBlockError(g, block, auth, cmd.auth_key_en)
<1>1. CASE ~S \/ ~T
  <2>1. E = {BadSignature}
    BY <1>1, Zenon DEF IdBlockError
  <2> QED
    BY <1>1, <2>1 DEF Blame, Passes
<1>2. CASE S /\ T
  <2>1. E = IF block.launch_digest # {g.ld} THEN {BadMeasurement}
            ELSE IF block.policy # g.policy THEN {PolicyFailure} ELSE {}
    BY <1>2, Zenon DEF IdBlockError
  <2> HIDE DEF E
  <2>2. E \subseteq Blame /\ (E = {} <=> block.launch_digest = {g.ld} /\ block.policy = g.policy)
    BY <2>1 DEF Blame
  <2> QED
    BY <1>2, <2>2 DEF Passes, E
<1> QED
  BY <1>1, <1>2

(* finish(): the guest runs with all its pages and a block that passes, or  *)
(* is refused, for a block only if that does not pass.                      *)
LEMMA FinishOutcome ==
  ASSUME NEW g \in Guests, g.state = "started", NEW od \in Orders,
         NEW areas \in Seq(PageInfos),
         NEW o \in SNP_LAUNCH_FINISH(g, LaunchFinish(od), areas)
  PROVE  /\ o.error \in Nat /\ o.g \in Guests
         /\ o.g.policy = g.policy
         /\ o.ok => /\ o.g.ld = g.ld \o areas
                    /\ \A id \in o.g.id : \E x \in od.id_block \X od.id_auth :
                         /\ id = Identity(x[1], x[2])
                         /\ Passes(o.g.ld, o.g.policy, x[1], x[2])
         /\ ~o.ok /\ o.error \in Blame =>
              /\ o.g.ld = g.ld \o areas
              /\ \E x \in od.id_block \X od.id_auth :
                   ~Passes(o.g.ld, o.g.policy, x[1], x[2])
<1> DEFINE cmd == LaunchFinish(od)
           full == [g EXCEPT !.ld = @ \o areas]
           Run(id) == Outcomes(TRUE, {0}, [full EXCEPT !.state = "running", !.id = id])
           blocks == cmd.id_block \X cmd.id_auth
           Error(x) == IdBlockError(full, x[1], x[2], cmd.auth_key_en)
           errors == UNION {Error(x) : x \in blocks}
           id2 == {Identity(x[1], x[2]) : x \in blocks}
<1>1. blocks = od.id_block \X od.id_auth
  BY DEF LaunchFinish
<1>2. g.ld \o areas \in Seq(PageInfos)
  BY ConcatProperties DEF Guests
<1>3. full \in Guests /\ full.ld = g.ld \o areas /\ full.policy = g.policy
  BY <1>2 DEF Guests
<1>4. ASSUME NEW x \in blocks
      PROVE  /\ Error(x) \subseteq Blame
             /\ Error(x) = {} <=> Passes(full.ld, full.policy, x[1], x[2])
  <2>1. cmd.auth_key_en
    BY <1>1 DEF LaunchFinish
  <2> HIDE DEF cmd, full
  <2> QED
    BY <2>1, Verdict, Zenon
<1>5. id2 \in SUBSET Ids
  BY <1>1 DEF Ids
<1>6. \/ o \in Outcomes(FALSE, Failures, g)
      \/ o \in Outcomes(FALSE, {0}, g)
      \/ o \in Run({})
      \/ blocks # {} /\ errors # {} /\ o \in Outcomes(FALSE, errors, full)
      \/ blocks # {} /\ errors = {} /\ o \in Run(id2)
  <2> DEFINE X == CASE g.state # "started" -> Outcomes(FALSE, {InvalidGuestState}, g)
                    [] g.state = "started" /\ ~cmd.id_block_en -> Run({})
                    [] g.state = "started" /\ cmd.id_block_en /\ blocks = {} -> Outcomes(FALSE, {0}, g)
                    [] g.state = "started" /\ blocks # {} /\ errors # {} -> Outcomes(FALSE, errors, full)
                    [] g.state = "started" /\ blocks # {} /\ errors = {} -> Run(id2)
  <2>1. o \in Outcomes(FALSE, Failures, g) \/ o \in X
    BY DEF SNP_LAUNCH_FINISH
  <2>0. cmd.id_block_en <=> od.id_block # {}
    BY DEF LaunchFinish
  <2> HIDE DEF cmd, full, Run, errors, blocks, id2
  <2> HIDE DEF X
  <2>2. ~cmd.id_block_en => X = Run({})
    <3>1. ~cmd.id_block_en => blocks = {}
      BY <2>0 DEF blocks, cmd, LaunchFinish
    <3> QED
      BY <3>1, Zenon DEF X
  <2>3. cmd.id_block_en /\ blocks = {} => X = Outcomes(FALSE, {0}, g)
    BY Zenon DEF X
  <2>4. cmd.id_block_en /\ blocks # {} /\ errors # {} => X = Outcomes(FALSE, errors, full)
    BY Zenon DEF X
  <2>5. cmd.id_block_en /\ blocks # {} /\ errors = {} => X = Run(id2)
    BY Zenon DEF X
  <2> QED
    BY <2>1, <2>2, <2>3, <2>4, <2>5, Zenon
<1>7. CASE o \in Outcomes(FALSE, Failures, g)
  <2>1. ~o.ok /\ o.error \in Nat \ Blame /\ o.g = g
    BY <1>7, FailuresAssumption DEF Outcomes, Blame
  <2> QED
    BY <2>1
<1>8. CASE o \in Outcomes(FALSE, {0}, g)
  <2>1. ~o.ok /\ o.error \in Nat \ Blame /\ o.g = g
    BY <1>8 DEF Outcomes, Blame, BadSignature, BadMeasurement, PolicyFailure
  <2> QED
    BY <2>1
<1>9. ASSUME NEW id \in SUBSET Ids, o \in Run(id)
      PROVE  /\ o.ok /\ o.error \in Nat /\ o.g \in Guests /\ o.g.policy = g.policy
             /\ o.g.ld = g.ld \o areas /\ o.g.id = id
  <2> HIDE DEF full
  <2> DEFINE g2 == [full EXCEPT !.state = "running", !.id = id]
  <2>1. g2 \in Guests /\ g2.ld = full.ld /\ g2.policy = full.policy /\ g2.id = id
    BY <1>3 DEF Guests, States
  <2>2. o.ok /\ o.error \in Nat /\ o.g = g2
    <3> HIDE DEF g2
    <3>1. o \in Outcomes(TRUE, {0}, g2)
      BY <1>9, Zenon DEF g2
    <3> QED
      BY <3>1 DEF Outcomes
  <2> HIDE DEF g2
  <2> QED
    BY <1>3, <2>1, <2>2
<1>10. CASE o \in Run({})
  <2>1. {} \in SUBSET Ids
    OBVIOUS
  <2> HIDE DEF Run
  <2> QED
    BY <1>9, <1>10, <2>1
<1>11. CASE blocks # {} /\ errors # {} /\ o \in Outcomes(FALSE, errors, full)
  <2> HIDE DEF full, blocks, cmd
  <2>1. ~o.ok /\ o.error \in errors /\ o.g = full
    <3> HIDE DEF errors
    <3> QED
      BY <1>11 DEF Outcomes
  <2>2. PICK x \in blocks : o.error \in Error(x)
    BY <2>1
  <2> HIDE DEF Error
  <2>3. o.error \in Nat
    BY <1>4, <2>2 DEF Blame, BadSignature, BadMeasurement, PolicyFailure
  <2>4. ~Passes(o.g.ld, o.g.policy, x[1], x[2])
    BY <1>4, <2>1, <2>2
  <2> QED
    BY <1>1, <1>3, <2>1, <2>2, <2>3, <2>4
<1>12. CASE blocks # {} /\ errors = {} /\ o \in Run(id2)
  <2> HIDE DEF Run, full, cmd, blocks
  <2>1. /\ o.ok /\ o.error \in Nat /\ o.g \in Guests /\ o.g.policy = g.policy
        /\ o.g.ld = g.ld \o areas /\ o.g.id = id2
    <3> HIDE DEF id2
    <3> QED
      BY <1>5, <1>9, <1>12
  <2>2. ASSUME NEW id \in o.g.id
        PROVE  \E x \in blocks : id = Identity(x[1], x[2]) /\ Passes(o.g.ld, o.g.policy, x[1], x[2])
    <3>1. PICK x \in blocks : id = Identity(x[1], x[2])
      BY <2>1
    <3>2. Error(x) = {}
      <4> HIDE DEF Error
      <4> QED
        BY <1>12
    <3> HIDE DEF Error
    <3>3. Passes(o.g.ld, o.g.policy, x[1], x[2])
      BY <1>3, <1>4, <2>1, <3>2
    <3> QED
      BY <3>1, <3>3
  <2> QED
    BY <1>1, <2>1, <2>2
<1> QED
  BY <1>6, <1>7, <1>8, <1>10, <1>11, <1>12

-----------------------------------------------------------------------------
(* What is measured when the VMM has got to page b of region a: all before  *)
(* it, and e pages more if an update has failed half way,  *)
(* which no other then gets past.                                           *)
LoadOK(ld, a, b, m) ==
  LET R == Regions(m)
  IN  \/ a = Len(R) + 1 /\ b = 0 /\ ld = Upto(R)[Len(R)]
      \/ /\ a \in 1 .. Len(R)
         /\ \E e \in Nat : b + e < Len(R[a]) /\ ld = Upto(R)[a - 1] \o SubSeq(R[a], 1, b + e)

(* What LoadOK is about. *)
LEMMA RegionFacts ==
  ASSUME NEW m \in Machines
  PROVE  /\ Len(Regions(m)) \in Nat
         /\ SaveAreas(m) \in Seq(PageInfos)
         /\ \A r \in 1 .. Len(Regions(m)) :
              /\ Regions(m)[r] \in Seq(PageInfos) /\ Len(Regions(m)[r]) # 0
              /\ Upto(Regions(m))[r] = Upto(Regions(m))[r - 1] \o Regions(m)[r]
         /\ \A r \in 0 .. Len(Regions(m)) : Upto(Regions(m))[r] \in Seq(PageInfos)
         /\ Upto(Regions(m))[0] = <<>>
         /\ Upto(Regions(m))[Len(Regions(m))] = FlattenSeq(Regions(m))
<1> DEFINE R == Regions(m)
<1>1. /\ R \in Seq(Seq(PageInfos)) /\ SaveAreas(m) \in Seq(PageInfos)
      /\ \A r \in 1 .. Len(R) : Len(R[r]) # 0
  <2>1. m \in DOMAIN Image
    BY MachinesAssumption
  <2> QED
    BY <2>1, RegionsAre, RegionsHavePages, MachineIsRead, SaveAreasAre
<1> HIDE DEF R
<1>2. IsUpto(PageInfos, R, Upto(R))
  BY <1>1, UptoIs
<1>3. Len(R) \in Nat /\ \A r \in 1 .. Len(R) : R[r] \in Seq(PageInfos)
  BY <1>1
<1>4. /\ \A r \in 1 .. Len(R) : Upto(R)[r] = Upto(R)[r - 1] \o R[r]
      /\ \A r \in 0 .. Len(R) : Upto(R)[r] \in Seq(PageInfos)
      /\ Upto(R)[0] = <<>>
      /\ Upto(R)[Len(R)] = FlattenSeq(R)
  BY <1>2 DEF IsUpto
<1> QED
  BY <1>1, <1>3, <1>4 DEF R

(* At the beginning of a region nothing of it is measured. *)
LEMMA LoadBegins ==
  ASSUME NEW m \in Machines, NEW r \in 0 .. Len(Regions(m))
  PROVE  LoadOK(Upto(Regions(m))[r], r + 1, 0, m)
<1> DEFINE R == Regions(m)
<1>1. Len(R) \in Nat
  BY RegionFacts
<1>2. CASE r = Len(R)
  BY <1>2 DEF LoadOK
<1>3. CASE r < Len(R)
  <2>1. r + 1 \in 1 .. Len(R) /\ (r + 1) - 1 = r
    BY <1>1, <1>3
  <2>2. R[r + 1] \in Seq(PageInfos) /\ Upto(R)[r] \in Seq(PageInfos)
    BY <2>1, RegionFacts
  <2>3. Upto(R)[r] = Upto(R)[r] \o SubSeq(R[r + 1], 1, 0) /\ 0 < Len(R[r + 1])
    <3>1. Len(R[r + 1]) # 0
      BY <2>1, RegionFacts
    <3> HIDE DEF R
    <3>2. Len(R[r + 1]) \in Nat
      BY <2>2
    <3>3. 0 < Len(R[r + 1])
      BY <3>1, <3>2
    <3> QED
      BY <2>2, <3>3, NothingAdded
  <2> HIDE DEF R
  <2>4. \E e \in Nat : /\ 0 + e < Len(R[r + 1])
                       /\ Upto(R)[r] = Upto(R)[(r + 1) - 1] \o SubSeq(R[r + 1], 1, 0 + e)
    <3>1. 0 \in Nat /\ 0 + 0 = 0
      OBVIOUS
    <3> QED
      BY <2>1, <2>3, <3>1, Zenon
  <2> QED
    BY <2>1, <2>4 DEF LoadOK, R
<1> QED
  BY <1>1, <1>2, <1>3

(* The first j pages of an update of n, from page b of a region on, when e  *)
(* pages more than b are there already.                                     *)
LEMMA PieceAdded ==
  ASSUME NEW U \in Seq(PageInfos), NEW reg \in Seq(PageInfos),
         NEW b \in Nat, NEW e \in Nat, b + e <= Len(reg),
         NEW ld, Grown(ld, U, reg, b + e),
         NEW n \in Nat \ {0}, b + n <= Len(reg),
         NEW piece, Piece(piece, reg, b, n), NEW j \in 0 .. n,
         Fresh(ld, piece, j)
  PROVE  \/ j = 0 /\ ld \o SubSeq(piece, 1, j) = ld
         \/ Grown(ld \o SubSeq(piece, 1, j), U, reg, b + j)
<1>1. piece \in Seq(PageInfos) /\ Len(piece) = n /\ \A i \in 1 .. n : piece[i] = reg[b + i]
  BY PieceOf DEF Piece
<1>2. CASE e # 0
  <2> DEFINE part == SubSeq(reg, 1, b + e)
             k == Len(U) + (b + 1)
  <2>1. part \in Seq(PageInfos) /\ Len(part) = b + e /\ part[b + 1] = reg[b + 1]
    <3>1. b + e \in 0 .. Len(reg) /\ b + 1 \in 1 .. b + e
      <4>1. b + e <= Len(reg)
        OBVIOUS
      <4>2. Len(reg) \in Nat
        OBVIOUS
      <4> QED
        BY <1>2, <4>1, <4>2
    <3> QED
      BY <3>1, Prefix
  <2> HIDE DEF part
  <2>2. Len(U) \in Nat
    OBVIOUS
  <2>3. ld = U \o part
    BY DEF part, Grown
  <2>4. Len(ld) = Len(U) + Len(part) /\ k \in Len(U) + 1 .. Len(U) + Len(part)
    <3>1. Len(ld) = Len(U) + Len(part)
      BY <2>1, <2>3, LenOf
    <3>2. Len(part) = b + e
      BY <2>1
    <3>3. k \in Len(U) + 1 .. Len(U) + (b + e)
      BY <1>2, <2>2
    <3> QED
      BY <3>1, <3>2, <3>3
  <2>5. ld[k] = part[b + 1]
    BY <2>1, <2>2, <2>3, <2>4
  <2>6. k \in 1 .. Len(ld)
    BY <2>2, <2>4
  <2> HIDE DEF k
  <2>7. 1 \in 1 .. n /\ ld[k] = piece[1]
    <3>1. 1 \in 1 .. n
      OBVIOUS
    <3>2. piece[1] = reg[b + 1]
      BY <1>1, <3>1
    <3> QED
      BY <2>1, <2>5, <3>1, <3>2
  <2>8. j = 0
    <3>1. 1 \notin 1 .. j
      BY <2>6, <2>7 DEF Fresh
    <3> QED
      BY <3>1
  <2>9. ld \o SubSeq(piece, 1, j) = ld
    <3>1. ld \in Seq(PageInfos)
      BY <2>1, <2>3, ConcatProperties
    <3> QED
      BY <1>1, <2>8, <3>1, NothingAdded
  <2> QED
    BY <2>8, <2>9
<1>3. CASE e = 0
  <2>1. Grown(ld, U, reg, b) /\ n \in Nat
    <3>1. b + e = b
      BY <1>3
    <3> QED
      BY <3>1
  <2>2. Grown(ld \o SubSeq(piece, 1, j), U, reg, b + j)
    BY <2>1, PartGrows
  <2> QED
    BY <2>2
<1> QED
  BY <1>2, <1>3

(* An update of n pages from page b of region a on. *)
LEMMA LoadGrows ==
  ASSUME NEW m \in Machines, NEW a \in Nat, NEW b \in Nat, NEW ld, LoadOK(ld, a, b, m),
         NEW n \in Nat \ {0}, a <= Len(Regions(m)),
         b + n <= Len(Regions(m)[a]), NEW piece, Piece(piece, Regions(m)[a], b, n),
         NEW j \in 0 .. n, Fresh(ld, piece, j)
  PROVE  /\ j < n => LoadOK(ld \o SubSeq(piece, 1, j), a, b, m)
         /\ j = n /\ b + n = Len(Regions(m)[a]) =>
              LoadOK(ld \o SubSeq(piece, 1, j), a + 1, 0, m)
         /\ j = n /\ b + n # Len(Regions(m)[a]) =>
              LoadOK(ld \o SubSeq(piece, 1, j), a, b + n, m)
<1> DEFINE ld2 == ld \o SubSeq(piece, 1, j)
           reg == Regions(m)[a]
<1>0. b + n <= Len(reg) /\ Piece(piece, reg, b, n)
  OBVIOUS
<1> DEFINE R == Regions(m)
           U == Upto(R)[a - 1]
<1>1. Len(R) \in Nat
  BY RegionFacts
<1>2. a \in 1 .. Len(R) /\ \E e \in Nat : b + e < Len(reg) /\ ld = U \o SubSeq(reg, 1, b + e)
  <2>1. a # Len(R) + 1
    BY <1>1
  <2> QED
    BY <2>1, Zenon DEF LoadOK
<1>3. PICK e \in Nat : b + e < Len(reg) /\ ld = U \o SubSeq(reg, 1, b + e)
  BY <1>2
<1>4. reg \in Seq(PageInfos) /\ U \in Seq(PageInfos)
  <2>1. a - 1 \in 0 .. Len(R)
    BY <1>1, <1>2
  <2> QED
    BY <1>2, <2>1, RegionFacts
<1>5. Upto(R)[a] = U \o reg
  BY <1>2, RegionFacts
<1> HIDE DEF R, U, reg
<1>6. \/ j = 0 /\ ld2 = ld
      \/ ld2 = U \o SubSeq(reg, 1, b + j)
  <2>1. Grown(ld, U, reg, b + e) /\ b + e <= Len(reg)
    <3>1. Len(reg) \in Nat
      BY <1>4
    <3> QED
      BY <1>3, <3>1 DEF Grown
  <2>2. \/ j = 0 /\ ld \o SubSeq(piece, 1, j) = ld
        \/ Grown(ld \o SubSeq(piece, 1, j), U, reg, b + j)
    BY <1>0, <1>4, <2>1, PieceAdded
  <2> QED
    BY <2>2 DEF Grown
<1> HIDE DEF ld2
<1>7. CASE j = 0 /\ ld2 = ld
  BY <1>7 DEF ld2
<1>8. CASE ld2 = U \o SubSeq(reg, 1, b + j)
  <2>3. ASSUME j < n PROVE LoadOK(ld2, a, b, m)
    <3>1. b + j < Len(reg) /\ j \in Nat
      BY <1>0, <1>4, <2>3
    <3> QED
      BY <1>2, <1>8, <3>1 DEF LoadOK, R, U, reg
  <2>4. ASSUME j = n, b + n = Len(reg) PROVE LoadOK(ld2, a + 1, 0, m)
    <3>1. ld2 = Upto(R)[a]
      <4>1. ld2 = U \o SubSeq(reg, 1, Len(reg))
        BY <1>8, <2>4
      <4> QED
        BY <1>4, <1>5, <4>1, NothingAdded
    <3>2. a \in 0 .. Len(R)
      BY <1>1, <1>2
    <3> QED
      BY <3>1, <3>2, LoadBegins DEF R
  <2>5. ASSUME j = n, b + n # Len(reg) PROVE LoadOK(ld2, a, b + n, m)
    <3>1. (b + n) + 0 = b + n /\ 0 \in Nat /\ b + n < Len(reg)
      BY <1>0, <1>4, <2>5
    <3> QED
      BY <1>2, <1>8, <2>5, <3>1 DEF LoadOK, R, U, reg
  <2> QED
    BY <2>3, <2>4, <2>5 DEF ld2, reg
<1> QED
  BY <1>6, <1>7, <1>8

-----------------------------------------------------------------------------
(* The inductive invariant. *)

Types ==
  /\ machine \in Machines
  /\ order \subseteq {o \in Orders : o.machine = machine}
  /\ \A o1, o2 \in order : o1 = o2
  /\ phase \in {"None", "New", "Started", "Gone", "Done"}
  /\ guest \in Guests
  /\ pos \in Nat \X Nat
  /\ ret \subseteq IoError

(* While the VMM loads, the digest is of what it has got to, and the policy *)
(* the one it asked for.                                                    *)
Loading ==
  /\ phase \in {"None", "New", "Started"} => LoadOK(guest.ld, pos[1], pos[2], machine)
  /\ phase = "Started" => \A o \in order : guest.policy = o.policy

WholeIsMeasured == Loaded => guest.ld = Measured(machine)

(* What runs is measured as far as it was loaded. *)
PartIsMeasured ==
  \E ld : LoadOK(ld, pos[1], pos[2], machine) /\ guest.ld = ld \o SaveAreas(machine)

(* Who the reports name has signed what passes. *)
Named ==
  \A id \in guest.id : \E o \in order : \E x \in o.id_block \X o.id_auth :
    id = Identity(x[1], x[2]) /\ Passes(guest.ld, guest.policy, x[1], x[2])

(* Nothing is refused that passes. *)
Refused ==
  \E o \in order : /\ guest.policy = o.policy
                   /\ \E x \in o.id_block \X o.id_auth :
                        ~Passes(guest.ld, guest.policy, x[1], x[2])

Ending ==
  /\ phase = "Done" => WholeIsMeasured /\ PartIsMeasured /\ Named
  /\ BlockRefused => WholeIsMeasured /\ Refused

Inv == Types /\ LauncherInStep /\ Loading /\ Ending

(* The invariant holds at first. *)
LEMMA InitInv == Init => Inv
<1> SUFFICES ASSUME Init PROVE Inv
  OBVIOUS
<1>1. guest = [state |-> "none", ld |-> <<>>, policy |-> 0, id |-> {}]
  BY DEF Init
<1>2. guest \in Guests
  BY <1>1 DEF Guests, States
<1>3. Types
  BY <1>2 DEF Init, Types
<1>4. LauncherInStep /\ Ending
  BY DEF Init, LauncherInStep, Ending, BlockRefused
<1>5. Loading
  <2>1. 0 \in 0 .. Len(Regions(machine)) /\ Upto(Regions(machine))[0] = <<>>
    <3>1. machine \in Machines
      BY DEF Init
    <3>2. Len(Regions(machine)) \in Nat /\ Upto(Regions(machine))[0] = <<>>
      BY <3>1, RegionFacts
    <3> QED
      BY <3>2
  <2>2. LoadOK(<<>>, 0 + 1, 0, machine)
    BY <2>1, LoadBegins DEF Init
  <2>3. 0 + 1 = 1 /\ pos[1] = 1 /\ pos[2] = 0 /\ guest.ld = <<>>
    BY <1>1 DEF Init
  <2>4. phase = "None"
    BY DEF Init
  <2> QED
    BY <2>2, <2>3, <2>4 DEF Loading
<1> QED
  BY <1>3, <1>4, <1>5 DEF Inv

(* Launcher::new keeps it. *)
LEMMA NewInv ==
  ASSUME Inv, new
  PROVE  Inv'
<1>1. PICK o \in SNP_INIT(guest) : /\ guest' = o.g
                                   /\ phase' = IF o.ok THEN "New" ELSE "None"
                                   /\ ret' = IF o.ok THEN {} ELSE {ToIo(encapsulate(o.error))}
  BY DEF new, Cmd
<1>2. phase = "None" /\ machine' = machine /\ order' = order /\ pos' = pos
  BY DEF new
<1>3. guest \in Guests /\ Types /\ LoadOK(guest.ld, pos[1], pos[2], machine)
  BY <1>2 DEF Inv, Types, Loading
<1>4. /\ o.error \in Nat /\ o.g \in Guests
      /\ o.g.ld = guest.ld
      /\ o.ok => o.g.state = "init"
  BY <1>3, InitOutcome
<1>5. ret' \subseteq IoError
  BY <1>1, <1>4, CodeIsIoError
<1>6. Types'
  BY <1>1, <1>2, <1>3, <1>4, <1>5 DEF Types
<1>7. LauncherInStep'
  BY <1>1, <1>4 DEF LauncherInStep
<1>8. Loading'
  BY <1>1, <1>2, <1>3, <1>4 DEF Loading
<1>9. Ending'
  BY <1>1 DEF Ending, BlockRefused
<1> QED
  BY <1>6, <1>7, <1>8, <1>9 DEF Inv

(* start() keeps it. *)
LEMMA StartInv ==
  ASSUME Inv, NEW od \in Orders, od.machine = machine, start(od)
  PROVE  Inv'
<1> DEFINE cmd == LaunchStart(od)
<1>1. PICK o \in SNP_LAUNCH_START(guest, cmd) :
        /\ guest' = o.g
        /\ phase' = IF o.ok THEN "Started" ELSE "Gone"
        /\ ret' = IF o.ok THEN {} ELSE {ToIo(encapsulate(o.error))}
  BY DEF start, Cmd
<1>2. phase = "New" /\ machine' = machine /\ order' = {od} /\ pos' = pos
  BY DEF start
<1>3. guest \in Guests /\ guest.state = "init" /\ Types
      /\ LoadOK(guest.ld, pos[1], pos[2], machine)
  BY <1>2 DEF Inv, Types, Loading, LauncherInStep
<1>4. cmd.policy \in Nat /\ cmd.policy = od.policy
  BY OrdersAssumption DEF LaunchStart
<1> HIDE DEF cmd
<1>5. /\ o.error \in Nat /\ o.g \in Guests
      /\ o.g.ld = guest.ld
      /\ o.ok => o.g.state = "started" /\ o.g.policy = cmd.policy
      /\ ~o.ok => o.g = guest
  BY <1>3, <1>4, StartOutcome
<1>6. ret' \subseteq IoError
  BY <1>1, <1>5, CodeIsIoError
<1>7. Types'
  BY <1>1, <1>2, <1>3, <1>5, <1>6 DEF Types
<1>8. LauncherInStep'
  BY <1>1, <1>5 DEF LauncherInStep
<1>9. Loading'
  BY <1>1, <1>2, <1>3, <1>4, <1>5 DEF Loading
<1>10. Ending'
  BY <1>1, <1>3, <1>5 DEF Ending, BlockRefused
<1> QED
  BY <1>7, <1>8, <1>9, <1>10 DEF Inv

(* update_data() keeps it, whether it succeeds or fails half way. *)
LEMMA UpdateInv ==
  ASSUME Inv, NEW n \in Nat \ {0}, update_data(n)
  PROVE  Inv'
<1> DEFINE reg == Regions(machine)[pos[1]]
           piece == SubSeq(reg, pos[2] + 1, pos[2] + n)
<1>1. phase = "Started" /\ pos[1] <= Len(Regions(machine)) /\ pos[2] + n <= Len(reg)
      /\ machine' = machine /\ order' = order
  BY DEF update_data
<1>2. pos' = CASE ret' # {} -> pos
               [] ret' = {} /\ pos[2] + n < Len(reg) -> <<pos[1], pos[2] + n>>
               [] ret' = {} /\ pos[2] + n = Len(reg) -> <<pos[1] + 1, 0>>
  BY Zenon DEF update_data, Advance
<1>3. /\ guest \in Guests /\ guest.state = "started" /\ Types
      /\ LoadOK(guest.ld, pos[1], pos[2], machine)
      /\ \A o \in order : guest.policy = o.policy
      /\ machine \in Machines /\ pos[1] \in Nat /\ pos[2] \in Nat /\ pos = <<pos[1], pos[2]>>
  BY <1>1 DEF Inv, Types, Loading, LauncherInStep
<1>4. reg \in Seq(PageInfos) /\ Len(reg) \in Nat
  <2>1. Len(Regions(machine)) \in Nat
    BY <1>3, RegionFacts
  <2>2. pos[1] \in 1 .. Len(Regions(machine))
    <3>1. pos[1] # Len(Regions(machine)) + 1
      BY <1>1, <1>3, <2>1
    <3> QED
      BY <1>3, <3>1, Zenon DEF LoadOK
  <2>3. reg \in Seq(PageInfos)
    BY <1>3, <2>2, RegionFacts
  <2> HIDE DEF reg
  <2> QED
    BY <2>3
<1> HIDE DEF reg
<1>5. piece \in Seq(PageInfos) /\ Len(piece) = n
  BY <1>1, <1>3, <1>4, PieceOf
<1>6. \/ /\ ret' = {Os} /\ phase' = phase /\ guest' = guest
      \/ \E o \in SNP_LAUNCH_UPDATE(guest, piece) :
           /\ guest' = o.g /\ phase' = "Started"
           /\ ret' = IF o.ok THEN {} ELSE {ToIo(encapsulate(o.error))}
  <2>1. \/ /\ ret' = {Os} /\ UNCHANGED <<phase, guest>>
        \/ Cmd(SNP_LAUNCH_UPDATE(guest, piece), "Started", "Started")
    BY Zenon DEF update_data, reg
  <2> QED
    BY <2>1 DEF Cmd
<1> HIDE DEF piece
<1>7. ASSUME pos' = pos, phase' = "Started", guest' \in Guests, guest'.state = "started",
             guest'.policy = guest.policy, ret' \subseteq IoError,
             LoadOK(guest'.ld, pos[1], pos[2], machine)
      PROVE  Inv'
  <2>1. Types'
    BY <1>1, <1>3, <1>7 DEF Types
  <2>2. LauncherInStep' /\ Ending'
    BY <1>7 DEF LauncherInStep, Ending, BlockRefused
  <2>3. Loading'
    BY <1>1, <1>3, <1>7 DEF Loading
  <2> QED
    BY <2>1, <2>2, <2>3 DEF Inv
<1>8. CASE ret' = {Os} /\ phase' = phase /\ guest' = guest
  <2>1. ret' # {} /\ ret' \subseteq IoError
    BY <1>8, OsIsIoError
  <2>2. pos' = pos
    BY <1>2, <2>1, Zenon
  <2> QED
    BY <1>1, <1>3, <1>7, <1>8, <2>1, <2>2
<1>9. CASE \E o \in SNP_LAUNCH_UPDATE(guest, piece) :
             /\ guest' = o.g /\ phase' = "Started"
             /\ ret' = IF o.ok THEN {} ELSE {ToIo(encapsulate(o.error))}
  <2>1. PICK o \in SNP_LAUNCH_UPDATE(guest, piece) :
             /\ guest' = o.g /\ phase' = "Started"
             /\ ret' = IF o.ok THEN {} ELSE {ToIo(encapsulate(o.error))}
    BY <1>9
  <2>2. /\ o.error \in Nat /\ o.g \in Guests
        /\ o.g.state = "started" /\ o.g.policy = guest.policy
        /\ (~o.ok /\ o.g = guest) \/ Added(guest.ld, piece, o)
    BY <1>3, <1>5, UpdateOutcome
  <2>3. ret' \subseteq IoError /\ (ret' = {} <=> o.ok)
    BY <2>1, <2>2, CodeIsIoError
  <2>4. /\ ~o.ok => LoadOK(o.g.ld, pos[1], pos[2], machine)
        /\ o.ok /\ pos[2] + n = Len(reg) => LoadOK(o.g.ld, pos[1] + 1, 0, machine)
        /\ o.ok /\ pos[2] + n # Len(reg) => LoadOK(o.g.ld, pos[1], pos[2] + n, machine)
    <3>1. CASE ~o.ok /\ o.g = guest
      BY <1>3, <3>1
    <3>2. ASSUME NEW j \in 0 .. Len(piece),
                 o.g.ld = guest.ld \o SubSeq(piece, 1, j), o.ok => j = Len(piece),
                 ~o.ok => j < Len(piece), Fresh(guest.ld, piece, j)
          PROVE  /\ ~o.ok => LoadOK(o.g.ld, pos[1], pos[2], machine)
                 /\ o.ok /\ pos[2] + n = Len(reg) => LoadOK(o.g.ld, pos[1] + 1, 0, machine)
                 /\ o.ok /\ pos[2] + n # Len(reg) => LoadOK(o.g.ld, pos[1], pos[2] + n, machine)
      <4>1. Piece(piece, Regions(machine)[pos[1]], pos[2], n) /\ j \in 0 .. n
        BY <1>5 DEF Piece, piece, reg
      <4>2. /\ j < n => LoadOK(o.g.ld, pos[1], pos[2], machine)
            /\ j = n /\ pos[2] + n = Len(reg) => LoadOK(o.g.ld, pos[1] + 1, 0, machine)
            /\ j = n /\ pos[2] + n # Len(reg) => LoadOK(o.g.ld, pos[1], pos[2] + n, machine)
        BY <1>1, <1>3, <3>2, <4>1, LoadGrows DEF reg
      <4>4. (o.ok => j = n) /\ (~o.ok => j < n)
        BY <1>5, <3>2
      <4> QED
        BY <4>2, <4>4, Zenon
    <3> QED
      BY <2>2, <3>1, <3>2 DEF Added
  <2>5. CASE ~o.ok
    <3>1. pos' = pos
      BY <1>2, <2>3, <2>5, Zenon
    <3> QED
      BY <1>7, <2>1, <2>2, <2>3, <2>4, <2>5, <3>1
  <2>6. CASE o.ok
    <3> DEFINE a == pos[1]
               b == pos[2]
    <3>1. /\ b + n < Len(reg) => pos' = <<a, b + n>>
          /\ b + n = Len(reg) => pos' = <<a + 1, 0>>
      <4>1. b + n = Len(reg) => ~(b + n < Len(reg))
        BY <1>3, <1>4
      <4> QED
        BY <1>2, <2>3, <2>6, <4>1, Zenon
    <3>2. b + n < Len(reg) \/ b + n = Len(reg)
      BY <1>1, <1>3, <1>4
    <3>3. a \in Nat /\ b \in Nat /\ a + 1 \in Nat /\ b + n \in Nat /\ 0 \in Nat
      BY <1>3
    <3>4. b + n < Len(reg) => b + n # Len(reg)
      BY <1>3, <1>4
    <3>5. LoadOK(o.g.ld, pos'[1], pos'[2], machine) /\ pos' \in Nat \X Nat
      <4> HIDE DEF a, b
      <4>0. /\ o.ok /\ b + n = Len(reg) => LoadOK(o.g.ld, a + 1, 0, machine)
            /\ o.ok /\ b + n # Len(reg) => LoadOK(o.g.ld, a, b + n, machine)
        BY <2>4 DEF a, b
      <4>1. CASE b + n < Len(reg)
        <5>1. pos' = <<a, b + n>>
          BY <3>1, <4>1
        <5>2. pos'[1] = a /\ pos'[2] = b + n /\ pos' \in Nat \X Nat
          BY <3>3, <5>1
        <5> QED
          BY <2>6, <3>4, <4>0, <4>1, <5>2
      <4>2. CASE b + n = Len(reg)
        <5>1. pos' = <<a + 1, 0>>
          BY <3>1, <4>2
        <5>2. pos'[1] = a + 1 /\ pos'[2] = 0 /\ pos' \in Nat \X Nat
          BY <3>3, <5>1
        <5> QED
          BY <2>6, <4>0, <4>2, <5>2
      <4> QED
        BY <3>2, <4>1, <4>2
    <3>6. Types'
      BY <1>1, <1>3, <2>1, <2>2, <2>3, <3>5 DEF Types
    <3>7. LauncherInStep' /\ Ending'
      BY <2>1, <2>2 DEF LauncherInStep, Ending, BlockRefused
    <3>8. Loading'
      BY <1>1, <1>3, <2>1, <2>2, <3>5 DEF Loading
    <3> QED
      BY <3>6, <3>7, <3>8 DEF Inv
  <2> QED
    BY <2>5, <2>6
<1> QED
  BY <1>6, <1>8, <1>9

(* finish() keeps it, also if the firmware refuses the block. *)
LEMMA FinishInv ==
  ASSUME Inv, finish
  PROVE  Inv'
<1> DEFINE areas == SaveAreas(machine)
<1>1. PICK od \in order : Cmd(SNP_LAUNCH_FINISH(guest, LaunchFinish(od), areas), "Done", "Gone")
  BY DEF finish
<1>2. PICK o \in SNP_LAUNCH_FINISH(guest, LaunchFinish(od), areas) :
        /\ guest' = o.g
        /\ phase' = IF o.ok THEN "Done" ELSE "Gone"
        /\ ret' = IF o.ok THEN {} ELSE {ToIo(encapsulate(o.error))}
  BY <1>1 DEF Cmd
<1>3. phase = "Started" /\ machine' = machine /\ order' = order /\ pos' = pos
  BY DEF finish
<1>4. /\ guest \in Guests /\ guest.state = "started" /\ Types
      /\ LoadOK(guest.ld, pos[1], pos[2], machine)
      /\ guest.policy = od.policy
      /\ machine \in Machines /\ od \in Orders
  BY <1>1, <1>3 DEF Inv, Types, Loading, LauncherInStep
<1>5. areas \in Seq(PageInfos)
  BY <1>4, RegionFacts
<1> HIDE DEF areas
<1>6. /\ o.error \in Nat /\ o.g \in Guests
      /\ o.g.policy = guest.policy
      /\ o.ok => /\ o.g.ld = guest.ld \o areas
                 /\ \A id \in o.g.id : \E x \in od.id_block \X od.id_auth :
                      /\ id = Identity(x[1], x[2])
                      /\ Passes(o.g.ld, o.g.policy, x[1], x[2])
      /\ ~o.ok /\ o.error \in Blame =>
           /\ o.g.ld = guest.ld \o areas
           /\ \E x \in od.id_block \X od.id_auth :
                ~Passes(o.g.ld, o.g.policy, x[1], x[2])
  BY <1>4, <1>5, FinishOutcome
<1>7. Types'
  <2>1. ret' \subseteq IoError
    BY <1>2, <1>6, CodeIsIoError
  <2> QED
    BY <1>2, <1>3, <1>4, <1>6, <2>1 DEF Types
<1>8. LauncherInStep' /\ Loading'
  BY <1>2 DEF LauncherInStep, Loading
<1>9. o.g.ld = guest.ld \o areas => WholeIsMeasured'
  <2> SUFFICES ASSUME o.g.ld = guest.ld \o areas, Loaded' PROVE guest'.ld = Measured(machine)
    BY <1>3 DEF WholeIsMeasured
  <2>1. pos = <<Len(Regions(machine)) + 1, 0>>
    BY <1>3 DEF Loaded
  <2>2. Len(Regions(machine)) \in Nat
    BY <1>4, RegionFacts
  <2>3. pos[1] = Len(Regions(machine)) + 1 /\ pos[1] \notin 1 .. Len(Regions(machine))
    BY <2>1, <2>2
  <2>4. guest.ld = Upto(Regions(machine))[Len(Regions(machine))]
    BY <1>4, <2>3, Zenon DEF LoadOK
  <2>5. guest.ld = FlattenSeq(Regions(machine))
    BY <1>4, <2>4, RegionFacts
  <2> QED
    BY <1>2, <2>5 DEF Measured, areas
<1>10. phase' = "Done" => WholeIsMeasured' /\ PartIsMeasured' /\ Named'
  <2> SUFFICES ASSUME phase' = "Done" PROVE WholeIsMeasured' /\ PartIsMeasured' /\ Named'
    OBVIOUS
  <2>1. o.ok
    BY <1>2
  <2>2. Named'
    BY <1>2, <1>3, <1>6, <2>1 DEF Named
  <2>3. PartIsMeasured'
    BY <1>2, <1>3, <1>4, <1>6, <2>1 DEF PartIsMeasured, areas
  <2> QED
    BY <1>6, <1>9, <2>1, <2>2, <2>3
<1>11. BlockRefused' => WholeIsMeasured' /\ Refused'
  <2> SUFFICES ASSUME BlockRefused' PROVE WholeIsMeasured' /\ Refused'
    OBVIOUS
  <2>1. ~o.ok /\ ret' = {ToIo(encapsulate(o.error))}
    BY <1>2 DEF BlockRefused
  <2>2. PICK c \in Blame : ret' = {ToIo(c)}
    BY DEF BlockRefused, Blame
  <2>3. o.error \in Blame
    BY <1>6, <2>1, <2>2, CodeIsIoError
  <2>4. Refused'
    BY <1>2, <1>3, <1>4, <1>6, <2>1, <2>3 DEF Refused
  <2> QED
    BY <1>6, <1>9, <2>1, <2>3, <2>4
<1> QED
  BY <1>7, <1>8, <1>10, <1>11 DEF Inv, Ending

(* Every step keeps the invariant. *)
LEMMA StepInv == Inv /\ [Next]_vars => Inv'
<1> SUFFICES ASSUME Inv, [Next]_vars PROVE Inv'
  OBVIOUS
<1>1. CASE new
  BY <1>1, NewInv
<1>2. ASSUME NEW o \in Orders, o.machine = machine, start(o) PROVE Inv'
  BY <1>2, StartInv
<1>3. ASSUME NEW n \in 1 .. Len(Image[machine]) \div PAGE, update_data(n) PROVE Inv'
  <2>1. n \in Nat \ {0}
    OBVIOUS
  <2> QED
    BY <1>3, <2>1, UpdateInv
<1>4. CASE finish
  BY <1>4, FinishInv
<1>5. CASE UNCHANGED vars
  BY <1>5 DEF vars, Inv, Types, LauncherInStep, Loading, Ending, BlockRefused, WholeIsMeasured,
              PartIsMeasured, Named, Refused, Loaded
<1> QED
  BY <1>1, <1>2, <1>3, <1>4, <1>5 DEF Next

(* It always holds. *)
LEMMA Invariant == Spec => []Inv
BY InitInv, StepInv, PTL DEF Spec

-----------------------------------------------------------------------------
(* The launcher and its guest keep their types, for any machines, images,   *)
(* owners, orders and failures.                                             *)
THEOREM TypeCorrect == Spec => []TypeOK
<1>1. Inv => TypeOK
  <2> SUFFICES ASSUME Inv PROVE TypeOK
    OBVIOUS
  <2>1. Types
    BY DEF Inv
  <2>2. Cardinality(order) <= 1
    <3>1. CASE order = {}
      BY <3>1, FS_EmptySet
    <3>2. CASE order # {}
      <4>1. PICK o : order = {o}
        BY <2>1, <3>2 DEF Types
      <4> QED
        BY <4>1, FS_Singleton
    <3> QED
      BY <3>1, <3>2
  <2>3. guest.state \in States /\ guest.ld \in Seq(PageInfos) /\ guest.policy \in Nat
    BY <2>1 DEF Types, Guests
  <2> QED
    BY <2>1, <2>2, <2>3 DEF TypeOK, Types, States
<1> QED
  BY Invariant, <1>1, PTL

(* The type of a launcher of src/launch/snp.rs is the state of its guest,   *)
(* whichever of its methods fail.                                           *)
THEOREM LauncherStaysInStep == Spec => []LauncherInStep
<1>1. Inv => LauncherInStep
  BY DEF Inv
<1> QED
  BY Invariant, <1>1, PTL

(* update_data in pieces of any size, failing half way and called again,    *)
(* measures of a machine that is loaded to the end all its regions in their *)
(* order and its save areas, each page once.                                *)
THEOREM LoadedIsMeasured == Spec => [](phase = "Done" /\ Loaded => guest.ld = Measured(machine))
<1>1. Inv => (phase = "Done" /\ Loaded => guest.ld = Measured(machine))
  BY DEF Inv, Ending, WholeIsMeasured
<1> QED
  BY Invariant, <1>1, PTL

(* With QEMU and EC2 snp_calc_launch_digest, of the image or of its hash,   *)
(* is the digest that the firmware comes to when the machine is loaded to   *)
(* the end.                                                                 *)
THEOREM DigestsAlwaysAgree == Spec => []DigestsAgree
<1>1. Inv => DigestsAgree
  <2> SUFFICES ASSUME Inv, phase = "Done", Loaded, machine.vmm # "KRUN",
                      NEW hash \in {{}, {calc_snp_ovmf_hash(Image[machine]).ld}}
               PROVE  snp_calc_launch_digest(Args(machine, Image[machine], hash)) = Gctx(guest.ld)
    BY Zenon DEF DigestsAgree, AsCalculated
  <2>1. machine \in {k \in Machines : k.vmm # "KRUN"} /\ guest.ld = Measured(machine)
    BY DEF Inv, Types, Ending, WholeIsMeasured
  <2> QED
    BY <2>1, MeasurementIsPredicted, Zenon DEF Predicted
<1> QED
  BY Invariant, <1>1, PTL

-----------------------------------------------------------------------------
(* ID blocks. *)

(* The block of an owner, and what the owner's signatures are. *)
BlockFor(o) ==
  IdBlock({snp_calc_launch_digest(Args(o.machine, Image[o.machine], {})).ld},
          o.family_id, o.image_id, o.svn, o.policy)

IsSignature(o, x) ==
  /\ o \in Owners
  /\ x.id_block = BlockFor(o)
  /\ x.id_auth.id_pubkey = SevEcdsaPubKey(o.id_key)
  /\ x.id_auth.author_pub_key = SevEcdsaPubKey(o.author_key)
  /\ x.id_auth.id_block_sig = [by |-> SevEcdsaPubKey(o.id_key), of |-> x.id_block]
  /\ x.id_auth.id_key_sig
       = [by |-> SevEcdsaPubKey(o.author_key), of |-> SevEcdsaPubKey(o.id_key)]
  /\ x.id_key_digest = <<"sha384", SevEcdsaPubKey(o.id_key)>>
  /\ x.auth_key_digest = <<"sha384", SevEcdsaPubKey(o.author_key)>>

(* What an owner's block and signatures cover. *)
LEMMA SignatureIs ==
  ASSUME NEW s \in Signatures
  PROVE  IsSignature(s[1], s[2])
<1>1. PICK o \in Owners : \E x \in Signed(o) : s = <<o, x>>
  BY DEF Signatures
<1>2. PICK x \in Signed(o) : s = <<o, x>>
  BY <1>1
<1> DEFINE block == BlockFor(o)
<1>3. x = IdMeasurements(block, o.id_key, o.author_key)
  <2> DEFINE error == IF load_priv_key(o.id_key) # {} THEN load_priv_key(o.id_key)
                      ELSE load_priv_key(o.author_key)
             ids == IF error # {} THEN {} ELSE {IdMeasurements(block, o.id_key, o.author_key)}
  <2>1. Signed(o) = ids
    BY DEF Signed, snp_calculate_id, BlockFor
  <2> HIDE DEF error, block
  <2> QED
    BY <1>2, <2>1
<1> HIDE DEF block
<1>4. s[1] = o /\ s[2] = x
  BY <1>2
<1>5. /\ x.id_block = block
      /\ x.id_auth = gen_id_auth_block(block, o.id_key, o.author_key)
      /\ x.id_key_digest = <<"sha384", SevEcdsaPubKey(o.id_key)>>
      /\ x.auth_key_digest = <<"sha384", SevEcdsaPubKey(o.author_key)>>
  BY <1>3 DEF IdMeasurements, generate_key_digest
<1>6. /\ x.id_auth.id_pubkey = SevEcdsaPubKey(o.id_key)
      /\ x.id_auth.author_pub_key = SevEcdsaPubKey(o.author_key)
      /\ x.id_auth.id_block_sig = [by |-> SevEcdsaPubKey(o.id_key), of |-> block]
      /\ x.id_auth.id_key_sig = [by |-> SevEcdsaPubKey(o.author_key), of |-> SevEcdsaPubKey(o.id_key)]
  BY <1>5 DEF gen_id_auth_block, IdAuth, SevEcdsaSig
<1> QED
  BY <1>4, <1>5, <1>6 DEF block, IsSignature

(* The same of a key's name is the same key. *)
LEMMA SameKey ==
  ASSUME NEW f, NEW g, SevEcdsaPubKey(f) = SevEcdsaPubKey(g)
  PROVE  f.key = g.key
BY DEF SevEcdsaPubKey

(* A block is no key. *)
LEMMA BlockIsNoKey ==
  ASSUME NEW ld, NEW family, NEW image, NEW svn, NEW policy
  PROVE  /\ DOMAIN IdBlock(ld, family, image, svn, policy)
              = {"launch_digest", "family_id", "image_id", "guest_svn", "policy"}
         /\ \A f : DOMAIN SevEcdsaPubKey(f) = {"curve", "q"}
         /\ {"launch_digest", "family_id", "image_id", "guest_svn", "policy"} # {"curve", "q"}
<1>1. "curve" \notin {"launch_digest", "family_id", "image_id", "guest_svn", "policy"}
  OBVIOUS
<1> QED
  BY <1>1 DEF IdBlock, SevEcdsaPubKey

(* A signature by an owner's key is one that an owner has made. *)
LEMMA OwnersSign ==
  ASSUME NEW od \in Orders, NEW auth \in od.id_auth, NEW x \in {auth.id_block_sig, auth.id_key_sig},
         NEW s \in Signatures,
         x.by = SevEcdsaPubKey(s[1].id_key) \/ x.by = SevEcdsaPubKey(s[1].author_key)
  PROVE  \E t \in Signatures : \/ x = t[2].id_auth.id_block_sig
                               \/ x = t[2].id_auth.id_key_sig
<1> DEFINE keys == {SevEcdsaPubKey(o.id_key) : o \in Owners}
                     \cup {SevEcdsaPubKey(o.author_key) : o \in Owners}
           signed == {t[2].id_auth.id_block_sig : t \in Signatures}
                       \cup {t[2].id_auth.id_key_sig : t \in Signatures}
<1>1. s[1] \in Owners
  BY SignatureIs DEF IsSignature
<1>2. x.by \in keys
  BY <1>1
<1>3. x.by \in keys => x \in signed
  <2> HIDE DEF keys, signed
  <2> QED
    BY Zenon, OrdersAssumption DEF keys, signed
<1>4. x \in signed
  BY <1>2, <1>3
<1> QED
  BY <1>4

(* The block of a name. *)
LEMMA BlockOf ==
  ASSUME NEW o, NEW b, b = BlockFor(o)
  PROVE  b = IdBlock(b.launch_digest, {b.family_id}, {b.image_id}, {b.guest_svn}, {b.policy})
<1>1. ASSUME NEW v, NEW d PROVE The({v}, d) = v
  BY DEF The
<1> DEFINE ld == {snp_calc_launch_digest(Args(o.machine, Image[o.machine], {})).ld}
<1>2. b = IdBlock(ld, o.family_id, o.image_id, o.svn, o.policy)
  BY DEF BlockFor
<1> HIDE DEF ld
<1>3. /\ b.launch_digest = ld
      /\ b.family_id = The(o.family_id, 0) /\ b.image_id = The(o.image_id, 0) /\ b.guest_svn = The(o.svn, 0)
      /\ b.policy = The(o.policy, DEFAULT_ID_POLICY)
  BY <1>2 DEF IdBlock
<1> QED
  BY <1>1, <1>2, <1>3 DEF IdBlock

(* For any owners, and any orders that VMMs put together from what owners   *)
(* have signed with snp_calculate_id: a guest whose reports name an owner's *)
(* ID key runs with the digest, policy and numbers that this key has        *)
(* signed, and an owner's author key has signed the ID key it is named with.*)
THEOREM IdBlocksBind == Spec => []IdBlockBinds
<1>1. Inv => IdBlockBinds
  <2> SUFFICES ASSUME Inv, phase = "Done", NEW id \in guest.id, NEW s \in Signatures
               PROVE  /\ id.id_key_digest = s[2].id_key_digest =>
                           \E t \in Signatures :
                             /\ t[1].id_key.key = s[1].id_key.key
                             /\ t[2].id_block = IdBlock({guest.ld}, {id.family_id}, {id.image_id},
                                                        {id.guest_svn}, {guest.policy})
                      /\ id.author_key_digest = s[2].auth_key_digest =>
                           \E t \in Signatures : /\ t[1].author_key.key = s[1].author_key.key
                                                 /\ t[2].id_key_digest = id.id_key_digest
    BY Zenon DEF IdBlockBinds
  <2>1. PICK od \in order : \E x \in od.id_block \X od.id_auth :
          id = Identity(x[1], x[2]) /\ Passes(guest.ld, guest.policy, x[1], x[2])
    BY DEF Inv, Ending, Named
  <2>2. PICK block \in od.id_block, auth \in od.id_auth :
          id = Identity(block, auth) /\ Passes(guest.ld, guest.policy, block, auth)
    BY <2>1
  <2>3. od \in Orders
    BY DEF Inv, Types
  <2>4. /\ auth.id_block_sig = [by |-> auth.id_pubkey, of |-> block]
        /\ auth.id_key_sig = [by |-> auth.author_pub_key, of |-> auth.id_pubkey]
        /\ block.launch_digest = {guest.ld} /\ block.policy = guest.policy
    BY <2>2 DEF Passes, Signs
  <2>5. /\ id.family_id = block.family_id /\ id.image_id = block.image_id
        /\ id.guest_svn = block.guest_svn
        /\ id.id_key_digest = <<"sha384", auth.id_pubkey>>
        /\ id.author_key_digest = <<"sha384", auth.author_pub_key>>
    BY <2>2 DEF Identity
  <2>6. /\ DOMAIN block = {"launch_digest", "family_id", "image_id", "guest_svn", "policy"}
        /\ DOMAIN auth.id_pubkey = {"curve", "q"}
    BY <2>2, <2>3, OrdersAssumption, Zenon
  <2>s. IsSignature(s[1], s[2])
    BY SignatureIs
  <2>7. ASSUME id.id_key_digest = s[2].id_key_digest
        PROVE  \E t \in Signatures :
                 /\ t[1].id_key.key = s[1].id_key.key
                 /\ t[2].id_block = IdBlock({guest.ld}, {id.family_id}, {id.image_id},
                                            {id.guest_svn}, {guest.policy})
    <3>1. auth.id_pubkey = SevEcdsaPubKey(s[1].id_key)
      BY <2>5, <2>7, <2>s DEF IsSignature
    <3>2. auth.id_block_sig.by = SevEcdsaPubKey(s[1].id_key) /\ auth.id_block_sig.of = block
      BY <2>4, <3>1
    <3>3. PICK t \in Signatures : \/ auth.id_block_sig = t[2].id_auth.id_block_sig
                                  \/ auth.id_block_sig = t[2].id_auth.id_key_sig
      BY <2>2, <2>3, <3>2, OwnersSign
    <3>t. IsSignature(t[1], t[2])
      BY SignatureIs
    <3>4. auth.id_block_sig # t[2].id_auth.id_key_sig
      <4>1. t[2].id_auth.id_key_sig.of = SevEcdsaPubKey(t[1].id_key)
        BY <3>t DEF IsSignature
      <4> QED
        BY <2>6, <3>2, <4>1, BlockIsNoKey
    <3>5. t[2].id_auth.id_block_sig.by = SevEcdsaPubKey(t[1].id_key)
          /\ t[2].id_auth.id_block_sig.of = t[2].id_block
      BY <3>t DEF IsSignature
    <3>6. t[2].id_block = block /\ t[1].id_key.key = s[1].id_key.key
      BY <3>2, <3>3, <3>4, <3>5, SameKey
    <3>7. block = IdBlock(block.launch_digest, {block.family_id}, {block.image_id},
                          {block.guest_svn}, {block.policy})
      BY <3>6, <3>t, BlockOf DEF IsSignature
    <3> QED
      BY <2>4, <2>5, <3>6, <3>7
  <2>8. ASSUME id.author_key_digest = s[2].auth_key_digest
        PROVE  \E t \in Signatures : /\ t[1].author_key.key = s[1].author_key.key
                                     /\ t[2].id_key_digest = id.id_key_digest
    <3>1. auth.author_pub_key = SevEcdsaPubKey(s[1].author_key)
      BY <2>5, <2>8, <2>s DEF IsSignature
    <3>2. auth.id_key_sig.by = SevEcdsaPubKey(s[1].author_key)
          /\ auth.id_key_sig.of = auth.id_pubkey
      BY <2>4, <3>1
    <3>3. PICK t \in Signatures : \/ auth.id_key_sig = t[2].id_auth.id_block_sig
                                  \/ auth.id_key_sig = t[2].id_auth.id_key_sig
      BY <2>2, <2>3, <3>2, OwnersSign
    <3>t. IsSignature(t[1], t[2])
      BY SignatureIs
    <3>4. auth.id_key_sig # t[2].id_auth.id_block_sig
      <4>1. t[2].id_auth.id_block_sig.of = t[2].id_block
        BY <3>t DEF IsSignature
      <4>2. DOMAIN t[2].id_block
              = {"launch_digest", "family_id", "image_id", "guest_svn", "policy"}
        BY <3>t, BlockIsNoKey DEF IsSignature, BlockFor
      <4> QED
        BY <2>6, <3>2, <4>1, <4>2, BlockIsNoKey
    <3>5. t[2].id_auth.id_key_sig.by = SevEcdsaPubKey(t[1].author_key)
          /\ t[2].id_auth.id_key_sig.of = SevEcdsaPubKey(t[1].id_key)
          /\ t[2].id_key_digest = <<"sha384", SevEcdsaPubKey(t[1].id_key)>>
      BY <3>t DEF IsSignature
    <3>6. auth.id_pubkey = SevEcdsaPubKey(t[1].id_key) /\ t[1].author_key.key = s[1].author_key.key
      BY <3>2, <3>3, <3>4, <3>5, SameKey
    <3> QED
      BY <2>5, <3>5, <3>6
  <2> QED
    BY <2>7, <2>8
<1> QED
  BY Invariant, <1>1, PTL

(* What an owner has signed for a machine, with a digest calculated for it, *)
(* does not keep that machine from running with QEMU or EC2.                *)
THEOREM RightBlocksRun == Spec => []RightBlockRuns
<1>1. Inv => RightBlockRuns
  <2> SUFFICES ASSUME Inv, BlockRefused, Loaded, machine.vmm # "KRUN",
                      NEW s \in Signatures, s[1].machine = machine,
                      order = {[machine |-> machine, policy |-> s[2].id_block.policy,
                                id_block |-> {s[2].id_block}, id_auth |-> {s[2].id_auth}]}
               PROVE  FALSE
    BY Zenon DEF RightBlockRuns
  <2>1. guest.ld = Measured(machine) /\ Refused /\ machine \in {k \in Machines : k.vmm # "KRUN"}
    BY DEF Inv, Types, Ending, WholeIsMeasured
  <2>2. PICK o \in order : /\ guest.policy = o.policy
                           /\ \E x \in o.id_block \X o.id_auth :
                                ~Passes(guest.ld, guest.policy, x[1], x[2])
    BY <2>1 DEF Refused
  <2>3. /\ o.policy = s[2].id_block.policy
        /\ o.id_block = {s[2].id_block} /\ o.id_auth = {s[2].id_auth}
    BY <2>2
  <2>4. ~Passes(guest.ld, guest.policy, s[2].id_block, s[2].id_auth)
    BY <2>2, <2>3
  <2>s. IsSignature(s[1], s[2])
    BY SignatureIs
  <2>5. snp_calc_launch_digest(Args(machine, Image[machine], {})).ld = guest.ld
    <3>1. snp_calc_launch_digest(Args(machine, Image[machine], {})) = Gctx(Measured(machine))
      BY <2>1, MeasurementIsPredicted, Zenon DEF Predicted
    <3> QED
      BY <2>1, <3>1 DEF Gctx
  <2>6. s[2].id_block.launch_digest = {guest.ld}
    BY <2>5, <2>s DEF IsSignature, BlockFor, IdBlock
  <2>7. Passes(guest.ld, guest.policy, s[2].id_block, s[2].id_auth)
    BY <2>2, <2>3, <2>6, <2>s DEF Passes, Signs, IsSignature
  <2> QED
    BY <2>4, <2>7
<1> QED
  BY Invariant, <1>1, PTL

-----------------------------------------------------------------------------
(* The save areas that the calls of Vmsa make. *)

Calls == {"amd64", "kvm", "vmm", "sku", "reset", "file"}

(* There are six calls. *)
LEMMA CallsAreSix == Cardinality(Calls) = 6
<1> DEFINE c1 == {"amd64"}
           c2 == c1 \cup {"kvm"}
           c3 == c2 \cup {"vmm"}
           c4 == c3 \cup {"sku"}
           c5 == c4 \cup {"reset"}
           c6 == c5 \cup {"file"}
<1>1. "kvm" \notin c1 /\ "vmm" \notin c2 /\ "sku" \notin c3 /\ "reset" \notin c4 /\ "file" \notin c5
  OBVIOUS
<1>2. c6 = Calls
  BY DEF Calls
<1>3. IsFiniteSet(c1) /\ Cardinality(c1) = 1
  BY FS_Singleton
<1> HIDE DEF c1
<1>4. IsFiniteSet(c2) /\ Cardinality(c2) = 2
  BY <1>1, <1>3, FS_AddElement
<1> HIDE DEF c2
<1>5. IsFiniteSet(c3) /\ Cardinality(c3) = 3
  BY <1>1, <1>4, FS_AddElement
<1> HIDE DEF c3
<1>6. IsFiniteSet(c4) /\ Cardinality(c4) = 4
  BY <1>1, <1>5, FS_AddElement
<1> HIDE DEF c4
<1>7. IsFiniteSet(c5) /\ Cardinality(c5) = 5
  BY <1>1, <1>6, FS_AddElement
<1> HIDE DEF c5
<1>8. Cardinality(c6) = 6
  <2>1. Cardinality(c5 \cup {"file"}) = IF "file" \in c5 THEN Cardinality(c5) ELSE Cardinality(c5) + 1
    BY <1>7, FS_AddElement, Zenon
  <2> QED
    BY <1>1, <1>7, <2>1
<1> QED
  BY <1>2, <1>8

(* Every call is made once, in its order. *)
IsOrder(s) ==
  /\ s \in [1 .. 6 -> Calls] /\ Len(s) = 6
  /\ \A i, j \in 1 .. 6 : i # j => s[i] # s[j]
  /\ \A c \in Calls : \E i \in 1 .. 6 : s[i] = c
  /\ \A i, j \in 1 .. 6 : <<s[i], s[j]>> \in {<<"kvm", "vmm">>, <<"amd64", "vmm">>,
                                              <<"amd64", "reset">>} => i < j

(* In an order each call is made once, what is special after what is        *)
(* general.                                                                 *)
LEMMA OrderIs ==
  ASSUME NEW s \in CallOrders
  PROVE  IsOrder(s)
<1>1. s \in SetToSeqs(Calls) /\ \A i, j \in DOMAIN s :
        <<s[i], s[j]>> \in {<<"kvm", "vmm">>, <<"amd64", "vmm">>, <<"amd64", "reset">>} => i < j
  BY DEF CallOrders, Calls
<1>2. s \in [1 .. 6 -> Calls] /\ \A i, j \in 1 .. 6 : i # j => s[i] # s[j]
  BY <1>1, CallsAreSix, Zenon DEF SetToSeqs
<1>3. DOMAIN s = 1 .. 6 /\ Len(s) = 6
  BY <1>2
<1>4. \A c \in Calls : \E i \in 1 .. 6 : s[i] = c
  <2>1. /\ s[1] \in Calls /\ s[2] \in Calls /\ s[3] \in Calls
        /\ s[4] \in Calls /\ s[5] \in Calls /\ s[6] \in Calls
    BY <1>2
  <2>2. /\ s[1] # s[2] /\ s[1] # s[3] /\ s[1] # s[4] /\ s[1] # s[5] /\ s[1] # s[6]
        /\ s[2] # s[3] /\ s[2] # s[4] /\ s[2] # s[5] /\ s[2] # s[6]
        /\ s[3] # s[4] /\ s[3] # s[5] /\ s[3] # s[6]
        /\ s[4] # s[5] /\ s[4] # s[6] /\ s[5] # s[6]
    BY <1>2
  <2>3. ASSUME NEW c \in Calls
        PROVE  s[1] = c \/ s[2] = c \/ s[3] = c \/ s[4] = c \/ s[5] = c \/ s[6] = c
    BY <2>1, <2>2 DEF Calls
  <2> QED
    BY <2>3
<1> QED
  BY <1>1, <1>2, <1>3, <1>4, Zenon DEF IsOrder

(* What the calls of done have written. *)
Written(v, done, m, cpu) ==
  /\ DOMAIN v = VmsaFields /\ done \subseteq Calls
  /\ "vmm" \in done => {"amd64", "kvm"} \subseteq done
  /\ "reset" \in done => "amd64" \in done
  /\ "amd64" \in done => v.amd64 = TRUE
  /\ "kvm" \in done => v.kvm = TRUE /\ v.g_pat = TRUE /\ v.ldtr = 130
  /\ "vmm" \in done => v.data = 147 /\ v.cs = 155 /\ v.ss = 147 /\ v.tr = 139
  /\ v.rsp = 0 /\ v.rsi = 0
  /\ "amd64" \in done => v.cs_selector = 61440
  /\ "amd64" \in done /\ (cpu = 0 \/ "reset" \notin done) =>
       v.cs_base = 1048560 /\ v.rip = 65520
  /\ "reset" \in done /\ cpu # 0 =>
       v.cs_base = Halves(m.eip)[1] * 16 /\ v.rip = Halves(m.eip)[2]
  /\ "sku" \in done => v.rdx = sig(m.vcpu_type)

(* A call adds what it writes, and leaves what is written, when those       *)
(* before it are done.                                                      *)
LEMMA CallWrites ==
  ASSUME NEW m, IsMachine(m), NEW cpu \in 0 .. 1, NEW done, NEW v,
         Written(v, done, m, cpu), NEW c \in Calls, c \notin done,
         c = "vmm" => {"amd64", "kvm"} \subseteq done,
         c = "reset" => "amd64" \in done
  PROVE  Written(Call(v, c, m, cpu), done \cup {c}, m, cpu)
<1> DEFINE type == m.vcpu_type
           half == Halves(m.eip)
           after == Call(v, c, m, cpu)
<1>0. type \in CpuTypes /\ DOMAIN v = VmsaFields
  BY DEF IsMachine, Written
<1>1. half[1] \in Nat /\ half[2] \in Nat
  <2>1. m.eip \in Nat /\ m.eip # BSP_EIP
    BY PageAssumption DEF IsMachine, BSP_EIP
  <2>2. m.eip \div 2^16 \in Nat /\ m.eip % 2^16 \in Nat
    BY <2>1
  <2> QED
    BY <2>1, <2>2 DEF Halves
<1>2. sig(type) \in Nat
  BY <1>0, SigIn
<1>3. CASE c = "amd64"
  <2>1. after = init_amd64(v)
    BY <1>3, Zenon DEF Call
  <2>2. "vmm" \notin done /\ "reset" \notin done
    BY <1>3 DEF Written
  <2>3. /\ DOMAIN after = VmsaFields /\ after.rip = 65520 /\ after.cs_selector = 61440
        /\ after.cs_base = 1048560 /\ after.cs = v.cs /\ after.ss = v.ss
        /\ after.data = v.data /\ after.ldtr = v.ldtr /\ after.tr = v.tr
        /\ after.rdx = v.rdx /\ after.rsp = v.rsp /\ after.rsi = v.rsi
        /\ after.g_pat = v.g_pat /\ after.amd64 = TRUE /\ after.kvm = v.kvm
    BY <1>0, <1>1, <1>2, <2>1 DEF VmsaFields, init_amd64
  <2> HIDE DEF after
  <2>4. Written(after, done \cup {c}, m, cpu)
    BY <1>0, <1>3, <2>3, <2>2 DEF Written, Calls
  <2> QED
    BY <2>4 DEF after
<1>4. CASE c = "kvm"
  <2>1. after = init_kvm(v)
    BY <1>4, Zenon DEF Call
  <2>2. "vmm" \notin done
    BY <1>4 DEF Written
  <2>3. /\ DOMAIN after = VmsaFields /\ after.rip = v.rip /\ after.cs_selector = v.cs_selector
        /\ after.cs_base = v.cs_base /\ after.cs = v.cs /\ after.ss = v.ss
        /\ after.data = v.data /\ after.ldtr = 130 /\ after.tr = 131 /\ after.rdx = v.rdx
        /\ after.rsp = v.rsp /\ after.rsi = v.rsi /\ after.g_pat = TRUE
        /\ after.amd64 = v.amd64 /\ after.kvm = TRUE
    BY <1>0, <1>1, <1>2, <2>1 DEF VmsaFields, init_kvm
  <2> HIDE DEF after
  <2>4. Written(after, done \cup {c}, m, cpu)
    BY <1>0, <1>4, <2>3, <2>2 DEF Written, Calls
  <2> QED
    BY <2>4 DEF after
<1>5. CASE c = "vmm"
  <2>1. after = init_qemu(v, cpu)
    BY <1>5, Zenon DEF Call
  <2>3. /\ DOMAIN after = VmsaFields /\ after.rip = v.rip /\ after.cs_selector = v.cs_selector
        /\ after.cs_base = v.cs_base /\ after.cs = 155 /\ after.ss = 147 /\ after.data = 147
        /\ after.ldtr = 130 /\ after.tr = 139 /\ after.rdx = v.rdx /\ after.rsp = v.rsp
        /\ after.rsi = v.rsi /\ after.g_pat = TRUE /\ after.amd64 = v.amd64
        /\ after.kvm = v.kvm
    BY <1>0, <1>1, <1>2, <2>1 DEF VmsaFields, init_qemu, ATTR, CODE, READ, ACCESSED
  <2> HIDE DEF after
  <2>4. Written(after, done \cup {c}, m, cpu)
    BY <1>0, <1>5, <2>3 DEF Written, Calls
  <2> QED
    BY <2>4 DEF after
<1>7. CASE c = "sku"
  <2>1. after = [v EXCEPT !.rdx = sig(type)]
    <3>1. after = cpu_sku(v, Fms(type)[1], Fms(type)[2], Fms(type)[3])
      BY <1>7, Zenon DEF Call
    <3> QED
      BY <1>0, <3>1, SkuIsSig
  <2>3. /\ DOMAIN after = VmsaFields /\ after.rip = v.rip /\ after.cs_selector = v.cs_selector
        /\ after.cs_base = v.cs_base /\ after.cs = v.cs /\ after.ss = v.ss
        /\ after.data = v.data /\ after.ldtr = v.ldtr /\ after.tr = v.tr
        /\ after.rdx = sig(type) /\ after.rsp = v.rsp /\ after.rsi = v.rsi
        /\ after.g_pat = v.g_pat /\ after.amd64 = v.amd64 /\ after.kvm = v.kvm
    BY <1>0, <1>2, <2>1 DEF VmsaFields
  <2> HIDE DEF after
  <2>4. Written(after, done \cup {c}, m, cpu)
    BY <1>0, <1>7, <2>3 DEF Written, Calls
  <2> QED
    BY <2>4 DEF after
<1>8. CASE c = "reset" /\ cpu = 0
  <2>1. after = v
    BY <1>8, Zenon DEF Call
  <2> HIDE DEF after
  <2> QED
    BY <1>0, <1>8, <2>1 DEF Written, VmsaFields, Calls, after
<1>9. CASE c = "reset" /\ cpu # 0
  <2>1. after = reset_addr(v, half)
    BY <1>9, Zenon DEF Call
  <2>2. half[1] * 16 \in Nat
    BY <1>1
  <2>3. /\ DOMAIN after = VmsaFields /\ after.rip = half[2] /\ after.cs_selector = v.cs_selector
        /\ after.cs_base = half[1] * 16 /\ after.cs = v.cs /\ after.ss = v.ss
        /\ after.data = v.data /\ after.ldtr = v.ldtr /\ after.tr = v.tr
        /\ after.rdx = v.rdx /\ after.rsp = v.rsp /\ after.rsi = v.rsi
        /\ after.g_pat = v.g_pat /\ after.amd64 = v.amd64 /\ after.kvm = v.kvm
    BY <1>0, <1>1, <2>1, <2>2 DEF VmsaFields, reset_addr
  <2> HIDE DEF after
  <2>4. Written(after, done \cup {c}, m, cpu)
    BY <1>0, <1>9, <2>3 DEF Written, Calls
  <2> QED
    BY <2>4 DEF after
<1>10. CASE c = "file"
  <2>1. after = CHOOSE w \in from_file(to_file(v)) : TRUE
    BY <1>10, Zenon DEF Call
  <2>2. from_file(to_file(v)) = {v}
    BY DEF from_file, to_file
  <2>3. after = v
    <3> HIDE DEF after
    <3> QED
      BY <2>1, <2>2
  <2> HIDE DEF after
  <2> QED
    BY <1>0, <1>10, <2>3 DEF Written, VmsaFields, Calls, after
<1> QED
  BY <1>0, <1>3, <1>4, <1>5, <1>7, <1>8, <1>9, <1>10 DEF Calls

(* The save areas after each of the calls. *)
IsMade(made, s, m, cpu) ==
  made = CHOOSE f : f = [n \in 0 .. Len(s) |->
           IF n = 0 THEN Vmsa_default ELSE Call(f[n - 1], s[n], m, cpu)]

(* The save area after each call. *)
LEMMA MadeIs ==
  ASSUME NEW s, IsOrder(s), NEW m, NEW cpu, NEW made, IsMade(made, s, m, cpu)
  PROVE  /\ made[0] = Vmsa_default
         /\ \A n \in 1 .. 6 : made[n] = Call(made[n - 1], s[n], m, cpu)
<1> DEFINE w0 == Vmsa_default
           w1 == Call(w0, s[1], m, cpu)
           w2 == Call(w1, s[2], m, cpu)
           w3 == Call(w2, s[3], m, cpu)
           w4 == Call(w3, s[4], m, cpu)
           w5 == Call(w4, s[5], m, cpu)
           w6 == Call(w5, s[6], m, cpu)
           w == [n \in 0 .. 6 |-> IF n = 0 THEN w0 ELSE IF n = 1 THEN w1 ELSE IF n = 2 THEN w2
                                  ELSE IF n = 3 THEN w3 ELSE IF n = 4 THEN w4
                                  ELSE IF n = 5 THEN w5 ELSE w6]
<1>1. Len(s) = 6
  BY DEF IsOrder
<1>2. ASSUME NEW n \in 0 .. 6
      PROVE  w[n] = IF n = 0 THEN Vmsa_default ELSE Call(w[n - 1], s[n], m, cpu)
  <2> DEFINE Is(k, x, y) == w[k] = x /\ x = Call(y, s[k], m, cpu) /\ w[k - 1] = y
  <2>1. /\ w[0] = w0 /\ w[1] = w1 /\ w[2] = w2 /\ w[3] = w3 /\ w[4] = w4 /\ w[5] = w5 /\ w[6] = w6
    <3> HIDE DEF w0, w1, w2, w3, w4, w5, w6
    <3> QED
      OBVIOUS
  <2>2. /\ w1 = Call(w0, s[1], m, cpu) /\ w2 = Call(w1, s[2], m, cpu) /\ w3 = Call(w2, s[3], m, cpu)
        /\ w4 = Call(w3, s[4], m, cpu) /\ w5 = Call(w4, s[5], m, cpu) /\ w6 = Call(w5, s[6], m, cpu)
        /\ w0 = Vmsa_default
    OBVIOUS
  <2> HIDE DEF w, w0, w1, w2, w3, w4, w5, w6
  <2>3. n = 0 \/ n = 1 \/ n = 2 \/ n = 3 \/ n = 4 \/ n = 5 \/ n = 6
    OBVIOUS
  <2> QED
    BY <2>1, <2>2, <2>3
<1>3. w = [n \in 0 .. 6 |-> w[n]]
  <2> HIDE DEF w0, w1, w2, w3, w4, w5, w6
  <2> QED
    OBVIOUS
<1> HIDE DEF w
<1>4. w = [n \in 0 .. 6 |-> IF n = 0 THEN Vmsa_default ELSE Call(w[n - 1], s[n], m, cpu)]
  BY <1>2, <1>3, Zenon
<1>5. made = [n \in 0 .. 6 |-> IF n = 0 THEN Vmsa_default ELSE Call(made[n - 1], s[n], m, cpu)]
  BY <1>1, <1>4 DEF IsMade
<1>6. 0 \in 0 .. 6 /\ \A n \in 1 .. 6 : n \in 0 .. 6 /\ n # 0
  OBVIOUS
<1>7. made[0] = Vmsa_default
  BY <1>5, <1>6
<1>8. ASSUME NEW n \in 1 .. 6 PROVE made[n] = Call(made[n - 1], s[n], m, cpu)
  BY <1>5, <1>6
<1> QED
  BY <1>7, <1>8

(* The first n calls. *)
Done(s, n) == {s[i] : i \in 1 .. n}

(* After six calls all is written. *)
LEMMA CallsWrite ==
  ASSUME NEW s, IsOrder(s), NEW m, IsMachine(m), NEW cpu \in 0 .. 1,
         NEW made, IsMade(made, s, m, cpu)
  PROVE  Written(made[6], Calls, m, cpu)
<1> DEFINE P(n) == Written(made[n], Done(s, n), m, cpu)
<1>1. P(0)
  <2>1. made[0] = Vmsa_default
    BY MadeIs
  <2>2. Done(s, 0) = {}
    BY DEF Done
  <2>3. DOMAIN Vmsa_default = VmsaFields /\ Vmsa_default.rsp = 0 /\ Vmsa_default.rsi = 0
    BY DEF Vmsa_default, VmsaFields
  <2> QED
    BY <2>1, <2>2, <2>3 DEF Written
<1>2. ASSUME NEW n \in 1 .. 6, P(n - 1) PROVE P(n)
  <2> DEFINE c == s[n]
             done == Done(s, n - 1)
  <2>1. made[n] = Call(made[n - 1], c, m, cpu)
    BY MadeIs
  <2>2. c \in Calls /\ c \notin done
    <3>1. \A i \in 1 .. n - 1 : i \in 1 .. 6 /\ i # n
      OBVIOUS
    <3> QED
      BY <3>1 DEF IsOrder, Done
  <2>3. Done(s, n) = done \cup {c}
    <3>1. 1 .. n = (1 .. n - 1) \cup {n}
      OBVIOUS
    <3> QED
      BY <3>1, Zenon DEF Done
  <2>4. ASSUME NEW b \in Calls, <<b, c>> \in {<<"kvm", "vmm">>, <<"amd64", "vmm">>, <<"amd64", "reset">>}
        PROVE  b \in done
    <3>1. PICK i \in 1 .. 6 : s[i] = b
      BY DEF IsOrder
    <3>2. i < n
      BY <2>4, <3>1, Zenon DEF IsOrder
    <3>3. i \in 1 .. n - 1
      BY <3>2
    <3> QED
      BY <3>1, <3>3 DEF Done
  <2>5. c = "vmm" => {"amd64", "kvm"} \subseteq done
    <3>1. "amd64" \in Calls /\ "kvm" \in Calls
      BY DEF Calls
    <3> HIDE DEF c, done
    <3> QED
      BY <2>4, <3>1
  <2>6. c = "reset" => "amd64" \in done
    <3>1. "amd64" \in Calls
      BY DEF Calls
    <3> HIDE DEF c, done
    <3> QED
      BY <2>4, <3>1
  <2>7. Written(made[n - 1], done, m, cpu)
    BY <1>2
  <2> HIDE DEF c, done
  <2>8. Written(Call(made[n - 1], c, m, cpu), done \cup {c}, m, cpu)
    BY <2>2, <2>5, <2>6, <2>7, CallWrites
  <2> QED
    BY <2>1, <2>3, <2>8
<1> HIDE DEF P
<1>3. P(0 + 1) /\ P(1 + 1) /\ P(2 + 1) /\ P(3 + 1) /\ P(4 + 1) /\ P(5 + 1)
  <2>1. P(1)
    <3>1. 1 - 1 = 0 /\ 1 \in 1 .. 6
      OBVIOUS
    <3> QED
      BY <1>1, <1>2, <3>1
  <2>2. P(2)
    <3>1. 2 - 1 = 1 /\ 2 \in 1 .. 6
      OBVIOUS
    <3> QED
      BY <1>2, <2>1, <3>1
  <2>3. P(3)
    <3>1. 3 - 1 = 2 /\ 3 \in 1 .. 6
      OBVIOUS
    <3> QED
      BY <1>2, <2>2, <3>1
  <2>4. P(4)
    <3>1. 4 - 1 = 3 /\ 4 \in 1 .. 6
      OBVIOUS
    <3> QED
      BY <1>2, <2>3, <3>1
  <2>5. P(5)
    <3>1. 5 - 1 = 4 /\ 5 \in 1 .. 6
      OBVIOUS
    <3> QED
      BY <1>2, <2>4, <3>1
  <2>6. P(6)
    <3>1. 6 - 1 = 5 /\ 6 \in 1 .. 6
      OBVIOUS
    <3> QED
      BY <1>2, <2>5, <3>1
  <2> QED
    BY <2>1, <2>2, <2>3, <2>4, <2>5, <2>6
<1>4. Written(made[6], Done(s, 6), m, cpu)
  <2>1. P(6)
    BY <1>3
  <2> QED
    BY <2>1 DEF P
<1>5. Done(s, 6) = Calls
  BY DEF IsOrder, Done
<1> QED
  BY <1>4, <1>5

(* A save area without features. *)
LEMMA PlainArea ==
  ASSUME NEW eip \in Nat, NEW type \in CpuTypes,
         NEW vmm \in {"QEMU", "EC2", "KRUN"}, NEW cpus \in Nat \ {0},
         NEW area, area = build_save_area(eip, 0, type, vmm, cpus)
  PROVE  IsArea(area, eip, 0, type, vmm) /\ area \in Seq(Nat) /\ Len(area) = 12
<1> DEFINE zero == 0
<1>1. zero \in Nat
  OBVIOUS
<1> HIDE DEF zero
<1>2. /\ IsArea(build_save_area(eip, zero, type, vmm, cpus), eip, zero, type, vmm)
      /\ build_save_area(eip, zero, type, vmm, cpus) \in Seq(Nat)
      /\ Len(build_save_area(eip, zero, type, vmm, cpus)) = 12
  BY <1>1, SaveAreaIs
<1> QED
  BY <1>2 DEF zero

(* What a save area that is made and one that is measured agree in. *)
AreaAgrees(v, area) ==
  /\ AreaOf(v, 0, FPU_RESET) = area
  /\ v.amd64 /\ v.kvm /\ v.g_pat /\ v.ldtr = 130 /\ v.data = 147

(* The save area that a machine's calls make is the one that is measured. *)
LEMMA MadeIsMeasured ==
  ASSUME NEW m, IsMachine(m), m.vmm = "QEMU", NEW cpu \in 0 .. 1, NEW s \in CallOrders,
         NEW made, IsMade(made, s, m, cpu), NEW v, v = made[Len(s)]
  PROVE  AreaAgrees(v, Calculates(m, cpu))
<1> DEFINE eip == IF cpu = 0 THEN BSP_EIP ELSE m.eip
           type == m.vcpu_type
           cpus == m.vcpus
           zero == 0
<1>1. IsOrder(s) /\ Len(s) = 6
  BY OrderIs DEF IsOrder
<1>2. Written(v, Calls, m, cpu)
  BY <1>1, CallsWrite
<1>3. {"amd64", "kvm", "vmm", "sku", "reset"} \subseteq Calls
  BY DEF Calls
<1>4. type \in CpuTypes /\ cpus \in Nat \ {0}
  BY DEF IsMachine
<1>5. eip \in Nat /\ zero \in Nat
  BY PageAssumption DEF IsMachine, BSP_EIP
<1>6. v.amd64 /\ v.kvm /\ v.g_pat /\ v.ldtr = 130 /\ v.data = 147
  BY <1>2, <1>3 DEF Written
<1>7. v.cs_base = Halves(eip)[1] * 16 /\ v.rip = Halves(eip)[2]
  <2>1. CASE cpu = 0
    <3>1. v.cs_base = 1048560 /\ v.rip = 65520
      BY <1>2, <1>3, <2>1 DEF Written
    <3>2. Halves(eip)[1] = 65535 /\ Halves(eip)[2] = 65520
      BY <2>1 DEF Halves
    <3> QED
      BY <3>1, <3>2
  <2>2. CASE cpu # 0
    BY <1>2, <1>3, <2>2 DEF Written
  <2> QED
    BY <2>1, <2>2
<1>8. Calculates(m, cpu) = build_save_area(eip, zero, type, "QEMU", cpus)
  BY Zenon DEF Calculates
<1> HIDE DEF eip, cpus, zero
<1>9. HasFields(v, Halves(eip)[1] * 16, Halves(eip)[2], 61440, 155, 147, 139, sig(type), 0, 0)
  BY <1>2, <1>3, <1>7 DEF Written, HasFields
<1> HIDE DEF type
<1>10. AreaOf(v, zero, FPU_RESET) = build_save_area(eip, zero, type, "QEMU", cpus)
  BY <1>4, <1>5, <1>9, QemuArea
<1> QED
  BY <1>6, <1>8, <1>10 DEF AreaAgrees, zero

(* With QEMU the save area that the calls of src/vmsa/mod.rs make, in any   *)
(* order in which what is special comes after what is general and through a *)
(* file, is the one that build_save_area measures, in every field but the   *)
(* FPU's control words: for any machine, CPU and reset address.             *)
THEOREM VmsasAgree == Spec => []VmsaAgrees
<1>1. Inv => VmsaAgrees
  <2> SUFFICES ASSUME Inv PROVE VmsaAgrees
    OBVIOUS
  <2>1. IsMachine(machine)
    <3>1. machine \in DOMAIN Image
      BY MachinesAssumption DEF Inv, Types
    <3> QED
      BY <3>1, MachineIsRead
  <2>2. ASSUME machine.vmm = "QEMU", NEW cpu \in 0 .. 1, NEW s \in CallOrders
        PROVE  AreaAgrees(Made(s, machine, cpu), Calculates(machine, cpu))
    <3> DEFINE made == CHOOSE f : f = [n \in 0 .. Len(s) |->
                         IF n = 0 THEN Vmsa_default ELSE Call(f[n - 1], s[n], machine, cpu)]
    <3>1. IsMade(made, s, machine, cpu)
      BY Zenon DEF IsMade
    <3>2. Made(s, machine, cpu) = made[Len(s)]
      BY Zenon DEF Made
    <3> HIDE DEF made
    <3>3. AreaAgrees(made[Len(s)], Calculates(machine, cpu))
      BY <2>1, <2>2, <3>1, MadeIsMeasured
    <3> QED
      BY <3>2, <3>3
  <2>3. VmsaAgrees <=>
          (phase = "None" /\ machine.vmm = "QEMU" =>
             \A cpu \in 0 .. 1, s \in CallOrders :
               AreaAgrees(Made(s, machine, cpu), Calculates(machine, cpu)))
    BY DEF VmsaAgrees, AreaAgrees
  <2> QED
    BY <2>2, <2>3, Zenon
<1> QED
  BY Invariant, <1>1, PTL

-----------------------------------------------------------------------------
(* SEV and SEV-ES. *)

(* The hash table that is measured after the image. *)
BootTable(m) ==
  IF m.kernel = None THEN <<>> ELSE construct_table(SevHashes(m.kernel, m.initrd, m.append))

(* No image ends with it: its third field is no GUID. *)
IsBootTable(t) ==
  \/ t = <<>>
  \/ /\ t \in Seq(Nat) /\ Len(t) = 4
     /\ t[1] = SEV_HASH_TABLE_HEADER_GUID /\ t[3] # OVMF_TABLE_FOOTER_GUID

(* A table of hashes is such. *)
LEMMA BootTableIs ==
  ASSUME NEW m, IsMachine(m)
  PROVE  IsBootTable(BootTable(m)) /\ BootTable(m) \in Seq(Nat)
<1>1. CASE m.kernel = None
  <2>1. BootTable(m) = <<>>
    BY <1>1 DEF BootTable
  <2>2. <<>> \in Seq(Nat)
    OBVIOUS
  <2> QED
    BY <2>1, <2>2 DEF IsBootTable
<1>2. CASE m.kernel # None
  <2> DEFINE h == SevHashes(m.kernel, m.initrd, m.append)
             t == construct_table(h)
             k == h.kernel
             r == h.initrd
             c == h.cmdline
  <2>1. k \in Hash /\ r \in Hash /\ c \in Hash
    BY <1>2 DEF IsMachine
  <2>2. t = <<SEV_HASH_TABLE_HEADER_GUID, c, r, k>>
    BY DEF construct_table
  <2>3. BootTable(m) = t
    BY <1>2 DEF BootTable
  <2> HIDE DEF k, r, c, t
  <2>4. t \in Seq(Nat) /\ Len(t) = 4 /\ t[1] = SEV_HASH_TABLE_HEADER_GUID /\ t[3] # OVMF_TABLE_FOOTER_GUID
    BY <2>1, <2>2 DEF Hash, SEV_HASH_TABLE_HEADER_GUID
  <2> QED
    BY <2>3, <2>4 DEF IsBootTable
<1> QED
  BY <1>1, <1>2

(* The table tells what is booted. *)
LEMMA TableTells ==
  ASSUME NEW m, NEW n
  PROVE  BootTable(m) = BootTable(n) <=> Boots(m) = Boots(n)
<1> DEFINE h(x) == SevHashes(x.kernel, x.initrd, x.append)
<1>1. ASSUME NEW x PROVE construct_table(h(x)) # <<>>
  BY DEF construct_table
<1>2. ASSUME NEW x, NEW y, construct_table(h(x)) = construct_table(h(y)) PROVE h(x) = h(y)
  <2>1. h(x).cmdline = h(y).cmdline /\ h(x).initrd = h(y).initrd /\ h(x).kernel = h(y).kernel
    BY <1>2 DEF construct_table
  <2>2. /\ h(x) = [kernel |-> h(x).kernel, initrd |-> h(x).initrd, cmdline |-> h(x).cmdline]
        /\ h(y) = [kernel |-> h(y).kernel, initrd |-> h(y).initrd, cmdline |-> h(y).cmdline]
    BY DEF SevHashes
  <2> QED
    BY <2>1, <2>2
<1>3. /\ BootTable(m) = IF m.kernel = None THEN <<>> ELSE construct_table(h(m))
      /\ BootTable(n) = IF n.kernel = None THEN <<>> ELSE construct_table(h(n))
      /\ Boots(m) = IF m.kernel = None THEN {} ELSE {h(m)}
      /\ Boots(n) = IF n.kernel = None THEN {} ELSE {h(n)}
  BY DEF BootTable, Boots
<1> HIDE DEF h
<1>4. CASE m.kernel = None /\ n.kernel = None
  BY <1>3, <1>4
<1>5. CASE m.kernel = None /\ n.kernel # None
  BY <1>1, <1>3, <1>5
<1>6. CASE m.kernel # None /\ n.kernel = None
  BY <1>1, <1>3, <1>6
<1>7. CASE m.kernel # None /\ n.kernel # None
  <2>1. BootTable(m) = construct_table(h(m)) /\ BootTable(n) = construct_table(h(n))
        /\ Boots(m) = {h(m)} /\ Boots(n) = {h(n)}
    BY <1>3, <1>7
  <2> QED
    BY <1>2, <2>1
<1> QED
  BY <1>4, <1>5, <1>6, <1>7

(* Where one part ends fixes the other. *)
LEMMA SameParts ==
  ASSUME NEW S, NEW x \in Seq(S), NEW y \in Seq(S), NEW p \in Seq(S), NEW q \in Seq(S),
         x \o p = y \o q, Len(x) = Len(y)
  PROVE  x = y /\ p = q
<1> DEFINE z == x \o p
<1>1. Parts(S, z, x, p) /\ Parts(S, z, y, q)
  BY PartsOf
<1> HIDE DEF z
<1>2. \A j \in 1 .. Len(x) : x[j] = y[j]
  BY <1>1 DEF Parts
<1>3. Len(p) = Len(q)
  BY <1>1 DEF Parts
<1>4. \A j \in 1 .. Len(p) : p[j] = q[j]
  BY <1>1, <1>3 DEF Parts
<1> QED
  BY <1>2, <1>3, <1>4, SeqEqual

(* An image is not another one with a hash table after it. *)
LEMMA TableNotCut ==
  ASSUME NEW x \in Seq(Nat), NEW y \in Seq(Nat), NEW t \in Seq(Nat), IsBootTable(t), t # <<>>,
         HasFooter(x)
  PROVE  x # y \o t
<1> SUFFICES ASSUME x = y \o t PROVE FALSE
  OBVIOUS
<1>1. Parts(Nat, x, y, t)
  BY PartsOf
<1>2. Len(t) = 4 /\ t[3] # OVMF_TABLE_FOOTER_GUID
  BY DEF IsBootTable
<1>3. Len(x) - 1 = Len(y) + 3 /\ 3 \in 1 .. Len(t)
  BY <1>1, <1>2 DEF Parts
<1>4. x[Len(x) - 1] = t[3]
  BY <1>1, <1>3 DEF Parts
<1> QED
  BY <1>2, <1>4 DEF HasFooter

(* Images and tables, put end to end, can be cut in one way. *)
LEMMA TablesSplit ==
  ASSUME NEW x \in Seq(Nat), NEW y \in Seq(Nat), NEW t \in Seq(Nat), NEW u \in Seq(Nat),
         IsBootTable(t), IsBootTable(u), HasFooter(x), HasFooter(y), x \o t = y \o u
  PROVE  x = y /\ t = u
<1>1. Len(t) = Len(u) => x = y /\ t = u
  <2> DEFINE z == x \o t
  <2>1. Parts(Nat, z, x, t) /\ Parts(Nat, z, y, u)
    BY PartsOf
  <2> HIDE DEF z
  <2>2. Len(t) = Len(u) => Len(x) = Len(y)
    BY <2>1 DEF Parts
  <2> QED
    BY <2>2, SameParts, ZenonT(60)
<1>2. t = <<>> => x \o t = x
  OBVIOUS
<1>3. u = <<>> => y \o u = y
  OBVIOUS
<1>4. ~ (t = <<>> /\ u # <<>>)
  BY <1>2, TableNotCut
<1>5. ~ (t # <<>> /\ u = <<>>)
  BY <1>3, TableNotCut
<1>6. (t # <<>> /\ u # <<>>) => Len(t) = Len(u)
  BY DEF IsBootTable
<1>7. (t = <<>> /\ u = <<>>) => Len(t) = Len(u)
  OBVIOUS
<1> QED
  BY <1>1, <1>4, <1>5, <1>6, <1>7

(* Save areas, and what is measured before them. *)
ArePlain(A) ==
  /\ A \in Seq(Seq(Nat))
  /\ \A r \in 1 .. Len(A) : Len(A[r]) = 12 /\ A[r][9] # SEV_HASH_TABLE_HEADER_GUID
                                           /\ A[r][11] = 0 /\ A[r][3] = 61440

Closed(x) ==
  /\ x \in Seq(Nat)
  /\ \/ Len(x) >= 3 /\ x[Len(x) - 1] = OVMF_TABLE_FOOTER_GUID
     \/ Len(x) >= 4 /\ x[Len(x) - 3] = SEV_HASH_TABLE_HEADER_GUID

(* The width of save areas. *)
LEMMA PlainWidth ==
  ASSUME NEW A, ArePlain(A)
  PROVE  HasWidth(Nat, A, 12)
<1>1. A \in Seq(Seq(Nat)) /\ (\A r \in 1 .. Len(A) : Len(A[r]) = 12)
  BY DEF ArePlain
<1> QED
  BY <1>1, FixedWidth

(* What ends with an image or a table is not cut within save areas. *)
LEMMA NotLonger ==
  ASSUME NEW x \in Seq(Nat), NEW y, Closed(y), NEW A, ArePlain(A), NEW B, ArePlain(B),
         x \o FlattenSeq(A) = y \o FlattenSeq(B)
  PROVE  Len(y) <= Len(x)
<1> DEFINE FA == FlattenSeq(A)
           FB == FlattenSeq(B)
           z == x \o FA
           d == Len(A) - Len(B)
<1>1. HasWidth(Nat, A, 12) /\ HasWidth(Nat, B, 12)
  BY PlainWidth
<1>2. y \in Seq(Nat) /\ Len(A) \in Nat /\ Len(B) \in Nat
  BY DEF Closed, ArePlain
<1>3. FA \in Seq(Nat) /\ FB \in Seq(Nat) /\ Len(FA) = Len(A) * 12 /\ Len(FB) = Len(B) * 12
  BY <1>1 DEF HasWidth
<1>4. \A r \in 1 .. Len(A) : \A j \in 1 .. 12 : FA[(r - 1) * 12 + j] = A[r][j]
  BY <1>1 DEF HasWidth
<1> HIDE DEF FA, FB
<1>5. Parts(Nat, z, x, FA) /\ Parts(Nat, z, y, FB)
  BY <1>2, <1>3, PartsOf DEF FA, FB
<1> HIDE DEF z
<1> SUFFICES ASSUME Len(y) > Len(x) PROVE FALSE
  BY <1>2
<1>a. Len(x) + Len(FA) = Len(y) + Len(FB) /\ Len(x) \in Nat /\ Len(y) \in Nat
  BY <1>5 DEF Parts
<1>6. Len(y) = Len(x) + d * 12 /\ Len(x) \in Nat
  <2> DEFINE a == Len(A)
             b == Len(B)
             l == Len(x)
             k == Len(y)
  <2>1. a \in Nat /\ b \in Nat /\ l \in Nat /\ k \in Nat /\ l + a * 12 = k + b * 12
    BY <1>2, <1>3, <1>a
  <2> HIDE DEF a, b, l, k
  <2>2. k = l + (a - b) * 12
    BY <2>1
  <2> QED
    BY <2>1, <2>2 DEF a, b, l, k
<1>7. d \in 1 .. Len(A)
  BY <1>2, <1>6
<1>8. Len(y) - 1 = Len(x) + ((d - 1) * 12 + 11) /\ Len(y) - 3 = Len(x) + ((d - 1) * 12 + 9)
      /\ (d - 1) * 12 + 11 \in 1 .. Len(FA) /\ (d - 1) * 12 + 9 \in 1 .. Len(FA)
  <2> DEFINE a == Len(A)
             l == Len(x)
             k == Len(y)
             f == Len(FA)
  <2>1. a \in Nat /\ l \in Nat /\ d \in 1 .. a /\ k = l + d * 12 /\ f = a * 12
    BY <1>2, <1>3, <1>6, <1>7
  <2> HIDE DEF a, l, k, f, d
  <2>2. k - 1 = l + ((d - 1) * 12 + 11) /\ k - 3 = l + ((d - 1) * 12 + 9)
        /\ (d - 1) * 12 + 11 \in 1 .. f /\ (d - 1) * 12 + 9 \in 1 .. f
    BY <2>1
  <2> QED
    BY <2>2 DEF a, l, k, f
<1>9. z[Len(y) - 1] = A[d][11] /\ z[Len(y) - 3] = A[d][9]
  <2>1. FA[(d - 1) * 12 + 11] = A[d][11] /\ FA[(d - 1) * 12 + 9] = A[d][9]
    BY <1>4, <1>7, SMTT(40)
  <2> HIDE DEF d
  <2> QED
    BY <1>5, <1>8, <2>1, ZenonT(60) DEF Parts
<1>10. /\ Len(y) >= 3 => z[Len(y) - 1] = y[Len(y) - 1]
       /\ Len(y) >= 4 => z[Len(y) - 3] = y[Len(y) - 3]
  <2>1. /\ Len(y) >= 3 => Len(y) - 1 \in 1 .. Len(y)
        /\ Len(y) >= 4 => Len(y) - 3 \in 1 .. Len(y)
    BY <1>2
  <2> QED
    BY <1>5, <2>1 DEF Parts
<1>11. A[d][9] # SEV_HASH_TABLE_HEADER_GUID /\ A[d][11] # OVMF_TABLE_FOOTER_GUID
  <2> HIDE DEF d
  <2>1. A[d][9] # SEV_HASH_TABLE_HEADER_GUID /\ A[d][11] = 0
    BY <1>7 DEF ArePlain
  <2> QED
    BY <2>1 DEF OVMF_TABLE_FOOTER_GUID
<1> QED
  BY <1>9, <1>10, <1>11 DEF Closed

(* Two measurements are of the same image, table and save areas. *)
SameAreas(A, B) ==
  /\ Len(A) = Len(B)
  /\ \A r \in 1 .. Len(A) : \A j \in 1 .. 12 : A[r][j] = B[r][j]

(* So it can be cut from them in one way. *)
LEMMA AreasSplit ==
  ASSUME NEW x, Closed(x), NEW y, Closed(y), NEW A, ArePlain(A), NEW B, ArePlain(B),
         x \o FlattenSeq(A) = y \o FlattenSeq(B)
  PROVE  x = y /\ SameAreas(A, B)
<1> DEFINE FA == FlattenSeq(A)
           FB == FlattenSeq(B)
<1>1. HasWidth(Nat, A, 12) /\ HasWidth(Nat, B, 12)
  BY PlainWidth
<1>2. x \in Seq(Nat) /\ y \in Seq(Nat) /\ Len(A) \in Nat /\ Len(B) \in Nat
  BY SMTT(40) DEF Closed, ArePlain
<1>3. FA \in Seq(Nat) /\ FB \in Seq(Nat) /\ Len(FA) = Len(A) * 12 /\ Len(FB) = Len(B) * 12
  BY <1>1 DEF HasWidth
<1>4. Len(x) = Len(y)
  <2>1. Len(y) <= Len(x) /\ Len(x) <= Len(y)
    BY <1>2, NotLonger
  <2> QED
    BY <1>2, <2>1
<1> HIDE DEF FA, FB
<1>5. x = y /\ FA = FB
  BY <1>2, <1>3, <1>4, SameParts DEF FA, FB
<1>6. Len(A) = Len(B)
  BY <1>2, <1>3, <1>5
<1>7. ASSUME NEW r \in 1 .. Len(A), NEW j \in 1 .. 12 PROVE A[r][j] = B[r][j]
  <2>1. FA[(r - 1) * 12 + j] = A[r][j]
    BY <1>1 DEF HasWidth, FA
  <2>2. FB[(r - 1) * 12 + j] = B[r][j]
    BY <1>1, <1>6 DEF HasWidth, FB
  <2> QED
    BY <1>5, <2>1, <2>2
<1> QED
  BY <1>5, <1>6, <1>7 DEF SameAreas

PlainPages(A, eip, type, vmm, cpus) ==
  /\ ArePlain(A) /\ Len(A) \in Nat \ {0} /\ (eip > 0 => Len(A) = cpus)
  /\ IsArea(A[1], BSP_EIP, 0, type, vmm)

(* The save areas of SEV-ES have no GUID where one would close something. *)
LEMMA PagesArePlain ==
  ASSUME BSP_EIP \in Nat, NEW eip \in Nat, NEW type \in CpuTypes,
         NEW vmm \in {"QEMU", "EC2", "KRUN"}, NEW cpus \in Nat \ {0},
         NEW A, A = vmsa_pages(eip, type, vmm, cpus, 0)
  PROVE  PlainPages(A, eip, type, vmm, cpus)
<1> DEFINE bsp == build_save_area(BSP_EIP, 0, type, vmm, cpus)
           ap == build_save_area(eip, 0, type, vmm, cpus)
           count == IF eip > 0 \/ cpus = 0 THEN cpus ELSE 1
<1>1. A = [i \in 1 .. count |-> IF i = 1 THEN bsp ELSE ap]
  BY DEF vmsa_pages
<1>2. count \in Nat \ {0} /\ (eip > 0 => count = cpus)
  OBVIOUS
<1>3. IsArea(bsp, BSP_EIP, 0, type, vmm) /\ bsp \in Seq(Nat) /\ Len(bsp) = 12
  BY PlainArea
<1>4. IsArea(ap, eip, 0, type, vmm) /\ ap \in Seq(Nat) /\ Len(ap) = 12
  BY PlainArea
<1>5. ASSUME NEW x, NEW e, IsArea(x, e, 0, type, vmm)
      PROVE  x[9] # SEV_HASH_TABLE_HEADER_GUID /\ x[11] = 0 /\ x[3] = 61440
  <2>1. (x[9] = 8064 \/ x[9] = 0) /\ x[11] = 0 /\ x[3] = 61440
    BY <1>5 DEF IsArea, IsInit, Twelve
  <2> QED
    BY <2>1 DEF SEV_HASH_TABLE_HEADER_GUID
<1> HIDE DEF bsp, ap, count
<1>6. A \in Seq(Seq(Nat)) /\ Len(A) = count
  BY <1>1, <1>2, <1>3, <1>4
<1>7. \A r \in 1 .. Len(A) : A[r] = bsp \/ A[r] = ap
  BY <1>1, <1>2, <1>6
<1>8. A[1] = bsp
  <2>1. 1 \in 1 .. count
    BY <1>2
  <2> QED
    BY <1>1, <2>1
<1>9. ArePlain(A)
  <2>1. ASSUME NEW r \in 1 .. Len(A)
        PROVE  Len(A[r]) = 12 /\ A[r][9] # SEV_HASH_TABLE_HEADER_GUID
                              /\ A[r][11] = 0 /\ A[r][3] = 61440
    <3>1. CASE A[r] = bsp
      BY <1>3, <1>5, <3>1
    <3>2. CASE A[r] = ap
      BY <1>4, <1>5, <3>2
    <3> QED
      BY <1>7, <3>1, <3>2
  <2> QED
    BY <1>6, <2>1 DEF ArePlain
<1> QED
  BY <1>2, <1>3, <1>6, <1>8, <1>9 DEF PlainPages

(* What ends with save areas ends with the fields of the last of them. *)
LEMMA LastFields ==
  ASSUME NEW x \in Seq(Nat), NEW A, HasWidth(Nat, A, 12), Len(A) \in Nat \ {0},
         NEW z, z = x \o FlattenSeq(A)
  PROVE  Len(z) \in Nat /\ z[Len(z) - 9] = A[Len(A)][3] /\ z[Len(z) - 1] = A[Len(A)][11]
<1> DEFINE FA == FlattenSeq(A)
           a == Len(A)
<1>1. FA \in Seq(Nat) /\ Len(FA) = a * 12 /\ a \in Nat \ {0}
  BY DEF HasWidth
<1>2. \A r \in 1 .. a : \A j \in 1 .. 12 : FA[(r - 1) * 12 + j] = A[r][j]
  BY DEF HasWidth
<1>3. FA[(a - 1) * 12 + 3] = A[a][3] /\ FA[(a - 1) * 12 + 11] = A[a][11]
  <2>1. a \in 1 .. a /\ 3 \in 1 .. 12 /\ 11 \in 1 .. 12
    BY <1>1
  <2> HIDE DEF a, FA
  <2> QED
    BY <1>2, <2>1, ZenonT(60)
<1> HIDE DEF FA
<1>4. Parts(Nat, z, x, FA)
  BY <1>1, PartsOf DEF FA
<1>5. Len(z) = Len(x) + a * 12 /\ Len(x) \in Nat
  BY <1>1, <1>4 DEF Parts
<1> HIDE DEF a
<1>6. /\ Len(z) - 9 = Len(x) + ((a - 1) * 12 + 3) /\ Len(z) - 1 = Len(x) + ((a - 1) * 12 + 11)
      /\ (a - 1) * 12 + 3 \in 1 .. Len(FA) /\ (a - 1) * 12 + 11 \in 1 .. Len(FA)
      /\ Len(z) \in Nat
  <2> DEFINE l == Len(x)
             k == Len(z)
             f == Len(FA)
  <2>1. l \in Nat /\ k = l + a * 12 /\ f = a * 12 /\ a \in Nat \ {0}
    BY <1>1, <1>5
  <2> HIDE DEF l, k, f
  <2> QED
    BY <2>1 DEF l, k, f
<1>7. /\ z[Len(x) + ((a - 1) * 12 + 3)] = FA[(a - 1) * 12 + 3]
      /\ z[Len(x) + ((a - 1) * 12 + 11)] = FA[(a - 1) * 12 + 11]
  BY <1>4, <1>6 DEF Parts
<1> QED
  BY <1>3, <1>6, <1>7 DEF a

(* vmsa_pages makes the save areas that a VMM other than KRUN has measured; *)
(* the last of KRUN's is none that it makes.                                *)
LEMMA AreasAreCalculated ==
  ASSUME NEW m, IsMachine(m)
  PROVE  /\ m.vmm # "KRUN" => AreasWith(m, 0) = vmsa_pages(m.eip, m.vcpu_type, m.vmm, m.vcpus, 0)
         /\ AreasWith(m, 0) \in Seq(Seq(Nat)) /\ Len(AreasWith(m, 0)) = m.vcpus
         /\ \A r \in 1 .. m.vcpus : IsLoaded(AreasWith(m, 0)[r], m, 0, r)
         /\ m.eip \in Nat /\ m.eip > 0 /\ BSP_EIP \in Nat
         /\ m.vcpu_type \in CpuTypes /\ m.vmm \in {"QEMU", "EC2", "KRUN"} /\ m.vcpus \in Nat \ {0}
<1> DEFINE e == m.eip
           c == m.vcpus
           t == m.vcpu_type
           v == m.vmm
           W == AreasWith(m, 0)
<1>1. e \in 1 .. BSP_EIP - 1 /\ c \in Nat \ {0} /\ t \in CpuTypes /\ v \in {"QEMU", "EC2", "KRUN"}
  BY DEF IsMachine
<1>2. BSP_EIP \in Nat
  BY AreaIn
<1>3. \A r \in 1 .. c : IsLoaded(W[r], m, 0, r)
  BY AreasLoaded
<1>4. W = [i \in 1 .. c |-> W[i]]
  <2> DEFINE X(i) ==
        CASE m.vmm = "QEMU" -> AreaOf(Vcpu(m, i - 1), 0, FPU_RESET)
          [] m.vmm = "KRUN" -> AreaOf(Vcpu(m, i - 1), 0, <<0, 0>>)
          [] m.vmm = "EC2" -> build_save_area(IF i = 1 THEN BSP_EIP ELSE m.eip, 0,
                                              m.vcpu_type, m.vmm, m.vcpus)
  <2>1. W = [i \in 1 .. c |-> X(i)]
    BY Zenon DEF AreasWith
  <2> HIDE DEF X, W
  <2> QED
    BY <2>1, Zenon
<1> HIDE DEF W
<1>5. \A r \in 1 .. c : W[r] \in Seq(Nat)
  BY <1>3 DEF IsLoaded
<1>6. W \in Seq(Seq(Nat)) /\ Len(W) = c
  BY <1>1, <1>4, <1>5
<1>7. ASSUME NEW r \in 1 .. c, v # "KRUN"
      PROVE  W[r] = build_save_area(IF r = 1 THEN BSP_EIP ELSE e, 0, t, v, c)
  BY <1>3, <1>7 DEF IsLoaded
<1> HIDE DEF e, c, t, v
<1>8. e \in Nat /\ e > 0
  BY <1>1, <1>2
<1>9. vmsa_pages(e, t, v, c, 0)
        = [i \in 1 .. c |-> IF i = 1 THEN build_save_area(BSP_EIP, 0, t, v, c)
                            ELSE build_save_area(e, 0, t, v, c)]
  BY <1>8 DEF vmsa_pages
<1>10. v # "KRUN" => W = vmsa_pages(e, t, v, c, 0)
  BY <1>4, <1>7, <1>9
<1> QED
  BY <1>1, <1>2, <1>3, <1>6, <1>8, <1>10 DEF e, c, t, v, W

(* What the hash over a file begins with. *)
LEMMA HashOfFile ==
  ASSUME NEW file \in Seq(Nat), NEW n, NEW hash, NEW args, args = Args(n, file, hash),
         NEW o, o = OVMF_new(file), NEW g, g = launch_hash(o, args)
  PROVE  /\ g = Failed \/ (g = Gctx(file \o BootTable(n)) /\ IsAnyRead(o, file))
         /\ IsAnyRead(o, file) /\ (n.kernel # None => is_sev_hashes_table_supported(o))
              => g = Gctx(file \o BootTable(n))
<1>1. args.kernel = n.kernel /\ args.initrd = n.initrd /\ args.append = n.append
  BY DEF Args
<1>2. o = Failed \/ IsAnyRead(o, file)
  BY FileIsRead
<1>3. CASE o = Failed /\ ~ IsAnyRead(o, file)
  <2>1. ~ o.ok
    BY <1>3, FailedIs
  <2>2. g = Failed
    BY <2>1 DEF launch_hash
  <2> QED
    BY <1>3, <2>2
<1>4. CASE IsAnyRead(o, file)
  <2>1. o.ok = TRUE /\ o.data = file
    BY <1>4 DEF IsAnyRead
  <2>2. CASE n.kernel = None
    <3>1. BootTable(n) = <<>>
      BY <2>2 DEF BootTable
    <3>2. file \o <<>> = file
      OBVIOUS
    <3>3. g = Gctx(file)
      BY <1>1, <2>1, <2>2 DEF launch_hash
    <3> QED
      BY <1>4, <3>1, <3>2, <3>3
  <2>3. CASE n.kernel # None /\ is_sev_hashes_table_supported(o)
    <3>1. BootTable(n) = construct_table(SevHashes(n.kernel, n.initrd, n.append))
      BY <2>3 DEF BootTable
    <3>2. g = Gctx(file \o construct_table(SevHashes(n.kernel, n.initrd, n.append)))
      BY <1>1, <2>1, <2>3 DEF launch_hash
    <3> QED
      BY <1>4, <3>1, <3>2
  <2>4. CASE n.kernel # None /\ ~ is_sev_hashes_table_supported(o)
    <3>1. g = Failed
      BY <1>1, <2>1, <2>4 DEF launch_hash
    <3> QED
      BY <2>4, <3>1
  <2> QED
    BY <2>2, <2>3, <2>4
<1> QED
  BY <1>2, <1>3, <1>4

(* An image's own hash does not fail for what the image can boot. *)
LEMMA HashOfImage ==
  ASSUME NEW m \in Machines, NEW n, Boots(n) = Boots(m), NEW hash, NEW args,
         NEW file, file = Image[m], args = Args(n, file, hash), NEW o, o = OVMF_new(file)
  PROVE  /\ launch_hash(o, args) = Gctx(Image[m] \o BootTable(m))
         /\ sev_es_reset_eip(o) = {m.eip}
<1>1. m \in DOMAIN Image /\ (m.kernel # None => HasHashes(m))
  BY MachinesAssumption
<1>2. IsRead(o, Image[m], m) /\ IsMachine(m) /\ Image[m] \in Seq(Nat)
  BY <1>1, MachineIsRead
<1>3. o # Failed
  BY <1>2, FailedIs DEF IsRead
<1>4. IsAnyRead(o, Image[m])
  BY <1>2, <1>3, FileIsRead
<1>5. n.kernel # None => m.kernel # None
  BY DEF Boots
<1>6. n.kernel # None => is_sev_hashes_table_supported(o)
  <2>1. ASSUME n.kernel # None PROVE is_sev_hashes_table_supported(o)
    <3>1. sev_hashes_table_gpa(o) = {m.hashes_gpa}
      BY <1>1, <1>2, <1>5, <2>1 DEF IsRead
    <3>2. m.hashes_gpa # 0
      BY <1>2 DEF IsMachine
    <3> QED
      BY <3>1, <3>2 DEF is_sev_hashes_table_supported
  <2> QED
    BY <2>1
<1>7. launch_hash(o, args) = Gctx(Image[m] \o BootTable(n))
  BY <1>2, <1>4, <1>6, HashOfFile
<1>8. BootTable(n) = BootTable(m)
  BY TableTells
<1> QED
  BY <1>2, <1>7, <1>8 DEF IsRead

(* The footer's GUID is last but one in an image. *)
LEMMA ImageHasFooter ==
  ASSUME NEW m \in DOMAIN Image
  PROVE  HasFooter(Image[m])
<1>1. IsRead(OVMF_new(Image[m]), Image[m], m) /\ Image[m] \in Seq(Nat)
  BY MachineIsRead
<1>2. OVMF_new(Image[m]) # Failed
  BY <1>1, FailedIs DEF IsRead
<1> QED
  BY <1>1, <1>2, FileIsRead DEF IsAnyRead

(* Image and table end with a GUID at its place. *)
LEMMA MeasuredIsClosed ==
  ASSUME NEW x \in Seq(Nat), HasFooter(x), NEW t \in Seq(Nat), IsBootTable(t)
  PROVE  Closed(x \o t)
<1>1. CASE t = <<>>
  <2>1. x \o t = x
    BY <1>1
  <2> QED
    BY <2>1 DEF Closed, HasFooter
<1>2. CASE t # <<>>
  <2> DEFINE z == x \o t
  <2>1. Parts(Nat, z, x, t)
    BY PartsOf
  <2> HIDE DEF z
  <2>2. Len(t) = 4 /\ t[1] = SEV_HASH_TABLE_HEADER_GUID
    BY <1>2 DEF IsBootTable
  <2>3. Len(z) - 3 = Len(x) + 1 /\ 1 \in 1 .. Len(t) /\ Len(z) >= 4 /\ z \in Seq(Nat)
    BY <2>1, <2>2 DEF Parts
  <2>4. z[Len(z) - 3] = t[1]
    BY <2>1, <2>3 DEF Parts
  <2> QED
    BY <2>2, <2>3, <2>4 DEF Closed, z
<1> QED
  BY <1>1, <1>2

(* What is measured for SEV: image and table. *)
LEMMA SevLoadedIs ==
  ASSUME NEW m
  PROVE  SevLoaded(m) = Image[m] \o BootTable(m)
BY DEF SevLoaded, BootTable, construct_table

(* What an owner calculates from. *)
IsInput(i, file, hash) ==
  /\ i.machine \in DOMAIN Image /\ file = i.args.ovmf_file /\ file \in Seq(Nat)
  /\ Len(file) = Len(Image[i.machine])
  /\ i.args = Args(i.machine, file, hash)
  /\ \/ hash = {calc_snp_ovmf_hash(Image[i.machine]).ld}
     \/ hash = {} /\ file = Image[i.machine]

(* The hash that an owner gives, or none. *)
LEMMA InputIs ==
  ASSUME NEW i \in Inputs
  PROVE  \E hash : IsInput(i, i.args.ovmf_file, hash)
BY InputsAssumption DEF IsInput

(* The digest for SEV. *)
SevBinds(i, m) ==
  sev_calc_launch_digest(i.args) = Gctx(SevLoaded(m))
    <=> i.args.ovmf_file = Image[m] /\ Boots(i.machine) = Boots(m)

(* SevDigestsBind for SEV. *)
LEMMA SevIsBound ==
  ASSUME NEW m \in Machines, NEW i \in Inputs
  PROVE  SevBinds(i, m)
<1> DEFINE n == i.machine
           file == i.args.ovmf_file
           o == OVMF_new(file)
           g == launch_hash(o, i.args)
<1>1. PICK hash : IsInput(i, file, hash)
  BY InputIs
<1>2. n \in DOMAIN Image /\ file \in Seq(Nat) /\ i.args = Args(n, file, hash)
  BY <1>1 DEF IsInput
<1>3. m \in DOMAIN Image
  BY MachinesAssumption
<1>4. IsMachine(n) /\ IsMachine(m) /\ Image[m] \in Seq(Nat)
  BY <1>2, <1>3, MachineIsRead
<1>5. sev_calc_launch_digest(i.args) = g
  BY DEF sev_calc_launch_digest
<1>6. /\ g = Failed \/ (g = Gctx(file \o BootTable(n)) /\ IsAnyRead(o, file))
  BY <1>2, HashOfFile
<1>7. ASSUME g = Gctx(SevLoaded(m)) PROVE file = Image[m] /\ Boots(n) = Boots(m)
  <2> HIDE DEF g, o, file, n
  <2>1. g # Failed
    BY <1>7, FailedIs, GctxIs
  <2>2. g = Gctx(file \o BootTable(n)) /\ HasFooter(file)
    BY <1>6, <2>1 DEF IsAnyRead
  <2>3. file \o BootTable(n) = Image[m] \o BootTable(m)
    BY <1>7, <2>2, GctxIs, SevLoadedIs
  <2>4. IsBootTable(BootTable(n)) /\ BootTable(n) \in Seq(Nat)
        /\ IsBootTable(BootTable(m)) /\ BootTable(m) \in Seq(Nat)
    BY <1>4, BootTableIs
  <2>5. file = Image[m] /\ BootTable(n) = BootTable(m)
    BY <1>2, <1>3, <1>4, <2>2, <2>3, <2>4, ImageHasFooter, TablesSplit
  <2> QED
    BY <2>5, TableTells
<1>8. ASSUME file = Image[m], Boots(n) = Boots(m) PROVE g = Gctx(SevLoaded(m))
  <2> HIDE DEF file
  <2>1. launch_hash(o, i.args) = Gctx(Image[m] \o BootTable(m))
    BY <1>2, <1>8, HashOfImage, SMTT(40)
  <2> QED
    BY <2>1, SevLoadedIs
<1> QED
  BY <1>5, <1>7, <1>8 DEF SevBinds

(* The digest for SEV-ES, of a file with a reset eip. *)
LEMMA SevEsDigestIs ==
  ASSUME NEW file, NEW n, n.vmm \in {"QEMU", "EC2", "KRUN"}, NEW hash, NEW args,
         args = Args(n, file, hash), NEW o, o = OVMF_new(file), NEW g, g = launch_hash(o, args),
         NEW eip, eip = CHOOSE e \in sev_es_reset_eip(o) : TRUE
  PROVE  seves_calc_launch_digest(args)
           = IF g.ok /\ sev_es_reset_eip(o) # {}
               THEN Gctx(g.ld \o FlattenSeq(vmsa_pages(eip, n.vcpu_type, n.vmm, n.vcpus, 0)))
               ELSE Failed
<1>1. args.ovmf_file = file /\ args.vcpu_type = n.vcpu_type /\ args.vcpus = n.vcpus
      /\ args.vmm = IF n.vmm = "QEMU" THEN "none" ELSE n.vmm
  BY DEF Args
<1>2. (IF args.vmm = "none" THEN "QEMU" ELSE args.vmm) = n.vmm
  BY <1>1
<1> QED
  BY <1>1, <1>2 DEF seves_calc_launch_digest

SevEsBinds(i, m) ==
  /\ seves_calc_launch_digest(i.args) = Gctx(SevEsLoaded(m)) =>
       /\ i.args.ovmf_file = Image[m] /\ Boots(i.machine) = Boots(m)
       /\ i.machine.vcpus = m.vcpus
       /\ m.vmm = "QEMU" => sig(i.machine.vcpu_type) = sig(m.vcpu_type)
  /\ i.machine = m /\ m.vmm # "KRUN" /\ i.args.ovmf_file = Image[m] =>
       seves_calc_launch_digest(i.args) = Gctx(SevEsLoaded(m))

(* SevDigestsBind for SEV-ES. *)
LEMMA SevEsIsBound ==
  ASSUME NEW m \in Machines, NEW i \in Inputs
  PROVE  SevEsBinds(i, m)
<1> DEFINE n == i.machine
           file == i.args.ovmf_file
           o == OVMF_new(file)
           g == launch_hash(o, i.args)
           eip == CHOOSE e \in sev_es_reset_eip(o) : TRUE
           A == vmsa_pages(eip, n.vcpu_type, n.vmm, n.vcpus, 0)
           B == AreasWith(m, 0)
           digest == seves_calc_launch_digest(i.args)
<1>1. PICK hash : IsInput(i, file, hash)
  BY InputIs
<1>2. n \in DOMAIN Image /\ file \in Seq(Nat) /\ i.args = Args(n, file, hash)
  BY <1>1 DEF IsInput
<1>3. m \in DOMAIN Image
  BY MachinesAssumption
<1>4. IsMachine(n) /\ IsMachine(m) /\ Image[m] \in Seq(Nat)
  BY <1>2, <1>3, MachineIsRead
<1>5. /\ n.vcpu_type \in CpuTypes /\ n.vmm \in {"QEMU", "EC2", "KRUN"} /\ n.vcpus \in Nat \ {0}
      /\ BSP_EIP \in Nat
  BY <1>4, AreasAreCalculated
<1>6. /\ m.vcpu_type \in CpuTypes /\ m.vmm \in {"QEMU", "EC2", "KRUN"} /\ m.vcpus \in Nat \ {0}
      /\ m.vmm # "KRUN" => B = vmsa_pages(m.eip, m.vcpu_type, m.vmm, m.vcpus, 0)
      /\ B \in Seq(Seq(Nat)) /\ Len(B) = m.vcpus
      /\ \A r \in 1 .. m.vcpus : IsLoaded(B[r], m, 0, r)
      /\ m.eip \in Nat /\ m.eip > 0
  BY <1>4, AreasAreCalculated
<1>7. digest = IF g.ok /\ sev_es_reset_eip(o) # {} THEN Gctx(g.ld \o FlattenSeq(A)) ELSE Failed
  BY <1>2, <1>5, SevEsDigestIs
<1>8. /\ g = Failed \/ (g = Gctx(file \o BootTable(n)) /\ IsAnyRead(o, file))
  BY <1>2, HashOfFile
<1>9. SevEsLoaded(m) = (Image[m] \o BootTable(m)) \o FlattenSeq(B)
  BY SevLoadedIs DEF SevEsLoaded
<1>10. file = Image[m] => eip = m.eip /\ sev_es_reset_eip(o) = {m.eip}
  <2>1. file = Image[m] => sev_es_reset_eip(o) = {m.eip}
    BY HashOfImage
  <2> QED
    BY <2>1
<1>11. ASSUME file = Image[m], Boots(n) = Boots(m)
       PROVE  g = Gctx(Image[m] \o BootTable(m))
  <2> HIDE DEF file
  <2>1. launch_hash(o, i.args) = Gctx(Image[m] \o BootTable(m))
    BY <1>2, <1>11, HashOfImage
  <2> QED
    BY <2>1
<1>12. ASSUME digest = Gctx(SevEsLoaded(m))
       PROVE  /\ file = Image[m] /\ Boots(n) = Boots(m) /\ n.vcpus = m.vcpus
              /\ m.vmm = "QEMU" => sig(n.vcpu_type) = sig(m.vcpu_type)
  <2> HIDE DEF digest, g, A, B, o, n
  <2>1. digest # Failed
    BY <1>12, FailedIs, GctxIs
  <2>2. g.ok /\ sev_es_reset_eip(o) # {} /\ digest = Gctx(g.ld \o FlattenSeq(A))
    BY <1>7, <2>1
  <2>3. g = Gctx(file \o BootTable(n)) /\ IsAnyRead(o, file)
    BY <1>8, <2>2, FailedIs
  <2>4. (file \o BootTable(n)) \o FlattenSeq(A) = (Image[m] \o BootTable(m)) \o FlattenSeq(B)
    BY <1>9, <1>12, <2>2, <2>3, GctxIs
  <2>5. HasFooter(file) /\ HasFooter(Image[m])
    BY <1>3, <2>3, ImageHasFooter DEF IsAnyRead
  <2>6. IsBootTable(BootTable(n)) /\ BootTable(n) \in Seq(Nat)
        /\ IsBootTable(BootTable(m)) /\ BootTable(m) \in Seq(Nat)
    BY <1>4, BootTableIs
  <2>7. Closed(file \o BootTable(n)) /\ Closed(Image[m] \o BootTable(m))
    BY <1>2, <1>4, <2>5, <2>6, MeasuredIsClosed
  <2>8. eip \in Nat
    <3>1. sev_es_reset_eip(o) \subseteq Nat
      BY <2>3 DEF IsAnyRead, sev_es_reset_eip
    <3>2. eip \in sev_es_reset_eip(o)
      BY <2>2
    <3> QED
      BY <3>1, <3>2
  <2> HIDE DEF eip
  <2>9. /\ ArePlain(A) /\ Len(A) \in Nat \ {0} /\ (eip > 0 => Len(A) = n.vcpus)
        /\ IsArea(A[1], BSP_EIP, 0, n.vcpu_type, n.vmm)
    <3> DEFINE t == n.vcpu_type
               v == n.vmm
               c == n.vcpus
    <3>1. A = vmsa_pages(eip, t, v, c, 0)
      BY DEF A
    <3>2. t \in CpuTypes /\ v \in {"QEMU", "EC2", "KRUN"} /\ c \in Nat \ {0} /\ BSP_EIP \in Nat
      BY <1>5 DEF n
    <3> HIDE DEF t, v, c, A
    <3>3. PlainPages(A, eip, t, v, c)
      BY <2>8, <3>1, <3>2, PagesArePlain
    <3> QED
      BY <3>3 DEF PlainPages, t, v, c
  <2>a. m.vmm # "KRUN"
    <3> SUFFICES ASSUME m.vmm = "KRUN" PROVE FALSE
      OBVIOUS
    <3> DEFINE x == file \o BootTable(n)
               y == Image[m] \o BootTable(m)
    <3>1. x \in Seq(Nat) /\ y \in Seq(Nat) /\ x \o FlattenSeq(A) = y \o FlattenSeq(B)
      BY <2>4, <2>7 DEF Closed
    <3> HIDE DEF x, y
    <3>2. HasWidth(Nat, A, 12) /\ A[Len(A)][3] = 61440 /\ A[Len(A)][11] = 0
      <4>1. Len(A) \in 1 .. Len(A)
        BY <2>9
      <4> QED
        BY <2>9, <4>1, PlainWidth DEF ArePlain
    <3>3. HasWidth(Nat, B, 12) /\ Len(B) \in Nat \ {0}
          /\ (B[Len(B)][3] # 61440 \/ B[Len(B)][11] # 0)
      <4>1. Len(B) \in 1 .. m.vcpus
        BY <1>6
      <4>2. \A r \in 1 .. Len(B) : Len(B[r]) = 12
        BY <1>6 DEF IsLoaded
      <4>3. HasWidth(Nat, B, 12)
        BY <1>6, <4>2, FixedWidth
      <4>4. IsLoaded(B[Len(B)], m, 0, Len(B))
        BY <1>6, <4>1
      <4>5. Len(B) \in Nat \ {0}
        BY <1>6
      <4> QED
        BY <4>3, <4>4, <4>5 DEF IsLoaded
    <3>4. /\ HasWidth(Nat, A, 12) /\ Len(A) \in Nat \ {0}
          /\ HasWidth(Nat, B, 12) /\ Len(B) \in Nat \ {0}
      BY <2>9, <3>2, <3>3
    <3> DEFINE z == x \o FlattenSeq(A)
    <3>z. z = x \o FlattenSeq(A) /\ z = y \o FlattenSeq(B)
      BY <3>1
    <3> HIDE DEF z
    <3>5. z[Len(z) - 9] = A[Len(A)][3] /\ z[Len(z) - 1] = A[Len(A)][11]
      BY <3>1, <3>4, <3>z, LastFields, ZenonT(60)
    <3>6. z[Len(z) - 9] = B[Len(B)][3] /\ z[Len(z) - 1] = B[Len(B)][11]
      BY <3>1, <3>4, <3>z, LastFields, ZenonT(60)
    <3> QED
      BY <3>2, <3>3, <3>5, <3>6
  <2>10. /\ ArePlain(B) /\ Len(B) = m.vcpus
         /\ IsArea(B[1], BSP_EIP, 0, m.vcpu_type, m.vmm)
    <3> DEFINE t == m.vcpu_type
               v == m.vmm
               c == m.vcpus
               e == m.eip
    <3>1. B = vmsa_pages(e, t, v, c, 0) /\ e \in Nat /\ e > 0
      BY <1>6, <2>a
    <3>2. t \in CpuTypes /\ v \in {"QEMU", "EC2", "KRUN"} /\ c \in Nat \ {0} /\ BSP_EIP \in Nat
      BY <1>5, <1>6
    <3> HIDE DEF t, v, c, e, B
    <3>3. PlainPages(B, e, t, v, c)
      BY <3>1, <3>2, PagesArePlain
    <3> QED
      BY <3>1, <3>3 DEF PlainPages, t, v, c
  <2>11. /\ file \o BootTable(n) = Image[m] \o BootTable(m) /\ Len(A) = Len(B)
         /\ \A r \in 1 .. Len(A) : \A j \in 1 .. 12 : A[r][j] = B[r][j]
    <3> DEFINE x == file \o BootTable(n)
               y == Image[m] \o BootTable(m)
    <3>1. Closed(x) /\ Closed(y) /\ x \o FlattenSeq(A) = y \o FlattenSeq(B)
      BY <2>4, <2>7
    <3> HIDE DEF x, y
    <3>2. ArePlain(A) /\ ArePlain(B)
      BY <2>9, <2>10
    <3>3. x = y /\ SameAreas(A, B)
      BY <3>1, <3>2, AreasSplit
    <3> QED
      BY <3>3 DEF SameAreas, x, y
  <2>12. file = Image[m] /\ BootTable(n) = BootTable(m)
    BY <1>2, <1>4, <2>5, <2>6, <2>11, TablesSplit, ZenonT(60)
  <2>13. n.vcpus = m.vcpus
    BY <1>6, <1>10, <2>9, <2>10, <2>11, <2>12
  <2>14. ASSUME m.vmm = "QEMU" PROVE sig(n.vcpu_type) = sig(m.vcpu_type)
    <3> DEFINE a == A[1]
               b == B[1]
    <3>1. a[6] = b[6] /\ a[8] = b[8]
      <4>1. 1 \in 1 .. Len(A) /\ 6 \in 1 .. 12 /\ 8 \in 1 .. 12
        BY <2>9
      <4> QED
        BY <2>11, <4>1
    <3> HIDE DEF a, b
    <3>2. IsArea(a, BSP_EIP, 0, n.vcpu_type, n.vmm) /\ IsArea(b, BSP_EIP, 0, m.vcpu_type, m.vmm)
      BY <2>9, <2>10 DEF a, b
    <3>3. b[6] = 147 /\ b[8] = sig(m.vcpu_type)
      BY <2>14, <3>2 DEF IsArea, IsInit, Twelve
    <3>4. n.vmm = "QEMU"
      <4>1. n.vmm \in {"EC2", "KRUN"} => a[6] = 146
        BY <3>2 DEF IsArea, IsInit, Twelve
      <4> QED
        BY <1>5, <3>1, <3>3, <4>1 DEF n
    <3>5. a[8] = sig(n.vcpu_type)
      BY <3>2, <3>4 DEF IsArea, IsInit, Twelve
    <3> QED
      BY <3>1, <3>3, <3>5
  <2> QED
    BY <2>12, <2>13, <2>14, TableTells
<1>13. ASSUME n = m, m.vmm # "KRUN", file = Image[m] PROVE digest = Gctx(SevEsLoaded(m))
  <2>1. g = Gctx(Image[m] \o BootTable(m)) /\ sev_es_reset_eip(o) = {m.eip}
    <3>1. Boots(n) = Boots(m)
      BY <1>13
    <3> QED
      BY <1>10, <1>11, <1>13, <3>1
  <2>2. A = B
    BY <1>6, <1>10, <1>13
  <2> HIDE DEF g, A, B, o, digest
  <2> QED
    BY <1>7, <1>9, <2>1, <2>2, GctxIs
<1> QED
  BY <1>12, <1>13 DEF SevEsBinds

(* The digests of src/src/measurement/sev.rs: what an owner calculates is   *)
(* what the firmware measures for SEV exactly when the owner's file is the  *)
(* image and boots the same, and for SEV-ES only if the CPUs are as many    *)
(* and, with QEMU, of the same signature.  For any images, and any file     *)
(* that an owner may take for one.                                          *)
THEOREM SevDigestsAlwaysBind == Spec => []SevDigestsBind
<1>1. ASSUME Inv PROVE SevDigestsBind
  <2>1. machine \in Machines
    BY <1>1 DEF Inv, Types
  <2>2. ASSUME NEW i \in Inputs
        PROVE  SevBinds(i, machine) /\ SevEsBinds(i, machine)
    BY <2>1, SevIsBound, SevEsIsBound
  <2>3. ASSUME \A i \in Inputs : SevBinds(i, machine) /\ SevEsBinds(i, machine)
        PROVE  SevDigestsBind
    <3> SUFFICES ASSUME NEW c \in SevCalculated
                 PROVE  LET i == c[1]
                            boots == i.args.ovmf_file = Image[machine] /\ Boots(i.machine) = Boots(machine)
                        IN  /\ c[2] = Gctx(SevLoaded(machine)) <=> boots
                            /\ c[3] = Gctx(SevEsLoaded(machine)) =>
                                 /\ boots
                                 /\ i.machine.vcpus = machine.vcpus
                                 /\ machine.vmm = "QEMU" => sig(i.machine.vcpu_type) = sig(machine.vcpu_type)
                            /\ i.machine = machine /\ machine.vmm # "KRUN"
                                 /\ i.args.ovmf_file = Image[machine]
                                 => c[3] = Gctx(SevEsLoaded(machine))
      BY DEF SevDigestsBind
    <3>1. PICK i \in Inputs :
            c = <<i, sev_calc_launch_digest(i.args), seves_calc_launch_digest(i.args)>>
      BY DEF SevCalculated
    <3>2. c[1] = i /\ c[2] = sev_calc_launch_digest(i.args) /\ c[3] = seves_calc_launch_digest(i.args)
      BY <3>1
    <3>3. SevBinds(i, machine) /\ SevEsBinds(i, machine)
      BY <2>3
    <3> QED
      BY <3>2, <3>3, Zenon DEF SevBinds, SevEsBinds
  <2> QED
    BY <2>2, <2>3
<1> QED
  BY <1>1, Invariant, PTL

-----------------------------------------------------------------------------
(* What a digest tells of an SNP launch. *)

(* A sequence of save areas' pages. *)
AreVmsas(V) == V \in Seq(PageInfos) /\ \A j \in 1 .. Len(V) : V[j].page_type = "Vmsa"

(* Pages of save areas are of their type. *)
LEMMA VmsaPagesAre ==
  ASSUME NEW areas, VmsaPages(areas) \in Seq(PageInfos), Len(areas) \in Nat
  PROVE  AreVmsas(VmsaPages(areas))
<1>1. Len(VmsaPages(areas)) = Len(areas)
  BY DEF VmsaPages
<1>2. ASSUME NEW j \in 1 .. Len(areas) PROVE VmsaPages(areas)[j].page_type = "Vmsa"
  BY PageInfoIs DEF VmsaPages
<1> QED
  BY <1>1, <1>2 DEF AreVmsas

(* The type of save areas, for any reset vector. *)
LEMMA AnyAreas ==
  ASSUME NEW n, IsMachine(n), NEW eip \in Nat, BSP_EIP \in Nat
  PROVE  vmsa_pages(eip, n.vcpu_type, n.vmm, n.vcpus, n.features) \in Seq(Seq(Nat))
<1> DEFINE bsp == build_save_area(BSP_EIP, n.features, n.vcpu_type, n.vmm, n.vcpus)
           ap == build_save_area(eip, n.features, n.vcpu_type, n.vmm, n.vcpus)
           count == IF eip > 0 \/ n.vcpus = 0 THEN n.vcpus ELSE 1
<1>1. /\ n.features \in Nat /\ n.vcpu_type \in CpuTypes /\ n.vmm \in {"QEMU", "EC2", "KRUN"}
      /\ n.vcpus \in Nat \ {0}
  BY DEF IsMachine
<1>2. bsp \in Seq(Nat) /\ ap \in Seq(Nat)
  BY <1>1, SaveAreaIs
<1>3. vmsa_pages(eip, n.vcpu_type, n.vmm, n.vcpus, n.features)
        = [i \in 1 .. count |-> IF i = 1 THEN bsp ELSE ap]
  BY Zenon DEF vmsa_pages
<1>4. count \in Nat
  BY <1>1
<1> HIDE DEF bsp, ap, count
<1> QED
  BY <1>2, <1>3, <1>4

(* What is calculated with any file, if its hash is that of n's image:      *)
(* n's image, pages that are no save areas, and save areas.                 *)
IsDigest(ld, n, o) ==
  \E y, V : /\ ld = (ImagePages(n) \o y) \o V /\ IsRest(y, n, o) /\ AreVmsas(V)
            /\ n.kernel # None => HasNormal(y)

(* What is calculated from any file beside a right hash: the image, pages   *)
(* that are no save areas, save areas.                                      *)
LEMMA DigestIsAny ==
  ASSUME NEW n \in DOMAIN Image, NEW file \in Seq(Nat), NEW hash,
         hash = {calc_snp_ovmf_hash(Image[n]).ld} \/ (hash = {} /\ file = Image[n]),
         NEW ld, snp_calc_launch_digest(Args(n, file, hash)) = Gctx(ld)
  PROVE  IsDigest(ld, n, OVMF_new(file))
<1> DEFINE args == Args(n, file, hash)
           ovmf == OVMF_new(args.ovmf_file)
           vmm == IF args.vmm = "none" THEN "QEMU" ELSE args.vmm
           begun == IF args.ovmf_hash = {} THEN Flash(ovmf)
                    ELSE Gctx(CHOOSE d \in args.ovmf_hash : TRUE)
           hashes == IF args.kernel = None THEN {}
                     ELSE {SevHashes(args.kernel, args.initrd, args.append)}
           pages == snp_update_metadata_pages(begun, ovmf, hashes, vmm)
           eip == CHOOSE e \in sev_es_reset_eip(ovmf) : TRUE
           areas == vmsa_pages(eip, args.vcpu_type, vmm, args.vcpus, args.features)
           f == CHOOSE e : e = [k \in 0 .. Len(areas) |->
                  IF k = 0 THEN pages ELSE update_page(e[k - 1], "Vmsa", VMSA_GPA, areas[k], 0)]
<1>1. snp_calc_launch_digest(args) =
        IF ovmf.ok /\ begun.ok /\ pages.ok /\ sev_es_reset_eip(ovmf) # {} THEN f[Len(areas)] ELSE Failed
  BY Zenon DEF snp_calc_launch_digest
<1>2. /\ args.ovmf_file = file /\ args.ovmf_hash = hash /\ args.kernel = n.kernel
      /\ args.initrd = n.initrd /\ args.append = n.append /\ args.vcpus = n.vcpus
      /\ args.vcpu_type = n.vcpu_type /\ args.features = n.features
      /\ args.vmm = IF n.vmm = "QEMU" THEN "none" ELSE n.vmm
  BY DEF Args
<1>0. snp_calc_launch_digest(args) = Gctx(ld)
  OBVIOUS
<1> HIDE DEF args
<1>3. IsMachine(n) /\ ovmf = OVMF_new(file)
  BY <1>2, MachineIsRead
<1>4. vmm = n.vmm
  BY <1>2, <1>3 DEF IsMachine
<1>5. hashes = BootHashes(n)
  BY <1>2 DEF BootHashes
<1>6. begun = Gctx(ImagePages(n))
  <2>1. Flash(OVMF_new(Image[n])) = Gctx(ImagePages(n)) /\ calc_snp_ovmf_hash(Image[n]).ld = ImagePages(n)
    BY FlashMeasured, GctxIs
  <2>2. CASE hash = {} /\ file = Image[n]
    BY <1>2, <2>1, <2>2
  <2>3. CASE hash = {ImagePages(n)}
    BY <1>2, <2>3
  <2> QED
    BY <2>1, <2>2, <2>3
<1>7. ImagePages(n) \in Seq(PageInfos)
  BY ImagePagesIn
<1> HIDE DEF vmm, hashes, begun, ovmf, f, pages
<1>8. Gctx(ld) # Failed
  BY GctxIs, FailedIs
<1>9. ovmf.ok /\ pages.ok /\ sev_es_reset_eip(ovmf) # {} /\ f[Len(areas)] = Gctx(ld)
  BY <1>0, <1>1, <1>8
<1>10. IsAnyRead(ovmf, file)
  BY <1>3, <1>9, FileIsRead, FailedIs
<1>11. Adds(pages, ImagePages(n), n, ovmf, n.kernel # None)
  BY <1>3, <1>4, <1>5, <1>6, <1>7, <1>10, RestMeasured DEF pages
<1>12. PICK y : IsRest(y, n, ovmf) /\ pages = Gctx(ImagePages(n) \o y) /\ (n.kernel # None => HasNormal(y))
  BY <1>9, <1>11, FailedIs DEF Adds
<1> DEFINE x == ImagePages(n) \o y
<1>13. x \in Seq(PageInfos)
  BY <1>7, <1>12 DEF IsRest
<1>14. pages = Gctx(x)
  BY <1>12
<1> HIDE DEF x
<1>15. eip \in Nat
  <2>1. sev_es_reset_eip(ovmf) \subseteq Nat
    BY <1>10, Zenon DEF IsAnyRead, sev_es_reset_eip
  <2> QED
    BY <1>9, <2>1
<1> HIDE DEF eip
<1>16. BSP_EIP \in Nat
  BY <1>3, AreaIn
<1>17. areas \in Seq(Seq(Nat))
  BY <1>2, <1>3, <1>4, <1>15, <1>16, AnyAreas
<1> HIDE DEF areas
<1>18. IsExtended(f, areas, x)
  <2>1. f = CHOOSE e : e = [k \in 0 .. Len(areas) |->
               IF k = 0 THEN Gctx(x) ELSE update_page(e[k - 1], "Vmsa", VMSA_GPA, areas[k], 0)]
    BY <1>14, Zenon DEF f
  <2> QED
    BY <2>1, Zenon DEF IsExtended
<1>19. Gctx(ld) = Gctx(x \o VmsaPages(areas)) /\ VmsaPages(areas) \in Seq(PageInfos)
  BY <1>9, <1>13, <1>17, <1>18, AreasExtend
<1>20. ld = x \o VmsaPages(areas)
  BY <1>19, GctxIs
<1>21. AreVmsas(VmsaPages(areas))
  BY <1>17, <1>19, VmsaPagesAre
<1> QED
  BY <1>3, <1>12, <1>20, <1>21 DEF IsDigest, x

(* The pages p are the first of z. *)
Begins(z, p) ==
  /\ z \in Seq(PageInfos) /\ p \in Seq(PageInfos) /\ Len(p) <= Len(z)
  /\ \A j \in 1 .. Len(p) : z[j] = p[j]

(* All is a beginning. *)
LEMMA BeginsWhole ==
  ASSUME NEW z \in Seq(PageInfos)
  PROVE  Begins(z, z)
BY DEF Begins

(* A beginning of a beginning. *)
LEMMA BeginsOn ==
  ASSUME NEW z, NEW p, NEW q, Begins(z, p), Begins(p, q)
  PROVE  Begins(z, q)
<1>1. /\ z \in Seq(PageInfos) /\ p \in Seq(PageInfos) /\ q \in Seq(PageInfos)
      /\ Len(p) <= Len(z) /\ Len(q) <= Len(p)
  BY DEF Begins
<1>2. Len(z) \in Nat /\ Len(p) \in Nat /\ Len(q) \in Nat
  BY <1>1
<1>3. ASSUME NEW j \in 1 .. Len(q) PROVE z[j] = q[j]
  <2>1. j \in 1 .. Len(p)
    BY <1>1, <1>2
  <2> QED
    BY <2>1 DEF Begins
<1> QED
  BY <1>1, <1>2, <1>3 DEF Begins

(* The first of two parts is a beginning. *)
LEMMA BeginsWith ==
  ASSUME NEW x \in Seq(PageInfos), NEW y \in Seq(PageInfos), NEW z, z = x \o y
  PROVE  Begins(z, x)
<1>1. Parts(PageInfos, z, x, y)
  BY PartsOf
<1> QED
  BY <1>1 DEF Parts, Begins

(* A beginning of the same length is all. *)
LEMMA BeginsEqual ==
  ASSUME NEW z, NEW p, Begins(z, p), Len(p) = Len(z)
  PROVE  p = z
BY SeqEqual DEF Begins

(* Two beginnings of the same length. *)
LEMMA BeginsSame ==
  ASSUME NEW z, NEW p, Begins(z, p), NEW q, Begins(z, q), Len(p) = Len(q)
  PROVE  p = q
<1>1. \A j \in 1 .. Len(p) : p[j] = q[j]
  BY DEF Begins
<1> QED
  BY <1>1, SeqEqual DEF Begins

(* Sequences of pages, each the beginning of the next. *)
Grows(f, N) ==
  /\ f[0] \in Seq(PageInfos)
  /\ \A n \in 1 .. N : Begins(f[n], f[n - 1])

(* What grows step by step begins with what was before. *)
LEMMA GrowsOn ==
  ASSUME NEW N \in Nat, NEW f, Grows(f, N), NEW a \in 0 .. N, NEW b \in a .. N
  PROVE  Begins(f[b], f[a])
<1> DEFINE S == {n \in 0 .. N : \A k \in 0 .. n : Begins(f[n], f[k])}
<1>1. 0 \in S
  <2>1. \A k \in 0 .. 0 : k = 0
    OBVIOUS
  <2>2. Begins(f[0], f[0])
    BY BeginsWhole DEF Grows
  <2> QED
    BY <2>1, <2>2
<1>2. ASSUME NEW n \in S, n \in Nat, n < N PROVE n + 1 \in S
  <2>1. n + 1 \in 1 .. N /\ n + 1 \in 0 .. N /\ (n + 1) - 1 = n
    BY <1>2
  <2>2. Begins(f[n + 1], f[n])
    BY <2>1 DEF Grows
  <2>3. f[n + 1] \in Seq(PageInfos)
    BY <2>2 DEF Begins
  <2>4. ASSUME NEW k \in 0 .. n + 1 PROVE Begins(f[n + 1], f[k])
    <3>1. CASE k = n + 1
      BY <2>3, <3>1, BeginsWhole
    <3>2. CASE k # n + 1
      <4>1. k \in 0 .. n
        BY <1>2, <3>2
      <4>2. Begins(f[n], f[k])
        BY <4>1
      <4> QED
        BY <2>2, <4>2, BeginsOn
    <3> QED
      BY <3>1, <3>2
  <2> QED
    BY <2>1, <2>4
<1> HIDE DEF S
<1>3. 0 .. N \subseteq S
  BY <1>1, <1>2, InductionTo
<1>4. b \in S /\ a \in 0 .. b
  BY <1>3
<1> QED
  BY <1>4 DEF S

(* What the VMM has loaded are the first pages of its regions, and all of   *)
(* them only at the end.                                                    *)
LEMMA LoadedBegins ==
  ASSUME NEW m \in Machines, NEW a, NEW b \in Nat, NEW ld, LoadOK(ld, a, b, m)
  PROVE  /\ Begins(FlattenSeq(Regions(m)), ld)
         /\ Len(ld) = Len(FlattenSeq(Regions(m))) => a = Len(Regions(m)) + 1 /\ b = 0
<1> DEFINE R == Regions(m)
           N == Len(R)
           F == FlattenSeq(R)
           f == Upto(R)
<1>1. /\ N \in Nat /\ f[0] = <<>> /\ f[N] = F
      /\ \A r \in 1 .. N : R[r] \in Seq(PageInfos) /\ f[r] = f[r - 1] \o R[r]
      /\ \A r \in 0 .. N : f[r] \in Seq(PageInfos)
  BY RegionFacts
<1>2. LoadOK(ld, a, b, m) <=>
        \/ a = N + 1 /\ b = 0 /\ ld = f[N]
        \/ a \in 1 .. N /\ \E e \in Nat : b + e < Len(R[a]) /\ ld = f[a - 1] \o SubSeq(R[a], 1, b + e)
  BY DEF LoadOK
<1> HIDE DEF R, N, F, f
<1>3. Grows(f, N)
  <2>1. 0 \in 0 .. N /\ \A r \in 1 .. N : r - 1 \in 0 .. N
    BY <1>1
  <2>2. ASSUME NEW r \in 1 .. N PROVE Begins(f[r], f[r - 1])
    BY <1>1, <2>1, BeginsWith
  <2> QED
    BY <1>1, <2>1, <2>2 DEF Grows
<1>4. CASE a = N + 1 /\ b = 0 /\ ld = f[N]
  <2>1. F \in Seq(PageInfos)
    BY <1>1
  <2> QED
    BY <1>1, <1>4, <2>1, BeginsWhole DEF F, R, N
<1>5. ASSUME a \in 1 .. N, NEW e \in Nat, b + e < Len(R[a]), ld = f[a - 1] \o SubSeq(R[a], 1, b + e)
      PROVE  Begins(F, ld) /\ Len(ld) # Len(F)
  <2> DEFINE u == f[a - 1]
             s == R[a]
             k == b + e
             z == f[a]
  <2>1. u \in Seq(PageInfos) /\ s \in Seq(PageInfos) /\ k \in Nat /\ k < Len(s) /\ z = u \o s
        /\ ld = u \o SubSeq(s, 1, k)
    <3>1. a - 1 \in 0 .. N /\ a \in 1 .. N
      BY <1>1, <1>5
    <3>2. u \in Seq(PageInfos) /\ s \in Seq(PageInfos) /\ z = u \o s
      BY <1>1, <3>1
    <3>3. k \in Nat /\ k < Len(s)
      BY <1>5
    <3>4. ld = u \o SubSeq(s, 1, k)
      BY <1>5, Zenon
    <3> QED
      BY <3>2, <3>3, <3>4
  <2>2. Begins(F, z)
    <3>1. a \in 0 .. N /\ N \in a .. N
      BY <1>1, <1>5
    <3> QED
      BY <1>1, <1>3, <3>1, GrowsOn
  <2> HIDE DEF u, s, k, z
  <2>3. Begins(z, ld) /\ Len(ld) < Len(z)
    <3> DEFINE t == SubSeq(s, 1, k)
    <3>1. t \in Seq(PageInfos) /\ Len(t) = k /\ \A j \in 1 .. k : t[j] = s[j]
      <4>1. k \in 0 .. Len(s)
        BY <2>1
      <4> QED
        BY <2>1, <4>1, Prefix
    <3> HIDE DEF t
    <3>2. Parts(PageInfos, z, u, s) /\ Parts(PageInfos, ld, u, t)
      BY <2>1, <3>1, PartsOf DEF t
    <3>3. Len(z) = Len(u) + Len(s) /\ Len(ld) = Len(u) + k /\ Len(u) \in Nat /\ Len(s) \in Nat
      BY <3>1, <3>2 DEF Parts
    <3>4. ASSUME NEW j \in 1 .. Len(ld) PROVE z[j] = ld[j]
      <4>1. CASE j \in 1 .. Len(u)
        BY <3>2, <4>1 DEF Parts
      <4>2. CASE j \notin 1 .. Len(u)
        <5> DEFINE i == j - Len(u)
        <5>1. i \in 1 .. k /\ i \in 1 .. Len(s) /\ j = Len(u) + i
          BY <2>1, <3>3, <4>2
        <5> HIDE DEF i
        <5> QED
          BY <3>1, <3>2, <5>1 DEF Parts
      <4> QED
        BY <4>1, <4>2
    <3> QED
      BY <2>1, <3>2, <3>3, <3>4 DEF Begins, Parts
  <2>4. Begins(F, ld)
    BY <2>2, <2>3, BeginsOn
  <2>5. Len(z) <= Len(F) /\ Len(z) \in Nat /\ Len(F) \in Nat /\ Len(ld) \in Nat
    BY <2>2, <2>3 DEF Begins
  <2> QED
    BY <2>3, <2>4, <2>5
<1> QED
  BY <1>2, <1>4, <1>5 DEF F, R, N

(* Pages that are no save areas, and then save areas: only one way. *)
NoVmsas(x) == x \in Seq(PageInfos) /\ \A j \in 1 .. Len(x) : x[j].page_type # "Vmsa"

(* Save areas begin nowhere before the end of the other pages. *)
LEMMA VmsasNotBefore ==
  ASSUME NEW x, NoVmsas(x), NEW V, AreVmsas(V), NEW q, NoVmsas(q), NEW W, AreVmsas(W),
         x \o V = q \o W
  PROVE  ~ (Len(x) < Len(q))
<1> DEFINE z == x \o V
<1>1. Parts(PageInfos, z, x, V) /\ Parts(PageInfos, z, q, W)
  BY PartsOf DEF NoVmsas, AreVmsas
<1> HIDE DEF z
<1>2. SUFFICES ASSUME Len(x) < Len(q) PROVE FALSE
  OBVIOUS
<1> DEFINE j == Len(x) + 1
<1>3. /\ Len(x) \in Nat /\ Len(V) \in Nat /\ Len(q) \in Nat /\ Len(W) \in Nat
      /\ Len(x) + Len(V) = Len(q) + Len(W)
  BY <1>1 DEF Parts
<1>4. 1 \in 1 .. Len(V) /\ j \in 1 .. Len(q)
  BY <1>2, <1>3
<1>5. z[j] = V[1] /\ z[j] = q[j]
  BY <1>1, <1>4 DEF Parts
<1> QED
  BY <1>4, <1>5 DEF NoVmsas, AreVmsas

(* So pages and save areas can be cut in one way. *)
LEMMA VmsasSplit ==
  ASSUME NEW x, NoVmsas(x), NEW V, AreVmsas(V), NEW q, NoVmsas(q), NEW W, AreVmsas(W),
         x \o V = q \o W
  PROVE  x = q /\ V = W
<1>1. ~ (Len(x) < Len(q)) /\ ~ (Len(q) < Len(x))
  BY VmsasNotBefore
<1>2. Len(x) \in Nat /\ Len(q) \in Nat
  BY DEF NoVmsas
<1>3. Len(x) = Len(q)
  BY <1>1, <1>2
<1>4. x \in Seq(PageInfos) /\ q \in Seq(PageInfos) /\ V \in Seq(PageInfos) /\ W \in Seq(PageInfos)
  BY DEF NoVmsas, AreVmsas
<1> HIDE DEF PageInfos
<1> QED
  BY <1>3, <1>4, SameParts, Zenon

(* An image is its pages. *)
LEMMA SamePages ==
  ASSUME NEW d \in Seq(Nat), NEW e \in Seq(Nat), NEW L \in Nat, L = Len(d), L = Len(e), L % PAGE = 0,
         \A i \in 1 .. L \div PAGE : PageOf(d, i) = PageOf(e, i)
  PROVE  d = e
<1>1. PAGE \in Nat \ {0}
  BY PageAssumption
<1>2. ASSUME NEW k \in 1 .. L PROVE d[k] = e[k]
  <2> DEFINE q == (k - 1) \div PAGE
             r == (k - 1) % PAGE
             c == L \div PAGE
             h == q * PAGE
  <2>1. k - 1 = PAGE * q + r /\ q \in Nat /\ r \in 0 .. PAGE - 1
    <3> DEFINE p == k - 1
    <3>1. p \in Nat
      OBVIOUS
    <3> HIDE DEF p
    <3>2. p = PAGE * (p \div PAGE) + (p % PAGE) /\ p \div PAGE \in Nat /\ p % PAGE \in 0 .. PAGE - 1
      BY <1>1, <3>1, DivMod
    <3> QED
      BY <3>2 DEF p
  <2>2. L = PAGE * c /\ c \in Nat
    <3>1. L = PAGE * c + (L % PAGE) /\ c \in Nat
      BY <1>1, DivMod
    <3> QED
      BY <1>1, <3>1
  <2> HIDE DEF q, r, c
  <2>3. q < c
    <3>1. SUFFICES ASSUME q >= c PROVE FALSE
      BY <2>1, <2>2
    <3>2. PAGE * q >= PAGE * c
      BY <1>1, <2>1, <2>2, <3>1
    <3> QED
      BY <1>1, <2>1, <2>2, <3>2
  <2> DEFINE i == q + 1
  <2>4. i \in 1 .. c /\ i - 1 = q
    BY <2>1, <2>2, <2>3
  <2> HIDE DEF i
  <2>5. /\ Len(PageOf(d, i)) = PAGE /\ PieceAt(d, (i - 1) * PAGE, PageOf(d, i))
        /\ Len(PageOf(e, i)) = PAGE /\ PieceAt(e, (i - 1) * PAGE, PageOf(e, i))
    BY <2>4, PageOfIs DEF c
  <2>6. PageOf(d, i) = PageOf(e, i)
    BY <2>4 DEF c
  <2>7. h = PAGE * q /\ h \in Nat
    BY <1>1, <2>1
  <2>8. PieceAt(d, h, PageOf(d, i)) /\ PieceAt(e, h, PageOf(d, i))
    BY <2>4, <2>5, <2>6
  <2> HIDE DEF h
  <2>9. r + 1 \in 1 .. Len(PageOf(d, i)) /\ k = h + (r + 1)
    BY <1>1, <2>1, <2>5, <2>7
  <2> QED
    BY <2>8, <2>9 DEF PieceAt
<1> QED
  BY <1>2, SeqEqual

(* Type, address and contents of an image's page. *)
LEMMA ImagePageIs ==
  ASSUME NEW m \in DOMAIN Image, NEW i \in 1 .. Len(ImagePages(m))
  PROVE  /\ ImagePages(m)[i].page_type = "Normal"
         /\ ImagePages(m)[i].gpa = FOUR_GB - Len(Image[m]) + (i - 1) * PAGE
         /\ ImagePages(m)[i].contents = PageOf(Image[m], i)
<1>1. i \in 1 .. Len(Image[m]) \div PAGE
  BY ImageHasPages
<1> DEFINE g == FOUR_GB - Len(Image[m]) + (i - 1) * PAGE
           c == PageOf(Image[m], i)
<1>2. ImagePages(m)[i] = PageInfo("Normal", g, c)
  BY <1>1 DEF ImagePages
<1> HIDE DEF g, c
<1>3. ImagePages(m)[i].page_type = "Normal" /\ ImagePages(m)[i].gpa = g /\ ImagePages(m)[i].contents = c
  BY <1>2, PageInfoIs
<1> QED
  BY <1>3 DEF g, c

(* What is measured begins with an image, whose address tells its length.   *)
LEMMA SameImage ==
  ASSUME NEW m \in DOMAIN Image, NEW n \in DOMAIN Image, NEW y \in Seq(PageInfos), NEW u \in Seq(PageInfos),
         Begins(ImagePages(m) \o u, ImagePages(n) \o y)
  PROVE  Image[n] = Image[m] /\ ImagePages(n) = ImagePages(m)
<1> DEFINE a == ImagePages(m)
           b == ImagePages(n)
           z == a \o u
           w == b \o y
           L == Len(Image[m])
           K == Len(Image[n])
<1>1. a \in Seq(PageInfos) /\ b \in Seq(PageInfos)
  BY ImagePagesIn
<1>2. /\ Len(a) = L \div PAGE /\ Len(a) \in Nat \ {0} /\ Len(b) = K \div PAGE /\ Len(b) \in Nat \ {0}
      /\ L \in Nat /\ K \in Nat /\ L % PAGE = 0
      /\ Image[m] \in Seq(Nat) /\ Image[n] \in Seq(Nat)
  BY ImageHasPages, MachineIsRead
<1>3. Parts(PageInfos, z, a, u) /\ Parts(PageInfos, w, b, y)
  BY <1>1, PartsOf
<1>4. Begins(z, w)
  OBVIOUS
<1>5. \A i \in 1 .. Len(a) : a[i].gpa = FOUR_GB - L + (i - 1) * PAGE /\ a[i].contents = PageOf(Image[m], i)
  BY ImagePageIs
<1>6. \A i \in 1 .. Len(b) : b[i].gpa = FOUR_GB - K + (i - 1) * PAGE /\ b[i].contents = PageOf(Image[n], i)
  BY ImagePageIs
<1> HIDE DEF a, b, z, w, L, K
<1>7. ASSUME NEW i \in 1 .. Len(a), i \in 1 .. Len(b) PROVE a[i] = b[i]
  <2>1. i \in 1 .. Len(w)
    <3>1. Len(w) = Len(b) + Len(y) /\ Len(b) \in Nat /\ Len(y) \in Nat
      BY <1>3 DEF Parts
    <3> QED
      BY <1>7, <3>1
  <2> QED
    BY <1>3, <1>4, <1>7, <2>1 DEF Parts, Begins
<1>8. L = K
  <2>1. 1 \in 1 .. Len(a) /\ 1 \in 1 .. Len(b)
    BY <1>2
  <2>2. a[1].gpa = b[1].gpa
    BY <1>7, <2>1
  <2>3. a[1].gpa = FOUR_GB - L /\ b[1].gpa = FOUR_GB - K
    BY <1>2, <1>5, <1>6, <2>1, PageAssumption
  <2>4. FOUR_GB - L = FOUR_GB - K /\ FOUR_GB \in Nat /\ L \in Nat /\ K \in Nat
    BY <1>2, <2>2, <2>3, PageAssumption
  <2> QED
    BY <2>4
<1>9. Len(a) = Len(b)
  BY <1>2, <1>8
<1>10. a = b
  BY <1>1, <1>7, <1>9, SeqEqual
<1>11. \A i \in 1 .. L \div PAGE : PageOf(Image[m], i) = PageOf(Image[n], i)
  BY <1>2, <1>5, <1>6, <1>9, <1>10
<1>12. Image[m] = Image[n]
  BY <1>2, <1>8, <1>11, SamePages DEF L, K
<1> QED
  BY <1>10, <1>12 DEF a, b

(* The rest of a machine's pages. *)
LEMMA RestIsOf ==
  ASSUME NEW m \in DOMAIN Image, m.kernel # None => HasHashes(m)
  PROVE  /\ m \in DOMAIN Image /\ IsMachine(m) /\ (m.kernel # None => HasHashes(m))
         /\ IsRest(Pages(m, Descs(m)), m, OVMF_new(Image[m]))
         /\ m.kernel # None => HasNormal(Pages(m, Descs(m)))
<1> DEFINE o == OVMF_new(Image[m])
           ld == ImagePages(m)
           P == Pages(m, Descs(m))
           g == snp_update_metadata_pages(Gctx(ld), o, BootHashes(m), m.vmm)
<1>1. m \in DOMAIN Image /\ (m.kernel # None => HasHashes(m))
  OBVIOUS
<1>2. IsMachine(m) /\ IsRead(o, Image[m], m) /\ Image[m] \in Seq(Nat)
  BY <1>1, MachineIsRead
<1>3. ld \in Seq(PageInfos) /\ Descs(m) \in Seq(DescsOf(m.sections))
  BY <1>1, ImagePagesIn, RegionsAre
<1>4. P \in Seq(PageInfos)
  BY <1>2, <1>3, RegionsOf
<1>5. IsAnyRead(o, Image[m])
  BY <1>2, FileIsRead, FailedIs DEF IsRead
<1> HIDE DEF o, ld
<1>6. g = Gctx(ld \o P)
  BY <1>1, <1>2, <1>3, SectionsMeasured
<1>7. Adds(g, ld, m, o, m.kernel # None)
  BY <1>2, <1>3, <1>5, RestMeasured
<1> HIDE DEF P, g
<1>8. g # Failed
  BY <1>6, GctxIs, FailedIs
<1>9. PICK y : IsRest(y, m, o) /\ g = Gctx(ld \o y) /\ (m.kernel # None => HasNormal(y))
  BY <1>7, <1>8 DEF Adds
<1>10. ld \o P = ld \o y
  BY <1>6, <1>9, GctxIs
<1>11. P = y
  <2>1. y \in Seq(PageInfos)
    BY <1>9 DEF IsRest
  <2> HIDE DEF PageInfos
  <2> QED
    BY <1>3, <1>4, <1>10, <2>1, SameParts, Zenon
<1> QED
  BY <1>1, <1>2, <1>9, <1>11 DEF P, o

(* What follows the image of a machine, of which the table of hashes is     *)
(* part if there is a kernel.                                               *)
LEMMA RestIs ==
  ASSUME NEW m \in Machines
  PROVE  /\ m \in DOMAIN Image /\ IsMachine(m) /\ (m.kernel # None => HasHashes(m))
         /\ IsRest(Pages(m, Descs(m)), m, OVMF_new(Image[m]))
         /\ m.kernel # None => HasNormal(Pages(m, Descs(m)))
<1>1. m \in DOMAIN Image /\ (m.kernel # None => HasHashes(m))
  BY MachinesAssumption
<1> QED
  BY <1>1, RestIsOf

(* There is no save area among image and sections. *)
LEMMA PagesHaveNoVmsas ==
  ASSUME NEW n \in DOMAIN Image, NEW m, NEW o, NEW y, IsRest(y, m, o)
  PROVE  NoVmsas(ImagePages(n) \o y)
<1> DEFINE x == ImagePages(n)
           z == x \o y
<1>1. x \in Seq(PageInfos) /\ y \in Seq(PageInfos)
  BY ImagePagesIn DEF IsRest
<1>2. Parts(PageInfos, z, x, y)
  BY <1>1, PartsOf
<1>3. \A j \in 1 .. Len(x) : x[j].page_type = "Normal"
  BY ImagePageIs
<1> HIDE DEF x, z
<1>4. Len(z) = Len(x) + Len(y) /\ Len(x) \in Nat /\ Len(y) \in Nat /\ z \in Seq(PageInfos)
  BY <1>2 DEF Parts
<1>5. ASSUME NEW j \in 1 .. Len(z) PROVE z[j].page_type # "Vmsa"
  <2>1. CASE j \in 1 .. Len(x)
    BY <1>2, <1>3, <2>1 DEF Parts
  <2>2. CASE j \notin 1 .. Len(x)
    <3> DEFINE i == j - Len(x)
    <3>1. i \in 1 .. Len(y) /\ j = Len(x) + i
      BY <1>4, <2>2
    <3> HIDE DEF i
    <3> QED
      BY <1>2, <3>1 DEF Parts, IsRest
  <2> QED
    BY <2>1, <2>2
<1> QED
  BY <1>4, <1>5 DEF NoVmsas, x, z

(* The save areas are such pages, as they are loaded and as calculated. *)
LEMMA AreasAreVmsas ==
  ASSUME NEW m, IsMachine(m)
  PROVE  AreVmsas(SaveAreas(m)) /\ AreVmsas(AreaPages(m))
<1>1. /\ SaveAreas(m) \in Seq(PageInfos) /\ Len(SaveAreas(m)) = m.vcpus
      /\ \A j \in 1 .. m.vcpus : SaveAreas(m)[j].page_type = "Vmsa"
  BY SaveAreasAre
<1>2. /\ AreaPages(m) = [i \in 1 .. m.vcpus |-> PageInfo("Vmsa", VMSA_GPA, Area(m, i))]
      /\ AreaPages(m) \in Seq(PageInfos) /\ Len(AreaPages(m)) = m.vcpus
  BY AreaPagesAre
<1>3. ASSUME NEW j \in 1 .. m.vcpus PROVE AreaPages(m)[j].page_type = "Vmsa"
  <2>1. AreaPages(m)[j] = PageInfo("Vmsa", VMSA_GPA, Area(m, j))
    BY <1>2, Zenon
  <2> QED
    BY <2>1, PageInfoIs
<1> QED
  BY <1>1, <1>2, <1>3 DEF AreVmsas

(* A page with the table of the hashes h after r fields. *)
IsTablePage(c, h, r) ==
  \A i \in 1 .. PAGE :
    /\ i = r + 1 => c[i] = SEV_HASH_TABLE_HEADER_GUID
    /\ i = r + 2 => c[i] = h.cmdline
    /\ i = r + 3 => c[i] = h.initrd
    /\ i = r + 4 => c[i] = h.kernel
    /\ i \notin r + 1 .. r + 4 => c[i] = 0

(* construct_page puts the table at its offset, and cuts it at the page's   *)
(* end.                                                                     *)
LEMMA TablePageIs ==
  ASSUME NEW h, NEW r \in Nat
  PROVE  IsTablePage(construct_page(h, r), h, r)
<1> DEFINE t == construct_table(h)
           c == construct_page(h, r)
<1>1. Len(t) = 4 /\ t[1] = SEV_HASH_TABLE_HEADER_GUID /\ t[2] = h.cmdline /\ t[3] = h.initrd /\ t[4] = h.kernel
  BY DEF construct_table
<1>2. c = [i \in 1 .. PAGE |-> IF i > r /\ i <= r + Len(t) THEN t[i - r] ELSE 0]
  BY DEF construct_page
<1> HIDE DEF t, c
<1>3. \A i \in 1 .. PAGE : c[i] = IF i > r /\ i <= r + 4 THEN t[i - r] ELSE 0
  BY <1>1, <1>2
<1>4. ASSUME NEW i \in 1 .. PAGE
      PROVE  /\ i = r + 1 => c[i] = SEV_HASH_TABLE_HEADER_GUID
             /\ i = r + 2 => c[i] = h.cmdline
             /\ i = r + 3 => c[i] = h.initrd
             /\ i = r + 4 => c[i] = h.kernel
             /\ i \notin r + 1 .. r + 4 => c[i] = 0
  <2>1. /\ i = r + 1 => i > r /\ i <= r + 4 /\ i - r = 1
        /\ i = r + 2 => i > r /\ i <= r + 4 /\ i - r = 2
        /\ i = r + 3 => i > r /\ i <= r + 4 /\ i - r = 3
        /\ i = r + 4 => i > r /\ i <= r + 4 /\ i - r = 4
        /\ i \notin r + 1 .. r + 4 => ~ (i > r /\ i <= r + 4)
    BY PageAssumption
  <2> QED
    BY <1>1, <1>3, <2>1
<1> QED
  BY <1>4 DEF IsTablePage, c

(* A page with a whole table in it is that of no other hashes, at whichever *)
(* offset.                                                                  *)
LEMMA SameTable ==
  ASSUME NEW c, NEW h, NEW k, NEW r \in 0 .. PAGE - 1, NEW p \in Nat, p + 4 <= PAGE,
         IsTablePage(c, h, r), IsTablePage(c, k, p),
         {k.cmdline, k.initrd, k.kernel} \subseteq Hash
  PROVE  h.cmdline = k.cmdline /\ h.initrd = k.initrd /\ h.kernel = k.kernel
<1>1. /\ k.cmdline # SEV_HASH_TABLE_HEADER_GUID /\ k.initrd # SEV_HASH_TABLE_HEADER_GUID
      /\ k.kernel # SEV_HASH_TABLE_HEADER_GUID /\ SEV_HASH_TABLE_HEADER_GUID # 0
  BY DEF Hash, SEV_HASH_TABLE_HEADER_GUID
<1>2. r + 1 \in 1 .. PAGE /\ PAGE \in Nat
  BY PageAssumption
<1>3. c[r + 1] = SEV_HASH_TABLE_HEADER_GUID
  BY <1>2 DEF IsTablePage
<1>4. r = p
  <2>1. SUFFICES ASSUME r # p PROVE FALSE
    OBVIOUS
  <2>2. r + 1 # p + 1 /\ (r + 1 \in p + 1 .. p + 4 => r + 1 = p + 2 \/ r + 1 = p + 3 \/ r + 1 = p + 4)
    BY <2>1
  <2> DEFINE i == r + 1
  <2> HIDE DEF i
  <2>3. i \in 1 .. PAGE /\ c[i] = SEV_HASH_TABLE_HEADER_GUID /\ i # p + 1
        /\ (i \in p + 1 .. p + 4 => i = p + 2 \/ i = p + 3 \/ i = p + 4)
    BY <1>2, <1>3, <2>2 DEF i
  <2> QED
    BY <1>1, <2>3 DEF IsTablePage
<1>5. p + 2 \in 1 .. PAGE /\ p + 3 \in 1 .. PAGE /\ p + 4 \in 1 .. PAGE
  BY <1>2
<1> QED
  BY <1>4, <1>5 DEF IsTablePage

(* A page of hashes that one machine measures for another's is of the same  *)
(* kernel, initrd and command line.                                         *)
LEMMA SameBoots ==
  ASSUME NEW m \in Machines, TableFits(m), NEW n, NEW o, sev_hashes_table_gpa(o) \subseteq Nat,
         NEW c, IsHashPage(c, n, o), IsHashPage(c, m, OVMF_new(Image[m]))
  PROVE  Boots(n) = Boots(m)
<1> DEFINE h == SevHashes(n.kernel, n.initrd, n.append)
           k == SevHashes(m.kernel, m.initrd, m.append)
<1>1. n.kernel # None /\ m.kernel # None
  BY DEF IsHashPage
<1>2. PICK at \in sev_hashes_table_gpa(o) : c = construct_page(h, at % PAGE)
  BY DEF IsHashPage
<1>3. c = construct_page(k, m.hashes_gpa % PAGE)
  <2>1. HasHashes(m) /\ IsRead(OVMF_new(Image[m]), Image[m], m)
    BY <1>1, MachinesAssumption, MachineIsRead
  <2>2. sev_hashes_table_gpa(OVMF_new(Image[m])) = {m.hashes_gpa}
    BY <2>1 DEF IsRead
  <2> QED
    BY <2>2 DEF IsHashPage
<1>4. HasHashes(m) /\ IsMachine(m)
  BY <1>1, MachinesAssumption
<1>5. {k.cmdline, k.initrd, k.kernel} \subseteq Hash
  BY <1>1, <1>4 DEF IsMachine
<1> DEFINE r == at % PAGE
           p == m.hashes_gpa % PAGE
<1>6. r \in 0 .. PAGE - 1 /\ r \in Nat
  BY PageAssumption
<1>7. p \in Nat /\ p + 4 <= PAGE
  <2>1. m.hashes_gpa \in Nat
    BY <1>4 DEF IsMachine
  <2> QED
    BY <1>4, <2>1, PageAssumption DEF TableFits
<1> HIDE DEF h, k, r, p
<1>8. IsTablePage(c, h, r) /\ IsTablePage(c, k, p)
  BY <1>2, <1>3, <1>6, <1>7, TablePageIs DEF r, p
<1>9. h.cmdline = k.cmdline /\ h.initrd = k.initrd /\ h.kernel = k.kernel
  BY <1>5, <1>6, <1>7, <1>8, SameTable
<1>10. h = k
  BY <1>9 DEF h, k, SevHashes
<1> QED
  BY <1>1, <1>10 DEF Boots, h, k

(* Whatever file an owner has, a launch with the digest calculated for n's  *)
(* image has this image and, loaded to the end, boots what n boots.         *)
LEMMA HashBinds ==
  ASSUME NEW m \in Machines, TableFits(m), NEW n \in DOMAIN Image, NEW o,
         sev_hashes_table_gpa(o) \subseteq Nat,
         NEW q, Begins(FlattenSeq(Regions(m)), q), IsDigest(q \o SaveAreas(m), n, o)
  PROVE  /\ Image[n] = Image[m]
         /\ q = FlattenSeq(Regions(m)) => Boots(n) = Boots(m)
<1> DEFINE P == Pages(m, Descs(m))
           F == ImagePages(m) \o P
           om == OVMF_new(Image[m])
<1>1. /\ m \in DOMAIN Image /\ IsMachine(m) /\ IsRest(P, m, om) /\ (m.kernel # None => HasNormal(P))
  BY RestIs
<1>2. FlattenSeq(Regions(m)) = F
  BY <1>1, RegionsAre
<1>3. P \in Seq(PageInfos) /\ ImagePages(m) \in Seq(PageInfos) /\ ImagePages(n) \in Seq(PageInfos)
  BY <1>1, ImagePagesIn DEF IsRest
<1>4. NoVmsas(F)
  BY <1>1, PagesHaveNoVmsas
<1> HIDE DEF P, om
<1>5. NoVmsas(q)
  BY <1>2, <1>4 DEF Begins, NoVmsas
<1>6. PICK y, V : /\ q \o SaveAreas(m) = (ImagePages(n) \o y) \o V /\ IsRest(y, n, o) /\ AreVmsas(V)
                  /\ n.kernel # None => HasNormal(y)
  BY DEF IsDigest
<1>7. q = ImagePages(n) \o y
  <2> DEFINE x == ImagePages(n) \o y
             W == SaveAreas(m)
  <2>1. NoVmsas(x) /\ AreVmsas(W)
    BY <1>1, <1>6, PagesHaveNoVmsas, AreasAreVmsas
  <2>2. q \o W = x \o V
    BY <1>6
  <2> HIDE DEF x, W
  <2>3. q = x
    BY <1>5, <1>6, <2>1, <2>2, VmsasSplit
  <2> QED
    BY <2>3 DEF x
<1>8. y \in Seq(PageInfos)
  BY <1>6 DEF IsRest
<1>9. Image[n] = Image[m] /\ ImagePages(n) = ImagePages(m)
  BY <1>1, <1>2, <1>3, <1>7, <1>8, SameImage
<1>10. ASSUME q = FlattenSeq(Regions(m)) PROVE Boots(n) = Boots(m)
  <2>1. ImagePages(m) \o y = ImagePages(m) \o P
    BY <1>2, <1>7, <1>9, <1>10
  <2>2. y = P
    <3> HIDE DEF PageInfos
    <3> QED
      BY <1>3, <1>8, <2>1, SameParts, Zenon
  <2>3. CASE HasNormal(P)
    <3>1. PICK j \in 1 .. Len(P) : P[j].page_type = "Normal"
      BY <2>3 DEF HasNormal
    <3> DEFINE c == P[j].contents
    <3>2. IsHashPage(c, m, om) /\ IsHashPage(c, n, o)
      BY <1>1, <1>6, <2>2, <3>1 DEF IsRest
    <3> HIDE DEF c
    <3> QED
      BY <3>2, SameBoots DEF om
  <2>4. CASE ~ HasNormal(P)
    BY <1>1, <1>6, <2>2, <2>4 DEF Boots
  <2> QED
    BY <2>3, <2>4
<1> QED
  BY <1>9, <1>10

(* A kernel's hashes need a page in the image. *)
LEMMA DigestHasHashes ==
  ASSUME NEW n \in DOMAIN Image, NEW hash, NEW ld,
         snp_calc_launch_digest(Args(n, Image[n], hash)) = Gctx(ld)
  PROVE  n.kernel # None => HasHashes(n)
<1> DEFINE args == Args(n, Image[n], hash)
           ovmf == OVMF_new(args.ovmf_file)
           vmm == IF args.vmm = "none" THEN "QEMU" ELSE args.vmm
           begun == IF args.ovmf_hash = {} THEN Flash(ovmf)
                    ELSE Gctx(CHOOSE d \in args.ovmf_hash : TRUE)
           hashes == IF args.kernel = None THEN {}
                     ELSE {SevHashes(args.kernel, args.initrd, args.append)}
           pages == snp_update_metadata_pages(begun, ovmf, hashes, vmm)
           eip == CHOOSE e \in sev_es_reset_eip(ovmf) : TRUE
           areas == vmsa_pages(eip, args.vcpu_type, vmm, args.vcpus, args.features)
           f == CHOOSE e : e = [k \in 0 .. Len(areas) |->
                  IF k = 0 THEN pages ELSE update_page(e[k - 1], "Vmsa", VMSA_GPA, areas[k], 0)]
<1>1. snp_calc_launch_digest(args) =
        IF ovmf.ok /\ begun.ok /\ pages.ok /\ sev_es_reset_eip(ovmf) # {} THEN f[Len(areas)] ELSE Failed
  BY Zenon DEF snp_calc_launch_digest
<1>2. args.ovmf_file = Image[n] /\ args.kernel = n.kernel
  BY DEF Args
<1>3. snp_calc_launch_digest(args) = Gctx(ld)
  OBVIOUS
<1> HIDE DEF args
<1>4. IsRead(ovmf, Image[n], n)
  BY <1>2, MachineIsRead
<1> HIDE DEF f, areas, eip, begun, vmm, ovmf
<1>5. pages.ok
  BY <1>1, <1>3, GctxIs, FailedIs
<1>6. hashes # {} /\ ~ has_metadata_section(ovmf, "SnpKernelHashes") => pages = Failed
  BY Zenon DEF snp_update_metadata_pages
<1>7. n.kernel # None => hashes # {}
  BY <1>2
<1>8. has_metadata_section(ovmf, "SnpKernelHashes") => HasHashes(n)
  BY <1>4 DEF IsRead, has_metadata_section, HasHashes
<1> QED
  BY <1>5, <1>6, <1>7, <1>8, FailedIs

(* With the image itself, the digest is of all that is loaded of n, and of  *)
(* its save areas as they are calculated.                                   *)
LEMMA ImageBinds ==
  ASSUME NEW m \in Machines, NEW n \in DOMAIN Image,
         NEW hash \in {{}, {calc_snp_ovmf_hash(Image[n]).ld}},
         NEW q, Begins(FlattenSeq(Regions(m)), q),
         snp_calc_launch_digest(Args(n, Image[n], hash)) = Gctx(q \o SaveAreas(m))
  PROVE  /\ q = FlattenSeq(Regions(n)) /\ AreaPages(n) = SaveAreas(m)
         /\ IsMachine(n)
<1>1. n.kernel # None => HasHashes(n)
  BY DigestHasHashes
<1>2. snp_calc_launch_digest(Args(n, Image[n], hash)) = Gctx(FlattenSeq(Regions(n)) \o AreaPages(n))
  BY <1>1, DigestIs
<1>3. q \o SaveAreas(m) = FlattenSeq(Regions(n)) \o AreaPages(n)
  BY <1>2, GctxIs
<1>4. IsMachine(n) /\ IsMachine(m) /\ m \in DOMAIN Image
  BY MachinesAssumption
<1>5. NoVmsas(FlattenSeq(Regions(m)))
  BY <1>4, RestIs, RegionsAre, PagesHaveNoVmsas
<1>6. NoVmsas(q)
  BY <1>5 DEF Begins, NoVmsas
<1>7. NoVmsas(FlattenSeq(Regions(n)))
  BY <1>1, RestIsOf, RegionsAre, PagesHaveNoVmsas
<1>8. AreVmsas(SaveAreas(m)) /\ AreVmsas(AreaPages(n))
  BY <1>4, AreasAreVmsas
<1> DEFINE x == FlattenSeq(Regions(n))
           V == AreaPages(n)
           W == SaveAreas(m)
<1>9. NoVmsas(x) /\ AreVmsas(V) /\ AreVmsas(W) /\ q \o W = x \o V
  BY <1>3, <1>7, <1>8
<1> HIDE DEF x, V, W
<1>10. q = x /\ W = V
  BY <1>6, <1>9, VmsasSplit
<1> QED
  BY <1>4, <1>10 DEF x, V, W

(* A save area that is calculated tells QEMU with the CPU's signature, and  *)
(* of CPUs but the first EC2 from KRUN; its selector and stack are the      *)
(* same for all.                                                            *)
LEMMA AreaTells ==
  ASSUME NEW a, NEW eip, NEW features, NEW type, NEW vmm \in {"QEMU", "EC2", "KRUN"},
         IsArea(a, eip, features, type, vmm)
  PROVE  /\ vmm = "QEMU" <=> a[6] = 147
         /\ vmm = "QEMU" => a[8] = sig(type)
         /\ vmm # "QEMU" /\ eip # BSP_EIP => (vmm = "EC2" <=> a[5] = 155)
         /\ a[3] = 61440 /\ a[11] = 0
<1>1. CASE vmm = "QEMU"
  <2>1. IsInit(a, eip, features, 155, 147, 139, sig(type), 8064, 895)
    BY <1>1 DEF IsArea
  <2>2. a[6] = 147 /\ a[8] = sig(type) /\ a[3] = 61440 /\ a[11] = 0
    BY <2>1 DEF IsInit, Twelve
  <2> QED
    BY <1>1, <2>2
<1>2. CASE vmm = "KRUN"
  <2>1. IsInit(a, eip, features, 154, 146, 131, 0, 0, 0)
    BY <1>2 DEF IsArea
  <2>2. a[5] = 154 /\ a[6] = 146 /\ a[3] = 61440 /\ a[11] = 0
    BY <2>1 DEF IsInit, Twelve
  <2> QED
    BY <1>2, <2>2
<1>3. CASE vmm = "EC2" /\ eip = BSP_EIP
  <2>1. IsInit(a, eip, features, 154, 146, 131, 0, 0, 0)
    BY <1>3 DEF IsArea
  <2>2. a[6] = 146 /\ a[3] = 61440 /\ a[11] = 0
    BY <2>1 DEF IsInit, Twelve
  <2> QED
    BY <1>3, <2>2
<1>4. CASE vmm = "EC2" /\ eip # BSP_EIP
  <2>1. IsInit(a, eip, features, 155, 146, 131, 0, 0, 0)
    BY <1>4 DEF IsArea
  <2>2. a[5] = 155 /\ a[6] = 146 /\ a[3] = 61440 /\ a[11] = 0
    BY <2>1 DEF IsInit, Twelve
  <2> QED
    BY <1>4, <2>2
<1> QED
  BY <1>1, <1>2, <1>3, <1>4

(* Save areas loaded that are as calculated are not KRUN's.  They tell the  *)
(* number of CPUs, QEMU with the signature of its CPUs, and, where there is *)
(* a second CPU, EC2 from KRUN.                                             *)
LEMMA AreasTell ==
  ASSUME NEW m, IsMachine(m), NEW n, IsMachine(n), AreaPages(n) = SaveAreas(m)
  PROVE  /\ n.vcpus = m.vcpus
         /\ n.vmm = "QEMU" <=> m.vmm = "QEMU"
         /\ m.vmm = "QEMU" => sig(n.vcpu_type) = sig(m.vcpu_type)
         /\ m.vcpus # 1 => n.vmm = m.vmm
         /\ m.vmm # "KRUN"
<1>0. m.vmm # "KRUN"
  <2> DEFINE a == SaveAreas(m)[1].contents
  <2>1. 1 \in 1 .. m.vcpus /\ Len(SaveAreas(m)) = m.vcpus /\ IsLoaded(a, m, m.features, 1)
    BY SaveAreasAre
  <2>2. AreaPages(n)[1] = PageInfo("Vmsa", VMSA_GPA, Area(n, 1))
    <3>1. 1 \in 1 .. n.vcpus
      BY DEF IsMachine
    <3> QED
      BY <3>1, Zenon DEF AreaPages
  <2>3. a = Area(n, 1)
    BY <2>2, PageInfoIs
  <2> HIDE DEF a
  <2>4. IsArea(a, BSP_EIP, n.features, n.vcpu_type, n.vmm) /\ n.vmm \in {"QEMU", "EC2", "KRUN"}
    BY <2>3, AreaIn DEF IsMachine
  <2>5. a[3] = 61440 /\ a[11] = 0
    BY <2>4, AreaTells
  <2> QED
    BY <2>1, <2>5 DEF IsLoaded
<1>a. AreaPages(n) = AreaPages(m)
  BY <1>0, SaveAreasAre
<1>1. /\ AreaPages(m) = [i \in 1 .. m.vcpus |-> PageInfo("Vmsa", VMSA_GPA, Area(m, i))]
      /\ Len(AreaPages(m)) = m.vcpus /\ m.vcpus \in Nat \ {0}
  BY AreaPagesAre
<1>2. /\ AreaPages(n) = [i \in 1 .. n.vcpus |-> PageInfo("Vmsa", VMSA_GPA, Area(n, i))]
      /\ Len(AreaPages(n)) = n.vcpus
  BY AreaPagesAre
<1>3. n.vcpus = m.vcpus
  BY <1>1, <1>2, <1>a
<1>4. ASSUME NEW i \in 1 .. m.vcpus PROVE Area(m, i) = Area(n, i)
  <2>1. AreaPages(m)[i] = PageInfo("Vmsa", VMSA_GPA, Area(m, i))
    BY <1>1, Zenon
  <2>2. AreaPages(n)[i] = PageInfo("Vmsa", VMSA_GPA, Area(n, i))
    BY <1>2, <1>3, Zenon
  <2> QED
    BY <1>a, <2>1, <2>2, PageInfoIs
<1>5. /\ m.vmm \in {"QEMU", "EC2", "KRUN"} /\ n.vmm \in {"QEMU", "EC2", "KRUN"}
      /\ m.eip # BSP_EIP /\ n.eip # BSP_EIP
  <2>1. BSP_EIP \in Nat /\ m.eip \in 1 .. BSP_EIP - 1 /\ n.eip \in 1 .. BSP_EIP - 1
    BY AreaIn DEF IsMachine
  <2> QED
    BY <2>1 DEF IsMachine
<1> DEFINE a == Area(m, 1)
<1>6. IsArea(a, BSP_EIP, m.features, m.vcpu_type, m.vmm) /\ IsArea(a, BSP_EIP, n.features, n.vcpu_type, n.vmm)
  <2>1. a = Area(n, 1)
    BY <1>1, <1>4
  <2> QED
    BY <2>1, AreaIn
<1> HIDE DEF a
<1>7. n.vmm = "QEMU" <=> m.vmm = "QEMU"
  <2>1. m.vmm = "QEMU" <=> a[6] = 147
    BY <1>5, <1>6, AreaTells
  <2>2. n.vmm = "QEMU" <=> a[6] = 147
    BY <1>5, <1>6, AreaTells
  <2> QED
    BY <2>1, <2>2
<1>8. m.vmm = "QEMU" => sig(n.vcpu_type) = sig(m.vcpu_type)
  BY <1>5, <1>6, <1>7, AreaTells
<1>9. ASSUME m.vcpus # 1, m.vmm # "QEMU" PROVE n.vmm = m.vmm
  <2> DEFINE b == Area(m, 2)
  <2>1. 2 \in 1 .. m.vcpus
    BY <1>1, <1>9
  <2>2. b = Area(n, 2)
    BY <1>4, <2>1
  <2>3. IsArea(b, m.eip, m.features, m.vcpu_type, m.vmm) /\ IsArea(b, n.eip, n.features, n.vcpu_type, n.vmm)
    BY <2>2, AreaIn
  <2> HIDE DEF b
  <2>4. m.vmm = "EC2" <=> b[5] = 155
    BY <1>5, <1>9, <2>3, AreaTells
  <2>5. n.vmm = "EC2" <=> b[5] = 155
    BY <1>5, <1>7, <1>9, <2>3, AreaTells
  <2> QED
    BY <1>5, <1>7, <1>9, <2>4, <2>5
<1> QED
  BY <1>0, <1>3, <1>5, <1>7, <1>8, <1>9

(* The regions of a section have as many pages for any machine. *)
LEMMA RegionLength ==
  ASSUME NEW m, IsMachine(m), NEW n, NEW d, HasDesc(m, d)
  PROVE  Len(Region(m, d)) = Len(Region(n, d))
<1>1. d.section_type \in SectionTypes /\ d.size \in Nat /\ (d.section_type = "SnpKernelHashes" => d.size = PAGE)
  BY DescFacts
<1>2. Len(ZeroPages(d)) = d.size \div PAGE
  BY <1>1, PageAssumption DEF ZeroPages
<1>3. d.section_type = "SnpKernelHashes" => Len(ZeroPages(d)) = 1
  BY <1>1, <1>2, OnePage
<1>4. \A k : Len(HashPage(k, d)) = 1
  BY DEF HashPage
<1> HIDE DEF ZeroPages, HashPage
<1>5. CASE d.section_type = "SnpKernelHashes"
  <2>1. ASSUME NEW k PROVE Len(Region(k, d)) = 1
    BY <1>3, <1>4, <1>5 DEF Region
  <2> QED
    BY <2>1
<1>6. CASE d.section_type # "SnpKernelHashes"
  BY <1>1, <1>6 DEF Region, SectionTypes
<1> QED
  BY <1>5, <1>6

(* The pages of sections are as many for machines that differ in something  *)
(* else.                                                                    *)
LEMMA PagesLength ==
  ASSUME NEW m, IsMachine(m), NEW n, IsMachine(n), n.sections = m.sections,
         NEW D \in Seq(DescsOf(m.sections))
  PROVE  Len(Pages(m, D)) = Len(Pages(n, D))
<1> DEFINE S == {k \in 0 .. Len(D) : Len(Pages(m, SubSeq(D, 1, k))) = Len(Pages(n, SubSeq(D, 1, k)))}
<1>0. Len(D) \in Nat
  OBVIOUS
<1>1. 0 \in S
  <2>1. SubSeq(D, 1, 0) = <<>>
    OBVIOUS
  <2>2. \A k : Pages(k, <<>>) = <<>>
    <3>1. ASSUME NEW k PROVE [i \in 1 .. Len(<<>>) |-> Region(k, <<>>[i])] = <<>>
      OBVIOUS
    <3> QED
      BY <3>1, FlattenNil DEF Pages
  <2>3. 0 \in 0 .. Len(D)
    BY <1>0
  <2> QED
    BY <2>1, <2>2, <2>3, Zenon
<1>2. ASSUME NEW k \in S, k \in Nat, k < Len(D) PROVE k + 1 \in S
  <2> DEFINE x == SubSeq(D, 1, k)
             d == D[k + 1]
  <2>1. k + 1 \in 0 .. Len(D) /\ k + 1 \in 1 .. Len(D)
    BY <1>2
  <2>2. x \in Seq(DescsOf(m.sections)) /\ d \in DescsOf(m.sections) /\ SubSeq(D, 1, k + 1) = Append(x, d)
    BY <1>2, <2>1
  <2>3. Len(Pages(m, x)) = Len(Pages(n, x))
    OBVIOUS
  <2> HIDE DEF x, d
  <2>4. HasDesc(m, d) /\ HasDesc(n, d)
    BY <2>2 DEF HasDesc, DescsOf
  <2>5. Pages(m, Append(x, d)) = Pages(m, x) \o Region(m, d) /\ Pages(n, Append(x, d)) = Pages(n, x) \o Region(n, d)
    BY <2>2, PagesAppend
  <2>6. /\ Pages(m, x) \in Seq(PageInfos) /\ Pages(n, x) \in Seq(PageInfos)
        /\ Region(m, d) \in Seq(PageInfos) /\ Region(n, d) \in Seq(PageInfos)
    BY <2>2, <2>4, RegionsOf, RegionIn
  <2>7. Len(Region(m, d)) = Len(Region(n, d))
    BY <2>4, RegionLength
  <2>8. Len(Pages(m, Append(x, d))) = Len(Pages(n, Append(x, d)))
    <3>1. Len(Pages(m, Append(x, d))) = Len(Pages(m, x)) + Len(Region(m, d))
      BY <2>5, <2>6, LenOf
    <3>2. Len(Pages(n, Append(x, d))) = Len(Pages(n, x)) + Len(Region(n, d))
      BY <2>5, <2>6, LenOf
    <3> QED
      BY <2>3, <2>7, <3>1, <3>2
  <2> QED
    BY <2>1, <2>2, <2>8
<1> HIDE DEF S
<1>3. 0 .. Len(D) \subseteq S
  BY <1>0, <1>1, <1>2, InductionTo
<1>4. Len(D) \in S
  BY <1>0, <1>3
<1>5. SubSeq(D, 1, Len(D)) = D
  OBVIOUS
<1> QED
  BY <1>4, <1>5 DEF S

(* The first descriptions give the first pages. *)
LEMMA PagesBegin ==
  ASSUME NEW m, IsMachine(m), NEW x \in Seq(DescsOf(m.sections)), NEW y \in Seq(DescsOf(m.sections))
  PROVE  Begins(Pages(m, x \o y), Pages(m, x))
<1> DEFINE S == DescsOf(m.sections)
           z == x \o y
           N == Len(z)
           h == [k \in 0 .. N |-> Pages(m, SubSeq(z, 1, k))]
<1>1. z \in Seq(S) /\ N \in Nat /\ Len(x) \in 0 .. N /\ SubSeq(z, 1, Len(x)) = x /\ SubSeq(z, 1, N) = z
  <2>1. ASSUME NEW T, NEW a \in Seq(T), NEW b \in Seq(T)
        PROVE  /\ a \o b \in Seq(T) /\ Len(a \o b) \in Nat /\ Len(a) \in 0 .. Len(a \o b)
               /\ SubSeq(a \o b, 1, Len(a)) = a /\ SubSeq(a \o b, 1, Len(a \o b)) = a \o b
    OBVIOUS
  <2> HIDE DEF S
  <2> QED
    BY <2>1 DEF S
<1> HIDE DEF z, N
<1>2. ASSUME NEW k \in 1 .. N PROVE Begins(h[k], h[k - 1])
  <2> DEFINE p == SubSeq(z, 1, k - 1)
             d == z[k]
  <2>1. k \in 0 .. N /\ k - 1 \in 0 .. N /\ k \in 1 .. Len(z)
    BY <1>1 DEF N
  <2>2. p \in Seq(S) /\ d \in S /\ SubSeq(z, 1, k) = Append(p, d)
    <3>1. ASSUME NEW T, NEW a \in Seq(T), NEW j \in 1 .. Len(a)
          PROVE  SubSeq(a, 1, j - 1) \in Seq(T) /\ a[j] \in T /\ SubSeq(a, 1, j) = Append(SubSeq(a, 1, j - 1), a[j])
      OBVIOUS
    <3> HIDE DEF S
    <3> QED
      BY <1>1, <2>1, <3>1
  <2>3. h[k] = Pages(m, Append(p, d)) /\ h[k - 1] = Pages(m, p)
    BY <2>1, <2>2
  <2> HIDE DEF p, d, h
  <2>4. Pages(m, Append(p, d)) = Pages(m, p) \o Region(m, d)
    BY <2>2, PagesAppend
  <2>5. HasDesc(m, d)
    BY <2>2 DEF HasDesc, DescsOf
  <2>6. Pages(m, p) \in Seq(PageInfos) /\ Region(m, d) \in Seq(PageInfos)
    BY <2>2, <2>5, RegionsOf, RegionIn
  <2> QED
    BY <2>3, <2>4, <2>6, BeginsWith
<1>3. h[0] \in Seq(PageInfos)
  <2>1. h[0] = Pages(m, SubSeq(z, 1, 0))
    BY <1>1
  <2>2. SubSeq(z, 1, 0) \in Seq(S)
    <3> HIDE DEF S
    <3> QED
      BY <1>1
  <2> QED
    BY <2>1, <2>2, RegionsOf
<1>4. h[N] = Pages(m, z) /\ h[Len(x)] = Pages(m, x) /\ N \in Len(x) .. N
  <2>1. N \in 0 .. N /\ N \in Len(x) .. N
    BY <1>1
  <2>2. h[N] = Pages(m, SubSeq(z, 1, N)) /\ h[Len(x)] = Pages(m, SubSeq(z, 1, Len(x)))
    BY <1>1, <2>1, Zenon
  <2> QED
    BY <1>1, <2>1, <2>2
<1> HIDE DEF h
<1>5. Grows(h, N)
  BY <1>2, <1>3 DEF Grows
<1> QED
  BY <1>1, <1>4, <1>5, GrowsOn DEF z

(* The first CPUID section k and the first other section l after it. *)
IsEarly(s, k, l) ==
  /\ k \in 1 .. Len(s) /\ l \in 1 .. Len(s) /\ k < l
  /\ \A i \in 1 .. Len(s) : i < k => s[i].section_type # "CPUID"
  /\ \A i \in 1 .. Len(s) : k <= i /\ i < l => s[i].section_type = "CPUID"
  /\ s[l].section_type # "CPUID"

(* The first CPUID section with another after it. *)
LEMMA EarlyExists ==
  ASSUME NEW m, IsMachine(m), CpuidEarly(m)
  PROVE  \E k, l : IsEarly(m.sections, k, l)
<1> DEFINE s == m.sections
           N == Len(s)
<1>1. N \in Nat
  BY DEF IsMachine
<1>2. PICK i \in 1 .. N, j \in 1 .. N : i < j /\ s[i].section_type = "CPUID" /\ s[j].section_type # "CPUID"
  BY DEF CpuidEarly
<1> HIDE DEF s, N
<1> DEFINE T == {x \in 1 .. N : s[x].section_type = "CPUID"}
<1>3. PICK k \in T : \A x \in T : k <= x
  <2>1. T \subseteq Nat /\ T # {}
    BY <1>2
  <2> HIDE DEF T
  <2> QED
    BY <2>1, LeastOf
<1> DEFINE U == {x \in 1 .. N : k < x /\ s[x].section_type # "CPUID"}
<1>4. j \in U
  <2>1. k <= i
    BY <1>2, <1>3
  <2> QED
    BY <1>2, <1>3, <2>1
<1>5. PICK l \in U : \A x \in U : l <= x
  <2>1. U \subseteq Nat /\ U # {}
    BY <1>4
  <2> HIDE DEF U
  <2> QED
    BY <2>1, LeastOf
<1>6. ASSUME NEW x \in 1 .. N, x < k PROVE s[x].section_type # "CPUID"
  BY <1>3, <1>6
<1>7. ASSUME NEW x \in 1 .. N, k <= x, x < l PROVE s[x].section_type = "CPUID"
  BY <1>3, <1>5, <1>7
<1>8. k \in 1 .. N /\ l \in 1 .. N /\ k < l /\ s[l].section_type # "CPUID"
  BY <1>3, <1>5
<1> HIDE DEF T, U
<1>9. IsEarly(s, k, l)
  BY <1>6, <1>7, <1>8 DEF IsEarly, N
<1> QED
  BY <1>9 DEF s

AreTyped(s) == Len(s) \in Nat /\ \A i \in 1 .. Len(s) : s[i].section_type \in SectionTypes

AreChosen(s, f, g, k, l) ==
  /\ AreTyped(s) /\ IsEarly(s, k, l)
  /\ IsChosen(s, SectionTypes, f) /\ IsChosen(s, SectionTypes \ {"CPUID"}, g)

(* Before a section, only sections that are chosen of all types. *)
LEMMA ChosenAlike ==
  ASSUME NEW s, NEW f, NEW g, NEW k, NEW l, AreChosen(s, f, g, k, l)
  PROVE  f[k] = Append(f[k - 1], s[k]) /\ g[l] = Append(f[k - 1], s[l])
<1>0. /\ AreTyped(s) /\ IsEarly(s, k, l)
      /\ IsChosen(s, SectionTypes, f) /\ IsChosen(s, SectionTypes \ {"CPUID"}, g)
  BY Zenon DEF AreChosen
<1> DEFINE N == Len(s)
           D == f[k - 1]
<1>1. /\ N \in Nat /\ k \in 1 .. N /\ l \in 1 .. N /\ k < l
      /\ f[0] = <<>> /\ g[0] = <<>>
  BY <1>0 DEF IsEarly, IsChosen, AreTyped
<1>2. \A n \in 1 .. N : f[n] = Append(f[n - 1], s[n])
  BY <1>0 DEF IsChosen, AreTyped
<1>3. ASSUME NEW n \in 1 .. N
      PROVE  g[n] = IF s[n].section_type = "CPUID" THEN g[n - 1] ELSE Append(g[n - 1], s[n])
  <2>1. g[n] = IF s[n].section_type \in SectionTypes \ {"CPUID"} THEN Append(g[n - 1], s[n]) ELSE g[n - 1]
    BY <1>0, Zenon DEF IsChosen
  <2> QED
    BY <1>0, <2>1 DEF AreTyped
<1>4. /\ \A i \in 1 .. N : i < k => s[i].section_type # "CPUID"
      /\ \A i \in 1 .. N : k <= i /\ i < l => s[i].section_type = "CPUID"
      /\ s[l].section_type # "CPUID"
  BY <1>0 DEF IsEarly
<1> HIDE DEF N, D
<1> DEFINE S == {n \in 0 .. k - 1 : f[n] = g[n]}
           K == k - 1
<1>5. 0 \in S
  BY <1>1
<1>6. ASSUME NEW n \in S, n \in Nat, n < K PROVE n + 1 \in S
  <2>1. n + 1 \in 1 .. N /\ n + 1 < k /\ (n + 1) - 1 = n /\ n + 1 \in 0 .. k - 1
    BY <1>1, <1>6
  <2>2. f[n + 1] = Append(f[n], s[n + 1]) /\ g[n + 1] = Append(g[n], s[n + 1])
    BY <1>2, <1>3, <1>4, <2>1
  <2> QED
    BY <2>1, <2>2
<1>7. f[k - 1] = g[k - 1]
  <2>1. K \in Nat
    BY <1>1
  <2> HIDE DEF S, K
  <2>2. 0 .. K \subseteq S
    BY <1>5, <1>6, <2>1, InductionTo
  <2>3. K \in S
    BY <2>1, <2>2
  <2> QED
    BY <2>3 DEF S, K
<1> HIDE DEF S, K
<1> DEFINE J == l - k
           T == {n \in 0 .. J : g[(k - 1) + n] = D}
<1>8. 0 \in T
  <2>1. (k - 1) + 0 = k - 1 /\ 0 \in 0 .. J
    BY <1>1
  <2> QED
    BY <1>7, <2>1 DEF D
<1>9. ASSUME NEW n \in T, n \in Nat, n < J PROVE n + 1 \in T
  <2> DEFINE i == k + n
  <2>1. i \in 1 .. N /\ k <= i /\ i < l /\ i - 1 = (k - 1) + n /\ i = (k - 1) + (n + 1) /\ n + 1 \in 0 .. J
    BY <1>1, <1>9
  <2>2. g[(k - 1) + n] = D
    OBVIOUS
  <2> HIDE DEF i, T
  <2>3. g[i] = g[i - 1]
    BY <1>3, <1>4, <2>1
  <2>4. g[(k - 1) + (n + 1)] = D
    BY <2>1, <2>2, <2>3
  <2> QED
    BY <2>1, <2>4 DEF T
<1>10. g[l - 1] = D
  <2>1. J \in Nat /\ (k - 1) + J = l - 1
    BY <1>1
  <2> HIDE DEF T, J
  <2>2. 0 .. J \subseteq T
    BY <1>8, <1>9, <2>1, InductionTo
  <2>3. J \in T
    BY <2>1, <2>2
  <2>4. g[(k - 1) + J] = D
    BY <2>3 DEF T
  <2> QED
    BY <2>1, <2>4
<1>11. g[l] = Append(D, s[l])
  BY <1>1, <1>3, <1>4, <1>10
<1> QED
  BY <1>1, <1>2, <1>11 DEF D

(* The pages of the sections chosen, one after the other. *)
LEMMA ChosenBegins ==
  ASSUME NEW m, IsMachine(m), NEW types, NEW f, IsChosen(m.sections, types, f),
         NEW k \in 0 .. Len(m.sections), NEW y \in Seq(DescsOf(m.sections))
  PROVE  Begins(Pages(m, OfTypes(m.sections, types) \o y), Pages(m, f[k]))
<1> DEFINE s == m.sections
           N == Len(s)
           h == [n \in 0 .. N |-> Pages(m, f[n])]
<1>1. N \in Nat
  BY DEF IsMachine
<1>2. /\ f[0] = <<>> /\ f[N] = OfTypes(s, types)
      /\ \A n \in 0 .. N : f[n] \in Seq(DescsOf(s))
      /\ \A n \in 1 .. N : f[n] = IF s[n].section_type \in types THEN Append(f[n - 1], s[n]) ELSE f[n - 1]
  BY DEF IsChosen
<1>3. \A n \in 1 .. N : s[n] \in DescsOf(s) /\ HasDesc(m, s[n])
  BY DEF DescsOf, HasDesc
<1> HIDE DEF s, N
<1>4. ASSUME NEW n \in 0 .. N PROVE Pages(m, f[n]) \in Seq(PageInfos)
  BY <1>2, RegionsOf DEF s
<1>5. ASSUME NEW n \in 1 .. N PROVE Begins(Pages(m, f[n]), Pages(m, f[n - 1]))
  <2>1. n \in 0 .. N /\ n - 1 \in 0 .. N
    BY <1>1
  <2> DEFINE p == f[n - 1]
             d == s[n]
  <2>2. p \in Seq(DescsOf(s)) /\ d \in DescsOf(s) /\ Pages(m, p) \in Seq(PageInfos) /\ HasDesc(m, d)
    BY <1>2, <1>3, <1>4, <2>1
  <2>3. f[n] = IF d.section_type \in types THEN Append(p, d) ELSE p
    BY <1>2
  <2> HIDE DEF p, d
  <2>4. Pages(m, Append(p, d)) = Pages(m, p) \o Region(m, d) /\ Region(m, d) \in Seq(PageInfos)
    BY <2>2, PagesAppend, RegionIn DEF s
  <2>5. Begins(Pages(m, Append(p, d)), Pages(m, p)) /\ Begins(Pages(m, p), Pages(m, p))
    BY <2>2, <2>4, BeginsWith, BeginsWhole
  <2> QED
    BY <2>3, <2>5 DEF p
<1>6. Grows(h, N)
  <2>1. 0 \in 0 .. N /\ \A n \in 1 .. N : n \in 0 .. N /\ n - 1 \in 0 .. N
    BY <1>1
  <2>2. h[0] = Pages(m, f[0]) /\ \A n \in 1 .. N : h[n] = Pages(m, f[n]) /\ h[n - 1] = Pages(m, f[n - 1])
    BY <2>1, Zenon
  <2> HIDE DEF h
  <2> QED
    BY <1>4, <1>5, <2>1, <2>2 DEF Grows
<1>7. h[N] = Pages(m, OfTypes(s, types)) /\ h[k] = Pages(m, f[k]) /\ k \in 0 .. N /\ N \in k .. N
  <2>1. N \in 0 .. N /\ N \in k .. N /\ k \in 0 .. N
    BY <1>1 DEF N, s
  <2>2. h[N] = Pages(m, f[N]) /\ h[k] = Pages(m, f[k])
    BY <2>1, Zenon
  <2> QED
    BY <1>2, <2>1, <2>2
<1> HIDE DEF h
<1>8. Begins(Pages(m, OfTypes(s, types)), Pages(m, f[k]))
  BY <1>1, <1>6, <1>7, GrowsOn
<1>9. OfTypes(s, types) \in Seq(DescsOf(s))
  <2>1. N \in 0 .. N
    BY <1>1
  <2> QED
    BY <1>2, <2>1
<1>10. Begins(Pages(m, OfTypes(s, types) \o y), Pages(m, OfTypes(s, types)))
  BY <1>9, PagesBegin DEF s
<1> QED
  BY <1>8, <1>10, BeginsOn DEF s

(* The first page of a section, after those of other sections. *)
LEMMA FirstPage ==
  ASSUME NEW m, IsMachine(m), NEW D \in Seq(DescsOf(m.sections)), NEW d \in DescsOf(m.sections),
         NEW z, Begins(z, Pages(m, Append(D, d))), NEW p, p = Len(Pages(m, D)) + 1
  PROVE  p \in 1 .. Len(z) /\ z[p] = Region(m, d)[1]
<1> DEFINE x == Pages(m, D)
           y == Region(m, d)
           w == Pages(m, Append(D, d))
<1>1. HasDesc(m, d)
  BY DEF HasDesc, DescsOf
<1>2. w = x \o y /\ x \in Seq(PageInfos) /\ y \in Seq(PageInfos) /\ Len(y) \in Nat \ {0}
  BY <1>1, PagesAppend, RegionsOf, RegionIn, RegionHasPages
<1>3. Begins(z, w) /\ p = Len(x) + 1
  OBVIOUS
<1> HIDE DEF x, y, w
<1>4. Parts(PageInfos, w, x, y)
  BY <1>2, PartsOf
<1>5. 1 \in 1 .. Len(y)
  BY <1>2
<1>6. w[p] = y[1]
  BY <1>3, <1>4, <1>5 DEF Parts
<1>7. Len(w) = Len(x) + Len(y) /\ Len(x) \in Nat /\ Len(w) <= Len(z) /\ Len(z) \in Nat
  BY <1>3, <1>4 DEF Parts, Begins
<1>8. p \in 1 .. Len(w) /\ p \in 1 .. Len(z)
  BY <1>2, <1>3, <1>7
<1> QED
  BY <1>3, <1>6, <1>8 DEF Begins, y

(* The first page of a region tells if it is of a CPUID section. *)
LEMMA FirstPageTells ==
  ASSUME NEW m, IsMachine(m), NEW d, HasDesc(m, d)
  PROVE  Region(m, d)[1].page_type = "Cpuid" <=> d.section_type = "CPUID"
<1>1. /\ d.section_type \in SectionTypes /\ d.size \in Nat /\ Len(Region(m, d)) \in Nat \ {0}
  BY DescFacts, RegionHasPages
<1>2. 1 \in 1 .. Len(ZeroPages(d)) => ZeroPages(d)[1].page_type = "Zero"
  <2>1. Len(ZeroPages(d)) = d.size \div PAGE
    BY <1>1, PageAssumption DEF ZeroPages
  <2>2. ASSUME 1 \in 1 .. d.size \div PAGE
        PROVE  ZeroPages(d)[1] = PageInfo("Zero", d.gpa + (1 - 1) * PAGE, ZEROS)
    BY <2>2 DEF ZeroPages
  <2> QED
    BY <2>1, <2>2, PageInfoIs
<1>3. HashPage(m, d)[1].page_type = "Normal"
  <2>1. \E c : HashPage(m, d)[1] = PageInfo("Normal", d.gpa, c)
    BY DEF HashPage
  <2> QED
    BY <2>1, PageInfoIs
<1>4. \A type : <<PageInfo(type, d.gpa, ZEROS)>>[1].page_type = type
  BY PageInfoIs
<1> HIDE DEF ZeroPages, HashPage
<1>5. 1 \in 1 .. Len(Region(m, d))
  BY <1>1
<1>6. CASE d.section_type = "SnpSecMemory"
  <2>1. Region(m, d) = ZeroPages(d)
    BY <1>6 DEF Region
  <2> QED
    BY <1>2, <1>5, <1>6, <2>1
<1>7. CASE d.section_type = "SnpSecrets"
  <2>1. Region(m, d) = <<PageInfo("Secrets", d.gpa, ZEROS)>>
    BY <1>7 DEF Region
  <2> QED
    BY <1>4, <1>7, <2>1
<1>8. CASE d.section_type = "CPUID"
  <2>1. Region(m, d) = <<PageInfo("Cpuid", d.gpa, ZEROS)>>
    BY <1>8 DEF Region
  <2> QED
    BY <1>4, <1>8, <2>1
<1>9. CASE d.section_type = "SnpKernelHashes"
  <2>1. Region(m, d) = ZeroPages(d) \/ Region(m, d) = HashPage(m, d)
    BY <1>9 DEF Region
  <2> QED
    BY <1>2, <1>3, <1>5, <1>9, <2>1
<1> QED
  BY <1>1, <1>6, <1>7, <1>8, <1>9 DEF SectionTypes

(* Where KRUN has its first CPUID page, EC2 has another. *)
LEMMA CpuidPlace ==
  ASSUME NEW a, IsMachine(a), NEW b, IsMachine(b), a.sections = b.sections,
         a.vmm = "KRUN", b.vmm = "EC2", CpuidEarly(a)
  PROVE  \E p : /\ p \in 1 .. Len(Pages(a, Descs(a))) /\ p \in 1 .. Len(Pages(b, Descs(b)))
                /\ Pages(a, Descs(a))[p] # Pages(b, Descs(b))[p]
<1> DEFINE s == a.sections
           others == SectionTypes \ {"CPUID"}
<1>1. Len(s) \in Nat /\ \A i \in 1 .. Len(s) : s[i].section_type \in SectionTypes
  <2>1. Len(s) \in Nat
    BY DEF IsMachine
  <2>2. ASSUME NEW i \in 1 .. Len(s) PROVE s[i].section_type \in SectionTypes
    <3>1. HasDesc(a, s[i])
      BY DEF HasDesc
    <3> QED
      BY <3>1, DescFacts
  <2> QED
    BY <2>1, <2>2
<1>2. PICK k, l : IsEarly(s, k, l)
  BY EarlyExists
<1>3. /\ Descs(a) = OfTypes(s, SectionTypes) \o OfTypes(s, {})
      /\ Descs(b) = OfTypes(s, others) \o OfTypes(s, {"CPUID"})
  <2>1. Late(a) = {} /\ Late(b) = {"CPUID"} /\ SectionTypes \ {} = SectionTypes
    BY DEF Late
  <2> QED
    BY <2>1 DEF Descs
<1>4. ASSUME NEW types PROVE OfTypes(s, types) \in Seq(DescsOf(s))
  <2>1. PICK e : IsChosen(s, types, e)
    BY <1>1, ChosenExists
  <2>2. Len(s) \in 0 .. Len(s)
    BY <1>1
  <2> QED
    BY <2>1, <2>2 DEF IsChosen
<1>5. PICK f : IsChosen(s, SectionTypes, f)
  BY <1>1, ChosenExists
<1>6. PICK g : IsChosen(s, others, g)
  BY <1>1, ChosenExists
<1>7. /\ k \in 1 .. Len(s) /\ l \in 1 .. Len(s) /\ k \in 0 .. Len(s) /\ l \in 0 .. Len(s)
      /\ k - 1 \in 0 .. Len(s)
  BY <1>1, <1>2 DEF IsEarly
<1> DEFINE D == f[k - 1]
           p == Len(Pages(a, D)) + 1
           PA == Pages(a, Descs(a))
           PB == Pages(b, Descs(b))
<1>8. f[k] = Append(D, s[k]) /\ g[l] = Append(D, s[l])
  <2>1. AreTyped(s)
    BY <1>1 DEF AreTyped
  <2>2. AreChosen(s, f, g, k, l)
    BY <1>2, <1>5, <1>6, <2>1 DEF AreChosen
  <2> HIDE DEF s, others, D
  <2>3. f[k] = Append(f[k - 1], s[k]) /\ g[l] = Append(f[k - 1], s[l])
    BY <2>2, ChosenAlike
  <2> QED
    BY <2>3 DEF D
<1>9. D \in Seq(DescsOf(s)) /\ s[k] \in DescsOf(s) /\ s[l] \in DescsOf(s)
  BY <1>5, <1>7 DEF IsChosen, DescsOf
<1>10. s[k].section_type = "CPUID" /\ s[l].section_type # "CPUID"
  <2>1. k <= k /\ k < l
    BY <1>1, <1>2 DEF IsEarly
  <2> QED
    BY <1>2, <1>7, <2>1 DEF IsEarly
<1> HIDE DEF D, others
<1>11. Begins(PA, Pages(a, Append(D, s[k])))
  BY <1>3, <1>4, <1>5, <1>7, <1>8, ChosenBegins
<1>12. Begins(PB, Pages(b, Append(D, s[l])))
  BY <1>3, <1>4, <1>6, <1>7, <1>8, ChosenBegins
<1>13. p = Len(Pages(b, D)) + 1
  BY <1>9, PagesLength
<1>14. HasDesc(a, s[k]) /\ HasDesc(b, s[l])
  BY <1>7 DEF HasDesc
<1> HIDE DEF PA, PB
<1> DEFINE dk == s[k]
           dl == s[l]
<1>15. dk \in DescsOf(a.sections) /\ dl \in DescsOf(b.sections) /\ D \in Seq(DescsOf(b.sections))
       /\ D \in Seq(DescsOf(a.sections)) /\ p = Len(Pages(a, D)) + 1
  BY <1>9
<1> HIDE DEF p, dk, dl, s
<1>16. p \in 1 .. Len(PA) /\ PA[p] = Region(a, dk)[1]
  BY <1>11, <1>15, FirstPage DEF dk
<1>17. p \in 1 .. Len(PB) /\ PB[p] = Region(b, dl)[1]
  BY <1>12, <1>13, <1>15, FirstPage DEF dl
<1>18. Region(a, dk)[1].page_type = "Cpuid" /\ Region(b, dl)[1].page_type # "Cpuid"
  BY <1>10, <1>14, FirstPageTells DEF dk, dl
<1>19. PA[p] # PB[p]
  BY <1>16, <1>17, <1>18
<1> QED
  BY <1>16, <1>17, <1>19 DEF PA, PB

(* Of a file that is not an image nothing is calculated. *)
LEMMA DigestRead ==
  ASSUME NEW n, NEW file, NEW hash, NEW ld, snp_calc_launch_digest(Args(n, file, hash)) = Gctx(ld)
  PROVE  OVMF_new(file) # Failed
<1> DEFINE args == Args(n, file, hash)
           ovmf == OVMF_new(args.ovmf_file)
<1>1. args.ovmf_file = file /\ snp_calc_launch_digest(args) = Gctx(ld)
  BY DEF Args
<1> HIDE DEF args
<1>2. ~ ovmf.ok => snp_calc_launch_digest(args) = Failed
  BY Zenon DEF snp_calc_launch_digest
<1>3. ovmf.ok
  BY <1>1, <1>2, GctxIs, FailedIs
<1> QED
  BY <1>1, <1>3, FailedIs

(* A beginning, without a part in common. *)
LEMMA BeginsRest ==
  ASSUME NEW x \in Seq(PageInfos), NEW u \in Seq(PageInfos), NEW y \in Seq(PageInfos),
         Begins(x \o u, x \o y)
  PROVE  Begins(u, y)
<1> DEFINE z == x \o u
           w == x \o y
<1>1. Parts(PageInfos, z, x, u) /\ Parts(PageInfos, w, x, y)
  BY PartsOf
<1>2. Begins(z, w)
  OBVIOUS
<1> HIDE DEF z, w
<1>3. /\ Len(z) = Len(x) + Len(u) /\ Len(w) = Len(x) + Len(y) /\ Len(w) <= Len(z)
      /\ Len(x) \in Nat /\ Len(y) \in Nat /\ Len(u) \in Nat
  BY <1>1, <1>2 DEF Parts, Begins
<1>4. ASSUME NEW j \in 1 .. Len(y) PROVE u[j] = y[j]
  <2>1. j \in 1 .. Len(u) /\ Len(x) + j \in 1 .. Len(w)
    BY <1>3
  <2>2. z[Len(x) + j] = w[Len(x) + j]
    BY <1>2, <2>1 DEF Begins
  <2> QED
    BY <1>1, <2>1, <2>2 DEF Parts
<1> QED
  BY <1>3, <1>4 DEF Begins

(* A launch with the digest calculated from an image is all of a launch     *)
(* from this image, for the same VMM and CPUs.                              *)
LEMMA CopyBinds ==
  ASSUME NEW m \in Machines, m.vcpus = 1 /\ m.vmm = "EC2" => CpuidEarly(m), NEW n \in DOMAIN Image,
         NEW hash \in {{}, {calc_snp_ovmf_hash(Image[n]).ld}},
         NEW q, Begins(FlattenSeq(Regions(m)), q),
         snp_calc_launch_digest(Args(n, Image[n], hash)) = Gctx(q \o SaveAreas(m))
  PROVE  /\ Len(q) = Len(FlattenSeq(Regions(m)))
         /\ n.vcpus = m.vcpus /\ n.vmm = m.vmm
         /\ m.vmm = "QEMU" => sig(n.vcpu_type) = sig(m.vcpu_type)
<1> DEFINE A == ImagePages(m)
           P == Pages(m, Descs(m))
           Q == Pages(n, Descs(n))
<1>1. m \in DOMAIN Image /\ IsMachine(m)
  BY MachinesAssumption
<1>2. q = FlattenSeq(Regions(n)) /\ AreaPages(n) = SaveAreas(m) /\ IsMachine(n)
  BY ImageBinds
<1>3. /\ FlattenSeq(Regions(m)) = A \o P /\ FlattenSeq(Regions(n)) = ImagePages(n) \o Q
      /\ Descs(m) \in Seq(DescsOf(m.sections)) /\ Descs(n) \in Seq(DescsOf(n.sections))
  BY <1>1, RegionsAre
<1>4. A \in Seq(PageInfos) /\ P \in Seq(PageInfos) /\ Q \in Seq(PageInfos)
  BY <1>1, <1>2, <1>3, ImagePagesIn, RegionsOf
<1>5. Image[n] = Image[m] /\ ImagePages(n) = A
  BY <1>1, <1>2, <1>3, <1>4, SameImage
<1>6. n.sections = m.sections
  <2>1. IsRead(OVMF_new(Image[m]), Image[m], m) /\ IsRead(OVMF_new(Image[n]), Image[n], n)
    BY <1>1, MachineIsRead
  <2> QED
    BY <1>5, <2>1 DEF IsRead
<1>7. /\ n.vcpus = m.vcpus /\ (n.vmm = "QEMU" <=> m.vmm = "QEMU")
      /\ m.vmm = "QEMU" => sig(n.vcpu_type) = sig(m.vcpu_type)
      /\ m.vcpus # 1 => n.vmm = m.vmm
      /\ m.vmm # "KRUN"
  BY <1>1, <1>2, AreasTell
<1> HIDE DEF A, P, Q
<1>8. Begins(P, Q)
  BY <1>2, <1>3, <1>4, <1>5, BeginsRest
<1>9. n.vmm = m.vmm
  <2>1. SUFFICES ASSUME n.vmm # m.vmm PROVE FALSE
    OBVIOUS
  <2>2. m.vmm \in {"QEMU", "EC2", "KRUN"} /\ n.vmm \in {"QEMU", "EC2", "KRUN"}
    BY <1>1, <1>2 DEF IsMachine
  <2>3. m.vmm = "EC2" /\ n.vmm = "KRUN" /\ m.vcpus = 1
    BY <1>7, <2>1, <2>2
  <2>4. CpuidEarly(m) /\ CpuidEarly(n)
    BY <1>6, <2>3 DEF CpuidEarly
  <2>5. \E p : p \in 1 .. Len(P) /\ p \in 1 .. Len(Q) /\ P[p] # Q[p]
    <3>1. \E p : p \in 1 .. Len(Q) /\ p \in 1 .. Len(P) /\ Q[p] # P[p]
      BY <1>1, <1>2, <1>6, <2>3, <2>4, CpuidPlace DEF P, Q
    <3> QED
      BY <3>1
  <2> QED
    BY <1>8, <2>5 DEF Begins
<1>10. Descs(n) = Descs(m)
  BY <1>6, <1>9 DEF Descs, Late
<1>11. Len(Q) = Len(P)
  BY <1>1, <1>2, <1>3, <1>6, <1>10, PagesLength DEF P, Q
<1>12. Len(q) = Len(FlattenSeq(Regions(m)))
  <2>1. q = A \o Q /\ FlattenSeq(Regions(m)) = A \o P
    BY <1>2, <1>3, <1>5
  <2>2. Len(q) = Len(A) + Len(Q)
    BY <1>4, <2>1, LenOf
  <2>3. Len(FlattenSeq(Regions(m))) = Len(A) + Len(P)
    BY <1>4, <2>1, LenOf
  <2> QED
    BY <1>11, <2>2, <2>3
<1> QED
  BY <1>7, <1>9, <1>12

(* What DigestBinds says of an owner's input, for a launch of m with the    *)
(* digest ld that is loaded to the end or not.                              *)
Binds(i, m, ld, loaded) ==
  snp_calc_launch_digest(i.args) = Gctx(ld) =>
    /\ i.machine.code = m.code
    /\ loaded => Boots(i.machine) = Boots(m)
    /\ i.args.ovmf_file = Image[i.machine] =>
         /\ loaded
         /\ i.machine.vcpus = m.vcpus
         /\ i.machine.vmm = m.vmm
         /\ m.vmm = "QEMU" => sig(i.machine.vcpu_type) = sig(m.vcpu_type)

(* DigestBinds for one input and one launch. *)
LEMMA InputBinds ==
  ASSUME NEW m \in Machines, NEW i \in Inputs, NEW a \in Nat, NEW b \in Nat, NEW q, LoadOK(q, a, b, m),
         NEW ld, ld = q \o SaveAreas(m), NEW loaded, loaded <=> a = Len(Regions(m)) + 1 /\ b = 0
  PROVE  Binds(i, m, ld, loaded)
<1> DEFINE n == i.machine
           file == i.args.ovmf_file
           o == OVMF_new(file)
           F == FlattenSeq(Regions(m))
<1>1. SUFFICES ASSUME snp_calc_launch_digest(i.args) = Gctx(ld)
               PROVE  /\ n.code = m.code
                      /\ loaded => Boots(n) = Boots(m)
                      /\ file = Image[n] => /\ loaded
                                            /\ n.vcpus = m.vcpus
                                            /\ n.vmm = m.vmm
                                            /\ m.vmm = "QEMU" => sig(n.vcpu_type) = sig(m.vcpu_type)
  BY DEF Binds
<1>2. PICK hash : IsInput(i, file, hash)
  BY InputIs
<1>3. /\ n \in DOMAIN Image /\ file \in Seq(Nat)
      /\ snp_calc_launch_digest(Args(n, file, hash)) = Gctx(ld)
      /\ (hash = {calc_snp_ovmf_hash(Image[n]).ld} \/ (hash = {} /\ file = Image[n]))
  BY <1>1, <1>2 DEF IsInput
<1>4. TableFits(m) /\ (m.vcpus = 1 /\ m.vmm = "EC2" => CpuidEarly(m))
  BY BindsAssumption
<1>5. Begins(F, q) /\ (Len(q) = Len(F) => a = Len(Regions(m)) + 1 /\ b = 0)
  BY LoadedBegins
<1>6. loaded => q = F
  <2>1. ASSUME a = Len(Regions(m)) + 1, b = 0 PROVE q = F
    <3>1. Len(Regions(m)) \in Nat /\ Upto(Regions(m))[Len(Regions(m))] = F
      BY RegionFacts
    <3>2. a \notin 1 .. Len(Regions(m))
      BY <2>1, <3>1
    <3> QED
      BY <3>1, <3>2 DEF LoadOK
  <2> QED
    BY <2>1
<1> HIDE DEF n, file, F
<1>7. IsDigest(ld, n, o)
  BY <1>3, DigestIsAny
<1>8. sev_hashes_table_gpa(o) \subseteq Nat
  <2>1. o # Failed
    BY <1>3, DigestRead
  <2>2. IsAnyRead(o, file)
    BY <1>3, <2>1, FileIsRead
  <2> QED
    BY <2>2, Zenon DEF IsAnyRead, sev_hashes_table_gpa
<1>9. Image[n] = Image[m] /\ (q = F => Boots(n) = Boots(m))
  BY <1>3, <1>4, <1>5, <1>7, <1>8, HashBinds DEF F
<1>10. n.code = m.code
  BY <1>3, <1>9, MachinesAssumption
<1>11. ASSUME file = Image[n]
       PROVE  /\ loaded /\ n.vcpus = m.vcpus /\ n.vmm = m.vmm
              /\ m.vmm = "QEMU" => sig(n.vcpu_type) = sig(m.vcpu_type)
  <2>1. hash \in {{}, {calc_snp_ovmf_hash(Image[n]).ld}}
    BY <1>3
  <2>2. snp_calc_launch_digest(Args(n, Image[n], hash)) = Gctx(q \o SaveAreas(m))
    BY <1>3, <1>11
  <2>3. /\ Len(q) = Len(F) /\ n.vcpus = m.vcpus /\ n.vmm = m.vmm
        /\ m.vmm = "QEMU" => sig(n.vcpu_type) = sig(m.vcpu_type)
    BY <1>3, <1>4, <1>5, <2>1, <2>2, CopyBinds DEF F
  <2> QED
    BY <1>5, <2>3
<1> QED
  BY <1>6, <1>9, <1>10, <1>11

(* A launch whose digest an owner calculated runs the code of the owner's   *)
(* image and, loaded to the end, boots the owner's kernel, initrd and       *)
(* command line, whatever is wrong in the owner's copy of the image if its  *)
(* hash is right; with a right copy it is loaded to the end, for the        *)
(* owner's VMM, number of CPUs and, with QEMU, signature: for any images,   *)
(* copies, pieces and failures.                                             *)
THEOREM DigestsAlwaysBind == Spec => []DigestBinds
<1>1. ASSUME Inv PROVE DigestBinds
  <2>1. SUFFICES ASSUME phase = "Done", NEW c \in Calculated
                 PROVE  LET i == c[1]
                        IN  c[2] = Gctx(guest.ld) =>
                              /\ i.machine.code = machine.code
                              /\ Loaded => Boots(i.machine) = Boots(machine)
                              /\ i.args.ovmf_file = Image[i.machine] =>
                                   /\ Loaded
                                   /\ i.machine.vcpus = machine.vcpus
                                   /\ i.machine.vmm = machine.vmm
                                   /\ machine.vmm = "QEMU" =>
                                        sig(i.machine.vcpu_type) = sig(machine.vcpu_type)
    BY Zenon DEF DigestBinds
  <2>2. PICK i \in Inputs : c = <<i, snp_calc_launch_digest(i.args)>>
    BY DEF Calculated
  <2>3. c[1] = i /\ c[2] = snp_calc_launch_digest(i.args)
    BY <2>2
  <2>4. machine \in Machines /\ pos \in Nat \X Nat /\ PartIsMeasured
    BY <1>1, <2>1 DEF Inv, Types, Ending
  <2>5. PICK q : LoadOK(q, pos[1], pos[2], machine) /\ guest.ld = q \o SaveAreas(machine)
    BY <2>4 DEF PartIsMeasured
  <2>6. Loaded <=> pos[1] = Len(Regions(machine)) + 1 /\ pos[2] = 0
    BY <2>4 DEF Loaded
  <2>7. Binds(i, machine, guest.ld, Loaded)
    <3> DEFINE a == pos[1]
               b == pos[2]
               ld == guest.ld
               loaded == Loaded
    <3>1. /\ a \in Nat /\ b \in Nat /\ LoadOK(q, a, b, machine) /\ ld = q \o SaveAreas(machine)
          /\ loaded <=> a = Len(Regions(machine)) + 1 /\ b = 0
      BY <2>4, <2>5, <2>6
    <3> HIDE DEF a, b, ld, loaded
    <3>2. Binds(i, machine, ld, loaded)
      BY <2>4, <3>1, InputBinds
    <3> QED
      BY <3>2 DEF ld, loaded
  <2> QED
    BY <2>3, <2>7, Zenon DEF Binds
<1> QED
  BY <1>1, Invariant, PTL
=============================================================================
