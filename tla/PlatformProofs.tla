--------------------------- MODULE PlatformProofs ---------------------------
(***************************************************************************)
(* Theorems about managing a platform, for any number of administrators,    *)
(* generated keys, TCB versions and masks, and about the chain of it that   *)
(* get() reads from a file, for any number of paths and any chains.         *)
(***************************************************************************)
EXTENDS HostFirmware, CachedChain, SequenceTheorems, TLAPS

(* A certificate with the two signatures s and t. *)
Cert(usage, key, s, t) == [usage |-> usage, key |-> key, sigs |-> <<s, t>>]

IsCert(c) == c = Cert(c.usage, c.key, c.sigs[1], c.sigs[2])

(* What an administrator has signed: one slot is taken, one is free. *)
IsRequest(c) == /\ c = Cert("PEK", c.key, c.sigs[1], NoSig)
                /\ c.sigs[1].usage = "OCA"

PspFields == {"state", "owned", "oca", "pek", "pdh", "used"}
IsPsp(p) == p = [f \in PspFields |-> p[f]]

(* The firmware's certificates make a chain, whoever signed the PEK. *)
Chained(p) == /\ IsCert(p.pek)
              /\ SevChainGood(Chain(PdhCertExport(p)))

PspGood(p) == /\ IsPsp(p)
              /\ p.state \in {0, 1, 2} /\ p.owned \in BOOLEAN
              /\ p.used \in 1 .. Len(KeyNames)
              /\ Chained(p)

PspOK == PspGood(psp)

CsrOK == /\ csr = [a \in Admins |-> csr[a]]
         /\ \A a \in Admins : \A c \in csr[a] : IsRequest(c)

(* The platform is owned while anyone was told so, and by that one. *)
OwnerOK == /\ owner \subseteq Admins
           /\ \A a \in owner : psp.owned /\ psp.oca = Oca(a)

SevInv == PspOK /\ CsrOK /\ ExportedVerifies /\ OwnerOK

SnpInv == snp \in [installed : Tcbs, reported : Tcbs, mask : Masks, vlek : BOOLEAN]

Rets == {"Ok", "IoError", "Uninitialized", "Initialized", "Working", "InvalidLength",
         "EmptyHashstickBuffer"}

Inv == SevInv /\ SnpInv /\ ret \in Rets

-----------------------------------------------------------------------------
(* Replacing one of two signatures. *)
LEMMA Slots ==
  ASSUME NEW usage, NEW key, NEW s, NEW t, NEW x
  PROVE  LET c == Cert(usage, key, s, t)
         IN  /\ c.sigs[1] = s /\ c.sigs[2] = t
             /\ [c EXCEPT !.sigs[1] = x] = Cert(usage, key, x, t)
             /\ [c EXCEPT !.sigs[2] = x] = Cert(usage, key, s, x)
<1>1. <<s, t>>[1] = s /\ <<s, t>>[2] = t
  OBVIOUS
<1>2. [<<s, t>> EXCEPT ![1] = x] = <<x, t>> /\ [<<s, t>> EXCEPT ![2] = x] = <<s, x>>
  OBVIOUS
<1> QED
  BY <1>1, <1>2 DEF Cert

(* Signing a certificate that nobody has signed takes the first slot. *)
LEMMA SignFirst ==
  ASSUME NEW name, NEW u, NEW usage, NEW key
  PROVE  LET c == Cert(usage, key, NoSig, NoSig)
         IN  sign(Prv(name, u), c) = Cert(usage, key, Signature(Prv(name, u), c), NoSig)
<1> DEFINE c == Cert(usage, key, NoSig, NoSig)
<1>1. is_empty(NoSig)
  BY DEF is_empty, NoSig, Usages
<1>2. sign(Prv(name, u), c) = [c EXCEPT !.sigs[1] = Signature(Prv(name, u), c)]
  BY <1>1, Slots DEF sign
<1> QED
  BY <1>2, Slots

(* Signing one that somebody has signed takes the second. *)
LEMMA SignSecond ==
  ASSUME NEW name, NEW u, NEW usage, NEW key, NEW s, s.usage \in Usages
  PROVE  LET c == Cert(usage, key, s, NoSig)
         IN  sign(Prv(name, u), c) = Cert(usage, key, s, Signature(Prv(name, u), c))
<1> DEFINE c == Cert(usage, key, s, NoSig)
<1>1. is_empty(NoSig) /\ ~is_empty(s)
  BY DEF is_empty, NoSig, Usages
<1>2. sign(Prv(name, u), c) = [c EXCEPT !.sigs[2] = Signature(Prv(name, u), c)]
  BY <1>1, Slots DEF sign
<1> QED
  BY <1>2, Slots

(* A signature in either slot verifies with its key. *)
LEMMA VerifyBySlot ==
  ASSUME NEW signer, NEW usage, NEW key, NEW s, NEW t,
         LET good == [usage |-> signer.usage, key |-> signer.key,
                      of |-> [usage |-> usage, key |-> key]]
         IN  s = good \/ t = good,
         signer.usage \in Usages
  PROVE  verify(signer, Cert(usage, key, s, t))
BY DEF Cert, verify, is_empty, PublicKey_verify, Body

(* The fields of a Cert. *)
LEMMA Fields ==
  ASSUME NEW usage, NEW key, NEW s, NEW t
  PROVE  LET c == Cert(usage, key, s, t)
         IN  c.usage = usage /\ c.key = key /\ c.sigs[1] = s /\ c.sigs[2] = t /\ IsCert(c)
<1>1. LET c == Cert(usage, key, s, t) IN c.usage = usage /\ c.key = key
  BY DEF Cert
<1> QED
  BY <1>1, Slots DEF IsCert

(* A certificate that is generated and signed once verifies with its signer, *)
(* and so it does when it is signed again.                                   *)
LEMMA SignedOnce ==
  ASSUME NEW name, NEW u \in Usages, NEW usage, NEW key
  PROVE  LET prv == Prv(name, u)
             s == [usage |-> u, key |-> <<name, u>>, of |-> [usage |-> usage, key |-> key]]
         IN  sign(prv, generate(key, usage)) = Cert(usage, key, s, NoSig)
<1>1. generate(key, usage) = Cert(usage, key, NoSig, NoSig)
  BY DEF generate, Cert
<1>2. Signature(Prv(name, u), Cert(usage, key, NoSig, NoSig))
        = [usage |-> u, key |-> <<name, u>>, of |-> [usage |-> usage, key |-> key]]
  BY Fields DEF Signature, Prv, Body
<1> QED
  BY <1>1, <1>2, SignFirst

(* An owner's certificate authority. *)
LEMMA OcaFacts ==
  ASSUME NEW name
  PROVE  /\ Oca(name).usage = "OCA" /\ Oca(name).key = <<name, "OCA">>
         /\ verify(Oca(name), Oca(name))
<1> DEFINE s == [usage |-> "OCA", key |-> <<name, "OCA">>,
                 of |-> [usage |-> "OCA", key |-> <<name, "OCA">>]]
<1>1. Oca(name) = Cert("OCA", <<name, "OCA">>, s, NoSig)
  BY SignedOnce DEF Oca, NewCert, Usages
<1>2. Oca(name).usage = "OCA" /\ Oca(name).key = <<name, "OCA">>
  BY <1>1, Fields
<1> QED
  BY <1>1, <1>2, VerifyBySlot DEF Usages

(* The CEK's signature goes to the second slot of a PEK that an OCA signed. *)
LEMMA EndorsedFacts ==
  ASSUME NEW key, NEW s, s.usage = "OCA"
  PROVE  LET pek == Endorsed(Cert("PEK", key, s, NoSig))
             t == [usage |-> "CEK", key |-> <<"chip", "CEK">>, of |-> [usage |-> "PEK", key |-> key]]
         IN  pek = Cert("PEK", key, s, t) /\ verify(NewCert("chip", "CEK"), pek)
<1> DEFINE t == [usage |-> "CEK", key |-> <<"chip", "CEK">>, of |-> [usage |-> "PEK", key |-> key]]
<1>1. Signature(Prv("chip", "CEK"), Cert("PEK", key, s, NoSig)) = t
  BY Fields DEF Signature, Prv, Body
<1>2. Endorsed(Cert("PEK", key, s, NoSig)) = Cert("PEK", key, s, t)
  BY <1>1, SignSecond DEF Endorsed, Usages
<1>3. NewCert("chip", "CEK").usage = "CEK" /\ NewCert("chip", "CEK").key = <<"chip", "CEK">>
  BY DEF NewCert, generate
<1>4. verify(NewCert("chip", "CEK"), Cert("PEK", key, s, t))
  BY <1>3, VerifyBySlot DEF Usages
<1> QED
  BY <1>2, <1>4

(* What makes the chain that is exported a good one. *)
LEMMA ChainFacts ==
  ASSUME NEW p
  PROVE  SevChainGood(Chain(PdhCertExport(p))) <=>
           /\ p.pdh.usage = "PDH" /\ p.pek.usage = "PEK" /\ p.oca.usage = "OCA"
           /\ verify(p.oca, p.oca) /\ verify(p.oca, p.pek)
           /\ verify(NewCert("chip", "CEK"), p.pek) /\ verify(p.pek, p.pdh)
<1> DEFINE cek == NewCert("chip", "CEK")
           c == Chain(PdhCertExport(p))
<1>1. <<p.pek, p.oca, cek>>[1] = p.pek /\ <<p.pek, p.oca, cek>>[2] = p.oca
      /\ <<p.pek, p.oca, cek>>[3] = cek
  OBVIOUS
<1>2. c = [PDH |-> p.pdh, PEK |-> p.pek, OCA |-> p.oca, CEK |-> cek]
  BY <1>1 DEF Chain, PdhCertExport
<1>3. c.PDH = p.pdh /\ c.PEK = p.pek /\ c.OCA = p.oca /\ c.CEK = cek
  BY <1>2
<1>4. c["PDH"] = p.pdh /\ c["PEK"] = p.pek /\ c["OCA"] = p.oca /\ c["CEK"] = cek
  BY <1>3
<1>5. cek.usage = "CEK"
  BY DEF NewCert, generate
<1>6. (\A u \in {"PDH", "PEK", "OCA", "CEK"} : c[u].usage = u) <=>
        p.pdh.usage = "PDH" /\ p.pek.usage = "PEK" /\ p.oca.usage = "OCA"
  BY <1>4, <1>5
<1>7. sev_chain_verify(c) <=> /\ verify(p.oca, p.oca) /\ verify(p.oca, p.pek)
                              /\ verify(cek, p.pek) /\ verify(p.pek, p.pdh)
  BY <1>3 DEF sev_chain_verify
<1> QED
  BY <1>6, <1>7 DEF SevChainGood

(* A PDH signed by a PEK verifies with it. *)
LEMMA PdhFacts ==
  ASSUME NEW pek, pek.usage = "PEK", NEW key
  PROVE  LET pdh == sign([usage |-> "PEK", key |-> pek.key], generate(key, "PDH"))
         IN  pdh.usage = "PDH" /\ verify(pek, pdh)
<1> DEFINE prv == [usage |-> "PEK", key |-> pek.key]
           c == Cert("PDH", key, NoSig, NoSig)
           s == [usage |-> "PEK", key |-> pek.key, of |-> [usage |-> "PDH", key |-> key]]
<1>1. generate(key, "PDH") = c
  BY DEF generate, Cert
<1>2. Signature(prv, c) = s
  BY Fields DEF Signature, Body
<1>3. is_empty(NoSig)
  BY DEF is_empty, NoSig, Usages
<1>4. sign(prv, c) = [c EXCEPT !.sigs[1] = s]
  BY <1>2, <1>3, Slots DEF sign
<1>5. sign(prv, c) = Cert("PDH", key, s, NoSig)
  BY <1>4, Slots
<1>6. verify(pek, Cert("PDH", key, s, NoSig))
  BY VerifyBySlot DEF Usages
<1> QED
  BY <1>1, <1>5, <1>6, Fields

(* The keys that the platform makes for itself are a chain. *)
LEMMA OwnKeysFacts ==
  ASSUME NEW p, IsPsp(p), NEW name
  PROVE  LET q == OwnKeys(p, name)
         IN  /\ IsPsp(q) /\ Chained(q)
             /\ q.state = p.state /\ q.owned = FALSE /\ q.used = p.used + 1
<1> DEFINE q == OwnKeys(p, name)
           s == [usage |-> "OCA", key |-> <<name, "OCA">>,
                 of |-> [usage |-> "PEK", key |-> <<name, "PEK">>]]
           pek0 == Cert("PEK", <<name, "PEK">>, s, NoSig)
           pdh == sign(Prv(name, "PEK"), NewCert(name, "PDH"))
<1>1. /\ IsPsp(q) /\ q.state = p.state /\ q.owned = FALSE /\ q.oca = Oca(name)
      /\ q.pek = Endorsed(sign(Prv(name, "OCA"), NewCert(name, "PEK")))
      /\ q.pdh = pdh /\ q.used = p.used + 1
  BY DEF IsPsp, PspFields, OwnKeys
<1>2. sign(Prv(name, "OCA"), NewCert(name, "PEK")) = pek0
  BY SignedOnce DEF NewCert, Usages
<1> DEFINE t == [usage |-> "CEK", key |-> <<"chip", "CEK">>,
                 of |-> [usage |-> "PEK", key |-> <<name, "PEK">>]]
<1>3. Endorsed(pek0) = Cert("PEK", <<name, "PEK">>, s, t) /\ verify(NewCert("chip", "CEK"), Endorsed(pek0))
  BY EndorsedFacts
<1>4. verify(Oca(name), Cert("PEK", <<name, "PEK">>, s, t))
  BY OcaFacts, VerifyBySlot DEF Usages
<1>5. Endorsed(pek0).usage = "PEK" /\ Endorsed(pek0).key = <<name, "PEK">> /\ IsCert(Endorsed(pek0))
  BY <1>3, Fields
<1>6. pdh = sign([usage |-> "PEK", key |-> Endorsed(pek0).key], generate(<<name, "PDH">>, "PDH"))
  BY <1>5 DEF Prv, NewCert
<1>7. pdh.usage = "PDH" /\ verify(Endorsed(pek0), pdh)
  BY <1>5, <1>6, PdhFacts
<1>8. q.oca = Oca(name) /\ q.pek = Endorsed(pek0) /\ q.pdh = pdh
  BY <1>1, <1>2
<1>9. Chained(q)
  BY <1>3, <1>4, <1>5, <1>7, <1>8, OcaFacts, ChainFacts DEF Chained
<1> QED
  BY <1>1, <1>9

(* A new PDH leaves the rest of the chain. *)
LEMMA OwnPdhFacts ==
  ASSUME NEW p, IsPsp(p), Chained(p), NEW name
  PROVE  LET q == OwnPdh(p, name)
         IN  /\ IsPsp(q) /\ Chained(q)
             /\ q.state = p.state /\ q.owned = p.owned /\ q.used = p.used + 1 /\ q.oca = p.oca
<1> DEFINE q == OwnPdh(p, name)
           pdh == sign([usage |-> "PEK", key |-> p.pek.key], generate(<<name, "PDH">>, "PDH"))
<1>1. /\ IsPsp(q) /\ q.state = p.state /\ q.owned = p.owned /\ q.oca = p.oca
      /\ q.pek = p.pek /\ q.pdh = pdh /\ q.used = p.used + 1
  BY DEF IsPsp, PspFields, OwnPdh, NewCert
<1>2. p.pek.usage = "PEK"
  BY ChainFacts DEF Chained
<1>3. pdh.usage = "PDH" /\ verify(p.pek, pdh)
  BY <1>2, PdhFacts
<1>4. Chained(q)
  BY <1>1, <1>3, ChainFacts DEF Chained
<1> QED
  BY <1>1, <1>4

(* Initializing the platform changes its state only. *)
LEMMA UpFacts ==
  ASSUME NEW p, IsPsp(p), p.state \in {0, 1, 2}
  PROVE  LET q == Up(p)
         IN  /\ IsPsp(q) /\ q.state \in {1, 2}
             /\ q.owned = p.owned /\ q.oca = p.oca /\ q.pek = p.pek /\ q.pdh = p.pdh
             /\ q.used = p.used
             /\ Chained(p) => Chained(q)
<1>1. /\ IsPsp(Up(p)) /\ Up(p).state = IF p.state = 0 THEN 1 ELSE p.state
      /\ Up(p).owned = p.owned /\ Up(p).oca = p.oca /\ Up(p).pek = p.pek /\ Up(p).pdh = p.pdh
      /\ Up(p).used = p.used
  BY DEF IsPsp, PspFields, Up
<1>2. Chained(p) => Chained(Up(p))
  BY <1>1, ChainFacts DEF Chained
<1> QED
  BY <1>1, <1>2

-----------------------------------------------------------------------------
(* The invariant holds before the first call. *)
LEMMA InitInv == HostInit => Inv
<1> SUFFICES ASSUME HostInit PROVE Inv
  OBVIOUS
<1>1. IsPsp(Blank) /\ Blank.state = 0 /\ Blank.used = 0
  BY DEF IsPsp, PspFields, Blank
<1>2. /\ IsPsp(psp) /\ Chained(psp)
      /\ psp.state = 0 /\ psp.owned = FALSE /\ psp.used = 0 + 1
  BY <1>1, OwnKeysFacts DEF HostInit
<1>3. PspOK
  <2>1. 0 + 1 \in 1 .. Len(KeyNames)
    BY NamesAssumption
  <2>2. psp.owned \in BOOLEAN
    BY <1>2
  <2> QED
    BY <1>2, <2>1, <2>2 DEF PspOK, PspGood
<1>4. CsrOK /\ ExportedVerifies /\ OwnerOK
  BY DEF HostInit, CsrOK, ExportedVerifies, OwnerOK
<1>5. SnpInv
  BY ConfigAssumption DEF HostInit, SnpInv
<1> QED
  BY <1>3, <1>4, <1>5 DEF HostInit, Inv, SevInv, Rets

(* An ioctl fails and changes nothing, or does what it is for. *)
LEMMA OutcomeFacts ==
  ASSUME NEW ok \in BOOLEAN, NEW p, NEW o \in Outcomes(ok, p)
  PROVE  \/ o.ok = FALSE /\ o.psp = psp
         \/ ok /\ o.ok = TRUE /\ o.psp = p
BY DEF Outcomes

(* A step that leaves requests and chain alone keeps the invariant if the   *)
(* firmware's record stays good, and with it what the owner was told.       *)
LEMMA SevStep ==
  ASSUME Inv, PspGood(psp'), csr' = csr, chain' = chain, snp' = snp, ret' \in Rets,
         \/ owner' = {}
         \/ owner' = owner /\ psp'.owned = psp.owned /\ psp'.oca = psp.oca
  PROVE  Inv'
<1>1. PspOK'
  BY DEF PspOK
<1>2. CsrOK' /\ ExportedVerifies'
  BY DEF Inv, SevInv, CsrOK, ExportedVerifies
<1>3. OwnerOK'
  BY DEF Inv, SevInv, OwnerOK
<1>4. SnpInv'
  BY DEF Inv, SnpInv
<1> QED
  BY <1>1, <1>2, <1>3, <1>4 DEF Inv, SevInv

(* A new set of keys, if there is a name left. *)
LEMMA RenewFacts ==
  ASSUME NEW p, PspGood(p), p.used = psp.used, HasName
  PROVE  PspGood(OwnKeys(p, Name)) /\ OwnKeys(p, Name).owned = FALSE
<1> DEFINE q == OwnKeys(p, Name)
<1>1. /\ IsPsp(q) /\ Chained(q)
      /\ q.state = p.state /\ q.owned = FALSE /\ q.used = p.used + 1
  BY OwnKeysFacts DEF PspGood
<1>2. p.used + 1 \in 1 .. Len(KeyNames)
  BY NamesAssumption DEF PspGood, HasName
<1> QED
  BY <1>1, <1>2 DEF PspGood

(* A reset leaves a chain of new keys, and nobody who owns it. *)
LEMMA ResetInv == Inv /\ platform_reset => Inv'
<1> SUFFICES ASSUME Inv, platform_reset PROVE Inv'
  OBVIOUS
<1> DEFINE q == OwnKeys(psp, Name)
           r == [q EXCEPT !.state = 0]
<1>1. PICK o \in Outcomes(psp.state # 2, r) :
        /\ psp' = o.psp
        /\ owner' = IF o.ok THEN {} ELSE owner
        /\ ret' = Result(o)
  BY DEF platform_reset, PLATFORM_RESET_cmd
<1>2. PspGood(psp) /\ HasName
  BY DEF platform_reset, Inv, SevInv, PspOK
<1>3. PspGood(q)
  BY <1>2, RenewFacts
<1>4. /\ IsPsp(r) /\ r.state = 0 /\ r.owned = q.owned /\ r.oca = q.oca /\ r.pek = q.pek
      /\ r.pdh = q.pdh /\ r.used = q.used
  BY <1>3 DEF PspGood, IsPsp, PspFields
<1>5. PspGood(r)
  <2>1. Chained(r)
    BY <1>3, <1>4, ChainFacts DEF PspGood, Chained
  <2> QED
    BY <2>1, <1>3, <1>4 DEF PspGood
<1>6. csr' = csr /\ chain' = chain /\ snp' = snp
  BY DEF platform_reset
<1>7. ret' \in Rets
  BY <1>1 DEF Result, Rets
<1> QED
  BY <1>1, <1>2, <1>5, <1>6, <1>7, OutcomeFacts, SevStep

(* So does a new PEK. *)
LEMMA PekGenerateInv == Inv /\ pek_generate => Inv'
<1> SUFFICES ASSUME Inv, pek_generate PROVE Inv'
  OBVIOUS
<1> DEFINE q == OwnKeys(Up(psp), Name)
<1>1. PICK o \in Outcomes(psp.state # 2, q) :
        /\ psp' = o.psp
        /\ owner' = IF o.ok THEN {} ELSE owner
        /\ ret' = Result(o)
  BY DEF pek_generate, PEK_GEN_cmd
<1>2. PspGood(psp) /\ HasName
  BY DEF pek_generate, Inv, SevInv, PspOK
<1>3. PspGood(Up(psp)) /\ Up(psp).used = psp.used
  BY <1>2, UpFacts DEF PspGood
<1>4. PspGood(q)
  BY <1>2, <1>3, RenewFacts
<1>5. csr' = csr /\ chain' = chain /\ snp' = snp
  BY DEF pek_generate
<1>6. ret' \in Rets
  BY <1>1 DEF Result, Rets
<1> QED
  BY <1>1, <1>2, <1>4, <1>5, <1>6, OutcomeFacts, SevStep

(* A new PDH leaves the owner and the rest of the chain. *)
LEMMA PdhGenerateInv == Inv /\ pdh_generate => Inv'
<1> SUFFICES ASSUME Inv, pdh_generate PROVE Inv'
  OBVIOUS
<1> DEFINE q == OwnPdh(Up(psp), Name)
<1>1. PICK o \in Outcomes(TRUE, q) : psp' = o.psp /\ ret' = Result(o)
  BY DEF pdh_generate, PDH_GEN_cmd
<1>2. PspGood(psp) /\ HasName
  BY DEF pdh_generate, Inv, SevInv, PspOK
<1>3. PspGood(Up(psp)) /\ Up(psp).used = psp.used
      /\ Up(psp).owned = psp.owned /\ Up(psp).oca = psp.oca
  BY <1>2, UpFacts DEF PspGood
<1>4. /\ IsPsp(q) /\ Chained(q)
      /\ q.state = Up(psp).state /\ q.owned = Up(psp).owned /\ q.used = Up(psp).used + 1
      /\ q.oca = Up(psp).oca
  BY <1>3, OwnPdhFacts DEF PspGood
<1>5. Up(psp).used + 1 \in 1 .. Len(KeyNames)
  BY <1>2, <1>3, NamesAssumption DEF PspGood, HasName
<1>6. PspGood(q)
  BY <1>3, <1>4, <1>5 DEF PspGood
<1>7. csr' = csr /\ chain' = chain /\ owner' = owner /\ snp' = snp
  BY DEF pdh_generate
<1>8. ret' \in Rets
  BY <1>1 DEF Result, Rets
<1> QED
  BY <1>1, <1>2, <1>3, <1>4, <1>6, <1>7, <1>8, OutcomeFacts, SevStep

(* What an administrator makes of the PEK is a request. *)
LEMMA RequestFacts ==
  ASSUME NEW a, NEW pek, IsCert(pek), pek.usage = "PEK"
  PROVE  IsRequest(sign(Prv(a, "OCA"), [pek EXCEPT !.sigs = <<NoSig, NoSig>>]))
<1> DEFINE c == Cert("PEK", pek.key, NoSig, NoSig)
           s == Signature(Prv(a, "OCA"), c)
<1>1. [pek EXCEPT !.sigs = <<NoSig, NoSig>>] = c
  BY DEF IsCert, Cert
<1>2. sign(Prv(a, "OCA"), c) = Cert("PEK", pek.key, s, NoSig)
  BY SignFirst
<1>3. s.usage = "OCA"
  BY DEF Signature, Prv
<1> QED
  BY <1>1, <1>2, <1>3, Fields DEF IsRequest

(* Asking for a request leaves the platform, and a request is one. *)
LEMMA PekCsrInv == ASSUME NEW a \in Admins PROVE Inv /\ pek_csr(a) => Inv'
<1> SUFFICES ASSUME Inv, pek_csr(a) PROVE Inv'
  OBVIOUS
<1> DEFINE c == sign(Prv(a, "OCA"), [psp.pek EXCEPT !.sigs = <<NoSig, NoSig>>])
<1>1. PICK o \in Outcomes(TRUE, Up(psp)) :
        /\ psp' = o.psp
        /\ csr' = [csr EXCEPT ![a] = IF o.ok THEN {c} ELSE {}]
        /\ ret' = Result(o)
  BY DEF pek_csr, PEK_CSR_cmd
<1>2. PspGood(psp)
  BY DEF Inv, SevInv, PspOK
<1>3. PspGood(Up(psp)) /\ Up(psp).owned = psp.owned /\ Up(psp).oca = psp.oca
  BY <1>2, UpFacts DEF PspGood
<1>4. PspGood(psp') /\ psp'.owned = psp.owned /\ psp'.oca = psp.oca
  BY <1>1, <1>2, <1>3, OutcomeFacts
<1>5. IsRequest(c)
  BY <1>2, RequestFacts, ChainFacts DEF PspGood, Chained
<1>6. CsrOK'
  BY <1>1, <1>5 DEF CsrOK, Inv, SevInv
<1>7. chain' = chain /\ owner' = owner /\ snp' = snp
  BY DEF pek_csr
<1>8. PspOK' /\ ExportedVerifies' /\ OwnerOK' /\ SnpInv'
  BY <1>4, <1>7 DEF PspOK, ExportedVerifies, OwnerOK, SnpInv, Inv, SevInv
<1>9. ret' \in Rets
  BY <1>1 DEF Result, Rets
<1> QED
  BY <1>6, <1>8, <1>9 DEF Inv, SevInv

(* What is exported is the chain of the firmware. *)
LEMMA ExportInv == Inv /\ pdh_cert_export => Inv'
<1> SUFFICES ASSUME Inv, pdh_cert_export PROVE Inv'
  OBVIOUS
<1>1. PICK o \in Outcomes(TRUE, Up(psp)) :
        /\ psp' = o.psp
        /\ chain' = IF o.ok THEN {Chain(PdhCertExport(o.psp))} ELSE {}
        /\ ret' = Result(o)
  BY DEF pdh_cert_export, PDH_CERT_EXPORT_cmd
<1>2. PspGood(psp)
  BY DEF Inv, SevInv, PspOK
<1>3. PspGood(Up(psp)) /\ Up(psp).owned = psp.owned /\ Up(psp).oca = psp.oca
  BY <1>2, UpFacts DEF PspGood
<1>4. PspGood(o.psp) /\ psp'.owned = psp.owned /\ psp'.oca = psp.oca
  BY <1>1, <1>2, <1>3, OutcomeFacts
<1>5. ExportedVerifies'
  BY <1>1, <1>4 DEF ExportedVerifies, PspGood, Chained
<1>6. csr' = csr /\ owner' = owner /\ snp' = snp
  BY DEF pdh_cert_export
<1>7. PspOK' /\ CsrOK' /\ OwnerOK' /\ SnpInv'
  BY <1>1, <1>4, <1>6 DEF PspOK, CsrOK, OwnerOK, SnpInv, Inv, SevInv
<1>8. ret' \in Rets
  BY <1>1 DEF Result, Rets
<1> QED
  BY <1>5, <1>7, <1>8 DEF Inv, SevInv

(* The firmware with a new owner's certificates. *)
Imported(p, pek, oca) == [p EXCEPT !.owned = TRUE, !.oca = oca, !.pek = Endorsed(pek)]

(* A request that the firmware accepts makes a chain with the new owner. *)
LEMMA ImportFacts ==
  ASSUME NEW p, PspGood(p), NEW pek, IsRequest(pek), NEW oca,
         Body(pek) = Body(p.pek), oca.usage = "OCA", verify(oca, oca), verify(oca, pek)
  PROVE  LET q == Imported(p, pek, oca)
         IN  PspGood(q) /\ q.owned = TRUE /\ q.oca = oca
<1> DEFINE q == Imported(p, pek, oca)
           s == pek.sigs[1]
           t == [usage |-> "CEK", key |-> <<"chip", "CEK">>,
                 of |-> [usage |-> "PEK", key |-> pek.key]]
<1>1. /\ IsPsp(q) /\ q.state = p.state /\ q.owned = TRUE /\ q.oca = oca /\ q.pek = Endorsed(pek)
      /\ q.pdh = p.pdh /\ q.used = p.used
  BY DEF Imported, IsPsp, PspFields, PspGood
<1>2. pek = Cert("PEK", pek.key, s, NoSig) /\ s.usage = "OCA"
  BY DEF IsRequest
<1>3. Endorsed(pek) = Cert("PEK", pek.key, s, t) /\ verify(NewCert("chip", "CEK"), Endorsed(pek))
  BY <1>2, EndorsedFacts
<1>4. /\ Endorsed(pek).usage = "PEK" /\ Endorsed(pek).key = pek.key /\ Endorsed(pek).sigs[1] = s
      /\ IsCert(Endorsed(pek))
  BY <1>3, Fields
<1>5. pek.usage = "PEK" /\ pek.sigs[2] = NoSig
  BY <1>2, Fields
<1>6. is_empty(NoSig) /\ ~is_empty(s)
  BY <1>2 DEF is_empty, NoSig, Usages
<1>7. PublicKey_verify(oca, pek, s)
  BY <1>5, <1>6 DEF verify
<1>8. Body(Endorsed(pek)) = Body(pek)
  BY <1>4, <1>5 DEF Body
<1>9. verify(oca, Endorsed(pek))
  BY <1>4, <1>6, <1>7, <1>8 DEF verify, PublicKey_verify
<1>10. p.pek.usage = "PEK" /\ p.pek.key = pek.key /\ p.pdh.usage = "PDH" /\ verify(p.pek, p.pdh)
  <2>1. p.pek.usage = "PEK" /\ p.pdh.usage = "PDH" /\ verify(p.pek, p.pdh)
    BY ChainFacts DEF PspGood, Chained
  <2> QED
    BY <2>1 DEF Body
<1>11. verify(Endorsed(pek), p.pdh)
  BY <1>4, <1>10 DEF verify, PublicKey_verify
<1>12. Chained(q)
  BY <1>1, <1>3, <1>4, <1>9, <1>10, <1>11, ChainFacts DEF Chained
<1>13. q.owned \in BOOLEAN
  BY <1>1
<1> QED
  BY <1>1, <1>12, <1>13 DEF PspGood

(* An import makes an owner only of one whose OCA is then in the chain. *)
LEMMA ImportInv == ASSUME NEW a \in Admins PROVE Inv /\ pek_cert_import(a) => Inv'
<1> SUFFICES ASSUME Inv, pek_cert_import(a) PROVE Inv'
  OBVIOUS
<1>1. PICK pek \in csr[a] : \E o \in PEK_CERT_IMPORT_cmd(PekCertImport(pek, Oca(a))) :
        /\ psp' = o.psp
        /\ owner' = IF o.ok THEN owner \cup {a} ELSE owner
        /\ ret' = Result(o)
  BY DEF pek_cert_import
<1> DEFINE ok == /\ psp.state # 2
                 /\ ~psp.owned
                 /\ Body(pek) = Body(psp.pek)
                 /\ Oca(a).usage = "OCA"
                 /\ verify(Oca(a), Oca(a)) /\ verify(Oca(a), pek)
           q == Imported(Up(psp), pek, Oca(a))
<1>2. PEK_CERT_IMPORT_cmd(PekCertImport(pek, Oca(a))) = Outcomes(ok, q)
  <2>1. PekCertImport(pek, Oca(a)).pek = pek /\ PekCertImport(pek, Oca(a)).oca = Oca(a)
    BY DEF PekCertImport
  <2> QED
    BY <2>1 DEF PEK_CERT_IMPORT_cmd, Imported
<1>3. PICK o \in Outcomes(ok, q) :
        /\ psp' = o.psp
        /\ owner' = IF o.ok THEN owner \cup {a} ELSE owner
        /\ ret' = Result(o)
  BY <1>1, <1>2
<1>4. csr' = csr /\ chain' = chain /\ snp' = snp
  BY DEF pek_cert_import
<1>5. ret' \in Rets
  BY <1>3 DEF Result, Rets
<1>6. PspGood(psp) /\ IsRequest(pek)
  BY DEF Inv, SevInv, PspOK, CsrOK
<1>7. CASE o.ok = FALSE /\ o.psp = psp
  BY <1>3, <1>4, <1>5, <1>6, <1>7, SevStep
<1>8. CASE ok /\ o.ok = TRUE /\ o.psp = q
  <2>1. PspGood(Up(psp)) /\ Body(pek) = Body(Up(psp).pek)
    BY <1>6, <1>8, UpFacts DEF PspGood
  <2>2. PspGood(psp') /\ psp'.owned = TRUE /\ psp'.oca = Oca(a)
    <3>1. Oca(a).usage = "OCA" /\ verify(Oca(a), Oca(a)) /\ verify(Oca(a), pek)
      BY <1>8
    <3>2. PspGood(q) /\ q.owned = TRUE /\ q.oca = Oca(a)
      <4> DEFINE p == Up(psp)
                 oca == Oca(a)
      <4>1. PspGood(p) /\ IsRequest(pek) /\ Body(pek) = Body(p.pek)
        BY <1>6, <2>1
      <4>2. oca.usage = "OCA" /\ verify(oca, oca) /\ verify(oca, pek)
        BY <3>1
      <4>3. q = Imported(p, pek, oca)
        OBVIOUS
      <4> HIDE DEF p, oca, q
      <4>4. LET r == Imported(p, pek, oca) IN PspGood(r) /\ r.owned = TRUE /\ r.oca = oca
        BY <4>1, <4>2, ImportFacts
      <4> QED
        BY <4>3, <4>4 DEF oca
    <3>3. psp' = q
      BY <1>3, <1>8
    <3> HIDE DEF q
    <3> QED
      BY <3>2, <3>3
  <2>3. owner = {}
    BY <1>8 DEF Inv, SevInv, OwnerOK
  <2>4. owner' = {a}
    BY <1>3, <1>8, <2>3
  <2>5. OwnerOK'
    BY <2>2, <2>4 DEF OwnerOK
  <2>6. CsrOK' /\ ExportedVerifies' /\ SnpInv'
    BY <1>4 DEF CsrOK, ExportedVerifies, SnpInv, Inv, SevInv
  <2> QED
    BY <1>5, <2>2, <2>5, <2>6 DEF Inv, SevInv, PspOK
<1>9. ok \in BOOLEAN
  OBVIOUS
<1> QED
  BY <1>7, <1>8, <1>9, <1>3, OutcomeFacts

(* Guests come and go. *)
LEMMA GuestInv == Inv /\ GuestRuns => Inv'
<1> SUFFICES ASSUME Inv, GuestRuns PROVE Inv'
  OBVIOUS
<1>1. PICK st \in {1, 2} : psp' = [psp EXCEPT !.state = st]
  BY DEF GuestRuns
<1>2. PspGood(psp)
  BY DEF Inv, SevInv, PspOK
<1>3. /\ IsPsp(psp') /\ psp'.state = st /\ psp'.owned = psp.owned /\ psp'.oca = psp.oca
      /\ psp'.pek = psp.pek /\ psp'.pdh = psp.pdh /\ psp'.used = psp.used
  BY <1>1, <1>2 DEF IsPsp, PspFields, PspGood
<1>4. Chained(psp')
  BY <1>2, <1>3, ChainFacts DEF PspGood, Chained
<1>5. PspGood(psp')
  BY <1>2, <1>3, <1>4 DEF PspGood
<1>6. csr' = csr /\ chain' = chain /\ owner' = owner /\ snp' = snp /\ ret' \in Rets
  BY DEF GuestRuns, Inv
<1> QED
  BY <1>3, <1>5, <1>6, SevStep

(* Calls that ask. *)
LEMMA AskInv == Inv /\ (platform_status \/ get_identifier \/ snp_platform_status) => Inv'
<1> SUFFICES ASSUME Inv, platform_status \/ get_identifier \/ snp_platform_status PROVE Inv'
  OBVIOUS
<1>1. UNCHANGED sevVars /\ snp' = snp
  BY DEF platform_status, get_identifier, snp_platform_status
<1>2. PspGood(psp)
  BY DEF Inv, SevInv, PspOK
<1>3. ret' \in Rets
  <2>1. CASE platform_status
    <3>1. PICK o \in Outcomes(TRUE, psp) : ret' = IF o.ok THEN State(o.psp.state) ELSE "IoError"
      BY <2>1 DEF platform_status
    <3>2. o.psp = psp
      BY OutcomeFacts
    <3>3. State(psp.state) \in Rets
      BY <1>2 DEF State, Rets, PspGood
    <3> QED
      BY <3>1, <3>2, <3>3 DEF Rets
  <2>2. CASE get_identifier \/ snp_platform_status
    BY <2>2 DEF get_identifier, snp_platform_status, Rets
  <2> QED
    BY <2>1, <2>2
<1> QED
  BY <1>1, <1>2, <1>3, SevStep DEF sevVars

-----------------------------------------------------------------------------
(* The commands for SNP leave the SEV firmware alone. *)
LEMMA SnpStep ==
  ASSUME Inv, UNCHANGED sevVars, SnpInv', ret' \in Rets
  PROVE  Inv'
<1>1. PspOK' /\ CsrOK' /\ ExportedVerifies' /\ OwnerOK'
  BY DEF Inv, SevInv, sevVars, PspOK, CsrOK, ExportedVerifies, OwnerOK
<1> QED
  BY <1>1 DEF Inv, SevInv

(* More is installed, and what is reported stays. *)
LEMMA InstallInv == Inv /\ Install => Inv'
<1> SUFFICES ASSUME Inv, Install PROVE Inv'
  OBVIOUS
<1>1. PICK t \in Tcbs : t > snp.installed /\ snp' = [snp EXCEPT !.installed = t]
  BY DEF Install
<1>2. UNCHANGED sevVars /\ ret' = ret
  BY DEF Install
<1>3. SnpInv'
  BY <1>1 DEF Inv, SnpInv
<1> QED
  BY <1>2, <1>3, SnpStep DEF Inv

(* What a new report leaves is of its type. *)
LEMMA ReportFacts ==
  ASSUME SnpInv, NEW t \in Tcbs, NEW m \in Masks
  PROVE  Reports(t, m) \in [installed : Tcbs, reported : Tcbs, mask : Masks, vlek : BOOLEAN]
<1>1. (snp.vlek /\ t = snp.reported) \in BOOLEAN
  OBVIOUS
<1> QED
  BY <1>1 DEF SnpInv, Reports

(* A commit reports what is installed. *)
LEMMA CommitInv == Inv /\ snp_commit => Inv'
<1> SUFFICES ASSUME Inv, snp_commit PROVE Inv'
  OBVIOUS
<1>1. UNCHANGED sevVars
  BY DEF snp_commit
<1>2. SnpInv
  BY DEF Inv
<1>3. CASE snp' = snp /\ ret' = "IoError"
  <2>1. SnpInv'
    BY <1>2, <1>3 DEF SnpInv
  <2> QED
    BY <1>1, <1>3, <2>1, SnpStep DEF Rets
<1>4. CASE snp' = Reports(snp.installed, snp.mask) /\ ret' = "Ok"
  <2>1. SnpInv'
    BY <1>2, <1>4, ReportFacts DEF SnpInv
  <2> QED
    BY <1>1, <1>4, <2>1, SnpStep DEF Rets
<1> QED
  BY <1>3, <1>4 DEF snp_commit

(* What is set is what is reported, unless it is more than installed. *)
LEMMA SetConfigInv ==
  ASSUME NEW t \in Tcbs, NEW m \in Masks
  PROVE  Inv /\ snp_set_config(Config(t, m)) => Inv'
<1> SUFFICES ASSUME Inv, snp_set_config(Config(t, m)) PROVE Inv'
  OBVIOUS
<1>1. UNCHANGED sevVars
  BY DEF snp_set_config
<1>2. SnpInv
  BY DEF Inv
<1>3. SnpSetConfig(Config(t, m)).reported_tcb = t /\ SnpSetConfig(Config(t, m)).mask_id = m
  BY DEF SnpSetConfig, Config
<1>4. CASE snp' = snp /\ ret' = "IoError"
  <2>1. SnpInv'
    BY <1>2, <1>4 DEF SnpInv
  <2> QED
    BY <1>1, <1>4, <2>1, SnpStep DEF Rets
<1>5. CASE t <= snp.installed /\ snp' = Reports(t, m) /\ ret' = "Ok"
  <2>1. SnpInv'
    BY <1>2, <1>5, ReportFacts DEF SnpInv
  <2> QED
    BY <1>1, <1>5, <2>1, SnpStep DEF Rets
<1> QED
  BY <1>3, <1>4, <1>5 DEF snp_set_config

(* A hashstick changes nothing of the configuration. *)
LEMMA VlekLoadInv ==
  ASSUME NEW bytes \in Hashsticks
  PROVE  Inv /\ snp_vlek_load(bytes) => Inv'
<1> SUFFICES ASSUME Inv, snp_vlek_load(bytes) PROVE Inv'
  OBVIOUS
<1>1. UNCHANGED sevVars
  BY DEF snp_vlek_load
<1>2. snp' = snp \/ snp' = [snp EXCEPT !.vlek = TRUE]
  BY DEF snp_vlek_load
<1>3. SnpInv'
  BY <1>2 DEF Inv, SnpInv
<1>4. ret' \in Rets
  BY DEF snp_vlek_load, HashstickError, Hashsticks, Rets
<1> QED
  BY <1>1, <1>3, <1>4, SnpStep

(* Every call keeps the invariant. *)
LEMMA StepInv == Inv /\ [NextSev \/ NextSnp]_hostVars => Inv'
<1> SUFFICES ASSUME Inv, [NextSev \/ NextSnp]_hostVars PROVE Inv'
  OBVIOUS
<1>1. CASE NextSev
  BY <1>1, GuestInv, ResetInv, AskInv, PekGenerateInv, PdhGenerateInv, ExportInv, PekCsrInv,
     ImportInv DEF NextSev
<1>2. CASE NextSnp
  BY <1>2, InstallInv, AskInv, CommitInv, SetConfigInv, VlekLoadInv DEF NextSnp
<1>3. CASE UNCHANGED hostVars
  <2>1. UNCHANGED sevVars /\ snp' = snp /\ ret' = ret
    BY <1>3 DEF hostVars
  <2>2. SnpInv'
    BY <2>1 DEF Inv, SnpInv
  <2> QED
    BY <2>1, <2>2, SnpStep DEF Inv
<1> QED
  BY <1>1, <1>2, <1>3

(* The invariant of every behaviour of the platform. *)
LEMMA HostInv == HostSpec => []Inv
BY InitInv, StepInv, PTL DEF HostSpec

-----------------------------------------------------------------------------
(* Every state that the firmware reports in its status is one that          *)
(* platform_status() knows, and the other state keeps its type.             *)
THEOREM HostTypeCorrect == HostSpec => []HostTypeOK
<1>1. Inv => HostTypeOK
  BY DEF Inv, SevInv, PspOK, PspGood, OwnerOK, SnpInv, Rets, HostTypeOK
<1> QED
  BY <1>1, HostInv, PTL

(* What pdh_cert_export() returns verifies, and has each certificate where  *)
(* Chain has it, however many administrators reset, renew and import.       *)
THEOREM ExportsVerify == HostSpec => []ExportedVerifies
<1>1. Inv => ExportedVerifies
  BY DEF Inv, SevInv
<1> QED
  BY <1>1, HostInv, PTL

(* Whoever pek_cert_import() told that they own the platform signed the     *)
(* chain that it exports, until it is reset or has a new PEK.               *)
THEOREM OwnersAreInChain == HostSpec => []OwnerInChain
<1>1. Inv => OwnerInChain
  <2> SUFFICES ASSUME Inv, NEW a \in owner
               PROVE  LET c == Chain(PdhCertExport(psp))
                      IN  c.OCA = Oca(a) /\ SevChainGood(c)
    BY DEF OwnerInChain
  <2>1. psp.oca = Oca(a) /\ SevChainGood(Chain(PdhCertExport(psp)))
    BY DEF Inv, SevInv, OwnerOK, PspOK, PspGood, Chained
  <2>2. <<psp.pek, psp.oca, NewCert("chip", "CEK")>>[2] = psp.oca
    OBVIOUS
  <2>3. Chain(PdhCertExport(psp)).OCA = psp.oca
    BY <2>2 DEF Chain, PdhCertExport
  <2> QED
    BY <2>1, <2>3
<1> QED
  BY <1>1, HostInv, PTL

-----------------------------------------------------------------------------
(* The cached chain. *)

GetFields == {"pc", "i", "unlinked", "got", "error"}
IsGet(g) == g = [f \in GetFields |-> g[f]] /\ g.i \in 1 .. Paths

IsSince(s) == /\ s = [f \in {"stood", "touched", "removed"} |-> s[f]]
              /\ s.stood \subseteq 1 .. Paths /\ s.removed \subseteq 1 .. Paths

CacheTypeOK == /\ IsGet(get) /\ IsSince(since)
               /\ file = [i \in 1 .. Paths |-> file[i]]

(* A file that was there at the call is there, unless it was removed. *)
Stays(f, s) == \A j \in s.stood : f[j] # {} \/ j \in s.removed

(* Every earlier file was removed before get() looked for it. *)
Passed(g, s) == \A j \in s.stood : j < g.i => j \in s.removed

(* What get() knows of the files while it looks for one. *)
Looking(f, g, s) ==
  /\ g.pc = "exists" => Passed(g, s) /\ g.error = {}
  /\ g.pc = "open" => Passed(g, s) /\ g.error = {} /\ (f[g.i] # {} \/ g.i \in s.removed)
  /\ g.pc \in {"idle", "decode"} => g.error = {}

(* All that stood was removed, or what was found and all before it. *)
Missed(g, s) == s.stood \subseteq s.removed \/ (g.i \in s.removed /\ Passed(g, s))

CacheInv ==
  /\ CacheTypeOK
  /\ Stays(file, since)
  /\ Looking(file, get, since)
  /\ FindsWhatStood

-----------------------------------------------------------------------------
(* More may have been removed. *)
LEMMA MissedGrows ==
  ASSUME NEW g, NEW h, NEW s, NEW t, Missed(g, s), h.i = g.i,
         t.stood = s.stood, s.removed \subseteq t.removed
  PROVE  Missed(h, t)
BY DEF Missed, Passed

(* A failed get() *)
LEMMA FailFacts ==
  ASSUME IsGet(get), NEW error
  PROVE  /\ IsGet(Fail(error)) /\ Fail(error).pc = "done" /\ Fail(error).error = error
         /\ Fail(error).i = get.i
BY DEF IsGet, GetFields, Fail

(* One piece more. *)
LEMMA GotFacts ==
  ASSUME IsGet(get), NEW x
  PROVE  IsGet(Got(x)) /\ Got(x).pc \in {"done", get.pc} /\ Got(x).error = get.error
BY DEF IsGet, GetFields, Got

(* The property, in terms of Missed. *)
LEMMA Finds == FindsWhatStood <=> (get.error = {"NotFound"} => Missed(get, since))
BY DEF FindsWhatStood, Missed, Passed

-----------------------------------------------------------------------------
(* Nothing is cached, and nobody reads. *)
LEMMA CacheInitInv == CacheInit => CacheInv
<1> SUFFICES ASSUME CacheInit PROVE CacheInv
  OBVIOUS
<1>1. IsGet(Idle) /\ Idle.pc = "idle" /\ Idle.error = {}
  BY PathsAssumption DEF IsGet, GetFields, Idle
<1>2. IsSince(Calm) /\ Calm.stood = {}
  BY DEF IsSince, Calm
<1>3. CacheTypeOK
  BY <1>1, <1>2 DEF CacheInit, CacheTypeOK
<1>4. Stays(file, since) /\ Looking(file, get, since) /\ FindsWhatStood
  BY <1>1, <1>2 DEF CacheInit, Stays, Looking, FindsWhatStood
<1> QED
  BY <1>3, <1>4 DEF CacheInv

(* What a tool's step records. *)
LEMMA TouchFacts ==
  ASSUME IsSince(since), NEW i \in 1 .. Paths, NEW gone \in SUBSET {i}, Touch(i, gone)
  PROVE  /\ IsSince(since') /\ since'.stood = since.stood
         /\ since'.removed = since.removed \cup gone
BY DEF IsSince, Touch

(* A tool's step: a file is written, or removed, which is recorded. *)
LEMMA ToolStep ==
  ASSUME CacheInv, NEW i \in 1 .. Paths, NEW gone \in SUBSET {i}, Touch(i, gone), NEW x,
         file' = [file EXCEPT ![i] = x], x # {} \/ i \in gone,
         IsGet(get'), get'.pc = get.pc, get'.i = get.i, get'.error = get.error
  PROVE  CacheInv'
<1>1. IsGet(get) /\ IsSince(since) /\ file = [j \in 1 .. Paths |-> file[j]]
  BY DEF CacheInv, CacheTypeOK
<1>2. /\ IsSince(since') /\ since'.stood = since.stood
      /\ since'.removed = since.removed \cup gone
  BY <1>1, TouchFacts
<1>3. file' = [j \in 1 .. Paths |-> file'[j]]
  BY <1>1
<1>4. \A j \in 1 .. Paths : file[j] # {} => file'[j] # {} \/ j \in gone
  BY <1>1
<1>5. CacheTypeOK'
  BY <1>2, <1>3 DEF CacheTypeOK
<1>6. Stays(file', since')
  BY <1>1, <1>2, <1>4 DEF CacheInv, Stays, IsSince
<1>7. Passed(get, since) => Passed(get', since')
  BY <1>2 DEF Passed
<1>8. get.i \in 1 .. Paths
  BY <1>1 DEF IsGet
<1>9. Looking(file', get', since')
  BY <1>2, <1>4, <1>7, <1>8 DEF CacheInv, Looking
<1>10. get'.error = {"NotFound"} => Missed(get', since')
  BY <1>2, Finds, MissedGrows DEF CacheInv
<1>11. FindsWhatStood'
  BY <1>10 DEF FindsWhatStood, Missed, Passed
<1> QED
  BY <1>5, <1>6, <1>9, <1>11 DEF CacheInv

(* A tool creates, writes or removes a file. *)
LEMMA ToolInv == CacheInv /\ Tool => CacheInv'
<1> SUFFICES ASSUME CacheInv, NEW i \in 1 .. Paths,
                    Write(i) \/ Remove(i) \/ \E c \in Chains : Create(i, c)
             PROVE  CacheInv'
  BY DEF Tool
<1>1. IsGet(get)
  BY DEF CacheInv, CacheTypeOK
<1>2. CASE Write(i)
  <2>1. PICK f \in file[i], n \in 1 .. PIECES : file' = [file EXCEPT ![i] = {[f EXCEPT !.n = n]}]
    BY <1>2 DEF Write
  <2>2. Touch(i, {}) /\ get' = get
    BY <1>2 DEF Write
  <2> QED
    BY <1>1, <2>1, <2>2, ToolStep
<1>3. CASE \E c \in Chains : Create(i, c)
  <2>1. PICK c \in Chains : Create(i, c)
    BY <1>3
  <2>2. file' = [file EXCEPT ![i] = {[chain |-> c, n |-> 0]}] /\ Touch(i, {}) /\ get' = get
    BY <2>1 DEF Create
  <2> QED
    BY <1>1, <2>2, ToolStep
<1>4. CASE Remove(i)
  <2>1. file' = [file EXCEPT ![i] = {}] /\ Touch(i, {i})
    BY <1>4 DEF Remove
  <2>2. get' = get \/ get' = [get EXCEPT !.unlinked = file[i]]
    BY <1>4 DEF Remove
  <2>3. IsGet(get') /\ get'.pc = get.pc /\ get'.i = get.i /\ get'.error = get.error
    BY <1>1, <2>2 DEF IsGet, GetFields
  <2> QED
    BY <2>1, <2>3, ToolStep
<1> QED
  BY <1>2, <1>3, <1>4

(* The reader's steps leave the files alone, and all but the call and the   *)
(* return what was recorded.                                                *)
LEMMA ReaderStep ==
  ASSUME CacheInv, file' = file, since' = since, IsGet(get'), Looking(file, get', since),
         get'.error = {"NotFound"} => Missed(get', since)
  PROVE  CacheInv'
<1>1. CacheTypeOK' /\ Stays(file', since') /\ Looking(file', get', since')
  BY DEF CacheInv, CacheTypeOK
<1>2. FindsWhatStood'
  BY DEF FindsWhatStood, Missed, Passed
<1> QED
  BY <1>1, <1>2 DEF CacheInv

(* get() is called. *)
LEMMA CallInv == CacheInv /\ get_call => CacheInv'
<1> SUFFICES ASSUME CacheInv, get_call PROVE CacheInv'
  OBVIOUS
<1>1. file' = file /\ file = [j \in 1 .. Paths |-> file[j]]
  BY DEF get_call, CacheInv, CacheTypeOK
<1>2. IsGet(get') /\ get'.pc = "exists" /\ get'.i = 1 /\ get'.error = {}
  BY PathsAssumption DEF get_call, IsGet, GetFields, Idle
<1>3. /\ IsSince(since') /\ since'.stood = {i \in 1 .. Paths : Exists(i)}
      /\ since'.removed = {}
  BY DEF get_call, IsSince, Calm
<1>4. CacheTypeOK'
  BY <1>1, <1>2, <1>3 DEF CacheTypeOK
<1>5. Stays(file', since')
  BY <1>1, <1>3 DEF Stays, Exists
<1>6. Passed(get', since')
  BY <1>2, <1>3, PathsAssumption DEF Passed
<1>7. Looking(file', get', since') /\ FindsWhatStood'
  BY <1>2, <1>6 DEF Looking, FindsWhatStood
<1> QED
  BY <1>4, <1>5, <1>7 DEF CacheInv

(* It looks at one path. *)
LEMMA ExistsInv == CacheInv /\ exists => CacheInv'
<1> SUFFICES ASSUME CacheInv, exists PROVE CacheInv'
  OBVIOUS
<1>1. file' = file /\ since' = since /\ get.pc = "exists"
  BY DEF exists
<1>2. IsGet(get) /\ IsSince(since) /\ Stays(file, since) /\ Passed(get, since) /\ get.error = {}
  BY <1>1 DEF CacheInv, CacheTypeOK, Looking
<1>3. get.i \in 1 .. Paths
  BY <1>2 DEF IsGet
<1>4. CASE Exists(get.i)
  <2>1. get' = [get EXCEPT !.pc = "open"]
    BY <1>4 DEF exists
  <2>2. IsGet(get') /\ get'.pc = "open" /\ get'.i = get.i /\ get'.error = {}
    BY <1>2, <2>1 DEF IsGet, GetFields
  <2>3. Looking(file, get', since)
    BY <1>2, <1>4, <2>2 DEF Looking, Passed, Exists
  <2> QED
    BY <1>1, <2>2, <2>3, ReaderStep
<1>5. CASE ~Exists(get.i)
  <2>1. get.i \in since.stood => get.i \in since.removed
    BY <1>2, <1>5 DEF Stays, Exists
  <2>2. CASE get.i < Paths
    <3>1. get' = [get EXCEPT !.i = @ + 1]
      BY <1>5, <2>2 DEF exists
    <3>2. get.i + 1 \in 1 .. Paths
      BY <1>3, <2>2, PathsAssumption
    <3>3. IsGet(get') /\ get'.pc = "exists" /\ get'.i = get.i + 1 /\ get'.error = {}
      BY <1>1, <1>2, <3>1, <3>2 DEF IsGet, GetFields
    <3>4. Passed(get', since)
      BY <1>2, <1>3, <2>1, <3>3, PathsAssumption DEF Passed, IsSince
    <3>5. Looking(file, get', since)
      BY <3>3, <3>4 DEF Looking
    <3> QED
      BY <1>1, <3>3, <3>5, ReaderStep
  <2>3. CASE ~ (get.i < Paths)
    <3>1. get' = Fail({"NotFound"})
      BY <1>5, <2>3 DEF exists
    <3>2. IsGet(get') /\ get'.pc = "done"
      BY <1>2, <3>1, FailFacts
    <3>3. Looking(file, get', since)
      BY <3>2 DEF Looking
    <3>4. Missed(get', since)
      <4>1. \A j \in since.stood : j < get.i \/ j = get.i
        BY <1>2, <1>3, <2>3, PathsAssumption DEF IsSince
      <4> QED
        BY <1>2, <2>1, <4>1 DEF Missed, Passed
    <3> QED
      BY <1>1, <3>2, <3>3, <3>4, ReaderStep
  <2> QED
    BY <2>2, <2>3
<1> QED
  BY <1>4, <1>5

(* It opens the file, which may be gone. *)
LEMMA OpenInv == CacheInv /\ open => CacheInv'
<1> SUFFICES ASSUME CacheInv, open PROVE CacheInv'
  OBVIOUS
<1>1. file' = file /\ since' = since /\ get.pc = "open"
  BY DEF open
<1>2. /\ IsGet(get) /\ IsSince(since) /\ Passed(get, since) /\ get.error = {}
      /\ file[get.i] # {} \/ get.i \in since.removed
  BY <1>1 DEF CacheInv, CacheTypeOK, Looking
<1>3. CASE Exists(get.i)
  <2>1. get' = [get EXCEPT !.pc = "decode"]
    BY <1>3 DEF open
  <2>2. IsGet(get') /\ get'.pc = "decode" /\ get'.error = {}
    BY <1>2, <2>1 DEF IsGet, GetFields
  <2>3. Looking(file, get', since)
    BY <2>2 DEF Looking
  <2> QED
    BY <1>1, <2>2, <2>3, ReaderStep
<1>4. CASE ~Exists(get.i)
  <2>1. get' = Fail({"NotFound"})
    BY <1>4 DEF open
  <2>2. IsGet(get') /\ get'.pc = "done" /\ get'.i = get.i
    BY <1>2, <2>1, FailFacts
  <2>3. Looking(file, get', since)
    BY <2>2 DEF Looking
  <2>4. Missed(get', since)
    BY <1>2, <1>4, <2>2 DEF Missed, Passed, Exists
  <2> QED
    BY <1>1, <2>2, <2>3, <2>4, ReaderStep
<1> QED
  BY <1>3, <1>4

(* Decoding does not fail with NotFound. *)
LEMMA DecodeInv == CacheInv /\ decode => CacheInv'
<1> SUFFICES ASSUME CacheInv, decode PROVE CacheInv'
  OBVIOUS
<1>1. file' = file /\ since' = since /\ get.pc = "decode"
  BY DEF decode
<1>2. IsGet(get) /\ get.error = {}
  BY <1>1 DEF CacheInv, CacheTypeOK, Looking
<1>3. (\E x : get' = Got(x))
      \/ \E e \in {{"InvalidData"}, {"UnexpectedEof"}, {"panic"}} : get' = Fail(e)
  <2>1. PICK f : LET k == Len(get.got) + 1
                     there == f.n >= (IF Skewed THEN k - 1 ELSE k)
                     inj == Injected(get.got[k - 1])
                 IN  get' = CASE there /\ Skewed -> Fail({"InvalidData"})
                              [] there /\ ~Skewed -> Got(Piece(f.chain, k))
                              [] ~there /\ ~CaSignature(k) -> Fail({"UnexpectedEof"})
                              [] ~there /\ CaSignature(k) /\ inj.error = {} -> Got(inj.sig)
                              [] ~there /\ CaSignature(k) /\ inj.error # {} -> Fail(inj.error)
    BY DEF decode
  <2> DEFINE k == Len(get.got) + 1
             there == f.n >= (IF Skewed THEN k - 1 ELSE k)
             inj == Injected(get.got[k - 1])
  <2>2. inj.error # {} => inj.error = {"panic"}
    BY DEF Injected
  <2>3. CASE there /\ Skewed
    BY <2>1, <2>3, Zenon
  <2>4. CASE there /\ ~Skewed
    BY <2>1, <2>4, Zenon
  <2>5. CASE ~there /\ ~CaSignature(k)
    BY <2>1, <2>5, Zenon
  <2>6. CASE ~there /\ CaSignature(k) /\ inj.error = {}
    BY <2>1, <2>6, Zenon
  <2>7. CASE ~there /\ CaSignature(k) /\ inj.error # {}
    BY <2>1, <2>2, <2>7, Zenon
  <2> QED
    BY <2>3, <2>4, <2>5, <2>6, <2>7
<1>4. /\ IsGet(get') /\ get'.pc \in {"decode", "done"} /\ get'.error # {"NotFound"}
      /\ get'.pc = "decode" => get'.error = {}
  BY <1>1, <1>2, <1>3, GotFacts, FailFacts
<1>5. Looking(file, get', since)
  BY <1>4 DEF Looking
<1> QED
  BY <1>1, <1>4, <1>5, ReaderStep

(* get() has returned. *)
LEMMA ReturnInv == CacheInv /\ get_return => CacheInv'
<1> SUFFICES ASSUME CacheInv, get_return PROVE CacheInv'
  OBVIOUS
<1>1. file' = file /\ get' = Idle /\ since' = Calm
  BY DEF get_return
<1>2. IsGet(Idle) /\ Idle.pc = "idle" /\ Idle.error = {}
  BY PathsAssumption DEF IsGet, GetFields, Idle
<1>3. IsSince(Calm) /\ Calm.stood = {}
  BY DEF IsSince, Calm
<1>4. CacheTypeOK'
  BY <1>1, <1>2, <1>3 DEF CacheTypeOK, CacheInv
<1>5. Stays(file', since') /\ Looking(file', get', since') /\ FindsWhatStood'
  BY <1>1, <1>2, <1>3 DEF Stays, Looking, FindsWhatStood
<1> QED
  BY <1>4, <1>5 DEF CacheInv

(* Every step of a tool and of get() preserves the invariant. *)
LEMMA CacheStepInv == CacheInv /\ [CacheNext]_cacheVars => CacheInv'
<1> SUFFICES ASSUME CacheInv, [CacheNext]_cacheVars PROVE CacheInv'
  OBVIOUS
<1>1. CASE Tool
  BY <1>1, ToolInv
<1>2. CASE Reader
  BY <1>2, CallInv, ExistsInv, OpenInv, DecodeInv, ReturnInv DEF Reader
<1>3. CASE UNCHANGED cacheVars
  <2>1. file' = file /\ get' = get /\ since' = since
    BY <1>3 DEF cacheVars
  <2> QED
    BY <2>1, ReaderStep, Finds DEF CacheInv, CacheTypeOK
<1> QED
  BY <1>1, <1>2, <1>3 DEF CacheNext

(* get() says NotFound only if all that stood when it was called has been   *)
(* removed, or the file it had found was removed before it opened it, and   *)
(* every earlier one before it looked there, in whatever order it and a     *)
(* tool take steps.                                                         *)
THEOREM NothingIsMissed == CacheSpec => []FindsWhatStood
<1>1. CacheInv => FindsWhatStood
  BY DEF CacheInv
<1> QED
  BY <1>1, CacheInitInv, CacheStepInv, PTL DEF CacheSpec

-----------------------------------------------------------------------------
(* What is read of a file, and what of files that change under the reader.  *)

(* A signature that the key makes of a body. *)
Sig(usage, key, body) == [usage |-> usage, key |-> key, of |-> body]

(* What a chain's certificates, made for each other, say of each other. *)
LEMMA ChainSigs ==
  ASSUME NEW c \in Chains
  PROVE  /\ c.PDH.sigs[1].usage = "PEK" => c.PDH.sigs[1].key = c.PEK.key
         /\ c.PDH.sigs[2].usage = "PEK" => c.PDH.sigs[2].key = c.PEK.key
         /\ c.PEK.usage = "PEK"
         /\ c.PEK.sigs[1].usage = "CEK" => c.PEK.sigs[1].key = c.CEK.key
         /\ c.PEK.sigs[2].usage = "CEK" => c.PEK.sigs[2].key = c.CEK.key
         /\ c.CEK.usage = "CEK"
         /\ c.CEK.sigs[1].usage = "ASK" => c.CEK.sigs[1].key = c.ASK.key
         /\ c.CEK.sigs[2].usage = "ASK" => c.CEK.sigs[2].key = c.ASK.key
<1> DEFINE o == c.OCA.key[1]
           ca == c.ASK.key[1]
           pdh == c.PDH.key[1]
           pek == c.PEK.key[1]
           chip == c.CEK.key[1]
<1>1. /\ c.ASK = CaCert(ca, "ASK")
      /\ c.CEK = sign(Prv(ca, "ASK"), NewCert(chip, "CEK"))
      /\ c.PEK \in {sign(Prv(chip, "CEK"), sign(Prv(o, "OCA"), NewCert(pek, "PEK"))),
                    sign(Prv(o, "OCA"), sign(Prv(chip, "CEK"), NewCert(pek, "PEK")))}
      /\ c.PDH = sign(Prv(pek, "PEK"), NewCert(pdh, "PDH"))
  BY ChainsAssumption DEF Made
<1> HIDE DEF o, ca, pdh, pek, chip
<1>2. NoSig.usage = "INV"
  BY DEF NoSig
<1> DEFINE OfPek(u, name) == Sig(u, <<name, u>>, [usage |-> "PEK", key |-> <<pek, "PEK">>])
<1>3. /\ c.PDH = Cert("PDH", <<pdh, "PDH">>,
                      Sig("PEK", <<pek, "PEK">>, [usage |-> "PDH", key |-> <<pdh, "PDH">>]), NoSig)
      /\ c.CEK = Cert("CEK", <<chip, "CEK">>,
                      Sig("ASK", <<ca, "ASK">>, [usage |-> "CEK", key |-> <<chip, "CEK">>]), NoSig)
  BY <1>1, SignedOnce DEF NewCert, Sig, Usages
<1>4. ASSUME NEW u \in Usages, NEW v \in Usages, NEW x, NEW y
      PROVE  sign(Prv(x, u), sign(Prv(y, v), NewCert(pek, "PEK")))
               = Cert("PEK", <<pek, "PEK">>, OfPek(v, y), OfPek(u, x))
  <2> DEFINE once == Cert("PEK", <<pek, "PEK">>, OfPek(v, y), NoSig)
  <2>1. sign(Prv(y, v), NewCert(pek, "PEK")) = once
    BY SignedOnce DEF NewCert, Sig
  <2>2. Signature(Prv(x, u), once) = OfPek(u, x)
    BY Fields DEF Signature, Prv, Body, Sig
  <2>3. OfPek(v, y).usage \in Usages
    BY DEF Sig
  <2> QED
    BY <2>1, <2>2, <2>3, SignSecond
<1>5. \/ c.PEK = Cert("PEK", <<pek, "PEK">>, OfPek("OCA", o), OfPek("CEK", chip))
      \/ c.PEK = Cert("PEK", <<pek, "PEK">>, OfPek("CEK", chip), OfPek("OCA", o))
  <2>1. "OCA" \in Usages /\ "CEK" \in Usages
    BY DEF Usages
  <2> HIDE DEF OfPek
  <2>2. /\ sign(Prv(chip, "CEK"), sign(Prv(o, "OCA"), NewCert(pek, "PEK")))
             = Cert("PEK", <<pek, "PEK">>, OfPek("OCA", o), OfPek("CEK", chip))
        /\ sign(Prv(o, "OCA"), sign(Prv(chip, "CEK"), NewCert(pek, "PEK")))
             = Cert("PEK", <<pek, "PEK">>, OfPek("CEK", chip), OfPek("OCA", o))
    BY <1>4, <2>1
  <2> QED
    BY <1>1, <2>2
<1>6. /\ OfPek("OCA", o).usage = "OCA"
      /\ OfPek("CEK", chip).usage = "CEK" /\ OfPek("CEK", chip).key = <<chip, "CEK">>
  BY DEF Sig
<1> HIDE DEF OfPek
<1>7. /\ c.PEK.usage = "PEK" /\ c.PEK.key = <<pek, "PEK">>
      /\ c.PEK.sigs[1].usage = "CEK" => c.PEK.sigs[1].key = <<chip, "CEK">>
      /\ c.PEK.sigs[2].usage = "CEK" => c.PEK.sigs[2].key = <<chip, "CEK">>
  BY <1>5, <1>6, Fields
<1>8. /\ c.CEK.usage = "CEK" /\ c.CEK.key = <<chip, "CEK">>
      /\ c.CEK.sigs[1].key = <<ca, "ASK">> /\ c.CEK.sigs[2] = NoSig
  BY <1>3, Fields DEF Sig
<1>9. c.PDH.sigs[1].key = <<pek, "PEK">> /\ c.PDH.sigs[2] = NoSig
  BY <1>3, Fields DEF Sig
<1>10. c.ASK.key = <<ca, "ASK">>
  BY <1>1 DEF CaCert
<1> QED
  BY <1>2, <1>7, <1>8, <1>9, <1>10

(* AMD's certificates of a generation. *)
LEMMA CaFacts ==
  ASSUME NEW c \in Chains
  PROVE  /\ c.ASK.key = <<c.ASK.key[1], "ASK">> /\ c.ARK.key = <<c.ASK.key[1], "ARK">>
         /\ Body(c.ASK) = [usage |-> "ASK", key |-> c.ASK.key]
         /\ Body(c.ARK) = [usage |-> "ARK", key |-> c.ARK.key]
         /\ c.ASK.sigs[1] = Sig("ARK", c.ARK.key, Body(c.ASK))
         /\ c.ARK.sigs[1] = Sig("ARK", c.ARK.key, Body(c.ARK))
         /\ c.ASK = Ca(Body(c.ASK), c.ASK.sigs[1])
         /\ c.ARK = Ca(Body(c.ARK), c.ARK.sigs[1])
<1> DEFINE ca == c.ASK.key[1]
<1>1. c.ARK = CaCert(ca, "ARK") /\ c.ASK = CaCert(ca, "ASK")
  BY ChainsAssumption DEF Made
<1> HIDE DEF ca
<1>2. \A u : /\ CaCert(ca, u).usage = u /\ CaCert(ca, u).key = <<ca, u>>
             /\ CaCert(ca, u).sigs = <<CaCert(ca, u).sigs[1]>>
             /\ CaCert(ca, u).sigs[1] = Sig("ARK", <<ca, "ARK">>, Body(CaCert(ca, u)))
  BY DEF CaCert, Sig, Body
<1>3. \A u : CaCert(ca, u) = Ca(Body(CaCert(ca, u)), CaCert(ca, u).sigs[1])
  BY DEF CaCert, Ca, Body
<1> QED
  BY <1>1, <1>2, <1>3 DEF Body, ca


(* A file, and what may stand in a chain's k-th place. *)
File == [chain : Chains, n : 0 .. PIECES]

AnyPiece == {Piece(c, k) : c \in Chains, k \in 1 .. PIECES} \cup {NAPLES_ARK_SIG}

IsPiece(x, k) ==
  \/ \E c \in Chains : x = Piece(c, k)
  \/ CaSignature(k) /\ x = NAPLES_ARK_SIG

FilesOK(fs) == /\ fs \in [1 .. Paths -> SUBSET File]
               /\ \A i \in 1 .. Paths : \A f, g \in fs[i] : f = g

(* Whatever has been read was in the place of a file that it is read for.   *)
GotOK(g) ==
  /\ g.got \in Seq(AnyPiece) /\ g.unlinked \subseteq File
  /\ Len(g.got) <= PIECES
  /\ \A k \in 1 .. Len(g.got) : IsPiece(g.got[k], k)
  /\ g.pc \in {"idle", "exists", "open"} => g.got = <<>> /\ g.unlinked = {}
  /\ g.pc = "decode" => Len(g.got) < PIECES
  /\ g.pc = "done" /\ g.error = {} => Len(g.got) = PIECES

(* What has been read is the beginning of f, except for a signature that    *)
(* was injected at the end of it.                                           *)
ReadOf(got, f) ==
  \A k \in 1 .. Len(got) :
    \/ k <= f.n /\ got[k] = Piece(f.chain, k)
    \/ k > f.n /\ CaSignature(k) /\ got[k] = NAPLES_ARK_SIG /\ Small(got[k - 1])

ReadResult(g, f) == /\ g.error = {} => Assemble(g.got) = f.chain
                    /\ f.n = PIECES => g.error = {}
                    /\ ~CutBeforeSignature(f) => g.error \in {{}, {"UnexpectedEof"}}

Untouched(fs, g, s) ==
  g.i \notin s.touched =>
    /\ g.pc = "decode" => g.unlinked = {} /\ \A f \in fs[g.i] : ReadOf(g.got, f)
    /\ g.pc = "done" => \A f \in fs[g.i] : ReadResult(g, f)

ReadInv == CacheInv /\ FilesOK(file) /\ GotOK(get) /\ Untouched(file, get, since)

-----------------------------------------------------------------------------
(* A file that nobody touched, read to its end, is its chain. *)
LEMMA WholeIsRead ==
  ASSUME NEW f \in File, NEW got \in Seq(AnyPiece), Len(got) = PIECES, ReadOf(got, f)
  PROVE  Assemble(got) = f.chain
<1> DEFINE c == f.chain
<1>1. c \in Chains /\ f.n \in Nat
  BY DEF File, PIECES
<1>2. f.n >= 7
  BY <1>1 DEF ReadOf, PIECES, CaSignature
<1>3. \A k \in 1 .. 7 : got[k] = Piece(c, k)
  BY <1>1, <1>2 DEF ReadOf, PIECES
<1>4. /\ got[1] = c.PDH /\ got[2] = c.PEK /\ got[3] = c.OCA /\ got[4] = c.CEK
      /\ got[5] = Body(c.ASK) /\ got[6] = c.ASK.sigs[1] /\ got[7] = Body(c.ARK)
  BY <1>3 DEF Piece
<1>5. got[8] = c.ARK.sigs[1]
  <2>1. CASE got[8] = Piece(c, 8)
    BY <2>1 DEF Piece
  <2>2. CASE got[8] # Piece(c, 8)
    <3>1. got[8] = NAPLES_ARK_SIG /\ Small(got[7])
      BY <2>2 DEF ReadOf, PIECES
    <3>2. Body(c.ARK).key[1] = "naples"
      BY <1>4, <3>1 DEF Small
    <3>3. /\ Body(c.ARK) = [usage |-> "ARK", key |-> c.ARK.key]
          /\ c.ARK.key = <<c.ASK.key[1], "ARK">>
          /\ c.ARK.sigs[1] = Sig("ARK", c.ARK.key, Body(c.ARK))
      BY <1>1, CaFacts
    <3>4. c.ARK.key = <<"naples", "ARK">>
      BY <3>2, <3>3
    <3> QED
      BY <3>1, <3>3, <3>4 DEF NAPLES_ARK_SIG, Sig
  <2> QED
    BY <2>1, <2>2
<1>6. c.ASK = Ca(Body(c.ASK), c.ASK.sigs[1]) /\ c.ARK = Ca(Body(c.ARK), c.ARK.sigs[1])
  BY <1>1, CaFacts
<1>7. c = [PDH |-> c.PDH, PEK |-> c.PEK, OCA |-> c.OCA, CEK |-> c.CEK,
           ASK |-> c.ASK, ARK |-> c.ARK]
  BY <1>1, ChainsAssumption
<1>8. Assemble(got) = [PDH |-> c.PDH, PEK |-> c.PEK, OCA |-> c.OCA, CEK |-> c.CEK,
                       ASK |-> c.ASK, ARK |-> c.ARK]
  BY <1>4, <1>5, <1>6 DEF Assemble
<1> QED
  BY <1>7, <1>8

(* A signature that is read where it should be is no reason to go astray. *)
LEMMA NotSkewed ==
  ASSUME NEW f \in File, GotOK(get), ReadOf(get.got, f), f.n >= 6
  PROVE  ~Skewed
<1> SUFFICES ASSUME Skewed PROVE FALSE
  OBVIOUS
<1>1. f.chain \in Chains /\ f.n \in Nat
  BY DEF File, PIECES
<1>2. Len(get.got) = 6 /\ get.got[6] = NAPLES_ARK_SIG
  BY DEF Skewed
<1>3. get.got[6] = Piece(f.chain, 6)
  BY <1>1, <1>2 DEF ReadOf
<1>4. NAPLES_ARK_SIG = f.chain.ASK.sigs[1]
  BY <1>2, <1>3 DEF Piece
<1>5. f.chain.ASK.sigs[1].of.usage = "ASK"
  <2>1. /\ f.chain.ASK.sigs[1] = Sig("ARK", f.chain.ARK.key, Body(f.chain.ASK))
        /\ Body(f.chain.ASK) = [usage |-> "ASK", key |-> f.chain.ASK.key]
    BY <1>1, CaFacts
  <2>2. f.chain.ASK.sigs[1].of = [usage |-> "ASK", key |-> f.chain.ASK.key]
    BY <2>1 DEF Sig
  <2> QED
    BY <2>2
<1>6. NAPLES_ARK_SIG.of.usage = "ARK"
  BY DEF NAPLES_ARK_SIG
<1> QED
  BY <1>4, <1>5, <1>6

(* Where nothing can be injected, the file was cut before a signature. *)
LEMMA EndsBeforeSignature ==
  ASSUME NEW f \in File, NEW got \in Seq(AnyPiece), ReadOf(got, f), f.n < Len(got) + 1,
         CaSignature(Len(got) + 1), ~Small(got[Len(got)])
  PROVE  CutBeforeSignature(f)
<1> DEFINE n == Len(got)
<1>1. n \in {5, 7} /\ f.chain \in Chains /\ f.n \in Nat
  <2>1. Len(got) \in Nat
    OBVIOUS
  <2>2. n \in {5, 7}
    <3>1. \A m \in Nat : m + 1 = 6 \/ m + 1 = 8 => m = 5 \/ m = 7
      OBVIOUS
    <3>2. n + 1 = 6 \/ n + 1 = 8
      BY DEF CaSignature
    <3> QED
      BY <2>1, <3>1, <3>2
  <2>3. f.chain \in Chains /\ f.n \in Nat
    BY DEF File, PIECES
  <2> QED
    BY <2>2, <2>3
<1>2. n <= f.n /\ got[n] = Piece(f.chain, n)
  BY <1>1 DEF ReadOf, CaSignature
<1>3. f.n = n
  BY <1>1, <1>2
<1>4. got[n] = Body(f.chain.ASK) \/ got[n] = Body(f.chain.ARK)
  <2>1. CASE n = 5
    BY <1>2, <2>1 DEF Piece
  <2>2. CASE n = 7
    BY <1>2, <2>2 DEF Piece
  <2> QED
    BY <1>1, <2>1, <2>2
<1>5. Body(f.chain.ASK).key[1] = Body(f.chain.ARK).key[1]
  <2>1. /\ Body(f.chain.ASK) = [usage |-> "ASK", key |-> f.chain.ASK.key]
        /\ Body(f.chain.ARK) = [usage |-> "ARK", key |-> f.chain.ARK.key]
        /\ f.chain.ARK.key = <<f.chain.ASK.key[1], "ARK">>
    BY <1>1, CaFacts
  <2> QED
    BY <2>1
<1> QED
  BY <1>3, <1>4, <1>5 DEF CutBeforeSignature, Small

(* What one step of Chain::decode may do. *)
LEMMA DecodeOutcome ==
  ASSUME ReadInv, decode
  PROVE  LET k == Len(get.got) + 1
         IN  \E f \in File :
               /\ get.unlinked = {} => f \in file[get.i]
               /\ \/ get' = Fail({"InvalidData"}) /\ Skewed /\ f.n >= k - 1
                  \/ get' = Fail({"UnexpectedEof"}) /\ f.n < k
                  \/ /\ f.n < k /\ CaSignature(k) /\ ~Small(get.got[k - 1])
                     /\ get' = Fail({"panic"})
                  \/ f.n >= k /\ get' = Got(Piece(f.chain, k))
                  \/ /\ f.n < k /\ CaSignature(k) /\ Small(get.got[k - 1])
                     /\ get' = Got(NAPLES_ARK_SIG)
<1> DEFINE k == Len(get.got) + 1
<1>1. PICK f \in (IF get.unlinked # {} THEN get.unlinked ELSE file[get.i]) :
        LET there == f.n >= (IF Skewed THEN k - 1 ELSE k)
            inj == Injected(get.got[k - 1])
        IN  get' = CASE there /\ Skewed -> Fail({"InvalidData"})
                     [] there /\ ~Skewed -> Got(Piece(f.chain, k))
                     [] ~there /\ ~CaSignature(k) -> Fail({"UnexpectedEof"})
                     [] ~there /\ CaSignature(k) /\ inj.error = {} -> Got(inj.sig)
                     [] ~there /\ CaSignature(k) /\ inj.error # {} -> Fail(inj.error)
  BY DEF decode
<1> DEFINE there == f.n >= (IF Skewed THEN k - 1 ELSE k)
           inj == Injected(get.got[k - 1])
<1>2. get.i \in 1 .. Paths
  BY DEF ReadInv, CacheInv, CacheTypeOK, IsGet
<1>3. f \in File /\ (get.unlinked = {} => f \in file[get.i])
  BY <1>1, <1>2 DEF ReadInv, GotOK, FilesOK
<1>4. f.n \in Nat /\ k \in Nat
  BY <1>3 DEF File, PIECES, ReadInv, GotOK
<1>5. ~there => f.n < k
  BY <1>4
<1>6. /\ inj.error = {} => Small(get.got[k - 1]) /\ inj.sig = NAPLES_ARK_SIG
      /\ inj.error # {} => ~Small(get.got[k - 1]) /\ inj.error = {"panic"}
  BY DEF Injected
<1>7. CASE there /\ Skewed
  <2>1. get' = Fail({"InvalidData"})
    BY <1>1, <1>7, Zenon
  <2>2. f.n >= k - 1
    BY <1>7
  <2> QED
    BY <1>3, <1>7, <2>1, <2>2
<1>8. CASE there /\ ~Skewed
  <2>1. get' = Got(Piece(f.chain, k))
    BY <1>1, <1>8, Zenon
  <2> QED
    BY <1>3, <1>8, <2>1
<1>9. CASE ~there /\ ~CaSignature(k)
  <2>1. get' = Fail({"UnexpectedEof"})
    BY <1>1, <1>9, Zenon
  <2> QED
    BY <1>3, <1>5, <1>9, <2>1
<1>10. CASE ~there /\ CaSignature(k) /\ inj.error = {}
  <2>1. get' = Got(inj.sig)
    BY <1>1, <1>10, Zenon
  <2> QED
    BY <1>3, <1>5, <1>6, <1>10, <2>1
<1>11. CASE ~there /\ CaSignature(k) /\ inj.error # {}
  <2>1. get' = Fail(inj.error)
    BY <1>1, <1>11, Zenon
  <2> QED
    BY <1>3, <1>5, <1>6, <1>11, <2>1
<1> QED
  BY <1>7, <1>8, <1>9, <1>10, <1>11


(* One piece more, and what is left alone with it. *)
LEMMA GotMore ==
  ASSUME IsGet(get), GotOK(get), get.pc = "decode", get.error = {}, NEW x \in AnyPiece,
         IsPiece(x, Len(get.got) + 1)
  PROVE  /\ GotOK(Got(x))
         /\ Got(x).i = get.i /\ Got(x).unlinked = get.unlinked /\ Got(x).error = {}
         /\ Got(x).got = Append(get.got, x)
         /\ Got(x).pc = IF Len(get.got) + 1 = PIECES THEN "done" ELSE "decode"
<1> DEFINE more == Append(get.got, x)
<1>1. /\ Got(x).i = get.i /\ Got(x).unlinked = get.unlinked /\ Got(x).error = {}
      /\ Got(x).got = more
      /\ Got(x).pc = IF Len(get.got) + 1 = PIECES THEN "done" ELSE "decode"
  BY DEF IsGet, GetFields, Got
<1>2. get.got \in Seq(AnyPiece) /\ Len(get.got) \in Nat /\ Len(get.got) < PIECES
  BY DEF GotOK
<1>3. /\ more \in Seq(AnyPiece) /\ Len(more) = Len(get.got) + 1
      /\ \A k \in 1 .. Len(get.got) : more[k] = get.got[k]
      /\ more[Len(get.got) + 1] = x
  BY <1>2
<1> HIDE DEF more
<1>4. \A k \in 1 .. Len(more) : IsPiece(more[k], k)
  <2> TAKE k \in 1 .. Len(more)
  <2>1. CASE k = Len(get.got) + 1
    BY <1>3, <2>1
  <2>2. CASE k \in 1 .. Len(get.got)
    BY <1>3, <2>2 DEF GotOK
  <2> QED
    BY <1>2, <1>3, <2>1, <2>2
<1>5. GotOK(Got(x))
  BY <1>1, <1>2, <1>3, <1>4 DEF GotOK, PIECES
<1> QED
  BY <1>1, <1>5 DEF more

(* One piece more of a file that nobody touched. *)
LEMMA ReadMore ==
  ASSUME NEW f \in File, NEW got \in Seq(AnyPiece), ReadOf(got, f), NEW x,
         LET k == Len(got) + 1
         IN  \/ f.n >= k /\ x = Piece(f.chain, k)
             \/ f.n < k /\ CaSignature(k) /\ Small(got[k - 1]) /\ x = NAPLES_ARK_SIG
  PROVE  ReadOf(Append(got, x), f)
<1> DEFINE more == Append(got, x)
           n == Len(got)
<1>1. n \in Nat /\ f.n \in Nat
  BY DEF File, PIECES
<1>2. /\ Len(more) = n + 1 /\ more[n + 1] = x
      /\ \A k \in 1 .. n : more[k] = got[k]
  OBVIOUS
<1> HIDE DEF more
<1> SUFFICES ASSUME NEW k \in 1 .. Len(more)
             PROVE  \/ k <= f.n /\ more[k] = Piece(f.chain, k)
                    \/ /\ k > f.n /\ CaSignature(k) /\ more[k] = NAPLES_ARK_SIG
                       /\ Small(more[k - 1])
  BY DEF ReadOf, more
<1>3. \A j \in 1 .. n : CaSignature(j) => j - 1 \in 1 .. n
  BY <1>1 DEF CaSignature
<1>4. CASE k \in 1 .. n
  <2>1. \/ k <= f.n /\ got[k] = Piece(f.chain, k)
        \/ k > f.n /\ CaSignature(k) /\ got[k] = NAPLES_ARK_SIG /\ Small(got[k - 1])
    BY <1>4 DEF ReadOf
  <2> QED
    BY <1>2, <1>3, <1>4, <2>1
<1>5. CASE k = n + 1
  <2>1. CASE f.n >= k /\ x = Piece(f.chain, k)
    BY <1>1, <1>2, <1>5, <2>1
  <2>2. CASE f.n < k /\ CaSignature(k) /\ Small(got[k - 1]) /\ x = NAPLES_ARK_SIG
    <3>1. k - 1 \in 1 .. n
      BY <1>1, <1>5, <2>2 DEF CaSignature
    <3> QED
      BY <1>1, <1>2, <1>5, <2>2, <3>1
  <2> QED
    BY <1>5, <2>1, <2>2
<1> QED
  BY <1>1, <1>2, <1>4, <1>5

(* A failed decode leaves what was read. *)
LEMMA FailMore ==
  ASSUME IsGet(get), GotOK(get), NEW e, e # {}
  PROVE  /\ GotOK(Fail(e))
         /\ Fail(e).i = get.i /\ Fail(e).error = e /\ Fail(e).pc = "done"
<1>1. /\ Fail(e).i = get.i /\ Fail(e).unlinked = get.unlinked /\ Fail(e).error = e
      /\ Fail(e).got = get.got /\ Fail(e).pc = "done"
  BY DEF IsGet, GetFields, Fail
<1> QED
  BY <1>1 DEF GotOK

(* Decoding the next piece. *)
LEMMA DecodeRead == ReadInv /\ decode => GotOK(get') /\ Untouched(file, get', since)
<1> SUFFICES ASSUME ReadInv, decode PROVE GotOK(get') /\ Untouched(file, get', since)
  OBVIOUS
<1> DEFINE k == Len(get.got) + 1
<1>1. PICK f \in File :
        /\ get.unlinked = {} => f \in file[get.i]
        /\ \/ get' = Fail({"InvalidData"}) /\ Skewed /\ f.n >= k - 1
           \/ get' = Fail({"UnexpectedEof"}) /\ f.n < k
           \/ /\ f.n < k /\ CaSignature(k) /\ ~Small(get.got[k - 1])
              /\ get' = Fail({"panic"})
           \/ f.n >= k /\ get' = Got(Piece(f.chain, k))
           \/ /\ f.n < k /\ CaSignature(k) /\ Small(get.got[k - 1])
              /\ get' = Got(NAPLES_ARK_SIG)
  BY DecodeOutcome
<1>2. get.pc = "decode"
  BY DEF decode
<1>3. IsGet(get) /\ GotOK(get) /\ FilesOK(file) /\ get.error = {} /\ get.i \in 1 .. Paths
  BY <1>2 DEF ReadInv, CacheInv, CacheTypeOK, Looking, IsGet
<1>4. get.got \in Seq(AnyPiece) /\ Len(get.got) \in Nat /\ k \in 1 .. PIECES
  BY <1>2, <1>3 DEF GotOK, PIECES
<1>5. f.chain \in Chains /\ f.n \in Nat /\ f.n <= PIECES
  BY DEF File, PIECES
<1>6. get.i \notin since.touched =>
        f \in file[get.i] /\ ReadOf(get.got, f) /\ \A g \in file[get.i] : g = f
  BY <1>1, <1>2, <1>3 DEF ReadInv, Untouched, FilesOK
<1>7. ASSUME NEW e, e # {}, get' = Fail(e),
             get.i \notin since.touched =>
               f.n # PIECES /\ (e = {"UnexpectedEof"} \/ CutBeforeSignature(f))
      PROVE  GotOK(get') /\ Untouched(file, get', since)
  <2>1. GotOK(get') /\ get'.i = get.i /\ get'.error = e /\ get'.pc = "done"
    BY <1>3, <1>7, FailMore
  <2>2. get.i \notin since.touched => \A g \in file[get.i] : ReadResult(get', g)
    BY <1>6, <1>7, <2>1 DEF ReadResult
  <2> QED
    BY <2>1, <2>2 DEF Untouched
<1>8. ASSUME NEW x \in AnyPiece, IsPiece(x, k), get' = Got(x),
             \/ f.n >= k /\ x = Piece(f.chain, k)
             \/ f.n < k /\ CaSignature(k) /\ Small(get.got[k - 1]) /\ x = NAPLES_ARK_SIG
      PROVE  GotOK(get') /\ Untouched(file, get', since)
  <2>1. /\ GotOK(get') /\ get'.i = get.i /\ get'.unlinked = get.unlinked /\ get'.error = {}
        /\ get'.got = Append(get.got, x)
        /\ get'.pc = IF k = PIECES THEN "done" ELSE "decode"
    BY <1>2, <1>3, <1>8, GotMore
  <2>2. get.i \notin since.touched => ReadOf(get'.got, f)
    BY <1>4, <1>6, <1>8, <2>1, ReadMore
  <2>3. get.i \notin since.touched => get'.unlinked = {}
    BY <1>2, <2>1 DEF ReadInv, Untouched
  <2>4. get'.pc = "done" /\ get.i \notin since.touched => Assemble(get'.got) = f.chain
    <3>1. get'.got \in Seq(AnyPiece) /\ (get'.pc = "done" => Len(get'.got) = PIECES)
      BY <2>1 DEF GotOK
    <3> QED
      BY <2>2, <3>1, WholeIsRead
  <2> QED
    BY <1>6, <2>1, <2>2, <2>3, <2>4 DEF Untouched, ReadResult
<1>9. CASE f.n >= k /\ get' = Got(Piece(f.chain, k))
  <2>1. Piece(f.chain, k) \in AnyPiece /\ IsPiece(Piece(f.chain, k), k)
    BY <1>4, <1>5 DEF AnyPiece, IsPiece
  <2> QED
    BY <1>8, <1>9, <2>1
<1>10. CASE /\ f.n < k /\ CaSignature(k) /\ Small(get.got[k - 1])
            /\ get' = Got(NAPLES_ARK_SIG)
  <2>1. NAPLES_ARK_SIG \in AnyPiece /\ IsPiece(NAPLES_ARK_SIG, k)
    BY <1>10 DEF AnyPiece, IsPiece
  <2> QED
    BY <1>8, <1>10, <2>1
<1>11. CASE get' = Fail({"InvalidData"}) /\ Skewed /\ f.n >= k - 1
  <2>1. f.n >= 6
    BY <1>5, <1>11 DEF Skewed
  <2>2. get.i \in since.touched
    BY <1>3, <1>6, <1>11, <2>1, NotSkewed
  <2> QED
    BY <1>7, <1>11, <2>2
<1>12. CASE get' = Fail({"UnexpectedEof"}) /\ f.n < k
  <2>1. f.n # PIECES
    BY <1>4, <1>5, <1>12
  <2> QED
    BY <1>7, <1>12, <2>1
<1>13. CASE /\ f.n < k /\ CaSignature(k) /\ ~Small(get.got[k - 1])
            /\ get' = Fail({"panic"})
  <2>1. f.n # PIECES
    BY <1>4, <1>5, <1>13
  <2>2. get.i \notin since.touched => CutBeforeSignature(f)
    BY <1>4, <1>5, <1>6, <1>13, EndsBeforeSignature
  <2> QED
    BY <1>7, <1>13, <2>1, <2>2
<1> QED
  BY <1>1, <1>9, <1>10, <1>11, <1>12, <1>13

(* A tool's step, which touches the file it changes. *)
LEMMA ToolRead == ReadInv /\ Tool => FilesOK(file') /\ GotOK(get') /\ Untouched(file', get', since')
<1> SUFFICES ASSUME ReadInv, NEW i \in 1 .. Paths,
                    Write(i) \/ Remove(i) \/ \E c \in Chains : Create(i, c)
             PROVE  FilesOK(file') /\ GotOK(get') /\ Untouched(file', get', since')
  BY DEF Tool
<1>1. FilesOK(file) /\ GotOK(get) /\ IsGet(get) /\ IsSince(since) /\ get.i \in 1 .. Paths
  BY DEF ReadInv, CacheInv, CacheTypeOK, IsGet
<1>2. ASSUME NEW gone, Touch(i, gone)
      PROVE  since'.touched = since.touched \cup {i}
  BY <1>1, <1>2 DEF Touch, IsSince
<1>3. ASSUME NEW x \in SUBSET File, \A f, g \in x : f = g, file' = [file EXCEPT ![i] = x],
             since'.touched = since.touched \cup {i}, GotOK(get'),
             get' = get \/ (get'.i = i)
      PROVE  FilesOK(file') /\ GotOK(get') /\ Untouched(file', get', since')
  <2>1. FilesOK(file')
    BY <1>1, <1>3 DEF FilesOK
  <2>2. CASE get'.i = i
    BY <1>3, <2>1, <2>2 DEF Untouched
  <2>3. CASE get' = get /\ get.i # i
    <3>1. file'[get.i] = file[get.i]
      BY <1>1, <1>3, <2>3 DEF FilesOK
    <3> QED
      BY <1>3, <2>1, <2>3, <3>1 DEF Untouched, ReadInv
  <2> QED
    BY <1>3, <2>2, <2>3
<1>4. CASE Write(i)
  <2>1. PICK f \in file[i], n \in 1 .. PIECES : file' = [file EXCEPT ![i] = {[f EXCEPT !.n = n]}]
    BY <1>4 DEF Write
  <2>2. f \in File
    BY <1>1 DEF FilesOK
  <2>3. [f EXCEPT !.n = n] \in File
    BY <2>2 DEF File, PIECES
  <2>4. since'.touched = since.touched \cup {i} /\ get' = get
    BY <1>2, <1>4 DEF Write
  <2> DEFINE x == {[f EXCEPT !.n = n]}
  <2>5. x \in SUBSET File /\ (\A a, b \in x : a = b) /\ file' = [file EXCEPT ![i] = x]
    BY <2>1, <2>3
  <2>6. GotOK(get') /\ (get' = get \/ get'.i = i)
    BY <1>1, <2>4
  <2> HIDE DEF x
  <2> QED
    BY <1>3, <2>4, <2>5, <2>6
<1>5. CASE \E c \in Chains : Create(i, c)
  <2>1. PICK c \in Chains : Create(i, c)
    BY <1>5
  <2>2. [chain |-> c, n |-> 0] \in File
    BY DEF File, PIECES
  <2>3. /\ since'.touched = since.touched \cup {i} /\ get' = get
        /\ file' = [file EXCEPT ![i] = {[chain |-> c, n |-> 0]}]
    BY <1>2, <2>1 DEF Create
  <2> DEFINE x == {[chain |-> c, n |-> 0]}
  <2>4. x \in SUBSET File /\ (\A a, b \in x : a = b) /\ file' = [file EXCEPT ![i] = x]
    BY <2>2, <2>3
  <2>5. GotOK(get') /\ (get' = get \/ get'.i = i)
    BY <1>1, <2>3
  <2> HIDE DEF x
  <2> QED
    BY <1>3, <2>3, <2>4, <2>5
<1>6. CASE Remove(i)
  <2>1. since'.touched = since.touched \cup {i} /\ file' = [file EXCEPT ![i] = {}]
    BY <1>2, <1>6 DEF Remove
  <2>2. GotOK(get') /\ (get' = get \/ get'.i = i)
    <3>1. CASE get.pc = "decode" /\ get.i = i /\ get.unlinked = {}
      <4>1. get' = [get EXCEPT !.unlinked = file[i]]
        BY <1>6, <3>1 DEF Remove
      <4>2. /\ get'.unlinked = file[i] /\ get'.got = get.got /\ get'.pc = "decode"
            /\ get'.i = i /\ get'.error = get.error
        BY <1>1, <3>1, <4>1 DEF IsGet, GetFields
      <4>3. file[i] \subseteq File
        BY <1>1 DEF FilesOK
      <4> QED
        BY <1>1, <3>1, <4>2, <4>3 DEF GotOK
    <3>2. CASE ~(get.pc = "decode" /\ get.i = i /\ get.unlinked = {})
      BY <1>1, <1>6, <3>2 DEF Remove
    <3> QED
      BY <3>1, <3>2
  <2> DEFINE x == {}
  <2>3. x \in SUBSET File /\ (\A a, b \in x : a = b) /\ file' = [file EXCEPT ![i] = x]
    BY <2>1
  <2> HIDE DEF x
  <2> QED
    BY <1>3, <2>1, <2>2, <2>3
<1> QED
  BY <1>4, <1>5, <1>6

(* The reader's other steps. *)
LEMMA ReaderRead == ReadInv /\ Reader => FilesOK(file') /\ GotOK(get') /\ Untouched(file', get', since')
<1> SUFFICES ASSUME ReadInv, Reader
             PROVE  FilesOK(file') /\ GotOK(get') /\ Untouched(file', get', since')
  OBVIOUS
<1>1. FilesOK(file) /\ GotOK(get) /\ IsGet(get)
  BY DEF ReadInv, CacheInv, CacheTypeOK
<1>2. <<>> \in Seq(AnyPiece) /\ Len(<<>>) = 0
  BY DEF PIECES
<1>3. file' = file
  BY DEF Reader, get_call, exists, open, decode, get_return
<1>4. ASSUME NEW to \in {"idle", "exists", "open"}, get'.pc = to, get'.got = <<>>,
             get'.unlinked = {}
      PROVE  GotOK(get') /\ Untouched(file, get', since')
  <2>1. GotOK(get')
    BY <1>2, <1>4 DEF GotOK, PIECES
  <2> QED
    BY <1>4, <2>1 DEF Untouched
<1>5. CASE get_call
  <2>1. get'.pc = "exists" /\ get'.got = <<>> /\ get'.unlinked = {}
    BY <1>5 DEF get_call, Idle
  <2> QED
    BY <1>1, <1>3, <1>4, <2>1
<1>6. CASE get_return
  <2>1. get'.pc = "idle" /\ get'.got = <<>> /\ get'.unlinked = {}
    BY <1>6 DEF get_return, Idle
  <2> QED
    BY <1>1, <1>3, <1>4, <2>1
<1>7. ASSUME ~Exists(get.i), get' = Fail({"NotFound"})
      PROVE  GotOK(get') /\ Untouched(file, get', since')
  <2>1. GotOK(get') /\ get'.i = get.i /\ get'.pc = "done"
    BY <1>1, <1>7, FailMore
  <2> QED
    BY <1>7, <2>1 DEF Untouched, Exists
<1>8. CASE exists
  <2>1. get.pc = "exists" /\ get.got = <<>> /\ get.unlinked = {}
    BY <1>1, <1>8 DEF exists, GotOK
  <2>2. CASE Exists(get.i)
    <3>1. get' = [get EXCEPT !.pc = "open"]
      BY <1>8, <2>2 DEF exists
    <3>2. get'.pc = "open" /\ get'.got = <<>> /\ get'.unlinked = {}
      BY <1>1, <2>1, <3>1 DEF IsGet, GetFields
    <3> QED
      BY <1>1, <1>3, <1>4, <3>2
  <2>3. CASE ~Exists(get.i) /\ get.i < Paths
    <3>1. get' = [get EXCEPT !.i = @ + 1]
      BY <1>8, <2>3 DEF exists
    <3>2. get'.pc = "exists" /\ get'.got = <<>> /\ get'.unlinked = {}
      BY <1>1, <2>1, <3>1 DEF IsGet, GetFields
    <3> QED
      BY <1>1, <1>3, <1>4, <3>2
  <2>4. CASE ~Exists(get.i) /\ ~ (get.i < Paths)
    BY <1>1, <1>3, <1>7, <1>8, <2>4 DEF exists
  <2> QED
    BY <2>2, <2>3, <2>4
<1>9. CASE open
  <2>1. get.pc = "open" /\ get.got = <<>> /\ get.unlinked = {}
    BY <1>1, <1>9 DEF open, GotOK
  <2>2. CASE Exists(get.i)
    <3>1. get' = [get EXCEPT !.pc = "decode"]
      BY <1>9, <2>2 DEF open
    <3>2. get'.pc = "decode" /\ get'.got = <<>> /\ get'.unlinked = {}
      BY <1>1, <2>1, <3>1 DEF IsGet, GetFields
    <3>3. GotOK(get')
      BY <1>2, <3>2 DEF GotOK, PIECES
    <3>4. \A f : ReadOf(get'.got, f)
      BY <1>2, <3>2 DEF ReadOf
    <3> QED
      BY <1>1, <1>3, <3>2, <3>3, <3>4 DEF Untouched
  <2>3. CASE ~Exists(get.i)
    BY <1>1, <1>3, <1>7, <1>9, <2>3 DEF open
  <2> QED
    BY <2>2, <2>3
<1>10. CASE decode
  <2>1. since' = since
    BY <1>10 DEF decode
  <2> QED
    BY <1>1, <1>3, <1>10, <2>1, DecodeRead
<1> QED
  BY <1>5, <1>6, <1>8, <1>9, <1>10 DEF Reader

(* What get() has read, in every behaviour. *)
LEMMA ReadInvariant == CacheSpec => []ReadInv
<1>1. CacheInit => ReadInv
  <2> SUFFICES ASSUME CacheInit PROVE ReadInv
    OBVIOUS
  <2>1. FilesOK(file)
    BY DEF CacheInit, FilesOK
  <2>2. <<>> \in Seq(AnyPiece) /\ Len(<<>>) = 0 /\ 0 <= PIECES
    BY DEF PIECES
  <2>3. get.pc = "idle" /\ get.got = <<>> /\ get.unlinked = {}
    BY DEF CacheInit, Idle
  <2>4. GotOK(get) /\ Untouched(file, get, since)
    BY <2>2, <2>3 DEF GotOK, Untouched
  <2> QED
    BY <2>1, <2>4, CacheInitInv DEF ReadInv
<1>2. ReadInv /\ [CacheNext]_cacheVars => ReadInv'
  <2> SUFFICES ASSUME ReadInv, [CacheNext]_cacheVars PROVE ReadInv'
    OBVIOUS
  <2>1. CacheInv'
    BY CacheStepInv DEF ReadInv
  <2>2. FilesOK(file') /\ GotOK(get') /\ Untouched(file', get', since')
    <3>1. CASE UNCHANGED cacheVars
      BY <3>1 DEF cacheVars, ReadInv
    <3> QED
      BY <3>1, ToolRead, ReaderRead DEF CacheNext
  <2> QED
    BY <2>1, <2>2 DEF ReadInv
<1> QED
  BY <1>1, <1>2, PTL DEF CacheSpec

(* get(): a file that nobody touches meanwhile is read for what it is, from *)
(* the first to the last of its pieces: whole, its chain; cut short, an     *)
(* UnexpectedEof, unless it is a 4096-bit chain cut before a signature,     *)
(* of which it is proved only that it is not taken for another chain.       *)
THEOREM UntouchedFilesAreRead == CacheSpec => []UntouchedIsRead
<1>1. ReadInv => UntouchedIsRead
  BY DEF ReadInv, Untouched, ReadResult, UntouchedIsRead
<1> QED
  BY <1>1, ReadInvariant, PTL

(* Chain::verify: a chain that was pieced together from files that changed  *)
(* under get() verifies only with the keys of one of the chains written.    *)
THEOREM TornChainsAreCaught == CacheSpec => []TornIsCaught
<1>1. ReadInv => TornIsCaught
  <2> SUFFICES ASSUME ReadInv, Returned, chain_verify(Assemble(get.got))
               PROVE  \E c \in Chains : \A u \in Usages \ {"OCA"} :
                        Assemble(get.got)[u].key = c[u].key
    BY DEF TornIsCaught
  <2> DEFINE t == Assemble(get.got)
  <2>1. GotOK(get) /\ Len(get.got) = PIECES
    BY DEF ReadInv, Returned, GotOK
  <2>2. \A k \in 1 .. 8 : IsPiece(get.got[k], k)
    BY <2>1 DEF GotOK, PIECES
  <2>3. \A k \in {1, 2, 4, 5, 7} : \E c \in Chains : get.got[k] = Piece(c, k)
    BY <2>2 DEF IsPiece, CaSignature
  <2>4. PICK c1 \in Chains : get.got[1] = c1.PDH
    BY <2>3 DEF Piece
  <2>5. PICK c2 \in Chains : get.got[2] = c2.PEK
    BY <2>3 DEF Piece
  <2>6. PICK c4 \in Chains : get.got[4] = c4.CEK
    BY <2>3 DEF Piece
  <2>7. PICK c5 \in Chains : get.got[5] = Body(c5.ASK)
    BY <2>3 DEF Piece
  <2>8. PICK c7 \in Chains : get.got[7] = Body(c7.ARK)
    BY <2>3 DEF Piece
  <2>9. /\ t.PDH = c1.PDH /\ t.PEK = c2.PEK /\ t.CEK = c4.CEK
        /\ t.ASK = Ca(Body(c5.ASK), get.got[6]) /\ t.ARK = Ca(Body(c7.ARK), get.got[8])
    BY <2>4, <2>5, <2>6, <2>7, <2>8 DEF Assemble
  <2>10. /\ t.ASK.usage = "ASK" /\ t.ASK.key = c5.ASK.key /\ t.ASK.sigs[1] = get.got[6]
         /\ t.ARK.usage = "ARK" /\ t.ARK.key = c7.ARK.key
    <3>1. /\ Body(c5.ASK) = [usage |-> "ASK", key |-> c5.ASK.key]
          /\ Body(c7.ARK) = [usage |-> "ARK", key |-> c7.ARK.key]
      BY CaFacts
    <3> QED
      BY <2>9, <3>1 DEF Ca
  <2>11. /\ verify(t.PEK, t.PDH) /\ verify(t.CEK, t.PEK) /\ verify(t.ASK, t.CEK)
         /\ ca_verify(t.ARK, t.ASK)
    BY DEF chain_verify, sev_chain_verify, ca_chain_verify
  <2> HIDE DEF t
  <2>12. c2.PEK.key = c1.PEK.key
    <3>1. PICK i \in {1, 2} : PublicKey_verify(c2.PEK, c1.PDH, c1.PDH.sigs[i])
      BY <2>9, <2>11 DEF verify
    <3>2. c1.PDH.sigs[i].usage = "PEK" /\ c1.PDH.sigs[i].key = c2.PEK.key
      BY <3>1, ChainSigs DEF PublicKey_verify
    <3> QED
      BY <3>2, ChainSigs
  <2>13. c4.CEK.key = c2.CEK.key
    <3>1. PICK i \in {1, 2} : PublicKey_verify(c4.CEK, c2.PEK, c2.PEK.sigs[i])
      BY <2>9, <2>11 DEF verify
    <3>2. c2.PEK.sigs[i].usage = "CEK" /\ c2.PEK.sigs[i].key = c4.CEK.key
      BY <3>1, ChainSigs DEF PublicKey_verify
    <3> QED
      BY <3>2, ChainSigs
  <2>14. c5.ASK.key = c4.ASK.key
    <3>1. PICK i \in {1, 2} : PublicKey_verify(t.ASK, c4.CEK, c4.CEK.sigs[i])
      BY <2>9, <2>11 DEF verify
    <3>2. c4.CEK.sigs[i].usage = "ASK" /\ c4.CEK.sigs[i].key = c5.ASK.key
      BY <2>10, <3>1 DEF PublicKey_verify
    <3> QED
      BY <3>2, ChainSigs
  <2>15. c7.ARK.key = <<c5.ASK.key[1], "ARK">>
    <3> DEFINE sig == get.got[6]
               asked == [sig EXCEPT !.usage = "ARK"]
    <3>1. PublicKey_verify(t.ARK, t.ASK, asked)
      BY <2>10, <2>11 DEF ca_verify
    <3>2. Body(t.ASK) = [usage |-> "ASK", key |-> c5.ASK.key]
      BY <2>10 DEF Body
    <3>3. CASE \E c \in Chains : sig = Piece(c, 6)
      <4>1. PICK c6 \in Chains : sig = c6.ASK.sigs[1]
        BY <3>3 DEF Piece
      <4>2. sig = Sig("ARK", c6.ARK.key, Body(c6.ASK))
        BY <4>1, CaFacts
      <4>3. asked.key = c6.ARK.key /\ asked.of = Body(c6.ASK)
        BY <4>2 DEF Sig
      <4>4. c7.ARK.key = c6.ARK.key /\ Body(c6.ASK) = Body(t.ASK)
        BY <2>10, <3>1, <4>3 DEF PublicKey_verify
      <4>5. c6.ASK.key = c5.ASK.key
        BY <3>2, <4>4 DEF Body
      <4>6. c6.ARK.key = <<c6.ASK.key[1], "ARK">>
        BY CaFacts
      <4> QED
        BY <4>4, <4>5, <4>6
    <3>4. CASE sig = NAPLES_ARK_SIG
      <4>1. asked.of = [usage |-> "ARK", key |-> <<"naples", "ARK">>]
        BY <3>4 DEF NAPLES_ARK_SIG
      <4>2. asked.of = [usage |-> "ASK", key |-> c5.ASK.key]
        BY <3>1, <3>2 DEF PublicKey_verify
      <4> QED
        BY <4>1, <4>2
    <3> QED
      BY <2>2, <3>3, <3>4 DEF IsPiece
  <2>16. c1.CEK.key = c4.CEK.key /\ c1.ASK.key = c5.ASK.key
    BY <2>12, <2>13, <2>14, ChainsAssumption
  <2>17. c1.ARK.key = c7.ARK.key
    BY <2>15, <2>16, CaFacts
  <2>18. /\ t.PDH.key = c1.PDH.key /\ t.PEK.key = c1.PEK.key /\ t.CEK.key = c1.CEK.key
         /\ t.ASK.key = c1.ASK.key /\ t.ARK.key = c1.ARK.key
    BY <2>9, <2>10, <2>12, <2>16, <2>17
  <2>19. \A u \in Usages \ {"OCA"} : t[u].key = c1[u].key
    BY <2>18 DEF Usages
  <2> QED
    BY <2>19 DEF t
<1> QED
  BY <1>1, ReadInvariant, PTL
=============================================================================
