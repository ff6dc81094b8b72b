-------------------------- MODULE SevSessionProofs --------------------------
(***************************************************************************)
(* Theorems about the guest owner's session, for any number of sessions,    *)
(* guests and platforms, any certificate chains and any guest memory.       *)
(***************************************************************************)
EXTENDS SevSession, SequenceTheorems, TLAPS

(* The hasher has been given what the owner meant to measure. *)
FedOK ==
  \A s \in Sessions :
    /\ phase[s] = "Initialized" => fed[s] = <<>>
    /\ phase[s] = "Measuring" => hasher[s] = fed[s]

(* A Start made with a chain is wrapped for the chip that the chain has. *)
StartOK == \A st \in starts : st.chip \subseteq {<<st.pdh[1], "CEK">>}

(* A measurement says what the SP knows of the guest. *)
MeasureOK ==
  \A g \in Guests :
    guest[g].state = "secret" =>
      guest[g].measure = Measure(guest[g].start.tk, Build[guest[g].platform],
                                 guest[g].start.policy, guest[g].mem, g)

(* What a session was shown is the measurement of a guest. *)
ShownOK ==
  \A s \in Sessions : \A c \in claim[s] :
    LET g == c.measure.mnonce
    IN  g \in Guests /\ guest[g].state = "secret" /\ guest[g].measure = c.measure

Agrees(s, c) == c.measure = Measure(s, c.build, Policy[s], c.digest, c.measure.mnonce)

(* A session is Verified by a claim that agrees with the measurement, and   *)
(* Gone by one that does not.                                               *)
ClaimOK ==
  \A s \in Sessions : \A c \in claim[s] :
    /\ phase[s] \in {"Verified", "Gone"}
    /\ phase[s] = "Verified" => c.mock \/ Agrees(s, c)
    /\ phase[s] = "Gone" => ~Agrees(s, c)

(* Packets and secrets carry the measurement their session has verified. *)
Backed(s, msr) == phase[s] = "Verified" /\ \E c \in claim[s] : c.measure = msr

PacketOK == \A pkt \in packets : Backed(pkt.tik, pkt.measure)

SecretOK ==
  \A g \in Guests :
    guest[g].state = "secret" => \A x \in guest[g].secrets : Backed(x[1], guest[g].measure)

Inv == /\ TypeOK /\ FedOK /\ StartOK /\ KeysStayOnChip /\ MeasureOK
       /\ ShownOK /\ ClaimOK /\ PacketOK /\ SecretOK

-----------------------------------------------------------------------------
(* Chunks and contents are sequences of bytes. *)
LEMMA ChunksAreSeqs == Chunks \subseteq Seq(Bytes) /\ Contents \subseteq Seq(Bytes)
BY DEF Chunks, Contents

(* A chain that verifies is of one platform, from its chip's key to its PDH. *)
LEMMA ChainOfOneChip ==
  ASSUME NEW chain \in Chains, chain_verify(chain)
  PROVE  \E p \in Platforms : chain.PDH.key = <<p, "PDH">> /\ chain.CEK.key = <<p, "CEK">>
<1>1. chain.CEK.usage = "CEK" /\ chain.PEK.usage = "PEK"
  BY ChainsAssumption DEF chain_decode, Usages
<1>2. PICK i \in {1, 2} : PublicKey_verify(chain.CEK, chain.PEK, chain.PEK.sigs[i])
  BY DEF chain_verify, sev_chain_verify, verify
<1>3. PICK j \in {1, 2} : PublicKey_verify(chain.PEK, chain.PDH, chain.PDH.sigs[j])
  BY DEF chain_verify, sev_chain_verify, verify
<1>4. chain.PEK.key[1] = chain.CEK.key[1]
  <2>1. /\ chain.PEK.sigs[i].usage = "CEK"
        /\ chain.PEK.sigs[i].key = chain.CEK.key
        /\ chain.PEK.sigs[i].of.key = chain.PEK.key
    BY <1>1, <1>2 DEF PublicKey_verify, Body
  <2>2. chain.PEK.sigs[i].usage \in {"CEK", "PEK"} =>
          chain.PEK.sigs[i].of.key[1] = chain.PEK.sigs[i].key[1]
    BY SignersAssumption, Zenon
  <2> QED
    BY <2>1, <2>2
<1>5. chain.PDH.key[1] = chain.PEK.key[1]
  <2>1. /\ chain.PDH.sigs[j].usage = "PEK"
        /\ chain.PDH.sigs[j].key = chain.PEK.key
        /\ chain.PDH.sigs[j].of.key = chain.PDH.key
    BY <1>1, <1>3 DEF PublicKey_verify, Body
  <2>2. chain.PDH.sigs[j].usage \in {"CEK", "PEK"} =>
          chain.PDH.sigs[j].of.key[1] = chain.PDH.sigs[j].key[1]
    BY SignersAssumption, Zenon
  <2> QED
    BY <2>1, <2>2
<1> QED
  BY <1>4, <1>5, ChainsAssumption

-----------------------------------------------------------------------------
(* What sign() and verify() do with the two slots of a certificate. *)
Cert(usage, key, s, t) == [usage |-> usage, key |-> key, sigs |-> <<s, t>>]

By(name, u, usage, key) ==
  [usage |-> u, key |-> <<name, u>>, of |-> [usage |-> usage, key |-> key]]

(* Reading a slot of a certificate, and writing it. *)
LEMMA Slots ==
  ASSUME NEW usage, NEW key, NEW s, NEW t, NEW x
  PROVE  LET c == Cert(usage, key, s, t)
         IN  /\ c.usage = usage /\ c.key = key /\ c.sigs[1] = s /\ c.sigs[2] = t
             /\ [c EXCEPT !.sigs[1] = x] = Cert(usage, key, x, t)
             /\ [c EXCEPT !.sigs[2] = x] = Cert(usage, key, s, x)
<1>1. <<s, t>>[1] = s /\ <<s, t>>[2] = t
  OBVIOUS
<1>2. [<<s, t>> EXCEPT ![1] = x] = <<x, t>> /\ [<<s, t>> EXCEPT ![2] = x] = <<s, x>>
  OBVIOUS
<1> QED
  BY <1>1, <1>2 DEF Cert

(* The signature of a key goes to the first slot if that is free. *)
LEMMA SignedOnce ==
  ASSUME NEW name, NEW u, NEW of, NEW usage
  PROVE  sign(Prv(name, u), NewCert(of, usage))
           = Cert(usage, <<of, usage>>, By(name, u, usage, <<of, usage>>), NoSig)
<1> DEFINE c == Cert(usage, <<of, usage>>, NoSig, NoSig)
<1>1. NewCert(of, usage) = c
  BY DEF NewCert, generate, Cert
<1>2. is_empty(NoSig)
  BY DEF is_empty, NoSig, Usages
<1>3. Signature(Prv(name, u), c) = By(name, u, usage, <<of, usage>>)
  BY Slots DEF Signature, Prv, Body, By
<1>4. sign(Prv(name, u), c) = [c EXCEPT !.sigs[1] = Signature(Prv(name, u), c)]
  BY <1>2, Slots DEF sign
<1> QED
  BY <1>1, <1>3, <1>4, Slots

(* The signature of a second key goes to the second slot. *)
LEMMA SignedTwice ==
  ASSUME NEW name, NEW u, NEW other, NEW v \in Usages, NEW of, NEW usage
  PROVE  sign(Prv(name, u), sign(Prv(other, v), NewCert(of, usage)))
           = Cert(usage, <<of, usage>>, By(other, v, usage, <<of, usage>>),
                  By(name, u, usage, <<of, usage>>))
<1> DEFINE s == By(other, v, usage, <<of, usage>>)
           c == Cert(usage, <<of, usage>>, s, NoSig)
<1>1. is_empty(NoSig) /\ ~is_empty(s)
  BY DEF is_empty, NoSig, Usages, By
<1>2. Signature(Prv(name, u), c) = By(name, u, usage, <<of, usage>>)
  BY Slots DEF Signature, Prv, Body, By
<1>3. sign(Prv(name, u), c) = [c EXCEPT !.sigs[2] = Signature(Prv(name, u), c)]
  BY <1>1, Slots DEF sign
<1> QED
  BY <1>2, <1>3, Slots, SignedOnce

(* verify() finds a signature in whichever slot it is. *)
LEMMA FoundInSlot ==
  ASSUME NEW signer, NEW name, NEW u \in Usages, signer.usage = u, signer.key = <<name, u>>,
         NEW usage, NEW key, NEW s, NEW t,
         s = By(name, u, usage, key) \/ t = By(name, u, usage, key)
  PROVE  verify(signer, Cert(usage, key, s, t))
<1> DEFINE c == Cert(usage, key, s, t)
           sig == By(name, u, usage, key)
<1>1. ~is_empty(sig) /\ PublicKey_verify(signer, c, sig)
  BY Slots DEF is_empty, PublicKey_verify, Body, By
<1>2. c.sigs[1] = sig \/ c.sigs[2] = sig
  BY Slots
<1> QED
  BY <1>1, <1>2 DEF verify

(* A CA certificate verifies with the root key of its generation. *)
LEMMA CaVerifies ==
  ASSUME NEW ca, NEW usage
  PROVE  /\ ca_verify(CaCert(ca, "ARK"), CaCert(ca, usage))
         /\ CaCert(ca, usage).usage = usage /\ CaCert(ca, usage).key = <<ca, usage>>
BY DEF ca_verify, CaCert, PublicKey_verify, Body

(* Each link of a platform's own chain verifies. *)
LEMMA GenuineVerifies ==
  ASSUME NEW chain, Genuine(chain)
  PROVE  chain_verify(chain)
<1> DEFINE o == chain.OCA.key[1]
           ca == chain.ASK.key[1]
<1>1. PICK p \in Platforms :
        /\ chain.ARK = CaCert(ca, "ARK") /\ chain.ASK = CaCert(ca, "ASK")
        /\ chain.CEK = sign(Prv(ca, "ASK"), NewCert(p, "CEK"))
        /\ chain.OCA = Oca(o)
        /\ chain.PEK \in {sign(Prv(p, "CEK"), sign(Prv(o, "OCA"), NewCert(p, "PEK"))),
                          sign(Prv(o, "OCA"), sign(Prv(p, "CEK"), NewCert(p, "PEK")))}
        /\ chain.PDH = sign(Prv(p, "PEK"), NewCert(p, "PDH"))
  BY DEF Genuine, Made
<1> HIDE DEF o, ca
<1> DEFINE byOwner == By(o, "OCA", "PEK", <<p, "PEK">>)
           byChip == By(p, "CEK", "PEK", <<p, "PEK">>)
<1>2. chain.CEK = Cert("CEK", <<p, "CEK">>, By(ca, "ASK", "CEK", <<p, "CEK">>), NoSig)
  BY <1>1, SignedOnce
<1>3. chain.OCA = Cert("OCA", <<o, "OCA">>, By(o, "OCA", "OCA", <<o, "OCA">>), NoSig)
  BY <1>1, SignedOnce DEF Oca
<1>4. chain.PDH = Cert("PDH", <<p, "PDH">>, By(p, "PEK", "PDH", <<p, "PDH">>), NoSig)
  BY <1>1, SignedOnce
<1>5. \/ chain.PEK = Cert("PEK", <<p, "PEK">>, byOwner, byChip)
      \/ chain.PEK = Cert("PEK", <<p, "PEK">>, byChip, byOwner)
  BY <1>1, SignedTwice DEF Usages
<1>6. /\ chain.CEK.usage = "CEK" /\ chain.CEK.key = <<p, "CEK">>
      /\ chain.OCA.usage = "OCA" /\ chain.OCA.key = <<o, "OCA">>
      /\ chain.PEK.usage = "PEK" /\ chain.PEK.key = <<p, "PEK">>
      /\ chain.ASK.usage = "ASK" /\ chain.ASK.key = <<ca, "ASK">>
  BY <1>1, <1>2, <1>3, <1>5, Slots, CaVerifies
<1> HIDE DEF byOwner, byChip
<1>7. ca_chain_verify(chain)
  BY <1>1, CaVerifies DEF ca_chain_verify
<1>8. verify(chain.ASK, chain.CEK)
  BY <1>2, <1>6, FoundInSlot DEF Usages
<1>9. verify(chain.OCA, chain.OCA)
  BY <1>3, <1>6, FoundInSlot DEF Usages
<1>10. verify(chain.OCA, chain.PEK)
  BY <1>5, <1>6, FoundInSlot DEF Usages, byOwner
<1>11. verify(chain.CEK, chain.PEK)
  BY <1>5, <1>6, FoundInSlot DEF Usages, byChip
<1>12. verify(chain.PEK, chain.PDH)
  BY <1>4, <1>6, FoundInSlot DEF Usages
<1> QED
  BY <1>7, <1>8, <1>9, <1>10, <1>11, <1>12 DEF chain_verify, sev_chain_verify

-----------------------------------------------------------------------------
(* The invariant holds before the first message. *)
LEMMA InitInv == Init => Inv
<1> SUFFICES ASSUME Init PROVE Inv
  OBVIOUS
<1>1. TypeOK
  <2>1. NoGuest \in Guest
    BY DEF Guest
  <2>2. <<>> \in Seq(Bytes)
    OBVIOUS
  <2> QED
    BY <2>1, <2>2 DEF Init, TypeOK
<1>2. \A g \in Guests : guest[g].state = "none"
  BY DEF Init, NoGuest
<1> QED
  BY <1>1, <1>2 DEF Init, Inv, FedOK, StartOK, KeysStayOnChip, MeasureOK, ShownOK, ClaimOK,
                    PacketOK, SecretOK

-----------------------------------------------------------------------------
(* The host's and the SPs' steps. *)

(* What a guest may turn into without disturbing what sessions rely on: it  *)
(* keeps its chip, has a true measurement, and keeps the one it has.        *)
Allowed(g, new) ==
  /\ new \in Guest
  /\ new.state # "none" => new.start.chip \subseteq {<<new.platform, "CEK">>}
  /\ new.state = "secret" =>
       /\ new.measure = Measure(new.start.tk, Build[new.platform], new.start.policy, new.mem, g)
       /\ \A x \in new.secrets : Backed(x[1], new.measure)
  /\ guest[g].state = "secret" => new.state = "secret" /\ new.measure = guest[g].measure

(* A step of one guest that is allowed preserves the invariant. *)
LEMMA HostStep ==
  ASSUME Inv, NEW g \in Guests, NEW new, Allowed(g, new),
         guest' = [guest EXCEPT ![g] = new], UNCHANGED tenant
  PROVE  Inv'
<1> USE DEF Inv
<1>1. TypeOK'
  BY DEF TypeOK, tenant, Allowed
<1>2. /\ guest'[g] = new
      /\ \A h \in Guests : h # g => guest'[h] = guest[h]
  BY DEF TypeOK
<1>3. /\ UNCHANGED <<phase, hasher, fed, starts, claim, packets>>
      /\ \A s, msr : Backed(s, msr)' <=> Backed(s, msr)
  BY DEF tenant, Backed
<1>4. FedOK' /\ StartOK' /\ ClaimOK' /\ PacketOK'
  BY <1>3 DEF FedOK, StartOK, ClaimOK, PacketOK, Agrees
<1>5. KeysStayOnChip'
  BY <1>2 DEF KeysStayOnChip, Allowed
<1>6. MeasureOK'
  BY <1>2 DEF MeasureOK, Allowed
<1>7. ShownOK'
  BY <1>2, <1>3 DEF ShownOK, Allowed
<1>8. SecretOK'
  BY <1>2, <1>3 DEF SecretOK, Allowed
<1> QED
  BY <1>1, <1>4, <1>5, <1>6, <1>7, <1>8

(* LAUNCH_START: the new guest is on the chip its keys are wrapped for. *)
LEMMA LaunchStartInv ==
  ASSUME Inv, NEW g \in Guests, NEW p \in Platforms, NEW policy \in Policies,
         LAUNCH_START(g, p, policy)
  PROVE  Inv'
<1>1. PICK st \in starts :
        /\ st.pdh = Pdh[p].key
        /\ guest' = [guest EXCEPT ![g] = [state |-> "update", platform |-> p,
                       start |-> [st EXCEPT !.policy = policy], mem |-> <<>>]]
  BY DEF LAUNCH_START
<1> DEFINE begun == [st EXCEPT !.policy = policy]
           new == [state |-> "update", platform |-> p, start |-> begun, mem |-> <<>>]
<1>2. st \in Starts
  BY DEF Inv, TypeOK
<1>3. begun \in Starts /\ begun.chip = st.chip
  BY <1>2 DEF Starts
<1>4. begun.chip \subseteq {<<p, "CEK">>}
  BY <1>1, <1>3, PdhAssumption DEF Inv, StartOK
<1>5. new \in Guest
  BY <1>3 DEF Guest
<1>6. Allowed(g, new)
  BY <1>4, <1>5 DEF LAUNCH_START, Allowed
<1> QED
  BY <1>1, <1>6, HostStep DEF LAUNCH_START

(* What a guest is in each of its states. *)
LEMMA GuestFields ==
  ASSUME TypeOK, NEW g \in Guests
  PROVE  /\ guest[g].state = "update" =>
              guest[g] \in [state : {"update"}, platform : Platforms, start : Starts, mem : Seq(Bytes)]
         /\ guest[g].state = "secret" =>
              guest[g] \in [state : {"secret"}, platform : Platforms, start : Starts, mem : Seq(Bytes),
                            measure : Measurement, secrets : SUBSET (Sessions \X Secrets)]
<1>1. guest[g] \in Guest
  BY DEF TypeOK
<1> QED
  BY <1>1 DEF Guest, NoGuest

(* LAUNCH_UPDATE: only memory that is not measured yet changes. *)
LEMMA LaunchUpdateInv ==
  ASSUME Inv, NEW g \in Guests, NEW chunk \in Chunks, LAUNCH_UPDATE(g, chunk)
  PROVE  Inv'
<1> DEFINE new == [guest[g] EXCEPT !.mem = @ \o chunk]
<1>1. guest[g] \in [state : {"update"}, platform : Platforms, start : Starts, mem : Seq(Bytes)]
  BY GuestFields DEF Inv, LAUNCH_UPDATE
<1>2. guest[g].mem \o chunk \in Seq(Bytes)
  BY <1>1, ChunksAreSeqs, ConcatProperties
<1>3. new \in [state : {"update"}, platform : Platforms, start : Starts, mem : Seq(Bytes)]
  BY <1>1, <1>2
<1>4. new.start = guest[g].start /\ new.platform = guest[g].platform /\ new.state = "update"
  BY <1>1
<1>5. Allowed(g, new)
  BY <1>1, <1>3, <1>4 DEF Inv, Allowed, Guest, KeysStayOnChip
<1> QED
  BY <1>5, HostStep DEF LAUNCH_UPDATE

(* LAUNCH_MEASURE: the measurement is of what the SP has. *)
LEMMA LaunchMeasureInv ==
  ASSUME Inv, NEW g \in Guests, LAUNCH_MEASURE(g)
  PROVE  Inv'
<1> DEFINE msr == Measure(guest[g].start.tk, Build[guest[g].platform], guest[g].start.policy,
                          guest[g].mem, g)
           new == [state |-> "secret", platform |-> guest[g].platform, start |-> guest[g].start,
                   mem |-> guest[g].mem, measure |-> msr, secrets |-> {}]
<1>1. guest[g] \in [state : {"update"}, platform : Platforms, start : Starts, mem : Seq(Bytes)]
  BY GuestFields DEF Inv, LAUNCH_MEASURE
<1>2. msr \in Measurement
  BY <1>1 DEF Measure, Measurement, Starts, Builds
<1>3. new \in Guest
  BY <1>1, <1>2 DEF Guest
<1>4. Allowed(g, new)
  BY <1>1, <1>3 DEF Inv, Allowed, KeysStayOnChip
<1> QED
  BY <1>4, HostStep DEF LAUNCH_MEASURE

(* LAUNCH_SECRET: a packet that is let in was made for this measurement. *)
LEMMA LaunchSecretInv ==
  ASSUME Inv, NEW g \in Guests, LAUNCH_SECRET(g)
  PROVE  Inv'
<1>1. PICK pkt \in packets :
        /\ pkt.measure = guest[g].measure
        /\ guest' = [guest EXCEPT ![g].secrets = @ \cup {<<pkt.tik, pkt.data>>}]
  BY DEF LAUNCH_SECRET
<1> DEFINE new == [guest[g] EXCEPT !.secrets = @ \cup {<<pkt.tik, pkt.data>>}]
<1>2. guest[g] \in [state : {"secret"}, platform : Platforms, start : Starts, mem : Seq(Bytes),
                    measure : Measurement, secrets : SUBSET (Sessions \X Secrets)]
  BY GuestFields DEF Inv, LAUNCH_SECRET
<1>3. pkt \in [tik : Sessions, data : Secrets, measure : Measurement]
  BY DEF Inv, TypeOK
<1>4. new \in [state : {"secret"}, platform : Platforms, start : Starts, mem : Seq(Bytes),
               measure : Measurement, secrets : SUBSET (Sessions \X Secrets)]
  BY <1>2, <1>3
<1>5. /\ new.state = "secret" /\ new.platform = guest[g].platform
      /\ new.start = guest[g].start /\ new.mem = guest[g].mem
      /\ new.measure = guest[g].measure
      /\ new.secrets = guest[g].secrets \cup {<<pkt.tik, pkt.data>>}
  BY <1>2
<1>6. \A x \in new.secrets : Backed(x[1], new.measure)
  <2> TAKE x \in new.secrets
  <2>1. CASE x \in guest[g].secrets
    BY <2>1, <1>2, <1>5 DEF Inv, SecretOK
  <2>2. CASE x = <<pkt.tik, pkt.data>>
    BY <2>2, <1>1, <1>5 DEF Inv, PacketOK
  <2> QED
    BY <2>1, <2>2, <1>5
<1>7. Allowed(g, new)
  BY <1>2, <1>4, <1>5, <1>6 DEF Inv, Allowed, Guest, KeysStayOnChip, MeasureOK
<1> QED
  BY <1>1, <1>7, HostStep DEF LAUNCH_SECRET

-----------------------------------------------------------------------------
(* The session's steps. *)

(* A new Start, whether or not a chain was checked for it. *)
LEMMA StartStep ==
  ASSUME Inv, NEW s \in Sessions, NEW p \in Platforms, NEW pdh, NEW chip,
         pdh.key = <<p, "PDH">>, chip \in {{}, {<<p, "CEK">>}},
         starts' = starts \cup {Start(s, pdh, chip)}, refused' \in BOOLEAN,
         UNCHANGED <<phase, hasher, fed, guest, claim, packets>>
  PROVE  Inv'
<1> USE DEF Inv
<1>1. Policy[s] \in Policies
  BY PolicyAssumption
<1>2. Start(s, pdh, chip) \in Starts
  BY <1>1 DEF Start, Starts
<1>3. TypeOK'
  BY <1>2 DEF TypeOK
<1>4. StartOK'
  BY DEF StartOK, Start
<1> QED
  BY <1>3, <1>4 DEF FedOK, KeysStayOnChip, MeasureOK, ShownOK, ClaimOK, PacketOK, SecretOK,
                    Backed, Agrees

(* Session::start, with a chain that verifies and with one that does not. *)
LEMMA StartInv ==
  ASSUME Inv, NEW s \in Sessions, NEW chain \in Chains, start(s, chain)
  PROVE  Inv'
<1>1. CASE chain_verify(chain)
  <2>1. PICK p \in Platforms : chain.PDH.key = <<p, "PDH">> /\ chain.CEK.key = <<p, "CEK">>
    BY <1>1, ChainOfOneChip
  <2>2. refused' \in BOOLEAN
    BY <1>1 DEF Inv, TypeOK, start
  <2>3. starts' = starts \cup {Start(s, chain.PDH, {chain.CEK.key})}
    BY <1>1 DEF start
  <2> QED
    BY <2>1, <2>2, <2>3, StartStep DEF start
<1>2. CASE ~chain_verify(chain)
  <2>1. UNCHANGED <<phase, hasher, fed, starts, guest, claim, packets>>
    BY <1>2 DEF start
  <2>2. refused' \in BOOLEAN
    BY <1>2, Zenon DEF Inv, TypeOK, start
  <2>3. TypeOK'
    BY <2>1, <2>2 DEF Inv, TypeOK
  <2> QED
    BY <2>1, <2>3 DEF Inv, FedOK, StartOK, KeysStayOnChip, MeasureOK, ShownOK, ClaimOK, PacketOK,
                      SecretOK, Backed, Agrees
<1> QED
  BY <1>1, <1>2

(* Session::start_pdh. *)
LEMMA StartPdhInv ==
  ASSUME Inv, NEW s \in Sessions, NEW p \in Platforms, start_pdh(s, p)
  PROVE  Inv'
<1>1. refused' \in BOOLEAN
  BY DEF Inv, TypeOK, start_pdh
<1> QED
  BY <1>1, PdhAssumption, StartStep DEF start_pdh

(* Session::measure: the hasher starts empty, and nothing was fed before. *)
LEMMA MeasureInv ==
  ASSUME Inv, NEW s \in Sessions, measure(s)
  PROVE  Inv'
<1> USE DEF Inv
<1>1. TypeOK'
  BY DEF TypeOK, measure
<1>2. FedOK'
  BY DEF TypeOK, FedOK, measure
<1>3. \A r \in Sessions : \A msr : Backed(r, msr) => Backed(r, msr)'
  BY DEF TypeOK, Backed, measure
<1>4. ClaimOK'
  BY DEF TypeOK, ClaimOK, Agrees, measure
<1>5. PacketOK'
  BY <1>3 DEF TypeOK, PacketOK, measure
<1>6. SecretOK'
  <2> SUFFICES ASSUME NEW g \in Guests, guest[g].state = "secret", NEW x \in guest[g].secrets
               PROVE  Backed(x[1], guest[g].measure)'
    BY DEF SecretOK, measure
  <2> QED
    BY <1>3, GuestFields DEF SecretOK, measure
<1> QED
  BY <1>1, <1>2, <1>4, <1>5, <1>6 DEF StartOK, KeysStayOnChip, MeasureOK, ShownOK, measure

(* Session::update_data: hasher and fed grow alike. *)
LEMMA UpdateDataInv ==
  ASSUME Inv, NEW s \in Sessions, NEW chunk \in Chunks, update_data(s, chunk)
  PROVE  Inv'
<1> USE DEF Inv
<1>1. hasher[s] \o chunk \in Seq(Bytes) /\ fed[s] \o chunk \in Seq(Bytes)
  BY ChunksAreSeqs, ConcatProperties DEF TypeOK
<1>2. TypeOK'
  BY <1>1 DEF TypeOK, update_data
<1>3. FedOK'
  BY DEF TypeOK, FedOK, update_data
<1> QED
  BY <1>2, <1>3 DEF StartOK, KeysStayOnChip, MeasureOK, ShownOK, ClaimOK, PacketOK, SecretOK,
                    Backed, Agrees, update_data

(* Every verification: the session has no claim before it and one after.    *)
LEMMA SettleStep ==
  ASSUME Inv, NEW s \in Sessions, phase[s] \in {"Initialized", "Measuring"},
         NEW c \in Claim, c.measure \in Shown,
         NEW to \in {"Verified", "Gone"},
         to = "Verified" => c.mock \/ Agrees(s, c),
         to = "Gone" => ~Agrees(s, c),
         phase' = [phase EXCEPT ![s] = to], claim' = [claim EXCEPT ![s] = {c}],
         UNCHANGED <<hasher, fed, starts, guest, packets, refused>>
  PROVE  Inv'
<1> USE DEF Inv
<1>1. TypeOK'
  BY DEF TypeOK
<1>2. \A r \in Sessions \ {s} : phase'[r] = phase[r] /\ claim'[r] = claim[r]
  BY DEF TypeOK
<1>3. phase'[s] = to /\ claim'[s] = {c}
  BY DEF TypeOK
<1>4. FedOK'
  BY <1>2, <1>3 DEF FedOK
<1>5. ShownOK'
  <2>1. PICK g \in Guests : guest[g].state = "secret" /\ guest[g].measure = c.measure
    BY DEF Shown
  <2>2. c.measure = Measure(guest[g].start.tk, Build[guest[g].platform],
                            guest[g].start.policy, guest[g].mem, g)
    BY <2>1 DEF MeasureOK
  <2>3. c.measure.mnonce = g
    BY <2>2 DEF Measure
  <2> QED
    BY <1>2, <1>3, <2>1, <2>3 DEF ShownOK
<1>6. ClaimOK'
  BY <1>2, <1>3 DEF ClaimOK, Agrees
<1>7. \A r \in Sessions : \A msr : Backed(r, msr) => Backed(r, msr)'
  BY <1>2 DEF Backed
<1>8. PacketOK'
  BY <1>7 DEF TypeOK, PacketOK
<1>9. SecretOK'
  <2> SUFFICES ASSUME NEW g \in Guests, guest[g].state = "secret", NEW x \in guest[g].secrets
               PROVE  Backed(x[1], guest[g].measure)'
    BY DEF SecretOK
  <2> QED
    BY <1>7, GuestFields DEF SecretOK
<1> QED
  BY <1>1, <1>4, <1>5, <1>6, <1>8, <1>9 DEF StartOK, KeysStayOnChip, MeasureOK

(* The measurements that the host can show are measurements. *)
LEMMA ShownType == Inv => Shown \subseteq Measurement
BY GuestFields DEF Inv, Shown

(* Session::verify with the digest that the owner means. *)
LEMMA VerifyInv ==
  ASSUME Inv, NEW s \in Sessions, phase[s] \in {"Initialized", "Measuring"},
         NEW digest \in Seq(Bytes), Verify(s, digest, digest)
  PROVE  Inv'
<1>1. PICK build \in Builds, msr \in Shown :
        LET same == msr = Measure(s, build, Policy[s], digest, msr.mnonce)
        IN  /\ phase' = [phase EXCEPT ![s] = IF same THEN "Verified" ELSE "Gone"]
            /\ claim' = [claim EXCEPT ![s] = {[digest |-> digest, build |-> build,
                                               measure |-> msr, mock |-> FALSE]}]
            /\ UNCHANGED <<hasher, fed, starts, guest, packets, refused>>
  BY DEF Verify
<1> DEFINE c == [digest |-> digest, build |-> build, measure |-> msr, mock |-> FALSE]
           to == IF Agrees(s, c) THEN "Verified" ELSE "Gone"
<1>2. c \in Claim
  BY ShownType DEF Claim
<1>3. Agrees(s, c) <=> msr = Measure(s, build, Policy[s], digest, msr.mnonce)
  BY DEF Agrees
<1>4. phase' = [phase EXCEPT ![s] = to] /\ claim' = [claim EXCEPT ![s] = {c}]
  BY <1>1, <1>3
<1>5. /\ c.measure \in Shown /\ to \in {"Verified", "Gone"}
      /\ to = "Verified" => c.mock \/ Agrees(s, c)
      /\ to = "Gone" => ~Agrees(s, c)
  OBVIOUS
<1> HIDE DEF c, to
<1> QED
  BY <1>1, <1>2, <1>4, <1>5, SettleStep

(* Session::mock_verify. *)
LEMMA MockVerifyInv ==
  ASSUME Inv, NEW s \in Sessions, mock_verify(s)
  PROVE  Inv'
<1>1. PICK build \in Builds, msr \in Shown :
        claim' = [claim EXCEPT ![s] = {[digest |-> <<>>, build |-> build,
                                        measure |-> msr, mock |-> TRUE]}]
  BY DEF mock_verify
<1> DEFINE c == [digest |-> <<>>, build |-> build, measure |-> msr, mock |-> TRUE]
<1>2. c \in Claim /\ c.measure \in Shown /\ c.mock
  BY ShownType DEF Claim
<1>3. claim' = [claim EXCEPT ![s] = {c}]
  BY <1>1
<1> HIDE DEF c
<1> QED
  BY <1>2, <1>3, SettleStep DEF mock_verify

(* Session::secret: the packet carries the measurement of the claim. *)
LEMMA SecretInv ==
  ASSUME Inv, NEW s \in Sessions, NEW data \in Secrets, secret(s, data)
  PROVE  Inv'
<1> USE DEF Inv
<1>1. TypeOK'
  BY DEF TypeOK, Claim, secret
<1>2. PacketOK'
  BY DEF TypeOK, PacketOK, Backed, secret
<1> QED
  BY <1>1, <1>2 DEF FedOK, StartOK, KeysStayOnChip, MeasureOK, ShownOK, ClaimOK, SecretOK,
                    Backed, Agrees, secret

-----------------------------------------------------------------------------
(* Every step preserves the invariant. *)
LEMMA StepInv == Inv /\ [Next]_vars => Inv'
<1> SUFFICES ASSUME Inv, [Next]_vars PROVE Inv'
  OBVIOUS
<1>1. ASSUME NEW g \in Guests, NEW p \in Platforms, NEW policy \in Policies,
             LAUNCH_START(g, p, policy)
      PROVE  Inv'
  BY <1>1, LaunchStartInv
<1>2. ASSUME NEW g \in Guests, NEW chunk \in Chunks, LAUNCH_UPDATE(g, chunk)
      PROVE  Inv'
  BY <1>2, LaunchUpdateInv
<1>3. ASSUME NEW g \in Guests, LAUNCH_MEASURE(g) \/ LAUNCH_SECRET(g)
      PROVE  Inv'
  BY <1>3, LaunchMeasureInv, LaunchSecretInv
<1>4. ASSUME NEW s \in Sessions, NEW chain \in Chains, start(s, chain)
      PROVE  Inv'
  BY <1>4, StartInv
<1>5. ASSUME NEW s \in Sessions, NEW p \in Platforms, start_pdh(s, p)
      PROVE  Inv'
  BY <1>5, StartPdhInv
<1>6. ASSUME NEW s \in Sessions, measure(s)
      PROVE  Inv'
  BY <1>6, MeasureInv
<1>7. ASSUME NEW s \in Sessions, NEW chunk \in Chunks, update_data(s, chunk)
      PROVE  Inv'
  BY <1>7, UpdateDataInv
<1>8. ASSUME NEW s \in Sessions, NEW digest \in Contents,
             verify_digest(s, digest) \/ verify_with_digest(s, digest)
      PROVE  Inv'
  BY <1>8, VerifyInv, ChunksAreSeqs DEF verify_digest, verify_with_digest
<1>9. ASSUME NEW s \in Sessions, verify_measuring(s)
      PROVE  Inv'
  <2>1. hasher[s] = fed[s] /\ hasher[s] \in Seq(Bytes)
    BY <1>9 DEF Inv, TypeOK, FedOK, verify_measuring
  <2> QED
    BY <1>9, <2>1, VerifyInv DEF verify_measuring
<1>10. ASSUME NEW s \in Sessions, mock_verify(s)
       PROVE  Inv'
  BY <1>10, MockVerifyInv
<1>11. ASSUME NEW s \in Sessions, NEW data \in Secrets, secret(s, data)
       PROVE  Inv'
  BY <1>11, SecretInv
<1>12. CASE UNCHANGED vars
  BY <1>12 DEF vars, Inv, TypeOK, FedOK, StartOK, KeysStayOnChip, MeasureOK, ShownOK, ClaimOK,
               PacketOK, SecretOK, Backed, Agrees
<1> QED
  BY <1>1, <1>2, <1>3, <1>4, <1>5, <1>6, <1>7, <1>8, <1>9, <1>10, <1>11, <1>12 DEF Next

(* The states of sessions, guests and messages are what the code declares. *)
THEOREM TypeCorrect == Spec => []TypeOK
<1>1. Inv => TypeOK
  BY DEF Inv
<1> QED
  BY <1>1, InitInv, StepInv, PTL DEF Spec

(* Session::secret: whatever guests the host launches and whatever it       *)
(* replays, a secret ends up only in the guest its owner verified.          *)
THEOREM SecretsReachVerifiedGuests == Spec => []SecretOnlyInVerified
<1>1. Inv => SecretOnlyInVerified
  <2> SUFFICES ASSUME Inv, NEW g \in Guests, guest[g].state = "secret", NEW x \in guest[g].secrets
               PROVE  \E c \in claim[x[1]] :
                        /\ c.measure.mnonce = g
                        /\ c.mock \/ /\ c.digest = guest[g].mem
                                     /\ c.build = Build[guest[g].platform]
                                     /\ Policy[x[1]] = guest[g].start.policy
    BY DEF SecretOnlyInVerified
  <2>1. x[1] \in Sessions
    BY GuestFields DEF Inv
  <2>2. PICK c \in claim[x[1]] : c.measure = guest[g].measure
    BY DEF Inv, SecretOK, Backed
  <2>3. phase[x[1]] = "Verified" /\ (c.mock \/ Agrees(x[1], c))
    BY <2>1 DEF Inv, SecretOK, Backed, ClaimOK
  <2>4. guest[g].measure = Measure(guest[g].start.tk, Build[guest[g].platform],
                                   guest[g].start.policy, guest[g].mem, g)
    BY DEF Inv, MeasureOK
  <2> QED
    BY <2>2, <2>3, <2>4 DEF Agrees, Measure
<1> QED
  BY <1>1, InitInv, StepInv, PTL DEF Spec

(* Session::verify: a session is lost only to a measurement that is not of  *)
(* what the owner expects.                                                  *)
THEOREM RefusalsAreRight == Spec => []RefusedRightly
<1>1. Inv => RefusedRightly
  <2> SUFFICES ASSUME Inv, NEW s \in Sessions, phase[s] = "Gone", NEW c \in claim[s],
                      c.digest = guest[c.measure.mnonce].mem,
                      c.build = Build[guest[c.measure.mnonce].platform],
                      Policy[s] = guest[c.measure.mnonce].start.policy,
                      s = guest[c.measure.mnonce].start.tk
               PROVE  FALSE
    BY DEF RefusedRightly
  <2>1. ~Agrees(s, c)
    BY DEF Inv, ClaimOK
  <2> QED
    BY <2>1 DEF Inv, ShownOK, MeasureOK, Agrees
<1> QED
  BY <1>1, InitInv, StepInv, PTL DEF Spec

(* Session::start: the keys are of use only to the chip whose CEK is in the *)
(* chain that was verified.                                                 *)
THEOREM KeysAreForTheChip == Spec => []KeysStayOnChip
<1>1. Inv => KeysStayOnChip
  BY DEF Inv
<1> QED
  BY <1>1, InitInv, StepInv, PTL DEF Spec

(* Session::start: a platform's own chain is never refused, with the two    *)
(* signatures on its PEK in either order.                                   *)
THEOREM GenuineChainsAreAccepted == Spec => []GenuineChainsStart
<1>1. Init => GenuineChainsStart
  BY DEF Init, GenuineChainsStart
<1>2. GenuineChainsStart /\ [Next]_vars => GenuineChainsStart'
  <2> SUFFICES ASSUME ~refused, [Next]_vars PROVE ~refused'
    BY DEF GenuineChainsStart
  <2>1. ASSUME NEW s \in Sessions, NEW chain \in Chains, start(s, chain)
        PROVE  ~refused'
    BY <2>1, GenuineVerifies, Zenon DEF start
  <2>2. CASE ~(\E s \in Sessions, chain \in Chains : start(s, chain))
    <3>1. refused' = refused
      BY <2>2 DEF Next, vars, tenant, LAUNCH_START, LAUNCH_UPDATE, LAUNCH_MEASURE, LAUNCH_SECRET,
                  start_pdh, measure, update_data, verify_digest, verify_with_digest,
                  verify_measuring, Verify, mock_verify, secret
    <3> QED
      BY <3>1
  <2> QED
    BY <2>1, <2>2
<1> QED
  BY <1>1, <1>2, PTL DEF Spec
=============================================================================
