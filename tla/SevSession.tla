----------------------------- MODULE SevSession -----------------------------
(***************************************************************************)
(* The guest owner's session with the AMD SP, src/src/session: keys for the *)
(* SP of a platform, a measurement to check against one's own, a secret for *)
(* the guest that was measured.                                             *)
(*                                                                          *)
(* Everything goes through the host, which may lose, repeat and reorder it, *)
(* and launch any number of guests with it on any platform.  Cryptography   *)
(* is symbolic: TEK and TIK are named by their session, and a MAC is the    *)
(* record of its key and of what it covers.                                 *)
(***************************************************************************)
EXTENDS SevCerts

CONSTANTS Sessions,    \* sessions of guest owners
          Guests,      \* guests the host launches
          Platforms,
          Policies,
          Bytes,       \* contents of guest memory
          Secrets,
          Policy,      \* the policy a session is made for
          Build,       \* the firmware build of a platform
          Pdh,         \* the PDH certificate of a platform
          Chains,      \* certificate chains an owner may have decoded
          MaxLen       \* bound: bytes measured per guest

ASSUME PolicyAssumption == Policy \in [Sessions -> Policies]
ASSUME BuildAssumption == Build \in [Platforms -> Nat]
ASSUME PdhAssumption == \A p \in Platforms : Pdh[p].key = <<p, "PDH">>
ASSUME ChainsAssumption ==
  \A chain \in Chains :
    /\ chain_decode(chain)
    /\ \E p \in Platforms : chain.PDH.key = <<p, "PDH">>
    /\ \E p \in Platforms : chain.CEK.key = <<p, "CEK">>
(* The SP, which alone has the CEK and the PEK, signs only its own keys. *)
ASSUME SignersAssumption ==
  \A chain \in Chains : \A cert \in {chain.PEK, chain.PDH}, i \in {1, 2} :
    LET sig == cert.sigs[i]
    IN  sig.usage \in {"CEK", "PEK"} => sig.of.key[1] = sig.key[1]
ASSUME MaxLenAssumption == MaxLen \in Nat

Builds == {Build[p] : p \in Platforms}
Chunks == UNION {[1 .. n -> Bytes] : n \in 1 .. MaxLen}
Contents == UNION {[1 .. n -> Bytes] : n \in 0 .. MaxLen}

VARIABLES
  phase,    \* the type parameter of a session; Gone: consumed by an Err
  hasher,   \* what the Measuring hasher has been given
  fed,      \* what the owner has given the session to measure
  starts,   \* Start messages the host has got
  guest,    \* guests as their platform's SP sees them
  claim,    \* what a session's verification was given: a set of at most one
  packets,  \* Secret packets the host has got
  refused   \* a chain that is one platform's own was refused

vars == <<phase, hasher, fed, starts, guest, claim, packets, refused>>
tenant == <<phase, hasher, fed, starts, claim, packets, refused>>

(* HMAC(TIK, 04h | build | policy | digest | mnonce) *)
Measure(s, build, policy, digest, mnonce) ==
  [tik |-> s, build |-> build, policy |-> policy, digest |-> digest, mnonce |-> mnonce]

Measurement == [tik : Sessions, build : Builds, policy : Policies, digest : Seq(Bytes), mnonce : Guests]

(* launch::sev::Start.  pdh is the key that TEK and TIK (of session tk) are *)
(* wrapped for; chip the chip that the chain endorsed it with, {} if there  *)
(* was no chain.                                                            *)
Start(s, pdh, chip) ==
  [policy |-> Policy[s], pdh |-> pdh.key, tk |-> s,
   policy_mac |-> [tik |-> s, policy |-> Policy[s]], chip |-> chip]

Starts == [policy : Policies, pdh : Platforms \X {"PDH"}, tk : Sessions,
           policy_mac : [tik : Sessions, policy : Policies],
           chip : {{}} \cup {{<<p, "CEK">>} : p \in Platforms}]

NoGuest == [state |-> "none"]

Guest == {NoGuest} \cup
  [state : {"update"}, platform : Platforms, start : Starts, mem : Seq(Bytes)] \cup
  [state : {"secret"}, platform : Platforms, start : Starts, mem : Seq(Bytes),
   measure : Measurement, secrets : SUBSET (Sessions \X Secrets)]

(* What a session's verify() compared. *)
Claim == [digest : Seq(Bytes), build : Builds, measure : Measurement, mock : BOOLEAN]

TypeOK ==
  /\ phase \in [Sessions -> {"Initialized", "Measuring", "Verified", "Gone"}]
  /\ hasher \in [Sessions -> Seq(Bytes)]
  /\ fed \in [Sessions -> Seq(Bytes)]
  /\ starts \subseteq Starts
  /\ guest \in [Guests -> Guest]
  /\ claim \in [Sessions -> SUBSET Claim]
  /\ packets \subseteq [tik : Sessions, data : Secrets, measure : Measurement]
  /\ refused \in BOOLEAN

Init ==
  /\ phase = [s \in Sessions |-> "Initialized"]
  /\ hasher = [s \in Sessions |-> <<>>]
  /\ fed = [s \in Sessions |-> <<>>]
  /\ starts = {}
  /\ guest = [g \in Guests |-> NoGuest]
  /\ claim = [s \in Sessions |-> {}]
  /\ packets = {}
  /\ refused = FALSE

-----------------------------------------------------------------------------
(* The host and the SPs. *)

(* LAUNCH_START: the SP unwraps the keys with its own PDH and checks the    *)
(* policy it is given.                                                      *)
LAUNCH_START(g, p, policy) ==
  /\ guest[g].state = "none"
  /\ \E st \in starts :
       /\ st.pdh = Pdh[p].key
       /\ st.policy_mac = [tik |-> st.tk, policy |-> policy]
       /\ guest' = [guest EXCEPT ![g] = [state |-> "update", platform |-> p,
                      start |-> [st EXCEPT !.policy = policy], mem |-> <<>>]]
  /\ UNCHANGED tenant

LAUNCH_UPDATE(g, chunk) ==
  /\ guest[g].state = "update"
  /\ Len(guest[g].mem) + Len(chunk) <= MaxLen
  /\ guest' = [guest EXCEPT ![g].mem = @ \o chunk]
  /\ UNCHANGED tenant

(* LAUNCH_MEASURE: with a fresh mnonce, here the guest's name. *)
LAUNCH_MEASURE(g) ==
  /\ guest[g].state = "update"
  /\ guest' = [guest EXCEPT ![g] =
       [state |-> "secret", platform |-> @.platform, start |-> @.start, mem |-> @.mem,
        measure |-> Measure(@.start.tk, Build[@.platform], @.start.policy, @.mem, g),
        secrets |-> {}]]
  /\ UNCHANGED tenant

(* LAUNCH_SECRET: the MAC must be by the guest's TIK and over its measure. *)
LAUNCH_SECRET(g) ==
  /\ guest[g].state = "secret"
  /\ \E pkt \in packets :
       /\ pkt.tik = guest[g].start.tk
       /\ pkt.measure = guest[g].measure
       /\ guest' = [guest EXCEPT ![g].secrets = @ \cup {<<pkt.tik, pkt.data>>}]
  /\ UNCHANGED tenant

-----------------------------------------------------------------------------
(* The session. *)

(* All of it is one platform's own, its owner's and its generation's. *)
Genuine(chain) == \E p \in Platforms : Made(chain, p, p, p)

(* start(&self, chain): an Err leaves the session as it was. *)
start(s, chain) ==
  /\ phase[s] = "Initialized"
  /\ \/ /\ chain_verify(chain)
        /\ starts' = starts \cup {Start(s, chain.PDH, {chain.CEK.key})}
        /\ UNCHANGED refused
     \/ /\ ~chain_verify(chain)
        /\ refused' = (refused \/ Genuine(chain))
        /\ UNCHANGED starts
  /\ UNCHANGED <<phase, hasher, fed, guest, claim, packets>>

(* start_pdh(&self, pdh): no chain, no check. *)
start_pdh(s, p) ==
  /\ phase[s] = "Initialized"
  /\ starts' = starts \cup {Start(s, Pdh[p], {})}
  /\ UNCHANGED <<phase, hasher, fed, guest, claim, packets, refused>>

measure(s) ==
  /\ phase[s] = "Initialized"
  /\ phase' = [phase EXCEPT ![s] = "Measuring"]
  /\ hasher' = [hasher EXCEPT ![s] = <<>>]
  /\ UNCHANGED <<fed, starts, guest, claim, packets, refused>>

(* Mutants: a new hasher for each chunk; a digest of chunks, not of bytes. *)
update_data_Restarts(s, chunk) ==
  /\ phase[s] = "Measuring"
  /\ Len(fed[s]) + Len(chunk) <= MaxLen
  /\ hasher' = [hasher EXCEPT ![s] = chunk]
  /\ fed' = [fed EXCEPT ![s] = @ \o chunk]
  /\ UNCHANGED <<phase, starts, guest, claim, packets, refused>>

update_data_Chunks(s, chunk) ==
  /\ phase[s] = "Measuring"
  /\ Len(fed[s]) + Len(chunk) <= MaxLen
  /\ hasher' = [hasher EXCEPT ![s] = Append(@, chunk)]
  /\ fed' = [fed EXCEPT ![s] = @ \o chunk]
  /\ UNCHANGED <<phase, starts, guest, claim, packets, refused>>

(* The hasher does not see where one chunk ends and the next begins. *)
update_data(s, chunk) ==
  /\ phase[s] = "Measuring"
  /\ Len(fed[s]) + Len(chunk) <= MaxLen
  /\ hasher' = [hasher EXCEPT ![s] = @ \o chunk]
  /\ fed' = [fed EXCEPT ![s] = @ \o chunk]
  /\ UNCHANGED <<phase, starts, guest, claim, packets, refused>>

(* The measurements that the host can show. *)
Shown == {guest[g].measure : g \in {h \in Guests : guest[h].state = "secret"}}

(* Session<Initialized>::verify, which the others end in: intended is what  *)
(* the owner means to check, digest what is checked.  An Err leaves no      *)
(* session, `self` is consumed.                                             *)
Verify(s, digest, intended) ==
  \E build \in Builds, msr \in Shown :
    LET same == msr = Measure(s, build, Policy[s], digest, msr.mnonce)
    IN  /\ phase' = [phase EXCEPT ![s] = IF same THEN "Verified" ELSE "Gone"]
        /\ claim' = [claim EXCEPT ![s] = {[digest |-> intended, build |-> build,
                                           measure |-> msr, mock |-> FALSE]}]
        /\ UNCHANGED <<hasher, fed, starts, guest, packets, refused>>

verify_digest(s, digest) ==
  phase[s] = "Initialized" /\ Verify(s, digest, digest)

verify_measuring(s) ==
  phase[s] = "Measuring" /\ Verify(s, hasher[s], fed[s])

verify_with_digest(s, digest) ==
  phase[s] = "Measuring" /\ Verify(s, digest, digest)

(* "must only be used in tests or unattested workflows" *)
mock_verify(s) ==
  /\ phase[s] = "Initialized"
  /\ phase' = [phase EXCEPT ![s] = "Verified"]
  /\ \E build \in Builds, msr \in Shown :
       claim' = [claim EXCEPT ![s] = {[digest |-> <<>>, build |-> build,
                                       measure |-> msr, mock |-> TRUE]}]
  /\ UNCHANGED <<hasher, fed, starts, guest, packets, refused>>

(* Mutant: the MAC does not cover the measurement (any guest's will do). *)
secret_NoMeasure(s, data) ==
  /\ phase[s] = "Verified"
  /\ packets' = packets \cup {[tik |-> s, data |-> data, measure |-> m] : m \in Shown}
  /\ UNCHANGED <<phase, hasher, fed, starts, guest, claim, refused>>

(* secret(&self): HMAC(TIK, 01h | flags | iv | lengths | data | measure) *)
secret(s, data) ==
  /\ phase[s] = "Verified"
  /\ packets' = packets \cup {[tik |-> s, data |-> data, measure |-> c.measure] : c \in claim[s]}
  /\ UNCHANGED <<phase, hasher, fed, starts, guest, claim, refused>>

Next ==
  \/ \E g \in Guests :
       \/ \E p \in Platforms, policy \in Policies : LAUNCH_START(g, p, policy)
       \/ \E chunk \in Chunks : LAUNCH_UPDATE(g, chunk)
       \/ LAUNCH_MEASURE(g)
       \/ LAUNCH_SECRET(g)
  \/ \E s \in Sessions :
       \/ \E chain \in Chains : start(s, chain)
       \/ \E p \in Platforms : start_pdh(s, p)
       \/ measure(s)
       \/ \E chunk \in Chunks : update_data(s, chunk)
       \/ \E digest \in Contents : verify_digest(s, digest) \/ verify_with_digest(s, digest)
       \/ verify_measuring(s)
       \/ mock_verify(s)
       \/ \E data \in Secrets : secret(s, data)

Spec == Init /\ [][Next]_vars

-----------------------------------------------------------------------------
(* A secret ends up only in the guest whose own measurement its owner       *)
(* verified: with the memory the owner expects, under the owner's policy,   *)
(* on the firmware build the owner accepts, whatever other guests the host  *)
(* launched with the same session keys.                                     *)
SecretOnlyInVerified ==
  \A g \in Guests :
    guest[g].state = "secret" =>
      \A x \in guest[g].secrets : \E c \in claim[x[1]] :
        /\ c.measure.mnonce = g
        /\ c.mock \/ /\ c.digest = guest[g].mem
                     /\ c.build = Build[guest[g].platform]
                     /\ Policy[x[1]] = guest[g].start.policy

(* verify() refuses only a measurement that differs from what the owner     *)
(* expects: of other memory, policy or build, or under another session.     *)
RefusedRightly ==
  \A s \in Sessions :
    phase[s] = "Gone" =>
      \A c \in claim[s] :
        LET g == c.measure.mnonce
        IN  \/ c.digest # guest[g].mem
            \/ c.build # Build[guest[g].platform]
            \/ Policy[s] # guest[g].start.policy
            \/ s # guest[g].start.tk

(* The keys of a session started with a chain are used only on the chip the *)
(* chain endorses: no mixture of two platforms' certificates verifies.      *)
KeysStayOnChip ==
  \A g \in Guests :
    guest[g].state # "none" => guest[g].start.chip \subseteq {<<guest[g].platform, "CEK">>}

(* A chain that is a platform's own verifies, whichever of the owner's and  *)
(* the chip's signatures comes first on its PEK.                            *)
GenuineChainsStart == ~refused
=============================================================================
