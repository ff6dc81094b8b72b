---------------------------- MODULE MCSevSession ----------------------------
(* SevSession with two platforms of one generation, and another one's CA. *)
EXTENDS SevSession, TLC

MCPlatforms == {"A", "B"}

Cek(p) == sign(Prv("naples", "ASK"), NewCert(p, "CEK"))

(* B has its PEK signed by the chip first. *)
Pek(p) == IF p = "B" THEN sign(Prv(p, "OCA"), sign(Prv(p, "CEK"), NewCert(p, "PEK")))
                     ELSE sign(Prv(p, "CEK"), sign(Prv(p, "OCA"), NewCert(p, "PEK")))

MCPdh == [p \in MCPlatforms |-> sign(Prv(p, "PEK"), NewCert(p, "PDH"))]

(* Every mixture of the two platforms' certificates and the two CAs'. *)
MCChains ==
  {[ARK |-> CaCert(a, "ARK"), ASK |-> CaCert(b, "ASK"), CEK |-> Cek(c), OCA |-> Oca(o),
    PEK |-> Pek(k), PDH |-> MCPdh[d]] :
     a, b \in {"naples", "rome"}, c, o, k, d \in MCPlatforms}

Symmetry == Permutations(Guests)

MCPolicy == [s \in Sessions |-> "debug"]
MCBuild == [p \in MCPlatforms |-> IF p = "B" THEN 2 ELSE 1]
=============================================================================
