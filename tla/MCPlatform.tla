----------------------------- MODULE MCPlatform -----------------------------
(***************************************************************************)
(* The parts of a host on small instances: SEV launches (SevLauncher), the  *)
(* platform's SEV and SNP commands (HostFirmware) and the cached chain      *)
(* (CachedChain).  They share no variable, so a behaviour of all is one of  *)
(* each: `part' is the one that this behaviour shows.                       *)
(***************************************************************************)
EXTENDS SevLauncher, HostFirmware, CachedChain, TLC

VARIABLE part

Parts == {"launch", "sev", "snp", "cache"}

(* The chain of a platform, completed with what AMD serves for it. *)
Complete(oca, pek, pdh, chip, ca) ==
  [OCA |-> Oca(oca),
   PEK |-> sign(Prv(chip, "CEK"), sign(Prv(oca, "OCA"), NewCert(pek, "PEK"))),
   PDH |-> sign(Prv(pek, "PEK"), NewCert(pdh, "PDH")),
   CEK |-> sign(Prv(ca, "ASK"), NewCert(chip, "CEK")),
   ASK |-> CaCert(ca, "ASK"), ARK |-> CaCert(ca, "ARK")]

(* One platform before and after it was given an owner and another PDH, and *)
(* one of a later generation.                                               *)
MCChains == {Complete("k1", "k1", "k1", "chip", "naples"),
             Complete("owner", "k1", "k2", "chip", "naples"),
             Complete("k3", "k3", "k3", "chip2", "rome")}

MCKeyNames == <<"k1", "k2", "k3">>

Symmetry == Permutations(Admins)

platformVars == <<vars, hostVars, cacheVars, part>>

PlatformInit == Init /\ HostInit /\ CacheInit /\ part \in Parts

PlatformNext ==
  \/ part = "launch" /\ Next /\ UNCHANGED <<hostVars, cacheVars, part>>
  \/ part = "sev" /\ NextSev /\ UNCHANGED <<vars, cacheVars, part>>
  \/ part = "snp" /\ NextSnp /\ UNCHANGED <<vars, cacheVars, part>>
  \/ part = "cache" /\ CacheNext /\ UNCHANGED <<vars, hostVars, part>>

PlatformSpec == PlatformInit /\ [][PlatformNext]_platformVars
=============================================================================
