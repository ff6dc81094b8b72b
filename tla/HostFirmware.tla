---------------------------- MODULE HostFirmware ----------------------------
(***************************************************************************)
(* Managing a SEV platform, src/src/firmware/host: a handle to /dev/sev     *)
(* with one method per firmware command, used by several administrators at  *)
(* once.                                                                    *)
(*                                                                          *)
(* Taking ownership is three calls: pek_csr, signing what it returns, and   *)
(* pek_cert_import.  Between them another administrator may do the same,    *)
(* renew the keys or reset the platform.                                    *)
(*                                                                          *)
(* Every key that is generated has a name of its own.  The commands for SEV *)
(* and those for SNP share no state: NextSev and NextSnp are the two halves *)
(* of a platform.                                                           *)
(***************************************************************************)
EXTENDS SevCerts

CONSTANTS Admins,     \* those who hold a Firmware
          KeyNames,   \* the names of generated keys, in the order of their use
          Tcbs,       \* TCB versions, as numbers
          Masks       \* MaskId values

ASSUME NamesAssumption == Len(KeyNames) \in Nat \ {0}
ASSUME ConfigAssumption == Tcbs \subseteq Nat /\ 0 \in Tcbs /\ 0 \in Masks

VARIABLES
  psp,     \* the SEV firmware: its state, guests, keys and certificates
  snp,     \* the SNP firmware: installed, reported, mask, vlek
  csr,     \* what an administrator has signed to become owner: {} or {PEK}
  chain,   \* the chain that pdh_cert_export returned last: {} or {chain}
  ret,     \* what the last call returned
  owner    \* those told by pek_cert_import that they own the platform

sevVars == <<psp, csr, chain, owner>>
hostVars == <<sevVars, snp, ret>>

-----------------------------------------------------------------------------
(* Certificates. *)

Endorsed(pek) == sign(Prv("chip", "CEK"), pek)

(* The firmware's keys: OCA, PEK and PDH of one name, or a PDH alone. *)
OwnKeys(p, name) ==
  [p EXCEPT !.owned = FALSE, !.oca = Oca(name),
            !.pek = Endorsed(sign(Prv(name, "OCA"), NewCert(name, "PEK"))),
            !.pdh = sign(Prv(name, "PEK"), NewCert(name, "PDH")),
            !.used = @ + 1]

OwnPdh(p, name) ==
  [p EXCEPT !.pdh = sign([usage |-> "PEK", key |-> p.pek.key], NewCert(name, "PDH")),
            !.used = @ + 1]

(* The bound on generated keys: there is a name left, and it is this one. *)
HasName == psp.used < Len(KeyNames)
Name == KeyNames[psp.used + 1]

-----------------------------------------------------------------------------
(* The kernel and the firmware.  Most commands initialize the platform;     *)
(* state is a number, as in the status: 0, 1 and, with guests, 2.           *)

Up(p) == [p EXCEPT !.state = IF @ = 0 THEN 1 ELSE @]

(* Outcomes of an ioctl: it may also fail for a reason of its own. *)
Outcomes(ok, p) ==
  {[ok |-> FALSE, psp |-> psp]} \cup (IF ok THEN {[ok |-> TRUE, psp |-> p]} ELSE {})

PLATFORM_RESET_cmd == Outcomes(psp.state # 2, [OwnKeys(psp, Name) EXCEPT !.state = 0])
PEK_GEN_cmd == Outcomes(psp.state # 2, OwnKeys(Up(psp), Name))
PDH_GEN_cmd == Outcomes(TRUE, OwnPdh(Up(psp), Name))
PEK_CSR_cmd == Outcomes(TRUE, Up(psp))
PDH_CERT_EXPORT_cmd == Outcomes(TRUE, Up(psp))

(* The PEK is the current one, and signed by the OCA, which signed itself. *)
PEK_CERT_IMPORT_cmd(cmd) ==
  Outcomes(/\ psp.state # 2
           /\ ~psp.owned
           /\ Body(cmd.pek) = Body(psp.pek)
           /\ cmd.oca.usage = "OCA"
           /\ verify(cmd.oca, cmd.oca) /\ verify(cmd.oca, cmd.pek),
           [Up(psp) EXCEPT !.owned = TRUE, !.oca = cmd.oca, !.pek = Endorsed(cmd.pek)])

(* A guest starts or ends. *)
GuestRuns ==
  /\ \/ psp.state = 1 /\ psp' = [psp EXCEPT !.state = 2]
     \/ psp.state = 2 /\ psp' = [psp EXCEPT !.state = 1]
  /\ UNCHANGED <<csr, chain, owner, snp, ret>>

-----------------------------------------------------------------------------
(* The methods of Firmware for SEV.  The io::Error of a failed ioctl is     *)
(* passed on with `?`: the firmware's code in Command.error is not read.    *)

Result(o) == IF o.ok THEN "Ok" ELSE "IoError"

platform_reset ==
  /\ HasName
  /\ \E o \in PLATFORM_RESET_cmd :
       /\ psp' = o.psp
       /\ owner' = IF o.ok THEN {} ELSE owner
       /\ ret' = Result(o)
  /\ UNCHANGED <<csr, chain, snp>>

(* Mutant: one state is not known. *)
State_NoWorking(n) ==
  CASE n = 0 -> "Uninitialized" [] n = 1 -> "Initialized" [] OTHER -> "Unknown"

State(n) ==
  CASE n = 0 -> "Uninitialized" [] n = 1 -> "Initialized" [] n = 2 -> "Working"
    [] OTHER -> "Unknown"

platform_status ==
  /\ \E o \in Outcomes(TRUE, psp) : ret' = IF o.ok THEN State(o.psp.state) ELSE "IoError"
  /\ UNCHANGED <<sevVars, snp>>

pek_generate ==
  /\ HasName
  /\ \E o \in PEK_GEN_cmd :
       /\ psp' = o.psp
       /\ owner' = IF o.ok THEN {} ELSE owner
       /\ ret' = Result(o)
  /\ UNCHANGED <<csr, chain, snp>>

(* The certificate request, which the administrator then signs. *)
pek_csr(a) ==
  /\ \E o \in PEK_CSR_cmd :
       /\ psp' = o.psp
       /\ csr' = [csr EXCEPT ![a] =
                    IF o.ok THEN {sign(Prv(a, "OCA"), [psp.pek EXCEPT !.sigs = <<NoSig, NoSig>>])}
                    ELSE {}]
       /\ ret' = Result(o)
  /\ UNCHANGED <<chain, owner, snp>>

pdh_generate ==
  /\ HasName
  /\ \E o \in PDH_GEN_cmd : psp' = o.psp /\ ret' = Result(o)
  /\ UNCHANGED <<csr, chain, owner, snp>>

(* The firmware fills in the PDH, and the PEK, the OCA and the CEK. *)
PdhCertExport(p) == [pdh |-> p.pdh, chain |-> <<p.pek, p.oca, NewCert("chip", "CEK")>>]

(* Mutant: the certificates in the order in which they sign one another. *)
Chain_BySigner(e) ==
  [PDH |-> e.pdh, CEK |-> e.chain[1], OCA |-> e.chain[2], PEK |-> e.chain[3]]

Chain(e) ==
  [PDH |-> e.pdh, PEK |-> e.chain[1], OCA |-> e.chain[2], CEK |-> e.chain[3]]

pdh_cert_export ==
  /\ \E o \in PDH_CERT_EXPORT_cmd :
       /\ psp' = o.psp
       /\ chain' = IF o.ok THEN {Chain(PdhCertExport(o.psp))} ELSE {}
       /\ ret' = Result(o)
  /\ UNCHANGED <<csr, owner, snp>>

PekCertImport(pek, oca) == [pek |-> pek, oca |-> oca]

(* Mutant: the result of the ioctl is not looked at. *)
pek_cert_import_NoCheck(a) ==
  /\ \E pek \in csr[a] : \E o \in PEK_CERT_IMPORT_cmd(PekCertImport(pek, Oca(a))) :
       /\ psp' = o.psp
       /\ owner' = owner \cup {a}
       /\ ret' = "Ok"
  /\ UNCHANGED <<csr, chain, snp>>

pek_cert_import(a) ==
  /\ \E pek \in csr[a] : \E o \in PEK_CERT_IMPORT_cmd(PekCertImport(pek, Oca(a))) :
       /\ psp' = o.psp
       /\ owner' = IF o.ok THEN owner \cup {a} ELSE owner
       /\ ret' = Result(o)
  /\ UNCHANGED <<csr, chain, snp>>

(* GET_ID2: the identifier, for which AMD serves the signed CEK. *)
get_identifier ==
  /\ ret' \in {"Ok", "IoError"}
  /\ UNCHANGED <<sevVars, snp>>

-----------------------------------------------------------------------------
(* The methods for SNP. *)

(* Another firmware is installed, with a higher TCB. *)
Install ==
  /\ \E t \in Tcbs : t > snp.installed /\ snp' = [snp EXCEPT !.installed = t]
  /\ UNCHANGED <<sevVars, ret>>

(* A new reported TCB makes the firmware forget the VLEK hashstick. *)
Reports(tcb, mask) ==
  [snp EXCEPT !.reported = tcb, !.mask = mask, !.vlek = @ /\ tcb = snp.reported]

Config(tcb, mask) == [reported_tcb |-> tcb, mask_id |-> mask]

(* TryFrom<Config> for SnpSetConfig *)
SnpSetConfig(c) == [reported_tcb |-> c.reported_tcb, mask_id |-> c.mask_id]

snp_platform_status ==
  /\ ret' \in {"Ok", "IoError"}
  /\ UNCHANGED <<sevVars, snp>>

(* ReportedTcb becomes the CurrentTcb. *)
snp_commit ==
  /\ \/ /\ snp' = Reports(snp.installed, snp.mask)
        /\ ret' = "Ok"
     \/ /\ UNCHANGED snp
        /\ ret' = "IoError"
  /\ UNCHANGED sevVars

(* The firmware refuses to report more than what is installed. *)
snp_set_config(new_config) ==
  /\ LET cmd == SnpSetConfig(new_config)
     IN  \/ /\ cmd.reported_tcb <= snp.installed
            /\ snp' = Reports(cmd.reported_tcb, cmd.mask_id)
            /\ ret' = "Ok"
         \/ /\ UNCHANGED snp
            /\ ret' = "IoError"
  /\ UNCHANGED sevVars

(* Hashstick bytes: of a wrong length, all zero, or as AMD wrapped them. *)
Hashsticks == {"short", "zeroes", "wrapped"}

(* TryFrom<&[u8]> for WrappedVlekHashstick: {} for Ok. *)
HashstickError(bytes) ==
  CASE bytes = "short" -> {"InvalidLength"}
    [] bytes = "zeroes" -> {"EmptyHashstickBuffer"}
    [] bytes = "wrapped" -> {}

(* What is at vlek_wrapped_address: the WrappedVlekHashstick, which is a    *)
(* reference to the bytes and their length.                                 *)
SnpVlekLoad(bytes) == [at |-> "reference", to |-> bytes]

(* The firmware unwraps what it finds at the address. *)
SNP_VLEK_LOAD_cmd(cmd) == cmd.at = "wrapped"

snp_vlek_load(bytes) ==
  /\ \/ ret' \in HashstickError(bytes) /\ UNCHANGED snp
     \/ /\ HashstickError(bytes) = {}
        /\ IF SNP_VLEK_LOAD_cmd(SnpVlekLoad(bytes))
           THEN snp' = [snp EXCEPT !.vlek = TRUE] /\ ret' = "Ok"
           ELSE UNCHANGED snp /\ ret' = "IoError"
  /\ UNCHANGED sevVars

-----------------------------------------------------------------------------
(* Before OwnKeys gave it the first keys. *)
Blank == [state |-> 0, owned |-> FALSE, oca |-> NoSig, pek |-> NoSig, pdh |-> NoSig,
          used |-> 0]

HostInit ==
  /\ psp = OwnKeys(Blank, KeyNames[1])
  /\ snp = [installed |-> 0, reported |-> 0, mask |-> 0, vlek |-> FALSE]
  /\ csr = [a \in Admins |-> {}]
  /\ chain = {}
  /\ ret = "Ok"
  /\ owner = {}

NextSev ==
  \/ GuestRuns
  \/ platform_reset
  \/ platform_status
  \/ pek_generate
  \/ pdh_generate
  \/ pdh_cert_export
  \/ get_identifier
  \/ \E a \in Admins : pek_csr(a) \/ pek_cert_import(a)

NextSnp ==
  \/ Install
  \/ snp_platform_status
  \/ snp_commit
  \/ \E t \in Tcbs, m \in Masks : snp_set_config(Config(t, m))
  \/ \E bytes \in Hashsticks : snp_vlek_load(bytes)

HostSpec == HostInit /\ [][NextSev \/ NextSnp]_hostVars

-----------------------------------------------------------------------------
(* Type correctness; in particular platform_status() knows every state. *)
HostTypeOK ==
  /\ psp.state \in {0, 1, 2} /\ psp.owned \in BOOLEAN /\ psp.used \in 1..Len(KeyNames)
  /\ snp \in [installed : Tcbs, reported : Tcbs, mask : Masks, vlek : BOOLEAN]
  /\ owner \subseteq Admins
  /\ ret \in {"Ok", "IoError", "Uninitialized", "Initialized", "Working",
              "InvalidLength", "EmptyHashstickBuffer"}

(* A SEV chain whose certificates are each in their place, and verify.      *)
SevChainGood(c) ==
  /\ \A u \in {"PDH", "PEK", "OCA", "CEK"} : c[u].usage = u
  /\ sev_chain_verify(c)

(* What pdh_cert_export returns verifies, and has each certificate where a  *)
(* Chain has it, whatever was reset, renewed or imported before.            *)
ExportedVerifies == \A c \in chain : SevChainGood(c)

(* pek_cert_import tells one administrator at most that the platform is     *)
(* owned, and until it is reset or has a new PEK, what it exports is that   *)
(* administrator's chain: a request signed before someone else's import, or *)
(* before the PEK was renewed, does not make an owner.                      *)
OwnerInChain ==
  \A a \in owner : LET c == Chain(PdhCertExport(psp))
                   IN  c.OCA = Oca(a) /\ SevChainGood(c)
=============================================================================
