---------------------------- MODULE SnpCertTable ----------------------------
(***************************************************************************)
(* The certificate table a host hands to SNP guests, and the chain a guest  *)
(* owner makes of it: src/src/firmware/linux/host/types/snp.rs (the layout  *)
(* in memory), src/src/firmware/host/types/snp.rs (the entries),            *)
(* src/src/certs/snp (the chain).                                           *)
(*                                                                          *)
(* A table is a sequence of entries [cert_type, data].  A certificate is    *)
(* two "bytes", <<its key, the key that signed it>>; data of another length *)
(* is not a certificate.                                                    *)
(***************************************************************************)
EXTENDS Integers, Sequences, FiniteSets

CONSTANT U32    \* the number of u32 values, 2^32 in the code

ASSUME U32Assumption == U32 \in Nat \ {0}

CertTypes == {"Empty", "ARK", "ASK", "VCEK", "VLEK", "CRL", "OTHER(1)", "OTHER(2)"}

-----------------------------------------------------------------------------
(* The table in memory: the entries, one after the other, then the data. *)

(* size_of::<CertTableEntry>(): guid, offset, length *)
EntrySize == 24

ZERO_GUID == "Empty"
ZeroEntry == [guid |-> ZERO_GUID, offset |-> 0, length |-> 0]

(* The bytes of the first n entries, one after the other. *)
RawOf(table) ==
  LET f[n \in 0 .. Len(table)] == IF n = 0 THEN <<>> ELSE f[n - 1] \o table[n].data
  IN  f

(* Mutant: no room is left for the closing entry. *)
uapi_to_vec_bytes_NoEnd(table) ==
  LET raw == RawOf(table)
      first == EntrySize * Len(table)
  IN  [entries |-> Append([i \in DOMAIN table |->
                             [guid |-> table[i].cert_type,
                              offset |-> (first + Len(raw[i - 1])) % U32,
                              length |-> Len(table[i].data)]], ZeroEntry),
       raw |-> raw[Len(table)]]

(* offset is a u32 that `+=` moves past each certificate. *)
uapi_to_vec_bytes(table) ==
  LET raw == RawOf(table)
      first == EntrySize * (Len(table) + 1)
  IN  [entries |-> Append([i \in DOMAIN table |->
                             [guid |-> table[i].cert_type,
                              offset |-> (first + Len(raw[i - 1])) % U32,
                              length |-> Len(table[i].data)]], ZeroEntry),
       raw |-> raw[Len(table)]]

Size(bytes) == EntrySize * Len(bytes.entries) + Len(bytes.raw)

(* The data byte at an address relative to the table's. *)
ByteAt(bytes, addr) ==
  LET i == addr - EntrySize * Len(bytes.entries) + 1
  IN  IF i \in DOMAIN bytes.raw THEN bytes.raw[i] ELSE "not a byte of the data"

(* parse_table: entries up to the first one whose GUID is zero. *)
parse_table(bytes) ==
  LET e == bytes.entries
      last == CHOOSE n \in DOMAIN e :
                e[n].guid = ZERO_GUID /\ \A i \in 1 .. n - 1 : e[i].guid # ZERO_GUID
  IN  [n \in 1 .. last - 1 |->
         [cert_type |-> e[n].guid,
          data |-> [i \in 1 .. e[n].length |-> ByteAt(bytes, e[n].offset + i - 1)]]]

-----------------------------------------------------------------------------
(* certificates.sort() *)

Kind(type) == IF type \in {"OTHER(1)", "OTHER(2)"} THEN "OTHER" ELSE type

(* The arms of CertType::cmp, in order: the kind that is greater than all   *)
(* those that no arm above it has.                                          *)
CmpArms == <<"Empty", "OTHER", "CRL", "ASK", "VLEK", "VCEK">>

(* Is a less than b?  OTHER(l) and OTHER(r) compare by their GUIDs. *)
Less(a, b) ==
  IF Kind(a) = Kind(b) THEN a = "OTHER(1)" /\ b = "OTHER(2)"
  ELSE LET arm == CHOOSE i \in DOMAIN CmpArms :
                    /\ CmpArms[i] \in {Kind(a), Kind(b)}
                    /\ \A j \in 1 .. i - 1 : CmpArms[j] \notin {Kind(a), Kind(b)}
       IN  CmpArms[arm] = Kind(b)

(* slice::sort is stable: after those that are less, and the equal ones     *)
(* that were before.                                                        *)
sort(s) ==
  LET place(i) == Cardinality({j \in DOMAIN s :
                    \/ Less(s[j].cert_type, s[i].cert_type)
                    \/ j <= i /\ ~Less(s[i].cert_type, s[j].cert_type)})
  IN  [n \in DOMAIN s |-> s[CHOOSE i \in DOMAIN s : place(i) = n]]

-----------------------------------------------------------------------------
(* The chain: [ok, ark, ask, vek] *)

IsCert(data) == Len(data) = 2
Key(cert) == cert[1]
Signer(cert) == cert[2]

NoChain == [ok |-> FALSE, ark |-> <<>>, ask |-> <<>>, vek |-> <<>>]

(* The certificates of a type. *)
OfType(entries, type) == {i \in DOMAIN entries : entries[i].cert_type = type}

(* Mutant: a VCEK is preferred to a VLEK. *)
parse_from_cert_table_VcekFirst(entries) ==
  LET the(type) == entries[CHOOSE i \in OfType(entries, type) : TRUE].data
  IN  IF \/ \E i \in DOMAIN entries : ~IsCert(entries[i].data)
         \/ \E type \in {"ARK", "ASK", "VCEK", "VLEK"} : Cardinality(OfType(entries, type)) > 1
         \/ OfType(entries, "ARK") = {} \/ OfType(entries, "ASK") = {}
         \/ OfType(entries, "VCEK") \cup OfType(entries, "VLEK") = {}
      THEN NoChain
      ELSE [ok |-> TRUE, ark |-> the("ARK"), ask |-> the("ASK"),
            vek |-> the(IF OfType(entries, "VCEK") # {} THEN "VCEK" ELSE "VLEK")]

(* Every entry must be a certificate, the ones that are passed over too;    *)
(* none of the four types may come twice; a VLEK is preferred to a VCEK.    *)
parse_from_cert_table(entries) ==
  LET the(type) == entries[CHOOSE i \in OfType(entries, type) : TRUE].data
  IN  IF \/ \E i \in DOMAIN entries : ~IsCert(entries[i].data)
         \/ \E type \in {"ARK", "ASK", "VCEK", "VLEK"} : Cardinality(OfType(entries, type)) > 1
         \/ OfType(entries, "ARK") = {} \/ OfType(entries, "ASK") = {}
         \/ OfType(entries, "VCEK") \cup OfType(entries, "VLEK") = {}
      THEN NoChain
      ELSE [ok |-> TRUE, ark |-> the("ARK"), ask |-> the("ASK"),
            vek |-> the(IF OfType(entries, "VLEK") # {} THEN "VLEK" ELSE "VCEK")]

(* (&Certificate, &Certificate)::verify *)
Signs(signer, signee) == Signer(signee) = Key(signer)

(* ca::Chain::verify: the ARK is self-signed and signs the ASK. *)
ca_verify(chain) == Signs(chain.ark, chain.ark) /\ Signs(chain.ark, chain.ask)

(* Chain::verify: and the ASK signs the VEK. *)
chain_verify(chain) == ca_verify(chain) /\ Signs(chain.ask, chain.vek)

(* Mutant: the report is not checked against the chain's key. *)
report_verify_ChainOnly(chain, report) == chain.ok /\ chain_verify(chain)

(* (&Chain, &AttestationReport)::verify *)
report_verify(chain, report) ==
  chain.ok /\ chain_verify(chain) /\ report.signed_by = Key(chain.vek)
=============================================================================
