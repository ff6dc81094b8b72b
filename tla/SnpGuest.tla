------------------------------ MODULE SnpGuest ------------------------------
(***************************************************************************)
(* The guest side of SNP attestation, src/src/firmware/guest/mod.rs: a      *)
(* guest asks the firmware, through /dev/sev-guest, for a report, for a     *)
(* report with the host's certificate table, or for a derived key, while    *)
(* the host may replace its table at any time.                              *)
(*                                                                          *)
(* get_ext_report asks twice: the first request says how large a buffer the *)
(* table needs, the second one brings the table.  fw_err is the pair of its *)
(* two halves, as in SevError.                                              *)
(***************************************************************************)
EXTENDS SnpCertTable, SevError

CONSTANTS Hosts,        \* the hosts a guest may run on, a sequence of Host(..)
          ReportData,   \* what a guest may want in its report
          Vmpl,         \* the VMPL the guest runs at
          SigningKey,   \* the key the firmware signs reports with
          PageSize

ASSUME VmplAssumption == Vmpl \in 0 .. 3
ASSUME KernelAssumption == \A h \in DOMAIN Hosts : Hosts[h].kernel \in BOOLEAN
ASSUME PageSizeAssumption == PageSize \in Nat \ {0}

(* A host's tables: entries of bytes, in all no more than a u32 counts, and *)
(* no certificate of a key that "nobody" has.                               *)
Byte == STRING
TableEntry == [cert_type : CertTypes, data : Seq(Byte)]
Keyless(t) == \A i \in DOMAIN t : t[i].data # <<>> => Key(t[i].data) # "nobody"

ASSUME TablesAssumption ==
  \A h \in DOMAIN Hosts : \A t \in Hosts[h].tables \cup Hosts[h].updates :
    t \in Seq(TableEntry) /\ Size(uapi_to_vec_bytes(t)) < U32 /\ Keyless(t)

MAX_VMPL == 3
NoVmpl == -1   \* None

(* What the firmware answers, and what a response starts as. *)
Report(data, vmpl) == [data |-> data, vmpl |-> vmpl, signed_by |-> SigningKey]
DefaultReport == [data |-> "zero", vmpl |-> 0, signed_by |-> "nobody"]
DefaultRsp == [status |-> 0, report |-> DefaultReport]

Response == [status : {0, 22},
             report : [data : ReportData, vmpl : 0 .. MAX_VMPL, signed_by : {SigningKey}]
                        \cup {DefaultReport}]

(* A host: whether its guests' kernel is Linux from 47894e0f on (see        *)
(* TooSmall), the certificate tables it may start with (<<>>: none), and    *)
(* those it may install later.                                              *)
Host(kernel, tables, updates) == [kernel |-> kernel, tables |-> tables, updates |-> updates]

VARIABLES
  host,     \* the one where the guest runs
  table,    \* the host's certificate table
  seen,     \* the tables it has had since the last call began
  pc,       \* idle, or the request that get_ext_report makes next
  req,      \* the ReportReq: report_data and vmpl
  len,      \* ext_report_request.certs_len
  rsp,      \* the ReportRsp
  fw_err,   \* of the last GuestRequest of get_ext_report
  result    \* of the last call

vars == <<host, table, seen, pc, req, len, rsp, fw_err, result>>

(* Result<(AttestationReport, Option<Vec<CertTableEntry>>), UserApiError>   *)
(* and, for get_derived_key, Result<key, _>.  certs: a set of at most one.  *)
NoResult == [kind |-> "none", report |-> DefaultReport, certs |-> {}, key |-> "none"]
Err(e) == [NoResult EXCEPT !.kind = e]
OkReport(report, certs) == [NoResult EXCEPT !.kind = "Ok", !.report = report, !.certs = certs]
OkKey(key) == [NoResult EXCEPT !.kind = "Key", !.key = key]

Kinds == {"none", "Ok", "Key", "VmplError", "IOError", "RateLimitRetryRequest", "InvalidConfig"}

TypeOK ==
  /\ host \in DOMAIN Hosts
  /\ table \in Hosts[host].tables \cup Hosts[host].updates
  /\ seen \subseteq Hosts[host].tables \cup Hosts[host].updates
  /\ pc \in {"idle", "first", "retry"}
  /\ req \in [data : ReportData, vmpl : 0 .. MAX_VMPL]
  /\ len \in Nat
  /\ rsp \in Response
  /\ fw_err \in (0 .. 2) \X {0, 22}
  /\ result.kind \in Kinds
  /\ Cardinality(result.certs) <= 1
  /\ result.key \in {"none", "zero", "derived"}

Init ==
  /\ host \in DOMAIN Hosts
  /\ table \in Hosts[host].tables
  /\ seen = {table}
  /\ pc = "idle"
  /\ req \in [data : ReportData, vmpl : {1}]
  /\ len = 0
  /\ rsp = DefaultRsp
  /\ fw_err = <<0, 0>>
  /\ result = NoResult

-----------------------------------------------------------------------------
(* The kernel, the host and the firmware. *)

(* The host installs another table, also in the middle of a call. *)
SetTable ==
  /\ \E t \in Hosts[host].updates : table' = t
  /\ seen' = seen \cup {table'}
  /\ UNCHANGED <<host, pc, req, len, rsp, fw_err, result>>

(* Status 16h: invalid parameters, here a VMPL below the guest's own. *)
Answer(r) ==
  IF r.vmpl >= Vmpl THEN [status |-> 0, report |-> Report(r.data, r.vmpl)]
                    ELSE [status |-> 22, report |-> DefaultReport]

(* The buffer that the host's table needs, in whole pages; no table, none. *)
Needed ==
  IF table = <<>> THEN 0
  ELSE LET size == Size(uapi_to_vec_bytes(table))
       IN  ((size + PageSize - 1) \div PageSize) * PageSize

(* An ioctl that fails: an errno, a firmware error, or the VMM's rate limit. *)
Failures == {[ok |-> FALSE, fw_err |-> e, len |-> len, rsp |-> rsp] :
               e \in {<<0, 0>>, <<0, 22>>, <<2, 0>>}}

(* A buffer that is too small.  Before 47894e0f the ioctl fails; since then *)
(* it succeeds, with the report and without the table.                      *)
TooSmall == [ok |-> Hosts[host].kernel, fw_err |-> <<1, 0>>, len |-> Needed,
             rsp |-> IF Hosts[host].kernel THEN Answer(req) ELSE rsp]

(* Success; the code also expects an error code with it. *)
Done(code) == [ok |-> TRUE, fw_err |-> <<0, code>>, len |-> len, rsp |-> Answer(req)]

SNP_GET_EXT_REPORT ==
  Failures \cup IF Needed > len THEN {TooSmall} ELSE {Done(0)}

-----------------------------------------------------------------------------
(* The library. *)

Return(r) == pc' = "idle" /\ result' = r

(* ReportReq::new: the VMPL, 1 if none is given. *)
VmplOf(v) == IF v = NoVmpl THEN 1 ELSE v

(* Mutant: off by one. *)
BadVmpl_Off(v) == v > MAX_VMPL + 1

BadVmpl(v) == v > MAX_VMPL

(* One request; fw_err and the response's status are not looked at. *)
get_report(data, v) ==
  /\ pc = "idle"
  /\ \/ BadVmpl(v) /\ Return(Err("VmplError")) /\ UNCHANGED <<req, rsp>>
     \/ /\ ~BadVmpl(v)
        /\ req' = [data |-> data, vmpl |-> VmplOf(v)]
        /\ \/ rsp' = DefaultRsp /\ Return(Err("IOError"))
           \/ rsp' = Answer(req') /\ Return(OkReport(rsp'.report, {}))
  /\ seen' = {table}
  /\ UNCHANGED <<host, table, len, fw_err>>

(* The key of a response whose status is not 0 is the default one. *)
get_derived_key(v) ==
  /\ pc = "idle"
  /\ \/ Return(Err("IOError"))
     \/ Return(OkKey(IF v >= Vmpl THEN "derived" ELSE "zero"))
  /\ UNCHANGED <<host, table, seen, req, len, rsp, fw_err>>

(* Up to the first request: no buffer, certs_len 0. *)
get_ext_report(data, v) ==
  /\ pc = "idle"
  /\ \/ BadVmpl(v) /\ Return(Err("VmplError")) /\ UNCHANGED <<req, len, rsp, fw_err>>
     \/ /\ ~BadVmpl(v)
        /\ req' = [data |-> data, vmpl |-> VmplOf(v)]
        /\ len' = 0
        /\ rsp' = DefaultRsp
        /\ fw_err' = <<0, 0>>
        /\ pc' = "first"
        /\ result' = NoResult
  /\ seen' = {table}
  /\ UNCHANGED <<host, table>>

(* An ioctl error is one unless the VMM asks for a larger buffer; then, and *)
(* if it asks for one without an error, the request is made again.          *)
First ==
  /\ pc = "first"
  /\ \E o \in SNP_GET_EXT_REPORT \cup {Done(22)} :
       /\ len' = o.len
       /\ rsp' = o.rsp
       /\ fw_err' = o.fw_err
       /\ LET vmm == VmmFromU64(o.fw_err)
          IN  \/ /\ vmm = "InvalidCertificatePageLength"
                 /\ pc' = "retry"
                 /\ UNCHANGED result
              \/ /\ ~o.ok
                 /\ vmm = "RateLimitRetryRequest"
                 /\ Return(Err("RateLimitRetryRequest"))
              \/ /\ ~o.ok
                 /\ vmm = "Unknown"
                 /\ Return(Err("IOError"))
              \/ /\ o.ok
                 /\ vmm # "InvalidCertificatePageLength"
                 /\ o.fw_err # <<0, 0>>
                 /\ Return(Err("InvalidConfig"))
              \/ /\ o.ok
                 /\ o.fw_err = <<0, 0>>
                 /\ Return(OkReport(o.rsp.report, {}))
  /\ UNCHANGED <<host, table, seen, req>>

(* The table that the buffer holds after the second request: zeroes, unless *)
(* there was a table and it fitted.                                         *)
Buffer(fits) ==
  IF fits /\ table # <<>> THEN uapi_to_vec_bytes(table)
  ELSE [entries |-> <<ZeroEntry>>, raw |-> <<>>]

(* Mutant: an error of the second request is dropped. *)
Retry_DropsError ==
  /\ pc = "retry"
  /\ \E o \in SNP_GET_EXT_REPORT :
       /\ len' = o.len
       /\ rsp' = o.rsp
       /\ fw_err' = o.fw_err
       /\ Return(OkReport(o.rsp.report, {sort(parse_table(Buffer(o.ok /\ Needed <= len)))}))
  /\ UNCHANGED <<host, table, seen, req>>

(* SNP_GET_EXT_REPORT.ioctl(..)?; the second fw_err is not looked at. *)
Retry ==
  /\ pc = "retry"
  /\ \E o \in SNP_GET_EXT_REPORT :
       /\ len' = o.len
       /\ rsp' = o.rsp
       /\ fw_err' = o.fw_err
       /\ \/ ~o.ok /\ Return(Err("IOError"))
          \/ o.ok /\ Return(OkReport(o.rsp.report, {sort(parse_table(Buffer(Needed <= len)))}))
  /\ UNCHANGED <<host, table, seen, req>>

Next ==
  \/ SetTable
  \/ \E d \in ReportData, v \in {NoVmpl} \cup 0 .. MAX_VMPL + 1 :
       get_report(d, v) \/ get_ext_report(d, v)
  \/ \E v \in 0 .. MAX_VMPL : get_derived_key(v)
  \/ First
  \/ Retry

Spec == Init /\ [][Next]_vars

-----------------------------------------------------------------------------
(* The order that the tests of CertType expect. *)
TestOrder == <<"ARK", "VCEK", "VLEK", "ASK", "CRL", "OTHER(1)", "OTHER(2)", "Empty">>
Rank(type) == CHOOSE n \in DOMAIN TestOrder : TestOrder[n] = type

(* What a guest can see of a table: the entries before the first Empty one. *)
Listed(t) == {i \in DOMAIN t : \A j \in 1 .. i : t[j].cert_type # "Empty"}

(* certs is the visible part of t, put in that order. *)
OrderOf(certs, t) ==
  /\ Len(certs) = Cardinality(Listed(t))
  /\ \A i \in Listed(t) : Cardinality({j \in Listed(t) : t[j] = t[i]}) =
                          Cardinality({n \in DOMAIN certs : certs[n] = t[i]})
  /\ \A n \in 1 .. Len(certs) - 1 : Rank(certs[n].cert_type) <= Rank(certs[n + 1].cert_type)

(* The certificates that get_ext_report returns are those of one table that *)
(* the host had during the call: laid out in memory, found again through    *)
(* its offsets and sorted, none is lost, cut short or mixed with another.   *)
CertsAreHosts ==
  result.kind = "Ok" => \A certs \in result.certs : \E t \in seen : OrderOf(certs, t)

(* A report that is returned is the firmware's answer to this very request, *)
(* never what a response holds before the firmware fills it in.             *)
ReportIsAnswer ==
  result.kind = "Ok" /\ req.vmpl >= Vmpl => result.report = Report(req.data, req.vmpl)

(* What a guest owner makes of the result. *)
Attested ==
  /\ result.kind = "Ok"
  /\ \E certs \in result.certs : report_verify(parse_from_cert_table(certs), result.report)

(* When the chain and the report verify, the report is the firmware's       *)
(* answer to the request, also if the response's status, which nobody looks *)
(* at, was an error.                                                        *)
AttestedIsGenuine ==
  Attested => req.vmpl >= Vmpl /\ result.report = Report(req.data, req.vmpl)

(* One ARK, one ASK and the certificate of the signing key, a chain, and    *)
(* nothing that is not a certificate.                                       *)
Proper(t) ==
  /\ \A i \in DOMAIN t : IsCert(t[i].data) /\ t[i].cert_type # "Empty"
  /\ \A type \in {"ARK", "ASK", "VCEK", "VLEK"} :
       Cardinality({i \in DOMAIN t : t[i].cert_type = type}) <= 1
  /\ \E a, s, v \in DOMAIN t :
       /\ t[a].cert_type = "ARK" /\ t[s].cert_type = "ASK"
       /\ \/ t[v].cert_type = "VLEK"
          \/ t[v].cert_type = "VCEK" /\ \A i \in DOMAIN t : t[i].cert_type # "VLEK"
       /\ t[v].data[1] = SigningKey /\ t[v].data[2] = t[s].data[1]
       /\ t[s].data[2] = t[a].data[1] /\ t[a].data[2] = t[a].data[1]

(* A report fetched from a host with a proper table verifies. *)
AttestationWorks ==
  /\ result.kind = "Ok"
  /\ result.certs # {}
  /\ req.vmpl >= Vmpl
  /\ \A t \in seen : Proper(t)
  => Attested

-----------------------------------------------------------------------------
(* What the code's comments say and the code does not do. *)

(* "a fw_err value which matches InvalidCertificatePageLength will indicate *)
(* the buffer was not large enough": certificates are only returned when    *)
(* the request that was to bring them did not have such a fw_err.           *)
CertsWhenLargeEnough ==
  result.kind = "Ok" /\ result.certs # {}
    => VmmFromU64(fw_err) # "InvalidCertificatePageLength"
=============================================================================
