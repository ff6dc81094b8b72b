----------------------------- MODULE SevLaunch ------------------------------
(***************************************************************************)
(* What one call of a launch method does: the KVM ioctls it issues          *)
(* (external: the kernel and the SEV firmware) and the Launcher methods of  *)
(* src/src/launch/sev.rs built from them.                                   *)
(*                                                                          *)
(* Both are sets of outcomes [ok, ..., g], one of which happens: g is the   *)
(* guest afterwards.  Any ioctl may fail for reasons of its own with a code *)
(* in Failures (0: errno only); one issued in the wrong guest state fails.  *)
(***************************************************************************)
EXTENDS SevError, Sequences

CONSTANTS Data,       \* pieces of guest memory, secrets
          Failures    \* firmware codes an ioctl may fail with by itself

ASSUME DataAssumption == Data # {} /\ "vmsa" \notin Data /\ "partial" \notin Data
ASSUME FailuresAssumption == Failures \subseteq Nat

GuestStates == {"none", "init", "update", "secret", "running"}

(* What has been measured, in order.  "vmsa": the save areas of an ES guest; *)
(* "partial": an update that failed after encrypting some of its pages.      *)
Content == Data \cup {"vmsa", "partial"}

(* A VM as KVM and the firmware see it. *)
Guest == [state : GuestStates, es : BOOLEAN, mem : Seq(Content),
          regions : SUBSET Data, secrets : SUBSET Data]

NewGuest == [state |-> "none", es |-> FALSE, mem |-> <<>>,
             regions |-> {}, secrets |-> {}]

-----------------------------------------------------------------------------
(* The ioctls: outcomes [ok, error, g]. *)

Failed(g, codes) == {[ok |-> FALSE, error |-> c, g |-> g] : c \in codes}
Succeeded(g) == {[ok |-> TRUE, error |-> 0, g |-> g]}

(* Out of order: errno without SEV, else the firmware's own code. *)
Refused(g) == Failed(g, {IF g.state = "none" THEN 0 ELSE InvalidGuestState})

Ioctl(g, allowed, next) ==
  Failed(g, Failures) \cup (IF allowed THEN Succeeded(next) ELSE Refused(g))

INIT(g, es) ==
  Failed(g, Failures)
    \cup IF g.state = "none"
           THEN Succeeded([g EXCEPT !.state = "init", !.es = es])
           ELSE Failed(g, {0})

LAUNCH_START(g) == Ioctl(g, g.state = "init", [g EXCEPT !.state = "update"])

ENC_REG_REGION(g, d) ==
  Failed(g, {0})
    \cup IF g.state # "none"
           THEN Succeeded([g EXCEPT !.regions = @ \cup {d}]) ELSE {}

(* Pages are encrypted and measured one by one: a failure may come late. *)
Encrypt(g, c, allowed) ==
  Ioctl(g, allowed, [g EXCEPT !.mem = Append(@, c)])
    \cup IF allowed
           THEN Failed([g EXCEPT !.mem = Append(@, "partial")], Failures) ELSE {}

LAUNCH_UPDATE_DATA(g, d) == Encrypt(g, d, g.state = "update")
LAUNCH_UPDATE_VMSA(g) == Encrypt(g, "vmsa", g.state = "update" /\ g.es)

LAUNCH_MEASURE(g) == Ioctl(g, g.state = "update", [g EXCEPT !.state = "secret"])

LAUNCH_SECRET(g, s) ==
  Ioctl(g, g.state = "secret", [g EXCEPT !.secrets = @ \cup {s}])

LAUNCH_FINISH(g) == Ioctl(g, g.state = "secret", [g EXCEPT !.state = "running"])

(* With no buffer the firmware answers InvalidLen and the length it needs. *)
LAUNCH_ATTESTATION(g, len) ==
  Failed(g, Failures)
    \cup IF g.state # "running" THEN Refused(g)
         ELSE IF len = 0 THEN Failed(g, {InvalidLen}) ELSE Succeeded(g)

-----------------------------------------------------------------------------
(* The methods: outcomes [ok, e, g], e the io::Error returned. *)

NoErr == Os

Outcome == [ok : BOOLEAN, e : IoError, g : Guest]

(* XXX.ioctl(..).map_err(|e| cmd.encapsulate(e))? *)
Cmd(ioctls) ==
  {[ok |-> o.ok, e |-> IF o.ok THEN NoErr ELSE ToIo(encapsulate(o.error)),
    g |-> o.g] : o \in ioctls}

(* first?; then(the guest after first) *)
Then(first, then(_)) ==
  {r \in first : ~r.ok} \cup UNION {then(r.g) : r \in {s \in first : s.ok}}

new(g) == Cmd(INIT(g, FALSE))

new_es(g) == Cmd(INIT(g, TRUE))

start(g) == Cmd(LAUNCH_START(g))

(* A plain io::Error: this ioctl has no command structure. *)
register_kvm_enc_region(g, d) ==
  {[ok |-> o.ok, e |-> Os, g |-> o.g] : o \in ENC_REG_REGION(g, d)}

update_data_without_registration(g, d) == Cmd(LAUNCH_UPDATE_DATA(g, d))

update_data(g, d) ==
  LET Update(h) == update_data_without_registration(h, d)
  IN  Then(register_kvm_enc_region(g, d), Update)

update_vmsa(g) == Cmd(LAUNCH_UPDATE_VMSA(g))

measure(g) == Cmd(LAUNCH_MEASURE(g))

(* Mutant: self.state.0, the handle, for self.state.1. *)
measurement_Handle(g) == <<g.state>>

(* The Measurement in the outcome of a successful measure(). *)
measurement(g) == g.mem

inject(g, s) == Cmd(LAUNCH_SECRET(g, s))

finish(g) == Cmd(LAUNCH_FINISH(g))

finish_attestable(g) == Cmd(LAUNCH_FINISH(g))

(* Only InvalidLen sends the first query on to the second; the length it   *)
(* reports is the firmware's report size, abstracted to 1.                  *)
report(g) ==
  LET first == Cmd(LAUNCH_ATTESTATION(g, 0))
      len(r) == IF ~r.ok /\ r.e = ToIo(InvalidLen) THEN 1 ELSE 0
      again == {r \in first : r.ok \/ r.e = ToIo(InvalidLen)}
  IN  (first \ again) \cup UNION {Cmd(LAUNCH_ATTESTATION(r.g, len(r))) : r \in again}
=============================================================================
