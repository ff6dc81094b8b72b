---------------------------- MODULE SevLauncher -----------------------------
(***************************************************************************)
(* The Rust launch API of src/src/launch/sev.rs: a Launcher<T> per VM whose *)
(* type parameter T is the phase of the launch.  A method taking `self`     *)
(* consumes the launcher: on Ok a launcher of the next type replaces it, on *)
(* Err nothing does.  A method taking `&mut self` leaves it in place.  The  *)
(* compiler only lets a method be called on the type it is defined for,     *)
(* which is each action's guard on phase.                                   *)
(***************************************************************************)
EXTENDS SevLaunch

CONSTANTS VMs,         \* virtual machines
          MaxContent   \* bound: pieces measured per VM

ASSUME MaxContentAssumption == MaxContent \in Nat

Phases == {"None", "New", "Started", "Measured", "Finished", "Gone"}

VARIABLES
  guest,   \* the VM as the kernel and the firmware see it
  phase,   \* the type of the VM's launcher; None before it, Gone after it
  meas,    \* the Measurement in Launcher<Measured>, as a set of at most one
  reports  \* the report last returned, as a set of at most one

vars == <<guest, phase, meas, reports>>

TypeOK ==
  /\ guest \in [VMs -> Guest]
  /\ phase \in [VMs -> Phases]
  /\ meas \in [VMs -> SUBSET Seq(Content)]
  /\ reports \in [VMs -> SUBSET Seq(Content)]

Init ==
  /\ guest = [v \in VMs |-> NewGuest]
  /\ phase = [v \in VMs |-> "None"]
  /\ meas = [v \in VMs |-> {}]
  /\ reports = [v \in VMs |-> {}]

-----------------------------------------------------------------------------
(* One of the outcomes happens; Ok leaves a launcher of type okPhase, Err   *)
(* one of type errPhase.                                                    *)
Invoke(v, from, outcomes, okPhase, errPhase) ==
  /\ phase[v] = from
  /\ \E r \in outcomes :
       /\ guest' = [guest EXCEPT ![v] = r.g]
       /\ phase' = [phase EXCEPT ![v] = IF r.ok THEN okPhase ELSE errPhase]

(* A failed constructor leaves no launcher and a VM it may be tried on again. *)
New(v) ==
  /\ Invoke(v, "None", new(guest[v]) \cup new_es(guest[v]), "New", "None")
  /\ UNCHANGED <<meas, reports>>

(* Mutant: a failed start() gives the caller a started launcher all the same. *)
Start_KeepsGoing(v) ==
  /\ Invoke(v, "New", start(guest[v]), "Started", "Started")
  /\ UNCHANGED <<meas, reports>>

Start(v) ==
  /\ Invoke(v, "New", start(guest[v]), "Started", "Gone")
  /\ UNCHANGED <<meas, reports>>

UpdateData(v, d) ==
  /\ Len(guest[v].mem) < MaxContent
  /\ Invoke(v, "Started", update_data(guest[v], d), "Started", "Started")
  /\ UNCHANGED <<meas, reports>>

RegisterRegion(v, d) ==
  /\ Invoke(v, "Started", register_kvm_enc_region(guest[v], d), "Started", "Started")
  /\ UNCHANGED <<meas, reports>>

UpdateDataWithoutRegistration(v, d) ==
  /\ Len(guest[v].mem) < MaxContent
  /\ Invoke(v, "Started", update_data_without_registration(guest[v], d),
            "Started", "Started")
  /\ UNCHANGED <<meas, reports>>

UpdateVmsa(v) ==
  /\ Len(guest[v].mem) < MaxContent
  /\ Invoke(v, "Started", update_vmsa(guest[v]), "Started", "Started")
  /\ UNCHANGED <<meas, reports>>

(* Mutant: assume_init() on a buffer the firmware never filled. *)
Measure_Uninit(v) ==
  /\ Invoke(v, "Started", measure(guest[v]), "Measured", "Gone")
  /\ meas' = IF phase'[v] = "Measured" THEN [meas EXCEPT ![v] = {<<>>}] ELSE meas
  /\ UNCHANGED reports

Measure(v) ==
  /\ Invoke(v, "Started", measure(guest[v]), "Measured", "Gone")
  /\ meas' = IF phase'[v] = "Measured"
               THEN [meas EXCEPT ![v] = {measurement(guest'[v])}] ELSE meas
  /\ UNCHANGED reports

Inject(v, s) ==
  /\ Invoke(v, "Measured", inject(guest[v], s), "Measured", "Measured")
  /\ UNCHANGED <<meas, reports>>

(* finish() returns the handle alone: no launcher is left either way. *)
Finish(v) ==
  /\ Invoke(v, "Measured", finish(guest[v]), "Gone", "Gone")
  /\ UNCHANGED <<meas, reports>>

FinishAttestable(v) ==
  /\ Invoke(v, "Measured", finish_attestable(guest[v]), "Finished", "Gone")
  /\ UNCHANGED <<meas, reports>>

(* Mutant: the answer to the length query is taken for the report. *)
Report_LengthOnly(v) ==
  /\ phase[v] = "Finished"
  /\ \E r \in report(guest[v]) :
       reports' = [reports EXCEPT ![v] = {<<>>}]
  /\ UNCHANGED <<guest, phase, meas>>

Report(v) ==
  /\ phase[v] = "Finished"
  /\ \E r \in report(guest[v]) :
       reports' = IF r.ok THEN [reports EXCEPT ![v] = {measurement(r.g)}] ELSE reports
  /\ UNCHANGED <<guest, phase, meas>>

(* The owner lets a launcher go out of scope; the VM stays as it is. *)
Drop(v) ==
  /\ phase[v] \notin {"None", "Gone"}
  /\ phase' = [phase EXCEPT ![v] = "Gone"]
  /\ UNCHANGED <<guest, meas, reports>>

Next ==
  \E v \in VMs :
    \/ New(v) \/ Start(v) \/ UpdateVmsa(v) \/ Measure(v)
    \/ Finish(v) \/ FinishAttestable(v) \/ Report(v) \/ Drop(v)
    \/ \E d \in Data : \/ UpdateData(v, d)
                       \/ RegisterRegion(v, d)
                       \/ UpdateDataWithoutRegistration(v, d)
                       \/ Inject(v, d)

Spec == Init /\ [][Next]_vars

-----------------------------------------------------------------------------
(* The guest state that the methods of a launcher type need. *)
Needs == [New |-> "init", Started |-> "update", Measured |-> "secret",
          Finished |-> "running"]

(* The module documentation's "the right steps are called in the right      *)
(* order": whatever method fails on the way, a launcher's type is the state *)
(* its VM is really in, so no method can be refused for being out of order. *)
RightOrder ==
  \A v \in VMs : phase[v] \in DOMAIN Needs => guest[v].state = Needs[phase[v]]

(* A guest that got a secret was measured, and what was measured is what    *)
(* its memory holds: nothing slipped in after measure().                    *)
SecretsAfterMeasurement ==
  \A v \in VMs : guest[v].secrets # {} => meas[v] = {guest[v].mem}

(* A report is of the memory that measure() reported to the guest owner. *)
ReportsAgree ==
  \A v \in VMs : reports[v] # {} => reports[v] = meas[v]
=============================================================================
