------------------------- MODULE SevLauncherProofs --------------------------
(***************************************************************************)
(* Theorems about the Rust launch API: for any number of VMs, any contents  *)
(* and any failures of the firmware, a launcher's type is the state of its  *)
(* VM and what the guest owner was shown is what runs.                      *)
(***************************************************************************)
EXTENDS SevLauncher, SevLaunchProofs

(* No launcher, no SEV guest yet. *)
NoneIsNone == \A v \in VMs : phase[v] = "None" => guest[v].state = "none"

(* A guest not yet measured holds no secret. *)
NoEarlySecret ==
  \A v \in VMs : guest[v].state \in {"none", "init", "update"} => guest[v].secrets = {}

(* A measured guest has had all its memory measured, also when its launcher *)
(* is gone.                                                                 *)
MeasuredIsAll ==
  \A v \in VMs : guest[v].state \in {"secret", "running"} => meas[v] = {guest[v].mem}

(* Only a running guest was ever reported on, and truly. *)
ReportedRuns ==
  \A v \in VMs : reports[v] # {} => guest[v].state = "running" /\ reports[v] = meas[v]

Inv == /\ TypeOK /\ RightOrder /\ NoneIsNone
       /\ NoEarlySecret /\ MeasuredIsAll /\ ReportedRuns

(* The invariant holds of VMs without a launcher. *)
LEMMA InitInv == Init => Inv
<1> SUFFICES ASSUME Init PROVE Inv
  OBVIOUS
<1>1. NewGuest \in Guest /\ NewGuest.state = "none" /\ NewGuest.secrets = {}
  BY DEF NewGuest, Guest, GuestStates
<1>2. TypeOK
  BY <1>1 DEF Init, TypeOK, Phases
<1>3. RightOrder /\ NoneIsNone /\ NoEarlySecret /\ MeasuredIsAll /\ ReportedRuns
  BY <1>1 DEF Init, RightOrder, Needs, NoneIsNone, NoEarlySecret, MeasuredIsAll,
              ReportedRuns
<1> QED
  BY <1>2, <1>3 DEF Inv

-----------------------------------------------------------------------------
(* An outcome on a guest g that fits a launcher of type okPhase or errPhase. *)
Fits(r, g, okPhase, errPhase) ==
  LET to == IF r.ok THEN okPhase ELSE errPhase
  IN  /\ to = "None" => r.g.state = "none"
      /\ to \in DOMAIN Needs => r.g.state = Needs[to]
      /\ \/ r.g.state = g.state
         \/ g.state = "none" /\ r.g.state = "init"
         \/ g.state = "init" /\ r.g.state = "update"
         \/ g.state = "secret" /\ r.g.state = "running"

(* A method other than measure() and report() that moves its VM as it moves *)
(* its launcher keeps the invariant.                                        *)
LEMMA InvokeInv ==
  ASSUME Inv, NEW v \in VMs, NEW outcomes, NEW from,
         NEW okPhase \in Phases, NEW errPhase \in Phases,
         Invoke(v, from, outcomes, okPhase, errPhase), UNCHANGED <<meas, reports>>,
         outcomes \subseteq Outcome, Confined(outcomes, guest[v]),
         \A r \in outcomes : Fits(r, guest[v], okPhase, errPhase)
  PROVE  Inv'
<1> DEFINE g == guest[v]
<1>1. PICK r \in outcomes :
        /\ guest' = [guest EXCEPT ![v] = r.g]
        /\ phase' = [phase EXCEPT ![v] = IF r.ok THEN okPhase ELSE errPhase]
  BY DEF Invoke
<1> DEFINE to == IF r.ok THEN okPhase ELSE errPhase
<1>2. r.g \in Guest /\ g \in Guest /\ to \in Phases
  BY DEF Outcome, Inv, TypeOK
<1>3. TypeOK'
  BY <1>1, <1>2 DEF Inv, TypeOK
<1>4. /\ guest'[v] = r.g /\ phase'[v] = to
      /\ \A w \in VMs \ {v} : guest'[w] = guest[w] /\ phase'[w] = phase[w]
  BY <1>1 DEF Inv, TypeOK
<1>5. /\ to = "None" => r.g.state = "none"
      /\ to \in DOMAIN Needs => r.g.state = Needs[to]
  BY DEF Fits
<1>6. \/ r.g.state = g.state
      \/ g.state = "none" /\ r.g.state = "init"
      \/ g.state = "init" /\ r.g.state = "update"
      \/ g.state = "secret" /\ r.g.state = "running"
  BY DEF Fits
<1>7. /\ r.g.mem = g.mem \/ g.state = "update"
      /\ r.g.secrets = g.secrets \/ g.state = "secret"
  BY DEF Confined, MayGrow
<1> HIDE DEF to
<1>8. RightOrder' /\ NoneIsNone'
  BY <1>4, <1>5 DEF Inv, RightOrder, NoneIsNone, Needs
<1>9. NoEarlySecret'
  BY <1>4, <1>6, <1>7 DEF Inv, NoEarlySecret
<1>10. MeasuredIsAll'
  BY <1>4, <1>6, <1>7 DEF Inv, MeasuredIsAll
<1>11. ReportedRuns'
  BY <1>4, <1>6 DEF Inv, ReportedRuns
<1> QED
  BY <1>3, <1>8, <1>9, <1>10, <1>11 DEF Inv

(* measure() shows the guest owner the memory it has just sealed. *)
LEMMA MeasureInv ==
  ASSUME Inv, NEW v \in VMs, Measure(v) PROVE Inv'
<1> DEFINE g == guest[v]
<1>1. g \in Guest /\ g.state = "update" /\ g.secrets = {} /\ reports[v] = {}
  BY DEF Inv, TypeOK, Measure, Invoke, RightOrder, Needs, NoEarlySecret, ReportedRuns
<1>2. PICK r \in measure(g) :
        /\ guest' = [guest EXCEPT ![v] = r.g]
        /\ phase' = [phase EXCEPT ![v] = IF r.ok THEN "Measured" ELSE "Gone"]
  BY DEF Measure, Invoke
<1>3. /\ r.g \in Guest
      /\ IF r.ok THEN r.g.state = "secret" ELSE r.g.state = "update"
  BY <1>1, MeasureMoves DEF Moves, Outcome
<1>4. r.g.secrets = {}
  BY <1>1, DataAssumption, MethodsConfined DEF Confined, MayGrow
<1>5. /\ guest'[v] = r.g /\ phase'[v] = IF r.ok THEN "Measured" ELSE "Gone"
      /\ \A w \in VMs \ {v} : guest'[w] = guest[w] /\ phase'[w] = phase[w]
  BY <1>2 DEF Inv, TypeOK
<1>6. /\ r.ok => meas'[v] = {r.g.mem}
      /\ \A w \in VMs \ {v} : meas'[w] = meas[w]
      /\ reports' = reports
  BY <1>5 DEF Inv, TypeOK, Measure, measurement
<1>7. TypeOK'
  <2>1. r.g.mem \in Seq(Content)
    BY <1>3 DEF Guest
  <2>2. meas' \in [VMs -> SUBSET Seq(Content)]
    BY <2>1, <1>5 DEF Inv, TypeOK, Measure, measurement
  <2>3. guest' \in [VMs -> Guest] /\ phase' \in [VMs -> Phases]
    BY <1>2, <1>3 DEF Inv, TypeOK, Phases
  <2> QED
    BY <2>2, <2>3, <1>6 DEF Inv, TypeOK
<1>8. RightOrder' /\ NoneIsNone'
  BY <1>3, <1>5 DEF Inv, RightOrder, NoneIsNone, Needs
<1>9. NoEarlySecret'
  BY <1>4, <1>5 DEF Inv, NoEarlySecret
<1>10. MeasuredIsAll'
  BY <1>3, <1>5, <1>6 DEF Inv, MeasuredIsAll
<1>11. ReportedRuns'
  BY <1>1, <1>5, <1>6 DEF Inv, ReportedRuns
<1> QED
  BY <1>7, <1>8, <1>9, <1>10, <1>11 DEF Inv

(* report() shows the memory of a running guest, which measure() showed. *)
LEMMA ReportInv ==
  ASSUME Inv, NEW v \in VMs, Report(v) PROVE Inv'
<1>1. guest[v] \in Guest /\ guest[v].state = "running" /\ meas[v] = {guest[v].mem}
  BY DEF Inv, TypeOK, Report, RightOrder, Needs, MeasuredIsAll
<1>2. PICK r \in report(guest[v]) :
        reports' = IF r.ok THEN [reports EXCEPT ![v] = {measurement(r.g)}] ELSE reports
  BY DEF Report
<1>3. r.g = guest[v]
  BY <1>1, ReportMoves
<1>4. UNCHANGED <<guest, phase, meas>>
  BY DEF Report
<1>5. reports' \in [VMs -> SUBSET Seq(Content)]
  BY <1>1, <1>2, <1>3 DEF Inv, TypeOK, measurement, Guest
<1>6. \A w \in VMs : reports'[w] = reports[w] \/ (w = v /\ reports'[w] = {guest[v].mem})
  <2>1. reports \in [VMs -> SUBSET Seq(Content)]
    BY DEF Inv, TypeOK
  <2>2. reports' = [reports EXCEPT ![v] = {guest[v].mem}] \/ reports' = reports
    BY <1>2, <1>3 DEF measurement
  <2> QED
    BY <2>1, <2>2
<1>7. ReportedRuns'
  BY <1>1, <1>4, <1>6 DEF Inv, ReportedRuns
<1> QED
  BY <1>4, <1>5, <1>7 DEF Inv, TypeOK, RightOrder, NoneIsNone, NoEarlySecret,
                          MeasuredIsAll

(* Every step keeps the invariant. *)
LEMMA NextInv == Inv /\ [Next]_vars => Inv'
<1> SUFFICES ASSUME Inv, [Next]_vars PROVE Inv'
  OBVIOUS
<1>1. ASSUME NEW v \in VMs, New(v) PROVE Inv'
  <2>1. guest[v] \in Guest /\ guest[v].state = "none" /\ phase[v] = "None"
    BY <1>1 DEF Inv, TypeOK, NoneIsNone, New, Invoke
  <2> DEFINE outcomes == new(guest[v]) \cup new_es(guest[v])
  <2>2. outcomes \subseteq Outcome
        /\ \A r \in outcomes : IF r.ok THEN r.g.state = "init" ELSE r.g.state = "none"
    BY <2>1, NewMoves DEF Moves
  <2>3. Confined(outcomes, guest[v])
    BY <2>1, DataAssumption, MethodsConfined DEF Confined
  <2>4. Invoke(v, "None", outcomes, "New", "None") /\ UNCHANGED <<meas, reports>>
    BY <1>1 DEF New
  <2> HIDE DEF outcomes
  <2>5. \A r \in outcomes : Fits(r, guest[v], "New", "None")
    BY <2>1, <2>2 DEF Fits, Needs
  <2> QED
    BY <2>2, <2>3, <2>4, <2>5, InvokeInv DEF Phases
<1>2. ASSUME NEW v \in VMs, Start(v) PROVE Inv'
  <2>1. guest[v] \in Guest /\ guest[v].state = "init"
    BY <1>2 DEF Inv, TypeOK, RightOrder, Needs, Start, Invoke
  <2>2. start(guest[v]) \subseteq Outcome
        /\ \A r \in start(guest[v]) : IF r.ok THEN r.g.state = "update" ELSE r.g.state = "init"
    BY <2>1, StartMoves DEF Moves
  <2>3. Confined(start(guest[v]), guest[v])
    BY <2>1, DataAssumption, MethodsConfined
  <2>4. Invoke(v, "New", start(guest[v]), "Started", "Gone") /\ UNCHANGED <<meas, reports>>
    BY <1>2 DEF Start
  <2>5. \A r \in start(guest[v]) : Fits(r, guest[v], "Started", "Gone")
    BY <2>1, <2>2 DEF Fits, Needs
  <2> QED
    BY <2>2, <2>3, <2>4, <2>5, InvokeInv DEF Phases
<1>3. ASSUME NEW v \in VMs, NEW outcomes, NEW p \in {"Started", "Measured"},
             Invoke(v, p, outcomes, p, p), UNCHANGED <<meas, reports>>,
             outcomes \subseteq Outcome, Confined(outcomes, guest[v]),
             \A r \in outcomes : r.g.state = guest[v].state
      PROVE  Inv'
  <2>1. guest[v].state = Needs[p]
    BY <1>3 DEF Inv, RightOrder, Needs, Invoke
  <2>2. \A r \in outcomes : Fits(r, guest[v], p, p)
    BY <1>3, <2>1 DEF Fits
  <2> QED
    BY <1>3, <2>2, InvokeInv DEF Phases
<1>4. ASSUME NEW v \in VMs, UpdateVmsa(v) PROVE Inv'
  <2>1. guest[v] \in Guest
    BY DEF Inv, TypeOK
  <2>2. Moves(update_vmsa(guest[v]), guest[v], "update", "update")
        /\ Confined(update_vmsa(guest[v]), guest[v])
    BY <2>1, UpdateVmsaMoves, DataAssumption, MethodsConfined
  <2> QED
    BY <1>3, <1>4, <2>2 DEF UpdateVmsa, Moves
<1>5. ASSUME NEW v \in VMs, NEW d \in Data, UpdateData(v, d) PROVE Inv'
  <2>1. guest[v] \in Guest
    BY DEF Inv, TypeOK
  <2>2. Moves(update_data(guest[v], d), guest[v], "update", "update")
        /\ Confined(update_data(guest[v], d), guest[v])
    BY <2>1, UpdateDataMoves, MethodsConfined
  <2> QED
    BY <1>3, <1>5, <2>2 DEF UpdateData, Moves
<1>6. ASSUME NEW v \in VMs, NEW d \in Data, UpdateDataWithoutRegistration(v, d)
      PROVE  Inv'
  <2>1. guest[v] \in Guest
    BY DEF Inv, TypeOK
  <2>2. Moves(update_data_without_registration(guest[v], d), guest[v], "update", "update")
        /\ Confined(update_data_without_registration(guest[v], d), guest[v])
    BY <2>1, UpdateOnlyMoves, MethodsConfined
  <2> QED
    BY <1>3, <1>6, <2>2 DEF UpdateDataWithoutRegistration, Moves
<1>7. ASSUME NEW v \in VMs, NEW d \in Data, RegisterRegion(v, d) PROVE Inv'
  <2>1. guest[v] \in Guest
    BY DEF Inv, TypeOK
  <2>2. /\ register_kvm_enc_region(guest[v], d) \subseteq Outcome
        /\ \A r \in register_kvm_enc_region(guest[v], d) : r.g.state = guest[v].state
        /\ Confined(register_kvm_enc_region(guest[v], d), guest[v])
    BY <2>1, RegisterLemma, MethodsConfined
  <2> QED
    BY <1>3, <1>7, <2>2 DEF RegisterRegion
<1>8. ASSUME NEW v \in VMs, NEW s \in Data, Inject(v, s) PROVE Inv'
  <2>1. guest[v] \in Guest
    BY DEF Inv, TypeOK
  <2>2. Moves(inject(guest[v], s), guest[v], "secret", "secret")
        /\ Confined(inject(guest[v], s), guest[v])
    BY <2>1, InjectMoves, MethodsConfined
  <2> QED
    BY <1>3, <1>8, <2>2 DEF Inject, Moves
<1>9. ASSUME NEW v \in VMs, NEW outcomes, NEW p \in {"Finished", "Gone"},
             Invoke(v, "Measured", outcomes, p, "Gone"), UNCHANGED <<meas, reports>>,
             Moves(outcomes, guest[v], "secret", "running"), Confined(outcomes, guest[v])
      PROVE  Inv'
  <2>1. guest[v].state = "secret"
    BY <1>9 DEF Inv, RightOrder, Needs, Invoke
  <2>2. outcomes \subseteq Outcome
        /\ \A r \in outcomes : IF r.ok THEN r.g.state = "running" ELSE r.g.state = "secret"
    BY <1>9, <2>1 DEF Moves
  <2>3. \A r \in outcomes : Fits(r, guest[v], p, "Gone")
    BY <2>1, <2>2 DEF Fits, Needs
  <2> QED
    BY <1>9, <2>2, <2>3, InvokeInv DEF Phases
<1>10. ASSUME NEW v \in VMs, Finish(v) \/ FinishAttestable(v) PROVE Inv'
  <2>1. guest[v] \in Guest
    BY DEF Inv, TypeOK
  <2>2. /\ Moves(finish(guest[v]), guest[v], "secret", "running")
        /\ Confined(finish(guest[v]), guest[v])
        /\ Moves(finish_attestable(guest[v]), guest[v], "secret", "running")
        /\ Confined(finish_attestable(guest[v]), guest[v])
    BY <2>1, FinishMoves, PlainFinishMoves, DataAssumption, MethodsConfined
  <2> QED
    BY <1>9, <1>10, <2>2 DEF Finish, FinishAttestable
<1>11. ASSUME NEW v \in VMs, Drop(v) PROVE Inv'
  <2>1. /\ phase' = [phase EXCEPT ![v] = "Gone"] /\ UNCHANGED <<guest, meas, reports>>
    BY <1>11 DEF Drop
  <2> QED
    BY <2>1 DEF Inv, TypeOK, Phases, RightOrder, Needs, NoneIsNone, NoEarlySecret,
                MeasuredIsAll, ReportedRuns
<1>12. CASE UNCHANGED vars
  BY <1>12 DEF vars, Inv, TypeOK, RightOrder, NoneIsNone, NoEarlySecret,
               MeasuredIsAll, ReportedRuns
<1> QED
  BY <1>1, <1>2, <1>4, <1>5, <1>6, <1>7, <1>8, <1>10, <1>11, <1>12,
     MeasureInv, ReportInv DEF Next

(* The invariant is one of the specification. *)
THEOREM SpecInv == Spec => []Inv
  BY InitInv, NextInv, PTL DEF Spec

(* Launchers, guests, measurements and reports keep their types. *)
THEOREM TypeCorrect == Spec => []TypeOK
<1>1. Inv => TypeOK
  BY DEF Inv
<1> QED
  BY <1>1, SpecInv, PTL

(* "The right steps are called in the right order": whatever method of      *)
(* src/launch/sev.rs fails, a launcher's type is the state of its VM.       *)
THEOREM RightOrderHolds == Spec => []RightOrder
<1>1. Inv => RightOrder
  BY DEF Inv
<1> QED
  BY <1>1, SpecInv, PTL

(* inject() only ever reaches a guest whose whole memory was measured and   *)
(* shown to the owner by measure().                                         *)
THEOREM SecretsHold == Spec => []SecretsAfterMeasurement
<1>1. ASSUME Inv, NEW v \in VMs, guest[v].secrets # {} PROVE meas[v] = {guest[v].mem}
  <2>1. guest[v].state \in GuestStates
    BY <1>1 DEF Inv, TypeOK, Guest
  <2> QED
    BY <1>1, <2>1 DEF Inv, NoEarlySecret, MeasuredIsAll, GuestStates
<1>2. Inv => SecretsAfterMeasurement
  BY <1>1 DEF SecretsAfterMeasurement
<1> QED
  BY <1>2, SpecInv, PTL

(* The report of report() is of the memory that measure() measured. *)
THEOREM ReportsHold == Spec => []ReportsAgree
<1>1. Inv => ReportsAgree
  BY DEF Inv, ReportedRuns, ReportsAgree
<1> QED
  BY <1>1, SpecInv, PTL
=============================================================================
