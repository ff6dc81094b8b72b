------------------------------- MODULE LibSev -------------------------------
(***************************************************************************)
(* The C API of src/src/lib.rs.  C code has no Launcher<T> to hold on to:   *)
(* the library keeps the launchers itself, in one HashMap per launcher type *)
(* behind a Mutex each, under the VM's file descriptor.  A function looks   *)
(* the launcher up, calls its method while it still holds the map's lock,   *)
(* and moves a launcher of a new type to the next map, whose lock it takes  *)
(* with the first one still held.                                           *)
(*                                                                          *)
(* Threads call the functions on file descriptors.  A launcher is the VM it *)
(* was created for; the code stores no such thing, only the descriptor, so  *)
(* its ioctls go to whatever VM the descriptor names when they are issued.  *)
(* A step ends where another thread could act: at a lock or at an ioctl.    *)
(***************************************************************************)
EXTENDS SevLaunch

CONSTANTS Threads,     \* threads of the program using the library
          Fds,         \* file descriptors it uses for VMs
          VMs,         \* VMs it creates over time
          NoVM,        \* no VM, no launcher
          NoThread,    \* the holder of a free lock
          ReuseFds,    \* TRUE: a VM's descriptor may be closed and reused
          MaxCalls     \* bound: calls made to the library

ASSUME FdsAssumption == Fds # {}
ASSUME NoVMAssumption == NoVM \notin VMs
ASSUME NoThreadAssumption == NoThread \notin Threads
ASSUME ReuseFdsAssumption == ReuseFds \in BOOLEAN
ASSUME MaxCallsAssumption == MaxCalls \in Nat

MapNames == {"INIT_MAP", "STARTED_MAP", "MEASURED_MAP", "FINISHED_MAP"}

DataOps == {"sev_launch_update_data", "sev_inject_launch_secret"}
ReportOp == "sev_attestation_report"
Ops == DataOps \cup
       {"sev_init", "sev_es_init", "sev_launch_start", "sev_launch_update_vmsa",
        "sev_launch_measure", "sev_launch_finish", ReportOp}

(* What a caller passes besides the descriptor: data, or an mnonce_len. *)
Args(op) ==
  IF op \in DataOps THEN Data
  ELSE IF op = ReportOp THEN {"mnonce_len = 16", "mnonce_len # 16"} ELSE {"-"}

AllArgs == Data \cup {"mnonce_len = 16", "mnonce_len # 16", "-"}

NoCall == [op |-> "-", fd |-> CHOOSE fd \in Fds : TRUE, arg |-> "-"]

(* What the caller gets back: the return value, fw_err (zeroed before the   *)
(* call), and, for the properties, whether the method succeeded and its e.  *)
Ret == [val : {0, -1}, fw_err : Int, ok : BOOLEAN, e : IoError]
NoRet == [val |-> 0, fw_err |-> 0, ok |-> TRUE, e |-> NoErr]

VARIABLES
  guest,      \* each VM as the kernel and the firmware see it
  vm,         \* the VM a descriptor is open on
  fresh,      \* VMs not created yet
  maps,       \* INIT_MAP, STARTED_MAP, MEASURED_MAP, FINISHED_MAP
  holder,     \* the thread holding a map's Mutex
  pc,         \* where a thread is in its call
  call,       \* its function and arguments
  hand,       \* a launcher it owns outside the maps
  ret,        \* what its last call returned
  calls,      \* calls made so far
  meas,       \* the Measurement in a VM's Launcher<Measured>
  delivered,  \* measurements copied to the caller, by the VM they are of
  reports,    \* the report a VM's launcher last returned
  reported    \* VMs for which a call that owned a launcher returned -1

kernel == <<guest, vm, fresh>>
history == <<meas, delivered, reports, reported>>
vars == <<kernel, maps, holder, pc, call, hand, ret, calls, history>>

TypeOK ==
  /\ guest \in [VMs -> Guest]
  /\ vm \in [Fds -> VMs \cup {NoVM}]
  /\ fresh \subseteq VMs
  /\ maps \in [MapNames -> [Fds -> VMs \cup {NoVM}]]
  /\ holder \in [MapNames -> Threads \cup {NoThread}]
  /\ pc \in [Threads -> {"idle", "entry", "ioctl", "insert"}]
  /\ call \in [Threads -> [op : Ops \cup {"-"}, fd : Fds, arg : AllArgs]]
  /\ hand \in [Threads -> VMs \cup {NoVM}]
  /\ ret \in [Threads -> Ret]
  /\ calls \in 0 .. MaxCalls
  /\ meas \in [VMs -> SUBSET Seq(Content)]
  /\ delivered \in [VMs -> SUBSET Seq(Content)]
  /\ reports \in [VMs -> SUBSET Seq(Content)]
  /\ reported \subseteq VMs

Init ==
  /\ guest = [v \in VMs |-> NewGuest]
  /\ vm = [fd \in Fds |-> NoVM]
  /\ fresh = VMs
  /\ maps = [m \in MapNames |-> [fd \in Fds |-> NoVM]]
  /\ holder = [m \in MapNames |-> NoThread]
  /\ pc = [t \in Threads |-> "idle"]
  /\ call = [t \in Threads |-> NoCall]
  /\ hand = [t \in Threads |-> NoVM]
  /\ ret = [t \in Threads |-> NoRet]
  /\ calls = 0
  /\ meas = [v \in VMs |-> {}]
  /\ delivered = [v \in VMs |-> {}]
  /\ reports = [v \in VMs |-> {}]
  /\ reported = {}

Fd(t) == call[t].fd
Vm(t) == vm[Fd(t)]

-----------------------------------------------------------------------------
(* The steps that the functions are made of. *)

(* Mutant: the guards are leaked. *)
Return_LeaksGuards(t, val, fw_err, ok, e) ==
  /\ pc' = [pc EXCEPT ![t] = "idle"]
  /\ ret' = [ret EXCEPT ![t] = [val |-> val, fw_err |-> fw_err, ok |-> ok, e |-> e]]
  /\ holder' = holder
  /\ hand' = [hand EXCEPT ![t] = NoVM]
  /\ reported' = IF val = 0 \/ hand[t] = NoVM THEN reported ELSE reported \cup {Vm(t)}

(* Leaving a function drops its lock guards, and a launcher it still owns. *)
Return(t, val, fw_err, ok, e) ==
  /\ pc' = [pc EXCEPT ![t] = "idle"]
  /\ ret' = [ret EXCEPT ![t] = [val |-> val, fw_err |-> fw_err, ok |-> ok, e |-> e]]
  /\ holder' = [m \in MapNames |-> IF holder[m] = t THEN NoThread ELSE holder[m]]
  /\ hand' = [hand EXCEPT ![t] = NoVM]
  /\ reported' = IF val = 0 \/ hand[t] = NoVM THEN reported ELSE reported \cup {Vm(t)}

(* Mutant: an absent launcher is taken for success. *)
NotFound_Zero(t, m) ==
  /\ pc[t] = "entry"
  /\ holder[m] = NoThread
  /\ maps[m][Fd(t)] = NoVM
  /\ Return(t, 0, 0, FALSE, NoErr)
  /\ UNCHANGED <<kernel, maps, call, calls, meas, delivered, reports>>

(* `None => return -1`: fw_err is left alone. *)
NotFound(t, m) ==
  /\ pc[t] = "entry"
  /\ holder[m] = NoThread
  /\ maps[m][Fd(t)] = NoVM
  /\ Return(t, -1, 0, FALSE, NoErr)
  /\ UNCHANGED <<kernel, maps, call, calls, meas, delivered, reports>>

(* Mutant: the launcher is copied out of the map. *)
Remove_Copies(t, m) ==
  /\ pc[t] = "entry"
  /\ holder[m] = NoThread
  /\ maps[m][Fd(t)] # NoVM
  /\ pc' = [pc EXCEPT ![t] = "ioctl"]
  /\ holder' = [holder EXCEPT ![m] = t]
  /\ hand' = [hand EXCEPT ![t] = maps[m][Fd(t)]]
  /\ UNCHANGED <<kernel, maps, call, ret, calls, history>>

(* let mut map = M.lock().unwrap(); map.remove(&vm_fd) *)
Remove(t, m) ==
  /\ pc[t] = "entry"
  /\ holder[m] = NoThread
  /\ maps[m][Fd(t)] # NoVM
  /\ pc' = [pc EXCEPT ![t] = "ioctl"]
  /\ holder' = [holder EXCEPT ![m] = t]
  /\ hand' = [hand EXCEPT ![t] = maps[m][Fd(t)]]
  /\ maps' = [maps EXCEPT ![m][Fd(t)] = NoVM]
  /\ UNCHANGED <<kernel, call, ret, calls, history>>

(* Mutant: the guard is dropped as soon as the launcher is found. *)
GetMut_Unlocks(t, m) ==
  /\ pc[t] = "entry"
  /\ holder[m] = NoThread
  /\ maps[m][Fd(t)] # NoVM
  /\ pc' = [pc EXCEPT ![t] = "ioctl"]
  /\ UNCHANGED <<kernel, maps, holder, call, hand, ret, calls, history>>

(* let mut map = M.lock().unwrap(); map.get_mut(&vm_fd) *)
GetMut(t, m) ==
  /\ pc[t] = "entry"
  /\ holder[m] = NoThread
  /\ maps[m][Fd(t)] # NoVM
  /\ pc' = [pc EXCEPT ![t] = "ioctl"]
  /\ holder' = [holder EXCEPT ![m] = t]
  /\ UNCHANGED <<kernel, maps, call, hand, ret, calls, history>>

(* Err(e) => { set_fw_err(fw_err, e); -1 } *)
Err(t, at, outcomes) ==
  /\ pc[t] = at
  /\ \E r \in outcomes :
       /\ ~r.ok
       /\ guest' = [guest EXCEPT ![Vm(t)] = r.g]
       /\ Return(t, -1, set_fw_err(r.e), FALSE, r.e)
  /\ UNCHANGED <<vm, fresh, maps, call, calls, meas, delivered, reports>>

(* A method on a borrowed launcher succeeds: 0. *)
Ok(t, outcomes) ==
  /\ pc[t] = "ioctl"
  /\ \E r \in outcomes :
       /\ r.ok
       /\ guest' = [guest EXCEPT ![Vm(t)] = r.g]
  /\ Return(t, 0, 0, TRUE, NoErr)
  /\ UNCHANGED <<vm, fresh, maps, call, calls, meas, delivered, reports>>

(* A method that yields a launcher succeeds: it is owned, on to the insert. *)
OkLauncher(t, at, outcomes) ==
  /\ pc[t] = at
  /\ \E r \in outcomes :
       /\ r.ok
       /\ guest' = [guest EXCEPT ![Vm(t)] = r.g]
  /\ pc' = [pc EXCEPT ![t] = "insert"]
  /\ hand' = [hand EXCEPT ![t] = IF at = "entry" THEN Vm(t) ELSE @]
  /\ UNCHANGED <<vm, fresh, maps, holder, call, ret, calls, delivered, reports, reported>>

(* Mutant: the launcher goes out of scope instead. *)
Insert_Forgets(t, m, val) ==
  /\ pc[t] = "insert"
  /\ holder[m] = NoThread
  /\ Return(t, val, 0, TRUE, NoErr)
  /\ UNCHANGED <<kernel, maps, call, calls, meas, reports>>

(* let mut map = M.lock().unwrap(); map.insert(vm_fd, launcher); val *)
Insert(t, m, val) ==
  /\ pc[t] = "insert"
  /\ holder[m] = NoThread
  /\ maps' = [maps EXCEPT ![m][Fd(t)] = hand[t]]
  /\ Return(t, val, 0, TRUE, NoErr)
  /\ UNCHANGED <<kernel, call, calls, meas, reports>>

-----------------------------------------------------------------------------
(* The functions. *)

(* The ioctl is issued before, and outside, the map's lock. *)
sev_init(t) ==
  /\ call[t].op = "sev_init"
  /\ \/ Err(t, "entry", new(guest[Vm(t)]))
     \/ OkLauncher(t, "entry", new(guest[Vm(t)])) /\ UNCHANGED meas
     \/ Insert(t, "INIT_MAP", 0) /\ UNCHANGED delivered

(* Mutant: the wrong map. *)
sev_es_init_Started(t) ==
  /\ call[t].op = "sev_es_init"
  /\ \/ Err(t, "entry", new_es(guest[Vm(t)]))
     \/ OkLauncher(t, "entry", new_es(guest[Vm(t)])) /\ UNCHANGED meas
     \/ Insert(t, "STARTED_MAP", 0) /\ UNCHANGED delivered

sev_es_init(t) ==
  /\ call[t].op = "sev_es_init"
  /\ \/ Err(t, "entry", new_es(guest[Vm(t)]))
     \/ OkLauncher(t, "entry", new_es(guest[Vm(t)])) /\ UNCHANGED meas
     \/ Insert(t, "INIT_MAP", 0) /\ UNCHANGED delivered

(* 0 only if the insert found no older launcher under this descriptor. *)
sev_launch_start(t) ==
  /\ call[t].op = "sev_launch_start"
  /\ \/ NotFound(t, "INIT_MAP")
     \/ Remove(t, "INIT_MAP")
     \/ Err(t, "ioctl", start(guest[Vm(t)]))
     \/ OkLauncher(t, "ioctl", start(guest[Vm(t)])) /\ UNCHANGED meas
     \/ /\ Insert(t, "STARTED_MAP", IF maps["STARTED_MAP"][Fd(t)] = NoVM THEN 0 ELSE -1)
        /\ UNCHANGED delivered

sev_launch_update_data(t) ==
  /\ call[t].op = "sev_launch_update_data"
  /\ \/ NotFound(t, "STARTED_MAP")
     \/ GetMut(t, "STARTED_MAP")
     \/ Err(t, "ioctl", update_data(guest[Vm(t)], call[t].arg))
     \/ Ok(t, update_data(guest[Vm(t)], call[t].arg))

sev_launch_update_vmsa(t) ==
  /\ call[t].op = "sev_launch_update_vmsa"
  /\ \/ NotFound(t, "STARTED_MAP")
     \/ GetMut(t, "STARTED_MAP")
     \/ Err(t, "ioctl", update_vmsa(guest[Vm(t)]))
     \/ Ok(t, update_vmsa(guest[Vm(t)]))

(* Mutant: no memcpy. *)
sev_launch_measure_NoCopy(t) ==
  /\ call[t].op = "sev_launch_measure"
  /\ \/ NotFound(t, "STARTED_MAP")
     \/ Remove(t, "STARTED_MAP")
     \/ Err(t, "ioctl", measure(guest[Vm(t)]))
     \/ /\ OkLauncher(t, "ioctl", measure(guest[Vm(t)]))
        /\ meas' = [meas EXCEPT ![hand[t]] = {measurement(guest'[Vm(t)])}]
     \/ Insert(t, "MEASURED_MAP", 0) /\ UNCHANGED delivered

(* Mutant: the map of another function, locked against the order. *)
sev_launch_measure_ToInit(t) ==
  /\ call[t].op = "sev_launch_measure"
  /\ \/ NotFound(t, "STARTED_MAP")
     \/ Remove(t, "STARTED_MAP")
     \/ Err(t, "ioctl", measure(guest[Vm(t)]))
     \/ /\ OkLauncher(t, "ioctl", measure(guest[Vm(t)]))
        /\ meas' = [meas EXCEPT ![hand[t]] = {measurement(guest'[Vm(t)])}]
     \/ /\ Insert(t, "INIT_MAP", 0)
        /\ delivered' = [delivered EXCEPT ![Vm(t)] = meas[hand[t]]]

(* The measurement reaches the caller's buffer under MEASURED_MAP's lock. *)
sev_launch_measure(t) ==
  /\ call[t].op = "sev_launch_measure"
  /\ \/ NotFound(t, "STARTED_MAP")
     \/ Remove(t, "STARTED_MAP")
     \/ Err(t, "ioctl", measure(guest[Vm(t)]))
     \/ /\ OkLauncher(t, "ioctl", measure(guest[Vm(t)]))
        /\ meas' = [meas EXCEPT ![hand[t]] = {measurement(guest'[Vm(t)])}]
     \/ /\ Insert(t, "MEASURED_MAP", 0)
        /\ delivered' = [delivered EXCEPT ![Vm(t)] = meas[hand[t]]]

sev_inject_launch_secret(t) ==
  /\ call[t].op = "sev_inject_launch_secret"
  /\ \/ NotFound(t, "MEASURED_MAP")
     \/ GetMut(t, "MEASURED_MAP")
     \/ Err(t, "ioctl", inject(guest[Vm(t)], call[t].arg))
     \/ Ok(t, inject(guest[Vm(t)], call[t].arg))

sev_launch_finish(t) ==
  /\ call[t].op = "sev_launch_finish"
  /\ \/ NotFound(t, "MEASURED_MAP")
     \/ Remove(t, "MEASURED_MAP")
     \/ Err(t, "ioctl", finish_attestable(guest[Vm(t)]))
     \/ OkLauncher(t, "ioctl", finish_attestable(guest[Vm(t)])) /\ UNCHANGED meas
     \/ Insert(t, "FINISHED_MAP", 0) /\ UNCHANGED delivered

(* `if mnonce_len != 16 { return -1; }`, after the launcher was found. *)
BadNonce(t) ==
  /\ call[t].arg = "mnonce_len # 16"
  /\ pc[t] = "entry"
  /\ holder["FINISHED_MAP"] = NoThread
  /\ maps["FINISHED_MAP"][Fd(t)] # NoVM
  /\ Return(t, -1, 0, FALSE, NoErr)
  /\ UNCHANGED <<kernel, maps, call, calls, meas, delivered, reports>>

(* The value of the match on launcher.report() is discarded and the         *)
(* function ends in -1; the caller's buffer is never written, the report    *)
(* being copied to a new allocation that `bytes` alone points to.           *)
ReportOk(t) ==
  /\ pc[t] = "ioctl"
  /\ \E r \in report(guest[Vm(t)]) :
       /\ r.ok
       /\ reports' = [reports EXCEPT ![Vm(t)] = {measurement(r.g)}]
  /\ Return(t, -1, 0, TRUE, NoErr)
  /\ UNCHANGED <<kernel, maps, call, calls, meas, delivered>>

sev_attestation_report(t) ==
  /\ call[t].op = ReportOp
  /\ \/ NotFound(t, "FINISHED_MAP")
     \/ BadNonce(t)
     \/ call[t].arg = "mnonce_len = 16" /\ GetMut(t, "FINISHED_MAP")
     \/ Err(t, "ioctl", report(guest[Vm(t)]))
     \/ ReportOk(t)

Step(t) ==
  \/ sev_init(t) \/ sev_es_init(t) \/ sev_launch_start(t)
  \/ sev_launch_update_data(t) \/ sev_launch_update_vmsa(t)
  \/ sev_launch_measure(t) \/ sev_inject_launch_secret(t)
  \/ sev_launch_finish(t) \/ sev_attestation_report(t)

-----------------------------------------------------------------------------
(* The program using the library. *)

(* KVM_CREATE_VM: the lowest free descriptor may well be an old one. *)
CreateVm(fd) ==
  /\ vm[fd] = NoVM
  /\ \E v \in fresh : /\ vm' = [vm EXCEPT ![fd] = v]
                      /\ fresh' = fresh \ {v}
  /\ UNCHANGED <<guest, maps, holder, pc, call, hand, ret, calls, history>>

(* The VM is shut down.  No function tells the library so. *)
CloseVm(fd) ==
  /\ ReuseFds
  /\ vm[fd] # NoVM
  /\ \A t \in Threads : pc[t] # "idle" => Fd(t) # fd
  /\ vm' = [vm EXCEPT ![fd] = NoVM]
  /\ UNCHANGED <<guest, fresh, maps, holder, pc, call, hand, ret, calls, history>>

(* Any function, on any open VM, in any order, from any thread. *)
Call(t, op, fd, arg) ==
  /\ pc[t] = "idle"
  /\ calls < MaxCalls
  /\ vm[fd] # NoVM
  /\ pc' = [pc EXCEPT ![t] = "entry"]
  /\ call' = [call EXCEPT ![t] = [op |-> op, fd |-> fd, arg |-> arg]]
  /\ ret' = [ret EXCEPT ![t] = NoRet]
  /\ calls' = calls + 1
  /\ UNCHANGED <<kernel, maps, holder, hand, history>>

Next ==
  \/ \E fd \in Fds : CreateVm(fd) \/ CloseVm(fd)
  \/ \E t \in Threads, op \in Ops, fd \in Fds : \E arg \in Args(op) :
       Call(t, op, fd, arg)
  \/ \E t \in Threads : Step(t)

Spec == Init /\ [][Next]_vars

(* A thread inside the library keeps running unless it waits for a lock, *)
(* and the kernel finishes its ioctls.                                   *)
FairSpec == Spec /\ \A t \in Threads : WF_vars(Step(t))

-----------------------------------------------------------------------------
(* What holds whatever the callers do. *)

(* Launchers are moved, never copied: a VM's launcher is in one map, under  *)
(* one descriptor, or owned by one thread in the middle of a call, however  *)
(* calls on the same descriptor race and whatever fails.                    *)
UniqueLauncher ==
  /\ \A m, n \in MapNames, f, g \in Fds :
       maps[m][f] # NoVM /\ maps[m][f] = maps[n][g] => m = n /\ f = g
  /\ \A t, u \in Threads : hand[t] # NoVM /\ hand[t] = hand[u] => t = u
  /\ \A t \in Threads, m \in MapNames, f \in Fds :
       hand[t] # NoVM => maps[m][f] # hand[t]

(* The map a function locks to find its launcher, and the one it inserts in. *)
Source == [sev_launch_start |-> "INIT_MAP",
           sev_launch_update_data |-> "STARTED_MAP",
           sev_launch_update_vmsa |-> "STARTED_MAP",
           sev_launch_measure |-> "STARTED_MAP",
           sev_inject_launch_secret |-> "MEASURED_MAP",
           sev_launch_finish |-> "MEASURED_MAP",
           sev_attestation_report |-> "FINISHED_MAP"]
Dest == [sev_init |-> "INIT_MAP", sev_es_init |-> "INIT_MAP",
         sev_launch_start |-> "STARTED_MAP", sev_launch_measure |-> "MEASURED_MAP",
         sev_launch_finish |-> "FINISHED_MAP"]

(* A thread that cannot take its next step because of a lock. *)
Blocked(t) ==
  \/ pc[t] = "entry" /\ call[t].op \in DOMAIN Source /\ holder[Source[call[t].op]] # NoThread
  \/ pc[t] = "insert" /\ holder[Dest[call[t].op]] # NoThread

(* The functions nest two Mutexes: they never wait for each other in a      *)
(* circle.  Some thread inside the library can always go on.                *)
NoDeadlock ==
  (\E t \in Threads : pc[t] # "idle") =>
     \E t \in Threads : pc[t] # "idle" /\ ~Blocked(t)

(* Every call returns. *)
CallsReturn == \A t \in Threads : pc[t] = "entry" ~> pc[t] = "idle"

-----------------------------------------------------------------------------
(* What holds when no descriptor is reused (~ReuseFds). *)

(* The state a guest must be in for the methods of a map's launchers. *)
StateOf == [INIT_MAP |-> "init", STARTED_MAP |-> "update",
            MEASURED_MAP |-> "secret", FINISHED_MAP |-> "running"]

(* "The right steps are called in the right order": when a thread is about  *)
(* to issue a launch ioctl, the VM is in the state that ioctl needs, and no *)
(* other thread's call can have moved it on since the launcher was found.   *)
IoctlInOrder ==
  \A t \in Threads :
    pc[t] = "ioctl" => guest[Vm(t)].state = StateOf[Source[call[t].op]]

(* A secret is injected only in a guest whose measurement the caller has    *)
(* been given, and it is the measurement of all that guest's memory.        *)
SecretAfterDelivery ==
  \A v \in VMs : guest[v].secrets # {} => delivered[v] = {guest[v].mem}

(* "Functions generally return 0 on success and -1 on failure", for all of  *)
(* them but sev_attestation_report.                                         *)
RetTruthful ==
  \A t \in Threads :
    pc[t] = "idle" /\ call[t].op # ReportOp => (ret[t].val = 0) = ret[t].ok

(* A launch that can no longer go on, because its launcher is gone, is one  *)
(* of which a caller was told: no call that returned 0 lost the launcher.   *)
OrphanReported ==
  \A fd \in Fds :
    LET v == vm[fd]
    IN  /\ v # NoVM
        /\ guest[v].state # "none"
        /\ \A m \in MapNames : maps[m][fd] # v
        /\ \A t \in Threads : hand[t] # v
        => v \in reported

(* The type of a VM's launcher, wherever the library keeps it. *)
TypeOf == [INIT_MAP |-> "New", STARTED_MAP |-> "Started",
           MEASURED_MAP |-> "Measured", FINISHED_MAP |-> "Finished"]

Phase ==
  [v \in VMs |->
     CASE \E m \in MapNames, fd \in Fds : maps[m][fd] = v ->
            TypeOf[CHOOSE m \in MapNames : \E fd \in Fds : maps[m][fd] = v]
       [] \E t \in Threads : hand[t] = v ->
            LET t == CHOOSE u \in Threads : hand[u] = v
            IN  TypeOf[IF pc[t] = "insert" THEN Dest[call[t].op] ELSE Source[call[t].op]]
       [] OTHER -> IF guest[v].state = "none" THEN "None" ELSE "Gone"]

Launcher == INSTANCE SevLauncher WITH phase <- Phase, MaxContent <- MaxCalls

(* Through the C API every VM goes through a launch of the Rust API: racing *)
(* calls, lost launchers and failed inserts included, each step is a method *)
(* the type system allows on the launcher the VM has then, or no step.      *)
ImplementsLauncher == Launcher!Spec
-----------------------------------------------------------------------------
(* What docs/sev.rst says and the code does not do. *)

(* "Functions generally return 0 on success and -1 on failure", of          *)
(* sev_attestation_report.                                                  *)
ReportReturnsZero ==
  \A t \in Threads :
    pc[t] = "idle" /\ call[t].op = ReportOp => (ret[t].val = 0) = ret[t].ok

(* "With a failure, fw_err will be set to a SEV firmware-specific error (if *)
(* applicable)": if the firmware gave a code, it is that code.              *)
FwErrIsFirmwareCode ==
  \A t \in Threads :
    /\ pc[t] = "idle"
    /\ ~ret[t].ok
    /\ ret[t].e.kind = "Other"
    /\ ret[t].e.inner \in KnownCodes
    => ret[t].fw_err = ret[t].e.inner

=============================================================================
