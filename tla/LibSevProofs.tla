---------------------------- MODULE LibSevProofs ----------------------------
(***************************************************************************)
(* Theorems about the C API, for any number of threads, descriptors, VMs    *)
(* and calls, the last of them that it implements the Rust API.             *)
(***************************************************************************)
EXTENDS LibSev, SevLaunchProofs, FiniteSetTheorems

(* A call in progress is a call of a function on an open descriptor. *)
CallOK ==
  \A t \in Threads :
    pc[t] # "idle" => /\ call[t].op \in Ops
                      /\ call[t].arg \in Args(call[t].op)
                      /\ vm[Fd(t)] # NoVM

(* The functions that take the launcher out of its map to call its method. *)
RemoveOps == {"sev_launch_start", "sev_launch_measure", "sev_launch_finish"}

(* Which functions own a launcher outside the maps, and when. *)
HandOK ==
  \A t \in Threads :
    /\ pc[t] \in {"idle", "entry"} => hand[t] = NoVM
    /\ pc[t] = "ioctl" => (hand[t] # NoVM <=> call[t].op \in RemoveOps)
    /\ pc[t] = "insert" => hand[t] # NoVM /\ call[t].op \in DOMAIN Dest

(* A VM has no launcher before KVM has made it an SEV guest. *)
NoneOK ==
  \A v \in VMs :
    guest[v].state = "none" =>
      /\ \A m \in MapNames, fd \in Fds : maps[m][fd] # v
      /\ \A t \in Threads : hand[t] # v

(* A lock is held by a thread past its lookup, and it is the lock of the    *)
(* map that its function looks launchers up in.                             *)
LockOK ==
  /\ \A m \in MapNames :
       holder[m] # NoThread =>
         /\ pc[holder[m]] \in {"ioctl", "insert"}
         /\ call[holder[m]].op \in DOMAIN Source
         /\ Source[call[holder[m]].op] = m
  /\ \A t \in Threads :
       pc[t] = "ioctl" => /\ call[t].op \in DOMAIN Source
                          /\ holder[Source[call[t].op]] = t

Inv == TypeOK /\ CallOK /\ HandOK /\ NoneOK /\ LockOK /\ UniqueLauncher

-----------------------------------------------------------------------------
(* The invariant holds before the first call. *)
LEMMA InitInv == Init => Inv
<1> SUFFICES ASSUME Init PROVE Inv
  OBVIOUS
<1>1. NewGuest \in Guest /\ NewGuest.state = "none"
  BY DEF NewGuest, Guest, GuestStates
<1>2. NoCall \in [op : Ops \cup {"-"}, fd : Fds, arg : AllArgs]
  BY FdsAssumption DEF NoCall, AllArgs
<1>3. NoRet \in Ret
  BY DEF NoRet, Ret, NoErr, Os, IoError, Indeterminate, IoErr
<1>4. TypeOK
  BY <1>1, <1>2, <1>3, MaxCallsAssumption DEF Init, TypeOK
<1>5. CallOK /\ HandOK /\ NoneOK /\ LockOK /\ UniqueLauncher
  BY NoVMAssumption DEF Init, CallOK, HandOK, NoneOK, LockOK, UniqueLauncher
<1> QED
  BY <1>4, <1>5 DEF Inv

-----------------------------------------------------------------------------
(* The steps of the program around the library. *)

(* The invariant survives the creation of a VM. *)
LEMMA CreateVmInv ==
  ASSUME Inv, NEW fd \in Fds, CreateVm(fd) PROVE Inv'
<1> USE DEF Inv
<1>1. PICK v \in fresh : vm' = [vm EXCEPT ![fd] = v] /\ fresh' = fresh \ {v}
  BY DEF CreateVm
<1>2. UNCHANGED <<guest, maps, holder, pc, call, hand, ret, calls, history>>
  BY DEF CreateVm
<1>3. TypeOK'
  BY <1>1, <1>2 DEF TypeOK, history
<1>4. CallOK'
  BY <1>1, <1>2, NoVMAssumption DEF CallOK, TypeOK, Fd
<1>5. HandOK' /\ NoneOK' /\ LockOK' /\ UniqueLauncher'
  BY <1>2 DEF HandOK, NoneOK, LockOK, UniqueLauncher
<1> QED
  BY <1>3, <1>4, <1>5

(* The invariant survives the closing of a descriptor nobody is calling on. *)
LEMMA CloseVmInv ==
  ASSUME Inv, NEW fd \in Fds, CloseVm(fd) PROVE Inv'
<1> USE DEF Inv
<1>1. vm' = [vm EXCEPT ![fd] = NoVM] /\ \A t \in Threads : pc[t] # "idle" => Fd(t) # fd
  BY DEF CloseVm
<1>2. UNCHANGED <<guest, fresh, maps, holder, pc, call, hand, ret, calls, history>>
  BY DEF CloseVm
<1>3. TypeOK'
  BY <1>1, <1>2 DEF TypeOK, history
<1>4. CallOK'
  BY <1>1, <1>2 DEF CallOK, TypeOK, Fd
<1>5. HandOK' /\ NoneOK' /\ LockOK' /\ UniqueLauncher'
  BY <1>2 DEF HandOK, NoneOK, LockOK, UniqueLauncher
<1> QED
  BY <1>3, <1>4, <1>5

(* The arguments of every function are arguments. *)
LEMMA ArgsType == ASSUME NEW op PROVE Args(op) \subseteq AllArgs
  BY DEF Args, AllArgs

(* The return value before the first call is a return value. *)
LEMMA NoRetType == NoRet \in Ret
  BY DEF NoRet, Ret, NoErr, Os, IoError, Indeterminate, IoErr

(* The invariant survives a call. *)
LEMMA CallInv ==
  ASSUME Inv, NEW t \in Threads, NEW op \in Ops, NEW fd \in Fds, NEW arg \in Args(op),
         Call(t, op, fd, arg)
  PROVE  Inv'
<1> USE DEF Inv
<1> DEFINE c == [op |-> op, fd |-> fd, arg |-> arg]
<1>1. c \in [op : Ops \cup {"-"}, fd : Fds, arg : AllArgs]
      /\ c.op = op /\ c.fd = fd /\ c.arg = arg
  BY ArgsType
<1>2. /\ pc[t] = "idle" /\ calls < MaxCalls /\ vm[fd] # NoVM
      /\ pc' = [pc EXCEPT ![t] = "entry"]
      /\ call' = [call EXCEPT ![t] = c]
      /\ ret' = [ret EXCEPT ![t] = NoRet]
      /\ calls' = calls + 1
      /\ UNCHANGED <<guest, vm, fresh, maps, holder, hand, meas, delivered, reports, reported>>
  BY DEF Call, kernel, history
<1> HIDE DEF c
<1>3. TypeOK'
  BY <1>1, <1>2, NoRetType, MaxCallsAssumption DEF TypeOK
<1>4. CallOK'
  BY <1>1, <1>2 DEF CallOK, TypeOK, Fd
<1>5. HandOK' /\ NoneOK' /\ UniqueLauncher'
  BY <1>2 DEF HandOK, NoneOK, UniqueLauncher, TypeOK
<1>6. LockOK'
  BY <1>2, NoThreadAssumption DEF LockOK, TypeOK
<1> QED
  BY <1>3, <1>4, <1>5, <1>6
-----------------------------------------------------------------------------
(* The steps of the library. *)

(* The part of TypeOK that the methods and the maps touch. *)
StoreOK ==
  /\ guest \in [VMs -> Guest]
  /\ maps \in [MapNames -> [Fds -> VMs \cup {NoVM}]]
  /\ meas \in [VMs -> SUBSET Seq(Content)]
  /\ delivered \in [VMs -> SUBSET Seq(Content)]
  /\ reports \in [VMs -> SUBSET Seq(Content)]

(* A function returns: its locks are free again, and what launcher it owned *)
(* is dropped, or has just been inserted under its descriptor.              *)
LEMMA ReturnInv ==
  ASSUME Inv, NEW t \in Threads, pc[t] # "idle",
         NEW val \in {0, -1}, NEW fw_err \in Int, NEW ok \in BOOLEAN, NEW e \in IoError,
         Return(t, val, fw_err, ok, e),
         UNCHANGED <<vm, fresh, call, calls>>,
         StoreOK',
         \A v \in VMs : guest'[v].state = "none" => guest[v].state = "none",
         NEW m \in MapNames,
         \A n \in MapNames, f \in Fds :
           maps'[n][f] # maps[n][f] => n = m /\ f = Fd(t) /\ maps'[n][f] = hand[t]
  PROVE  Inv'
<1> USE DEF Inv
<1> DEFINE r == [val |-> val, fw_err |-> fw_err, ok |-> ok, e |-> e]
<1>1. r \in Ret
  BY DEF Ret
<1>2. /\ pc' = [pc EXCEPT ![t] = "idle"]
      /\ ret' = [ret EXCEPT ![t] = r]
      /\ holder' = [n \in MapNames |-> IF holder[n] = t THEN NoThread ELSE holder[n]]
      /\ hand' = [hand EXCEPT ![t] = NoVM]
      /\ reported' \subseteq reported \cup {Vm(t)}
  BY DEF Return
<1> HIDE DEF r
<1>3. Vm(t) \in VMs
  BY DEF CallOK, TypeOK, Vm, Fd
<1>4. TypeOK'
  BY <1>1, <1>2, <1>3 DEF TypeOK, StoreOK
<1>5. CallOK'
  BY <1>2 DEF CallOK, TypeOK, Fd
<1>6. HandOK'
  BY <1>2 DEF HandOK, TypeOK
<1>7. NoneOK'
  BY <1>2, NoVMAssumption DEF NoneOK, TypeOK
<1>8. LockOK'
  <2>1. \A n \in MapNames :
          holder'[n] # NoThread => /\ holder'[n] = holder[n] /\ holder[n] # t
                                   /\ holder[n] \in Threads
    BY <1>2 DEF TypeOK
  <2>2. \A u \in Threads : u # t => pc'[u] = pc[u]
    BY <1>2 DEF TypeOK
  <2>3. \A op \in DOMAIN Source : Source[op] \in MapNames
    BY DEF Source, MapNames
  <2>4. \A u \in Threads : pc'[u] = "ioctl" =>
          /\ call[u].op \in DOMAIN Source
          /\ holder'[Source[call[u].op]] = u
    BY <1>2, <2>2, <2>3 DEF LockOK, TypeOK
  <2> QED
    BY <2>1, <2>2, <2>4 DEF LockOK
<1>9. UniqueLauncher'
  <2>1. \A n, k \in MapNames, f, g \in Fds :
          maps'[n][f] # NoVM /\ maps'[n][f] = maps'[k][g] => n = k /\ f = g
    BY DEF UniqueLauncher
  <2>2. \A u, w \in Threads : hand'[u] # NoVM /\ hand'[u] = hand'[w] => u = w
    BY <1>2 DEF UniqueLauncher, TypeOK
  <2>3. \A u \in Threads, n \in MapNames, f \in Fds :
          hand'[u] # NoVM => maps'[n][f] # hand'[u]
    BY <1>2 DEF UniqueLauncher, TypeOK
  <2> QED
    BY <2>1, <2>2, <2>3 DEF UniqueLauncher
<1> QED
  BY <1>4, <1>5, <1>6, <1>7, <1>8, <1>9

(* The error of a call that succeeded is an io::Error. *)
LEMMA NoErrType == NoErr \in IoError
  BY DEF NoErr, Os, IoError, Indeterminate, IoErr

(* A function returns with the maps as they were. *)
LEMMA LeaveInv ==
  ASSUME Inv, NEW t \in Threads, pc[t] # "idle",
         NEW val \in {0, -1}, NEW fw_err \in Int, NEW ok \in BOOLEAN, NEW e \in IoError,
         Return(t, val, fw_err, ok, e),
         UNCHANGED <<vm, fresh, maps, call, calls, meas, delivered>>,
         NEW h \in Guest, h.state = "none" => guest[Vm(t)].state = "none",
         guest' = [guest EXCEPT ![Vm(t)] = h],
         reports' \in [VMs -> SUBSET Seq(Content)]
  PROVE  Inv'
<1>1. StoreOK'
  BY DEF Inv, TypeOK, StoreOK
<1>2. \A v \in VMs : guest'[v].state = "none" => guest[v].state = "none"
  BY DEF Inv, TypeOK
<1>3. "INIT_MAP" \in MapNames
  BY DEF MapNames
<1>4. \A n \in MapNames, f \in Fds :
        maps'[n][f] # maps[n][f] =>
          n = "INIT_MAP" /\ f = Fd(t) /\ maps'[n][f] = hand[t]
  OBVIOUS
<1>5. UNCHANGED <<vm, fresh, call, calls>>
  OBVIOUS
<1> QED
  BY <1>1, <1>2, <1>3, <1>4, <1>5, ReturnInv, SMTT(30)

(* The VM a thread calls the library on. *)
LEMMA VmType ==
  ASSUME Inv, NEW t \in Threads, pc[t] # "idle"
  PROVE  Vm(t) \in VMs /\ guest[Vm(t)] \in Guest
  BY DEF Inv, TypeOK, CallOK, Vm, Fd

(* Nothing happened: -1 from a lookup, or from a check of the arguments. *)
LEMMA NothingInv ==
  ASSUME Inv, NEW t \in Threads, pc[t] # "idle", Return(t, -1, 0, FALSE, NoErr),
         UNCHANGED <<guest, vm, fresh, maps, call, calls, meas, delivered, reports>>
  PROVE  Inv'
<1>1. guest' = [guest EXCEPT ![Vm(t)] = guest[Vm(t)]]
  BY VmType DEF Inv, TypeOK
<1>2. reports' \in [VMs -> SUBSET Seq(Content)]
  BY DEF Inv, TypeOK
<1>3. -1 \in {0, -1} /\ 0 \in Int /\ FALSE \in BOOLEAN
  OBVIOUS
<1>4. UNCHANGED <<vm, fresh, maps, call, calls, meas, delivered>>
  OBVIOUS
<1> QED
  BY <1>1, <1>2, <1>3, <1>4, VmType, NoErrType, LeaveInv, Zenon

(* The invariant survives `None => return -1`. *)
LEMMA NotFoundInv ==
  ASSUME Inv, NEW t \in Threads, NEW m \in MapNames, NotFound(t, m)
  PROVE  Inv'
  BY NothingInv DEF NotFound, kernel

(* The invariant survives -1 for a nonce of the wrong length. *)
LEMMA BadNonceInv ==
  ASSUME Inv, NEW t \in Threads, BadNonce(t)
  PROVE  Inv'
  BY NothingInv DEF BadNonce, kernel

(* The invariant survives map.remove(): the launcher goes to the hand. *)
LEMMA RemoveInv ==
  ASSUME Inv, NEW t \in Threads, NEW m \in MapNames,
         call[t].op \in RemoveOps, m = Source[call[t].op], Remove(t, m)
  PROVE  Inv'
<1> USE DEF Inv
<1>1. /\ pc[t] = "entry" /\ holder[m] = NoThread /\ maps[m][Fd(t)] # NoVM
      /\ pc' = [pc EXCEPT ![t] = "ioctl"]
      /\ holder' = [holder EXCEPT ![m] = t]
      /\ hand' = [hand EXCEPT ![t] = maps[m][Fd(t)]]
      /\ UNCHANGED <<guest, vm, fresh, call, ret, calls, meas, delivered, reports, reported>>
  BY DEF Remove, kernel, history
<1>2. Fd(t) \in Fds
  BY DEF TypeOK, Fd
<1>3. \A n \in MapNames, f \in Fds :
        maps'[n][f] = IF n = m /\ f = Fd(t) THEN NoVM ELSE maps[n][f]
  BY <1>2 DEF Remove, TypeOK
<1>4. TypeOK'
  <2>1. maps' \in [MapNames -> [Fds -> VMs \cup {NoVM}]]
    BY <1>2 DEF Remove, TypeOK
  <2>2. maps[m][Fd(t)] \in VMs \cup {NoVM}
    BY <1>2 DEF TypeOK
  <2> QED
    BY <1>1, <2>1, <2>2 DEF TypeOK
<1>5. CallOK'
  BY <1>1 DEF CallOK, TypeOK, Fd
<1>6. HandOK'
  BY <1>1 DEF HandOK, TypeOK
<1>7. NoneOK'
  <2> SUFFICES ASSUME NEW v \in VMs, guest'[v].state = "none"
               PROVE  /\ \A n \in MapNames, f \in Fds : maps'[n][f] # v
                      /\ \A u \in Threads : hand'[u] # v
    BY DEF NoneOK
  <2>1. /\ \A n \in MapNames, f \in Fds : maps[n][f] # v
        /\ \A u \in Threads : hand[u] # v
    BY <1>1 DEF NoneOK
  <2>2. \A n \in MapNames, f \in Fds : maps'[n][f] # v
    BY <1>3, <2>1, NoVMAssumption
  <2>3. \A u \in Threads : hand'[u] # v
    BY <1>1, <1>2, <2>1 DEF TypeOK
  <2> QED
    BY <2>2, <2>3
<1>8. LockOK'
  <2>1. call[t].op \in DOMAIN Source
    BY DEF RemoveOps, Source
  <2> QED
    BY <1>1, <2>1, NoThreadAssumption DEF LockOK, TypeOK
<1>9. UniqueLauncher'
  BY <1>1, <1>2, <1>3 DEF UniqueLauncher, TypeOK
<1> QED
  BY <1>4, <1>5, <1>6, <1>7, <1>8, <1>9

(* The invariant survives map.get_mut(): the launcher stays in the map. *)
LEMMA GetMutInv ==
  ASSUME Inv, NEW t \in Threads, NEW m \in MapNames,
         call[t].op \in DOMAIN Source \ RemoveOps, m = Source[call[t].op], GetMut(t, m)
  PROVE  Inv'
<1> USE DEF Inv
<1>1. /\ pc[t] = "entry" /\ holder[m] = NoThread
      /\ pc' = [pc EXCEPT ![t] = "ioctl"]
      /\ holder' = [holder EXCEPT ![m] = t]
      /\ UNCHANGED <<guest, vm, fresh, maps, call, hand, ret, calls,
                     meas, delivered, reports, reported>>
  BY DEF GetMut, kernel, history
<1>2. TypeOK'
  BY <1>1 DEF TypeOK
<1>3. CallOK'
  BY <1>1 DEF CallOK, TypeOK, Fd
<1>4. HandOK'
  BY <1>1 DEF HandOK, TypeOK
<1>5. NoneOK' /\ UniqueLauncher'
  BY <1>1 DEF NoneOK, UniqueLauncher
<1>6. LockOK'
  BY <1>1, NoThreadAssumption DEF LockOK, TypeOK
<1> QED
  BY <1>2, <1>3, <1>4, <1>5, <1>6

(* What set_fw_err writes is a C int. *)
LEMMA FwErrType == ASSUME NEW e PROVE set_fw_err(e) \in Int
  BY DEF set_fw_err, ToCInt, FromIo, IoErr, KnownCodes

(* The invariant survives a method that fails. *)
LEMMA ErrInv ==
  ASSUME Inv, NEW t \in Threads, NEW at, at # "idle", NEW outcomes, NEW from, NEW to,
         Moves(outcomes, guest[Vm(t)], from, to), Err(t, at, outcomes)
  PROVE  Inv'
<1>1. PICK r \in outcomes : /\ ~r.ok
                            /\ guest' = [guest EXCEPT ![Vm(t)] = r.g]
                            /\ Return(t, -1, set_fw_err(r.e), FALSE, r.e)
  BY DEF Err
<1>2. r.g \in Guest /\ r.e \in IoError /\ r.g.state = guest[Vm(t)].state
  BY <1>1 DEF Moves, Outcome
<1>3. /\ pc[t] # "idle"
      /\ UNCHANGED <<vm, fresh, maps, call, calls, meas, delivered>>
      /\ reports' = reports
  BY DEF Err
<1>4. reports' \in [VMs -> SUBSET Seq(Content)]
  BY <1>3 DEF Inv, TypeOK
<1>5. -1 \in {0, -1} /\ set_fw_err(r.e) \in Int /\ FALSE \in BOOLEAN
  BY FwErrType
<1>6. r.g.state = "none" => guest[Vm(t)].state = "none"
  BY <1>2
<1> QED
  BY <1>1, <1>2, <1>3, <1>4, <1>5, <1>6, LeaveInv, Zenon

(* The invariant survives a method that succeeds on a borrowed launcher. *)
LEMMA OkInv ==
  ASSUME Inv, NEW t \in Threads, NEW outcomes, NEW from, NEW to, to # "none",
         Moves(outcomes, guest[Vm(t)], from, to), Ok(t, outcomes)
  PROVE  Inv'
<1>1. PICK r \in outcomes : r.ok /\ guest' = [guest EXCEPT ![Vm(t)] = r.g]
  BY DEF Ok
<1>2. r.g \in Guest /\ r.g.state # "none"
  BY <1>1 DEF Moves, Outcome
<1>3. /\ pc[t] # "idle"
      /\ Return(t, 0, 0, TRUE, NoErr)
      /\ UNCHANGED <<vm, fresh, maps, call, calls, meas, delivered>>
      /\ reports' = reports
  BY DEF Ok
<1>4. reports' \in [VMs -> SUBSET Seq(Content)]
  BY <1>3 DEF Inv, TypeOK
<1>5. 0 \in {0, -1} /\ 0 \in Int /\ TRUE \in BOOLEAN
  OBVIOUS
<1>6. r.g.state = "none" => guest[Vm(t)].state = "none"
  BY <1>2
<1> QED
  BY <1>1, <1>2, <1>3, <1>4, <1>5, <1>6, NoErrType, LeaveInv, Zenon

(* The invariant survives a report. *)
LEMMA ReportOkInv ==
  ASSUME Inv, NEW t \in Threads, ReportOk(t)
  PROVE  Inv'
<1>1. /\ pc[t] # "idle"
      /\ Return(t, -1, 0, TRUE, NoErr)
      /\ UNCHANGED <<vm, fresh, maps, call, calls, meas, delivered>>
      /\ guest' = guest
  BY DEF ReportOk, kernel
<1>2. guest' = [guest EXCEPT ![Vm(t)] = guest[Vm(t)]]
  BY <1>1, VmType DEF Inv, TypeOK
<1>3. reports' \in [VMs -> SUBSET Seq(Content)]
  <2>1. PICK r \in report(guest[Vm(t)]) :
          reports' = [reports EXCEPT ![Vm(t)] = {measurement(r.g)}]
    BY DEF ReportOk
  <2>2. r.g = guest[Vm(t)]
    BY <1>1, VmType, ReportMoves
  <2>3. measurement(r.g) \in Seq(Content)
    BY <1>1, <2>2, VmType DEF measurement, Guest
  <2> QED
    BY <2>1, <2>3 DEF Inv, TypeOK
<1>4. -1 \in {0, -1} /\ 0 \in Int /\ TRUE \in BOOLEAN
  OBVIOUS
<1> QED
  BY <1>1, <1>2, <1>3, <1>4, VmType, NoErrType, LeaveInv, Zenon

(* A method yields a launcher: a new one only for a VM that had none. *)
LEMMA OkLauncherInv ==
  ASSUME Inv, NEW t \in Threads, NEW at \in {"entry", "ioctl"}, NEW outcomes,
         NEW from, NEW to, to # "none", at = "entry" => from = "none",
         call[t].op \in DOMAIN Dest,
         at = "ioctl" => hand[t] # NoVM,
         Moves(outcomes, guest[Vm(t)], from, to), OkLauncher(t, at, outcomes),
         meas' \in [VMs -> SUBSET Seq(Content)]
  PROVE  Inv'
<1> USE DEF Inv
<1>1. PICK r \in outcomes : r.ok /\ guest' = [guest EXCEPT ![Vm(t)] = r.g]
  BY DEF OkLauncher
<1>2. r.g \in Guest /\ r.g.state = to /\ guest[Vm(t)].state = from
  BY <1>1 DEF Moves, Outcome
<1>3. /\ pc[t] = at
      /\ pc' = [pc EXCEPT ![t] = "insert"]
      /\ hand' = [hand EXCEPT ![t] = IF at = "entry" THEN Vm(t) ELSE hand[t]]
      /\ UNCHANGED <<vm, fresh, maps, holder, call, ret, calls, delivered,
                     reports, reported>>
  BY DEF OkLauncher
<1>4. Vm(t) \in VMs
  BY <1>3, VmType
<1>5. TypeOK'
  BY <1>1, <1>2, <1>3, <1>4 DEF TypeOK
<1>6. CallOK'
  BY <1>3 DEF CallOK, TypeOK, Fd
<1>7. HandOK'
  BY <1>3, <1>4, NoVMAssumption DEF HandOK, TypeOK
<1>8. NoneOK'
  BY <1>1, <1>2, <1>3, <1>4 DEF NoneOK, TypeOK
<1>9. LockOK'
  BY <1>3, NoThreadAssumption DEF LockOK, TypeOK
<1>10. UniqueLauncher'
  <2>1. CASE at = "entry"
    <3>1. guest[Vm(t)].state = "none"
      BY <1>2, <2>1
    <3>2. /\ \A n \in MapNames, f \in Fds : maps[n][f] # Vm(t)
          /\ \A u \in Threads : hand[u] # Vm(t)
      BY <1>4, <3>1 DEF NoneOK
    <3> QED
      BY <1>3, <2>1, <3>2 DEF UniqueLauncher, TypeOK
  <2>2. CASE at = "ioctl"
    <3>1. hand' = hand /\ maps' = maps
      BY <1>3, <2>2 DEF TypeOK
    <3> QED
      BY <3>1 DEF UniqueLauncher
  <2> QED
    BY <2>1, <2>2
<1> QED
  BY <1>5, <1>6, <1>7, <1>8, <1>9, <1>10

(* The invariant survives map.insert(): the launcher leaves the hand. *)
LEMMA InsertInv ==
  ASSUME Inv, NEW t \in Threads, NEW m \in MapNames, NEW val \in {0, -1},
         Insert(t, m, val), delivered' \in [VMs -> SUBSET Seq(Content)]
  PROVE  Inv'
<1>1. /\ pc[t] # "idle"
      /\ Return(t, val, 0, TRUE, NoErr)
      /\ maps' = [maps EXCEPT ![m][Fd(t)] = hand[t]]
      /\ UNCHANGED <<vm, fresh, call, calls>>
      /\ UNCHANGED <<guest, meas, reports>>
  BY DEF Insert, kernel
<1>2. Fd(t) \in Fds /\ hand[t] \in VMs \cup {NoVM}
  BY DEF Inv, TypeOK, Fd
<1>3. StoreOK'
  BY <1>1, <1>2 DEF Inv, TypeOK, StoreOK
<1>4. \A n \in MapNames, f \in Fds :
        maps'[n][f] # maps[n][f] => n = m /\ f = Fd(t) /\ maps'[n][f] = hand[t]
  BY <1>1, <1>2 DEF Inv, TypeOK
<1>5. \A v \in VMs : guest'[v].state = "none" => guest[v].state = "none"
  BY <1>1
<1>6. 0 \in Int /\ TRUE \in BOOLEAN
  OBVIOUS
<1> QED
  BY <1>1, <1>3, <1>4, <1>5, <1>6, NoErrType, ReturnInv, Zenon
-----------------------------------------------------------------------------
(* The functions: what each one's lookup, method and insert are. *)

(* The maps that the functions look up in and insert in are maps. *)
LEMMA NamesLemma ==
  /\ MapNames = {"INIT_MAP", "STARTED_MAP", "MEASURED_MAP", "FINISHED_MAP"}
  /\ DOMAIN Dest = {"sev_init", "sev_es_init", "sev_launch_start",
                    "sev_launch_measure", "sev_launch_finish"}
  /\ DOMAIN Source = Ops \ {"sev_init", "sev_es_init"}
  /\ Source["sev_launch_start"] = "INIT_MAP"
  /\ Source["sev_launch_update_data"] = "STARTED_MAP"
  /\ Source["sev_launch_update_vmsa"] = "STARTED_MAP"
  /\ Source["sev_launch_measure"] = "STARTED_MAP"
  /\ Source["sev_inject_launch_secret"] = "MEASURED_MAP"
  /\ Source["sev_launch_finish"] = "MEASURED_MAP"
  /\ Source["sev_attestation_report"] = "FINISHED_MAP"
  /\ Dest["sev_init"] = "INIT_MAP"
  /\ Dest["sev_es_init"] = "INIT_MAP"
  /\ Dest["sev_launch_start"] = "STARTED_MAP"
  /\ Dest["sev_launch_measure"] = "MEASURED_MAP"
  /\ Dest["sev_launch_finish"] = "FINISHED_MAP"
  BY DEF MapNames, Dest, Source, Ops, DataOps, ReportOp

(* The invariant survives every step of sev_init. *)
LEMMA sev_init_Inv ==
  ASSUME Inv, NEW t \in Threads, sev_init(t) PROVE Inv'
<1> DEFINE g == guest[Vm(t)]
<1>1. CASE Err(t, "entry", new(g))
  <2>1. Moves(new(g), g, "none", "init")
    BY <1>1, VmType, NewMoves DEF Err
  <2> QED
    BY <1>1, <2>1, ErrInv
<1>2. CASE OkLauncher(t, "entry", new(g)) /\ UNCHANGED meas
  <2>1. Moves(new(g), g, "none", "init")
    BY <1>2, VmType, NewMoves DEF OkLauncher
  <2>2. call[t].op \in DOMAIN Dest /\ meas' \in [VMs -> SUBSET Seq(Content)]
    BY <1>2, NamesLemma DEF sev_init, Inv, TypeOK
  <2> QED
    BY <1>2, <2>1, <2>2, OkLauncherInv
<1>3. CASE Insert(t, "INIT_MAP", 0) /\ UNCHANGED delivered
  <2>1. delivered' \in [VMs -> SUBSET Seq(Content)]
    BY <1>3 DEF Inv, TypeOK
  <2> QED
    BY <1>3, <2>1, NamesLemma, InsertInv
<1> QED
  BY <1>1, <1>2, <1>3 DEF sev_init

(* The invariant survives every step of sev_es_init. *)
LEMMA sev_es_init_Inv ==
  ASSUME Inv, NEW t \in Threads, sev_es_init(t) PROVE Inv'
<1> DEFINE g == guest[Vm(t)]
<1>1. CASE Err(t, "entry", new_es(g))
  <2>1. Moves(new_es(g), g, "none", "init")
    BY <1>1, VmType, NewMoves DEF Err
  <2> QED
    BY <1>1, <2>1, ErrInv
<1>2. CASE OkLauncher(t, "entry", new_es(g)) /\ UNCHANGED meas
  <2>1. Moves(new_es(g), g, "none", "init")
    BY <1>2, VmType, NewMoves DEF OkLauncher
  <2>2. call[t].op \in DOMAIN Dest /\ meas' \in [VMs -> SUBSET Seq(Content)]
    BY <1>2, NamesLemma DEF sev_es_init, Inv, TypeOK
  <2> QED
    BY <1>2, <2>1, <2>2, OkLauncherInv
<1>3. CASE Insert(t, "INIT_MAP", 0) /\ UNCHANGED delivered
  <2>1. delivered' \in [VMs -> SUBSET Seq(Content)]
    BY <1>3 DEF Inv, TypeOK
  <2> QED
    BY <1>3, <2>1, NamesLemma, InsertInv
<1> QED
  BY <1>1, <1>2, <1>3 DEF sev_es_init

(* The invariant survives every step of sev_launch_start. *)
LEMMA sev_launch_start_Inv ==
  ASSUME Inv, NEW t \in Threads, sev_launch_start(t) PROVE Inv'
<1> DEFINE g == guest[Vm(t)]
<1> DEFINE val == IF maps["STARTED_MAP"][Fd(t)] = NoVM THEN 0 ELSE -1
<1>1. CASE NotFound(t, "INIT_MAP")
  BY <1>1, NamesLemma, NotFoundInv
<1>2. CASE Remove(t, "INIT_MAP")
  BY <1>2, NamesLemma, RemoveInv DEF sev_launch_start, RemoveOps
<1>3. CASE Err(t, "ioctl", start(g))
  <2>1. Moves(start(g), g, "init", "update")
    BY <1>3, VmType, StartMoves DEF Err
  <2> QED
    BY <1>3, <2>1, ErrInv
<1>4. CASE OkLauncher(t, "ioctl", start(g)) /\ UNCHANGED meas
  <2>1. Moves(start(g), g, "init", "update")
    BY <1>4, VmType, StartMoves DEF OkLauncher
  <2>2. meas' \in [VMs -> SUBSET Seq(Content)]
    BY <1>4 DEF Inv, TypeOK
  <2>3. call[t].op \in DOMAIN Dest /\ hand[t] # NoVM
    BY <1>4, NamesLemma DEF sev_launch_start, OkLauncher, Inv, HandOK, RemoveOps
  <2> QED
    BY <1>4, <2>1, <2>2, <2>3, OkLauncherInv
<1>5. CASE Insert(t, "STARTED_MAP", val) /\ UNCHANGED delivered
  <2>1. delivered' \in [VMs -> SUBSET Seq(Content)]
    BY <1>5 DEF Inv, TypeOK
  <2> QED
    BY <1>5, <2>1, NamesLemma, InsertInv
<1> QED
  BY <1>1, <1>2, <1>3, <1>4, <1>5 DEF sev_launch_start

(* The invariant survives every step of sev_launch_update_data. *)
LEMMA sev_launch_update_data_Inv ==
  ASSUME Inv, NEW t \in Threads, sev_launch_update_data(t) PROVE Inv'
<1> DEFINE g == guest[Vm(t)]
<1>0. pc[t] # "idle" => call[t].arg \in Data
  BY DEF sev_launch_update_data, Inv, CallOK, Args, DataOps
<1>1. CASE NotFound(t, "STARTED_MAP")
  BY <1>1, NamesLemma, NotFoundInv
<1>2. CASE GetMut(t, "STARTED_MAP")
  BY <1>2, NamesLemma, GetMutInv DEF sev_launch_update_data, Ops, DataOps, RemoveOps
<1>3. CASE Err(t, "ioctl", update_data(g, call[t].arg))
  <2>1. Moves(update_data(g, call[t].arg), g, "update", "update")
    BY <1>3, <1>0, VmType, UpdateDataMoves DEF Err
  <2> QED
    BY <1>3, <2>1, ErrInv
<1>4. CASE Ok(t, update_data(g, call[t].arg))
  <2>1. Moves(update_data(g, call[t].arg), g, "update", "update")
    BY <1>4, <1>0, VmType, UpdateDataMoves DEF Ok
  <2> QED
    BY <1>4, <2>1, OkInv
<1> QED
  BY <1>1, <1>2, <1>3, <1>4 DEF sev_launch_update_data

(* The invariant survives every step of sev_launch_update_vmsa. *)
LEMMA sev_launch_update_vmsa_Inv ==
  ASSUME Inv, NEW t \in Threads, sev_launch_update_vmsa(t) PROVE Inv'
<1> DEFINE g == guest[Vm(t)]
<1>1. CASE NotFound(t, "STARTED_MAP")
  BY <1>1, NamesLemma, NotFoundInv
<1>2. CASE GetMut(t, "STARTED_MAP")
  BY <1>2, NamesLemma, GetMutInv DEF sev_launch_update_vmsa, Ops, DataOps, RemoveOps
<1>3. CASE Err(t, "ioctl", update_vmsa(g))
  <2>1. Moves(update_vmsa(g), g, "update", "update")
    BY <1>3, VmType, UpdateVmsaMoves DEF Err
  <2> QED
    BY <1>3, <2>1, ErrInv
<1>4. CASE Ok(t, update_vmsa(g))
  <2>1. Moves(update_vmsa(g), g, "update", "update")
    BY <1>4, VmType, UpdateVmsaMoves DEF Ok
  <2> QED
    BY <1>4, <2>1, OkInv
<1> QED
  BY <1>1, <1>2, <1>3, <1>4 DEF sev_launch_update_vmsa

(* The invariant survives every step of sev_launch_measure. *)
LEMMA sev_launch_measure_Inv ==
  ASSUME Inv, NEW t \in Threads, sev_launch_measure(t) PROVE Inv'
<1> DEFINE g == guest[Vm(t)]
<1>1. CASE NotFound(t, "STARTED_MAP")
  BY <1>1, NamesLemma, NotFoundInv
<1>2. CASE Remove(t, "STARTED_MAP")
  BY <1>2, NamesLemma, RemoveInv DEF sev_launch_measure, RemoveOps
<1>3. CASE Err(t, "ioctl", measure(g))
  <2>1. Moves(measure(g), g, "update", "secret")
    BY <1>3, VmType, MeasureMoves DEF Err
  <2> QED
    BY <1>3, <2>1, ErrInv
<1>4. CASE OkLauncher(t, "ioctl", measure(g))
            /\ meas' = [meas EXCEPT ![hand[t]] = {measurement(guest'[Vm(t)])}]
  <2>1. Moves(measure(g), g, "update", "secret")
    BY <1>4, VmType, MeasureMoves DEF OkLauncher
  <2>2. meas' \in [VMs -> SUBSET Seq(Content)]
    <3>1. PICK r \in measure(g) : r.ok /\ guest' = [guest EXCEPT ![Vm(t)] = r.g]
      BY <1>4 DEF OkLauncher
    <3>2. Vm(t) \in VMs
      BY <1>4, VmType DEF OkLauncher
    <3>3. r.g \in Guest /\ guest'[Vm(t)] = r.g
      BY <2>1, <3>1, <3>2 DEF Moves, Outcome, Inv, TypeOK
    <3>4. measurement(guest'[Vm(t)]) \in Seq(Content)
      BY <3>3 DEF measurement, Guest
    <3> QED
      BY <1>4, <3>4 DEF Inv, TypeOK
  <2>3. call[t].op \in DOMAIN Dest /\ hand[t] # NoVM
    BY <1>4, NamesLemma DEF sev_launch_measure, OkLauncher, Inv, HandOK, RemoveOps
  <2> QED
    BY <1>4, <2>1, <2>2, <2>3, OkLauncherInv
<1>5. CASE Insert(t, "MEASURED_MAP", 0)
            /\ delivered' = [delivered EXCEPT ![Vm(t)] = meas[hand[t]]]
  <2>1. hand[t] \in VMs
    BY <1>5 DEF Insert, Inv, TypeOK, HandOK
  <2>2. delivered' \in [VMs -> SUBSET Seq(Content)]
    BY <1>5, <2>1 DEF Inv, TypeOK
  <2> QED
    BY <1>5, <2>2, NamesLemma, InsertInv
<1> QED
  BY <1>1, <1>2, <1>3, <1>4, <1>5 DEF sev_launch_measure

(* The invariant survives every step of sev_inject_launch_secret. *)
LEMMA sev_inject_launch_secret_Inv ==
  ASSUME Inv, NEW t \in Threads, sev_inject_launch_secret(t) PROVE Inv'
<1> DEFINE g == guest[Vm(t)]
<1>0. pc[t] # "idle" => call[t].arg \in Data
  BY DEF sev_inject_launch_secret, Inv, CallOK, Args, DataOps
<1>1. CASE NotFound(t, "MEASURED_MAP")
  BY <1>1, NamesLemma, NotFoundInv
<1>2. CASE GetMut(t, "MEASURED_MAP")
  BY <1>2, NamesLemma, GetMutInv DEF sev_inject_launch_secret, Ops, DataOps, RemoveOps
<1>3. CASE Err(t, "ioctl", inject(g, call[t].arg))
  <2>1. Moves(inject(g, call[t].arg), g, "secret", "secret")
    BY <1>3, <1>0, VmType, InjectMoves DEF Err
  <2> QED
    BY <1>3, <2>1, ErrInv
<1>4. CASE Ok(t, inject(g, call[t].arg))
  <2>1. Moves(inject(g, call[t].arg), g, "secret", "secret")
    BY <1>4, <1>0, VmType, InjectMoves DEF Ok
  <2> QED
    BY <1>4, <2>1, OkInv
<1> QED
  BY <1>1, <1>2, <1>3, <1>4 DEF sev_inject_launch_secret

(* The invariant survives every step of sev_launch_finish. *)
LEMMA sev_launch_finish_Inv ==
  ASSUME Inv, NEW t \in Threads, sev_launch_finish(t) PROVE Inv'
<1> DEFINE g == guest[Vm(t)]
<1>1. CASE NotFound(t, "MEASURED_MAP")
  BY <1>1, NamesLemma, NotFoundInv
<1>2. CASE Remove(t, "MEASURED_MAP")
  BY <1>2, NamesLemma, RemoveInv DEF sev_launch_finish, RemoveOps
<1>3. CASE Err(t, "ioctl", finish_attestable(g))
  <2>1. Moves(finish_attestable(g), g, "secret", "running")
    BY <1>3, VmType, FinishMoves DEF Err
  <2> QED
    BY <1>3, <2>1, ErrInv
<1>4. CASE OkLauncher(t, "ioctl", finish_attestable(g)) /\ UNCHANGED meas
  <2>1. Moves(finish_attestable(g), g, "secret", "running")
    BY <1>4, VmType, FinishMoves DEF OkLauncher
  <2>2. meas' \in [VMs -> SUBSET Seq(Content)]
    BY <1>4 DEF Inv, TypeOK
  <2>3. call[t].op \in DOMAIN Dest /\ hand[t] # NoVM
    BY <1>4, NamesLemma DEF sev_launch_finish, OkLauncher, Inv, HandOK, RemoveOps
  <2> QED
    BY <1>4, <2>1, <2>2, <2>3, OkLauncherInv
<1>5. CASE Insert(t, "FINISHED_MAP", 0) /\ UNCHANGED delivered
  <2>1. delivered' \in [VMs -> SUBSET Seq(Content)]
    BY <1>5 DEF Inv, TypeOK
  <2> QED
    BY <1>5, <2>1, NamesLemma, InsertInv
<1> QED
  BY <1>1, <1>2, <1>3, <1>4, <1>5 DEF sev_launch_finish

(* The invariant survives every step of sev_attestation_report. *)
LEMMA sev_attestation_report_Inv ==
  ASSUME Inv, NEW t \in Threads, sev_attestation_report(t) PROVE Inv'
<1> DEFINE g == guest[Vm(t)]
<1>1. CASE NotFound(t, "FINISHED_MAP")
  BY <1>1, NamesLemma, NotFoundInv
<1>2. CASE BadNonce(t)
  BY <1>2, BadNonceInv
<1>3. CASE GetMut(t, "FINISHED_MAP")
  BY <1>3, NamesLemma, GetMutInv DEF sev_attestation_report, ReportOp, Ops, DataOps, RemoveOps
<1>4. CASE Err(t, "ioctl", report(g))
  <2>1. Moves(report(g), g, "running", "running")
    BY <1>4, VmType, ReportMoves DEF Err
  <2> QED
    BY <1>4, <2>1, ErrInv
<1>5. CASE ReportOk(t)
  BY <1>5, ReportOkInv
<1> QED
  BY <1>1, <1>2, <1>3, <1>4, <1>5 DEF sev_attestation_report

-----------------------------------------------------------------------------
(* The invariant survives every step inside the library. *)
LEMMA StepInv ==
  ASSUME Inv, NEW t \in Threads, Step(t) PROVE Inv'
  BY sev_init_Inv, sev_es_init_Inv, sev_launch_start_Inv,
     sev_launch_update_data_Inv, sev_launch_update_vmsa_Inv, sev_launch_measure_Inv,
     sev_inject_launch_secret_Inv, sev_launch_finish_Inv, sev_attestation_report_Inv
     DEF Step

(* The invariant is inductive. *)
LEMMA NextInv == Inv /\ [Next]_vars => Inv'
<1> SUFFICES ASSUME Inv, [Next]_vars PROVE Inv'
  OBVIOUS
<1>1. CASE \E fd \in Fds : CreateVm(fd) \/ CloseVm(fd)
  BY <1>1, CreateVmInv, CloseVmInv
<1>2. CASE \E t \in Threads, op \in Ops, fd \in Fds : \E arg \in Args(op) :
             Call(t, op, fd, arg)
  BY <1>2, CallInv
<1>3. CASE \E t \in Threads : Step(t)
  BY <1>3, StepInv
<1>4. CASE UNCHANGED vars
  BY <1>4 DEF vars, kernel, history, Inv, TypeOK, CallOK, HandOK, NoneOK, LockOK,
              UniqueLauncher, Fd
<1> QED
  BY <1>1, <1>2, <1>3, <1>4 DEF Next

(* The inductive invariant of the C API holds always. *)
THEOREM InvHolds == Spec => []Inv
  BY InitInv, NextInv, PTL DEF Spec

(* Every variable keeps its type, whatever the callers and the kernel do. *)
THEOREM TypeCorrect == Spec => []TypeOK
<1>1. Inv => TypeOK
  BY DEF Inv
<1> QED
  BY <1>1, InvHolds, PTL

(* At most one launcher per VM, even when descriptors are reused: the maps  *)
(* and the calls in progress never hold two.                                *)
THEOREM LaunchersAreUnique == Spec => []UniqueLauncher
<1>1. Inv => UniqueLauncher
  BY DEF Inv
<1> QED
  BY <1>1, InvHolds, PTL

(* The four Mutexes are always taken in the order INIT, STARTED, MEASURED,  *)
(* FINISHED, so the holder of the last one that is held can go on.          *)
LEMMA InvNoDeadlock == Inv => NoDeadlock
<1> SUFFICES ASSUME Inv, NEW t0 \in Threads, pc[t0] # "idle"
             PROVE  \E t \in Threads : pc[t] # "idle" /\ ~Blocked(t)
  BY DEF NoDeadlock
<1> USE NamesLemma
<1> DEFINE Held(m) == holder[m] # NoThread
<1>1. ASSUME NEW m \in MapNames, Held(m)
      PROVE  /\ holder[m] \in Threads
             /\ pc[holder[m]] \in {"ioctl", "insert"}
             /\ Source[call[holder[m]].op] = m
             /\ call[holder[m]].op \in DOMAIN Source
             /\ pc[holder[m]] = "insert" => call[holder[m]].op \in DOMAIN Dest
  BY <1>1 DEF Inv, TypeOK, LockOK, HandOK
<1>2. ASSUME NEW m \in MapNames, Held(m),
             pc[holder[m]] = "insert" => ~Held(Dest[call[holder[m]].op])
      PROVE  pc[holder[m]] # "idle" /\ ~Blocked(holder[m])
  BY <1>1, <1>2 DEF Blocked
<1>3. CASE Held("FINISHED_MAP")
  <2>1. pc[holder["FINISHED_MAP"]] # "insert"
    BY <1>1, <1>3 DEF Ops, DataOps, ReportOp
  <2> QED
    BY <1>1, <1>2, <1>3, <2>1
<1>4. CASE Held("MEASURED_MAP") /\ ~Held("FINISHED_MAP")
  <2>1. pc[holder["MEASURED_MAP"]] = "insert" =>
          Dest[call[holder["MEASURED_MAP"]].op] = "FINISHED_MAP"
    BY <1>1, <1>4 DEF Ops, DataOps, ReportOp
  <2> QED
    BY <1>1, <1>2, <1>4, <2>1
<1>5. CASE Held("STARTED_MAP") /\ ~Held("MEASURED_MAP")
  <2>1. pc[holder["STARTED_MAP"]] = "insert" =>
          Dest[call[holder["STARTED_MAP"]].op] = "MEASURED_MAP"
    BY <1>1, <1>5 DEF Ops, DataOps, ReportOp
  <2> QED
    BY <1>1, <1>2, <1>5, <2>1
<1>6. CASE Held("INIT_MAP") /\ ~Held("STARTED_MAP")
  <2>1. pc[holder["INIT_MAP"]] = "insert" =>
          Dest[call[holder["INIT_MAP"]].op] = "STARTED_MAP"
    BY <1>1, <1>6 DEF Ops, DataOps, ReportOp
  <2> QED
    BY <1>1, <1>2, <1>6, <2>1
<1>7. CASE \A m \in MapNames : ~Held(m)
  <2>1. pc[t0] = "insert" => call[t0].op \in DOMAIN Dest
    BY DEF Inv, HandOK
  <2>2. /\ \A op \in DOMAIN Source : Source[op] \in MapNames
        /\ \A op \in DOMAIN Dest : Dest[op] \in MapNames
    BY DEF Source, Dest
  <2>3. ~Blocked(t0)
    BY <1>7, <2>1, <2>2 DEF Blocked
  <2> QED
    BY <2>3
<1> QED
  BY <1>3, <1>4, <1>5, <1>6, <1>7

(* However many threads are inside the library, they are never all waiting. *)
THEOREM DeadlockFree == Spec => []NoDeadlock
  BY InvNoDeadlock, InvHolds, PTL

-----------------------------------------------------------------------------
(* When no descriptor is reused, the C API issues its ioctls in the right   *)
(* order: a launcher is always in the map, or in the hands of a call, that  *)
(* fits the state its VM is in.                                             *)

(* Descriptors name different VMs. *)
VmsDistinct ==
  /\ \A f, g \in Fds : vm[f] # NoVM /\ vm[f] = vm[g] => f = g
  /\ \A f \in Fds : vm[f] \notin fresh

(* A launcher under a descriptor is of the VM the descriptor names, and the *)
(* VM is in the state its map is for.                                       *)
MapsAgree ==
  \A m \in MapNames, f \in Fds :
    maps[m][f] # NoVM => /\ maps[m][f] = vm[f]
                         /\ guest[vm[f]].state = StateOf[m]

(* The same of a launcher owned by a call. *)
HandsAgree ==
  \A t \in Threads :
    hand[t] # NoVM =>
      /\ hand[t] = Vm(t)
      /\ guest[Vm(t)].state =
           StateOf[IF pc[t] = "insert" THEN Dest[call[t].op] ELSE Source[call[t].op]]

(* A borrowed launcher is still in its map when its method is called. *)
BorrowsLive ==
  \A t \in Threads :
    pc[t] = "ioctl" /\ call[t].op \notin RemoveOps =>
      maps[Source[call[t].op]][Fd(t)] # NoVM

Agree == VmsDistinct /\ MapsAgree /\ HandsAgree /\ BorrowsLive

-----------------------------------------------------------------------------
(* The four kinds of step a function takes. *)

SameStates == \A v \in VMs : guest'[v].state = guest[v].state

Leaves(t) ==
  /\ pc[t] # "idle"
  /\ pc' = [pc EXCEPT ![t] = "idle"]
  /\ hand' = [hand EXCEPT ![t] = NoVM]
  /\ SameStates
  /\ UNCHANGED <<vm, fresh, maps, call>>

LooksUp(t) ==
  \/ call[t].op \in RemoveOps /\ Remove(t, Source[call[t].op])
  \/ call[t].op \in DOMAIN Source \ RemoveOps /\ GetMut(t, Source[call[t].op])

Advances(t) ==
  /\ call[t].op \in DOMAIN Dest
  /\ \/ pc[t] = "entry" /\ guest[Vm(t)].state = "none" /\ hand' = [hand EXCEPT ![t] = Vm(t)]
     \/ pc[t] = "ioctl" /\ call[t].op \in RemoveOps /\ hand' = hand
  /\ pc' = [pc EXCEPT ![t] = "insert"]
  /\ guest'[Vm(t)].state = StateOf[Dest[call[t].op]]
  /\ \A v \in VMs \ {Vm(t)} : guest'[v] = guest[v]
  /\ UNCHANGED <<vm, fresh, maps, call>>

Inserts(t) ==
  /\ call[t].op \in DOMAIN Dest
  /\ pc[t] = "insert"
  /\ maps' = [maps EXCEPT ![Dest[call[t].op]][Fd(t)] = hand[t]]
  /\ pc' = [pc EXCEPT ![t] = "idle"]
  /\ hand' = [hand EXCEPT ![t] = NoVM]
  /\ UNCHANGED <<guest, vm, fresh, call>>

(* The guest states that the maps and the functions name are guest states. *)
LEMMA StateOfLemma ==
  /\ StateOf["INIT_MAP"] = "init"
  /\ StateOf["STARTED_MAP"] = "update"
  /\ StateOf["MEASURED_MAP"] = "secret"
  /\ StateOf["FINISHED_MAP"] = "running"
  BY DEF StateOf

(* -1 from the lookup leaves the library with the guests as they were. *)
LEMMA LeavesIfNotFound ==
  ASSUME Inv, NEW t \in Threads, NEW m, NotFound(t, m) PROVE Leaves(t)
  BY DEF NotFound, Return, kernel, Leaves, SameStates

(* So does -1 for a nonce of the wrong length. *)
LEMMA LeavesIfBadNonce ==
  ASSUME Inv, NEW t \in Threads, BadNonce(t) PROVE Leaves(t)
  BY DEF BadNonce, Return, kernel, Leaves, SameStates

(* A report is read without a change of the guest. *)
LEMMA LeavesIfReportOk ==
  ASSUME Inv, NEW t \in Threads, ReportOk(t) PROVE Leaves(t)
  BY DEF ReportOk, Return, kernel, Leaves, SameStates

(* A method that fails leaves the state of its guest as it was. *)
LEMMA LeavesIfErr ==
  ASSUME Inv, NEW t \in Threads, NEW at, at # "idle", NEW outcomes, NEW from, NEW to,
         Moves(outcomes, guest[Vm(t)], from, to), Err(t, at, outcomes)
  PROVE  Leaves(t)
<1>1. PICK r \in outcomes : ~r.ok /\ guest' = [guest EXCEPT ![Vm(t)] = r.g]
  BY DEF Err
<1>2. r.g.state = guest[Vm(t)].state
  BY <1>1 DEF Moves
<1>3. SameStates
  BY <1>1, <1>2 DEF SameStates, Inv, TypeOK
<1> QED
  BY <1>3 DEF Err, Return, Leaves

(* A method on a borrowed launcher that succeeds does not change it either. *)
LEMMA LeavesIfOk ==
  ASSUME Inv, NEW t \in Threads, NEW outcomes, NEW from,
         Moves(outcomes, guest[Vm(t)], from, from), Ok(t, outcomes)
  PROVE  Leaves(t)
<1>1. PICK r \in outcomes : r.ok /\ guest' = [guest EXCEPT ![Vm(t)] = r.g]
  BY DEF Ok
<1>2. r.g.state = guest[Vm(t)].state
  BY <1>1 DEF Moves
<1>3. SameStates
  BY <1>1, <1>2 DEF SameStates, Inv, TypeOK
<1> QED
  BY <1>3 DEF Ok, Return, Leaves

(* A method that yields a launcher moves its guest to the next state. *)
LEMMA AdvancesIfOkLauncher ==
  ASSUME Inv, NEW t \in Threads, NEW at \in {"entry", "ioctl"}, NEW outcomes, NEW from,
         at = "entry" => from = "none", at = "ioctl" => call[t].op \in RemoveOps,
         call[t].op \in DOMAIN Dest,
         Moves(outcomes, guest[Vm(t)], from, StateOf[Dest[call[t].op]]),
         OkLauncher(t, at, outcomes)
  PROVE  Advances(t)
<1>1. PICK r \in outcomes : r.ok /\ guest' = [guest EXCEPT ![Vm(t)] = r.g]
  BY DEF OkLauncher
<1>2. guest[Vm(t)].state = from /\ r.g.state = StateOf[Dest[call[t].op]]
  BY <1>1 DEF Moves
<1>3. Vm(t) \in VMs
  BY VmType DEF OkLauncher
<1>4. /\ guest'[Vm(t)].state = StateOf[Dest[call[t].op]]
      /\ \A v \in VMs \ {Vm(t)} : guest'[v] = guest[v]
  BY <1>1, <1>2, <1>3 DEF Inv, TypeOK
<1>5. at = "ioctl" => hand' = hand
  BY DEF OkLauncher, Inv, TypeOK
<1> QED
  BY <1>2, <1>4, <1>5 DEF OkLauncher, Advances

(* The insert of a function is an insert under its own descriptor. *)
LEMMA InsertsIfInsert ==
  ASSUME Inv, NEW t \in Threads, NEW val, call[t].op \in DOMAIN Dest,
         Insert(t, Dest[call[t].op], val)
  PROVE  Inserts(t)
  BY DEF Insert, Return, kernel, Inserts

Kinds(t) == Leaves(t) \/ LooksUp(t) \/ Advances(t) \/ Inserts(t)

(* Each step of sev_init is one of the kinds of step. *)
LEMMA sev_init_Kinds ==
  ASSUME Inv, NEW t \in Threads, sev_init(t) PROVE Kinds(t)
<1> DEFINE g == guest[Vm(t)]
<1>0. call[t].op \in DOMAIN Dest /\ Dest[call[t].op] = "INIT_MAP"
  BY NamesLemma DEF sev_init
<1>1. CASE Err(t, "entry", new(g))
  <2>1. Moves(new(g), g, "none", "init")
    BY <1>1, VmType, NewMoves DEF Err
  <2> QED
    BY <1>1, <2>1, LeavesIfErr DEF Kinds
<1>2. CASE OkLauncher(t, "entry", new(g))
  <2>1. Moves(new(g), g, "none", StateOf[Dest[call[t].op]])
    BY <1>0, <1>2, VmType, NewMoves, StateOfLemma DEF OkLauncher
  <2> QED
    BY <1>0, <1>2, <2>1, AdvancesIfOkLauncher DEF Kinds
<1>3. CASE Insert(t, "INIT_MAP", 0)
  BY <1>0, <1>3, InsertsIfInsert DEF Kinds
<1> QED
  BY <1>1, <1>2, <1>3 DEF sev_init

(* Each step of sev_es_init is one of the kinds of step. *)
LEMMA sev_es_init_Kinds ==
  ASSUME Inv, NEW t \in Threads, sev_es_init(t) PROVE Kinds(t)
<1> DEFINE g == guest[Vm(t)]
<1>0. call[t].op \in DOMAIN Dest /\ Dest[call[t].op] = "INIT_MAP"
  BY NamesLemma DEF sev_es_init
<1>1. CASE Err(t, "entry", new_es(g))
  <2>1. Moves(new_es(g), g, "none", "init")
    BY <1>1, VmType, NewMoves DEF Err
  <2> QED
    BY <1>1, <2>1, LeavesIfErr DEF Kinds
<1>2. CASE OkLauncher(t, "entry", new_es(g))
  <2>1. Moves(new_es(g), g, "none", StateOf[Dest[call[t].op]])
    BY <1>0, <1>2, VmType, NewMoves, StateOfLemma DEF OkLauncher
  <2> QED
    BY <1>0, <1>2, <2>1, AdvancesIfOkLauncher DEF Kinds
<1>3. CASE Insert(t, "INIT_MAP", 0)
  BY <1>0, <1>3, InsertsIfInsert DEF Kinds
<1> QED
  BY <1>1, <1>2, <1>3 DEF sev_es_init

(* Each step of sev_launch_start is one of the kinds of step. *)
LEMMA sev_launch_start_Kinds ==
  ASSUME Inv, NEW t \in Threads, sev_launch_start(t) PROVE Kinds(t)
<1> DEFINE g == guest[Vm(t)]
<1>0. /\ call[t].op \in DOMAIN Dest \cap RemoveOps
      /\ Source[call[t].op] = "INIT_MAP" /\ Dest[call[t].op] = "STARTED_MAP"
  BY NamesLemma DEF sev_launch_start, RemoveOps
<1>1. CASE NotFound(t, "INIT_MAP")
  BY <1>1, LeavesIfNotFound DEF Kinds
<1>2. CASE Remove(t, "INIT_MAP")
  BY <1>0, <1>2 DEF Kinds, LooksUp
<1>3. CASE Err(t, "ioctl", start(g))
  <2>1. Moves(start(g), g, "init", "update")
    BY <1>3, VmType, StartMoves DEF Err
  <2> QED
    BY <1>3, <2>1, LeavesIfErr DEF Kinds
<1>4. CASE OkLauncher(t, "ioctl", start(g))
  <2>1. Moves(start(g), g, "init", StateOf[Dest[call[t].op]])
    BY <1>0, <1>4, VmType, StartMoves, StateOfLemma DEF OkLauncher
  <2> QED
    BY <1>0, <1>4, <2>1, AdvancesIfOkLauncher DEF Kinds
<1>5. CASE Insert(t, "STARTED_MAP", IF maps["STARTED_MAP"][Fd(t)] = NoVM THEN 0 ELSE -1)
  BY <1>0, <1>5, InsertsIfInsert DEF Kinds
<1> QED
  BY <1>1, <1>2, <1>3, <1>4, <1>5 DEF sev_launch_start

(* Each step of sev_launch_update_data is one of the kinds of step. *)
LEMMA sev_launch_update_data_Kinds ==
  ASSUME Inv, NEW t \in Threads, sev_launch_update_data(t) PROVE Kinds(t)
<1> DEFINE g == guest[Vm(t)]
<1>6. pc[t] # "idle" => call[t].arg \in Data
  BY DEF sev_launch_update_data, Inv, CallOK, Args, DataOps
<1>1. CASE NotFound(t, "STARTED_MAP")
  BY <1>1, LeavesIfNotFound DEF Kinds
<1>2. CASE GetMut(t, "STARTED_MAP")
  BY <1>2, NamesLemma DEF Kinds, LooksUp, sev_launch_update_data, Ops, DataOps, RemoveOps
<1>3. CASE Err(t, "ioctl", update_data(g, call[t].arg))
  <2>1. Moves(update_data(g, call[t].arg), g, "update", "update")
    BY <1>3, <1>6, VmType, UpdateDataMoves DEF Err
  <2> QED
    BY <1>3, <2>1, LeavesIfErr DEF Kinds
<1>4. CASE Ok(t, update_data(g, call[t].arg))
  <2>1. Moves(update_data(g, call[t].arg), g, "update", "update")
    BY <1>4, <1>6, VmType, UpdateDataMoves DEF Ok
  <2> QED
    BY <1>4, <2>1, LeavesIfOk DEF Kinds
<1> QED
  BY <1>1, <1>2, <1>3, <1>4 DEF sev_launch_update_data

(* Each step of sev_launch_update_vmsa is one of the kinds of step. *)
LEMMA sev_launch_update_vmsa_Kinds ==
  ASSUME Inv, NEW t \in Threads, sev_launch_update_vmsa(t) PROVE Kinds(t)
<1> DEFINE g == guest[Vm(t)]
<1>1. CASE NotFound(t, "STARTED_MAP")
  BY <1>1, LeavesIfNotFound DEF Kinds
<1>2. CASE GetMut(t, "STARTED_MAP")
  BY <1>2, NamesLemma DEF Kinds, LooksUp, sev_launch_update_vmsa, Ops, DataOps, RemoveOps
<1>3. CASE Err(t, "ioctl", update_vmsa(g))
  <2>1. Moves(update_vmsa(g), g, "update", "update")
    BY <1>3, VmType, UpdateVmsaMoves DEF Err
  <2> QED
    BY <1>3, <2>1, LeavesIfErr DEF Kinds
<1>4. CASE Ok(t, update_vmsa(g))
  <2>1. Moves(update_vmsa(g), g, "update", "update")
    BY <1>4, VmType, UpdateVmsaMoves DEF Ok
  <2> QED
    BY <1>4, <2>1, LeavesIfOk DEF Kinds
<1> QED
  BY <1>1, <1>2, <1>3, <1>4 DEF sev_launch_update_vmsa

(* Each step of sev_launch_measure is one of the kinds of step. *)
LEMMA sev_launch_measure_Kinds ==
  ASSUME Inv, NEW t \in Threads, sev_launch_measure(t) PROVE Kinds(t)
<1> DEFINE g == guest[Vm(t)]
<1>0. /\ call[t].op \in DOMAIN Dest \cap RemoveOps
      /\ Source[call[t].op] = "STARTED_MAP" /\ Dest[call[t].op] = "MEASURED_MAP"
  BY NamesLemma DEF sev_launch_measure, RemoveOps
<1>1. CASE NotFound(t, "STARTED_MAP")
  BY <1>1, LeavesIfNotFound DEF Kinds
<1>2. CASE Remove(t, "STARTED_MAP")
  BY <1>0, <1>2 DEF Kinds, LooksUp
<1>3. CASE Err(t, "ioctl", measure(g))
  <2>1. Moves(measure(g), g, "update", "secret")
    BY <1>3, VmType, MeasureMoves DEF Err
  <2> QED
    BY <1>3, <2>1, LeavesIfErr DEF Kinds
<1>4. CASE OkLauncher(t, "ioctl", measure(g))
  <2>1. Moves(measure(g), g, "update", StateOf[Dest[call[t].op]])
    BY <1>0, <1>4, VmType, MeasureMoves, StateOfLemma DEF OkLauncher
  <2> QED
    BY <1>0, <1>4, <2>1, AdvancesIfOkLauncher DEF Kinds
<1>5. CASE Insert(t, "MEASURED_MAP", 0)
  BY <1>0, <1>5, InsertsIfInsert DEF Kinds
<1> QED
  BY <1>1, <1>2, <1>3, <1>4, <1>5 DEF sev_launch_measure

(* Each step of sev_inject_launch_secret is one of the kinds of step. *)
LEMMA sev_inject_launch_secret_Kinds ==
  ASSUME Inv, NEW t \in Threads, sev_inject_launch_secret(t) PROVE Kinds(t)
<1> DEFINE g == guest[Vm(t)]
<1>6. pc[t] # "idle" => call[t].arg \in Data
  BY DEF sev_inject_launch_secret, Inv, CallOK, Args, DataOps
<1>1. CASE NotFound(t, "MEASURED_MAP")
  BY <1>1, LeavesIfNotFound DEF Kinds
<1>2. CASE GetMut(t, "MEASURED_MAP")
  BY <1>2, NamesLemma DEF Kinds, LooksUp, sev_inject_launch_secret, Ops, DataOps, RemoveOps
<1>3. CASE Err(t, "ioctl", inject(g, call[t].arg))
  <2>1. Moves(inject(g, call[t].arg), g, "secret", "secret")
    BY <1>3, <1>6, VmType, InjectMoves DEF Err
  <2> QED
    BY <1>3, <2>1, LeavesIfErr DEF Kinds
<1>4. CASE Ok(t, inject(g, call[t].arg))
  <2>1. Moves(inject(g, call[t].arg), g, "secret", "secret")
    BY <1>4, <1>6, VmType, InjectMoves DEF Ok
  <2> QED
    BY <1>4, <2>1, LeavesIfOk DEF Kinds
<1> QED
  BY <1>1, <1>2, <1>3, <1>4 DEF sev_inject_launch_secret

(* Each step of sev_launch_finish is one of the kinds of step. *)
LEMMA sev_launch_finish_Kinds ==
  ASSUME Inv, NEW t \in Threads, sev_launch_finish(t) PROVE Kinds(t)
<1> DEFINE g == guest[Vm(t)]
<1>0. /\ call[t].op \in DOMAIN Dest \cap RemoveOps
      /\ Source[call[t].op] = "MEASURED_MAP" /\ Dest[call[t].op] = "FINISHED_MAP"
  BY NamesLemma DEF sev_launch_finish, RemoveOps
<1>1. CASE NotFound(t, "MEASURED_MAP")
  BY <1>1, LeavesIfNotFound DEF Kinds
<1>2. CASE Remove(t, "MEASURED_MAP")
  BY <1>0, <1>2 DEF Kinds, LooksUp
<1>3. CASE Err(t, "ioctl", finish_attestable(g))
  <2>1. Moves(finish_attestable(g), g, "secret", "running")
    BY <1>3, VmType, FinishMoves DEF Err
  <2> QED
    BY <1>3, <2>1, LeavesIfErr DEF Kinds
<1>4. CASE OkLauncher(t, "ioctl", finish_attestable(g))
  <2>1. Moves(finish_attestable(g), g, "secret", StateOf[Dest[call[t].op]])
    BY <1>0, <1>4, VmType, FinishMoves, StateOfLemma DEF OkLauncher
  <2> QED
    BY <1>0, <1>4, <2>1, AdvancesIfOkLauncher DEF Kinds
<1>5. CASE Insert(t, "FINISHED_MAP", 0)
  BY <1>0, <1>5, InsertsIfInsert DEF Kinds
<1> QED
  BY <1>1, <1>2, <1>3, <1>4, <1>5 DEF sev_launch_finish

(* Each step of sev_attestation_report is one of the kinds of step. *)
LEMMA sev_attestation_report_Kinds ==
  ASSUME Inv, NEW t \in Threads, sev_attestation_report(t) PROVE Kinds(t)
<1> DEFINE g == guest[Vm(t)]
<1>1. CASE NotFound(t, "FINISHED_MAP")
  BY <1>1, LeavesIfNotFound DEF Kinds
<1>2. CASE BadNonce(t)
  BY <1>2, LeavesIfBadNonce DEF Kinds
<1>3. CASE GetMut(t, "FINISHED_MAP")
  BY <1>3, NamesLemma
     DEF Kinds, LooksUp, sev_attestation_report, ReportOp, Ops, DataOps, RemoveOps
<1>4. CASE Err(t, "ioctl", report(g))
  <2>1. Moves(report(g), g, "running", "running")
    BY <1>4, VmType, ReportMoves DEF Err
  <2> QED
    BY <1>4, <2>1, LeavesIfErr DEF Kinds
<1>5. CASE ReportOk(t)
  BY <1>5, LeavesIfReportOk DEF Kinds
<1> QED
  BY <1>1, <1>2, <1>3, <1>4, <1>5 DEF sev_attestation_report

(* Every step inside the library is one of the kinds of step. *)
LEMMA StepKinds ==
  ASSUME Inv, NEW t \in Threads, Step(t) PROVE Kinds(t)
  BY sev_init_Kinds, sev_es_init_Kinds, sev_launch_start_Kinds,
     sev_launch_update_data_Kinds, sev_launch_update_vmsa_Kinds,
     sev_launch_measure_Kinds, sev_inject_launch_secret_Kinds,
     sev_launch_finish_Kinds, sev_attestation_report_Kinds
     DEF Step

-----------------------------------------------------------------------------
(* Each kind of step, and each step of the program, keeps Agree. *)

(* Agree survives a return that changes no map and no guest state. *)
LEMMA LeavesAgree ==
  ASSUME Inv, Agree, NEW t \in Threads, Leaves(t) PROVE Agree'
<1> USE DEF Agree, Leaves
<1>1. VmsDistinct'
  BY DEF VmsDistinct
<1>2. MapsAgree'
  BY DEF MapsAgree, SameStates, Inv, TypeOK
<1>3. HandsAgree'
  <2> SUFFICES ASSUME NEW u \in Threads, hand'[u] # NoVM
               PROVE  /\ hand'[u] = Vm(u)'
                      /\ guest'[Vm(u)'].state =
                           StateOf[IF pc'[u] = "insert" THEN Dest[call'[u].op]
                                                        ELSE Source[call'[u].op]]
    BY DEF HandsAgree
  <2>1. u # t /\ hand'[u] = hand[u] /\ pc'[u] = pc[u] /\ Vm(u)' = Vm(u) /\ call'[u] = call[u]
    BY DEF Inv, TypeOK, Vm, Fd
  <2>2. Vm(u) \in VMs
    BY <2>1 DEF HandsAgree, Inv, TypeOK
  <2> QED
    BY <2>1, <2>2 DEF HandsAgree, SameStates
<1>4. BorrowsLive'
  BY DEF BorrowsLive, Inv, TypeOK, Fd
<1> QED
  BY <1>1, <1>2, <1>3, <1>4

(* Agree survives a lookup: what was in the map is in hand, or still there. *)
LEMMA LooksUpAgree ==
  ASSUME Inv, Agree, NEW t \in Threads, LooksUp(t) PROVE Agree'
<1> USE DEF Agree
<1> DEFINE m == Source[call[t].op]
<1>1. m \in MapNames /\ Fd(t) \in Fds
  BY DEF LooksUp, Source, RemoveOps, MapNames, Inv, TypeOK, Fd
<1>2. /\ pc[t] = "entry" /\ holder[m] = NoThread /\ maps[m][Fd(t)] # NoVM
      /\ pc' = [pc EXCEPT ![t] = "ioctl"]
      /\ UNCHANGED <<guest, vm, fresh, call>>
  BY DEF LooksUp, Remove, GetMut, kernel
<1>3. Vm(t) = maps[m][Fd(t)] /\ guest[Vm(t)].state = StateOf[m]
  BY <1>1, <1>2 DEF MapsAgree, Vm
<1>4. CASE call[t].op \in RemoveOps /\ Remove(t, m)
  <2>1. \A n \in MapNames, f \in Fds :
          maps'[n][f] = IF n = m /\ f = Fd(t) THEN NoVM ELSE maps[n][f]
    BY <1>1, <1>4 DEF Remove, Inv, TypeOK
  <2>2. hand' = [hand EXCEPT ![t] = Vm(t)]
    BY <1>3, <1>4 DEF Remove
  <2>3. VmsDistinct' /\ MapsAgree'
    BY <1>2, <2>1 DEF VmsDistinct, MapsAgree
  <2>4. HandsAgree'
    BY <1>2, <1>3, <2>2 DEF HandsAgree, Inv, TypeOK, Vm, Fd
  <2>5. BorrowsLive'
    <3> SUFFICES ASSUME NEW u \in Threads, pc'[u] = "ioctl", call[u].op \notin RemoveOps
                 PROVE  maps'[Source[call[u].op]][Fd(u)] # NoVM
      BY <1>2 DEF BorrowsLive, Fd
    <3>1. u # t /\ pc[u] = "ioctl"
      BY <1>2, <1>4 DEF Inv, TypeOK
    <3>2. holder[Source[call[u].op]] = u /\ Source[call[u].op] \in MapNames
      BY <3>1 DEF Inv, LockOK, Source, MapNames
    <3>3. Source[call[u].op] # m
      BY <1>2, <3>2, NoThreadAssumption
    <3>4. Fd(u) \in Fds
      BY DEF Inv, TypeOK, Fd
    <3> QED
      BY <2>1, <3>1, <3>2, <3>3, <3>4 DEF BorrowsLive
  <2> QED
    BY <2>3, <2>4, <2>5
<1>5. CASE GetMut(t, m)
  <2>1. UNCHANGED <<maps, hand>>
    BY <1>5 DEF GetMut
  <2>2. VmsDistinct' /\ MapsAgree'
    BY <1>2, <2>1 DEF VmsDistinct, MapsAgree
  <2>3. HandsAgree'
    <3>1. hand[t] = NoVM
      BY <1>2 DEF Inv, HandOK
    <3> QED
      BY <1>2, <2>1, <3>1 DEF HandsAgree, Inv, TypeOK, Vm, Fd
  <2>4. BorrowsLive'
    BY <1>2, <2>1 DEF BorrowsLive, Inv, TypeOK, Fd
  <2> QED
    BY <2>2, <2>3, <2>4
<1> QED
  BY <1>4, <1>5 DEF LooksUp

(* The one kind of step that changes a VM's state: nobody else has the      *)
(* launcher of that VM, in a map or in hand.                                *)
LEMMA AdvancesAgree ==
  ASSUME Inv, Agree, NEW t \in Threads, Advances(t) PROVE Agree'
<1> USE DEF Agree
<1>1. Vm(t) \in VMs
  BY VmType DEF Advances
<1>2. /\ \A m \in MapNames, f \in Fds : maps[m][f] # Vm(t)
      /\ \A u \in Threads \ {t} : hand[u] # Vm(t)
      /\ hand'[t] = Vm(t) /\ \A u \in Threads \ {t} : hand'[u] = hand[u]
  <2>1. CASE pc[t] = "entry" /\ guest[Vm(t)].state = "none"
             /\ hand' = [hand EXCEPT ![t] = Vm(t)]
    BY <1>1, <2>1 DEF Inv, NoneOK, TypeOK
  <2>2. CASE pc[t] = "ioctl" /\ call[t].op \in RemoveOps /\ hand' = hand
    <3>1. hand[t] # NoVM /\ hand[t] = Vm(t)
      BY <2>2 DEF Inv, HandOK, HandsAgree
    <3> QED
      BY <2>2, <3>1 DEF Inv, UniqueLauncher
  <2> QED
    BY <2>1, <2>2 DEF Advances
<1>3. /\ pc' = [pc EXCEPT ![t] = "insert"]
      /\ guest'[Vm(t)].state = StateOf[Dest[call[t].op]]
      /\ \A v \in VMs \ {Vm(t)} : guest'[v] = guest[v]
      /\ UNCHANGED <<vm, fresh, maps, call>>
  BY DEF Advances
<1>4. VmsDistinct'
  BY <1>3 DEF VmsDistinct
<1>5. MapsAgree'
  <2> SUFFICES ASSUME NEW m \in MapNames, NEW f \in Fds, maps[m][f] # NoVM
               PROVE  maps[m][f] = vm[f] /\ guest'[vm[f]].state = StateOf[m]
    BY <1>3 DEF MapsAgree
  <2>1. maps[m][f] = vm[f] /\ guest[vm[f]].state = StateOf[m]
    BY DEF MapsAgree
  <2>2. vm[f] \in VMs \ {Vm(t)}
    BY <1>2, <2>1 DEF Inv, TypeOK
  <2> QED
    BY <1>3, <2>1, <2>2
<1>6. HandsAgree'
  <2> SUFFICES ASSUME NEW u \in Threads, hand'[u] # NoVM
               PROVE  /\ hand'[u] = Vm(u)
                      /\ guest'[Vm(u)].state =
                           StateOf[IF pc'[u] = "insert" THEN Dest[call[u].op]
                                                        ELSE Source[call[u].op]]
    BY <1>3 DEF HandsAgree, Vm, Fd
  <2>1. CASE u = t
    BY <1>2, <1>3, <2>1 DEF Inv, TypeOK
  <2>2. CASE u # t
    <3>1. hand'[u] = hand[u] /\ pc'[u] = pc[u]
      BY <1>2, <1>3, <2>2 DEF Inv, TypeOK
    <3>2. Vm(u) = hand[u] /\ Vm(u) \in VMs \ {Vm(t)}
      BY <1>2, <2>2, <3>1 DEF HandsAgree, Inv, TypeOK
    <3> QED
      BY <1>3, <3>1, <3>2 DEF HandsAgree
  <2> QED
    BY <2>1, <2>2
<1>7. BorrowsLive'
  BY <1>3 DEF BorrowsLive, Inv, TypeOK, Fd
<1> QED
  BY <1>4, <1>5, <1>6, <1>7

(* Agree survives an insert: what was in hand is in the map of its state. *)
LEMMA InsertsAgree ==
  ASSUME Inv, Agree, NEW t \in Threads, Inserts(t) PROVE Agree'
<1> USE DEF Agree
<1> DEFINE m == Dest[call[t].op]
<1>1. m \in MapNames /\ Fd(t) \in Fds
  BY DEF Inserts, Dest, MapNames, Inv, TypeOK, Fd
<1>2. /\ pc[t] = "insert"
      /\ pc' = [pc EXCEPT ![t] = "idle"]
      /\ hand' = [hand EXCEPT ![t] = NoVM]
      /\ UNCHANGED <<guest, vm, fresh, call>>
  BY DEF Inserts
<1>3. \A n \in MapNames, f \in Fds :
        maps'[n][f] = IF n = m /\ f = Fd(t) THEN hand[t] ELSE maps[n][f]
  BY <1>1 DEF Inserts, Inv, TypeOK
<1>4. hand[t] # NoVM /\ hand[t] = Vm(t) /\ guest[Vm(t)].state = StateOf[m]
  BY <1>2 DEF Inv, HandOK, HandsAgree
<1>5. VmsDistinct'
  BY <1>2 DEF VmsDistinct
<1>6. MapsAgree'
  BY <1>2, <1>3, <1>4 DEF MapsAgree, Vm
<1>7. HandsAgree'
  BY <1>2 DEF HandsAgree, Inv, TypeOK, Vm, Fd
<1>8. BorrowsLive'
  <2> SUFFICES ASSUME NEW u \in Threads, pc'[u] = "ioctl", call[u].op \notin RemoveOps
               PROVE  maps'[Source[call[u].op]][Fd(u)] # NoVM
    BY <1>2 DEF BorrowsLive, Fd
  <2>1. pc[u] = "ioctl"
    BY <1>2 DEF Inv, TypeOK
  <2>2. Source[call[u].op] \in MapNames /\ Fd(u) \in Fds
    BY <2>1 DEF Inv, LockOK, Source, MapNames, TypeOK, Fd
  <2> QED
    BY <1>3, <1>4, <2>1, <2>2 DEF BorrowsLive
<1> QED
  BY <1>5, <1>6, <1>7, <1>8

(* Agree survives a new VM: no map, and no call, knows its descriptor. *)
LEMMA CreateVmAgree ==
  ASSUME Inv, Agree, NEW fd \in Fds, CreateVm(fd) PROVE Agree'
<1> USE DEF Agree
<1>1. PICK v \in fresh : vm' = [vm EXCEPT ![fd] = v] /\ fresh' = fresh \ {v}
  BY DEF CreateVm
<1>2. vm[fd] = NoVM /\ UNCHANGED <<guest, maps, pc, call, hand>>
  BY DEF CreateVm
<1>3. VmsDistinct'
  BY <1>1 DEF VmsDistinct, Inv, TypeOK
<1>4. \A f \in Fds : vm[f] # NoVM => vm'[f] = vm[f]
  BY <1>1, <1>2 DEF Inv, TypeOK
<1>5. MapsAgree'
  BY <1>2, <1>4 DEF MapsAgree
<1>6. HandsAgree'
  <2>1. \A u \in Threads : hand[u] # NoVM => Vm(u)' = Vm(u)
    BY <1>2, <1>4 DEF HandsAgree, Vm, Fd, Inv, TypeOK
  <2> QED
    BY <1>2, <2>1 DEF HandsAgree
<1>7. BorrowsLive'
  BY <1>2 DEF BorrowsLive, Fd
<1> QED
  BY <1>3, <1>5, <1>6, <1>7

(* Agree survives a call: the caller has nothing in hand. *)
LEMMA CallAgree ==
  ASSUME Inv, Agree, NEW t \in Threads, NEW op, NEW fd, NEW arg, Call(t, op, fd, arg)
  PROVE  Agree'
<1> USE DEF Agree
<1>1. /\ pc[t] = "idle" /\ pc' = [pc EXCEPT ![t] = "entry"]
      /\ \A u \in Threads \ {t} : call'[u] = call[u]
      /\ UNCHANGED <<guest, vm, fresh, maps, hand>>
  BY DEF Call, kernel, Inv, TypeOK
<1>2. VmsDistinct' /\ MapsAgree'
  BY <1>1 DEF VmsDistinct, MapsAgree
<1>3. HandsAgree'
  <2>1. hand[t] = NoVM
    BY <1>1 DEF Inv, HandOK
  <2> QED
    BY <1>1, <2>1 DEF HandsAgree, Inv, TypeOK, Vm, Fd
<1>4. BorrowsLive'
  BY <1>1 DEF BorrowsLive, Inv, TypeOK, Fd
<1> QED
  BY <1>2, <1>3, <1>4

-----------------------------------------------------------------------------
(* There is nothing to agree on in the beginning. *)
LEMMA InitAgree == Init => Agree
  BY NoVMAssumption
     DEF Init, Agree, VmsDistinct, MapsAgree, HandsAgree, BorrowsLive

(* With no descriptor reused, Agree is preserved by every step. *)
LEMMA NextAgree ==
  ASSUME ~ReuseFds, Inv, Agree, [Next]_vars PROVE Agree'
<1>1. ASSUME NEW fd \in Fds, CreateVm(fd) \/ CloseVm(fd) PROVE Agree'
  BY <1>1, CreateVmAgree DEF CloseVm
<1>2. CASE \E t \in Threads, op \in Ops, fd \in Fds : \E arg \in Args(op) :
             Call(t, op, fd, arg)
  BY <1>2, CallAgree
<1>3. ASSUME NEW t \in Threads, Step(t) PROVE Agree'
  BY <1>3, StepKinds, LeavesAgree, LooksUpAgree, AdvancesAgree, InsertsAgree DEF Kinds
<1>4. CASE UNCHANGED vars
  BY <1>4 DEF vars, kernel, Agree, VmsDistinct, MapsAgree, HandsAgree, BorrowsLive, Vm, Fd
<1> QED
  BY <1>1, <1>2, <1>3, <1>4 DEF Next

(* Agree, with the lock on the map, is the order of the ioctls. *)
LEMMA AgreeInOrder == Inv /\ Agree => IoctlInOrder
<1> SUFFICES ASSUME Inv, Agree, NEW t \in Threads, pc[t] = "ioctl"
             PROVE  guest[Vm(t)].state = StateOf[Source[call[t].op]]
  BY DEF IoctlInOrder
<1>1. CASE call[t].op \in RemoveOps
  BY <1>1 DEF Inv, HandOK, Agree, HandsAgree
<1>2. CASE call[t].op \notin RemoveOps
  <2>1. Source[call[t].op] \in MapNames /\ Fd(t) \in Fds
    BY DEF Inv, LockOK, Source, MapNames, TypeOK, Fd
  <2> QED
    BY <1>2, <2>1 DEF Agree, BorrowsLive, MapsAgree, Vm
<1> QED
  BY <1>1, <1>2

(* Launchers stay in step with the firmware: with descriptors that are not  *)
(* reused, no interleaving of calls and no failure makes the library issue  *)
(* a launch command in a guest state that does not allow it.                *)
THEOREM IoctlsInRightOrder ==
  ASSUME ~ReuseFds PROVE Spec => []IoctlInOrder
<1>1. Init => Inv /\ Agree
  BY InitInv, InitAgree
<1>2. Inv /\ Agree /\ [Next]_vars => (Inv /\ Agree)'
  BY NextInv, NextAgree
<1> QED
  BY <1>1, <1>2, AgreeInOrder, PTL DEF Spec

-----------------------------------------------------------------------------
(* What a caller is told. *)

(* A VM that was never created is no SEV guest. *)
FreshNone == \A v \in fresh : guest[v].state = "none"

Told == FreshNone /\ RetTruthful /\ OrphanReported

(* A step of t that returns tells the truth, and one that loses a launcher  *)
(* returns -1 for it.                                                       *)
Tells(t) ==
  /\ reported \subseteq reported'
  /\ \A u \in Threads \ {t} : ret'[u] = ret[u]
  /\ pc'[t] = "idle" =>
       /\ call[t].op = ReportOp \/ (ret'[t].val = 0) = ret'[t].ok
       /\ hand[t] = NoVM \/ Vm(t) \in reported' \/ Inserts(t)

(* What a return writes for its caller. *)
LEMMA ReturnWrites ==
  ASSUME Inv, NEW t \in Threads, NEW val, NEW fw_err, NEW ok, NEW e,
         Return(t, val, fw_err, ok, e)
  PROVE  /\ ret'[t].val = val /\ ret'[t].ok = ok
         /\ \A u \in Threads \ {t} : ret'[u] = ret[u]
         /\ reported \subseteq reported'
         /\ val = 0 \/ hand[t] = NoVM \/ Vm(t) \in reported'
<1> DEFINE r == [val |-> val, fw_err |-> fw_err, ok |-> ok, e |-> e]
<1>1. r.val = val /\ r.ok = ok
  OBVIOUS
<1>2. ret' = [ret EXCEPT ![t] = r]
  BY DEF Return
<1> HIDE DEF r
<1>3. ret'[t] = r /\ \A u \in Threads \ {t} : ret'[u] = ret[u]
  BY <1>2 DEF Inv, TypeOK
<1>4. reported' = IF val = 0 \/ hand[t] = NoVM THEN reported ELSE reported \cup {Vm(t)}
  BY DEF Return
<1> QED
  BY <1>1, <1>3, <1>4

(* -1 for what failed, with the launcher lost if there was one. *)
LEMMA FailureTells ==
  ASSUME Inv, NEW t \in Threads, NEW fw_err, NEW e, Return(t, -1, fw_err, FALSE, e)
  PROVE  Tells(t)
<1>1. -1 # 0
  OBVIOUS
<1>2. /\ ret'[t].val = -1 /\ ret'[t].ok = FALSE
      /\ \A u \in Threads \ {t} : ret'[u] = ret[u]
      /\ reported \subseteq reported'
      /\ hand[t] = NoVM \/ Vm(t) \in reported'
  BY <1>1, ReturnWrites
<1> QED
  BY <1>1, <1>2 DEF Tells

(* 0 for what succeeded, with no launcher lost. *)
LEMMA SuccessTells ==
  ASSUME Inv, NEW t \in Threads, Return(t, 0, 0, TRUE, NoErr),
         hand[t] = NoVM \/ Inserts(t)
  PROVE  Tells(t)
<1>1. /\ ret'[t].val = 0 /\ ret'[t].ok = TRUE
      /\ \A u \in Threads \ {t} : ret'[u] = ret[u]
      /\ reported \subseteq reported'
  BY ReturnWrites
<1> QED
  BY <1>1 DEF Tells

(* -1 for a report that was made: the one untruth there is. *)
LEMMA ReportOkTells ==
  ASSUME Inv, NEW t \in Threads, ReportOk(t), call[t].op = ReportOp PROVE Tells(t)
<1>1. -1 # 0
  OBVIOUS
<1>2. Return(t, -1, 0, TRUE, NoErr)
  BY DEF ReportOk
<1>3. /\ \A u \in Threads \ {t} : ret'[u] = ret[u]
      /\ reported \subseteq reported'
      /\ hand[t] = NoVM \/ Vm(t) \in reported'
  BY <1>1, <1>2, ReturnWrites
<1> QED
  BY <1>3 DEF Tells

(* A step that stays in the library tells nobody anything. *)
LEMMA InsideTells ==
  ASSUME Inv, NEW t \in Threads, pc'[t] # "idle", UNCHANGED <<ret, reported>>
  PROVE  Tells(t)
  BY DEF Tells

(* -1 for a launcher that is not there. *)
LEMMA NotFoundTells ==
  ASSUME Inv, NEW t \in Threads, NEW m, NotFound(t, m) PROVE Tells(t)
  BY FailureTells DEF NotFound

(* A lookup does not return. *)
LEMMA LooksUpTells ==
  ASSUME Inv, NEW t \in Threads, NEW m, Remove(t, m) \/ GetMut(t, m) PROVE Tells(t)
<1>1. pc' = [pc EXCEPT ![t] = "ioctl"] /\ UNCHANGED <<ret, reported>>
  BY DEF Remove, GetMut, history
<1>2. pc'[t] = "ioctl"
  BY <1>1 DEF Inv, TypeOK
<1> QED
  BY <1>1, <1>2, InsideTells

(* -1 for a method that failed. *)
LEMMA ErrTells ==
  ASSUME Inv, NEW t \in Threads, NEW at, NEW outcomes, Err(t, at, outcomes) PROVE Tells(t)
<1>1. PICK r \in outcomes : Return(t, -1, set_fw_err(r.e), FALSE, r.e)
  BY DEF Err
<1> QED
  BY <1>1, FailureTells

(* A method that yields a launcher does not return yet. *)
LEMMA OkLauncherTells ==
  ASSUME Inv, NEW t \in Threads, NEW at, NEW outcomes, OkLauncher(t, at, outcomes)
  PROVE  Tells(t)
<1>1. pc' = [pc EXCEPT ![t] = "insert"] /\ UNCHANGED <<ret, reported>>
  BY DEF OkLauncher
<1>2. pc'[t] = "insert"
  BY <1>1 DEF Inv, TypeOK
<1> QED
  BY <1>1, <1>2, InsideTells

(* 0 for a method on a borrowed launcher, which stays where it is. *)
LEMMA OkTells ==
  ASSUME Inv, NEW t \in Threads, NEW outcomes, Ok(t, outcomes), call[t].op \notin RemoveOps
  PROVE  Tells(t)
<1>1. hand[t] = NoVM
  BY DEF Ok, Inv, HandOK
<1> QED
  BY <1>1, SuccessTells DEF Ok

(* 0 for a launcher that is put in its map. *)
LEMMA InsertTells ==
  ASSUME Inv, NEW t \in Threads, call[t].op \in DOMAIN Dest, NEW m, m = Dest[call[t].op],
         Insert(t, m, 0)
  PROVE  Tells(t)
<1>1. Inserts(t)
  BY InsertsIfInsert
<1> QED
  BY <1>1, SuccessTells DEF Insert

(* The insert of sev_launch_start finds no older launcher. *)
LEMMA NoOlderLauncher ==
  ASSUME Inv, Agree, NEW t \in Threads, NEW m \in MapNames, pc[t] = "insert"
  PROVE  maps[m][Fd(t)] = NoVM
<1>1. hand[t] # NoVM /\ hand[t] = Vm(t) /\ Fd(t) \in Fds
  BY DEF Inv, HandOK, Agree, HandsAgree, TypeOK, Fd
<1>2. maps[m][Fd(t)] # NoVM => maps[m][Fd(t)] = Vm(t)
  BY <1>1 DEF Agree, MapsAgree, Vm
<1> QED
  BY <1>1, <1>2 DEF Inv, UniqueLauncher

(* Every step inside the library tells the truth. *)
LEMMA StepTells ==
  ASSUME Inv, Agree, NEW t \in Threads, Step(t) PROVE Tells(t)
<1>1. CASE sev_init(t)
  BY <1>1, ErrTells, OkLauncherTells, InsertTells, NamesLemma DEF sev_init
<1>2. CASE sev_es_init(t)
  BY <1>2, ErrTells, OkLauncherTells, InsertTells, NamesLemma DEF sev_es_init
<1>3. CASE sev_launch_start(t)
  <2>1. CASE Insert(t, "STARTED_MAP", IF maps["STARTED_MAP"][Fd(t)] = NoVM THEN 0 ELSE -1)
    <3>1. maps["STARTED_MAP"][Fd(t)] = NoVM
      BY <2>1, NoOlderLauncher DEF Insert, MapNames
    <3> QED
      BY <1>3, <2>1, <3>1, InsertTells, NamesLemma DEF sev_launch_start
  <2> QED
    BY <1>3, <2>1, NotFoundTells, LooksUpTells, ErrTells, OkLauncherTells
       DEF sev_launch_start
<1>4. CASE sev_launch_update_data(t)
  BY <1>4, NotFoundTells, LooksUpTells, ErrTells, OkTells
     DEF sev_launch_update_data, RemoveOps
<1>5. CASE sev_launch_update_vmsa(t)
  BY <1>5, NotFoundTells, LooksUpTells, ErrTells, OkTells
     DEF sev_launch_update_vmsa, RemoveOps
<1>6. CASE sev_launch_measure(t)
  BY <1>6, NotFoundTells, LooksUpTells, ErrTells, OkLauncherTells, InsertTells,
     NamesLemma DEF sev_launch_measure
<1>7. CASE sev_inject_launch_secret(t)
  BY <1>7, NotFoundTells, LooksUpTells, ErrTells, OkTells
     DEF sev_inject_launch_secret, RemoveOps
<1>8. CASE sev_launch_finish(t)
  BY <1>8, NotFoundTells, LooksUpTells, ErrTells, OkLauncherTells, InsertTells,
     NamesLemma DEF sev_launch_finish
<1>9. CASE sev_attestation_report(t)
  <2>1. CASE BadNonce(t)
    BY <2>1, FailureTells DEF BadNonce
  <2>2. CASE ReportOk(t)
    BY <1>9, <2>2, ReportOkTells DEF sev_attestation_report
  <2> QED
    BY <1>9, <2>1, <2>2, NotFoundTells, LooksUpTells, ErrTells DEF sev_attestation_report
<1> QED
  BY <1>1, <1>2, <1>3, <1>4, <1>5, <1>6, <1>7, <1>8, <1>9 DEF Step

(* Told survives every step inside the library. *)
LEMMA StepTold ==
  ASSUME Inv, Agree, Told, NEW t \in Threads, Step(t) PROVE Told'
<1>1. Kinds(t) /\ Tells(t)
  BY StepKinds, StepTells
<1>2. UNCHANGED <<vm, fresh, call>>
  BY <1>1 DEF Kinds, Leaves, LooksUp, Remove, GetMut, Advances, Inserts, kernel
<1>3. \A u \in Threads \ {t} : pc'[u] = pc[u] /\ hand'[u] = hand[u]
  BY <1>1 DEF Kinds, Leaves, LooksUp, Remove, GetMut, Advances, Inserts, Inv, TypeOK
<1>4. \A v \in VMs : guest'[v].state = guest[v].state \/ (v = Vm(t) /\ hand'[t] = v)
  <2>1. CASE Leaves(t)
    BY <2>1 DEF Leaves, SameStates
  <2>2. CASE LooksUp(t)
    BY <2>2 DEF LooksUp, Remove, GetMut, kernel
  <2>3. CASE Advances(t)
    <3>1. hand'[t] = Vm(t)
      BY <2>3 DEF Advances, Inv, HandOK, TypeOK, Agree, HandsAgree
    <3> QED
      BY <2>3, <3>1 DEF Advances
  <2>4. CASE Inserts(t)
    BY <2>4 DEF Inserts
  <2> QED
    BY <1>1, <2>1, <2>2, <2>3, <2>4 DEF Kinds
<1>5. FreshNone'
  <2>1. Vm(t) \notin fresh
    BY DEF Agree, VmsDistinct, Vm, Inv, TypeOK, Fd
  <2> QED
    BY <1>2, <1>4, <2>1 DEF Told, FreshNone, Inv, TypeOK
<1>6. RetTruthful'
  BY <1>1, <1>2, <1>3 DEF Told, RetTruthful, Tells
<1>7. OrphanReported'
  <2> SUFFICES ASSUME NEW fd \in Fds, vm[fd] # NoVM,
                      guest'[vm[fd]].state # "none",
                      \A m \in MapNames : maps'[m][fd] # vm[fd],
                      \A u \in Threads : hand'[u] # vm[fd]
               PROVE  vm[fd] \in reported'
    BY <1>2 DEF OrphanReported
  <2> DEFINE v == vm[fd]
  <2>1. v \in VMs /\ guest[v].state # "none"
    BY <1>4 DEF Inv, TypeOK
  <2>2. CASE hand[t] = v
    <3>1. Vm(t) = v /\ hand[t] # NoVM
      BY <2>2 DEF Agree, HandsAgree
    <3>2. Fd(t) = fd
      BY <3>1 DEF Agree, VmsDistinct, Vm, Inv, TypeOK, Fd
    <3>3. CASE Inserts(t)
      BY <2>2, <3>2, <3>3 DEF Inserts, Inv, TypeOK, Dest, MapNames
    <3>4. CASE LooksUp(t)
      BY <3>1, <3>4 DEF LooksUp, Remove, GetMut, Inv, HandOK
    <3>5. CASE Advances(t)
      BY <3>1, <3>5, <2>2 DEF Advances, Inv, TypeOK
    <3>6. CASE Leaves(t)
      <4>1. pc'[t] = "idle"
        BY <3>6 DEF Leaves, Inv, TypeOK
      <4> QED
        BY <1>1, <3>1, <3>3, <4>1 DEF Tells
    <3> QED
      BY <1>1, <3>3, <3>4, <3>5, <3>6 DEF Kinds
  <2>3. CASE hand[t] # v
    <3>1. \A u \in Threads : hand[u] # v
      BY <1>3, <2>3
    <3>2. \A m \in MapNames : maps[m][fd] # v
      <4>1. CASE Leaves(t) \/ Advances(t)
        BY <4>1 DEF Leaves, Advances
      <4>2. CASE LooksUp(t)
        <5>1. CASE Remove(t, Source[call[t].op])
          BY <5>1 DEF Remove, Inv, TypeOK
        <5>2. CASE GetMut(t, Source[call[t].op])
          BY <5>2 DEF GetMut
        <5> QED
          BY <4>2, <5>1, <5>2 DEF LooksUp
      <4>3. CASE Inserts(t)
        <5>1. Dest[call[t].op] \in MapNames /\ Fd(t) \in Fds /\ pc[t] = "insert"
          BY <4>3 DEF Inserts, Dest, MapNames, Inv, TypeOK, Fd
        <5>2. maps[Dest[call[t].op]][Fd(t)] = NoVM
          BY <5>1, NoOlderLauncher
        <5>3. \A m \in MapNames, f \in Fds :
                maps'[m][f] = maps[m][f] \/ (m = Dest[call[t].op] /\ f = Fd(t))
          BY <4>3, <5>1 DEF Inserts, Inv, TypeOK
        <5> QED
          BY <5>2, <5>3
      <4> QED
        BY <1>1, <4>1, <4>2, <4>3 DEF Kinds
    <3> QED
      BY <1>1, <2>1, <3>1, <3>2 DEF Told, OrphanReported, Tells
  <2> QED
    BY <2>2, <2>3
<1> QED
  BY <1>5, <1>6, <1>7 DEF Told

(* Told survives a new VM, which no caller has launched yet. *)
LEMMA CreateVmTold ==
  ASSUME Inv, Told, NEW fd \in Fds, CreateVm(fd) PROVE Told'
<1> USE DEF Told
<1>1. PICK v \in fresh : vm' = [vm EXCEPT ![fd] = v] /\ fresh' = fresh \ {v}
  BY DEF CreateVm
<1>2. UNCHANGED <<guest, maps, pc, call, hand, ret, reported>>
  BY DEF CreateVm, history
<1>3. FreshNone' /\ RetTruthful'
  BY <1>1, <1>2 DEF FreshNone, RetTruthful
<1>4. \A f \in Fds : vm'[f] = vm[f] \/ guest[vm'[f]].state = "none"
  BY <1>1 DEF FreshNone, Inv, TypeOK
<1>5. OrphanReported'
  BY <1>2, <1>4 DEF OrphanReported
<1> QED
  BY <1>3, <1>5

(* Told survives a call. *)
LEMMA CallTold ==
  ASSUME Inv, Told, NEW t \in Threads, NEW op, NEW fd, NEW arg, Call(t, op, fd, arg)
  PROVE  Told'
<1> USE DEF Told
<1>1. /\ pc' = [pc EXCEPT ![t] = "entry"]
      /\ \A u \in Threads \ {t} : call'[u] = call[u] /\ ret'[u] = ret[u]
      /\ UNCHANGED <<guest, vm, fresh, maps, hand, reported>>
  BY DEF Call, kernel, history, Inv, TypeOK
<1>2. FreshNone' /\ OrphanReported'
  BY <1>1 DEF FreshNone, OrphanReported
<1>3. RetTruthful'
  BY <1>1 DEF RetTruthful, Inv, TypeOK
<1> QED
  BY <1>2, <1>3

(* Nobody was told anything in the beginning. *)
LEMMA InitTold == Init => Told
<1> SUFFICES ASSUME Init PROVE Told
  OBVIOUS
<1>1. NewGuest.state = "none" /\ NoRet.val = 0 /\ NoRet.ok = TRUE
  BY DEF NewGuest, NoRet
<1>2. FreshNone /\ OrphanReported
  BY <1>1 DEF Init, FreshNone, OrphanReported
<1>3. RetTruthful
  BY <1>1 DEF Init, RetTruthful
<1> QED
  BY <1>2, <1>3 DEF Told

(* With no descriptor reused, Told is preserved by every step. *)
LEMMA NextTold ==
  ASSUME ~ReuseFds, Inv, Agree, Told, [Next]_vars PROVE Told'
<1>1. ASSUME NEW fd \in Fds, CreateVm(fd) \/ CloseVm(fd) PROVE Told'
  BY <1>1, CreateVmTold DEF CloseVm
<1>2. CASE \E t \in Threads, op \in Ops, fd \in Fds : \E arg \in Args(op) :
             Call(t, op, fd, arg)
  BY <1>2, CallTold
<1>3. ASSUME NEW t \in Threads, Step(t) PROVE Told'
  BY <1>3, StepTold
<1>4. CASE UNCHANGED vars
  BY <1>4 DEF vars, kernel, history, Told, FreshNone, RetTruthful, OrphanReported
<1> QED
  BY <1>1, <1>2, <1>3, <1>4 DEF Next

(* The invariant of a program that reuses no descriptor. *)
LEMMA OrderInv == ASSUME ~ReuseFds PROVE Spec => [](Inv /\ Agree /\ Told)
<1>1. Init => Inv /\ Agree /\ Told
  BY InitInv, InitAgree, InitTold
<1>2. Inv /\ Agree /\ Told /\ [Next]_vars => (Inv /\ Agree /\ Told)'
  BY NextInv, NextAgree, NextTold
<1> QED
  BY <1>1, <1>2, PTL DEF Spec

(* docs/sev.rst's 0 and -1 are the truth of every function of src/lib.rs    *)
(* but sev_attestation_report: sev_launch_start's -1 for a launcher it      *)
(* replaced is never given.                                                 *)
THEOREM ReturnsAreTruthful ==
  ASSUME ~ReuseFds PROVE Spec => []RetTruthful
<1>1. Inv /\ Agree /\ Told => RetTruthful
  BY DEF Told
<1> QED
  BY <1>1, OrderInv, PTL

(* A launch whose launcher is lost, on whatever path of src/lib.rs, was     *)
(* reported to a caller with -1.                                            *)
THEOREM OrphansAreReported ==
  ASSUME ~ReuseFds PROVE Spec => []OrphanReported
<1>1. Inv /\ Agree /\ Told => OrphanReported
  BY DEF Told
<1> QED
  BY <1>1, OrderInv, PTL

-----------------------------------------------------------------------------
(* When no descriptor is reused, the C API implements the Rust API it wraps *)
(* (SevLauncher), and inherits what is proved about it.                     *)

(* The launcher of v is of the type that map m is for: it is in that map,   *)
(* or in the hands of a call that took it out or is about to put it in.     *)
HandMap(t) == IF pc[t] = "insert" THEN Dest[call[t].op] ELSE Source[call[t].op]

At(v, m) ==
  \/ \E fd \in Fds : maps[m][fd] = v
  \/ \E t \in Threads : hand[t] = v /\ HandMap(t) = m

(* What Phase says, without its CHOOSEs. *)
PhaseOK ==
  \A v \in VMs :
    \/ \E m \in MapNames : At(v, m) /\ Phase[v] = TypeOf[m]
    \/ /\ \A m \in MapNames : ~At(v, m)
       /\ Phase[v] = IF guest[v].state = "none" THEN "None" ELSE "Gone"

OneMap == \A v \in VMs : \A m, n \in MapNames : At(v, m) /\ At(v, n) => m = n

(* A call that owns a launcher has it from, or for, a map. *)
LEMMA HandMapType ==
  ASSUME Inv, NEW t \in Threads, hand[t] # NoVM PROVE HandMap(t) \in MapNames
<1>1. pc[t] \in {"ioctl", "insert"}
  BY DEF Inv, HandOK, TypeOK
<1>2. CASE pc[t] = "insert"
  BY <1>2 DEF Inv, HandOK, HandMap, Dest, MapNames
<1>3. CASE pc[t] = "ioctl"
  BY <1>3 DEF Inv, LockOK, HandMap, Source, MapNames
<1> QED
  BY <1>1, <1>2, <1>3

(* Phase is the type of the one launcher a VM has, or tells there is none. *)
LEMMA PhaseLemma == Inv => PhaseOK /\ OneMap /\ Phase = [v \in VMs |-> Phase[v]]
<1> SUFFICES ASSUME Inv PROVE PhaseOK /\ OneMap /\ Phase = [v \in VMs |-> Phase[v]]
  OBVIOUS
<1>1. OneMap
  BY NoVMAssumption DEF Inv, UniqueLauncher, OneMap, At
<1>2. Phase = [v \in VMs |-> Phase[v]]
  BY DEF Phase
<1>3. ASSUME NEW v \in VMs
      PROVE  \/ \E m \in MapNames : At(v, m) /\ Phase[v] = TypeOf[m]
             \/ /\ \A m \in MapNames : ~At(v, m)
                /\ Phase[v] = IF guest[v].state = "none" THEN "None" ELSE "Gone"
  <2> DEFINE InMap == \E m \in MapNames, fd \in Fds : maps[m][fd] = v
             InHand == \E t \in Threads : hand[t] = v
  <2>1. CASE InMap
    <3> DEFINE m == CHOOSE m \in MapNames : \E fd \in Fds : maps[m][fd] = v
    <3>1. m \in MapNames /\ \E fd \in Fds : maps[m][fd] = v
      BY <2>1
    <3>2. ~InHand
      BY <3>1, NoVMAssumption DEF Inv, UniqueLauncher
    <3>3. Phase[v] = TypeOf[m]
      BY <2>1, <3>2 DEF Phase
    <3> QED
      BY <3>1, <3>3 DEF At
  <2>2. CASE ~InMap /\ InHand
    <3> DEFINE t == CHOOSE u \in Threads : hand[u] = v
    <3>1. t \in Threads /\ hand[t] = v
      BY <2>2
    <3>2. Phase[v] = TypeOf[HandMap(t)]
      BY <2>2 DEF Phase, HandMap
    <3>3. HandMap(t) \in MapNames
      BY <3>1, HandMapType, NoVMAssumption
    <3> QED
      BY <3>1, <3>2, <3>3 DEF At
  <2>3. CASE ~InMap /\ ~InHand
    <3>1. Phase[v] = IF guest[v].state = "none" THEN "None" ELSE "Gone"
      BY <2>3 DEF Phase
    <3> QED
      BY <2>3, <3>1 DEF At
  <2> QED
    BY <2>1, <2>2, <2>3
<1> QED
  BY <1>1, <1>2, <1>3 DEF PhaseOK

(* The same of the next state. *)
LEMMA PhaseLemmaNext == Inv' => (PhaseOK /\ OneMap /\ Phase = [v \in VMs |-> Phase[v]])'
  BY PhaseLemma, PTL

(* The methods that the instance calls are the methods. *)
LEMMA SameMethods ==
  ASSUME NEW g
  PROVE  /\ Launcher!new(g) = new(g) /\ Launcher!new_es(g) = new_es(g)
         /\ Launcher!start(g) = start(g)
         /\ \A d : Launcher!update_data(g, d) = update_data(g, d)
         /\ Launcher!update_vmsa(g) = update_vmsa(g)
         /\ Launcher!measure(g) = measure(g)
         /\ \A d : Launcher!inject(g, d) = inject(g, d)
         /\ Launcher!finish_attestable(g) = finish_attestable(g)
         /\ Launcher!report(g) = report(g)
         /\ Launcher!measurement(g) = measurement(g)
         /\ Launcher!NewGuest = NewGuest
  BY DEF new, new_es, start, update_data, register_kvm_enc_region,
         update_data_without_registration, update_vmsa, measure, inject,
         finish_attestable, report, measurement, NewGuest, Cmd, Then, INIT,
         LAUNCH_START, ENC_REG_REGION, Encrypt, LAUNCH_UPDATE_DATA,
         LAUNCH_UPDATE_VMSA, LAUNCH_MEASURE, LAUNCH_SECRET, LAUNCH_FINISH,
         LAUNCH_ATTESTATION, Ioctl, Refused, Failed, Succeeded, NoErr, Os,
         ToIo, encapsulate, FromIo, FromU32, Other, InvalidGuestState,
         InvalidLen, KnownCodes, IoErr, UnknownErr, Launcher!new,
         Launcher!new_es, Launcher!start, Launcher!update_data,
         Launcher!register_kvm_enc_region,
         Launcher!update_data_without_registration, Launcher!update_vmsa,
         Launcher!measure, Launcher!inject, Launcher!finish_attestable,
         Launcher!report, Launcher!measurement, Launcher!NewGuest,
         Launcher!Cmd, Launcher!Then, Launcher!INIT, Launcher!LAUNCH_START,
         Launcher!ENC_REG_REGION, Launcher!Encrypt,
         Launcher!LAUNCH_UPDATE_DATA, Launcher!LAUNCH_UPDATE_VMSA,
         Launcher!LAUNCH_MEASURE, Launcher!LAUNCH_SECRET,
         Launcher!LAUNCH_FINISH, Launcher!LAUNCH_ATTESTATION,
         Launcher!Ioctl, Launcher!Refused, Launcher!Failed,
         Launcher!Succeeded, Launcher!NoErr, Launcher!Os, Launcher!ToIo,
         Launcher!encapsulate, Launcher!FromIo, Launcher!FromU32,
         Launcher!Other, Launcher!InvalidGuestState, Launcher!InvalidLen,
         Launcher!KnownCodes, Launcher!IoErr, Launcher!UnknownErr

-----------------------------------------------------------------------------
(* How the launchers move. *)

(* When every launcher stays of its type, so does Phase. *)
LEMMA SamePhase ==
  ASSUME Inv, Inv', SameStates,
         \A v \in VMs, m \in MapNames : At(v, m)' <=> At(v, m)
  PROVE  Phase' = Phase
<1>1. /\ PhaseOK /\ PhaseOK' /\ OneMap
      /\ Phase = [v \in VMs |-> Phase[v]] /\ Phase' = [v \in VMs |-> Phase'[v]]
  BY PhaseLemma, PhaseLemmaNext
<1>2. \A v \in VMs : Phase'[v] = Phase[v]
  BY <1>1 DEF PhaseOK, OneMap, SameStates
<1> QED
  BY <1>1, <1>2

(* When one launcher moves to the type of map n, Phase follows it. *)
LEMMA MovedPhase ==
  ASSUME Inv, Inv', NEW v \in VMs, NEW n \in MapNames, At(v, n)',
         \A w \in VMs \ {v} : guest'[w].state = guest[w].state,
         \A w \in VMs \ {v}, m \in MapNames : At(w, m)' <=> At(w, m)
  PROVE  Phase' = [Phase EXCEPT ![v] = TypeOf[n]]
<1>1. /\ PhaseOK /\ PhaseOK' /\ OneMap /\ OneMap'
      /\ Phase = [w \in VMs |-> Phase[w]] /\ Phase' = [w \in VMs |-> Phase'[w]]
  BY PhaseLemma, PhaseLemmaNext
<1>2. \A w \in VMs \ {v} : Phase'[w] = Phase[w]
  BY <1>1 DEF PhaseOK, OneMap
<1>3. Phase'[v] = TypeOf[n]
  BY <1>1 DEF PhaseOK, OneMap
<1> QED
  BY <1>1, <1>2, <1>3

(* When one launcher is lost, Phase says so. *)
LEMMA LostPhase ==
  ASSUME Inv, Inv', NEW v \in VMs, \A m \in MapNames : ~At(v, m)',
         guest'[v].state # "none",
         \A w \in VMs \ {v} : guest'[w].state = guest[w].state,
         \A w \in VMs \ {v}, m \in MapNames : At(w, m)' <=> At(w, m)
  PROVE  Phase' = [Phase EXCEPT ![v] = "Gone"]
<1>1. /\ PhaseOK /\ PhaseOK' /\ OneMap
      /\ Phase = [w \in VMs |-> Phase[w]] /\ Phase' = [w \in VMs |-> Phase'[w]]
  BY PhaseLemma, PhaseLemmaNext
<1>2. \A w \in VMs \ {v} : Phase'[w] = Phase[w]
  BY <1>1 DEF PhaseOK, OneMap
<1>3. Phase'[v] = "Gone"
  BY <1>1 DEF PhaseOK
<1> QED
  BY <1>1, <1>2, <1>3

(* What a launcher in a map, or in hand, makes of Phase. *)
LEMMA PhaseAt ==
  ASSUME Inv, NEW v \in VMs, NEW m \in MapNames, At(v, m) PROVE Phase[v] = TypeOf[m]
  BY PhaseLemma DEF PhaseOK, OneMap

(* A call, and a new VM, move no launcher. *)
LEMMA OutsidePhase ==
  ASSUME Inv, Inv',
         \/ \E fd \in Fds : CreateVm(fd)
         \/ \E t \in Threads, op \in Ops, fd \in Fds : \E arg \in Args(op) :
              Call(t, op, fd, arg)
  PROVE  Phase' = Phase
<1>1. UNCHANGED <<guest, maps, hand>>
  BY DEF CreateVm, Call, kernel
<1>2. \A u \in Threads : hand[u] # NoVM => pc'[u] = pc[u] /\ call'[u] = call[u]
  <2>1. CASE \E fd \in Fds : CreateVm(fd)
    BY <2>1 DEF CreateVm
  <2>2. ASSUME NEW t \in Threads, NEW op, NEW fd, NEW arg, Call(t, op, fd, arg)
        PROVE  \A u \in Threads : hand[u] # NoVM => pc'[u] = pc[u] /\ call'[u] = call[u]
    <3>1. hand[t] = NoVM
      BY <2>2 DEF Call, Inv, HandOK
    <3> QED
      BY <2>2, <3>1 DEF Call, Inv, TypeOK
  <2> QED
    BY <2>1, <2>2
<1>3. \A u \in Threads : hand[u] # NoVM => HandMap(u)' = HandMap(u)
  BY <1>2 DEF HandMap
<1>4. \A v \in VMs, m \in MapNames : At(v, m)' <=> At(v, m)
  BY <1>1, <1>3, NoVMAssumption DEF At
<1> QED
  BY <1>1, <1>4, SamePhase DEF SameStates

(* A step of t leaves the launchers of the other threads' VMs alone. *)
LEMMA OthersAt ==
  ASSUME Inv, NEW t \in Threads, Kinds(t)
  PROVE  \A u \in Threads \ {t} : hand'[u] = hand[u] /\ HandMap(u)' = HandMap(u)
<1>1. \A u \in Threads \ {t} : hand'[u] = hand[u] /\ pc'[u] = pc[u] /\ call'[u] = call[u]
  BY DEF Kinds, Leaves, LooksUp, Remove, GetMut, Advances, Inserts, Inv, TypeOK
<1> QED
  BY <1>1 DEF HandMap

(* A return with nothing in hand moves no launcher. *)
LEMMA LeavesPhase ==
  ASSUME Inv, Inv', NEW t \in Threads, Leaves(t), hand[t] = NoVM PROVE Phase' = Phase
<1>1. hand'[t] = NoVM /\ UNCHANGED maps /\ SameStates
  BY DEF Leaves, Inv, TypeOK
<1>2. \A v \in VMs, m \in MapNames : At(v, m)' <=> At(v, m)
  BY <1>1, OthersAt, NoVMAssumption DEF At, Kinds
<1> QED
  BY <1>1, <1>2, SamePhase

(* A return with a launcher in hand loses it. *)
LEMMA LosesPhase ==
  ASSUME Inv, Inv', Agree, NEW t \in Threads, Leaves(t), hand[t] # NoVM
  PROVE  Phase' = [Phase EXCEPT ![Vm(t)] = "Gone"]
<1>1. hand'[t] = NoVM /\ UNCHANGED maps /\ SameStates
  BY DEF Leaves, Inv, TypeOK
<1>2. PICK v \in VMs : v = Vm(t) /\ hand[t] = v
  BY DEF Agree, HandsAgree, Inv, TypeOK
<1>3. guest[v].state # "none"
  BY <1>2 DEF Inv, NoneOK
<1>4. \A m \in MapNames : ~At(v, m)'
  BY <1>1, <1>2, OthersAt, NoVMAssumption DEF At, Kinds, Inv, UniqueLauncher
<1>5. \A w \in VMs \ {v}, m \in MapNames : At(w, m)' <=> At(w, m)
  BY <1>1, <1>2, OthersAt, NoVMAssumption DEF At, Kinds
<1>6. Phase' = [Phase EXCEPT ![v] = "Gone"]
  BY <1>1, <1>2, <1>3, <1>4, <1>5, LostPhase DEF SameStates
<1> QED
  BY <1>2, <1>6

(* A lookup moves no launcher to another type. *)
LEMMA LooksUpPhase ==
  ASSUME Inv, Inv', NEW t \in Threads, LooksUp(t) PROVE Phase' = Phase
<1> DEFINE n == Source[call[t].op]
<1>1. n \in MapNames /\ Fd(t) \in Fds
  BY DEF LooksUp, Source, RemoveOps, MapNames, Inv, TypeOK, Fd
<1>2. /\ SameStates /\ pc[t] = "entry" /\ maps[n][Fd(t)] # NoVM /\ UNCHANGED call
      /\ pc'[t] = "ioctl"
  BY DEF LooksUp, Remove, GetMut, kernel, SameStates, Inv, TypeOK
<1>3. hand[t] = NoVM /\ HandMap(t)' = n
  BY <1>2 DEF Inv, HandOK, HandMap
<1>4. CASE GetMut(t, n)
  <2>1. UNCHANGED <<maps, hand>>
    BY <1>4 DEF GetMut
  <2>2. \A v \in VMs, m \in MapNames : At(v, m)' <=> At(v, m)
    BY <1>3, <2>1, OthersAt, NoVMAssumption DEF At, Kinds
  <2> QED
    BY <1>2, <2>2, SamePhase
<1>5. CASE Remove(t, n)
  <2>1. hand'[t] = maps[n][Fd(t)]
    BY <1>5 DEF Remove, Inv, TypeOK
  <2>2. \A m \in MapNames, f \in Fds :
          maps'[m][f] = IF m = n /\ f = Fd(t) THEN NoVM ELSE maps[m][f]
    BY <1>1, <1>5 DEF Remove, Inv, TypeOK
  <2> HIDE DEF n
  <2>3. ASSUME NEW v \in VMs, NEW m \in MapNames
        PROVE  At(v, m)' => At(v, m)
    BY <1>1, <1>3, <2>1, <2>2, OthersAt, NoVMAssumption DEF At, Kinds
  <2>4. ASSUME NEW v \in VMs, NEW m \in MapNames, NEW f \in Fds, maps[m][f] = v
        PROVE  At(v, m)'
    BY <1>1, <1>3, <2>1, <2>2, <2>4 DEF At
  <2>5. ASSUME NEW v \in VMs, NEW m \in MapNames, NEW u \in Threads, hand[u] = v, HandMap(u) = m
        PROVE  At(v, m)'
    BY <1>3, <2>5, OthersAt, NoVMAssumption DEF At, Kinds
  <2>6. \A v \in VMs, m \in MapNames : At(v, m)' <=> At(v, m)
    BY <2>3, <2>4, <2>5 DEF At
  <2> QED
    BY <1>2, <2>6, SamePhase
<1> QED
  BY <1>4, <1>5 DEF LooksUp

(* A method that yields a launcher moves it to the type of the next map. *)
LEMMA AdvancesPhase ==
  ASSUME Inv, Inv', Agree, NEW t \in Threads, Advances(t)
  PROVE  Phase' = [Phase EXCEPT ![Vm(t)] = TypeOf[Dest[call[t].op]]]
<1>0. PICK v \in VMs : v = Vm(t)
  BY VmType DEF Advances
<1>1. PICK n \in MapNames : n = Dest[call[t].op]
  BY DEF Advances, Dest, MapNames
<1>2. hand'[t] = v /\ (hand[t] = NoVM \/ hand[t] = v)
  <2>1. pc[t] = "entry" => hand[t] = NoVM
    BY DEF Inv, HandOK
  <2>2. pc[t] = "ioctl" /\ call[t].op \in RemoveOps => hand[t] = v
    BY <1>0 DEF Inv, HandOK, Agree, HandsAgree
  <2> QED
    BY <1>0, <2>1, <2>2 DEF Advances, Inv, TypeOK
<1>3. HandMap(t)' = n
  BY <1>1 DEF Advances, HandMap, Inv, TypeOK
<1>4. UNCHANGED maps /\ \A w \in VMs \ {v} : guest'[w] = guest[w]
  BY <1>0 DEF Advances
<1>5. At(v, n)'
  BY <1>2, <1>3 DEF At
<1>6. \A w \in VMs \ {v}, m \in MapNames : At(w, m)' <=> At(w, m)
  BY <1>2, <1>4, OthersAt, NoVMAssumption DEF At, Kinds
<1>7. Phase' = [Phase EXCEPT ![v] = TypeOf[n]]
  BY <1>4, <1>5, <1>6, MovedPhase
<1> QED
  BY <1>0, <1>1, <1>7

(* An insert moves no launcher to another type, and replaces none. *)
LEMMA InsertsPhase ==
  ASSUME Inv, Inv', Agree, NEW t \in Threads, Inserts(t) PROVE Phase' = Phase
<1> DEFINE n == Dest[call[t].op]
<1>1. n \in MapNames /\ Fd(t) \in Fds
  BY DEF Inserts, Dest, MapNames, Inv, TypeOK, Fd
<1>2. SameStates /\ pc[t] = "insert" /\ hand'[t] = NoVM
  BY DEF Inserts, SameStates, Inv, TypeOK
<1>3. HandMap(t) = n /\ maps[n][Fd(t)] = NoVM
  BY <1>1, <1>2, NoOlderLauncher DEF HandMap
<1>4. \A m \in MapNames, f \in Fds :
        maps'[m][f] = IF m = n /\ f = Fd(t) THEN hand[t] ELSE maps[m][f]
  BY <1>1 DEF Inserts, Inv, TypeOK
<1> HIDE DEF n
<1>5. ASSUME NEW v \in VMs, NEW m \in MapNames
      PROVE  At(v, m)' => At(v, m)
  BY <1>2, <1>3, <1>4, OthersAt, NoVMAssumption DEF At, Kinds
<1>6. ASSUME NEW v \in VMs, NEW m \in MapNames, NEW f \in Fds, maps[m][f] = v
      PROVE  At(v, m)'
  BY <1>3, <1>4, <1>6, NoVMAssumption DEF At
<1>7. ASSUME NEW v \in VMs, NEW m \in MapNames, NEW u \in Threads, hand[u] = v, HandMap(u) = m
      PROVE  At(v, m)'
  BY <1>1, <1>3, <1>4, <1>7, OthersAt DEF At, Kinds
<1>8. \A v \in VMs, m \in MapNames : At(v, m)' <=> At(v, m)
  BY <1>5, <1>6, <1>7 DEF At
<1> QED
  BY <1>2, <1>8, SamePhase

-----------------------------------------------------------------------------
(* What a step does to the memory and the secrets of the guests. *)

Touches(t) ==
  /\ \A v \in VMs : MayGrow(guest[v], guest'[v])
  /\ pc[t] # "ioctl" => \A v \in VMs : /\ guest'[v].mem = guest[v].mem
                                       /\ guest'[v].secrets = guest[v].secrets
  /\ \A v \in VMs \ {Vm(t)} : guest'[v] = guest[v]
  /\ calls' = calls

(* A step that issues no ioctl touches nothing. *)
LEMMA QuietTouches ==
  ASSUME NEW t, UNCHANGED <<guest, calls>> PROVE Touches(t)
  BY DEF Touches, MayGrow

(* A method touches its own guest, as its ioctls may. *)
LEMMA MethodTouches ==
  ASSUME Inv, NEW t \in Threads, pc[t] = "ioctl", NEW outcomes,
         Confined(outcomes, guest[Vm(t)]),
         \E r \in outcomes : guest' = [guest EXCEPT ![Vm(t)] = r.g], UNCHANGED calls
  PROVE  Touches(t)
<1>1. PICK r \in outcomes : guest' = [guest EXCEPT ![Vm(t)] = r.g]
  OBVIOUS
<1>2. MayGrow(guest[Vm(t)], r.g)
  BY DEF Confined
<1>3. \A v \in VMs : guest'[v] = IF v = Vm(t) THEN r.g ELSE guest[v]
  BY <1>1 DEF Inv, TypeOK
<1>4. \A v \in VMs : MayGrow(guest[v], guest[v])
  BY DEF MayGrow
<1>5. \A v \in VMs : MayGrow(guest[v], guest'[v])
  BY <1>2, <1>3, <1>4
<1> QED
  BY <1>3, <1>5 DEF Touches

(* A constructor touches no data. *)
LEMMA InitTouches ==
  ASSUME Inv, NEW t \in Threads, pc[t] = "entry", NEW outcomes,
         outcomes \subseteq new(guest[Vm(t)]) \cup new_es(guest[Vm(t)]),
         \E r \in outcomes : guest' = [guest EXCEPT ![Vm(t)] = r.g], UNCHANGED calls
  PROVE  Touches(t)
<1>1. PICK r \in outcomes : guest' = [guest EXCEPT ![Vm(t)] = r.g]
  OBVIOUS
<1>2. guest[Vm(t)] \in Guest
  BY VmType
<1>3. r.g.mem = guest[Vm(t)].mem /\ r.g.secrets = guest[Vm(t)].secrets
  BY <1>2, NewKeeps
<1>4. \A v \in VMs : guest'[v] = IF v = Vm(t) THEN r.g ELSE guest[v]
  BY <1>1 DEF Inv, TypeOK
<1>5. \A v \in VMs : guest'[v].mem = guest[v].mem /\ guest'[v].secrets = guest[v].secrets
  BY <1>3, <1>4
<1> QED
  BY <1>4, <1>5 DEF Touches, MayGrow

(* Every step inside the library touches the data as Touches says. *)
LEMMA StepTouches ==
  ASSUME Inv, NEW t \in Threads, Step(t) PROVE Touches(t)
<1> DEFINE g == guest[Vm(t)]
<1>1. ASSUME NEW m, NotFound(t, m) \/ Remove(t, m) \/ GetMut(t, m) PROVE Touches(t)
  BY <1>1, QuietTouches DEF NotFound, Remove, GetMut, kernel
<1>2. ASSUME NEW m, NEW val, Insert(t, m, val) PROVE Touches(t)
  BY <1>2, QuietTouches DEF Insert, kernel
<1>3. ASSUME NEW outcomes, outcomes \subseteq new(g) \cup new_es(g),
             Err(t, "entry", outcomes) \/ OkLauncher(t, "entry", outcomes)
      PROVE  Touches(t)
  BY <1>3, InitTouches DEF Err, OkLauncher
<1>4. ASSUME NEW outcomes, pc[t] # "idle" => Confined(outcomes, g),
             Err(t, "ioctl", outcomes) \/ Ok(t, outcomes) \/ OkLauncher(t, "ioctl", outcomes)
      PROVE  Touches(t)
  BY <1>4, MethodTouches DEF Err, Ok, OkLauncher
<1>5. pc[t] # "idle" => g \in Guest
  BY VmType
<1> HIDE DEF g
<1>6. CASE sev_init(t)
  BY <1>2, <1>3, <1>6 DEF sev_init, g
<1>7. CASE sev_es_init(t)
  BY <1>2, <1>3, <1>7 DEF sev_es_init, g
<1>8. CASE sev_launch_start(t)
  <2>1. pc[t] # "idle" => Confined(start(g), g)
    BY <1>5, DataAssumption, MethodsConfined
  <2> QED
    BY <1>1, <1>2, <1>4, <1>8, <2>1 DEF sev_launch_start, g
<1>9. CASE sev_launch_update_data(t)
  <2>1. pc[t] # "idle" => call[t].arg \in Data
    BY <1>9 DEF sev_launch_update_data, Inv, CallOK, Args, DataOps
  <2>2. pc[t] # "idle" => Confined(update_data(g, call[t].arg), g)
    BY <1>5, <2>1, MethodsConfined
  <2> QED
    BY <1>1, <1>4, <1>9, <2>2 DEF sev_launch_update_data, g
<1>10. CASE sev_launch_update_vmsa(t)
  <2>1. pc[t] # "idle" => Confined(update_vmsa(g), g)
    BY <1>5, DataAssumption, MethodsConfined
  <2> QED
    BY <1>1, <1>4, <1>10, <2>1 DEF sev_launch_update_vmsa, g
<1>11. CASE sev_launch_measure(t)
  <2>1. pc[t] # "idle" => Confined(measure(g), g)
    BY <1>5, DataAssumption, MethodsConfined
  <2> QED
    BY <1>1, <1>2, <1>4, <1>11, <2>1 DEF sev_launch_measure, g
<1>12. CASE sev_inject_launch_secret(t)
  <2>1. pc[t] # "idle" => call[t].arg \in Data
    BY <1>12 DEF sev_inject_launch_secret, Inv, CallOK, Args, DataOps
  <2>2. pc[t] # "idle" => Confined(inject(g, call[t].arg), g)
    BY <1>5, <2>1, MethodsConfined
  <2> QED
    BY <1>1, <1>4, <1>12, <2>2 DEF sev_inject_launch_secret, g
<1>13. CASE sev_launch_finish(t)
  <2>1. pc[t] # "idle" => Confined(finish_attestable(g), g)
    BY <1>5, DataAssumption, MethodsConfined
  <2> QED
    BY <1>1, <1>2, <1>4, <1>13, <2>1 DEF sev_launch_finish, g
<1>14. CASE sev_attestation_report(t)
  <2>1. pc[t] # "idle" => Confined(report(g), g)
    BY <1>5, ReportMoves DEF Confined, MayGrow
  <2>2. CASE BadNonce(t) \/ ReportOk(t)
    BY <2>2, QuietTouches DEF BadNonce, ReportOk, kernel
  <2> QED
    BY <1>1, <1>4, <1>14, <2>1, <2>2 DEF sev_attestation_report, g
<1> QED
  BY <1>6, <1>7, <1>8, <1>9, <1>10, <1>11, <1>12, <1>13, <1>14 DEF Step

-----------------------------------------------------------------------------
(* Why the Rust API's bound on the memory is not in the way: every piece    *)
(* measured has taken a call, and so has every call that may measure one.   *)

Busy == {t \in Threads : pc[t] \in {"entry", "ioctl"}}

Room ==
  /\ IsFiniteSet(Busy)
  /\ \A v \in VMs : Len(guest[v].mem) + Cardinality(Busy) <= calls

(* There is room in the beginning. *)
LEMMA InitRoom == Init => Room
<1> SUFFICES ASSUME Init PROVE Room
  OBVIOUS
<1>1. Busy = {}
  BY DEF Init, Busy
<1>2. Len(NewGuest.mem) = 0
  BY DEF NewGuest
<1> QED
  BY <1>1, <1>2, FS_EmptySet DEF Init, Room

(* A call makes its own room. *)
LEMMA CallRoom ==
  ASSUME Inv, Room, NEW t \in Threads, NEW op, NEW fd, NEW arg, Call(t, op, fd, arg)
  PROVE  Room'
<1>1. Busy' = Busy \cup {t} /\ t \notin Busy
  BY DEF Call, Busy, Inv, TypeOK
<1>2. IsFiniteSet(Busy') /\ Cardinality(Busy') = Cardinality(Busy) + 1
  BY <1>1, FS_AddElement DEF Room
<1>3. guest' = guest /\ calls' = calls + 1
  BY DEF Call, kernel
<1>4. \A v \in VMs : Len(guest[v].mem) \in Nat
  BY DEF Inv, TypeOK, Guest
<1>5. Cardinality(Busy) \in Nat /\ calls \in Int
  BY FS_CardinalityType, MaxCallsAssumption DEF Room, Inv, TypeOK
<1> QED
  BY <1>2, <1>3, <1>4, <1>5 DEF Room

(* A step that measures a piece of memory ends the busy part of its call. *)
LEMMA StepRoom ==
  ASSUME Inv, Inv', Room, NEW t \in Threads, Step(t) PROVE Room'
<1>1. Kinds(t) /\ Touches(t)
  BY StepKinds, StepTouches
<1>2. calls' = calls /\ calls \in Int /\ Cardinality(Busy) \in Nat /\ IsFiniteSet(Busy)
  BY <1>1, FS_CardinalityType, MaxCallsAssumption DEF Room, Inv, TypeOK, Touches
<1>3. \A v \in VMs : Len(guest[v].mem) \in Nat /\ Len(guest'[v].mem) \in Nat
  BY DEF Inv, TypeOK, Guest
<1>4. \A v \in VMs : Len(guest[v].mem) + Cardinality(Busy) <= calls
  BY DEF Room
<1>5. CASE pc[t] # "ioctl"
  <2>1. Busy' \subseteq Busy
    BY <1>1, <1>5 DEF Busy, Kinds, Leaves, LooksUp, Remove, GetMut, Advances, Inserts,
                      Inv, TypeOK
  <2>2. IsFiniteSet(Busy') /\ Cardinality(Busy') <= Cardinality(Busy)
        /\ Cardinality(Busy') \in Nat
    BY <1>2, <2>1, FS_Subset, FS_CardinalityType
  <2>3. \A v \in VMs : Len(guest'[v].mem) = Len(guest[v].mem)
    BY <1>1, <1>5 DEF Touches
  <2> QED
    BY <1>2, <1>3, <1>4, <2>2, <2>3, SMTT(40) DEF Room
<1>6. CASE pc[t] = "ioctl"
  <2>1. Busy' = Busy \ {t} /\ t \in Busy
    BY <1>1, <1>6 DEF Busy, Kinds, Leaves, LooksUp, Remove, GetMut, Advances, Inserts,
                      Inv, TypeOK
  <2>2. IsFiniteSet(Busy') /\ Cardinality(Busy') = Cardinality(Busy) - 1
    BY <1>2, <2>1, FS_RemoveElement
  <2>3. ASSUME NEW v \in VMs
        PROVE  Len(guest'[v].mem) <= Len(guest[v].mem) + 1
    <3>1. guest[v].mem \in Seq(Content)
      BY DEF Inv, TypeOK, Guest
    <3>2. \/ guest'[v].mem = guest[v].mem
          \/ \E c \in Content : guest'[v].mem = Append(guest[v].mem, c)
      BY <1>1 DEF Touches, MayGrow
    <3> QED
      BY <1>3, <3>1, <3>2
  <2> QED
    BY <1>2, <1>3, <1>4, <2>2, <2>3, SMTT(40) DEF Room
<1> QED
  BY <1>5, <1>6

(* A method about to measure has room for what it measures. *)
LEMMA RoomToMeasure ==
  ASSUME Inv, Room, NEW t \in Threads, NEW v \in VMs, pc[t] = "ioctl"
  PROVE  Len(guest[v].mem) < MaxCalls
<1>1. t \in Busy /\ IsFiniteSet(Busy)
  BY DEF Busy, Room
<1>2. Cardinality(Busy) \in Nat /\ Cardinality(Busy) # 0
  BY <1>1, FS_CardinalityType, FS_EmptySet
<1>3. Len(guest[v].mem) \in Nat /\ calls \in 0 .. MaxCalls
  BY DEF Inv, TypeOK, Guest
<1> QED
  BY <1>2, <1>3, MaxCallsAssumption DEF Room

-----------------------------------------------------------------------------
(* Each step of a function is a method of the Rust API, or none. *)

Refines == Launcher!Next \/ UNCHANGED Launcher!vars

(* The types of the launchers of the maps. *)
LEMMA TypeOfLemma ==
  /\ TypeOf["INIT_MAP"] = "New"
  /\ TypeOf["STARTED_MAP"] = "Started"
  /\ TypeOf["MEASURED_MAP"] = "Measured"
  /\ TypeOf["FINISHED_MAP"] = "Finished"
  BY DEF TypeOf

(* A step that changes nothing the Rust API knows of. *)
LEMMA RefinesIfQuiet ==
  ASSUME UNCHANGED <<guest, meas, reports>>, Phase' = Phase PROVE Refines
  BY DEF Refines, Launcher!vars

(* A launcher that is not found, a lookup, an insert. *)
LEMMA RefinesIfNoMethod ==
  ASSUME Inv, Inv', Agree, NEW t \in Threads,
         UNCHANGED <<guest, meas, reports>>,
         (Leaves(t) /\ hand[t] = NoVM) \/ LooksUp(t) \/ Inserts(t)
  PROVE  Refines
  BY LeavesPhase, LooksUpPhase, InsertsPhase, RefinesIfQuiet

(* -1 from a lookup. *)
LEMMA RefinesIfNotFound ==
  ASSUME Inv, Inv', Agree, NEW t \in Threads, NEW m, NotFound(t, m) PROVE Refines
<1>1. Leaves(t) /\ hand[t] = NoVM /\ UNCHANGED <<guest, meas, reports>>
  BY LeavesIfNotFound DEF NotFound, kernel, Inv, HandOK
<1> QED
  BY <1>1, RefinesIfNoMethod

(* A launcher found. *)
LEMMA RefinesIfFound ==
  ASSUME Inv, Inv', Agree, NEW t \in Threads, LooksUp(t) PROVE Refines
<1>1. UNCHANGED <<guest, meas, reports>>
  BY DEF LooksUp, Remove, GetMut, kernel, history
<1> QED
  BY <1>1, RefinesIfNoMethod

(* A launcher inserted. *)
LEMMA RefinesIfInsert ==
  ASSUME Inv, Inv', Agree, NEW t \in Threads, NEW val, call[t].op \in DOMAIN Dest,
         Insert(t, Dest[call[t].op], val)
  PROVE  Refines
<1>1. UNCHANGED <<guest, meas, reports>>
  BY DEF Insert, kernel
<1> QED
  BY <1>1, InsertsIfInsert, RefinesIfNoMethod

(* The launcher a call owns or borrows is of the type of the map it is from. *)
LEMMA PhaseOfCall ==
  ASSUME Inv, Agree, NEW t \in Threads, pc[t] = "ioctl"
  PROVE  /\ Vm(t) \in VMs
         /\ Phase[Vm(t)] = TypeOf[Source[call[t].op]]
<1>1. Vm(t) \in VMs /\ Fd(t) \in Fds
  BY VmType DEF Inv, TypeOK, Fd
<1>2. Source[call[t].op] \in MapNames
  BY DEF Inv, LockOK, Source, MapNames
<1>3. At(Vm(t), Source[call[t].op])
  <2>1. CASE call[t].op \in RemoveOps
    <3>1. hand[t] = Vm(t)
      BY <2>1 DEF Inv, HandOK, Agree, HandsAgree
    <3> QED
      BY <3>1 DEF At, HandMap
  <2>2. CASE call[t].op \notin RemoveOps
    <3>1. maps[Source[call[t].op]][Fd(t)] = Vm(t)
      BY <1>1, <1>2, <2>2 DEF Agree, BorrowsLive, MapsAgree, Vm
    <3> QED
      BY <1>1, <3>1 DEF At
  <2> QED
    BY <2>1, <2>2
<1> QED
  BY <1>1, <1>2, <1>3, PhaseAt

(* A method on a borrowed launcher is that method of the Rust API. *)
LEMMA BorrowIsInvoke ==
  ASSUME Inv, Inv', Agree, NEW t \in Threads, call[t].op \notin RemoveOps,
         NEW outcomes, NEW from,
         Moves(outcomes, guest[Vm(t)], from, from),
         Err(t, "ioctl", outcomes) \/ Ok(t, outcomes),
         NEW p, p = TypeOf[Source[call[t].op]]
  PROVE  /\ Vm(t) \in VMs
         /\ Launcher!Invoke(Vm(t), p, outcomes, p, p)
         /\ UNCHANGED <<meas, reports>>
<1>1. pc[t] = "ioctl" /\ hand[t] = NoVM /\ UNCHANGED <<meas, reports>>
  BY DEF Err, Ok, Inv, HandOK
<1>2. Vm(t) \in VMs /\ Phase[Vm(t)] = p
  BY <1>1, PhaseOfCall
<1>3. Phase' = Phase
  BY <1>1, LeavesIfErr, LeavesIfOk, LeavesPhase
<1>4. Phase' = [Phase EXCEPT ![Vm(t)] = p]
  BY <1>2, <1>3, PhaseLemma
<1>5. \E r \in outcomes : guest' = [guest EXCEPT ![Vm(t)] = r.g]
  BY DEF Err, Ok
<1> QED
  BY <1>1, <1>2, <1>4, <1>5 DEF Launcher!Invoke

(* A method that takes its launcher and fails is that method, and the       *)
(* launcher is gone.                                                        *)
LEMMA LossIsInvoke ==
  ASSUME Inv, Inv', Agree, NEW t \in Threads, call[t].op \in RemoveOps,
         NEW outcomes, NEW from, NEW to,
         Moves(outcomes, guest[Vm(t)], from, to), Err(t, "ioctl", outcomes),
         NEW p, p = TypeOf[Source[call[t].op]], NEW q
  PROVE  /\ Vm(t) \in VMs
         /\ Launcher!Invoke(Vm(t), p, outcomes, q, "Gone")
         /\ Phase'[Vm(t)] = "Gone"
         /\ UNCHANGED <<meas, reports>>
<1>1. pc[t] = "ioctl" /\ UNCHANGED <<meas, reports>>
  BY DEF Err
<1>2. hand[t] # NoVM /\ Vm(t) \in VMs /\ Phase[Vm(t)] = p
  BY <1>1, PhaseOfCall DEF Inv, HandOK
<1>3. Phase' = [Phase EXCEPT ![Vm(t)] = "Gone"]
  BY <1>2, LeavesIfErr, LosesPhase
<1>4. Phase'[Vm(t)] = "Gone"
  BY <1>2, <1>3, PhaseLemma
<1>5. \E r \in outcomes : ~r.ok /\ guest' = [guest EXCEPT ![Vm(t)] = r.g]
  BY DEF Err
<1> QED
  BY <1>1, <1>2, <1>3, <1>4, <1>5 DEF Launcher!Invoke

(* A method that takes its launcher and yields the next is that method. *)
LEMMA YieldIsInvoke ==
  ASSUME Inv, Inv', Agree, NEW t \in Threads, call[t].op \in DOMAIN Dest \cap RemoveOps,
         NEW outcomes, NEW from,
         Moves(outcomes, guest[Vm(t)], from, StateOf[Dest[call[t].op]]),
         OkLauncher(t, "ioctl", outcomes),
         NEW p, p = TypeOf[Source[call[t].op]], NEW q, q = TypeOf[Dest[call[t].op]]
  PROVE  /\ Vm(t) \in VMs /\ hand[t] = Vm(t)
         /\ Launcher!Invoke(Vm(t), p, outcomes, q, "Gone")
         /\ Phase'[Vm(t)] = q
         /\ UNCHANGED reports
<1>1. pc[t] = "ioctl" /\ UNCHANGED reports
  BY DEF OkLauncher
<1>2. hand[t] = Vm(t) /\ Vm(t) \in VMs /\ Phase[Vm(t)] = p
  BY <1>1, PhaseOfCall DEF Inv, HandOK, Agree, HandsAgree
<1>3. Phase' = [Phase EXCEPT ![Vm(t)] = q]
  BY AdvancesIfOkLauncher, AdvancesPhase
<1>4. Phase'[Vm(t)] = q
  BY <1>2, <1>3, PhaseLemma
<1>5. \E r \in outcomes : r.ok /\ guest' = [guest EXCEPT ![Vm(t)] = r.g]
  BY DEF OkLauncher
<1> QED
  BY <1>1, <1>2, <1>3, <1>4, <1>5 DEF Launcher!Invoke

(* A failed constructor does nothing. *)
LEMMA RefinesIfInitFails ==
  ASSUME Inv, Inv', Agree, NEW t \in Threads, NEW outcomes,
         outcomes \in {new(guest[Vm(t)]), new_es(guest[Vm(t)])}, Err(t, "entry", outcomes)
  PROVE  Refines
<1>1. pc[t] = "entry" /\ UNCHANGED <<meas, reports>>
  BY DEF Err
<1>2. hand[t] = NoVM /\ Vm(t) \in VMs /\ guest[Vm(t)] \in Guest
  BY <1>1, VmType DEF Inv, HandOK
<1>3. PICK r \in outcomes : ~r.ok /\ guest' = [guest EXCEPT ![Vm(t)] = r.g]
  BY DEF Err
<1>4. guest' = guest
  BY <1>2, <1>3, NewKeeps DEF Inv, TypeOK
<1>5. Leaves(t)
  BY <1>1, <1>2, NewMoves, LeavesIfErr
<1> QED
  BY <1>1, <1>2, <1>4, <1>5, RefinesIfNoMethod

(* A constructor makes the launcher of a VM that had none. *)
LEMMA RefinesIfInit ==
  ASSUME Inv, Inv', Agree, NEW t \in Threads, NEW outcomes,
         outcomes \in {new(guest[Vm(t)]), new_es(guest[Vm(t)])},
         OkLauncher(t, "entry", outcomes), UNCHANGED meas,
         call[t].op \in DOMAIN Dest, Dest[call[t].op] = "INIT_MAP"
  PROVE  Refines
<1>1. pc[t] = "entry" /\ UNCHANGED reports
  BY DEF OkLauncher
<1>2. Vm(t) \in VMs /\ guest[Vm(t)] \in Guest
  BY <1>1, VmType
<1>3. Moves(outcomes, guest[Vm(t)], "none", StateOf[Dest[call[t].op]])
  BY <1>2, NewMoves, StateOfLemma
<1>4. PICK r \in outcomes : r.ok /\ guest' = [guest EXCEPT ![Vm(t)] = r.g]
  BY DEF OkLauncher
<1>5. guest[Vm(t)].state = "none"
  BY <1>3, <1>4 DEF Moves
<1>6. Phase[Vm(t)] = "None"
  <2>1. \A m \in MapNames : ~At(Vm(t), m)
    BY <1>2, <1>5 DEF Inv, NoneOK, At
  <2> QED
    BY <1>2, <1>5, <2>1, PhaseLemma DEF PhaseOK
<1>7. Phase' = [Phase EXCEPT ![Vm(t)] = "New"]
  BY <1>3, AdvancesIfOkLauncher, AdvancesPhase, TypeOfLemma
<1>8. Launcher!Invoke(Vm(t), "None", new(guest[Vm(t)]) \cup new_es(guest[Vm(t)]),
                      "New", "None")
  BY <1>4, <1>6, <1>7 DEF Launcher!Invoke
<1>9. Launcher!New(Vm(t))
  BY <1>1, <1>8, SameMethods DEF Launcher!New
<1> QED
  BY <1>2, <1>9 DEF Refines, Launcher!Next

(* A step of sev_init is new(), or nothing the Rust API knows of. *)
LEMMA sev_init_Refines ==
  ASSUME Inv, Inv', Agree, NEW t \in Threads, sev_init(t) PROVE Refines
<1> DEFINE g == guest[Vm(t)]
<1>0. call[t].op \in DOMAIN Dest /\ Dest[call[t].op] = "INIT_MAP"
  BY NamesLemma DEF sev_init
<1>1. CASE Err(t, "entry", new(g))
  BY <1>1, RefinesIfInitFails
<1>2. CASE OkLauncher(t, "entry", new(g)) /\ UNCHANGED meas
  BY <1>0, <1>2, RefinesIfInit
<1>3. CASE Insert(t, "INIT_MAP", 0)
  BY <1>0, <1>3, RefinesIfInsert
<1> QED
  BY <1>1, <1>2, <1>3 DEF sev_init

(* A step of sev_es_init is new_es(), or nothing the Rust API knows of. *)
LEMMA sev_es_init_Refines ==
  ASSUME Inv, Inv', Agree, NEW t \in Threads, sev_es_init(t) PROVE Refines
<1> DEFINE g == guest[Vm(t)]
<1>0. call[t].op \in DOMAIN Dest /\ Dest[call[t].op] = "INIT_MAP"
  BY NamesLemma DEF sev_es_init
<1>1. CASE Err(t, "entry", new_es(g))
  BY <1>1, RefinesIfInitFails
<1>2. CASE OkLauncher(t, "entry", new_es(g)) /\ UNCHANGED meas
  BY <1>0, <1>2, RefinesIfInit
<1>3. CASE Insert(t, "INIT_MAP", 0)
  BY <1>0, <1>3, RefinesIfInsert
<1> QED
  BY <1>1, <1>2, <1>3 DEF sev_es_init

(* A step of sev_launch_start is start(), or nothing the Rust API knows of. *)
LEMMA sev_launch_start_Refines ==
  ASSUME Inv, Inv', Agree, NEW t \in Threads, sev_launch_start(t) PROVE Refines
<1> DEFINE g == guest[Vm(t)]
<1>0. /\ call[t].op \in DOMAIN Dest \cap RemoveOps
      /\ Source[call[t].op] = "INIT_MAP" /\ Dest[call[t].op] = "STARTED_MAP"
      /\ TypeOf["INIT_MAP"] = "New" /\ TypeOf["STARTED_MAP"] = "Started"
      /\ StateOf["STARTED_MAP"] = "update"
  BY NamesLemma, TypeOfLemma, StateOfLemma DEF sev_launch_start, RemoveOps
<1>1. CASE NotFound(t, "INIT_MAP")
  BY <1>1, RefinesIfNotFound
<1>2. CASE Remove(t, "INIT_MAP")
  BY <1>0, <1>2, RefinesIfFound DEF LooksUp
<1>3. CASE Err(t, "ioctl", start(g))
  <2>1. Moves(start(g), g, "init", "update")
    BY <1>3, VmType, StartMoves DEF Err
  <2>2. /\ Vm(t) \in VMs
        /\ Launcher!Invoke(Vm(t), "New", start(g), "Started", "Gone")
        /\ Phase'[Vm(t)] = "Gone" /\ UNCHANGED <<meas, reports>>
    BY <1>0, <1>3, <2>1, LossIsInvoke
  <2>3. Launcher!Start(Vm(t))
    BY <2>2, SameMethods DEF Launcher!Start
  <2> QED
    BY <2>2, <2>3 DEF Refines, Launcher!Next
<1>4. CASE OkLauncher(t, "ioctl", start(g)) /\ UNCHANGED meas
  <2>1. Moves(start(g), g, "init", "update")
    BY <1>4, VmType, StartMoves DEF OkLauncher
  <2>2. /\ Vm(t) \in VMs /\ hand[t] = Vm(t)
        /\ Launcher!Invoke(Vm(t), "New", start(g), "Started", "Gone")
        /\ Phase'[Vm(t)] = "Started" /\ UNCHANGED reports
    BY <1>0, <1>4, <2>1, YieldIsInvoke
  <2>3. Launcher!Start(Vm(t))
    BY <1>4, <2>2, SameMethods DEF Launcher!Start
  <2> QED
    BY <2>2, <2>3 DEF Refines, Launcher!Next
<1>5. CASE Insert(t, "STARTED_MAP", IF maps["STARTED_MAP"][Fd(t)] = NoVM THEN 0 ELSE -1)
  BY <1>0, <1>5, RefinesIfInsert
<1> QED
  BY <1>1, <1>2, <1>3, <1>4, <1>5 DEF sev_launch_start

(* A step of sev_launch_update_data is update_data(), or nothing the Rust API knows of. *)
LEMMA sev_launch_update_data_Refines ==
  ASSUME Inv, Inv', Agree, Room, NEW t \in Threads, sev_launch_update_data(t)
  PROVE  Refines
<1> DEFINE g == guest[Vm(t)]
<1>6. pc[t] # "idle" => call[t].arg \in Data
  BY DEF sev_launch_update_data, Inv, CallOK, Args, DataOps
<1>0. /\ call[t].op \in DOMAIN Source \ RemoveOps
      /\ Source[call[t].op] = "STARTED_MAP" /\ TypeOf["STARTED_MAP"] = "Started"
  BY NamesLemma, TypeOfLemma DEF sev_launch_update_data, Ops, DataOps, RemoveOps
<1>1. CASE NotFound(t, "STARTED_MAP")
  BY <1>1, RefinesIfNotFound
<1>2. CASE GetMut(t, "STARTED_MAP")
  BY <1>0, <1>2, RefinesIfFound DEF LooksUp
<1>3. CASE Err(t, "ioctl", update_data(g, call[t].arg)) \/ Ok(t, update_data(g, call[t].arg))
  <2>1. Moves(update_data(g, call[t].arg), g, "update", "update")
    BY <1>6, <1>3, VmType, UpdateDataMoves DEF Err, Ok
  <2>2. /\ Vm(t) \in VMs
        /\ Launcher!Invoke(Vm(t), "Started", update_data(g, call[t].arg), "Started", "Started")
        /\ UNCHANGED <<meas, reports>>
    BY <1>0, <1>3, <2>1, BorrowIsInvoke
  <2>3. Len(guest[Vm(t)].mem) < MaxCalls
    BY <1>3, <2>2, RoomToMeasure DEF Err, Ok
  <2>4. Launcher!UpdateData(Vm(t), call[t].arg)
    BY <2>3, <2>2, SameMethods DEF Launcher!UpdateData
  <2> QED
    BY <1>6, <1>3, <2>2, <2>4 DEF Refines, Launcher!Next, Err, Ok
<1> QED
  BY <1>1, <1>2, <1>3 DEF sev_launch_update_data

(* A step of sev_launch_update_vmsa is update_vmsa(), or nothing the Rust API knows of. *)
LEMMA sev_launch_update_vmsa_Refines ==
  ASSUME Inv, Inv', Agree, Room, NEW t \in Threads, sev_launch_update_vmsa(t)
  PROVE  Refines
<1> DEFINE g == guest[Vm(t)]
<1>0. /\ call[t].op \in DOMAIN Source \ RemoveOps
      /\ Source[call[t].op] = "STARTED_MAP" /\ TypeOf["STARTED_MAP"] = "Started"
  BY NamesLemma, TypeOfLemma DEF sev_launch_update_vmsa, Ops, DataOps, RemoveOps
<1>1. CASE NotFound(t, "STARTED_MAP")
  BY <1>1, RefinesIfNotFound
<1>2. CASE GetMut(t, "STARTED_MAP")
  BY <1>0, <1>2, RefinesIfFound DEF LooksUp
<1>3. CASE Err(t, "ioctl", update_vmsa(g)) \/ Ok(t, update_vmsa(g))
  <2>1. Moves(update_vmsa(g), g, "update", "update")
    BY <1>3, VmType, UpdateVmsaMoves DEF Err, Ok
  <2>2. /\ Vm(t) \in VMs
        /\ Launcher!Invoke(Vm(t), "Started", update_vmsa(g), "Started", "Started")
        /\ UNCHANGED <<meas, reports>>
    BY <1>0, <1>3, <2>1, BorrowIsInvoke
  <2>3. Len(guest[Vm(t)].mem) < MaxCalls
    BY <1>3, <2>2, RoomToMeasure DEF Err, Ok
  <2>4. Launcher!UpdateVmsa(Vm(t))
    BY <2>3, <2>2, SameMethods DEF Launcher!UpdateVmsa
  <2> QED
    BY <1>3, <2>2, <2>4 DEF Refines, Launcher!Next, Err, Ok
<1> QED
  BY <1>1, <1>2, <1>3 DEF sev_launch_update_vmsa

(* A step of sev_launch_measure is measure(), or nothing the Rust API knows of. *)
LEMMA sev_launch_measure_Refines ==
  ASSUME Inv, Inv', Agree, NEW t \in Threads, sev_launch_measure(t) PROVE Refines
<1> DEFINE g == guest[Vm(t)]
<1>0. /\ call[t].op \in DOMAIN Dest \cap RemoveOps
      /\ Source[call[t].op] = "STARTED_MAP" /\ Dest[call[t].op] = "MEASURED_MAP"
      /\ TypeOf["STARTED_MAP"] = "Started" /\ TypeOf["MEASURED_MAP"] = "Measured"
      /\ StateOf["MEASURED_MAP"] = "secret"
  BY NamesLemma, TypeOfLemma, StateOfLemma DEF sev_launch_measure, RemoveOps
<1>1. CASE NotFound(t, "STARTED_MAP")
  BY <1>1, RefinesIfNotFound
<1>2. CASE Remove(t, "STARTED_MAP")
  BY <1>0, <1>2, RefinesIfFound DEF LooksUp
<1>3. CASE Err(t, "ioctl", measure(g))
  <2>1. Moves(measure(g), g, "update", "secret")
    BY <1>3, VmType, MeasureMoves DEF Err
  <2>2. /\ Vm(t) \in VMs
        /\ Launcher!Invoke(Vm(t), "Started", measure(g), "Measured", "Gone")
        /\ Phase'[Vm(t)] = "Gone" /\ UNCHANGED <<meas, reports>>
    BY <1>0, <1>3, <2>1, LossIsInvoke
  <2>3. Launcher!Measure(Vm(t))
    BY <2>2, SameMethods DEF Launcher!Measure
  <2> QED
    BY <2>2, <2>3 DEF Refines, Launcher!Next
<1>4. CASE /\ OkLauncher(t, "ioctl", measure(g))
           /\ meas' = [meas EXCEPT ![hand[t]] = {measurement(guest'[Vm(t)])}]
  <2>1. Moves(measure(g), g, "update", "secret")
    BY <1>4, VmType, MeasureMoves DEF OkLauncher
  <2>2. /\ Vm(t) \in VMs /\ hand[t] = Vm(t)
        /\ Launcher!Invoke(Vm(t), "Started", measure(g), "Measured", "Gone")
        /\ Phase'[Vm(t)] = "Measured" /\ UNCHANGED reports
    BY <1>0, <1>4, <2>1, YieldIsInvoke
  <2>3. Launcher!Measure(Vm(t))
    BY <1>4, <2>2, SameMethods DEF Launcher!Measure
  <2> QED
    BY <2>2, <2>3 DEF Refines, Launcher!Next
<1>5. CASE Insert(t, "MEASURED_MAP", 0)
  BY <1>0, <1>5, RefinesIfInsert
<1> QED
  BY <1>1, <1>2, <1>3, <1>4, <1>5 DEF sev_launch_measure

(* A step of sev_inject_launch_secret is inject(), or nothing the Rust API knows of. *)
LEMMA sev_inject_launch_secret_Refines ==
  ASSUME Inv, Inv', Agree, NEW t \in Threads, sev_inject_launch_secret(t)
  PROVE  Refines
<1> DEFINE g == guest[Vm(t)]
<1>6. pc[t] # "idle" => call[t].arg \in Data
  BY DEF sev_inject_launch_secret, Inv, CallOK, Args, DataOps
<1>0. /\ call[t].op \in DOMAIN Source \ RemoveOps
      /\ Source[call[t].op] = "MEASURED_MAP" /\ TypeOf["MEASURED_MAP"] = "Measured"
  BY NamesLemma, TypeOfLemma DEF sev_inject_launch_secret, Ops, DataOps, RemoveOps
<1>1. CASE NotFound(t, "MEASURED_MAP")
  BY <1>1, RefinesIfNotFound
<1>2. CASE GetMut(t, "MEASURED_MAP")
  BY <1>0, <1>2, RefinesIfFound DEF LooksUp
<1>3. CASE Err(t, "ioctl", inject(g, call[t].arg)) \/ Ok(t, inject(g, call[t].arg))
  <2>1. Moves(inject(g, call[t].arg), g, "secret", "secret")
    BY <1>6, <1>3, VmType, InjectMoves DEF Err, Ok
  <2>2. /\ Vm(t) \in VMs
        /\ Launcher!Invoke(Vm(t), "Measured", inject(g, call[t].arg), "Measured", "Measured")
        /\ UNCHANGED <<meas, reports>>
    BY <1>0, <1>3, <2>1, BorrowIsInvoke
  <2>3. Launcher!Inject(Vm(t), call[t].arg)
    BY <2>2, SameMethods DEF Launcher!Inject
  <2> QED
    BY <1>6, <1>3, <2>2, <2>3 DEF Refines, Launcher!Next, Err, Ok
<1> QED
  BY <1>1, <1>2, <1>3 DEF sev_inject_launch_secret

(* A step of sev_launch_finish is finish_attestable(), or nothing the Rust API knows of. *)
LEMMA sev_launch_finish_Refines ==
  ASSUME Inv, Inv', Agree, NEW t \in Threads, sev_launch_finish(t) PROVE Refines
<1> DEFINE g == guest[Vm(t)]
<1>0. /\ call[t].op \in DOMAIN Dest \cap RemoveOps
      /\ Source[call[t].op] = "MEASURED_MAP" /\ Dest[call[t].op] = "FINISHED_MAP"
      /\ TypeOf["MEASURED_MAP"] = "Measured" /\ TypeOf["FINISHED_MAP"] = "Finished"
      /\ StateOf["FINISHED_MAP"] = "running"
  BY NamesLemma, TypeOfLemma, StateOfLemma DEF sev_launch_finish, RemoveOps
<1>1. CASE NotFound(t, "MEASURED_MAP")
  BY <1>1, RefinesIfNotFound
<1>2. CASE Remove(t, "MEASURED_MAP")
  BY <1>0, <1>2, RefinesIfFound DEF LooksUp
<1>3. CASE Err(t, "ioctl", finish_attestable(g))
  <2>1. Moves(finish_attestable(g), g, "secret", "running")
    BY <1>3, VmType, FinishMoves DEF Err
  <2>2. /\ Vm(t) \in VMs
        /\ Launcher!Invoke(Vm(t), "Measured", finish_attestable(g), "Finished", "Gone")
        /\ Phase'[Vm(t)] = "Gone" /\ UNCHANGED <<meas, reports>>
    BY <1>0, <1>3, <2>1, LossIsInvoke
  <2>3. Launcher!FinishAttestable(Vm(t))
    BY <2>2, SameMethods DEF Launcher!FinishAttestable
  <2> QED
    BY <2>2, <2>3 DEF Refines, Launcher!Next
<1>4. CASE OkLauncher(t, "ioctl", finish_attestable(g)) /\ UNCHANGED meas
  <2>1. Moves(finish_attestable(g), g, "secret", "running")
    BY <1>4, VmType, FinishMoves DEF OkLauncher
  <2>2. /\ Vm(t) \in VMs /\ hand[t] = Vm(t)
        /\ Launcher!Invoke(Vm(t), "Measured", finish_attestable(g), "Finished", "Gone")
        /\ Phase'[Vm(t)] = "Finished" /\ UNCHANGED reports
    BY <1>0, <1>4, <2>1, YieldIsInvoke
  <2>3. Launcher!FinishAttestable(Vm(t))
    BY <1>4, <2>2, SameMethods DEF Launcher!FinishAttestable
  <2> QED
    BY <2>2, <2>3 DEF Refines, Launcher!Next
<1>5. CASE Insert(t, "FINISHED_MAP", 0)
  BY <1>0, <1>5, RefinesIfInsert
<1> QED
  BY <1>1, <1>2, <1>3, <1>4, <1>5 DEF sev_launch_finish

(* A step of sev_attestation_report is report(), or nothing the Rust API    *)
(* knows of.                                                                *)
LEMMA sev_attestation_report_Refines ==
  ASSUME Inv, Inv', Agree, NEW t \in Threads, sev_attestation_report(t) PROVE Refines
<1> DEFINE g == guest[Vm(t)]
<1>0. /\ call[t].op \in DOMAIN Source \ RemoveOps
      /\ Source[call[t].op] = "FINISHED_MAP" /\ TypeOf["FINISHED_MAP"] = "Finished"
  BY NamesLemma, TypeOfLemma DEF sev_attestation_report, ReportOp, Ops, DataOps, RemoveOps
<1>1. CASE NotFound(t, "FINISHED_MAP")
  BY <1>1, RefinesIfNotFound
<1>2. CASE BadNonce(t)
  <2>1. Leaves(t) /\ hand[t] = NoVM /\ UNCHANGED <<guest, meas, reports>>
    BY <1>2, LeavesIfBadNonce DEF BadNonce, kernel, Inv, HandOK
  <2> QED
    BY <2>1, RefinesIfNoMethod
<1>3. CASE GetMut(t, "FINISHED_MAP")
  BY <1>0, <1>3, RefinesIfFound DEF LooksUp
<1>4. CASE Err(t, "ioctl", report(g))
  <2>1. pc[t] = "ioctl" /\ hand[t] = NoVM /\ UNCHANGED <<meas, reports>>
    BY <1>0, <1>4 DEF Err, Inv, HandOK
  <2>2. Vm(t) \in VMs /\ g \in Guest
    BY <2>1, VmType
  <2>3. guest' = guest
    BY <1>4, <2>2, ReportMoves DEF Err, Inv, TypeOK
  <2>4. Leaves(t)
    BY <1>4, <2>2, ReportMoves, LeavesIfErr
  <2> QED
    BY <2>1, <2>3, <2>4, RefinesIfNoMethod
<1>5. CASE ReportOk(t)
  <2>1. pc[t] = "ioctl" /\ hand[t] = NoVM /\ UNCHANGED <<guest, meas>>
    BY <1>0, <1>5 DEF ReportOk, kernel, Inv, HandOK
  <2>2. Vm(t) \in VMs /\ Phase[Vm(t)] = "Finished"
    BY <1>0, <2>1, PhaseOfCall
  <2>3. Phase' = Phase
    BY <1>5, <2>1, LeavesIfReportOk, LeavesPhase
  <2>4. PICK r \in report(g) :
          r.ok /\ reports' = [reports EXCEPT ![Vm(t)] = {measurement(r.g)}]
    BY <1>5 DEF ReportOk
  <2>5. Launcher!Report(Vm(t))
    BY <2>1, <2>2, <2>3, <2>4, SameMethods DEF Launcher!Report
  <2> QED
    BY <2>2, <2>5 DEF Refines, Launcher!Next
<1> QED
  BY <1>1, <1>2, <1>3, <1>4, <1>5 DEF sev_attestation_report

(* The Rust API's initial states. *)
LEMMA InitRefines == Init => Launcher!Init
<1> SUFFICES ASSUME Init PROVE Launcher!Init
  OBVIOUS
<1>1. NewGuest.state = "none"
  BY DEF NewGuest
<1>2. PhaseOK /\ Phase = [v \in VMs |-> Phase[v]]
  BY InitInv, PhaseLemma
<1>3. \A v \in VMs, m \in MapNames : ~At(v, m)
  BY NoVMAssumption DEF Init, At
<1>4. \A v \in VMs : Phase[v] = "None"
  BY <1>1, <1>2, <1>3 DEF Init, PhaseOK
<1>5. Phase = [v \in VMs |-> "None"]
  BY <1>2, <1>4
<1> QED
  BY <1>5, SameMethods DEF Init, Launcher!Init

(* Every step is one of the Rust API, or changes nothing it knows of. *)
LEMMA NextRefines ==
  ASSUME ~ReuseFds, Inv, Inv', Agree, Room, [Next]_vars
  PROVE  [Launcher!Next]_Launcher!vars
<1> SUFFICES Refines
  BY DEF Refines
<1>1. ASSUME NEW fd \in Fds, CreateVm(fd) \/ CloseVm(fd) PROVE Refines
  <2>1. CreateVm(fd) /\ UNCHANGED <<guest, meas, reports>>
    BY <1>1 DEF CreateVm, CloseVm, history
  <2> QED
    BY <2>1, OutsidePhase, RefinesIfQuiet
<1>2. CASE \E t \in Threads, op \in Ops, fd \in Fds : \E arg \in Args(op) :
             Call(t, op, fd, arg)
  <2>1. UNCHANGED <<guest, meas, reports>>
    BY <1>2 DEF Call, kernel, history
  <2> QED
    BY <1>2, <2>1, OutsidePhase, RefinesIfQuiet
<1>3. ASSUME NEW t \in Threads, Step(t) PROVE Refines
  BY <1>3, sev_init_Refines, sev_es_init_Refines, sev_launch_start_Refines,
     sev_launch_update_data_Refines, sev_launch_update_vmsa_Refines,
     sev_launch_measure_Refines, sev_inject_launch_secret_Refines,
     sev_launch_finish_Refines, sev_attestation_report_Refines
     DEF Step
<1>4. CASE UNCHANGED vars
  <2>1. UNCHANGED <<guest, maps, pc, call, hand, meas, reports>>
    BY <1>4 DEF vars, kernel, history
  <2>2. Phase' = Phase
    BY <2>1 DEF Phase
  <2> QED
    BY <2>1, <2>2, RefinesIfQuiet
<1> QED
  BY <1>1, <1>2, <1>3, <1>4 DEF Next

(* Room survives every step. *)
LEMMA NextRoom ==
  ASSUME Inv, Inv', Room, [Next]_vars PROVE Room'
<1>1. ASSUME NEW fd \in Fds, CreateVm(fd) \/ CloseVm(fd) PROVE Room'
  BY <1>1 DEF CreateVm, CloseVm, Room, Busy
<1>2. CASE UNCHANGED vars
  BY <1>2 DEF vars, kernel, Room, Busy
<1> QED
  BY <1>1, <1>2, CallRoom, StepRoom DEF Next

(* Through the C API, with descriptors that are not reused, every VM goes   *)
(* through a launch of the Rust API of src/launch/sev.rs.                   *)
THEOREM CApiImplementsRustApi ==
  ASSUME ~ReuseFds PROVE Spec => ImplementsLauncher
<1>1. Init => Inv /\ Agree /\ Room /\ Launcher!Init
  BY InitInv, InitAgree, InitRoom, InitRefines
<1>2. Inv /\ Agree /\ Room /\ [Next]_vars => (Inv /\ Agree /\ Room)'
  BY NextInv, NextAgree, NextRoom
<1>3. Inv /\ Inv' /\ Agree /\ Room /\ [Next]_vars => [Launcher!Next]_Launcher!vars
  BY NextRefines
<1> QED
  BY <1>1, <1>2, <1>3, PTL DEF Spec, ImplementsLauncher, Launcher!Spec

-----------------------------------------------------------------------------
(* What the Rust API promises holds through the C API as well. *)

RustApi == INSTANCE SevLauncherProofs WITH phase <- Phase, MaxContent <- MaxCalls

(* RustApi and Launcher are the same instance, one with its theorems. *)
LEMMA SameApi == [Launcher!Next]_Launcher!vars => [RustApi!Next]_RustApi!vars
<1>1. \A g, d : /\ Launcher!new(g) = RustApi!new(g)
                /\ Launcher!new_es(g) = RustApi!new_es(g)
                /\ Launcher!start(g) = RustApi!start(g)
                /\ Launcher!register_kvm_enc_region(g, d)
                     = RustApi!register_kvm_enc_region(g, d)
                /\ Launcher!update_data_without_registration(g, d)
                     = RustApi!update_data_without_registration(g, d)
                /\ Launcher!update_data(g, d) = RustApi!update_data(g, d)
                /\ Launcher!update_vmsa(g) = RustApi!update_vmsa(g)
                /\ Launcher!measure(g) = RustApi!measure(g)
                /\ Launcher!measurement(g) = RustApi!measurement(g)
                /\ Launcher!inject(g, d) = RustApi!inject(g, d)
                /\ Launcher!finish(g) = RustApi!finish(g)
                /\ Launcher!finish_attestable(g) = RustApi!finish_attestable(g)
                /\ Launcher!report(g) = RustApi!report(g)
  BY DEF Launcher!new, Launcher!new_es, Launcher!start,
         Launcher!update_data, Launcher!register_kvm_enc_region,
         Launcher!update_data_without_registration, Launcher!update_vmsa,
         Launcher!measure, Launcher!inject, Launcher!finish,
         Launcher!finish_attestable, Launcher!report, Launcher!measurement,
         Launcher!Cmd, Launcher!Then, Launcher!INIT, Launcher!LAUNCH_START,
         Launcher!ENC_REG_REGION, Launcher!Encrypt,
         Launcher!LAUNCH_UPDATE_DATA, Launcher!LAUNCH_UPDATE_VMSA,
         Launcher!LAUNCH_MEASURE, Launcher!LAUNCH_SECRET,
         Launcher!LAUNCH_FINISH, Launcher!LAUNCH_ATTESTATION,
         Launcher!Ioctl, Launcher!Refused, Launcher!Failed,
         Launcher!Succeeded, Launcher!NoErr, Launcher!Os, Launcher!ToIo,
         Launcher!encapsulate, Launcher!FromIo, Launcher!FromU32,
         Launcher!Other, Launcher!InvalidGuestState, Launcher!InvalidLen,
         Launcher!KnownCodes, Launcher!IoErr, Launcher!UnknownErr,
         RustApi!new, RustApi!new_es, RustApi!start, RustApi!update_data,
         RustApi!register_kvm_enc_region,
         RustApi!update_data_without_registration, RustApi!update_vmsa,
         RustApi!measure, RustApi!inject, RustApi!finish,
         RustApi!finish_attestable, RustApi!report, RustApi!measurement,
         RustApi!Cmd, RustApi!Then, RustApi!INIT, RustApi!LAUNCH_START,
         RustApi!ENC_REG_REGION, RustApi!Encrypt,
         RustApi!LAUNCH_UPDATE_DATA, RustApi!LAUNCH_UPDATE_VMSA,
         RustApi!LAUNCH_MEASURE, RustApi!LAUNCH_SECRET,
         RustApi!LAUNCH_FINISH, RustApi!LAUNCH_ATTESTATION, RustApi!Ioctl,
         RustApi!Refused, RustApi!Failed, RustApi!Succeeded, RustApi!NoErr,
         RustApi!Os, RustApi!ToIo, RustApi!encapsulate, RustApi!FromIo,
         RustApi!FromU32, RustApi!Other, RustApi!InvalidGuestState,
         RustApi!InvalidLen, RustApi!KnownCodes, RustApi!IoErr,
         RustApi!UnknownErr
<1>2. ASSUME NEW v \in VMs, NEW d \in Data
      PROVE  /\ Launcher!New(v) => RustApi!New(v)
             /\ Launcher!Start(v) => RustApi!Start(v)
             /\ Launcher!UpdateVmsa(v) => RustApi!UpdateVmsa(v)
             /\ Launcher!Measure(v) => RustApi!Measure(v)
             /\ Launcher!Finish(v) => RustApi!Finish(v)
             /\ Launcher!FinishAttestable(v) => RustApi!FinishAttestable(v)
             /\ Launcher!Report(v) => RustApi!Report(v)
             /\ Launcher!Drop(v) => RustApi!Drop(v)
             /\ Launcher!UpdateData(v, d) => RustApi!UpdateData(v, d)
             /\ Launcher!RegisterRegion(v, d) => RustApi!RegisterRegion(v, d)
             /\ Launcher!UpdateDataWithoutRegistration(v, d)
                  => RustApi!UpdateDataWithoutRegistration(v, d)
             /\ Launcher!Inject(v, d) => RustApi!Inject(v, d)
  BY <1>1 DEF Launcher!Invoke, RustApi!Invoke, Launcher!New, RustApi!New,
              Launcher!Start, RustApi!Start, Launcher!UpdateVmsa,
              RustApi!UpdateVmsa, Launcher!Measure, RustApi!Measure,
              Launcher!Finish, RustApi!Finish, Launcher!FinishAttestable,
              RustApi!FinishAttestable, Launcher!Report, RustApi!Report,
              Launcher!Drop, RustApi!Drop, Launcher!UpdateData,
              RustApi!UpdateData, Launcher!RegisterRegion,
              RustApi!RegisterRegion,
              Launcher!UpdateDataWithoutRegistration,
              RustApi!UpdateDataWithoutRegistration, Launcher!Inject,
              RustApi!Inject
<1> QED
  BY <1>2, DataAssumption DEF Launcher!Next, RustApi!Next, Launcher!vars, RustApi!vars

(* The invariant of the Rust API is one of the C API. *)
LEMMA RustInv == ASSUME ~ReuseFds PROVE Spec => []RustApi!Inv
<1>1. Launcher!Init => RustApi!Init
  BY DEF Launcher!Init, RustApi!Init, Launcher!NewGuest, RustApi!NewGuest
<1>2. RustApi!Spec => []RustApi!Inv
  BY RustApi!SpecInv, DataAssumption, FailuresAssumption, MaxCallsAssumption
<1> QED
  BY <1>1, <1>2, SameApi, CApiImplementsRustApi, PTL
     DEF ImplementsLauncher, Launcher!Spec, RustApi!Spec

-----------------------------------------------------------------------------
(* The measurement reaches the caller before a secret reaches the guest. *)

Delivering(v) ==
  \E t \in Threads :
    hand[t] = v /\ pc[t] = "insert" /\ call[t].op = "sev_launch_measure"

(* A measured guest's measurement was delivered, or is about to be and the  *)
(* guest has no secret yet.                                                 *)
Delivery ==
  \A v \in VMs :
    guest[v].state \in {"secret", "running"} =>
      \/ delivered[v] = meas[v]
      \/ guest[v].secrets = {} /\ Delivering(v)

(* What a step does to the measurements, and to the caller's copies. *)
Delivers(t) ==
  \/ /\ UNCHANGED <<meas, delivered>>
     /\ call[t].op = "sev_launch_measure" => pc[t] # "insert" /\ pc'[t] # "insert"
  \/ /\ call[t].op = "sev_launch_measure" /\ pc[t] = "ioctl" /\ pc'[t] = "insert"
     /\ \A w \in VMs \ {hand[t]} : meas'[w] = meas[w]
     /\ UNCHANGED delivered
  \/ /\ call[t].op = "sev_launch_measure" /\ pc[t] = "insert"
     /\ delivered' = [delivered EXCEPT ![Vm(t)] = meas[hand[t]]]
     /\ UNCHANGED meas

(* Every step inside the library is one of these. *)
LEMMA StepDelivers ==
  ASSUME Inv, NEW t \in Threads, Step(t) PROVE Delivers(t)
<1>1. CASE call[t].op # "sev_launch_measure"
  <2>1. UNCHANGED <<meas, delivered>>
    BY <1>1 DEF Step, sev_init, sev_es_init, sev_launch_start, sev_launch_update_data,
                sev_launch_update_vmsa, sev_launch_measure, sev_inject_launch_secret,
                sev_launch_finish, sev_attestation_report, NotFound, Remove, GetMut, Err,
                Ok, OkLauncher, Insert, BadNonce, ReportOk, history
  <2> QED
    BY <1>1, <2>1 DEF Delivers
<1>2. CASE call[t].op = "sev_launch_measure"
  <2>0. sev_launch_measure(t)
    BY <1>2 DEF Step, sev_init, sev_es_init, sev_launch_start, sev_launch_update_data,
                sev_launch_update_vmsa, sev_inject_launch_secret, sev_launch_finish,
                sev_attestation_report, ReportOp
  <2>1. CASE \/ NotFound(t, "STARTED_MAP") \/ Remove(t, "STARTED_MAP")
             \/ Err(t, "ioctl", measure(guest[Vm(t)]))
    <3>1. UNCHANGED <<meas, delivered>> /\ pc[t] # "insert"
      BY <2>1 DEF NotFound, Remove, Err, history
    <3>2. pc'[t] # "insert"
      BY <2>1 DEF NotFound, Remove, Err, Return, Inv, TypeOK
    <3> QED
      BY <3>1, <3>2 DEF Delivers
  <2>2. CASE /\ OkLauncher(t, "ioctl", measure(guest[Vm(t)]))
             /\ meas' = [meas EXCEPT ![hand[t]] = {measurement(guest'[Vm(t)])}]
    <3>1. pc[t] = "ioctl" /\ pc'[t] = "insert" /\ UNCHANGED delivered
      BY <2>2 DEF OkLauncher, Inv, TypeOK
    <3>2. \A w \in VMs \ {hand[t]} : meas'[w] = meas[w]
      BY <2>2 DEF Inv, TypeOK
    <3> QED
      BY <1>2, <3>1, <3>2 DEF Delivers
  <2>3. CASE /\ Insert(t, "MEASURED_MAP", 0)
             /\ delivered' = [delivered EXCEPT ![Vm(t)] = meas[hand[t]]]
    BY <1>2, <2>3 DEF Insert, Delivers
  <2> QED
    BY <2>0, <2>1, <2>2, <2>3 DEF sev_launch_measure
<1> QED
  BY <1>1, <1>2

(* A launcher that is being delivered is not one a call is using. *)
LEMMA DeliveringUnused ==
  ASSUME Inv, Agree, NEW t \in Threads, pc[t] = "ioctl"
  PROVE  ~Delivering(Vm(t))
<1>1. SUFFICES ASSUME NEW u \in Threads, hand[u] = Vm(t), pc[u] = "insert" PROVE FALSE
  BY DEF Delivering
<1>2. Vm(t) # NoVM /\ Fd(t) \in Fds
  BY VmType, NoVMAssumption DEF Inv, TypeOK, Fd
<1>3. CASE call[t].op \in RemoveOps
  <2>1. hand[t] = Vm(t)
    BY <1>3 DEF Inv, HandOK, Agree, HandsAgree
  <2> QED
    BY <1>1, <1>2, <2>1 DEF Inv, UniqueLauncher
<1>4. CASE call[t].op \notin RemoveOps
  <2>1. Source[call[t].op] \in MapNames
    BY DEF Inv, LockOK, Source, MapNames
  <2>2. maps[Source[call[t].op]][Fd(t)] = Vm(t)
    BY <1>2, <1>4, <2>1 DEF Agree, BorrowsLive, MapsAgree, Vm
  <2> QED
    BY <1>1, <1>2, <2>1, <2>2 DEF Inv, UniqueLauncher
<1> QED
  BY <1>3, <1>4

(* Delivery survives every step inside the library. *)
LEMMA StepDelivery ==
  ASSUME Inv, Agree, RustApi!Inv, Delivery, NEW t \in Threads, Step(t) PROVE Delivery'
<1>1. Kinds(t) /\ Touches(t) /\ Delivers(t)
  BY StepKinds, StepTouches, StepDelivers
<1>2. \A u \in Threads \ {t} : hand'[u] = hand[u] /\ pc'[u] = pc[u] /\ call'[u] = call[u]
  BY <1>1 DEF Kinds, Leaves, LooksUp, Remove, GetMut, Advances, Inserts, Inv, TypeOK
<1>3. \A v \in VMs :
        (\E u \in Threads \ {t} :
           hand[u] = v /\ pc[u] = "insert" /\ call[u].op = "sev_launch_measure")
        => Delivering(v)'
  BY <1>2 DEF Delivering
<1> SUFFICES ASSUME NEW v \in VMs, guest'[v].state \in {"secret", "running"}
             PROVE  \/ delivered'[v] = meas'[v]
                    \/ guest'[v].secrets = {} /\ Delivering(v)'
  BY DEF Delivery
<1>4. CASE guest[v].state \in {"secret", "running"} /\ v # Vm(t)
  <2>1. guest'[v] = guest[v]
    BY <1>1, <1>4 DEF Touches
  <2>2. hand[t] # v
    BY <1>4, NoVMAssumption DEF Agree, HandsAgree
  <2>3. delivered'[v] = delivered[v] /\ meas'[v] = meas[v]
    BY <1>1, <1>4, <2>2 DEF Delivers, Inv, TypeOK
  <2> QED
    BY <1>3, <1>4, <2>1, <2>2, <2>3 DEF Delivery, Delivering
<1>5. CASE guest[v].state \in {"secret", "running"} /\ v = Vm(t)
  <2>1. CASE call[t].op = "sev_launch_measure" /\ pc[t] = "insert"
    <3>1. hand[t] = v
      BY <1>5, <2>1 DEF Inv, HandOK, Agree, HandsAgree
    <3>2. delivered' = [delivered EXCEPT ![v] = meas[v]] /\ meas' = meas
      BY <1>1, <1>5, <2>1, <3>1 DEF Delivers
    <3> QED
      BY <3>2 DEF Inv, TypeOK
  <2>2. CASE call[t].op = "sev_launch_measure" /\ pc[t] = "ioctl" /\ pc'[t] = "insert"
    <3>1. guest[v].state = "update"
      BY <1>5, <2>2, AgreeInOrder, NamesLemma, StateOfLemma DEF IoctlInOrder
    <3> QED
      BY <1>5, <3>1
  <2>3. CASE UNCHANGED <<meas, delivered>>
             /\ (call[t].op = "sev_launch_measure" => pc[t] # "insert")
    <3>1. CASE delivered[v] = meas[v]
      BY <2>3, <3>1
    <3>2. CASE guest[v].secrets = {} /\ Delivering(v)
      <4>1. pc[t] # "ioctl"
        BY <1>5, <3>2, DeliveringUnused
      <4>2. guest'[v].secrets = {}
        BY <1>1, <3>2, <4>1 DEF Touches
      <4>3. Delivering(v)'
        BY <1>3, <2>3, <3>2 DEF Delivering
      <4> QED
        BY <4>2, <4>3
    <3> QED
      BY <1>5, <3>1, <3>2 DEF Delivery
  <2> QED
    BY <1>1, <2>1, <2>2, <2>3 DEF Delivers
<1>6. CASE guest[v].state \notin {"secret", "running"}
  <2>1. Advances(t) /\ v = Vm(t)
    BY <1>1, <1>6 DEF Kinds, Leaves, SameStates, LooksUp, Remove, GetMut, kernel,
                      Advances, Inserts
  <2>2. call[t].op \in DOMAIN Dest /\ guest'[v].state = StateOf[Dest[call[t].op]]
    BY <2>1 DEF Advances
  <2>3. call[t].op \in {"sev_launch_measure", "sev_launch_finish"}
    BY <2>2, NamesLemma, StateOfLemma
  <2>4. pc[t] = "ioctl" /\ hand' = hand /\ hand[t] = v
    <3>1. pc[t] # "entry"
      BY <2>1, <2>3, NamesLemma, ZenonT(60) DEF Advances, Inv, CallOK, Step, sev_init, sev_es_init,
         sev_launch_start, sev_launch_update_data, sev_launch_update_vmsa,
         sev_launch_measure, sev_inject_launch_secret, sev_launch_finish,
         sev_attestation_report, ReportOp, NotFound, Remove, Err, OkLauncher, Insert,
         Return, TypeOK
    <3> QED
      BY <2>1, <2>3, <3>1, SMTT(40) DEF Advances, Inv, HandOK, Agree, HandsAgree
  <2>5. guest[v].state = StateOf[Source[call[t].op]]
    BY <2>1, <2>4, AgreeInOrder DEF IoctlInOrder
  <2>6. call[t].op = "sev_launch_measure" /\ guest[v].state = "update"
    BY <1>6, <2>3, <2>5, NamesLemma, StateOfLemma
  <2>7. guest'[v].secrets = {}
    <3>1. guest[v].secrets = {}
      BY <2>6 DEF RustApi!Inv, RustApi!NoEarlySecret
    <3> QED
      BY <1>1, <2>6, <3>1 DEF Touches, MayGrow
  <2>8. Delivering(v)'
    <3>1. pc'[t] = "insert" /\ call' = call
      BY <2>1 DEF Advances, Inv, TypeOK
    <3> QED
      BY <2>4, <2>6, <3>1 DEF Delivering
  <2> QED
    BY <2>7, <2>8
<1> QED
  BY <1>4, <1>5, <1>6

(* Delivery survives the steps of the program. *)
LEMMA NextDelivery ==
  ASSUME ~ReuseFds, Inv, Agree, RustApi!Inv, Delivery, [Next]_vars PROVE Delivery'
<1>1. ASSUME UNCHANGED <<guest, hand, meas, delivered>>,
             \A u \in Threads : pc[u] = "insert" => pc'[u] = pc[u] /\ call'[u] = call[u]
      PROVE  Delivery'
  BY <1>1 DEF Delivery, Delivering
<1>2. ASSUME NEW fd \in Fds, CreateVm(fd) \/ CloseVm(fd) PROVE Delivery'
  BY <1>1, <1>2 DEF CreateVm, CloseVm, history
<1>3. ASSUME NEW t \in Threads, NEW op, NEW fd, NEW arg, Call(t, op, fd, arg)
      PROVE  Delivery'
  <2>1. UNCHANGED <<guest, hand, meas, delivered>>
    BY <1>3 DEF Call, kernel, history
  <2>2. \A u \in Threads : pc[u] = "insert" => pc'[u] = pc[u] /\ call'[u] = call[u]
    BY <1>3 DEF Call, Inv, TypeOK
  <2> QED
    BY <1>1, <2>1, <2>2
<1>4. CASE UNCHANGED vars
  BY <1>1, <1>4 DEF vars, kernel, history
<1> QED
  BY <1>2, <1>3, <1>4, StepDelivery DEF Next

(* Nothing is measured in the beginning. *)
LEMMA InitDelivery == Init => Delivery
<1>1. NewGuest.state = "none"
  BY DEF NewGuest
<1> QED
  BY <1>1 DEF Init, Delivery

(* A secret goes only into a guest of whose whole memory the measurement    *)
(* was copied to the caller by sev_launch_measure.                          *)
THEOREM SecretsAfterDelivery ==
  ASSUME ~ReuseFds PROVE Spec => []SecretAfterDelivery
<1>1. Inv /\ RustApi!Inv /\ Delivery => SecretAfterDelivery
  <2> SUFFICES ASSUME Inv, RustApi!Inv, Delivery, NEW v \in VMs, guest[v].secrets # {}
               PROVE  delivered[v] = {guest[v].mem}
    BY DEF SecretAfterDelivery
  <2>1. guest[v].state \in GuestStates
    BY DEF Inv, TypeOK, Guest
  <2>2. guest[v].state \in {"secret", "running"}
    BY <2>1 DEF GuestStates, RustApi!Inv, RustApi!NoEarlySecret
  <2>3. meas[v] = {guest[v].mem}
    BY <2>2 DEF RustApi!Inv, RustApi!MeasuredIsAll
  <2> QED
    BY <2>2, <2>3 DEF Delivery
<1>2. Inv /\ Agree /\ RustApi!Inv /\ Delivery /\ [Next]_vars => Delivery'
  BY NextDelivery
<1>3. Spec => [](Inv /\ Agree) /\ []RustApi!Inv
  BY OrderInv, RustInv, PTL
<1> QED
  BY <1>1, <1>2, <1>3, InitDelivery, PTL DEF Spec
=============================================================================
