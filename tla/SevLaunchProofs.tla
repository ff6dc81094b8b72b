-------------------------- MODULE SevLaunchProofs ---------------------------
(***************************************************************************)
(* What the launch methods can do to a guest: lemmas that stand for their   *)
(* definitions wherever a specification calls them.                         *)
(***************************************************************************)
EXTENDS SevLaunch, TLAPS

(* The outcomes of a method on a guest whose state must be from, and is to  *)
(* after success and unchanged after failure.                               *)
Moves(outcomes, g, from, to) ==
  /\ outcomes \subseteq Outcome
  /\ \A r \in outcomes : IF r.ok THEN g.state = from /\ r.g.state = to
                                 ELSE r.g.state = g.state

(* The same of an ioctl. *)
IoctlMoves(ioctls, g, from, to) ==
  /\ ioctls \subseteq [ok : BOOLEAN, error : Nat, g : Guest]
  /\ \A o \in ioctls : IF o.ok THEN g.state = from /\ o.g.state = to
                               ELSE o.g.state = g.state

(* Every firmware code, known or not, becomes an Indeterminate<Error>. *)
LEMMA EncapsulateType ==
  ASSUME NEW code \in Nat
  PROVE  ToIo(encapsulate(code)) \in IoError
  BY DEF ToIo, encapsulate, FromIo, FromU32, Other, IoError, Indeterminate,
         IoErr, UnknownErr

(* What an ioctl does to the guest's state, its method does. *)
LEMMA CmdMoves ==
  ASSUME NEW ioctls, NEW g, NEW from, NEW to, IoctlMoves(ioctls, g, from, to)
  PROVE  Moves(Cmd(ioctls), g, from, to)
<1>1. NoErr \in IoError
  BY DEF NoErr, Os, IoError, Indeterminate, IoErr
<1>2. ASSUME NEW o \in ioctls
      PROVE  LET r == [ok |-> o.ok,
                       e |-> IF o.ok THEN NoErr ELSE ToIo(encapsulate(o.error)),
                       g |-> o.g]
             IN  /\ r \in Outcome
                 /\ IF r.ok THEN g.state = from /\ r.g.state = to
                            ELSE r.g.state = g.state
  <2>1. o.ok \in BOOLEAN /\ o.error \in Nat /\ o.g \in Guest
    BY DEF IoctlMoves
  <2>2. ToIo(encapsulate(o.error)) \in IoError
    BY <2>1, EncapsulateType
  <2>3. IF o.ok THEN g.state = from /\ o.g.state = to ELSE o.g.state = g.state
    BY DEF IoctlMoves
  <2> QED
    BY <1>1, <2>1, <2>2, <2>3 DEF Outcome
<1> QED
  BY <1>2 DEF Moves, Cmd

(* Encrypting more memory keeps a guest a guest. *)
LEMMA AppendGuest ==
  ASSUME NEW g \in Guest, NEW c \in Content
  PROVE  /\ [g EXCEPT !.mem = Append(@, c)] \in Guest
         /\ [g EXCEPT !.mem = Append(@, c)].state = g.state
<1>1. Append(g.mem, c) \in Seq(Content)
  BY DEF Guest
<1> QED
  BY <1>1 DEF Guest

(* The two kinds of outcome an ioctl is made of, and their union. *)
LEMMA FailedMoves ==
  ASSUME NEW g, NEW h \in Guest, NEW codes \in SUBSET Nat, NEW from, NEW to,
         h.state = g.state
  PROVE  IoctlMoves(Failed(h, codes), g, from, to)
<1>1. ASSUME NEW c \in codes
      PROVE  LET o == [ok |-> FALSE, error |-> c, g |-> h]
             IN  o \in [ok : BOOLEAN, error : Nat, g : Guest] /\ ~o.ok /\ o.g = h
  OBVIOUS
<1> QED
  BY <1>1 DEF IoctlMoves, Failed

(* An ioctl that succeeds moves its guest. *)
LEMMA SucceededMoves ==
  ASSUME NEW g, NEW h \in Guest, NEW from, NEW to, g.state = from, h.state = to
  PROVE  IoctlMoves(Succeeded(h), g, from, to)
<1>1. LET o == [ok |-> TRUE, error |-> 0, g |-> h]
      IN  o \in [ok : BOOLEAN, error : Nat, g : Guest] /\ o.ok /\ o.g = h
  OBVIOUS
<1> QED
  BY <1>1 DEF IoctlMoves, Succeeded

(* Outcomes put together move the guest as each of them does. *)
LEMMA UnionMoves ==
  ASSUME NEW A, NEW B, NEW g, NEW from, NEW to,
         IoctlMoves(A, g, from, to), IoctlMoves(B, g, from, to)
  PROVE  IoctlMoves(A \cup B, g, from, to)
  BY DEF IoctlMoves

(* An ioctl refused for being out of order moves nothing. *)
LEMMA RefusedMoves ==
  ASSUME NEW g \in Guest, NEW from, NEW to
  PROVE  IoctlMoves(Refused(g), g, from, to)
<1>1. {IF g.state = "none" THEN 0 ELSE InvalidGuestState} \in SUBSET Nat
  BY DEF InvalidGuestState
<1> QED
  BY <1>1, FailedMoves DEF Refused

(* A refused or failed ioctl leaves the guest alone; an allowed one may     *)
(* also succeed.                                                            *)
LEMMA IoctlLemma ==
  ASSUME NEW g \in Guest, NEW next \in Guest, NEW allowed \in BOOLEAN,
         NEW from, NEW to, allowed => g.state = from /\ next.state = to
  PROVE  IoctlMoves(Ioctl(g, allowed, next), g, from, to)
<1>1. IoctlMoves(Failed(g, Failures), g, from, to)
  BY FailuresAssumption, FailedMoves
<1>2. IoctlMoves(IF allowed THEN Succeeded(next) ELSE Refused(g), g, from, to)
  BY SucceededMoves, RefusedMoves
<1> QED
  BY <1>1, <1>2, UnionMoves DEF Ioctl

(* new() and new_es() make a VM an SEV guest. *)
LEMMA NewMoves ==
  ASSUME NEW g \in Guest
  PROVE  Moves(new(g), g, "none", "init") /\ Moves(new_es(g), g, "none", "init")
<1>1. ASSUME NEW es \in BOOLEAN
      PROVE  IoctlMoves(INIT(g, es), g, "none", "init")
  <2> DEFINE h == [g EXCEPT !.state = "init", !.es = es]
  <2>1. h \in Guest /\ h.state = "init"
    BY DEF Guest, GuestStates
  <2>2. IoctlMoves(Failed(g, Failures), g, "none", "init")
    BY FailuresAssumption, FailedMoves
  <2>3. IoctlMoves(IF g.state = "none" THEN Succeeded(h) ELSE Failed(g, {0}),
                   g, "none", "init")
    <3> HIDE DEF h
    <3> QED
      BY <2>1, SucceededMoves, FailedMoves
  <2> QED
    BY <2>2, <2>3, UnionMoves DEF INIT
<1> QED
  BY <1>1, CmdMoves DEF new, new_es

(* start() takes a guest from init to update. *)
LEMMA StartMoves ==
  ASSUME NEW g \in Guest
  PROVE  Moves(start(g), g, "init", "update")
<1>1. [g EXCEPT !.state = "update"] \in Guest
      /\ [g EXCEPT !.state = "update"].state = "update"
  BY DEF Guest, GuestStates
<1>2. IoctlMoves(LAUNCH_START(g), g, "init", "update")
  BY <1>1, IoctlLemma DEF LAUNCH_START
<1> QED
  BY <1>2, CmdMoves DEF start

(* measure() takes a guest from update to secret. *)
LEMMA MeasureMoves ==
  ASSUME NEW g \in Guest
  PROVE  Moves(measure(g), g, "update", "secret")
<1>1. [g EXCEPT !.state = "secret"] \in Guest
      /\ [g EXCEPT !.state = "secret"].state = "secret"
  BY DEF Guest, GuestStates
<1>2. IoctlMoves(LAUNCH_MEASURE(g), g, "update", "secret")
  BY <1>1, IoctlLemma DEF LAUNCH_MEASURE
<1> QED
  BY <1>2, CmdMoves DEF measure

(* finish() and finish_attestable() take a guest from secret to running. *)
LEMMA FinishMoves ==
  ASSUME NEW g \in Guest
  PROVE  Moves(finish_attestable(g), g, "secret", "running")
<1>1. [g EXCEPT !.state = "running"] \in Guest
      /\ [g EXCEPT !.state = "running"].state = "running"
  BY DEF Guest, GuestStates
<1>2. IoctlMoves(LAUNCH_FINISH(g), g, "secret", "running")
  BY <1>1, IoctlLemma DEF LAUNCH_FINISH
<1> QED
  BY <1>2, CmdMoves DEF finish_attestable

(* inject() leaves a guest in secret. *)
LEMMA InjectMoves ==
  ASSUME NEW g \in Guest, NEW s \in Data
  PROVE  Moves(inject(g, s), g, "secret", "secret")
<1>1. [g EXCEPT !.secrets = @ \cup {s}] \in Guest
      /\ [g EXCEPT !.secrets = @ \cup {s}].state = g.state
  BY DEF Guest
<1>2. IoctlMoves(LAUNCH_SECRET(g, s), g, "secret", "secret")
  BY <1>1, IoctlLemma DEF LAUNCH_SECRET
<1> QED
  BY <1>2, CmdMoves DEF inject

(* Pages may be encrypted, never a state changed. *)
LEMMA EncryptMoves ==
  ASSUME NEW g \in Guest, NEW c \in Content, NEW allowed \in BOOLEAN,
         allowed => g.state = "update"
  PROVE  Moves(Cmd(Encrypt(g, c, allowed)), g, "update", "update")
<1> DEFINE h == [g EXCEPT !.mem = Append(@, c)]
<1> DEFINE p == [g EXCEPT !.mem = Append(@, "partial")]
<1>1. h \in Guest /\ h.state = g.state
  BY AppendGuest
<1>2. p \in Guest /\ p.state = g.state
  BY AppendGuest DEF Content
<1>3. IoctlMoves(Ioctl(g, allowed, h), g, "update", "update")
  <2> HIDE DEF h
  <2> QED
    BY <1>1, IoctlLemma
<1>4. IoctlMoves(IF allowed THEN Failed(p, Failures) ELSE {}, g, "update", "update")
  <2> HIDE DEF p
  <2>1. IoctlMoves(Failed(p, Failures), g, "update", "update")
    BY <1>2, FailuresAssumption, FailedMoves
  <2> QED
    BY <2>1 DEF IoctlMoves
<1>5. IoctlMoves(Encrypt(g, c, allowed), g, "update", "update")
  BY <1>3, <1>4, UnionMoves DEF Encrypt
<1> QED
  BY <1>5, CmdMoves

(* update_vmsa() leaves a guest in update. *)
LEMMA UpdateVmsaMoves ==
  ASSUME NEW g \in Guest
  PROVE  Moves(update_vmsa(g), g, "update", "update")
  BY EncryptMoves DEF update_vmsa, LAUNCH_UPDATE_VMSA, Content, Guest

(* A method that registers a region touches neither memory nor secrets. *)
LEMMA RegisterLemma ==
  ASSUME NEW g \in Guest, NEW d \in Data
  PROVE  /\ register_kvm_enc_region(g, d) \subseteq Outcome
         /\ \A r \in register_kvm_enc_region(g, d) :
              r.g.state = g.state /\ r.g.mem = g.mem /\ r.g.secrets = g.secrets
<1> DEFINE h == [g EXCEPT !.regions = @ \cup {d}]
<1>1. h \in Guest /\ h.state = g.state /\ h.mem = g.mem /\ h.secrets = g.secrets
  BY DEF Guest
<1>2. \A o \in ENC_REG_REGION(g, d) : o.ok \in BOOLEAN /\ o.g \in {g, h}
  <2>1. ASSUME NEW o \in ENC_REG_REGION(g, d)
        PROVE  o \in Failed(g, {0}) \/ o \in Succeeded(h)
    BY DEF ENC_REG_REGION
  <2> HIDE DEF h
  <2>2. ASSUME NEW o \in Failed(g, {0})
        PROVE  o.ok \in BOOLEAN /\ o.g = g
    <3>1. o = [ok |-> FALSE, error |-> 0, g |-> g]
      BY DEF Failed
    <3> QED
      BY <3>1
  <2>3. ASSUME NEW o \in Succeeded(h)
        PROVE  o.ok \in BOOLEAN /\ o.g = h
    <3>1. o = [ok |-> TRUE, error |-> 0, g |-> h]
      BY DEF Succeeded
    <3> QED
      BY <3>1
  <2> QED
    BY <2>1, <2>2, <2>3
<1> HIDE DEF h
<1>3. Os \in IoError
  BY DEF Os, IoError, Indeterminate, IoErr
<1>4. ASSUME NEW r \in register_kvm_enc_region(g, d)
      PROVE  r \in Outcome /\ r.g \in {g, h}
  <2>1. PICK o \in ENC_REG_REGION(g, d) : r = [ok |-> o.ok, e |-> Os, g |-> o.g]
    BY DEF register_kvm_enc_region
  <2>2. o.ok \in BOOLEAN /\ o.g \in {g, h} /\ o.g \in Guest
    BY <1>1, <1>2
  <2> QED
    BY <1>3, <2>1, <2>2 DEF Outcome
<1> QED
  BY <1>1, <1>4

(* Registering the region first changes no state either. *)
LEMMA UpdateDataMoves ==
  ASSUME NEW g \in Guest, NEW d \in Data
  PROVE  Moves(update_data(g, d), g, "update", "update")
<1> DEFINE first == register_kvm_enc_region(g, d)
<1>1. \A r \in first : r \in Outcome /\ r.g.state = g.state
  BY RegisterLemma
<1>2. ASSUME NEW h \in Guest
      PROVE  Moves(update_data_without_registration(h, d), h, "update", "update")
  BY EncryptMoves
     DEF update_data_without_registration, LAUNCH_UPDATE_DATA, Content
<1>3. ASSUME NEW r \in update_data(g, d)
      PROVE  \/ r \in first /\ ~r.ok
             \/ \E s \in first : r \in update_data_without_registration(s.g, d)
  BY DEF update_data, Then
<1>4. ASSUME NEW r \in update_data(g, d)
      PROVE  /\ r \in Outcome
             /\ IF r.ok THEN g.state = "update" /\ r.g.state = "update"
                        ELSE r.g.state = g.state
  <2>1. CASE r \in first /\ ~r.ok
    BY <2>1, <1>1
  <2>2. CASE \E s \in first : r \in update_data_without_registration(s.g, d)
    <3>1. PICK s \in first : r \in update_data_without_registration(s.g, d)
      BY <2>2
    <3>2. s.g \in Guest /\ s.g.state = g.state
      BY <1>1 DEF Outcome
    <3> QED
      BY <3>1, <3>2, <1>2 DEF Moves
  <2> QED
    BY <1>3, <2>1, <2>2
<1> QED
  BY <1>4 DEF Moves

(* Asking for a report changes nothing at all. *)
LEMMA ReportMoves ==
  ASSUME NEW g \in Guest
  PROVE  /\ Moves(report(g), g, "running", "running")
         /\ \A r \in report(g) : r.g = g
<1>1. ASSUME NEW h \in Guest, NEW len \in {0, 1}
      PROVE  /\ IoctlMoves(LAUNCH_ATTESTATION(h, len), h, "running", "running")
             /\ \A o \in LAUNCH_ATTESTATION(h, len) : o.g = h
  <2>1. IoctlMoves(Failed(h, Failures), h, "running", "running")
    BY FailuresAssumption, FailedMoves
  <2>2. IoctlMoves(Failed(h, {InvalidLen}), h, "running", "running")
    BY FailedMoves DEF InvalidLen
  <2>3. h.state = "running" => IoctlMoves(Succeeded(h), h, "running", "running")
    BY SucceededMoves
  <2>4. IoctlMoves(Refused(h), h, "running", "running")
    BY RefusedMoves
  <2>5. IoctlMoves(IF h.state # "running" THEN Refused(h)
                   ELSE IF len = 0 THEN Failed(h, {InvalidLen}) ELSE Succeeded(h),
                   h, "running", "running")
    BY <2>2, <2>3, <2>4
  <2>6. IoctlMoves(LAUNCH_ATTESTATION(h, len), h, "running", "running")
    BY <2>1, <2>5, UnionMoves DEF LAUNCH_ATTESTATION
  <2>7. \A o \in LAUNCH_ATTESTATION(h, len) : o.g = h
    BY DEF LAUNCH_ATTESTATION, Failed, Refused, Succeeded
  <2> QED
    BY <2>6, <2>7
<1>2. ASSUME NEW h \in Guest, NEW len \in {0, 1}
      PROVE  /\ Moves(Cmd(LAUNCH_ATTESTATION(h, len)), h, "running", "running")
             /\ \A r \in Cmd(LAUNCH_ATTESTATION(h, len)) : r.g = h
  BY <1>1, CmdMoves DEF Cmd
<1>3. ASSUME NEW r \in report(g)
      PROVE  \E len \in {0, 1} : r \in Cmd(LAUNCH_ATTESTATION(g, len))
  <2> DEFINE first == Cmd(LAUNCH_ATTESTATION(g, 0))
  <2>1. \/ r \in first
        \/ \E s \in first, len \in {0, 1} : r \in Cmd(LAUNCH_ATTESTATION(s.g, len))
    BY DEF report
  <2> QED
    BY <2>1, <1>2
<1> QED
  BY <1>2, <1>3 DEF Moves

-----------------------------------------------------------------------------
(* How a guest's memory may grow, and its secrets. *)
MayGrow(g, h) ==
  /\ \/ h.mem = g.mem
     \/ g.state = "update" /\ \E c \in Content : h.mem = Append(g.mem, c)
  /\ h.secrets = g.secrets \/ g.state = "secret"

(* What a method may do to the data of its guest: one piece of memory is    *)
(* measured into a guest in update, a secret only goes into one in secret.  *)
Confined(outcomes, g) == \A r \in outcomes : MayGrow(g, r.g)

(* What is true of the ioctl's guests is true of its method's. *)
LEMMA CmdConfined ==
  ASSUME NEW ioctls, NEW g, Confined(ioctls, g)
  PROVE  Confined(Cmd(ioctls), g)
<1>1. ASSUME NEW r \in Cmd(ioctls)
      PROVE  \E o \in ioctls : r.g = o.g
  BY DEF Cmd
<1> QED
  BY <1>1 DEF Confined

(* The outcomes of an ioctl are as confined as the guests it may leave. *)
LEMMA FailedConfined ==
  ASSUME NEW g, NEW h, NEW codes, MayGrow(g, h)
  PROVE  Confined(Failed(h, codes), g) /\ Confined(Succeeded(h), g)
<1>1. \A r \in Failed(h, codes) : r.g = h
  BY DEF Failed
<1>2. \A r \in Succeeded(h) : r.g = h
  BY DEF Succeeded
<1> QED
  BY <1>1, <1>2 DEF Confined

(* An ioctl that changes data only when it is allowed to. *)
LEMMA IoctlConfined ==
  ASSUME NEW g, NEW next, NEW allowed \in BOOLEAN, allowed => MayGrow(g, next)
  PROVE  Confined(Ioctl(g, allowed, next), g)
<1>1. \A codes : Confined(Failed(g, codes), g)
  BY FailedConfined DEF MayGrow
<1>2. allowed => Confined(Succeeded(next), g)
  BY FailedConfined
<1> QED
  BY <1>1, <1>2 DEF Confined, Ioctl, Refused

(* Encrypting touches the memory of a guest in update and nothing else. *)
LEMMA EncryptConfined ==
  ASSUME NEW g \in Guest, NEW c \in Content, NEW allowed \in BOOLEAN,
         allowed => g.state = "update"
  PROVE  Confined(Cmd(Encrypt(g, c, allowed)), g)
<1> DEFINE h == [g EXCEPT !.mem = Append(@, c)]
<1> DEFINE p == [g EXCEPT !.mem = Append(@, "partial")]
<1>1. allowed => MayGrow(g, h) /\ MayGrow(g, p)
  <2>1. /\ h.secrets = g.secrets /\ p.secrets = g.secrets
        /\ h.mem = Append(g.mem, c) /\ p.mem = Append(g.mem, "partial")
    BY DEF Guest
  <2> QED
    BY <2>1 DEF MayGrow, Content
<1> HIDE DEF h, p
<1>2. Confined(Ioctl(g, allowed, h), g)
  BY <1>1, IoctlConfined
<1>3. allowed => Confined(Failed(p, Failures), g)
  BY <1>1, FailedConfined
<1>4. Confined(Encrypt(g, c, allowed), g)
  BY <1>2, <1>3 DEF Confined, Encrypt, h, p
<1> QED
  BY <1>4, CmdConfined

(* Every method of a launcher is confined. *)
LEMMA MethodsConfined ==
  ASSUME NEW g \in Guest, NEW d \in Data
  PROVE  /\ Confined(new(g), g) /\ Confined(new_es(g), g) /\ Confined(start(g), g)
         /\ Confined(register_kvm_enc_region(g, d), g)
         /\ Confined(update_data_without_registration(g, d), g)
         /\ Confined(update_data(g, d), g) /\ Confined(update_vmsa(g), g)
         /\ Confined(measure(g), g) /\ Confined(inject(g, d), g)
         /\ Confined(finish(g), g) /\ Confined(finish_attestable(g), g)
<1>1. Confined(new(g), g) /\ Confined(new_es(g), g)
  <2>1. ASSUME NEW es \in BOOLEAN
        PROVE  Confined(INIT(g, es), g)
    <3> DEFINE h == [g EXCEPT !.state = "init", !.es = es]
    <3>1. h.mem = g.mem /\ h.secrets = g.secrets
      BY DEF Guest
    <3> HIDE DEF h
    <3>2. Confined(Succeeded(h), g) /\ \A codes : Confined(Failed(g, codes), g)
      BY <3>1, FailedConfined DEF MayGrow
    <3> QED
      BY <3>2 DEF Confined, INIT, h
  <2> QED
    BY <2>1, CmdConfined DEF new, new_es
<1>2. ASSUME NEW st, NEW allowed \in BOOLEAN
      PROVE  Confined(Cmd(Ioctl(g, allowed, [g EXCEPT !.state = st])), g)
  <2>1. [g EXCEPT !.state = st].mem = g.mem /\ [g EXCEPT !.state = st].secrets = g.secrets
    BY DEF Guest
  <2>2. Confined(Ioctl(g, allowed, [g EXCEPT !.state = st]), g)
    BY <2>1, IoctlConfined DEF MayGrow
  <2> QED
    BY <2>2, CmdConfined
<1>3. Confined(start(g), g) /\ Confined(measure(g), g)
      /\ Confined(finish(g), g) /\ Confined(finish_attestable(g), g)
  BY <1>2 DEF start, measure, finish, finish_attestable, LAUNCH_START,
              LAUNCH_MEASURE, LAUNCH_FINISH
<1>4. Confined(inject(g, d), g)
  <2>1. [g EXCEPT !.secrets = @ \cup {d}].mem = g.mem
    BY DEF Guest
  <2>2. Confined(LAUNCH_SECRET(g, d), g)
    BY <2>1, IoctlConfined DEF LAUNCH_SECRET, MayGrow
  <2> QED
    BY <2>2, CmdConfined DEF inject
<1>5. Confined(update_vmsa(g), g)
  BY EncryptConfined DEF update_vmsa, LAUNCH_UPDATE_VMSA, Guest, Content
<1>6. Confined(register_kvm_enc_region(g, d), g)
  BY RegisterLemma DEF Confined, MayGrow
<1>7. \A h \in Guest : Confined(update_data_without_registration(h, d), h)
  BY EncryptConfined
     DEF update_data_without_registration, LAUNCH_UPDATE_DATA, Content
<1>8. Confined(update_data(g, d), g)
  <2> DEFINE first == register_kvm_enc_region(g, d)
  <2>1. ASSUME NEW r \in update_data(g, d)
        PROVE  \/ r \in first
               \/ \E s \in first : r \in update_data_without_registration(s.g, d)
    BY DEF update_data, Then
  <2>2. \A s \in first : /\ s.g \in Guest /\ s.g.state = g.state
                         /\ s.g.mem = g.mem /\ s.g.secrets = g.secrets
    BY RegisterLemma DEF Outcome
  <2> HIDE DEF first
  <2> QED
    BY <2>1, <2>2, <1>7 DEF Confined, MayGrow
<1> QED
  BY <1>1, <1>3, <1>4, <1>5, <1>6, <1>7, <1>8

(* update_data_without_registration() leaves a guest in update. *)
LEMMA UpdateOnlyMoves ==
  ASSUME NEW g \in Guest, NEW d \in Data
  PROVE  Moves(update_data_without_registration(g, d), g, "update", "update")
  BY EncryptMoves DEF update_data_without_registration, LAUNCH_UPDATE_DATA, Content

(* finish() issues the same command as finish_attestable(). *)
LEMMA PlainFinishMoves ==
  ASSUME NEW g \in Guest
  PROVE  Moves(finish(g), g, "secret", "running")
  BY FinishMoves DEF finish, finish_attestable

(* new() and new_es() touch no data, and nothing at all when they fail. *)
LEMMA NewKeeps ==
  ASSUME NEW g \in Guest, NEW r \in new(g) \cup new_es(g)
  PROVE  /\ r.g.mem = g.mem /\ r.g.secrets = g.secrets
         /\ ~r.ok => r.g = g
<1>1. ASSUME NEW es \in BOOLEAN, NEW o \in INIT(g, es)
      PROVE  /\ o.g.mem = g.mem /\ o.g.secrets = g.secrets
             /\ ~o.ok => o.g = g
  <2> DEFINE h == [g EXCEPT !.state = "init", !.es = es]
  <2>1. h.mem = g.mem /\ h.secrets = g.secrets
    BY DEF Guest
  <2>2. o \in Succeeded(h) \/ \E codes : o \in Failed(g, codes)
    BY DEF INIT
  <2> HIDE DEF h
  <2>3. CASE o \in Succeeded(h)
    <3>1. o = [ok |-> TRUE, error |-> 0, g |-> h]
      BY <2>3 DEF Succeeded
    <3> QED
      BY <2>1, <3>1
  <2>4. CASE \E codes : o \in Failed(g, codes)
    <3>1. o.g = g
      BY <2>4 DEF Failed
    <3> QED
      BY <3>1
  <2> QED
    BY <2>2, <2>3, <2>4
<1>2. ASSUME NEW ioctls, r \in Cmd(ioctls)
      PROVE  \E o \in ioctls : r.ok = o.ok /\ r.g = o.g
  BY <1>2 DEF Cmd
<1>3. r \in Cmd(INIT(g, TRUE)) \/ r \in Cmd(INIT(g, FALSE))
  BY DEF new, new_es
<1>4. \/ \E o \in INIT(g, TRUE) : r.ok = o.ok /\ r.g = o.g
      \/ \E o \in INIT(g, FALSE) : r.ok = o.ok /\ r.g = o.g
  BY <1>2, <1>3
<1>5. CASE \E o \in INIT(g, TRUE) : r.ok = o.ok /\ r.g = o.g
  BY <1>1, <1>5
<1>6. CASE \E o \in INIT(g, FALSE) : r.ok = o.ok /\ r.g = o.g
  BY <1>1, <1>6
<1> QED
  BY <1>4, <1>5, <1>6
=============================================================================
