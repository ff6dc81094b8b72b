------------------------------ MODULE MCLibSev ------------------------------
(* LibSev on small instances; the .cfg files say which. *)
EXTENDS LibSev, TLC

(* Threads and VMs are interchangeable; descriptors are not, NoCall has one. *)
Symmetry == Permutations(Threads) \cup Permutations(VMs)

(* A liveness property is checked without symmetry.  This takes its place:  *)
(* VMs, which nothing but their names tells apart, are created in one       *)
(* order, and under the lowest descriptor that is free, as the kernel does. *)
InOrder(fd) ==
  LET first == CHOOSE v \in VMs : TRUE
      lowest == CHOOSE f \in Fds : TRUE
  IN  /\ first \in fresh => vm'[fd] = first
      /\ vm[lowest] = NoVM => fd = lowest

OrderedNext ==
  \/ \E fd \in Fds : CreateVm(fd) /\ InOrder(fd)
  \/ \E fd \in Fds : CloseVm(fd)
  \/ \E t \in Threads, op \in Ops, fd \in Fds : \E arg \in Args(op) : Call(t, op, fd, arg)
  \/ \E t \in Threads : Step(t)

OrderedSpec ==
  /\ Init /\ [][OrderedNext]_vars
  /\ \A t \in Threads : WF_vars(Step(t))
=============================================================================
