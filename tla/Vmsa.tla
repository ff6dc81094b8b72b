-------------------------------- MODULE Vmsa --------------------------------
(***************************************************************************)
(* The save area of a virtual CPU as src/src/vmsa/mod.rs builds it: a tool  *)
(* starts from a zeroed one, calls init_amd64, init_kvm and its VMM's init, *)
(* sets the CPU's signature and the reset address, and writes a file.       *)
(*                                                                          *)
(* The fields are those that more than one of these calls writes, or one    *)
(* with its arguments; `amd64' and `kvm' stand for those that have one      *)
(* value, written by init_amd64 or by init_kvm alone.                       *)
(***************************************************************************)
EXTENDS Naturals

(* Attributes of a segment: each is a set of bits, counted from TYPE_SHIFT. *)
ATTR(present, s, type) == present * 2^7 + s * 2^4 + type
CODE == 8
READ == 2      \* or WRITE
ACCESSED == 1

Vmsa_default ==
  [rip |-> 0, cs_selector |-> 0, cs_base |-> 0, cs |-> 0, ss |-> 0, data |-> 0, ldtr |-> 0,
   tr |-> 0, rdx |-> 0, rsp |-> 0, rsi |-> 0, g_pat |-> FALSE, amd64 |-> FALSE, kvm |-> FALSE]

(* cs.base is kept in units of 2^12. *)
init_amd64(v) ==
  [v EXCEPT !.rip = 65520, !.cs_selector = 61440, !.cs_base = 1048560, !.amd64 = TRUE]

init_kvm(v) == [v EXCEPT !.ldtr = 130, !.tr = 131, !.g_pat = TRUE, !.kvm = TRUE]

(* rbp is always rsp; data: ds, es, fs and gs. *)
init_krun(v, cpu) ==
  LET w == [v EXCEPT !.rsi = 28672, !.rsp = 36848,
                     !.cs = ATTR(1, 1, CODE + READ),
                     !.data = ATTR(1, 1, READ + ACCESSED),
                     !.ss = ATTR(1, 1, READ)]
  IN  IF cpu = 0 THEN w
      ELSE [w EXCEPT !.rip = 0, !.rsp = 0, !.rsi = 0, !.cs_selector = 37120, !.cs_base = 145]

(* Mutant: the accessed bit of cs is left out, as in init_krun. *)
init_qemu_NotAccessed(v, cpu) ==
  [v EXCEPT !.ldtr = ATTR(1, 0, 2), !.tr = ATTR(1, 0, 11),
            !.cs = ATTR(1, 1, CODE + READ),
            !.data = ATTR(1, 1, READ + ACCESSED), !.ss = ATTR(1, 1, READ + ACCESSED),
            !.g_pat = TRUE]

init_qemu(v, cpu) ==
  [v EXCEPT !.ldtr = ATTR(1, 0, 2), !.tr = ATTR(1, 0, 11),
            !.cs = ATTR(1, 1, CODE + READ + ACCESSED),
            !.data = ATTR(1, 1, READ + ACCESSED), !.ss = ATTR(1, 1, READ + ACCESSED),
            !.g_pat = TRUE]

(* The masks keep 4 bits of the stepping, 8 of the model, 12 of the family; *)
(* the fields that are or-ed together do not overlap.                       *)
cpu_sku(v, family, model, stepping) ==
  LET f == family % 2^12
      m == model % 2^8
      high == IF f > 15 THEN 15 * 2^8 + (f - 15) * 2^20 ELSE f * 2^8
  IN  [v EXCEPT !.rdx = (stepping % 2^4) + high + (m % 16) * 2^4 + (m \div 16) * 2^16]

(* ra is the pair of its halves. *)
reset_addr(v, ra) == [v EXCEPT !.rip = ra[2], !.cs_base = ra[1] * 16]

-----------------------------------------------------------------------------
(* Files: [length, vmsa], the length in bytes. *)
FILE_SIZE == 4096

to_file(v) == [length |-> FILE_SIZE, vmsa |-> v]

(* {} for an io::Error *)
from_file(file) == IF file.length = FILE_SIZE THEN {file.vmsa} ELSE {}
=============================================================================
