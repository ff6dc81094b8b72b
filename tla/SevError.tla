------------------------------ MODULE SevError ------------------------------
(***************************************************************************)
(* The error values of the crate (src/src/error.rs) and the conversions    *)
(* between them.  A failed ioctl leaves an errno and, in the command        *)
(* structure, a 32-bit firmware code that is 0 when the firmware was never  *)
(* reached.  On its way to the caller that code passes through              *)
(* Indeterminate<Error>, io::Error and, in the C API, a C int.              *)
(*                                                                          *)
(* Indeterminate<Error> is an integer here: n \in KnownCodes stands for     *)
(* Known(the firmware error with code n), IoErr for Known(IoError(_)) and   *)
(* UnknownErr for Unknown.  A u64 is the pair <<upper, lower>> of its two   *)
(* 32-bit halves.                                                           *)
(***************************************************************************)
EXTENDS Integers

IoErr == 0
UnknownErr == -1

(* The codes From<u32> has an arm for: 0x1E is the hole in the table. *)
KnownCodes == (1 .. 39) \ {30}

Indeterminate == KnownCodes \cup {IoErr, UnknownErr}

InvalidGuestState == 2
InvalidConfig == 3
InvalidLen == 4
PolicyFailure == 7
BadSignature == 10
BadMeasurement == 11

(* An io::Error is a bare errno, or wraps an Indeterminate<Error> as Other. *)
Os == [kind |-> "Os", inner |-> IoErr]
Other(ind) == [kind |-> "Other", inner |-> ind]
IoError == [kind : {"Os", "Other"}, inner : Indeterminate]

(* impl From<u32> for Indeterminate<Error> *)
FromU32(code) ==
  IF code = 0 THEN IoErr ELSE IF code \in KnownCodes THEN code ELSE UnknownErr

(* impl From<u64> for Indeterminate<Error>: `value as u32` keeps the lower half. *)
FromU64(value) == FromU32(value[2])

(* impl From<io::Error> for Indeterminate<Error>: whatever e wraps, IoError. *)
FromIo(e) == IoErr

(* impl From<Indeterminate<Error>> for io::Error *)
ToIo(ind) == Other(ind)

(* impl From<Indeterminate<Error>> for c_int *)
ToCInt(ind) == IF ind \in KnownCodes THEN ind ELSE -1

(* fn set_fw_err of the C API *)
set_fw_err(e) == ToCInt(FromIo(e))

(* Mutant: the raw code is passed on, known or not. *)
encapsulate_Raw(error) == error

(* Command::encapsulate: the firmware code if there is one, else the errno. *)
encapsulate(error) == IF error = 0 THEN FromIo(Os) ELSE FromU32(error)

(* VmmError::from(u32) and from(u64): the hypervisor's half of fw_err. *)
VmmFromU32(upper) ==
  CASE upper = 1 -> "InvalidCertificatePageLength"
    [] upper = 2 -> "RateLimitRetryRequest"
    [] OTHER -> "Unknown"
VmmFromU64(value) == VmmFromU32(value[1])
=============================================================================
