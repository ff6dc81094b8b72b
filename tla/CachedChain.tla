----------------------------- MODULE CachedChain -----------------------------
(***************************************************************************)
(* The cached chain of src/src/util/cached_chain.rs: get() looks for a file *)
(* along path() and decodes the first that exists, while a tool writes,     *)
(* replaces and removes the files.  Nothing locks them: a file may be gone  *)
(* when get() opens it, half written, or replaced while it is being read.   *)
(***************************************************************************)
EXTENDS SevCerts

CONSTANTS Paths,       \* how many paths path() returns
          Chains,      \* the complete chains that a tool may write
          MaxCreates   \* the bound on the number of files it creates

ASSUME PathsAssumption == Paths \in Nat \ {0} /\ MaxCreates \in Nat

(* A chain is six certificates made for each other.  A PEK is one chip's,   *)
(* and a chip is of one generation.                                         *)
ASSUME ChainsAssumption ==
  /\ \A c \in Chains :
       /\ c = [PDH |-> c.PDH, PEK |-> c.PEK, OCA |-> c.OCA, CEK |-> c.CEK,
               ASK |-> c.ASK, ARK |-> c.ARK]
       /\ Made(c, c.PDH.key[1], c.PEK.key[1], c.CEK.key[1])
  /\ \A c, d \in Chains : /\ c.PEK.key = d.PEK.key => c.CEK.key = d.CEK.key
                          /\ c.CEK.key = d.CEK.key => c.ASK.key = d.ASK.key

VARIABLES
  file,     \* file[i]: {}, or {[chain, n]} with the first n pieces written
  get,      \* the call of get(): where it is, and what it has read
  since,    \* since it began: the paths that had a file then, and those
            \* that were touched (created, written, removed) or removed
  creates   \* how many files were created

cacheVars == <<file, get, since, creates>>

-----------------------------------------------------------------------------
(* Chain::encode and decode: PDH, PEK, OCA and CEK, then the ASK and the    *)
(* ARK, each of them a body (with the preamble first) and a signature.      *)
PIECES == 8

CaSignature(k) == k \in {6, 8}

Piece(c, k) ==
  CASE k = 1 -> c.PDH [] k = 2 -> c.PEK [] k = 3 -> c.OCA [] k = 4 -> c.CEK
    [] k = 5 -> Body(c.ASK) [] k = 6 -> c.ASK.sigs[1]
    [] k = 7 -> Body(c.ARK) [] k = 8 -> c.ARK.sigs[1]

Ca(body, sig) == [usage |-> body.usage, key |-> body.key, sigs |-> <<sig>>]

Assemble(s) ==
  [PDH |-> s[1], PEK |-> s[2], OCA |-> s[3], CEK |-> s[4],
   ASK |-> Ca(s[5], s[6]), ARK |-> Ca(s[7], s[8])]

(* Preamble::size: the key of a CA certificate has 2048 bits, or 4096. *)
Small(body) == body.key[1] = "naples"

(* AMD's signature of the Naples ARK, 256 bytes. *)
NAPLES_ARK_SIG ==
  LET body == [usage |-> "ARK", key |-> <<"naples", "ARK">>]
  IN  [usage |-> "ARK", key |-> body.key, of |-> body]

(* Mutant: a signature that is not there is left zero. *)
Injected_Zeroes(body) == [error |-> {}, sig |-> NoSig]

(* Contents::decode at the end of the file, with the signature to read:     *)
(* `kind is not UnexpectedEof, and not the Naples ARK' is no reason to stop *)
(* whatever the certificate, and the Naples ARK's signature is injected.    *)
(* Into 512 bytes copy_from_slice does not copy 256 of them: it panics.     *)
Injected(body) ==
  IF Small(body) THEN [error |-> {}, sig |-> NAPLES_ARK_SIG]
  ELSE [error |-> {"panic"}, sig |-> NoSig]

-----------------------------------------------------------------------------
(* A tool and its user.  File::create truncates a file that is there.       *)

Touch(i, gone) ==
  since' = [since EXCEPT !.touched = @ \cup {i}, !.removed = @ \cup gone]

Create(i, c) ==
  /\ creates < MaxCreates
  /\ creates' = creates + 1
  /\ file' = [file EXCEPT ![i] = {[chain |-> c, n |-> 0]}]
  /\ Touch(i, {})
  /\ UNCHANGED get

Write(i) ==
  /\ \E f \in file[i], n \in 1..PIECES :
       f.n < n /\ file' = [file EXCEPT ![i] = {[f EXCEPT !.n = n]}]
  /\ Touch(i, {})
  /\ UNCHANGED <<get, creates>>

(* One who has opened the file goes on reading it. *)
Remove(i) ==
  /\ file[i] # {}
  /\ file' = [file EXCEPT ![i] = {}]
  /\ get' = IF get.pc = "decode" /\ get.i = i /\ get.unlinked = {}
            THEN [get EXCEPT !.unlinked = file[i]] ELSE get
  /\ Touch(i, {i})
  /\ UNCHANGED creates

-----------------------------------------------------------------------------
(* get() looks along path(): SEV_CHAIN first, then home() and sys(). *)

Exists(i) == file[i] # {}

Idle == [pc |-> "idle", i |-> 1, unlinked |-> {}, got |-> <<>>, error |-> {}]
Calm == [stood |-> {}, touched |-> {}, removed |-> {}]

Fail(error) == [get EXCEPT !.pc = "done", !.error = error]

get_call ==
  /\ get.pc = "idle"
  /\ get' = [Idle EXCEPT !.pc = "exists"]
  /\ since' = [Calm EXCEPT !.stood = {i \in 1..Paths : Exists(i)}]
  /\ UNCHANGED <<file, creates>>

(* Mutant: the first path, whether or not it is there. *)
exists_First ==
  /\ get.pc = "exists"
  /\ get' = [get EXCEPT !.pc = "open"]
  /\ UNCHANGED <<file, since, creates>>

(* filter(|p| p.exists()), one path at a time, then first().ok_or(). *)
exists ==
  /\ get.pc = "exists"
  /\ get' = IF Exists(get.i) THEN [get EXCEPT !.pc = "open"]
            ELSE IF get.i < Paths THEN [get EXCEPT !.i = @ + 1]
            ELSE Fail({"NotFound"})
  /\ UNCHANGED <<file, since, creates>>

(* File::open, of the path that was there. *)
open ==
  /\ get.pc = "open"
  /\ get' = IF Exists(get.i) THEN [get EXCEPT !.pc = "decode"] ELSE Fail({"NotFound"})
  /\ UNCHANGED <<file, since, creates>>

(* What has been read, with one piece more.  A piece has the usage of its   *)
(* place in every file, so that the chains' checks of usages do not fail.   *)
Got(x) ==
  [get EXCEPT !.got = Append(@, x), !.pc = IF Len(get.got) + 1 = PIECES THEN "done" ELSE @]

(* A signature that was injected was not read: when the file has grown, it  *)
(* comes where the ARK's version should, which is then not 1.               *)
Skewed == Len(get.got) = 6 /\ get.got[6] = NAPLES_ARK_SIG /\ get.got[5].usage = "ASK"

(* Chain::decode: the next piece, of the file as it is now. *)
decode ==
  /\ get.pc = "decode"
  /\ \E f \in (IF get.unlinked # {} THEN get.unlinked ELSE file[get.i]) :
       LET k == Len(get.got) + 1
           there == f.n >= (IF Skewed THEN k - 1 ELSE k)
           inj == Injected(get.got[k - 1])
       IN  get' = CASE there /\ Skewed -> Fail({"InvalidData"})
                    [] there /\ ~Skewed -> Got(Piece(f.chain, k))
                    [] ~there /\ ~CaSignature(k) -> Fail({"UnexpectedEof"})
                    [] ~there /\ CaSignature(k) /\ inj.error = {} -> Got(inj.sig)
                    [] ~there /\ CaSignature(k) /\ inj.error # {} -> Fail(inj.error)
  /\ UNCHANGED <<file, since, creates>>

get_return ==
  /\ get.pc = "done"
  /\ get' = Idle
  /\ since' = Calm
  /\ UNCHANGED <<file, creates>>

-----------------------------------------------------------------------------
CacheInit ==
  /\ file = [i \in 1..Paths |-> {}]
  /\ get = Idle
  /\ since = Calm
  /\ creates = 0

Tool == \E i \in 1..Paths : Write(i) \/ Remove(i) \/ \E c \in Chains : Create(i, c)
Reader == get_call \/ exists \/ open \/ decode \/ get_return

CacheNext == Tool \/ Reader

CacheSpec == CacheInit /\ [][CacheNext]_cacheVars

-----------------------------------------------------------------------------
(* What get() returned, when it returned Ok. *)
Returned == get.pc = "done" /\ get.error = {}

(* A chain with 4096-bit keys that ends before a signature. *)
CutBeforeSignature(f) == CaSignature(f.n + 1) /\ ~Small(Body(f.chain.ASK))

(* A file that nobody touches while it is read is read for what it is: when *)
(* it is whole, its chain; when it is cut short, an UnexpectedEof, except   *)
(* that the chain of a Naples is whole without the ARK's signature.  A      *)
(* chain that CutBeforeSignature is about is never read as another, but     *)
(* that it is refused with an error is not so: see InjectedForNaplesOnly.   *)
UntouchedIsRead ==
  get.pc = "done" /\ get.i \notin since.touched =>
    \A f \in file[get.i] :
      /\ get.error = {} => Assemble(get.got) = f.chain
      /\ f.n = PIECES => get.error = {}
      /\ ~CutBeforeSignature(f) => get.error \in {{}, {"UnexpectedEof"}}

(* NotFound means that every file that stood when get() was called has been *)
(* removed, or that the one it had found was removed before it opened it,   *)
(* and every earlier one before it looked there.  A later file that stands  *)
(* may be missed in the second case only.                                   *)
FindsWhatStood ==
  get.error = {"NotFound"} =>
    \/ since.stood \subseteq since.removed
    \/ /\ get.i \in since.removed
       /\ \A j \in since.stood : j < get.i => j \in since.removed

(* A chain pieced together from files that were replaced under the reader   *)
(* does not pass Chain::verify unless its keys, from the PDH to the ARK,    *)
(* are those of one file, whichever signature was injected.  Only the owner *)
(* may be another: the platform's PEK had both at their time.               *)
TornIsCaught ==
  Returned /\ chain_verify(Assemble(get.got)) =>
    \E c \in Chains : \A u \in Usages \ {"OCA"} : Assemble(get.got)[u].key = c[u].key

-----------------------------------------------------------------------------
(* What a comment says and the code does not do. *)

(* "We work around this by catching EOF and injecting a valid signature     *)
(* [...].  We only do this for the Naples ARK": of any other chain that is  *)
(* cut short, and that nobody touches, the EOF is the result.               *)
InjectedForNaplesOnly ==
  get.pc = "done" /\ get.i \notin since.touched =>
    \A f \in file[get.i] :
      f.n < PIECES /\ ~Small(Body(f.chain.ARK)) => get.error = {"UnexpectedEof"}
=============================================================================
