# A TLA+ model of the `sev` crate

`sev` (`src/src`) is a Rust library, with a C API, for AMD SEV and SEV-SNP: it
launches encrypted virtual machines through KVM, asks the AMD Secure Processor
for attestation reports, and helps a guest owner to check them. This directory
specifies its state machines in TLA+, checks them with TLC on small instances
and proves with TLAPS, for every size, all the safety properties that TLC finds to
hold: of the Rust and the C API for SEV launches and that the second implements the
first, of the owner's session, of managing a platform, of the cached chain, of
SNP guest requests and of SNP launches.

## The system

| Component | Source (`src/src/...`) | State | Operations | Correct if |
|---|---|---|---|---|
| C API | `lib.rs` | four global `Mutex<HashMap<fd, Launcher>>` | nine `sev_*` functions, from any thread | a VM's launcher is never duplicated or silently lost; ioctls are issued in order whatever calls race; no deadlock; return values tell the truth |
| SEV launch | `launch/sev.rs`, `launch/linux/` | `Launcher<T>`: type-state, descriptors, measurement | `new`, `new_es`, `start`, `update_data`, ..., `report` | the type is the state the firmware is in; no secret without a measurement |
| Errors | `error.rs` | none | conversions between firmware codes, `io::Error`, `c_int` | a code that the firmware gave reaches the caller |
| SNP guest requests | `firmware/guest`, `firmware/linux/guest` | `/dev/sev-guest`; request and response of a call | `get_report`, `get_ext_report`, `get_derived_key` | what is returned is the answer to the request, with certificates of the host |
| Certificate table | `firmware/linux/host/types/snp.rs`, `firmware/host/types/snp.rs` | bytes shared by host, kernel and guest | encode, parse, sort | a table survives the trip through memory |
| SNP chain | `certs/snp` | ARK, ASK, VEK | build from a table, verify chain, verify report | verifies exactly the reports that the platform's key signed |
| SNP launch | `launch/snp.rs` | `Launcher<T>` | `new`, `start`, `update_data`, `finish` | as SEV launch; a guest's digest is the owner's only if it was loaded as the owner means |
| Tenant session | `session` | TEK, TIK, running digest | `start`, `measure`, `update_data`, `verify`, `secret` | a secret can be opened only by the guest that was verified |
| SEV certificates | `certs/sev` | keys, usages, two signature slots | sign, verify, decode chains | a chain verifies only if every link does |
| Host firmware | `firmware/host`, `firmware/linux/host` | `/dev/sev`, and behind it the platform's keys, owner, TCB | `platform_reset`, `platform_status`, `pek_generate`, `pek_csr`, `pdh_generate`, `pdh_cert_export`, `pek_cert_import`, `get_identifier`, `snp_platform_status`, `snp_commit`, `snp_set_config`, `snp_vlek_load` | a chain that is exported verifies; who was told to own the platform is in it |
| Cached chain | `util/cached_chain.rs`, `certs/sev/{ca,sev,}/chain.rs`, `certs/sev/ca/cert` | files along a search path | `path`, `get`; `encode`, `decode` of a chain | a file that is there is found, and read for what it is; a chain torn between two files does not verify |
| Measurement | `measurement` | hash chains over pages | `snp_calc_launch_digest`, `sev_`, `seves_calc_launch_digest`, OVMF parser | equals what the firmware will measure, and nothing else does |
| ID block | `measurement/idblock*.rs` | key files, a block and its authentication | `snp_calculate_id`, `load_priv_key`, `generate_key_digest` | the firmware admits the guest that the owner measured and no other, and reports the owner's keys |
| VMSA | `vmsa`, `measurement/vmsa.rs` | a CPU's save area | `init_amd64`, `init_kvm`, `init_qemu`, `init_krun`, `cpu_sku`, `reset_addr`, files | in any order of the calls, the save area that is measured |
| Built-ins, generations | `certs/*/builtin`, `lib.rs` | data | tables | (not modelled) |

How they interact: the C API stores and moves launchers of *SEV launch*; both
launches and the guest requests talk to the kernel by ioctls and turn failures
into *errors*; the host encodes a *certificate table* that the kernel hands to a
guest's `get_ext_report`; the guest owner makes an *SNP chain* of it and checks
the report; in plain SEV the owner's *session* talks through an untrusted host
to the firmware, after checking *SEV certificates*; in SNP the owner calculates
the digest of a launch beforehand from the *OVMF* image and the *VMSA*s, and may
sign it in an *ID block* that the VMM gives to `finish`. The *host firmware*
exports the *SEV certificates* that a tool completes with AMD's and writes to
the *cached chain*, from which a session's owner reads them.

What is hard: threads racing on the four maps, with locks held across ioctls and
nested; launchers that a failing method consumed; descriptors that the kernel
reuses while a map still has an entry under them; the two requests of
`get_ext_report`, between which the host may change its table; firmware codes
that pass through several error types; offsets in a table of bytes; a digest
that depends on the order and the addresses of all pages of a launch; taking
ownership of a platform in three calls, between which another administrator may
do the same; files that are replaced while they are read. The
`hazards` of `PROJECT.json` list these at their lines.

## The modules

* **SevError** - `error.rs`. `Indeterminate<Error>` is an integer: a known
  firmware code, `IoErr` or `UnknownErr`. The operators are the `From`
  implementations; `encapsulate` (`launch/linux/ioctl.rs`) and `set_fw_err`
  (`lib.rs`) are built from them. `FromIo` really is constant: the code maps
  every `io::Error` to `IoError`.
* **SevLaunch** - what one launch method does. An ioctl (external: KVM and the
  firmware) and a method are *sets of outcomes* `[ok, e, g]`, `g` the guest
  afterwards, so that `?` becomes `Then` and both specifications below share
  them. The firmware checks the guest's state; any ioctl may fail by itself with
  a code in `Failures`; a failing `LAUNCH_UPDATE` may have encrypted some pages,
  recorded as the content `"partial"`. Memory is the sequence of what was
  measured, which stands for the launch digest.
* **SevLauncher** - the Rust API. `phase[v]` is the type parameter of the VM's
  launcher; a method's guard is the type it is defined for (the compiler's
  check), `Err` of a method taking `self` leads to `Gone`. It is also the
  abstract specification of what the C API promises.
* **LibSev** - the C API. `maps`, `holder` are the HashMaps and their Mutexes,
  `hand[t]` is a launcher that a thread owns between `remove` and `insert`. A
  launcher is identified with the VM it was made for. A function is split
  exactly where another thread can act: at its `lock()`s and at its ioctl
  (`pc`: `entry`, `ioctl`, `insert`); `Return` releases all guards, as leaving
  the function does. The kernel names VMs by descriptors; `CreateVm`, `CloseVm`
  and `Call` are the program using the library. `meas`, `delivered`, `reports`,
  `reported` record what was measured, copied to callers, reported and refused.
* **SnpCertTable** - pure operators: layout (`uapi_to_vec_bytes`), parsing,
  sorting, building and verifying a chain. A certificate is the pair of its key
  and the key that signed it; two "bytes" are enough to see an offset go wrong.
* **SnpGuest** - the three guest requests. `get_ext_report` is three actions,
  since the host can act between the two ioctls: `get_ext_report` (up to the
  first one), `First`, `Retry`. A guest runs on one of `Hosts`, each with a kernel
  (before or from 47894e0f on, which the code distinguishes too), the tables it
  may start with and those it may change to while its guests run.
* **SevCerts** - pure operators: SEV certificates with their two signature
  slots, `sign`, `verify` and the chain from ARK and OCA to the PDH. A signature
  is the record of the key that made it and of the body it is of. `Made` says
  that six certificates were made for each other, as AMD and a platform do.
* **SevSession** - the guest owner's `Session<T>`; `phase` is its type
  parameter, `Gone` a session that an `Err` of `verify` consumed. The host is
  everything between owner and SP: `starts` and `packets` are what it has got,
  and `LAUNCH_*` (external: the SP's commands) use any of them, on any platform,
  for any number of guests, as often as the host likes. TEK and TIK are named by
  their session, a MAC is the record of its key and what it covers, and a digest
  is the bytes that were hashed: cryptography is taken to be perfect. The three
  functions named `verify` are `verify_digest`, `verify_measuring` and
  `verify_with_digest`. `fed`, `claim` and `refused` are history: what the owner
  meant to measure, what was compared, whether a platform's own chain was refused.
* **OvmfFile** - pure operators: the parser of `measurement/ovmf.rs`. An image
  is a sequence of numbers, one per field of its structures, and sizes count
  fields; the walk over the footer table is a recursive function of the offset.
* **SnpMeasure** - pure operators: `snp_calc_launch_digest` and what it calls. A
  hash chain is modelled by the sequence of the page infos in it, any other hash
  by what is hashed; a save area is the fields in which two can differ. A loop is
  a recursive function of the number of items done. The digests for SEV and
  SEV-ES are one hash over image, hash table and save areas, put end to end.
* **Vmsa** - pure operators: the save area that `vmsa/mod.rs` builds, call by
  call, so that calls in another order give another result.
* **SnpIdBlock** - pure operators: key files, the ID block, its authentication
  and the key digests. A key file has a format, a curve and a key; the errors of
  `load_priv_key` follow from them.
* **SnpLauncher** - the SNP `Launcher<T>`, with a VMM (external) that calls it:
  `machine` is what the VMM was told to launch, `pos` the page it has got to,
  `guest.ld` the digest in the firmware. The VMM cuts its regions as it likes,
  tries again after an error and may finish before it is through. What it loads
  is written from the layout of the machine, not from the parsed image, so that
  the owner's parser is checked too. The CPUs that QEMU and KRUN set up (`Vcpu`)
  are what the calls of `Vmsa` make for them, an account of its own next to
  `build_save_area`'s; the FPU's control words, which `Vmsa` has no field for, are
  those of a reset with QEMU. Only of EC2's save areas is nothing else known, and
  what is shown of EC2's digests is therefore about the pages before them and the
  number of the areas. The two accounts of KRUN differ, which is a finding, and
  what is said of KRUN's digests is only that none is taken for another's. A policy with bit 17
  clear may be refused at the start or not: its documentation says it must be
  one, and the test that launches a guest has it zero. What an image
  of a machine is, `IsImage`, is how OVMF is built: any code, the SEV metadata at
  any place, and at the end a table of any entries (`Footer`), among which are
  those that the machine's reset vector and hash page are read from. `order` is
  how the guest is launched: a policy, and an ID block with or without its
  authentication, which the firmware checks at `SNP_LAUNCH_FINISH` and reports.
* **HostFirmware** - `firmware/host`. `psp` is what the SEV firmware holds
  (state, owner, OCA, PEK, PDH), `snp` what the SNP firmware does; every method
  of `Firmware` is an action, any of whose ioctls may fail. `csr[a]` is a
  request that administrator `a` got and signed, `chain` what was exported last;
  `owner` is history: who was told Ok by `pek_cert_import`. What the AMD SP does for
  a command (external) is modelled from the use that the code makes of the
  results: the OCA and the CEK sign the PEK, the PEK signs the PDH.
* **CachedChain** - `util/cached_chain.rs` and the decoders of a chain. `get()`
  is split where a tool can act: at each `exists()`, at `open`, and before each
  piece of the file is read. A file is a chain of which the first `n` of eight
  pieces are written. `Injected` is the workaround for the Naples ARK, whose
  condition also holds at the end of a file that was cut elsewhere; then the
  signature is one of the ARK, or the copy panics. `since` is history: the files
  at the call, and those touched or removed since.
* **MCLibSev**, **MCSnpGuest**, **MCSevSession**, **MCSnpLauncher**,
  **MCPlatform** - instances for TLC. MCPlatform has what a host does in one run,
  SevLauncher, the SEV half of HostFirmware, its SNP half and CachedChain, each in
  behaviours of its own: they share no variable, so interleaving them would add
  states but no case.
* **SevLaunchProofs**, **SevLauncherProofs**, **LibSevProofs**,
  **SevSessionProofs**, **PlatformProofs**, **SnpGuestProofs**,
  **SnpMeasureProofs**, **SnpLauncherProofs** - the proofs.

## The runs

| Run | Instance | Shows |
|---|---|---|
| `race` | 2 threads, 1 VM, 7 calls, any ioctl failing | `UniqueLauncher`, `IoctlInOrder`, `SecretAfterDelivery`, `RetTruthful`, `OrphanReported`, and `ImplementsLauncher`: the C API refines SevLauncher under the mapping `Phase` |
| `two_vms` | 2 threads, 2 VMs, 2 descriptors used again after a close, 5 calls; VMs created in one order and under the lowest free descriptor | `NoDeadlock`, `UniqueLauncher`, and `CallsReturn` under fairness |
| `cert_tables` | two hosts: one with all tables of up to 3 entries of 9 kinds, and four-entry chains in every order; one with an old kernel that swaps tables of 0, 1 and 2 pages at any time; VMPL 2 | `CertsAreHosts`, `AttestedIsGenuine`, `AttestationWorks`, `ReportIsAnswer` |
| `session` | 1 session, 2 guests, 2 platforms with different builds, 2 policies, 2 byte values, memory of 2 bytes; all 64 mixtures of two platforms' and two CAs' certificates | `SecretOnlyInVerified`, `RefusedRightly`, `KeysStayOnChip`, `GenuineChainsStart` |
| `snp_launch` | 78 machines (2 images' code, 3 layouts, 6 choices of kernel, initrd and command line, 1 or 2 CPUs of 3 types, 3 VMMs); owners with a right image, with its hash, and with its hash and one field of the copy changed; 8 owners who sign, and every order that mixes the blocks, keys and signatures of two of them, or adds the VMM's own | `LauncherInStep`, `DigestsAgree`, `DigestBinds`, the same for SEV and SEV-ES (`SevDigestsBind`), `VmsaAgrees`, `IdBlockBinds`, `RightBlockRuns` |
| `platform` | SEV launches: 1 VM, 2 pieces of data, 3 pieces measured; failures with errno only, a known code (23) and an unknown one (153). Platform: 2 administrators, 3 generated keys, TCBs and masks 0 to 2. Cache: 2 paths, 3 chains of two platforms and two generations, 2 files created | `RightOrder`, `SecretsAfterMeasurement`, `ReportsAgree` for every sequence of methods; `ExportedVerifies`, `OwnerInChain`; `UntouchedIsRead`, `FindsWhatStood`, `TornIsCaught` |
| `report_value` | violation | `sev_attestation_report` returns -1 on success (`lib.rs:732`) |
| `fw_err_code` | violation | the firmware's code never reaches `fw_err` (`lib.rs:407`) |
| `stale_entry` | violation | `sev_launch_start` returns -1 for a launch it started when the descriptor was used before (`lib.rs:496`) |
| `table_grows` | violation | Ok with an empty certificate list when the table grows between the two requests (`firmware/guest/mod.rs:178`) |
| `krun_digest` | violation | the digest calculated for KRUN is not that of a guest whose CPUs are as `init_krun` has them (`measurement/vmsa.rs:343`) |
| `cut_chain` | violation | a 4096-bit chain that is cut before a signature makes `get()` panic (`certs/sev/ca/cert/v1.rs:140`) |

Bounds. Seven calls take a VM through a whole launch (init, start, update,
measure, secret, finish, report) with every one of them racing with another
thread's call; a race of three threads adds no pair of steps that two do not
have, as the functions share nothing but the maps. Two VMs are what is needed to
wait for a lock held for another VM, and five calls to wait for a second lock
while holding the first: A is initialised and started, B is initialised, and a
start of B, holding `INIT_MAP`, wants `STARTED_MAP` while a call for A holds it
(TLC reaches that state). Data is `{d1}` in the runs of the C API
because it is only stored. A page of 110 bytes makes a table of three entries
one page and a table of four entries two, so that tables outgrow a buffer. Two
guests of one session are what a host needs to swap measurements or packets, two
bytes what it takes to cut memory in two ways; guests are symmetric, since
nothing but their names tells them apart. Two sessions share no key, so that one
is enough for TLC; the theorems are for any number. Images have up to six pages
of six fields, enough for a hash table that starts inside its page, for regions
of one and of two pages and for an update that fails between two pages; the
layouts have OVMF's order, the CPUID page first (so that EC2's order differs in
every case) and no page for kernel hashes. A changed field takes small values,
counts, sizes, section types and a GUID. Of the owners who sign, two have the
same two keys in exchanged roles, so that a role that is not checked shows; the
others have a key with unnamed parameters, the default policy, and files that
are missing, too short, in another format or for another curve.

Two administrators, interchangeable and therefore a symmetry, are what a stale
request needs; three keys allow two renewals, by which a PEK, a PDH and a
request can all be of different times. Three TCBs make an installed, a reported
and an earlier one differ. Two paths and two creations let a file be replaced
while it is read, or removed while another appears; of the three chains two are
of one platform before and after it got an owner (they share a PEK and a CEK,
which is the hardest case for `TornIsCaught`), and one has AMD's larger keys.

Deadlock checking is off because the programs may stop:
calls are bounded, and nobody is forced to make another one. That no thread is
stuck *inside* the library is `NoDeadlock` and `CallsReturn`.

Fairness. `FairSpec`, and `OrderedSpec` which is `FairSpec` with VMs created in one
order, have weak fairness of each thread's steps inside the library: the operating system schedules threads and the kernel finishes ioctls.
Nothing is assumed of calls, which callers make when they like. A `std` Mutex is
not fair, so with an endless stream of other calls a thread might starve; `Call`
is bounded by `MaxCalls`, which makes weak fairness enough, and that is what
`CallsReturn` says: with finitely many calls every one of them returns.

What else the code does, and no run is spent on: `get_derived_key` does not look at
the status of the response, so that a refused request gives Ok and a key of zeroes;
the file that `Vmsa` writes for QEMU lacks the FPU's control words, which are
measured; `get()` does not go on to a later file when the one it found goes away.
The first two are hazards, the third is a case that `FindsWhatStood` names.

What holds only without reuse of descriptors. `IoctlInOrder`,
`SecretAfterDelivery`, `RetTruthful`, `OrphanReported` and the refinement are
checked and proved for `ReuseFds = FALSE`. With reuse the library cannot know
that the VM behind an entry is gone: `stale_entry` shows the consequence.

## The proofs

Every theorem is for arbitrary constants, from the ASSUMEs of the module that it
is about, which TLC evaluates on the instance of each run. The ASSUMEs of
SevLaunch, SevLauncher and LibSev only say what kind of thing a constant is. Those
of the other modules also say what the outside world is: that an SP signs only
its own keys (SevSession); that chains which a tool writes are made of
certificates that belong together, and that one PEK is one chip's
(`ChainsAssumption` of CachedChain); that a host's table is one whose size a
`u32` counts (`TablesAssumption` of SnpGuest). Those of SnpLauncher are:

* `MachinesAssumption`: a machine has sections of whole pages and an image as OVMF
  is built, a kernel is booted only with firmware that has a page for its hashes,
  and images are told apart by their code. The hash of a file is not the number
  that stands for a GUID.
* `InputsAssumption`: an owner has the image, or its hash and a file of the same
  length, any field of which may be wrong.
* `OrdersAssumption`: a VMM has no signature with an owner's key but those that
  the owners made.
* `BindsAssumption`: the table of hashes fits in its page, and the firmware of a
  machine with one CPU that EC2 launches lists some section after a CPUID
  section. OVMF has both. `DigestBinds` is false without: `construct_page` cuts a
  table at the end of its page (`measurement/sev_hashes.rs:208`), so that kernels
  which differ in the part that was cut have one digest; and with one CPU the save
  areas that are calculated for EC2 and KRUN are the same, so that only the place of
  the CPUID page tells the two apart. Only `DigestsAlwaysBind` uses it.

What is assumed of a theorem beyond these is in its statement: `~ReuseFds` and
`TablesKept`.

* **SevLaunchProofs**: lemmas about the outcomes of each ioctl and method: they
  have the type `Outcome`; a method called in the guest state it needs leaves,
  on Ok, the next state and, on Err, the same one.
* **SevLauncherProofs**: `TypeCorrect`, `RightOrderHolds`, `SecretsHold`,
  `ReportsHold`. `SecretsAfterMeasurement` and `ReportsAgree` are about VMs whose
  launcher may be `Gone`, of which `RightOrder` says nothing; the invariant
  therefore speaks of guests: one that is not yet measured has no secret
  (`NoEarlySecret`), one that is has had all its memory measured
  (`MeasuredIsAll`), and reports are of running guests (`ReportedRuns`).
* **LibSevProofs**: `TypeCorrect` (`Spec => []TypeOK`), `LaunchersAreUnique`
  and `DeadlockFree`. The inductive invariant `Inv` relates a thread's `pc`, what it has in
  hand and the locks it holds: a thread that owns a launcher is past its
  `remove` (`HandOK`); a lock is held only by a thread past its lookup, and it is
  the lock of the map that its function looks launchers up in (`LockOK`); a
  VM still to be initialised has no launcher anywhere. Uniqueness alone is not
  inductive, since `sev_init` creates a launcher out of nothing: that the VM's
  guest left state `none` only then is what makes it new. Deadlock freedom
  follows from the order INIT, STARTED, MEASURED, FINISHED in which locks are
  nested: take the holder of the greatest lock held.
  `IoctlsInRightOrder`: with `~ReuseFds`, in every reachable state each
  launcher, in a map or in a hand, is of the VM its descriptor names, and that
  VM's guest is in the state the launcher's type says (`Agree`); with uniqueness,
  no other thread can move that guest on. `ReturnsAreTruthful` and
  `OrphansAreReported` are then inductive together with the fact that a VM not
  yet created is no SEV guest (`Told`): the step that returns is also the one
  in which a thread's launcher is stored or lost, and by `Agree` what it returns
  says what became of the VM.
* **LibSevProofs**, the refinement: `CApiImplementsRustApi`, that is,
  `Spec => ImplementsLauncher` for `~ReuseFds`. `Phase` maps a VM to the type of
  the launcher that some map, or some thread's hand, has for it; by uniqueness
  there is one such place, and by `Agree` the guest is in its state, so that the
  ioctl step is the method of SevLauncher and every other step stutters.
  SevLauncher bounds memory by `MaxContent`, here `MaxCalls`; that this is never
  in the way is `Room`: pieces in memory and calls that may still add one are
  together no more than the calls made. The theorems of SevLauncherProofs then
  hold of the C API through the instance `RustApi`, and with `Delivery` (a
  measurement was copied to the caller, or is about to be and the guest has no
  secret yet) give
  `SecretsAfterDelivery`.
* **SevSessionProofs**: `TypeCorrect`, `SecretsReachVerifiedGuests`,
  `RefusalsAreRight`, `KeysAreForTheChip`, `GenuineChainsAreAccepted`.
  `SecretOnlyInVerified` speaks of
  guests and claims only, and is not inductive: between the two stand the
  packets that the host holds. `Inv` adds that every packet, and every secret in
  a guest, carries the measurement of a claim of its session, which is Verified
  (`PacketOK`, `SecretOK`); that a claim agrees with its measurement exactly
  when the session is not Gone (`ClaimOK`); that a measurement says what the SP
  has (`MeasureOK`) and that the hasher was given what the owner meant
  (`FedOK`). `ChainOfOneChip` is the fact about certificates: from
  `SignersAssumption`, that an SP signs only its own keys with CEK and PEK, the
  two links CEK-PEK and PEK-PDH make the PDH the chip's own. `GenuineVerifies` is
  its converse: certificates that were made for each other pass every link, in
  whichever slot each signature is.
* **PlatformProofs**, the host: `HostTypeCorrect`, `ExportsVerify`,
  `OwnersAreInChain`. `OwnerInChain` is about one
  administrator's OCA and is not inductive: what keeps it is that the
  certificates in the firmware form a chain after every command (`Chained`), that
  a request has exactly one signature, an OCA's (`IsRequest`), so that the CEK's
  finds the second slot when the request is imported, and that nobody was told
  to be owner unless the platform is owned, with their OCA (`OwnerOK`), which is
  why a second import fails. The lemmas `SignFirst`, `SignSecond` and
  `VerifyBySlot` say what `sign` and `verify` do with the two slots.
* **PlatformProofs**, the cache: `NothingIsMissed`, that NotFound means that every
  file of the call was removed, or that the first one found was; in the second case
  a later one may be missed: `get()` does not go on along the path. The invariant says that a file
  of the call is there or was removed (`Stays`), that each path `get()` has passed
  had none or lost it (`Passed`), and that the file it is about to open is there
  or was removed; the first path of a set comes from the well-foundedness of
  the naturals. `UntouchedFilesAreRead` and `TornChainsAreCaught` need `ReadInv`:
  each piece that was read is a piece of a chain that was written, of the same
  one as long as the file is untouched. What is left out of `UntouchedIsRead` is
  which error a 4096-bit chain gives that is cut before a signature: `cut_chain`
  shows that it is none. That a torn chain is caught follows
  link by link: a PDH that verifies under a PEK is of the PEK's chain, and so up
  to the CEK, the ASK and the ARK. The OCA is no such link, as a PEK may have had
  two owners.
* **SnpGuestProofs**: `TypeCorrect`, `ReportsAreAnswers`, `CertificatesAreHosts`,
  `AttestedReportsAreGenuine`, `AttestationSucceeds`. Most of it is about
  SnpCertTable: the recursive function that lays out a table exists and has the
  offsets that the parser follows, provided that no offset exceeds a `u32`;
  parsing what was laid out gives the entries back up to the first empty type;
  the sort is a permutation that puts types in their order. The invariant adds
  that a call in progress has no result (`InFlight`), that the second request's
  buffer is large enough for a table that is kept (`BufferOK`), and that the
  certificates of a result are those of a table that stood during the call, or
  of none (`GoodResult`). `TablesKept` excludes the case of `table_grows`, and is
  a hypothesis of the two theorems that do not hold in it.
* **SnpMeasureProofs**: `MeasurementIsPredicted`, that for every machine of QEMU or
  EC2 the digest that is calculated is of the pages that the VMM loads
  (`Predicted`). The walk over
  the footer table goes backwards, and what it has found when it has read `n`
  entries is `HasRead`; since no GUID is in the table twice, the table that the
  parser makes has every entry. With it the metadata is where its entry says, and
  the parser's sections are the machine's (`IsRead`). Each section then adds to
  the digest what the VMM loads for it, the two passes for EC2 come to the order
  in which EC2's VMM loads (`OfTypes`), and the save areas follow one by one: for QEMU those of
  `Vmsa`'s calls, field by field, from the halves of the reset address to the
  signature of the CPU's family, model and stepping. The recursive functions that the loops are modelled by are shown to exist and to be
  unique (`StepsExist`, `Follows`). The second half is about files that are no
  image at all, since an owner's copy may be wrong: what is read of any file has
  its type (`IsAnyRead`), and what is measured with it is no save area before the
  save areas, and has the owner's hash table in it if there is a kernel
  (`RestMeasured`).
* **SnpLauncherProofs**, the launch: `TypeCorrect`, `LauncherStaysInStep`,
  `LoadedIsMeasured`, `DigestsAlwaysAgree`, `IdBlocksBind`, `RightBlocksRun`. The
  digest is not a function of how far the VMM has got: a failed update may have
  added pages, of which the VMM knows nothing. `LoadOK` says that the digest is of
  everything up to `pos` and of `e` pages more, which do not reach the end of the
  region. When `e` is not 0 no later update gets past its first page, since the
  firmware refuses a page that is already the guest's, so that a VMM that reaches
  the end had no such failure. `Ending` says of a guest that runs, or was refused
  for its block, what the firmware compared.
* **SnpLauncherProofs**, the save areas: `VmsasAgree`, for QEMU and all fields that
  `Vmsa` has. The calls are made in any of their orders; the proof goes by what a save area has in it once a set of the calls
  is done (`Written`), which each call keeps if those that must come before it are
  in the set.
* **SnpLauncherProofs**, what a digest tells: `SevDigestsAlwaysBind` and
  `DigestsAlwaysBind`. For SEV and SEV-ES, image, table and save areas are hashed
  end to end without their lengths; an image has the footer's GUID last but one,
  a table its own GUID first, and no save area, cut anywhere, has a GUID in the
  place where image or table would then end, so that there is one way to cut them
  apart (`TablesSplit`, `AreasSplit`). For SNP the addresses help:
  the address of the first page says how long the image is, so that two digests
  that agree begin with the same image. Save areas are told from other pages by
  their type. The header's GUID is in the page of hashes once, which gives the
  offset of the table and so what is booted. That much holds of a copy with any
  wrong field beside a right hash. With a right copy, a launch that was finished
  early has too few save areas or pages to agree (`AreasTell`, `LoadedBegins`),
  and the VMM is told from the save areas or from the place of the CPUID page
  (`CpuidPlace`). No digest that is calculated from a right copy, for KRUN or another
  VMM, is that of a guest of KRUN: its first CPU has a stack pointer, which no calculated area has.
  `DigestsAlwaysAgree` and `RightBlocksRun` are therefore about QEMU and EC2, and
  `SevDigestsAlwaysBind` says of SEV-ES with KRUN only what must be the same for
  digests to agree.

Induction. The induction theorems of the library take an operator, which the
installed provers cannot instantiate. Where a function is recursive the proofs
therefore go by the set of the places where the claim fails, which has a least
element (`LeastOf`), and prove that there is no such place (`InductionTo`).

Only model-checked: `CallsReturn`, since the prover has no rule for fairness and
ENABLED, and the six counterexamples.

## Plan

1. *Done*: errors, SEV launch, the C API, guest requests, certificate tables,
   SNP chain; first theorems.
2. *Done*: **SevCerts** and **SevSession**, with their theorems.
3. *Done*: **OvmfFile**, **SnpMeasure** and **SnpLauncher**.
4. *Done*: the digests of SEV and SEV-ES; **HostFirmware** and **CachedChain**
   with their theorems; **Vmsa** and **SnpIdBlock**, composed into SnpLauncher;
   a host that changes its table next to those that keep it.
5. *Done*: the proofs of SevLauncher, of the rest of LibSev and of its
   refinement, of `GenuineChainsStart`, of reading the cache, of SNP guest
   requests and certificate tables, and of SNP launches and ID blocks.
6. *Done*: `Predicted` from what an image of a machine is, with the loops written
   as functions of the number of steps done; `VmsaAgrees`, `SevDigestsBind` and
   `DigestBinds`. Every invariant and the refinement are now proved.

## Not modelled

* Built-in certificates are constants included from files, and the generation
  tables map CPU identifiers to names: there is no state and no decision.
* Encodings: X.509, PEM and DER, the layout of keys, signatures and reports, byte
  order and reserved fields. Keys, signatures and hashes are symbols, and
  cryptography is taken to be perfect. Where an encoding decides something (a
  certificate's slot, the order of a table, the key size of an AMD certificate,
  the format of a key file) that decision is modelled.
* `LegacyAttestationReport`: measuring one always panics, since a length is
  wrong, so that no input reaches its signature check (a hazard in
  `PROJECT.json`).
* The layout of SNP_VLEK_LOAD's command, which is the kernel's: the model has
  what the code puts at the address (a reference to the hashstick, not the
  hashstick), and a firmware that refuses it.
* `Display` texts and logging.
