---------------------------- MODULE SnpLauncher -----------------------------
(***************************************************************************)
(* Launching an SNP guest, src/src/launch/snp.rs, and the launch digest     *)
(* that comes of it.  A VMM loads a machine's pages with update_data, in    *)
(* pieces of its choice; the firmware (external) extends the digest page by *)
(* page; the guest owner has calculated with SnpMeasure what it should be,  *)
(* and may have signed it with SnpIdBlock.                                  *)
(***************************************************************************)
EXTENDS SnpMeasure, SnpIdBlock, Vmsa, SevError

CONSTANTS Machines,   \* what a VMM can be told to launch
          Image,      \* the OVMF image of a machine
          Footer,     \* the entries of its footer table: [guid, data]
          Inputs,     \* what an owner may calculate a digest from: [machine, args]
          Owners,     \* [machine, family_id, image_id, svn, policy, id_key, author_key]
          Orders,     \* how a VMM may launch: [machine, policy, id_block, id_auth]
          Failures    \* firmware codes an ioctl may fail with by itself

(* An ioctl that fails by itself does not blame the ID block. *)
ASSUME FailuresAssumption == Failures \subseteq Nat \ {BadSignature, BadMeasurement, PolicyFailure}

-----------------------------------------------------------------------------
(* Images, as OVMF is built: code, the SEV metadata somewhere, and the      *)
(* footer table at the end, its entries one after the other.                *)

TypeCode(type) == CHOOSE n \in DOMAIN SectionType : SectionType[n] = type

Metadata(sections) ==
  <<ASEV, METADATA_HEADER_SIZE + Len(sections) * SECTION_DESC_SIZE, 1, Len(sections)>>
    \o FlattenSeq([i \in 1 .. Len(sections) |->
                     <<sections[i].gpa, sections[i].size, TypeCode(sections[i].section_type)>>])

EntryFields(entry) == entry.data \o <<Len(entry.data) + ENTRY_HEADER_SIZE, entry.guid>>

FooterTable(entries) == FlattenSeq([n \in 1 .. Len(entries) |-> EntryFields(entries[n])])

(* The entry of a GUID starts with a number. *)
Gives(entries, guid, number) ==
  \E n \in 1 .. Len(entries) :
    entries[n].guid = guid /\ entries[n].data # <<>> /\ entries[n].data[1] = number

HasHashes(m) == \E i \in 1 .. Len(m.sections) : m.sections[i].section_type = "SnpKernelHashes"

(* file, with these entries in its table, is an image of the machine m. *)
IsImage(file, entries, m) ==
  LET table == FooterTable(entries)
      metadata == Metadata(m.sections)
  IN  /\ file \in Seq(Nat) /\ Len(file) # 0 /\ Len(file) % PAGE = 0
      /\ entries \in Seq([guid : Nat, data : Seq(Nat)])
      /\ \A i, j \in 1 .. Len(entries) : entries[i].guid = entries[j].guid => i = j
      /\ Len(table) + ENTRY_HEADER_SIZE + FOOTER_TO_END <= Len(file)
      /\ SubSeq(file, Len(file) - Len(table) - 2, Len(file) - 1) =
           table \o <<Len(table) + ENTRY_HEADER_SIZE, OVMF_TABLE_FOOTER_GUID>>
      /\ \E at \in Len(metadata) .. Len(file) :
           /\ Gives(entries, OVMF_SEV_META_DATA_GUID, at)
           /\ SubSeq(file, Len(file) - at + 1, Len(file) - at + Len(metadata)) = metadata
      /\ Gives(entries, SEV_ES_RESET_BLOCK_GUID, m.eip)
      /\ HasHashes(m) => Gives(entries, SEV_HASH_TABLE_RV_GUID, m.hashes_gpa)

(* The hash of a file is not a GUID. *)
Hash == Nat \ {OVMF_TABLE_FOOTER_GUID, SEV_HASH_TABLE_HEADER_GUID}

(* What can be launched: CPUs of a known kind, sections of whole pages, and *)
(* hashes within their page.                                                *)
IsMachine(m) ==
  /\ m.vmm \in {"QEMU", "EC2", "KRUN"} /\ m.vcpus \in Nat \ {0} /\ m.vcpu_type \in CpuTypes
  /\ m.features \in Nat /\ m.eip \in 1 .. BSP_EIP - 1 /\ m.eip # OVMF_TABLE_FOOTER_GUID
  /\ m.hashes_gpa \in Nat \ {0}
  /\ m.sections \in Seq([gpa : Nat, size : Nat, section_type : SectionTypes])
  /\ \A i \in 1 .. Len(m.sections) :
       LET desc == m.sections[i]
       IN  /\ desc.size # 0 /\ desc.size % PAGE = 0
           /\ desc.section_type = "SnpKernelHashes" =>
                /\ desc.size = PAGE /\ desc.gpa % PAGE = 0
                /\ m.hashes_gpa \in desc.gpa .. desc.gpa + PAGE - 1
  /\ LET hashes == SevHashes(m.kernel, m.initrd, m.append)
     IN  m.kernel # None => {hashes.kernel, hashes.initrd, hashes.cmdline} \subseteq Hash

(* A VMM boots a kernel only if its firmware has a page for its hashes.     *)
(* Machines with the same image have the same code.                         *)
ASSUME MachinesAssumption ==
  /\ \A m \in DOMAIN Image : IsMachine(m) /\ IsImage(Image[m], Footer[m], m)
  /\ \A m, n \in DOMAIN Image : Image[m] = Image[n] => m.code = n.code
  /\ Machines \subseteq {m \in DOMAIN Image : m.kernel # None => HasHashes(m)}

VARIABLES
  machine,  \* what the VMM launches
  order,    \* how: {} before start(), then one of Orders
  phase,    \* the type of its launcher; None before, Gone and Done after it
  guest,    \* the guest as the kernel and the firmware see it
  pos,      \* the region and the page that the VMM has got to
  ret       \* the error of the last method, {} for Ok

vars == <<machine, order, phase, guest, pos, ret>>

-----------------------------------------------------------------------------
(* The VMM: the regions it loads, each a sequence of pages.  It reads the   *)
(* firmware's metadata too, and EC2's loads CPUID pages last.               *)

ZeroPages(desc) ==
  [i \in 1 .. desc.size \div PAGE |-> PageInfo("Zero", desc.gpa + (i - 1) * PAGE, ZEROS)]

(* QEMU's hash table, in memory at m.hashes_gpa. *)
HashPage(m, desc) ==
  LET hashes == SevHashes(m.kernel, m.initrd, m.append)
      table == <<SEV_HASH_TABLE_HEADER_GUID, hashes.cmdline, hashes.initrd, hashes.kernel>>
      Field(at) == IF at \in m.hashes_gpa .. m.hashes_gpa + Len(table) - 1
                     THEN table[at - m.hashes_gpa + 1] ELSE 0
  IN  <<PageInfo("Normal", desc.gpa, [i \in 1 .. PAGE |-> Field(desc.gpa + i - 1)])>>

Region(m, desc) ==
  CASE desc.section_type = "SnpSecMemory" -> ZeroPages(desc)
    [] desc.section_type = "SnpSecrets" -> <<PageInfo("Secrets", desc.gpa, ZEROS)>>
    [] desc.section_type = "CPUID" -> <<PageInfo("Cpuid", desc.gpa, ZEROS)>>
    [] desc.section_type = "SnpKernelHashes" ->
         IF m.kernel = None THEN ZeroPages(desc) ELSE HashPage(m, desc)

(* The sections of some types, in their order. *)
OfTypes(sections, types) ==
  LET chosen[n \in 0 .. Len(sections)] ==
        IF n = 0 THEN <<>>
        ELSE IF sections[n].section_type \in types THEN Append(chosen[n - 1], sections[n])
        ELSE chosen[n - 1]
  IN  chosen[Len(sections)]

Regions(m) ==
  LET image == Image[m]
      late == IF m.vmm = "EC2" THEN {"CPUID"} ELSE {}
      descs == OfTypes(m.sections, SectionTypes \ late) \o OfTypes(m.sections, late)
  IN  <<[i \in 1 .. Len(image) \div PAGE |->
           PageInfo("Normal", FOUR_GB - Len(image) + (i - 1) * PAGE, PageOf(image, i))]>>
        \o [i \in 1 .. Len(descs) |-> Region(m, descs[i])]

(* The family, model and stepping of the CPUs. *)
Fms(vcpu_type) ==
  CASE vcpu_type \in {"Epyc", "EpycV1", "EpycV2", "EpycIBPB", "EpycV3", "EpycV4"} -> <<23, 1, 2>>
    [] vcpu_type \in {"EpycRome", "EpycRomeV1", "EpycRomeV2", "EpycRomeV3"} -> <<23, 49, 0>>
    [] vcpu_type \in {"EpycMilan", "EpycMilanV1", "EpycMilanV2"} -> <<25, 1, 1>>
    [] vcpu_type \in {"EpycGenoa", "EpycGenoaV1"} -> <<25, 17, 0>>

(* A virtual CPU as QEMU and KRUN set it up: what Vmsa has of them, an      *)
(* account apart from build_save_area's.                                    *)
Vcpu(m, cpu) ==
  LET kvm == init_kvm(init_amd64(Vmsa_default))
      type == Fms(m.vcpu_type)
      qemu == cpu_sku(init_qemu(kvm, cpu), type[1], type[2], type[3])
  IN  CASE m.vmm = "QEMU" /\ cpu = 0 -> qemu
        [] m.vmm = "QEMU" /\ cpu # 0 -> reset_addr(qemu, Halves(m.eip))
        [] m.vmm = "KRUN" -> init_krun(kvm, cpu)

(* Its save area.  The FPU's control words, mxcsr and x87_fcw, are beyond   *)
(* the fields that Vmsa has.                                                *)
AreaOf(v, features, fpu) ==
  SevEsSaveArea(<<v.cs_base, v.rip, v.cs_selector>>, features,
                <<v.cs, v.ss, v.tr, v.rdx, fpu[1], fpu[2]>>, <<v.rsp, v.rsi>>)

(* The control words with KVM, after the reset of an FPU. *)
FPU_RESET == <<8064, 895>>

(* Of EC2's save areas, and of the FPU with KRUN, nothing is known but what *)
(* build_save_area has.                                                     *)
AreasWith(m, features) ==
  [i \in 1 .. m.vcpus |->
     CASE m.vmm = "QEMU" -> AreaOf(Vcpu(m, i - 1), features, FPU_RESET)
       [] m.vmm = "KRUN" -> AreaOf(Vcpu(m, i - 1), features, <<0, 0>>)
       [] m.vmm = "EC2" -> build_save_area(IF i = 1 THEN BSP_EIP ELSE m.eip, features,
                                           m.vcpu_type, m.vmm, m.vcpus)]

SaveAreas(m) ==
  [i \in 1 .. m.vcpus |-> PageInfo("Vmsa", VMSA_GPA, AreasWith(m, m.features)[i])]

PageInfos ==
  [page_type : {"Normal", "Vmsa", "Zero", "Unmeasured", "Secrets", "Cpuid"},
   gpa : Int, contents : Seq(Nat)]

(* All that is measured of a machine that is loaded to the end. *)
Measured(m) == FlattenSeq(Regions(m)) \o SaveAreas(m)

Loaded == pos = <<Len(Regions(machine)) + 1, 0>>

-----------------------------------------------------------------------------
(* The ioctls: outcomes [ok, error, g]. *)

Outcomes(ok, codes, g) == {[ok |-> ok, error |-> c, g |-> g] : c \in codes}

(* A page that the guest has already is not added again.  A failure leaves  *)
(* the pages before it in the digest.                                       *)
SNP_LAUNCH_UPDATE(g, pages) ==
  LET has == {g.ld[i].gpa : i \in 1 .. Len(g.ld)}
      fresh == {n \in 0 .. Len(pages) : \A i \in 1 .. n : pages[i].gpa \notin has}
      With(n) == [g EXCEPT !.ld = @ \o SubSeq(pages, 1, n)]
  IN  IF g.state # "started" THEN Outcomes(FALSE, {InvalidGuestState}, g)
      ELSE (UNION {Outcomes(FALSE, Failures, With(n)) : n \in fresh \ {Len(pages)}})
             \cup IF Len(pages) \in fresh THEN Outcomes(TRUE, {0}, With(Len(pages)))
                  ELSE Outcomes(FALSE, {0}, g)

SNP_INIT(g) ==
  Outcomes(FALSE, Failures, g)
    \cup IF g.state = "none" THEN Outcomes(TRUE, {0}, [g EXCEPT !.state = "init"])
         ELSE Outcomes(FALSE, {0}, g)

(* Bit 17 of a policy must be one, its documentation says; the test that    *)
(* launches a guest has it zero.  The firmware may refuse it or not.        *)
Reserved17(policy) == (policy \div 2^17) % 2

SNP_LAUNCH_START(g, cmd) ==
  Outcomes(FALSE, Failures, g)
    \cup CASE g.state # "init" -> Outcomes(FALSE, {InvalidGuestState}, g)
           [] g.state = "init" ->
                (IF Reserved17(cmd.policy) = 0 THEN Outcomes(FALSE, {PolicyFailure}, g) ELSE {})
                  \cup Outcomes(TRUE, {0}, [g EXCEPT !.state = "started", !.policy = cmd.policy])

Signs(key, data, signature) == signature = [by |-> key, of |-> data]

(* What the firmware has against an ID block, {} for nothing. *)
IdBlockError(g, block, auth, auth_key_en) ==
  CASE \/ ~Signs(auth.id_pubkey, block, auth.id_block_sig)
       \/ auth_key_en /\ ~Signs(auth.author_pub_key, auth.id_pubkey, auth.id_key_sig) -> {BadSignature}
    [] /\ Signs(auth.id_pubkey, block, auth.id_block_sig)
       /\ auth_key_en => Signs(auth.author_pub_key, auth.id_pubkey, auth.id_key_sig) ->
         IF block.launch_digest # {g.ld} THEN {BadMeasurement}
         ELSE IF block.policy # g.policy THEN {PolicyFailure} ELSE {}

(* What its reports then say. *)
Identity(block, auth) ==
  [family_id |-> block.family_id, image_id |-> block.image_id, guest_svn |-> block.guest_svn,
   id_key_digest |-> <<"sha384", auth.id_pubkey>>,
   author_key_digest |-> <<"sha384", auth.author_pub_key>>]

(* KVM adds the save areas of the virtual CPUs first; a block without its   *)
(* authentication is at address 0, which it cannot read.                    *)
SNP_LAUNCH_FINISH(g, cmd, areas) ==
  LET full == [g EXCEPT !.ld = @ \o areas]
      Run(id) == Outcomes(TRUE, {0}, [full EXCEPT !.state = "running", !.id = id])
      blocks == cmd.id_block \X cmd.id_auth
      errors == UNION {IdBlockError(full, b[1], b[2], cmd.auth_key_en) : b \in blocks}
  IN  Outcomes(FALSE, Failures, g)
        \cup CASE g.state # "started" -> Outcomes(FALSE, {InvalidGuestState}, g)
               [] g.state = "started" /\ ~cmd.id_block_en -> Run({})
               [] g.state = "started" /\ cmd.id_block_en /\ blocks = {} -> Outcomes(FALSE, {0}, g)
               [] g.state = "started" /\ blocks # {} /\ errors # {} -> Outcomes(FALSE, errors, full)
               [] g.state = "started" /\ blocks # {} /\ errors = {} ->
                    Run({Identity(b[1], b[2]) : b \in blocks})

-----------------------------------------------------------------------------
(* The methods.  XXX.ioctl(..).map_err(|e| cmd.encapsulate(e))? *)
Cmd(outcomes, okPhase, errPhase) ==
  \E o \in outcomes :
    /\ guest' = o.g
    /\ phase' = IF o.ok THEN okPhase ELSE errPhase
    /\ ret' = IF o.ok THEN {} ELSE {ToIo(encapsulate(o.error))}

new ==
  /\ phase = "None"
  /\ Cmd(SNP_INIT(guest), "New", "None")
  /\ UNCHANGED <<machine, order, pos>>

(* LaunchStart::from *)
LaunchStart(start_) == [policy |-> start_.policy]

(* LaunchFinish::from *)
LaunchFinish(finish_) ==
  [id_block |-> finish_.id_block, id_auth |-> finish_.id_auth,
   id_block_en |-> finish_.id_block # {}, auth_key_en |-> finish_.id_auth # {}]

(* Mutant: a failed start() leaves a launcher that counts as started. *)
start_KeepsGoing(o) ==
  /\ phase = "New"
  /\ Cmd(SNP_LAUNCH_START(guest, LaunchStart(o)), "Started", "Started")
  /\ order' = {o}
  /\ UNCHANGED <<machine, pos>>

start(o) ==
  /\ phase = "New"
  /\ Cmd(SNP_LAUNCH_START(guest, LaunchStart(o)), "Started", "Gone")
  /\ order' = {o}
  /\ UNCHANGED <<machine, pos>>

(* The VMM's next n pages of a region; it goes on only after an Ok. *)
Advance(region, n) ==
  pos' = CASE ret' # {} -> pos
           [] ret' = {} /\ pos[2] + n < Len(region) -> <<pos[1], pos[2] + n>>
           [] ret' = {} /\ pos[2] + n = Len(region) -> <<pos[1] + 1, 0>>

(* KvmEncRegion::register may fail, with a plain io::Error.  The length goes *)
(* into a u32, which holds it: a region lies below FOUR_GB.                 *)
update_data(n) ==
  /\ phase = "Started"
  /\ pos[1] <= Len(Regions(machine))
  /\ LET region == Regions(machine)[pos[1]]
     IN  /\ pos[2] + n <= Len(region)
         /\ \/ /\ ret' = {Os}
               /\ UNCHANGED <<phase, guest>>
            \/ Cmd(SNP_LAUNCH_UPDATE(guest, SubSeq(region, pos[2] + 1, pos[2] + n)),
                   "Started", "Started")
         /\ Advance(region, n)
  /\ UNCHANGED <<machine, order>>

finish ==
  /\ phase = "Started"
  /\ \E o \in order :
       Cmd(SNP_LAUNCH_FINISH(guest, LaunchFinish(o), SaveAreas(machine)), "Done", "Gone")
  /\ UNCHANGED <<machine, order, pos>>

Init ==
  /\ machine \in Machines
  /\ order = {}
  /\ phase = "None"
  /\ guest = [state |-> "none", ld |-> <<>>, policy |-> 0, id |-> {}]
  /\ pos = <<1, 0>>
  /\ ret = {}

Next ==
  \/ new
  \/ \E o \in Orders : o.machine = machine /\ start(o)
  \/ \E n \in 1 .. Len(Image[machine]) \div PAGE : update_data(n)
  \/ finish

Spec == Init /\ [][Next]_vars

-----------------------------------------------------------------------------
TypeOK ==
  /\ machine \in Machines
  /\ phase \in {"None", "New", "Started", "Gone", "Done"}
  /\ Cardinality(order) <= 1 /\ \A o \in order : o.machine = machine
  /\ guest.state \in {"none", "init", "started", "running"}
  /\ guest.ld \in Seq(PageInfos)
  /\ guest.policy \in Nat
  /\ pos \in Nat \X Nat
  /\ ret \subseteq IoError

(* "the right steps are called in the right order": a launcher's type is    *)
(* the state its guest is in, whatever failed on the way.                   *)
LauncherInStep ==
  /\ phase = "New" => guest.state = "init"
  /\ phase = "Started" => guest.state = "started"

(* What an owner calculates for a machine, from its image or from the hash  *)
(* of its image calculated before.                                          *)
Args(m, file, hash) ==
  [ovmf_file |-> file, ovmf_hash |-> hash, kernel |-> m.kernel, initrd |-> m.initrd,
   append |-> m.append, vcpus |-> m.vcpus, vcpu_type |-> m.vcpu_type,
   features |-> m.features, vmm |-> IF m.vmm = "QEMU" THEN "none" ELSE m.vmm]

(* The calculation alone: of a machine's own image, or of its hash, comes   *)
(* all that is measured of the machine, unless the VMM is KRUN.             *)
Predicted ==
  \A m \in {k \in Machines : k.vmm # "KRUN"} : \A hash \in {{}, {calc_snp_ovmf_hash(Image[m]).ld}} :
    snp_calc_launch_digest(Args(m, Image[m], hash)) = Gctx(Measured(m))

(* What an owner calculates for the machine is the guest's digest. *)
AsCalculated ==
  \A hash \in {{}, {calc_snp_ovmf_hash(Image[machine]).ld}} :
    snp_calc_launch_digest(Args(machine, Image[machine], hash)) = Gctx(guest.ld)

(* With QEMU and EC2 snp_calc_launch_digest is the digest that the firmware *)
(* comes to, however the VMM cuts the regions and whichever of its calls    *)
(* fail and are tried again, and with the image's own hash in place of the  *)
(* image too.                                                               *)
DigestsAgree == phase = "Done" /\ Loaded /\ machine.vmm # "KRUN" => AsCalculated

(* "Set VMSA values to follow initialization for a VM running as a krun     *)
(* guest": with KRUN too it is the digest of the launch.                    *)
KrunDigestsAgree == phase = "Done" /\ Loaded /\ machine.vmm = "KRUN" => AsCalculated

(* An owner has the image, or its hash and a copy of the image in which     *)
(* fields may be wrong.                                                     *)
ASSUME InputsAssumption ==
  \A i \in Inputs :
    LET file == i.args.ovmf_file
    IN  /\ i.machine \in DOMAIN Image
        /\ file \in Seq(Nat) /\ Len(file) = Len(Image[i.machine])
        /\ \/ i.args = Args(i.machine, file, {calc_snp_ovmf_hash(Image[i.machine]).ld})
           \/ i.args = Args(i.machine, file, {}) /\ file = Image[i.machine]

Calculated == {<<i, snp_calc_launch_digest(i.args)>> : i \in Inputs}

(* The kernel, initrd and command line that a machine boots. *)
Boots(m) == IF m.kernel = None THEN {} ELSE {SevHashes(m.kernel, m.initrd, m.append)}

(* The whole table of hashes is in one page.                                *)
TableFits(m) == HasHashes(m) => (m.hashes_gpa % PAGE) + 4 <= PAGE

(* EC2's VMM does not load the CPUID pages where the others do. *)
CpuidEarly(m) ==
  \E i, j \in 1 .. Len(m.sections) :
    i < j /\ m.sections[i].section_type = "CPUID" /\ m.sections[j].section_type # "CPUID"

(* OVMF has room for the table, and lists other sections after CPUID.       *)
(* Else a digest binds less: construct_page cuts a table at the end of its  *)
(* page, and with one CPU the save areas that are calculated for EC2 and    *)
(* for KRUN are the same.                                                   *)
ASSUME BindsAssumption ==
  \A m \in Machines : TableFits(m) /\ (m.vcpus = 1 /\ m.vmm = "EC2" => CpuidEarly(m))

(* A launch whose digest is what an owner calculated has the code of the    *)
(* image that the owner means and, loaded to the end, boots the kernel,     *)
(* initrd and command line that the owner means, even if the owner's copy   *)
(* of the image is wrong and only the hash given for it right.  With a      *)
(* right copy it is loaded to the end, for the owner's VMM and as many CPUs *)
(* as the owner means, with QEMU of the same signature.                     *)
DigestBinds ==
  phase = "Done" =>
    \A c \in Calculated :
      LET i == c[1]
      IN  c[2] = Gctx(guest.ld) =>
            /\ i.machine.code = machine.code
            /\ Loaded => Boots(i.machine) = Boots(machine)
            /\ i.args.ovmf_file = Image[i.machine] =>
                 /\ Loaded
                 /\ i.machine.vcpus = machine.vcpus
                 /\ i.machine.vmm = machine.vmm
                 /\ machine.vmm = "QEMU" => sig(i.machine.vcpu_type) = sig(machine.vcpu_type)

-----------------------------------------------------------------------------
(* SEV and SEV-ES: what a VMM has the firmware measure. *)

SevLoaded(m) ==
  Image[m] \o IF m.kernel = None THEN <<>>
              ELSE LET h == SevHashes(m.kernel, m.initrd, m.append)
                   IN  <<SEV_HASH_TABLE_HEADER_GUID, h.cmdline, h.initrd, h.kernel>>

SevEsLoaded(m) == SevLoaded(m) \o FlattenSeq(AreasWith(m, 0))

SevCalculated ==
  {<<i, sev_calc_launch_digest(i.args), seves_calc_launch_digest(i.args)>> : i \in Inputs}

(* The digests for SEV and, unless the VMM is KRUN, for SEV-ES are those of *)
(* what the VMM loads, and no two machines that an owner would tell apart   *)
(* have one: the image, what it boots and, for SEV-ES, the CPUs.            *)
SevDigestsBind ==
  phase = "None" =>
    LET image == Image[machine]
        sev == Gctx(SevLoaded(machine))
        seves == Gctx(SevEsLoaded(machine))
    IN  \A c \in SevCalculated :
          LET i == c[1]
              boots == i.args.ovmf_file = image /\ Boots(i.machine) = Boots(machine)
          IN  /\ c[2] = sev <=> boots
              /\ c[3] = seves =>
                   /\ boots
                   /\ i.machine.vcpus = machine.vcpus
                   /\ machine.vmm = "QEMU" => sig(i.machine.vcpu_type) = sig(machine.vcpu_type)
              /\ i.machine = machine /\ machine.vmm # "KRUN" /\ i.args.ovmf_file = image =>
                   c[3] = seves

-----------------------------------------------------------------------------
Call(v, call, m, cpu) ==
  CASE call = "amd64" -> init_amd64(v)
    [] call = "kvm" -> init_kvm(v)
    [] call = "vmm" -> init_qemu(v, cpu)
    [] call = "sku" -> cpu_sku(v, Fms(m.vcpu_type)[1], Fms(m.vcpu_type)[2], Fms(m.vcpu_type)[3])
    [] call = "reset" -> IF cpu = 0 THEN v ELSE reset_addr(v, Halves(m.eip))
    [] call = "file" -> CHOOSE w \in from_file(to_file(v)) : TRUE

(* The calls in every order in which what is special comes after what is    *)
(* general.                                                                 *)
CallOrders ==
  {s \in SetToSeqs({"amd64", "kvm", "vmm", "sku", "reset", "file"}) :
     \A i, j \in DOMAIN s : <<s[i], s[j]>> \in {<<"kvm", "vmm">>, <<"amd64", "vmm">>,
                                              <<"amd64", "reset">>} => i < j}

(* The save area that they make. *)
Made(s, m, cpu) ==
  LET made[n \in 0 .. Len(s)] == IF n = 0 THEN Vmsa_default ELSE Call(made[n - 1], s[n], m, cpu)
  IN  made[Len(s)]

(* What build_save_area measures of a CPU. *)
Calculates(m, cpu) ==
  build_save_area(IF cpu = 0 THEN BSP_EIP ELSE m.eip, 0, m.vcpu_type, m.vmm, m.vcpus)

(* With QEMU the save area that the calls of Vmsa make, in any such order   *)
(* and through a file, is the one that build_save_area measures, in every   *)
(* field but the FPU's control words.                                       *)
VmsaAgrees ==
  phase = "None" /\ machine.vmm = "QEMU" =>
    \A cpu \in 0 .. 1, s \in CallOrders :
      LET v == Made(s, machine, cpu)
      IN  /\ AreaOf(v, 0, FPU_RESET) = Calculates(machine, cpu)
          /\ v.amd64 /\ v.kvm /\ v.g_pat /\ v.ldtr = 130 /\ v.data = 147

-----------------------------------------------------------------------------
(* What an owner signs for a machine; {} when a key file is not one. *)
Signed(o) ==
  snp_calculate_id({snp_calc_launch_digest(Args(o.machine, Image[o.machine], {})).ld},
                   o.family_id, o.image_id, o.svn, o.policy, o.id_key, o.author_key).id

Signatures == UNION {{<<o, x>> : x \in Signed(o)} : o \in Owners}

(* Nobody but an owner signs with the owner's keys: what a VMM has of their *)
(* signatures is from what the owners gave it.  Blocks and keys are such.   *)
ASSUME OrdersAssumption ==
  LET keys == {SevEcdsaPubKey(o.id_key) : o \in Owners}
                \cup {SevEcdsaPubKey(o.author_key) : o \in Owners}
      signed == {s[2].id_auth.id_block_sig : s \in Signatures}
                  \cup {s[2].id_auth.id_key_sig : s \in Signatures}
  IN  \A order_ \in Orders :
        /\ order_.policy \in Nat
        /\ \A block \in order_.id_block :
             DOMAIN block = {"launch_digest", "family_id", "image_id", "guest_svn", "policy"}
        /\ \A auth \in order_.id_auth : DOMAIN auth.id_pubkey = {"curve", "q"}
        /\ \A auth \in order_.id_auth : \A x \in {auth.id_block_sig, auth.id_key_sig} :
             x.by \in keys => x \in signed

(* A guest whose reports name an owner's ID key is one that this key has    *)
(* signed, with the digest, the policy and the numbers of one of its        *)
(* blocks, and if they name an owner's author key, it has signed the ID     *)
(* key: whichever parts of blocks and signatures the VMM puts together.     *)
IdBlockBinds ==
  phase = "Done" =>
    \A id \in guest.id, s \in Signatures :
      /\ id.id_key_digest = s[2].id_key_digest =>
           \E t \in Signatures :
             /\ t[1].id_key.key = s[1].id_key.key
             /\ t[2].id_block = IdBlock({guest.ld}, {id.family_id}, {id.image_id},
                                        {id.guest_svn}, {guest.policy})
      /\ id.author_key_digest = s[2].auth_key_digest =>
           \E t \in Signatures : /\ t[1].author_key.key = s[1].author_key.key
                                 /\ t[2].id_key_digest = id.id_key_digest

(* finish() was refused for what the ID block or its signatures say. *)
BlockRefused ==
  /\ phase = "Gone"
  /\ guest.state = "started"
  /\ ret \in {{ToIo(c)} : c \in {BadSignature, BadMeasurement, PolicyFailure}}

(* What an owner has signed for a machine of QEMU or EC2 does not keep that *)
(* machine from running with the owner's policy.                            *)
RightBlockRuns ==
  BlockRefused /\ Loaded /\ machine.vmm # "KRUN" =>
    \A s \in Signatures :
      ~ /\ s[1].machine = machine
        /\ order = {[machine |-> machine, policy |-> s[2].id_block.policy,
                     id_block |-> {s[2].id_block}, id_auth |-> {s[2].id_auth}]}
=============================================================================
