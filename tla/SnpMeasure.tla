----------------------------- MODULE SnpMeasure -----------------------------
(***************************************************************************)
(* The SNP launch digest that a guest owner calculates, src/src/measurement *)
(* (snp.rs, gctx.rs, vmsa.rs, sev_hashes.rs): the OVMF image, the pages its *)
(* metadata asks for, the hashes of kernel, initrd and command line, and a  *)
(* save area for each virtual CPU.                                          *)
(*                                                                          *)
(* The digest is a chain of hashes, one link per page; it is modelled by    *)
(* the sequence of the page infos, the zero digest by the empty one.  A     *)
(* hash is modelled by what is hashed.                                      *)
(***************************************************************************)
EXTENDS OvmfFile

CONSTANTS PAGE,        \* the fields of a page, for 4096
          FOUR_GB,     \* the address where the image ends
          EmptyFile,   \* the contents of no initrd
          EmptyLine,   \* the empty command line
          trim         \* str::trim of command lines

ASSUME PageAssumption == PAGE \in Nat \ {0} /\ FOUR_GB \in Nat

None == 0

VMSA_GPA == 0 - 1
ZEROS == <<>>

(* Result<Gctx>: [ok, ld] *)
Gctx(ld) == [ok |-> TRUE, ld |-> ld]

PageInfo(page_type, gpa, contents) ==
  [page_type |-> page_type, gpa |-> gpa, contents |-> contents]

PageOf(data, i) == Slice(data, (i - 1) * PAGE, i * PAGE)

(* Gctx::update_page *)
update_page(gctx, page_type, gpa, contents, length) ==
  CASE page_type = "Normal" /\ Len(contents) % PAGE = 0 ->
         Gctx(gctx.ld \o [i \in 1 .. Len(contents) \div PAGE |->
                            PageInfo(page_type, gpa + (i - 1) * PAGE, PageOf(contents, i))])
    [] page_type = "Vmsa" -> Gctx(Append(gctx.ld, PageInfo(page_type, VMSA_GPA, contents)))
    [] page_type = "Zero" /\ length % PAGE = 0 ->
         Gctx(gctx.ld \o [i \in 1 .. length \div PAGE |->
                            PageInfo(page_type, gpa + (i - 1) * PAGE, ZEROS)])
    [] page_type \in {"Unmeasured", "Secrets", "Cpuid"} ->
         Gctx(Append(gctx.ld, PageInfo(page_type, gpa, ZEROS)))
    [] OTHER -> Failed

-----------------------------------------------------------------------------
(* sev_hashes.rs *)

SEV_HASH_TABLE_HEADER_GUID == 106

SevHashes(kernel, initrd, append) ==
  [kernel |-> kernel,
   initrd |-> IF initrd = None THEN EmptyFile ELSE initrd,
   cmdline |-> IF append = None THEN EmptyLine ELSE trim[append]]

construct_table(hashes) ==
  <<SEV_HASH_TABLE_HEADER_GUID, hashes.cmdline, hashes.initrd, hashes.kernel>>

(* resize() pads with zeroes and cuts what is too long. *)
construct_page(hashes, offset) ==
  LET table == construct_table(hashes)
  IN  [i \in 1 .. PAGE |->
         IF i > offset /\ i <= offset + Len(table) THEN table[i - offset] ELSE 0]

-----------------------------------------------------------------------------
(* vmsa.rs and vcpu_types.rs *)

BSP_EIP == FOUR_GB - 1

(* The bits of a CPUID signature; the fields do not overlap. *)
cpu_sig(family, model, stepping) ==
  LET family_low == IF family > 15 THEN 15 ELSE family
      family_high == IF family > 15 THEN (family - 15) % 256 ELSE 0
  IN  family_high * 2^20 + ((model \div 16) % 16) * 2^16 + family_low * 2^8
        + (model % 16) * 2^4 + (stepping % 16)

CpuTypes ==
  {"Epyc", "EpycV1", "EpycV2", "EpycIBPB", "EpycV3", "EpycV4", "EpycRome", "EpycRomeV1",
   "EpycRomeV2", "EpycRomeV3", "EpycMilan", "EpycMilanV1", "EpycMilanV2", "EpycGenoa", "EpycGenoaV1"}

(* CpuType and its sig(): the versions of a model share one. *)
sig(vcpu_type) ==
  CASE vcpu_type \in {"Epyc", "EpycV1", "EpycV2", "EpycIBPB", "EpycV3", "EpycV4"} ->
         cpu_sig(23, 1, 2)
    [] vcpu_type \in {"EpycRome", "EpycRomeV1", "EpycRomeV2", "EpycRomeV3"} -> cpu_sig(23, 49, 0)
    [] vcpu_type \in {"EpycMilan", "EpycMilanV1", "EpycMilanV2"} -> cpu_sig(25, 1, 1)
    [] vcpu_type \in {"EpycGenoa", "EpycGenoaV1"} -> cpu_sig(25, 17, 0)

(* eip & 0xffff0000 in units of 2^16, and eip & 0xffff; the first CPU's eip *)
(* is 0xfffffff0.                                                           *)
Halves(eip) == IF eip = BSP_EIP THEN <<65535, 65520>> ELSE <<eip \div 2^16, eip % 2^16>>

(* The fields of a save area that two of them can differ in: cs.base (in    *)
(* units of 2^12), rip, cs.selector, sev_features; the attributes of cs, ss *)
(* and tr, rdx, mxcsr and x87_fcw; rsp (as rbp) and rsi.                    *)
SevEsSaveArea(code, features, init, stack) == code \o <<features>> \o init \o stack

(* What KRUN's arm writes to cs and rip is overwritten after the match. *)
build_save_area(eip, features, vcpu_type, vmm, cpu_num) ==
  LET code == <<Halves(eip)[1] * 16, Halves(eip)[2], 61440>>
      init == CASE vmm = "QEMU" -> <<155, 147, 139, sig(vcpu_type), 8064, 895>>
                [] vmm = "EC2" /\ eip = BSP_EIP -> <<154, 146, 131, 0, 0, 0>>
                [] vmm = "EC2" /\ eip # BSP_EIP -> <<155, 146, 131, 0, 0, 0>>
                [] vmm = "KRUN" -> <<154, 146, 131, 0, 0, 0>>
      stack == IF vmm = "KRUN" /\ cpu_num = 0 THEN <<36848, 28672>> ELSE <<0, 0>>
  IN  SevEsSaveArea(code, features, init, stack)

(* VMSA::new and VMSA::pages: no page for other CPUs without a reset eip. *)
vmsa_pages(ap_eip, vcpu_type, vmm, vcpus, features) ==
  LET bsp == build_save_area(BSP_EIP, features, vcpu_type, vmm, vcpus)
      ap == build_save_area(ap_eip, features, vcpu_type, vmm, vcpus)
      count == IF ap_eip > 0 \/ vcpus = 0 THEN vcpus ELSE 1
  IN  [i \in 1 .. count |-> IF i = 1 THEN bsp ELSE ap]

-----------------------------------------------------------------------------
(* snp.rs *)

(* Mutant: the hashes' page is measured as if no kernel was given. *)
snp_update_kernel_hashes_Zero(gctx, ovmf, hashes, gpa, size) ==
  update_page(gctx, "Zero", gpa, <<>>, size)

snp_update_kernel_hashes(gctx, ovmf, hashes, gpa, size) ==
  LET page(h, at) == construct_page(h, at % PAGE)
  IN  CASE hashes = {} -> update_page(gctx, "Zero", gpa, <<>>, size)
        [] hashes # {} /\ sev_hashes_table_gpa(ovmf) # {} /\ size = PAGE ->
             update_page(gctx, "Normal", gpa,
                         page(CHOOSE h \in hashes : TRUE,
                              CHOOSE at \in sev_hashes_table_gpa(ovmf) : TRUE), PAGE)
        [] OTHER -> Failed

snp_update_section(gctx, desc, ovmf, hashes, vmm) ==
  CASE desc.section_type = "SnpSecMemory" -> update_page(gctx, "Zero", desc.gpa, <<>>, desc.size)
    [] desc.section_type = "SnpSecrets" -> update_page(gctx, "Secrets", desc.gpa, <<>>, 0)
    [] desc.section_type = "CPUID" /\ vmm # "EC2" -> update_page(gctx, "Cpuid", desc.gpa, <<>>, 0)
    [] desc.section_type = "CPUID" /\ vmm = "EC2" -> gctx
    [] desc.section_type = "SnpKernelHashes" ->
         snp_update_kernel_hashes(gctx, ovmf, hashes, desc.gpa, desc.size)

(* Mutant: EC2's CPUID pages are measured where they are listed. *)
snp_update_metadata_pages_InOrder(gctx, ovmf, hashes, vmm) ==
  LET items == ovmf.metadata_items
      done[n \in 0 .. Len(items)] ==
        IF n = 0 THEN gctx
        ELSE IF done[n - 1].ok THEN snp_update_section(done[n - 1], items[n], ovmf, hashes, "QEMU")
        ELSE done[n - 1]
  IN  IF hashes # {} /\ ~has_metadata_section(ovmf, "SnpKernelHashes") THEN Failed
      ELSE done[Len(items)]

(* The loops, as functions of the number of items done.  For EC2 there is a *)
(* second pass, for the CPUID pages that the first left out.                *)
snp_update_metadata_pages(gctx, ovmf, hashes, vmm) ==
  LET items == ovmf.metadata_items
      Section(g, desc) == IF g.ok THEN snp_update_section(g, desc, ovmf, hashes, vmm) ELSE g
      Cpuid(g, desc) ==
        IF g.ok /\ vmm = "EC2" /\ desc.section_type = "CPUID"
          THEN update_page(g, "Cpuid", desc.gpa, <<>>, 0) ELSE g
      first[n \in 0 .. Len(items)] == IF n = 0 THEN gctx ELSE Section(first[n - 1], items[n])
      second[n \in 0 .. Len(items)] ==
        IF n = 0 THEN first[Len(items)] ELSE Cpuid(second[n - 1], items[n])
  IN  IF hashes # {} /\ ~has_metadata_section(ovmf, "SnpKernelHashes") THEN Failed
      ELSE second[Len(items)]

Flash(ovmf) == update_page(Gctx(<<>>), "Normal", FOUR_GB - Len(ovmf.data), ovmf.data, 0)

calc_snp_ovmf_hash(file) == LET ovmf == OVMF_new(file) IN IF ovmf.ok THEN Flash(ovmf) ELSE Failed

(* args.ovmf_hash is a digest, as a set of at most one; args.vmm may be     *)
(* "none", args.kernel, args.initrd and args.append None.                   *)
snp_calc_launch_digest(args) ==
  LET ovmf == OVMF_new(args.ovmf_file)
      vmm == IF args.vmm = "none" THEN "QEMU" ELSE args.vmm
      begun == IF args.ovmf_hash = {} THEN Flash(ovmf)
               ELSE Gctx(CHOOSE ld \in args.ovmf_hash : TRUE)
      hashes == IF args.kernel = None THEN {}
                ELSE {SevHashes(args.kernel, args.initrd, args.append)}
      pages == snp_update_metadata_pages(begun, ovmf, hashes, vmm)
      eip == CHOOSE e \in sev_es_reset_eip(ovmf) : TRUE
      areas == vmsa_pages(eip, args.vcpu_type, vmm, args.vcpus, args.features)
      extended[n \in 0 .. Len(areas)] ==
        IF n = 0 THEN pages ELSE update_page(extended[n - 1], "Vmsa", VMSA_GPA, areas[n], 0)
  IN  IF ovmf.ok /\ begun.ok /\ pages.ok /\ sev_es_reset_eip(ovmf) # {}
        THEN extended[Len(areas)] ELSE Failed

-----------------------------------------------------------------------------
(* sev.rs: one hash over the image, the hash table and, for SEV-ES, the     *)
(* save areas, modelled by the sequence of their fields.                    *)

(* Mutant: the table is left out when there is no initrd. *)
launch_hash_NoInitrd(ovmf, args) ==
  CASE ovmf.ok /\ (args.kernel = None \/ args.initrd = None) -> Gctx(ovmf.data)
    [] ovmf.ok /\ args.kernel # None /\ args.initrd # None /\ is_sev_hashes_table_supported(ovmf) ->
         Gctx(ovmf.data \o construct_table(SevHashes(args.kernel, args.initrd, args.append)))
    [] OTHER -> Failed

(* What both calculations begin with. *)
launch_hash(ovmf, args) ==
  CASE ovmf.ok /\ args.kernel = None -> Gctx(ovmf.data)
    [] ovmf.ok /\ args.kernel # None /\ is_sev_hashes_table_supported(ovmf) ->
         Gctx(ovmf.data \o construct_table(SevHashes(args.kernel, args.initrd, args.append)))
    [] OTHER -> Failed

sev_calc_launch_digest(args) == launch_hash(OVMF_new(args.ovmf_file), args)

(* The features are always 0. *)
seves_calc_launch_digest(args) ==
  LET ovmf == OVMF_new(args.ovmf_file)
      vmm == IF args.vmm = "none" THEN "QEMU" ELSE args.vmm
      begun == launch_hash(ovmf, args)
      eip == CHOOSE e \in sev_es_reset_eip(ovmf) : TRUE
  IN  IF begun.ok /\ sev_es_reset_eip(ovmf) # {}
        THEN Gctx(begun.ld \o FlattenSeq(vmsa_pages(eip, args.vcpu_type, vmm, args.vcpus, 0)))
        ELSE Failed
=============================================================================
