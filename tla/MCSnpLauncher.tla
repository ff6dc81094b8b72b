--------------------------- MODULE MCSnpLauncher ----------------------------
(* SnpLauncher with small images, and owners whose copy of the image may    *)
(* have a field wrong.                                                      *)
EXTENDS SnpLauncher

MCPAGE == 6
MCFOUR_GB == 1000

Kernels == {201, 202}
MCEmptyFile == 300
MCEmptyLine == 400
(* Command lines: "", "quiet" and " quiet ". *)
MCtrim == 400 :> 400 @@ 401 :> 401 @@ 402 :> 401

Sec(gpa, pages) == [gpa |-> gpa, size |-> pages * PAGE, section_type |-> "SnpSecMemory"]
Secrets == [gpa |-> 60, size |-> PAGE, section_type |-> "SnpSecrets"]
Cpuid == [gpa |-> 66, size |-> PAGE, section_type |-> "CPUID"]
Hashes == [gpa |-> 72, size |-> PAGE, section_type |-> "SnpKernelHashes"]

(* OVMF's own order; CPUID before memory; an image that loads no kernel. *)
Layouts == {<<Sec(12, 2), Secrets, Cpuid, Hashes>>, <<Cpuid, Hashes, Sec(12, 1), Secrets>>,
            <<Secrets, Cpuid, Sec(12, 2)>>}

Boot == {<<None, None, None>>, <<201, None, None>>, <<202, None, None>>, <<201, 301, None>>,
         <<201, 301, 401>>, <<201, None, 402>>}

(* Images' code with the CPUs they are launched on. *)
Kinds == {<<11, "EpycMilan">>, <<11, "EpycRome">>, <<12, "EpycMilanV2">>}

(* The signatures of four generations of EPYC. *)
ASSUME SigAssumption ==
  /\ sig("EpycV4") = \h800F12 /\ sig("EpycRomeV2") = \h830F10
  /\ sig("EpycMilan") = \hA00F11 /\ sig("EpycGenoa") = \hA10F10

Machine(kind, sections, boot, vcpus, vmm) ==
  [code |-> kind[1], sections |-> sections, hashes_gpa |-> 73, eip |-> 50, kernel |-> boot[1],
   initrd |-> boot[2], append |-> boot[3], vcpus |-> vcpus, vcpu_type |-> kind[2],
   features |-> 1, vmm |-> vmm]

AllMachines ==
  {Machine(kind, s, b, n, vmm) : kind \in Kinds, s \in Layouts, b \in Boot, n \in 1 .. 2,
                                 vmm \in {"QEMU", "EC2", "KRUN"}}

(* A VMM does not boot a kernel that its firmware has no hash page for. *)
MCMachines ==
  {m \in AllMachines : /\ m.kernel # None => HasHashes(m)
                       /\ m.vcpu_type # "EpycMilan" => m.vmm = "QEMU"
                       /\ m.vcpu_type = "EpycRome" => m.kernel = None
                       /\ m.vcpus = 2 => m.kernel \in {None, 202}}

-----------------------------------------------------------------------------
(* Images. *)
EntryOf(guid, data) == [guid |-> guid, data |-> data]

(* The metadata lies before the table. *)
FooterOf(m) ==
  LET hashes == IF HasHashes(m) THEN EntryOf(SEV_HASH_TABLE_RV_GUID, <<m.hashes_gpa, 4>>)
                ELSE EntryOf(107, <<>>)
      rest == Len(EntryFields(hashes)) + 3 + 3 + ENTRY_HEADER_SIZE + FOOTER_TO_END
  IN  <<hashes, EntryOf(OVMF_SEV_META_DATA_GUID, <<Len(Metadata(m.sections)) + rest>>),
        EntryOf(SEV_ES_RESET_BLOCK_GUID, <<m.eip>>)>>

ImageOf(m) ==
  LET table == FooterTable(FooterOf(m))
      end == Metadata(m.sections) \o table
               \o <<Len(table) + ENTRY_HEADER_SIZE, OVMF_TABLE_FOOTER_GUID, 0>>
      pad == PAGE - (Len(end) % PAGE)
  IN  [i \in 1 .. pad |-> m.code] \o end

MCFooter == [m \in AllMachines |-> FooterOf(m)]
MCImage == [m \in AllMachines |-> ImageOf(m)]

-----------------------------------------------------------------------------
(* Owners: with the image, with its hash, and some with a field changed.    *)
Right(m) == [machine |-> m, args |-> Args(m, ImageOf(m), {})]

WithHash(m, file) ==
  [machine |-> m, args |-> Args(m, file, {calc_snp_ovmf_hash(ImageOf(m)).ld})]

Changed(file) == {[file EXCEPT ![i] = v] : i \in 1 .. Len(file), v \in {0, 1, 2, 4, 9, 16, 107}}

MCInputs ==
  {Right(m) : m \in AllMachines} \cup {WithHash(m, ImageOf(m)) : m \in AllMachines}
    \cup UNION {{WithHash(m, file) : file \in Changed(ImageOf(m))} :
                  m \in {k \in AllMachines : /\ k.vcpus = 2 /\ k.kernel \in {None, 202}
                                               /\ k.vcpu_type = "EpycMilan"}}

-----------------------------------------------------------------------------
(* Owners who sign what they measured.  Two of the keys sign as ID key and  *)
(* as author key; one owner leaves out what it may, and has a policy that   *)
(* the firmware may not accept; two have files that are no keys of theirs.     *)
MCPolicy == 2^17 + 2^16

Signing == CHOOSE m \in MCMachines : m.vcpus = 1 /\ m.vmm = "QEMU" /\ m.kernel = 201
Unsigned == CHOOSE m \in MCMachines : m.vcpus = 1 /\ m.vmm = "EC2" /\ m.kernel = 202

Key(k) == KeyFile("pem", "P384", k)

Owner(m, family, svn, policy, id_key, author_key) ==
  [machine |-> m, family_id |-> family, image_id |-> {5}, svn |-> svn, policy |-> policy,
   id_key |-> id_key, author_key |-> author_key]

MCOwners ==
  {Owner(Signing, {1}, {1}, {MCPolicy}, Key(1), Key(2)),
   Owner(Signing, {2}, {1}, {MCPolicy}, Key(2), Key(1)),
   Owner(Unsigned, {1}, {2}, {MCPolicy}, Key(1), KeyFile("der", "explicit", 3)),
   Owner(Signing, {}, {}, {}, Key(1), Key(2))}
    \cup {Owner(Signing, {9}, {}, {MCPolicy}, file, Key(2)) :
            file \in {KeyFile("missing", "P384", 1), KeyFile("short", "P384", 1),
                     KeyFile("sec1", "P384", 1), KeyFile("pem", "other", 1)}}

(* The key of the VMM itself, with which it may sign as an author. *)
Own(auth) ==
  [auth EXCEPT !.id_key_sig = SevEcdsaSig(Key(7), auth.id_pubkey),
               !.author_pub_key = SevEcdsaPubKey(Key(7))]

Order(m, policy, id_block, id_auth) ==
  [machine |-> m, policy |-> policy, id_block |-> id_block, id_auth |-> id_auth]

Mixed(x, y) ==
  {x.id_auth, y.id_auth, Own(x.id_auth),
   [x.id_auth EXCEPT !.id_key_sig = y.id_auth.id_key_sig,
                     !.author_pub_key = y.id_auth.author_pub_key],
   [x.id_auth EXCEPT !.id_block_sig = y.id_auth.id_block_sig]}

(* Without a block, with a block only, and with every mixture of two. *)
MCOrders ==
  LET xs == {s[2] : s \in Signatures}
      blocks == {<<x.id_block, {}>> : x \in xs}
                  \cup UNION {{<<x.id_block, {a}>> : a \in Mixed(x, y)} : x, y \in xs}
  IN  {Order(m, MCPolicy, {}, {}) : m \in MCMachines}
        \cup {Order(m, p, {b[1]}, b[2]) : m \in {Signing, Unsigned}, b \in blocks,
                                          p \in {MCPolicy, DEFAULT_ID_POLICY}}
=============================================================================
