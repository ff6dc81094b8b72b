------------------------------ MODULE OvmfFile ------------------------------
(***************************************************************************)
(* Reading an OVMF image, src/src/measurement/ovmf.rs: the footer table,    *)
(* walked backwards from the end of the image, and the SEV metadata that    *)
(* one of its entries points to.                                            *)
(*                                                                          *)
(* An image is a sequence of numbers, one per field of the structures in    *)
(* it, and every size and offset counts fields.  A parse that ends in an    *)
(* Err or in a panic (a slice or a subtraction out of range) is Failed.     *)
(***************************************************************************)
EXTENDS Integers, SequencesExt

ENTRY_HEADER_SIZE == 2   \* OvmfFooterTableEntry: size, guid
METADATA_HEADER_SIZE == 4   \* OvmfSevMetadataHeader: signature, size, version, num_items
SECTION_DESC_SIZE == 3   \* OvmfSevMetadataSectionDesc: gpa, size, section_type
FOOTER_TO_END == 1   \* the 32 bytes after the table

OVMF_TABLE_FOOTER_GUID == 101
SEV_HASH_TABLE_RV_GUID == 102
SEV_ES_RESET_BLOCK_GUID == 103
OVMF_SEV_META_DATA_GUID == 104
ASEV == 105

(* SectionType::try_from *)
SectionType ==
  [n \in {1, 2, 3, 16} |-> CASE n = 1 -> "SnpSecMemory" [] n = 2 -> "SnpSecrets"
                             [] n = 3 -> "CPUID" [] n = 16 -> "SnpKernelHashes"]
SectionTypes == {"SnpSecMemory", "SnpSecrets", "CPUID", "SnpKernelHashes"}

Failed == [ok |-> FALSE]

(* data[from..to], counted from 0 *)
Slice(data, from, to) == SubSeq(data, from + 1, to)

Entry(data, at) == [size |-> data[at + 1], guid |-> data[at + 2]]

(* A later insert, of an entry further from the end, replaces an earlier.   *)
Inserted(walked, guid, data) ==
  LET known == DOMAIN walked.table
      table == [g \in known \cup {guid} |-> IF g \in known THEN walked.table[g] ELSE data]
  IN  IF walked.ok THEN [ok |-> TRUE, table |-> table] ELSE Failed

(* The loop of parse_footer_table over table_bytes. *)
Walk(bytes) ==
  LET walk[offset \in 0 .. Len(bytes)] ==
        LET entry == Entry(bytes, offset - ENTRY_HEADER_SIZE)
        IN  CASE offset < ENTRY_HEADER_SIZE -> [ok |-> TRUE, table |-> <<>>]
              [] offset >= ENTRY_HEADER_SIZE /\ entry.size < ENTRY_HEADER_SIZE -> Failed
              [] offset >= ENTRY_HEADER_SIZE /\ entry.size > offset -> [ok |-> TRUE, table |-> <<>>]
              [] OTHER -> Inserted(walk[offset - entry.size], entry.guid,
                                   Slice(bytes, offset - entry.size, offset - ENTRY_HEADER_SIZE))
  IN  walk[Len(bytes)]

parse_footer_table(data) ==
  LET start == Len(data) - FOOTER_TO_END - ENTRY_HEADER_SIZE
      footer == Entry(data, start)
      table_size == footer.size - ENTRY_HEADER_SIZE
  IN  IF /\ start >= 0
         /\ footer.guid = OVMF_TABLE_FOOTER_GUID
         /\ footer.size >= ENTRY_HEADER_SIZE
         /\ table_size <= start
        THEN Walk(Slice(data, start - table_size, start)) ELSE Failed

(* The metadata items, after the header and within its size. *)
Items(data, header_start) ==
  LET size == data[header_start + 2]
      version == data[header_start + 3]
      num_items == data[header_start + 4]
      items == Slice(data, header_start + METADATA_HEADER_SIZE, header_start + size)
      Desc(i) == Slice(items, (i - 1) * SECTION_DESC_SIZE, i * SECTION_DESC_SIZE)
  IN  IF /\ data[header_start + 1] = ASEV /\ version = 1
         /\ size >= METADATA_HEADER_SIZE /\ header_start + size <= Len(data)
         /\ num_items * SECTION_DESC_SIZE <= Len(items)
         /\ \A i \in 1 .. num_items : Desc(i)[3] \in DOMAIN SectionType
        THEN [ok |-> TRUE,
              items |-> [i \in 1 .. num_items |->
                           [gpa |-> Desc(i)[1], size |-> Desc(i)[2],
                            section_type |-> SectionType[Desc(i)[3]]]]]
        ELSE Failed

parse_sev_metadata(data, table) ==
  LET header_start == Len(data) - table[OVMF_SEV_META_DATA_GUID][1]
  IN  IF /\ OVMF_SEV_META_DATA_GUID \in DOMAIN table
         /\ table[OVMF_SEV_META_DATA_GUID] # <<>>
         /\ header_start >= 0
         /\ header_start + METADATA_HEADER_SIZE <= Len(data)
        THEN Items(data, header_start) ELSE Failed

OVMF_new(data) ==
  LET footer == parse_footer_table(data)
      metadata == parse_sev_metadata(data, footer.table)
  IN  IF footer.ok /\ metadata.ok
        THEN [ok |-> TRUE, data |-> data, table |-> footer.table, metadata_items |-> metadata.items]
        ELSE Failed

(* The u32 at the start of an entry: a set of one, or {} for an Err. *)
table_u32(ovmf, guid) ==
  IF guid \in DOMAIN ovmf.table /\ ovmf.table[guid] # <<>> THEN {ovmf.table[guid][1]} ELSE {}

sev_hashes_table_gpa(ovmf) == table_u32(ovmf, SEV_HASH_TABLE_RV_GUID)

is_sev_hashes_table_supported(ovmf) == \E gpa \in sev_hashes_table_gpa(ovmf) : gpa # 0

sev_es_reset_eip(ovmf) == table_u32(ovmf, SEV_ES_RESET_BLOCK_GUID)

has_metadata_section(ovmf, type) ==
  \E i \in 1 .. Len(ovmf.metadata_items) : ovmf.metadata_items[i].section_type = type
=============================================================================
