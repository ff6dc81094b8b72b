----------------------------- MODULE SnpIdBlock -----------------------------
(***************************************************************************)
(* The ID block and its authentication, src/src/measurement/idblock.rs and  *)
(* idblock_types.rs: what a guest owner signs before a launch, so that the  *)
(* firmware refuses a guest that is not the one the owner measured.         *)
(*                                                                          *)
(* An Option is a set of at most one.  A private key stands for its pair;   *)
(* a hash and a signature are modelled by what they are made from.          *)
(***************************************************************************)
EXTENDS Naturals

(* 0x300000: bits 20 and 21. *)
DEFAULT_ID_POLICY == 2^20 + 2^21

The(option, default) == IF option = {} THEN default ELSE CHOOSE x \in option : TRUE

(* IdBlock::new; a launch_digest of {} is the default, 48 zeroes. *)
IdBlock(ld, family_id, image_id, svn, policy) ==
  [launch_digest |-> ld,
   family_id |-> The(family_id, 0),
   image_id |-> The(image_id, 0),
   guest_svn |-> The(svn, 0),
   policy |-> The(policy, DEFAULT_ID_POLICY)]

-----------------------------------------------------------------------------
(* Key files: [format, curve, key].  A PEM file is one that begins with     *)
(* BEGIN PRIVATE KEY; any other, BEGIN EC PRIVATE KEY ("sec1") too, is      *)
(* read as DER.  The first 27 bytes of a shorter file are out of range.     *)
KeyFile(format, curve, key) == [format |-> format, curve |-> curve, key |-> key]

identify_priv_key_format(file) == IF file.format = "pem" THEN "Pem" ELSE "Der"

(* The error of load_priv_key, {} for Ok.  A curve that has no name, which  *)
(* explicit parameters give, is not looked at.                              *)
load_priv_key(file) ==
  CASE file.format = "missing" -> {"FileError"}
    [] file.format = "short" -> {"panic"}
    [] file.format \notin {"missing", "short"}
         /\ identify_priv_key_format(file) = "Der" /\ file.format # "der" -> {"CryptoErrorStack"}
    [] file.format \in {"pem", "der"} /\ file.curve = "other" -> {"SevCurveError"}
    [] file.format \in {"pem", "der"} /\ file.curve # "other" -> {}

SevEcdsaPubKey(file) == [curve |-> "P384", q |-> file.key]

SevEcdsaSig(file, data) == [by |-> SevEcdsaPubKey(file), of |-> data]

IdAuth(id_block_sig, id_pubkey, id_key_sig, author_pub_key) ==
  [id_block_sig |-> id_block_sig, id_pubkey |-> id_pubkey, id_key_sig |-> id_key_sig,
   author_pub_key |-> author_pub_key]

(* Mutant: the ID key signs itself. *)
gen_id_auth_block_SelfSigned(id_block, id_key_file, author_key_file) ==
  IdAuth(SevEcdsaSig(id_key_file, id_block), SevEcdsaPubKey(id_key_file),
         SevEcdsaSig(id_key_file, SevEcdsaPubKey(id_key_file)), SevEcdsaPubKey(author_key_file))

(* The ID key signs the block, the author key the ID key. *)
gen_id_auth_block(id_block, id_key_file, author_key_file) ==
  IdAuth(SevEcdsaSig(id_key_file, id_block), SevEcdsaPubKey(id_key_file),
         SevEcdsaSig(author_key_file, SevEcdsaPubKey(id_key_file)),
         SevEcdsaPubKey(author_key_file))

generate_key_digest(file) == <<"sha384", SevEcdsaPubKey(file)>>

(* Mutant: both digests are of the author key. *)
IdMeasurements_OneKey(id_block, id_key_file, auth_key_file) ==
  [id_block |-> id_block,
   id_auth |-> gen_id_auth_block(id_block, id_key_file, auth_key_file),
   id_key_digest |-> generate_key_digest(auth_key_file),
   auth_key_digest |-> generate_key_digest(auth_key_file)]

IdMeasurements(id_block, id_key_file, auth_key_file) ==
  [id_block |-> id_block,
   id_auth |-> gen_id_auth_block(id_block, id_key_file, auth_key_file),
   id_key_digest |-> generate_key_digest(id_key_file),
   auth_key_digest |-> generate_key_digest(auth_key_file)]

(* The ID key's file is read before the author's. *)
snp_calculate_id(ld, family_id, image_id, svn, policy, id_key_file, auth_key_file) ==
  LET error == IF load_priv_key(id_key_file) # {} THEN load_priv_key(id_key_file)
               ELSE load_priv_key(auth_key_file)
  IN  [error |-> error,
       id |-> IF error # {} THEN {}
              ELSE {IdMeasurements(IdBlock(ld, family_id, image_id, svn, policy),
                                   id_key_file, auth_key_file)}]
=============================================================================
