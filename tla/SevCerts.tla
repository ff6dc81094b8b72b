------------------------------ MODULE SevCerts ------------------------------
(***************************************************************************)
(* The SEV certificates of src/src/certs/sev: signing, verifying, and the   *)
(* chain from AMD's root key and the platform owner's key to the platform's *)
(* Diffie-Hellman key (PDH).                                                *)
(*                                                                          *)
(* A key is the pair <<owner, usage>>.  A certificate is its body, usage    *)
(* and public key, with two signature slots; a CA certificate (ARK, ASK)    *)
(* has one.  A signature is what only its key can make of a body.           *)
(***************************************************************************)
EXTENDS Naturals, Sequences

Usages == {"ARK", "ASK", "CEK", "OCA", "PEK", "PDH"}

Body(cert) == [usage |-> cert.usage, key |-> cert.key]

(* An empty slot has a usage that is_empty() does not list.  A signature    *)
(* has its algorithm from its key, so is_empty()'s second test, of the      *)
(* algorithm, tells no slot of a certificate apart.                         *)
NoSig == [usage |-> "INV", key |-> <<"nobody", "INV">>,
          of |-> [usage |-> "INV", key |-> <<"nobody", "INV">>]]

is_empty(sig) == sig.usage \notin Usages

generate(key, usage) == [usage |-> usage, key |-> key, sigs |-> <<NoSig, NoSig>>]

Signature(prv, cert) == [usage |-> prv.usage, key |-> prv.key, of |-> Body(cert)]

(* The first empty slot; with none the certificate stays as it is (Err). *)
sign(prv, cert) ==
  IF is_empty(cert.sigs[1]) THEN [cert EXCEPT !.sigs[1] = Signature(prv, cert)]
  ELSE IF is_empty(cert.sigs[2]) THEN [cert EXCEPT !.sigs[2] = Signature(prv, cert)]
  ELSE cert

(* The key that `name' has for a usage, and a certificate of it, unsigned.  *)
Prv(name, usage) == [usage |-> usage, key |-> <<name, usage>>]
NewCert(name, usage) == generate(<<name, usage>>, usage)

(* An owner's OCA, self-signed: an administrator's, or a platform's own.    *)
Oca(name) == sign(Prv(name, "OCA"), NewCert(name, "OCA"))

(* AMD's certificates of a generation, signed by its root key.              *)
CaCert(ca, usage) ==
  [usage |-> usage, key |-> <<ca, usage>>,
   sigs |-> <<[usage |-> "ARK", key |-> <<ca, "ARK">>,
               of |-> [usage |-> usage, key |-> <<ca, usage>>]]>>]

(* PublicKey::verify: the signature names this kind of key, and is its.     *)
PublicKey_verify(key, cert, sig) ==
  /\ sig.usage = key.usage
  /\ sig.key = key.key
  /\ sig.of = Body(cert)

(* Mutant: only the first slot is looked at. *)
verify_FirstSlot(signer, signee) ==
  ~is_empty(signee.sigs[1]) /\ PublicKey_verify(signer, signee, signee.sigs[1])

(* (&Certificate, &Certificate)::verify, and with a CA's key as the first:  *)
(* one of the signatures is the signer's.                                   *)
verify(signer, signee) ==
  \E i \in {1, 2} : /\ ~is_empty(signee.sigs[i])
                    /\ PublicKey_verify(signer, signee, signee.sigs[i])

(* Between CA certificates: the one signature, which is always an ARK's. *)
ca_verify(signer, signee) ==
  PublicKey_verify(signer, signee, [signee.sigs[1] EXCEPT !.usage = "ARK"])

-----------------------------------------------------------------------------
(* Chains: a function from usage to certificate. *)

(* Mutant: the chip does not endorse the PEK. *)
sev_chain_verify_NoCek(chain) ==
  /\ verify(chain.OCA, chain.OCA)
  /\ verify(chain.OCA, chain.PEK)
  /\ verify(chain.PEK, chain.PDH)

(* sev::Chain::verify *)
sev_chain_verify(chain) ==
  /\ verify(chain.OCA, chain.OCA)
  /\ verify(chain.OCA, chain.PEK)
  /\ verify(chain.CEK, chain.PEK)
  /\ verify(chain.PEK, chain.PDH)

(* ca::Chain::verify *)
ca_chain_verify(chain) ==
  ca_verify(chain.ARK, chain.ARK) /\ ca_verify(chain.ARK, chain.ASK)

(* Chain::verify *)
chain_verify(chain) ==
  /\ ca_chain_verify(chain)
  /\ verify(chain.ASK, chain.CEK)
  /\ sev_chain_verify(chain)

(* Chain::decode: each certificate has the usage that its place is for. *)
chain_decode(chain) == \A u \in Usages : chain[u].usage = u

(* A chain of certificates that were made for each other: by an owner, a    *)
(* chip with its PEK, and AMD for the generation; owner and chip may have   *)
(* signed the PEK in either order.                                          *)
Made(chain, pdh, pek, chip) ==
  LET o == chain.OCA.key[1]
      ca == chain.ASK.key[1]
      oca == Prv(o, "OCA")
      cek == Prv(chip, "CEK")
  IN  /\ chain.ARK = CaCert(ca, "ARK") /\ chain.ASK = CaCert(ca, "ASK")
      /\ chain.CEK = sign(Prv(ca, "ASK"), NewCert(chip, "CEK"))
      /\ chain.OCA = Oca(o)
      /\ chain.PEK \in {sign(cek, sign(oca, NewCert(pek, "PEK"))),
                        sign(oca, sign(cek, NewCert(pek, "PEK")))}
      /\ chain.PDH = sign(Prv(pek, "PEK"), NewCert(pdh, "PDH"))
=============================================================================
