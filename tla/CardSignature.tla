---------------------------- MODULE CardSignature ----------------------------
(***************************************************************************)
(* Signing and verifying agent cards (operator/internal/signature), what a *)
(* fetch returns (operator/internal/agentcard), and the identity a card    *)
(* proves.                                                                 *)
(*                                                                         *)
(* A document is what an endpoint or a ConfigMap holds: the fields of a    *)
(* card, its JWS signatures, and the Sigstore envelope around it, if any.  *)
(* Cryptography is ideal: a signature is the record of the key that made   *)
(* it and of what was signed, a hash is what was hashed.                   *)
(***************************************************************************)
EXTENDS Naturals, Sequences, FiniteSets, FiniteSetsExt

Nil == "nil"
NoID == [scheme |-> "", domain |-> "", path |-> ""]

RSAAlgorithms == {"RS256", "RS384", "RS512", "PS256", "PS384", "PS512"}
ECDSAAlgorithms == {"ES256", "ES384", "ES512"}
PSSAlgorithms == {"PS256", "PS384", "PS512"}
SupportedAlgorithms == RSAAlgorithms \cup ECDSAAlgorithms

\* The curve that an ECDSA algorithm requires, by the size of its field.
CurveOf(alg) == CASE alg = "ES256" -> 256 [] alg = "ES384" -> 384 [] alg = "ES512" -> 521

\* AlgorithmForKey; Nil is its error.
AlgorithmForKey(key) ==
  IF key.type = "RSA" /\ key.size >= 2048 THEN "RS256"
  ELSE IF key.type = "EC" /\ \E alg \in ECDSAAlgorithms : CurveOf(alg) = key.size
       THEN CHOOSE alg \in ECDSAAlgorithms : CurveOf(alg) = key.size
       ELSE Nil

\* The payload: every field that is not empty, the signatures left out.
CreateCanonicalCardJSON(doc) ==
  {<<f, doc.fields[f]>> : f \in {g \in DOMAIN doc.fields : doc.fields[g] # ""}}

\* What is signed: the protected header and the payload.
SigningInput(alg, chain, doc) ==
  [alg |-> alg, x5c |-> chain, payload |-> CreateCanonicalCardJSON(doc)]

\* How an algorithm's signature is laid out.  ECDSA is written raw.
Encoding(alg) ==
  IF alg \in PSSAlgorithms THEN "pss" ELSE IF alg \in RSAAlgorithms THEN "pkcs1" ELSE "raw"

SignInput(key, alg, input) == [key |-> key, input |-> input, enc |-> Encoding(alg)]

\* SignCard replaces the signatures of the card; it fails without a certificate or
\* with a key that no algorithm fits.
CanSign(chain, key) == chain # <<>> /\ AlgorithmForKey(key) # Nil

SignCard(doc, key, chain) ==
  LET alg == AlgorithmForKey(key)
  IN [doc EXCEPT !.sigs =
        <<[alg |-> alg, x5c |-> chain,
           value |-> SignInput(key, alg, SigningInput(alg, chain, doc))]>>]

-----------------------------------------------------------------------------
(* The trust bundle.                                                       *)

\* The roots in the ConfigMap's value: a PEM bundle loses its invalid certificates,
\* one invalid certificate refuses a JSON bundle, keys for another use are skipped.
\* An absent ConfigMap, an empty key and a bundle without certificates are errors,
\* and so is the empty set here.
ParsePEMBundle(entries) == {e.root : e \in {x \in entries : x.valid}}

ParseSPIFFEJSONBundle(entries) ==
  LET svid == {e \in entries : e.use = "x509-svid"}
  IN IF \A e \in svid : e.valid THEN {e.root : e \in svid} ELSE {}

ParseBundle(cm) ==
  CASE cm.format = "pem" -> ParsePEMBundle(cm.entries)
    [] cm.format = "json" -> ParseSPIFFEJSONBundle(cm.entries)
    [] OTHER -> {}

-----------------------------------------------------------------------------
(* Verifying.                                                              *)

\* x509 verification: the leaf leads to a root, directly or through the others.
LeadsToRoot(leaf, others, roots) ==
  LET first == {c \in others : c.issuer \in roots}
      second == first \cup {c \in others : \E f \in first : c.issuer = f.subject}
  IN leaf.issuer \in roots \cup {c.subject : c \in second}

\* validateChain: at most three certificates.  The time is pinned to the leaf's, so
\* an expired leaf is no failure.
ValidateChain(chain, roots) ==
  /\ Len(chain) <= 3
  /\ LeadsToRoot(chain[1], {chain[i] : i \in 2 .. Len(chain)}, roots)

\* extractSpiffeIDFromCert: the only spiffe URI, with a trust domain; else an error, NoID.
ExtractSpiffeIDFromCert(leaf) ==
  LET ids == {u \in leaf.uris : u.scheme = "spiffe"}
  IN IF \E u \in ids : ids = {u} /\ u.domain # "" THEN CHOOSE u \in ids : TRUE ELSE NoID

\* The algorithm must fit the type, the size and the curve of the key.
AlgorithmFitsKey(alg, key) ==
  \/ key.type = "RSA" /\ key.size >= 2048 /\ alg \in RSAAlgorithms
  \/ key.type = "EC" /\ alg \in ECDSAAlgorithms /\ CurveOf(alg) = key.size

\* Raw signatures are tried first and ASN.1 DER ones after them.
EncodingAccepted(alg, enc) ==
  IF alg \in ECDSAAlgorithms THEN enc \in {"raw", "der"} ELSE enc = Encoding(alg)

\* Mutant: the payload is not part of what is verified.
MutPayloadUnsigned(doc, sig, key) ==
  /\ sig.alg \in SupportedAlgorithms
  /\ AlgorithmFitsKey(sig.alg, key)
  /\ sig.value.key = key
  /\ EncodingAccepted(sig.alg, sig.value.enc)

VerifyJWS(doc, sig, key) ==
  /\ sig.alg \in SupportedAlgorithms
  /\ AlgorithmFitsKey(sig.alg, key)
  /\ sig.value.key = key
  /\ sig.value.input = SigningInput(sig.alg, sig.x5c, doc)
  /\ EncodingAccepted(sig.alg, sig.value.enc)

\* One turn of VerifySignature's loop: "next" goes on, "fail" and "ok" return.  A
\* header or chain that does not parse is <<>> here.
Judge(doc, sig, roots) ==
  CASE sig.x5c = <<>> -> "next"
    [] sig.x5c # <<>> /\ ~ValidateChain(sig.x5c, roots) -> "fail"
    [] sig.x5c # <<>> /\ ValidateChain(sig.x5c, roots)
         /\ ExtractSpiffeIDFromCert(sig.x5c[1]) = NoID -> "fail"
    [] OTHER -> IF VerifyJWS(doc, sig, sig.x5c[1].key) THEN "ok" ELSE "next"

\* VerifySignature with a loaded bundle: the first signature that returns decides.
VerifySignature(doc, roots) ==
  LET decisive == {i \in 1 .. Len(doc.sigs) : Judge(doc, doc.sigs[i], roots) # "next"}
      first == doc.sigs[Min(decisive)]
  IN IF roots # {} /\ decisive # {} /\ Judge(doc, first, roots) = "ok"
     THEN [verified |-> TRUE, id |-> ExtractSpiffeIDFromCert(first.x5c[1]),
           notAfter |-> first.x5c[1].notAfter]
     ELSE [verified |-> FALSE, id |-> NoID, notAfter |-> 0]

\* computeBinding: the proven identity lies in the trust domain and names something.
ComputeBinding(id, domain) ==
  id # NoID /\ domain # "" /\ id.domain = domain /\ id.path # ""

-----------------------------------------------------------------------------
(* Sigstore.                                                               *)

\* Of the two places for the bundle, attestations come first.  A place is "absent",
\* "bad" when it does not parse, "none" without a bundle in it, or "bundle".
BundleOf(doc) == IF doc.attestations.kind # "absent" THEN doc.attestations ELSE doc.material

\* decodeAgentCardPayload keeps an envelope around a card for Sigstore.
\* VerifySignedAgentCard asks for a bundle over this card by the expected signer; its
\* errors are failures to the reconciler.
VerifySignedAgentCard(doc, signer) ==
  LET b == BundleOf(doc)
  IN CASE b.kind \in {"absent", "none"} -> "absent"
       [] b.kind = "bad" -> "failed"
       [] b.kind = "bundle" -> IF b.by = signer /\ b.over = CreateCanonicalCardJSON(doc)
                               THEN "verified" ELSE "failed"

-----------------------------------------------------------------------------
(* Fetching.  A source has the kind "doc", with the document, "bad" when   *)
(* that does not parse, "404" or "down".                                   *)

\* The legacy path is tried only after a 404.
FetchA2ACard(current, legacy) == IF current.kind = "404" THEN legacy ELSE current

\* The ConfigMap of the signer is preferred; what it cannot give comes over HTTP.
FetchCard(cm, current, legacy) ==
  IF cm.kind = "doc" THEN cm ELSE FetchA2ACard(current, legacy)
=============================================================================
