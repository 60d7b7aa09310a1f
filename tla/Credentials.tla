---------------------------- MODULE Credentials ----------------------------
(***************************************************************************)
(* Who may connect (credentials/tls.go and the credential options): each   *)
(* side presents one minimal certificate for its key and accepts one       *)
(* certificate with an Ed25519 key from its own list of keys.              *)
(*                                                                         *)
(* A key is a value; Malformed stands for every byte slice of another      *)
(* length.  A certificate is the algorithm and the value of its key.       *)
(***************************************************************************)
EXTENDS Sequences

CONSTANTS Keys,      \* Ed25519 public keys
          Malformed  \* what an application may pass for a key, and is none

ASSUME MalformedAssumption == Malformed \notin Keys

Algorithms == {"Ed25519", "other"}

(* The certificate that newMinimalX509Cert makes for a signer. *)
MinimalCert(alg, key) == <<[alg |-> alg, key |-> key]>>

(* What peers present: a peer that is no wsrpc client may send two
   certificates or none, and any of them with a key of another algorithm. *)
RawCerts ==
  {MinimalCert(alg, k) : alg \in Algorithms, k \in Keys}
     \cup {<<>>} \cup {MinimalCert("Ed25519", k) \o MinimalCert("Ed25519", k) : k \in Keys}

(* ValidPrivateKeyFromEd25519 and ValidPublicKeysFromEd25519 check lengths. *)
ValidPrivateKey(priv) == priv # Malformed
ValidPublicKeys(pubs) == Malformed \notin pubs

(* WithCreds sets no credentials at all, and reports nothing, when a key is
   malformed. *)
WithCreds(priv, pubs) ==
  IF ValidPrivateKey(priv) /\ ValidPublicKeys(pubs) THEN [set |-> TRUE, keys |-> pubs]
  ELSE [set |-> FALSE, keys |-> {}]

(* pubKeyFromCert refuses other algorithms; an Ed25519 key of a certificate
   has the right length. *)
HasPubKey(cert) == cert.alg = "Ed25519"
PubKeyFromCert(cert) == cert.key

VerifyPeerCertificate(keys, rawCerts) ==
  /\ Len(rawCerts) = 1
  /\ HasPubKey(rawCerts[1])
  /\ PubKeyFromCert(rawCerts[1]) \in keys
=============================================================================
