------------------------------ MODULE PkgCheck ------------------------------
(***************************************************************************)
(* pkg/rpm/pkgcheck: an rpm checked against itself in one pass, whole or   *)
(* no further than its header, and judged as the rpm of one release would  *)
(* judge it.                                                               *)
(*                                                                         *)
(* A file is [broken, header, payload, headerSums, payloadSums, sigs]:     *)
(* whether it does not parse, what its header and payload hold, what the   *)
(* digests it records of each are digests of, and its signatures.  A       *)
(* signature is [tag, by, over, form, hash, algo, bits]; it is forged when *)
(* the key it names did not make it.                                       *)
(***************************************************************************)
EXTENDS Integers

CONSTANTS
  Primary(_),   \* Primary(k): the primary key of the key k
  Lapsed        \* keys revoked, or expired when they signed

----------------------------------------------------------------------------
(* The releases: what their rpm reads, and refuses.                        *)

AnyRelease == [openpgp |-> TRUE, sha1 |-> TRUE, dsa |-> TRUE, bits |-> 0]

PolicyFor(target) ==
  CASE target = ""       -> AnyRelease
    [] target = "rhel8"  -> [AnyRelease EXCEPT !.openpgp = FALSE]
    [] target = "rhel9"  -> [openpgp |-> FALSE, sha1 |-> FALSE, dsa |-> FALSE, bits |-> 2048]
    [] target = "rhel10" -> [openpgp |-> TRUE, sha1 |-> FALSE, dsa |-> FALSE, bits |-> 2048]

\* rejects: the size of a key is known only where the key is.
Rejects(policy, s, status) ==
  \/ s.hash = "MD5"
  \/ s.hash = "SHA1" /\ ~policy.sha1
  \/ s.algo = "DSA" /\ ~policy.dsa
  \/ s.algo = "RSA" /\ status = "good" /\ s.bits < policy.bits

----------------------------------------------------------------------------
(* One signature.                                                          *)

PayloadTags == {"PGP", "GPG"}

\* What a signature in its place has to be over.
Covered(p, s) == IF s.tag \in PayloadTags THEN <<p.header, p.payload>> ELSE <<p.header>>

\* newSigCheck, finish: data is what was fed to it.
SigStatus(s, data, keyring) ==
  IF s.form = "malformed" THEN "bad"
  ELSE IF s.form = "unsupported" THEN "unsupported"
  ELSE IF s.over # data THEN "bad"
  ELSE IF Primary(s.by) \notin keyring THEN "untrusted"
  ELSE IF s.form = "forged" \/ s.by \in Lapsed THEN "bad"
  ELSE "good"

\* A signature over a payload that was not read is not checked.
Status(p, s, keyring, whole) ==
  IF s.tag \in PayloadTags /\ ~whole /\ s.form \notin {"malformed", "unsupported"}
  THEN "unchecked" ELSE SigStatus(s, Covered(p, s), keyring)

Intacts == {"good", "untrusted"}

Signature(s, status, readable, policy) ==
  [tag |-> s.tag, key |-> s.by, status |-> status, readable |-> readable,
   rejected |-> status \in Intacts /\ Rejects(policy, s, status)]

Signer(s) == IF s.status = "good" THEN Primary(s.key) ELSE s.key

Counts(s) == s.readable /\ ~s.rejected /\ s.status \in Intacts

----------------------------------------------------------------------------
(* A package.                                                              *)

\* checkHeaderDigests, checkPayload: no digest at all is a problem too.
Digests(p, whole) == (IF p.headerSums = {p.header} THEN {} ELSE {"header digest"}) \cup
                     (IF whole /\ p.payloadSums # {p.payload} THEN {"payload digest"} ELSE {})

\* signatures: what does not parse leaves nothing to judge.
Signatures(p, keyring, policy, whole) ==
  IF p.broken THEN {}
  ELSE {Signature(s, Status(p, s, keyring, whole), s.tag # "OPENPGP" \/ policy.openpgp, policy) : s \in p.sigs}

\* addSignature: refusing is the release's, and only of what it reads.
BadSignatures(sigs) == {s \in sigs : s.status = "bad" \/ (s.readable /\ s.rejected)}

\* Check, CheckFile: the Result.
CheckPackage(p, keyring, policy, whole) ==
  LET sigs == Signatures(p, keyring, policy, whole) IN
  [problems |-> IF p.broken THEN {"broken"} ELSE Digests(p, whole),
   bad      |-> BadSignatures(sigs),
   sigs     |-> sigs,
   whole    |-> whole /\ ~p.broken]
=============================================================================
