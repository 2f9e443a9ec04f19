-------------------------------- MODULE Trust --------------------------------
(***************************************************************************)
(* What verify makes of the signatures of a whole rpm repository: every    *)
(* package by one signer, by the key the repository records, by a trusted  *)
(* key, and repomd.xml signed, as far as each is asked for                 *)
(* (pkg/rpm/repo/verify.go, cmd/createrepo-go/verify.go).                  *)
(*                                                                         *)
(* What is asked is [target, keyring, recorded, gpg, trusted, signed,      *)
(* signedMetadata]: the keys given, the key the repository records (none   *)
(* or one), those in the local GnuPG keyring, and what is required.        *)
(***************************************************************************)
EXTENDS PkgCheck, FiniteSets, Sequences, SequencesExt

CONSTANTS
  Keys,       \* primary keys and subkeys
  NameOf(_)   \* where a key's name comes in their order

\* A subkey is of a primary key, and that is of none.
ASSUME KeysAssumption == \A k \in Keys : Primary(k) \in Keys /\ Primary(Primary(k)) = Primary(k)

\* trustedKeys: the keyring given, or the recorded key where GnuPG has it.
TrustedKeys(opt) == IF opt.keyring # {} THEN opt.keyring ELSE opt.recorded \cap opt.gpg

\* expectedKeyIDs: the recorded key with its subkeys, where they are known.
KnownKeys(opt)  == TrustedKeys(opt) \cup opt.gpg
Expected(opt)   == opt.recorded \cup {k \in Keys : Primary(k) \in opt.recorded \cap KnownKeys(opt)}
Incomplete(opt) == ~(opt.recorded \subseteq KnownKeys(opt))

\* verifyOptions: --require-trusted needs keys to trust.
Refused(opt) == opt.trusted /\ TrustedKeys(opt) = {}

----------------------------------------------------------------------------
(* One package.  checked is a function from the packages that were read to *)
(* their results.                                                          *)

Counting(result) == {s \in result.sigs : Counts(s)}

\* A signature by another key than the recorded one and its subkeys.
Unexpected(s, opt) == opt.recorded # {} /\ {s.key, Signer(s)} \cap Expected(opt) = {}

SignerId(result) == {Signer(s) : s \in Counting(result)}

Unsigned(checked) == {p \in DOMAIN checked : SignerId(checked[p]) = {}}

\* Signed, but in no way the release can read.
OnlyUnreadable(checked) ==
  {p \in Unsigned(checked) : \E s \in checked[p].sigs : ~s.readable /\ s.status # "bad"}

UntrustedOfRecorded(checked, opt) ==  \* mutant: only where the repository records a key
  {p \in DOMAIN checked : opt.trusted /\ opt.recorded # {} /\
                          \E s \in Counting(checked[p]) : s.status = "untrusted"}

Untrusted(checked, opt) ==
  {p \in DOMAIN checked : opt.trusted /\ \E s \in Counting(checked[p]) : s.status = "untrusted"}

ByOthers(checked, opt) ==
  {p \in DOMAIN checked : \E s \in Counting(checked[p]) : Unexpected(s, opt)}

----------------------------------------------------------------------------
(* The signer they should all have.                                        *)

SignerIds(checked) == {SignerId(checked[p]) : p \in DOMAIN checked \ Unsigned(checked)}

HowMany(checked, id) == Cardinality({p \in DOMAIN checked : SignerId(checked[p]) = id})

\* The order of the joined names: as words in a dictionary.
Before(a, b) ==
  LET first == CHOOSE k \in (a \cup b) \ (a \cap b) :
                 \A o \in (a \cup b) \ (a \cap b) : NameOf(k) <= NameOf(o)
      longer(id) == \E k \in id : NameOf(k) > NameOf(first)
  IN IF first \in a THEN longer(b) ELSE ~longer(a)

BetterByCount(a, b, checked, expected) ==  \* mutant: of two as common the first met stays
  IF (a \cap expected = {}) # (b \cap expected = {}) THEN a \cap expected # {}
  ELSE HowMany(checked, a) > HowMany(checked, b)

\* a takes b's place: a signer with the recorded key, a commoner one, or the
\* first by name of two as common.
Better(a, b, checked, expected) ==
  IF (a \cap expected = {}) # (b \cap expected = {}) THEN a \cap expected # {}
  ELSE \/ HowMany(checked, a) > HowMany(checked, b)
       \/ HowMany(checked, a) = HowMany(checked, b) /\ Before(a, b)

\* The signers are come to in whatever order the map yields.
Main(order, checked, expected) ==
  FoldLeft(LAMBDA main, id : IF Better(id, main, checked, expected) THEN id ELSE main,
           Head(order), Tail(order))

\* Signed by others than most, or not signed where others are.
OddOnesOut(order, checked, opt) ==
  IF order = <<>> THEN {}
  ELSE {p \in DOMAIN checked \ Unsigned(checked) :
          SignerId(checked[p]) # Main(order, checked, Expected(opt))}
       \cup (IF opt.signed THEN {} ELSE Unsigned(checked))

----------------------------------------------------------------------------
(* checkPackageSigners: the packages with a problem, per kind; and those   *)
(* with a warning.                                                         *)

Kinds(kind, packages) == {[package |-> p, kind |-> kind] : p \in packages}

SignerProblems(order, checked, opt) ==
  Kinds("untrusted", Untrusted(checked, opt)) \cup
  Kinds("unexpected", IF Incomplete(opt) THEN {} ELSE ByOthers(checked, opt)) \cup
  Kinds("unsigned", IF opt.signed THEN Unsigned(checked) ELSE {}) \cup
  Kinds("odd", OddOnesOut(order, checked, opt))

SignerWarnings(checked, opt) ==
  Kinds("unexpected", IF Incomplete(opt) THEN ByOthers(checked, opt) ELSE {}) \cup
  Kinds("unreadable here", IF opt.signed THEN {} ELSE OnlyUnreadable(checked))

\* CheckDetached, checkMetadataSignature: sigs are those repomd.xml.asc
\* holds.  GnuPG reads it, so no release's policy applies.
DetachedSignatures(sigs, data, keyring) ==
  {Signature(s, SigStatus(s, data, keyring), TRUE, AnyRelease) : s \in sigs}

MetadataComplaints(sigs, opt) ==
  {s \in sigs : \/ s.status \notin Intacts \/ s.rejected
                \/ opt.trusted /\ s.status = "untrusted"
                \/ ~Incomplete(opt) /\ Unexpected(s, opt)}
=============================================================================
