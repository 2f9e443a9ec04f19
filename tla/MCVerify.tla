------------------------------ MODULE MCVerify ------------------------------
(***************************************************************************)
(* Three rpm packages, or an apt package and two revisions of a source,    *)
(* which share a tarball.  On each kind of storage, one or two files that  *)
(* are not what the metadata says; or all of them in place, signed in      *)
(* every way that a rule about signatures tells apart.                     *)
(***************************************************************************)
EXTENDS Verify

CONSTANTS x, y, z, a, b, c, d   \* items and files

MCSize(f) == 2

----------------------------------------------------------------------------
(* Keys: ours with a subkey, another's, one that is too short, and one     *)
(* that was revoked.                                                       *)

MCKeys       == {"ours", "oursub", "theirs", "short", "revoked"}
MCPrimary(k) == IF k = "oursub" THEN "ours" ELSE k
MCNameOf(k)  == CHOOSE n \in 1..5 : <<"revoked", "oursub", "theirs", "ours", "short">>[n] = k

Sig(tag, by) == [tag |-> tag, by |-> by, form |-> "ok", hash |-> "SHA256", algo |-> "RSA",
                 over |-> IF tag \in PayloadTags THEN <<"header", "payload">> ELSE <<"header">>,
                 bits |-> IF by = "short" THEN 1024 ELSE 4096]

By(key)  == {Sig("RSAHEADER", key)}
Asc(key) == {[Sig("detached", key) EXCEPT !.over = <<"repomd">>]}

----------------------------------------------------------------------------
(* Files.                                                                  *)

Rpm == [broken |-> FALSE, header |-> "header", payload |-> "payload",
        headerSums |-> {"header"}, payloadSums |-> {"payload"}, sigs |-> {}]

Good      == [size |-> 2, sum |-> "good", noted |-> "good", rpm |-> Rpm]
Unnoted   == [Good EXCEPT !.noted = ""]
Tampered  == [Good EXCEPT !.sum = "bad", !.rpm.payload = "another"]   \* since it was uploaded
Rebuilt   == [size |-> 1, sum |-> "bad", noted |-> "bad", rpm |-> [Rpm EXCEPT !.headerSums = {}]]
Truncated == [Rebuilt EXCEPT !.rpm.broken = TRUE]

Signed(sigs) == [Good EXCEPT !.rpm.sigs = sigs]

\* One file is missing and another is odd: one with a recorded sha256 or the
\* one without.
OddStore(odd, o) ==
  [f \in {a, b, c, d, RepomdAsc} |-> CASE f = odd -> o [] f \in {b, RepomdAsc} -> Absent [] OTHER -> Good]

----------------------------------------------------------------------------
(* What is asked.                                                          *)

AskNothing == [target |-> "", keyring |-> {}, recorded |-> {}, gpg |-> {},
               trusted |-> FALSE, signed |-> FALSE, signedMetadata |-> FALSE]
AskAll  == [AskNothing EXCEPT !.keyring = {"ours"}, !.trusted = TRUE, !.signed = TRUE, !.signedMetadata = TRUE]
Recorded == [AskNothing EXCEPT !.recorded = {"ours"}]
ForRhel9 == [AskAll EXCEPT !.target = "rhel9", !.keyring = {"ours", "short"}]

RpmFiles == x :> {a} @@ y :> {b} @@ z :> {c}
AptFiles == x :> {a} @@ y :> {b, c} @@ z :> {c, d}

RpmJob(backend, mode, opt) == [tool |-> "rpm", mode |-> mode, backend |-> backend, files |-> RpmFiles,
                               contents |-> TRUE, opt |-> opt, unmet |-> {}]
AptJob(backend) == [tool |-> "apt", mode |-> "content", backend |-> backend, files |-> AptFiles,
                    contents |-> FALSE, opt |-> AskNothing, unmet |-> {d}]

Everywhere == {<<"local", "cheap">>, <<"ssh", "content">>, <<"hashless", "content">>, <<"hashless", "cheap">>,
               <<"records", "cheap">>, <<"plain", "content">>}

FileCases ==
  {[stored |-> OddStore(a, o), job |-> RpmJob(how[1], how[2], AskNothing)] :
     o \in {Unnoted, Tampered, Rebuilt}, how \in Everywhere} \cup
  {[stored |-> OddStore(c, o), job |-> RpmJob(how[1], how[2], AskNothing)] :
     o \in {Tampered}, how \in {<<"local", "cheap">>, <<"records", "content">>}} \cup
  {[stored |-> OddStore(a, Truncated), job |-> RpmJob("plain", "cheap", AskNothing)]} \cup
  {[stored |-> OddStore(c, o), job |-> AptJob(backend)] :
     o \in {Tampered, Absent}, backend \in {"ssh", "records"}}

\* The signatures of a, b and c and of repomd.xml, and what is asked of them.
HeaderSigned == {
  <<By("theirs"), By("theirs"), By("theirs"), Asc("ours"), AskAll>>,
  <<By("ours"), By("oursub"), By("ours"), Asc("ours"), AskAll>>,
  <<By("ours"), By("ours"), By("ours"), Asc("theirs"), AskAll>>,
  <<By("ours"), By("theirs"), By("ours"), {}, AskAll>>,
  <<By("ours"), By("theirs"), {}, Absent, AskNothing>>,
  <<By("ours"), By("theirs"), By("theirs"), Absent, Recorded>>,
  <<By("oursub"), By("theirs"), By("theirs"), Asc("oursub"), Recorded>>,
  <<By("oursub"), By("ours"), By("ours"), Asc("theirs"), [Recorded EXCEPT !.gpg = {"ours"}]>>,
  <<By("short"), By("ours"), {Sig("OPENPGP", "ours")}, Asc("short"), ForRhel9>>,
  <<By("ours"), {[Sig("DSAHEADER", "ours") EXCEPT !.algo = "DSA"]},
    {[Sig("RSAHEADER", "ours") EXCEPT !.hash = "SHA1"]}, Asc("ours"), ForRhel9>>,
  <<{[Sig("RSAHEADER", "ours") EXCEPT !.over = <<"another">>]}, By("ours"), By("revoked"), Asc("ours"),
    [AskAll EXCEPT !.keyring = {"ours", "revoked"}]>>,
  <<{[Sig("RSAHEADER", "ours") EXCEPT !.form = "forged"]}, {[Sig("RSAHEADER", "ours") EXCEPT !.form = "malformed"]},
    {[Sig("RSAHEADER", "ours") EXCEPT !.form = "unsupported"]}, Absent, AskAll>>,
  <<{Sig("OPENPGP", "ours")}, {Sig("OPENPGP", "ours")}, By("ours"), Absent,
    [AskNothing EXCEPT !.target = "rhel8"]>>,
  <<{}, {}, {}, Absent, AskNothing>>}
PayloadSigned == {
  <<{Sig("PGP", "ours")}, By("ours"), {Sig("GPG", "ours")}, Absent, AskAll>>,
  <<By("ours"), By("ours"), By("ours"), Asc("ours"), AskAll>>}

SignedCase(w, how) ==
  [stored |-> a :> Signed(w[1]) @@ b :> Signed(w[2]) @@ c :> Signed(w[3]) @@ RepomdAsc :> w[4],
   job |-> RpmJob(how[1], how[2], w[5])]

SignedCases == {SignedCase(w, <<"local", "cheap">>) : w \in HeaderSigned} \cup
               {SignedCase(w, <<"plain", mode>>) : w \in PayloadSigned, mode \in {"cheap", "content"}}

MCCases == FileCases \cup SignedCases
=============================================================================
