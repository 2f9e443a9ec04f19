------------------------------ MODULE MCCheck ------------------------------
(***************************************************************************)
(* An rpm repository of two versions of one package, the newer one built   *)
(* twice, one for every architecture and one for another; and an apt       *)
(* repository of two suites, with the same, a package that is listed at    *)
(* two locations and a source package of two files, whose indexes are      *)
(* there in two forms.  Each has one or two things about it that are not   *)
(* as they should be.                                                      *)
(***************************************************************************)
EXTENDS Check, TLC

Found(size, sum, noted, opens) == [size |-> size, sum |-> sum, noted |-> noted, opens |-> opens]

Good   == Found("right", "good", "good", TRUE)
OddOnes == {Absent, Found("wrong", "bad", "bad", TRUE), Found("right", "bad", "good", TRUE),
            Found("right", "good", "bad", TRUE), Found("right", "good", "", FALSE),
            Found("unknown", "good", "", TRUE)}

\* The stanza at its place, of a package with its ID.
Package(nth, id, n, a, v, files) ==
  [nth |-> nth, id |-> id, name |-> n, arch |-> a, version |-> v, files |-> files]

Locations(E) == UNION {e.files : e \in E}

Document(place, name, type, c, a, state, lists) ==
  [place |-> place, name |-> name, type |-> type, component |-> c, arch |-> a,
   state |-> state, lists |-> lists]

----------------------------------------------------------------------------
a1 == Package(1, "a1", "a", "x86_64", 1, {"a-1.x86_64"})
a2 == Package(2, "a2", "a", "x86_64", 2, {"a-2.x86_64"})
n1 == Package(3, "n1", "n", "noarch", 1, {"n-1.noarch"})
o1 == Package(4, "o1", "o", "aarch64", 1, {"o-1.aarch64"})
b2 == Package(5, "b2", "a", "x86_64", 2, {"again/a-2.x86_64"})

RpmPackages == {a1, a2, n1, o1, b2}

RpmRepo(root, primary, filelists, file, state, unmet) ==
  [roots  |-> [r \in {"repomd.xml"} |-> root],
   expired |-> FALSE,
   docs   |-> <<Document(1, "primary", "primary", "", "", primary, RpmPackages),
                Document(2, "filelists", "filelists", "", "", filelists, {})>>,
   stored |-> [f \in Locations(RpmPackages) |-> IF f = file THEN state ELSE Good],
   unmet  |-> unmet]

Section(url, refers, enabled) == [url |-> url, refers |-> refers, enabled |-> enabled]

RpmInput(entries, arches, level, latest, opener) ==
  [tool |-> "rpm", entries |-> entries, remote |-> FALSE, rels |-> {"8", "9"}, suites |-> {},
   components |-> {}, arches |-> arches, names |-> {}, level |-> level, latest |-> latest,
   opener |-> opener]

\* One repository, whatever its state.
OneSection == {Section("http://r", {}, TRUE)}
RpmOne(repo) == <<"http://r", <<"", "">>>> :> repo

RpmChecks ==
  {[input |-> RpmInput(OneSection, as, l, latest, TRUE), world |-> RpmOne(RpmRepo("good", "good", "good", f, s, {}))] :
     as \in {{}, {"x86_64"}}, l \in {"head", "fetch"}, latest \in BOOLEAN,
     f \in {"a-1.x86_64", "n-1.noarch", "o-1.aarch64", "again/a-2.x86_64"}, s \in OddOnes} \cup
  {[input |-> RpmInput(OneSection, {}, l, FALSE, FALSE), world |-> RpmOne(RpmRepo("good", p, d, "a-1.x86_64", Absent, {"a"}))] :
     l \in {"metadata", "head"}, p, d \in {"good", "altered", "unsummed", "sealed", "torn", "swollen", "garbled"}} \cup
  {[input |-> RpmInput({Section("http://r", {"releasever"}, TRUE), Section("http://s", {}, FALSE)}, {}, "metadata", FALSE, FALSE),
    world |-> <<"http://r", <<"8", "">>>> :> eight @@
              <<"http://r", <<"9", "">>>> :> RpmRepo("good", "good", "good", "", Absent, {})] :
     eight \in {Closed} \cup {RpmRepo(root, "good", "good", "", Absent, {}) : root \in {"absent", "garbled"}}}

----------------------------------------------------------------------------
hello1 == Package(1, "hello1", "hello", "amd64", 1, {"hello_1_amd64.deb"})
hello2 == Package(2, "hello2", "hello", "amd64", 2, {"hello_2_amd64.deb"})
doc1   == Package(3, "doc1", "doc", "all", 1, {"doc_1_all.deb"})
again2 == Package(4, "again2", "hello", "amd64", 2, {"again/hello_2_amd64.deb"})
other  == Package(5, "other", "other", "arm64", 1, {"other_1_arm64.deb"})
twin1  == Package(6, "doc1", "doc", "all", 1, {"twin/doc_1_all.deb"})
src1   == Package(7, "src1", "hello", "source", 1, {"hello_1.dsc", "hello_1.tar"})

Debs       == {hello1, hello2, doc1, again2}
AptEntries == Debs \cup {other, twin1, src1}

AptRepo(inrel, rel, expired, packages, packagesGz, sources, file, state) ==
  [roots  |-> [r \in {"InRelease", "Release"} |-> IF r = "Release" THEN rel ELSE inrel],
   expired |-> expired,
   docs   |-> <<Document(1, "main/amd64/Packages", "index", "main", "amd64", packages, Debs),
                Document(2, "main/amd64/Packages.gz", "index", "main", "amd64", packagesGz, Debs),
                Document(3, "main/amd64/Release", "other", "", "", "good", {}),
                Document(4, "contrib/arm64/Packages", "index", "contrib", "arm64", "good", {other, twin1}),
                Document(5, "main/source/Sources", "index", "main", "source", sources, {src1})>>,
   stored |-> [f \in Locations(AptEntries) |-> IF f = file THEN state ELSE Good],
   unmet  |-> {}]

Fine == AptRepo("good", "good", FALSE, "good", "good", "good", "", Absent)

SourcesEntry(url, suite, components, source) ==
  [url |-> url, at |-> suite, components |-> components, source |-> source]

AptInput(entries, remote, suites, components, arches, names, level, latest) ==
  [tool |-> "apt", entries |-> entries, remote |-> remote, rels |-> {}, suites |-> suites,
   components |-> components, arches |-> arches, names |-> names, level |-> level,
   latest |-> latest, opener |-> TRUE]

OneSuite == {SourcesEntry("http://d", "stable", {}, FALSE)}
AptOne(repo) == <<"http://d", "stable">> :> repo

AptChecks ==
  {[input |-> AptInput(OneSuite, FALSE, {}, cs, as, ns, l, l = "fetch"),
    world |-> AptOne(AptRepo("good", "good", FALSE, "good", "good", "good", f, s))] :
     cs \in {{}, {"contrib"}}, as \in {{}, {"amd64"}, {"source"}}, ns \in {{}, {"hello"}},
     l \in {"head", "fetch"}, s \in OddOnes,
     f \in {"hello_1_amd64.deb", "again/hello_2_amd64.deb", "doc_1_all.deb", "twin/doc_1_all.deb",
            "hello_1.tar"}} \cup
  {[input |-> AptInput(OneSuite, FALSE, {}, {"main"}, {}, {}, l, FALSE),
    world |-> AptOne(AptRepo("absent", "good", TRUE, p, g, s, "hello_1_amd64.deb", Absent))] :
     l \in {"metadata", "head"}, p, g \in {"good", "missing", "unsummed", "garbled"}, s \in {"good", "torn"}} \cup
  {[input |-> AptInput({SourcesEntry("http://d", "stable", {"main"}, b) : b \in BOOLEAN} \cup
                         {SourcesEntry("file:d", "stable", {"main"}, FALSE), SourcesEntry("http://d", "next", {"main"}, TRUE)},
                       TRUE, suites, {}, {"amd64"}, {}, "metadata", FALSE),
    world |-> <<"http://d", "stable">> :> Fine @@ <<"file:d", "stable">> :> Fine @@
              <<"http://d", "next">> :> AptRepo(i, r, FALSE, "short", "good", "good", "", Absent)] :
     suites \in {{}, {"next"}}, i \in {"absent", "garbled", "good"}, r \in {"absent", "good"}}

MCChecks     == RpmChecks \cup AptChecks
MCIsHTTP(url) == url \in {"http://r", "http://s", "http://d"}
=============================================================================
