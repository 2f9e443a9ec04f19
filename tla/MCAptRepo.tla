----------------------------- MODULE MCAptRepo -----------------------------
(***************************************************************************)
(* Small repositories for AptRepo and AptCopy: a package foo for amd64 in  *)
(* two versions, the second built twice, one for arm64, one for every      *)
(* architecture, and two revisions of a source package that share their    *)
(* upstream tarball.                                                       *)
(***************************************************************************)
EXTENDS AptCopy

CONSTANTS foo1, foo2, foo2b, bar, doc,   \* binary packages
          src1, src2, orig, debian,      \* two .dsc files and two tarballs
          torn

MCKey(e) == CASE e \in {foo1, foo2, foo2b} -> "foo"
              [] e = bar                   -> "bar"
              [] e = doc                   -> "doc"
              [] OTHER                     -> "source foo"

MCEVR(e) == IF e \in {foo2, foo2b, src2} THEN 2 ELSE 1

MCArchOf(e) == CASE e = bar            -> "arm64"
                 [] e = doc            -> "all"
                 [] e \in {src1, src2} -> "source"
                 [] OTHER              -> "amd64"

MCFiles(e) ==
  CASE e = foo1             -> "foo_1_amd64.deb" :> e
    [] e \in {foo2, foo2b}  -> "foo_2_amd64.deb" :> e
    [] e = bar              -> "bar_1_arm64.deb" :> e
    [] e = doc              -> "doc_1_all.deb" :> e
    [] e = src1             -> "foo_1-1.dsc" :> e @@ "foo_1.orig.tar" :> orig
    [] OTHER                -> "foo_1-2.dsc" :> e @@ "foo_1.orig.tar" :> orig
                               @@ "foo_1-2.debian.tar" :> debian

\* Path order: the deeper directory first, and a package's tarball before its .dsc.
Deeper == <<"pool/main/f/foo", "pool/main">>
Before == <<"foo_1-2.debian.tar", "foo_1-1.dsc", "foo_1-2.dsc", "foo_1.orig.tar">>
PlaceIn(seq, x) == IF Contains(seq, x) THEN CHOOSE i \in DOMAIN seq : seq[i] = x ELSE 0
Place(p)   == IF IsPool(p) THEN 100 + 10 * PlaceIn(Deeper, p.dir) + PlaceIn(Before, p.base)
              ELSE IF "suite" \notin DOMAIN p THEN 0
              ELSE 10 * PlaceIn(<<"stable", "testing">>, p.suite) +
                   (IF "file" \in DOMAIN p THEN PlaceIn(<<"InRelease", "Release", "Release.gpg">>, p.file)
                    ELSE IF "of" \in DOMAIN p THEN 5 ELSE 4)
MCFirst(P) == CHOOSE p \in P : \A q \in P : Place(p) <= Place(q)

MCSize(c)   == IF c = torn THEN 0 ELSE 1
MCArchOrder == <<"amd64", "arm64", "all", "source">>
MCDirs      == {"pool/main", "pool/main/f/foo"}

\* The checks below never enumerate these: they only ask what Execute assumes.
MCIndexPaths == {Release(s) : s \in Suites} \cup {ReleaseGPG(s) : s \in Suites} \cup
                {InRelease(s) : s \in Suites}
MCPaths    == MCIndexPaths
MCContents == PoolFiles

\* A suite this tool published: the entries of ix, and whether it was signed.
Doc(s, a, at) == [suite |-> s, arch |-> a, of |-> {[entry |-> e, dir |-> at[e]] : e \in DOMAIN at}]
InMain(E) == [e \in E |-> "pool/main"]

Publication(s, docs, byHash, signed) ==
  LET pool  == PoolNeeds(UNION {d.of : d \in docs})
      rel   == [suite |-> s, rev |-> 0, byHash |-> byHash, docs |-> docs, pool |-> pool]
      extra == IF signed THEN {ReleaseGPG(s), InRelease(s)} ELSE {}
  IN [p \in MetadataPaths(docs, byHash) \cup DOMAIN pool \cup {Release(s)} \cup extra |->
        CASE p = Release(s)    -> rel
          [] p = ReleaseGPG(s) -> [signs |-> rel]
          [] p = InRelease(s)  -> [inline |-> rel]
          [] p \in DOMAIN pool -> pool[p]
          [] OTHER             -> CHOOSE d \in docs : p \in {d, Plain(d)}]

Made(s, docs, signed) == Publication(s, docs, TRUE, signed)

amd64(E)  == Doc("stable", "amd64", InMain(E))
arm64(E)  == Doc("stable", "arm64", InMain(E))
source(E) == Doc("stable", "source", InMain(E))

Signed == Made("stable", {amd64({foo1, doc}), arm64({bar, doc}), source({src1, src2})}, TRUE)

\* Two versions in two places, a stray index, and a stray file.
Scattered == Made("stable", {Doc("stable", "amd64", foo2 :> "pool/main/f/foo" @@ InMain({foo1, doc})),
                             arm64({doc, bar})}, TRUE)
Strays == Scattered @@ Location("pool/main", "stray_1_amd64.deb") :> foo2b @@ amd64({}) :> amd64({})

\* Two builds under one name in two places, and the files now there.
TwoBuilds(f, g) ==
  LET made == Made("stable", {Doc("stable", "amd64", foo2 :> "pool/main/f/foo" @@ InMain({foo1, foo2b}))}, FALSE)
  IN [p \in DOMAIN made |-> CASE p = Location("pool/main/f/foo", "foo_2_amd64.deb") -> f
                               [] p = Location("pool/main", "foo_2_amd64.deb")       -> g
                               [] OTHER                                              -> made[p]]

\* Two stanzas for one file, one of which is true.
OneFile == LET made == Made("stable", {amd64({foo1, foo2, foo2b})}, FALSE) IN
  [p \in DOMAIN made |-> IF p = Location("pool/main", "foo_2_amd64.deb") THEN foo2b ELSE made[p]]

Plainly  == [NoOptions EXCEPT !.suite = "stable", !.dir = "pool/main"]
Updating == {[Plainly EXCEPT !.signed = o[1], !.byHash = o[2]] :
               o \in {<<TRUE, TRUE>>, <<FALSE, TRUE>>, <<TRUE, FALSE>>}}
Cleaning == {[Plainly EXCEPT !.dir = d, !.unreferenced = c, !.stale = c] : d \in MCDirs, c \in BOOLEAN}

Used(st, options, kinds, most, publishes) ==
  [store |-> st, options |-> options, calls |-> kinds, most |-> most, publishes |-> publishes,
   copies |-> 0]

\* A source with another suite in its pool, signed; then published anew, without
\* by-hash copies and not signed.
Readme     == [file |-> "README"]
InTesting(E) == {Doc("testing", "amd64", InMain(E))}

MCSourceAt ==
  <<Made("stable", {amd64({foo1}), source({src1})}, TRUE)
      @@ Made("testing", InTesting({bar}), FALSE) @@ Readme :> [text |-> 1] @@ Config :> CopiedFrom(""),
    Publication("stable", {amd64({foo2b})}, FALSE, FALSE) @@ Readme :> [text |-> 2] @@ Config :> CopiedFrom("")>>

\* It is copied over nothing, or over a suite with another build of foo beside
\* one that shares the pool with it.
Beside == Made("stable", {amd64({foo2})}, TRUE) @@ Made("testing", InTesting({foo1}), FALSE)

\* The flags as they come, and all of them turned round.
MCFlags == {[listed |-> TRUE,  again |-> FALSE, sign |-> FALSE, relocate |-> FALSE],
            [listed |-> FALSE, again |-> TRUE,  sign |-> TRUE,  relocate |-> TRUE]}

Copying == {[Plainly EXCEPT !.suite = o[1], !.dir = "pool/main/f/foo", !.signed = o[2], !.pruneOlder = o[3]] :
              o \in {<<"stable", TRUE, FALSE>>, <<"testing", FALSE, TRUE>>}}

CopyUses == {[store |-> st, options |-> Copying, calls |-> {"prune"}, most |-> 1, publishes |-> 2,
              copies |-> 2] : st \in {<<>>, Beside}}

MCUses ==
  {Used(Signed, Updating, {"add", "remove"}, 1, 2),
   Used(<<>>, {o \in Updating : o.signed}, {"add"}, 1, 2)} \cup
  {Used(Strays, Cleaning, {"prune", "relocate"}, 2, 2)} \cup
  {Used(st, Cleaning, {"refresh", "prune"}, 2, 2) :
     st \in {TwoBuilds(foo2, foo2b), TwoBuilds(torn, foo2b), TwoBuilds(foo2, foo2), OneFile}}
  \cup CopyUses

\* One copy over the two suites.
OverwriteUse == {[u EXCEPT !.copies = 1] : u \in {v \in CopyUses : v.store # <<>>}}

\* Published once, with by-hash copies; and the two builds having changed places.
ReopenUse    == {Used(st, {[Plainly EXCEPT !.byHash = TRUE]}, {"add", "remove"}, 1, 1) : st \in {<<>>, Signed}}
ExchangedUse == {Used(TwoBuilds(foo2b, foo2), {Plainly}, {"refresh"}, 1, 1)}
=============================================================================
