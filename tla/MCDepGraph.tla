----------------------------- MODULE MCDepGraph -----------------------------
(***************************************************************************)
(* Two repositories.  The rpm one: app in two versions, each pinning its   *)
(* own version of lib, a plugin that pins the old app, a tool that asks    *)
(* for a range and for a file, and two builds of lib-1.  The Debian one: a *)
(* library for two architectures, a virtual package, and dependents that   *)
(* pin, that have alternatives, and that differ by architecture.           *)
(* Then, for every two ways to write a version, a repository of a package  *)
(* in these two.                                                           *)
(***************************************************************************)
EXTENDS DepGraph, RpmDeps, AptDeps, VersionOrder

V(n) == <<Zero + n>>   \* a version of one digit
None == <<>>

Entry(n, f, v, r) == [name |-> n, flags |-> f, epoch |-> 0, ver |-> v, rel |-> r]

Rpm(n, v, r, rank, prov, req, files) ==
  [tool |-> "rpm", name |-> n, epoch |-> 0, ver |-> v, rel |-> r, rank |-> rank,
   provides |-> prov, requires |-> req, files |-> files]

lib1   == Rpm("lib", V(1), V(1), 1, {Entry("libfoo.so", "", None, None)}, {}, {"/bin/lib"})
lib1b  == Rpm("lib", V(1), V(2), 2, {Entry("libfoo.so", "LE", V(1), V(2))}, {}, {"/bin/lib"})
lib2   == Rpm("lib", V(2), V(1), 3, {}, {}, {})
app1   == Rpm("app", V(1), V(1), 4, {}, {Entry("lib", "LT", V(2), None)}, {})
app2   == [Rpm("app", V(1), V(1), 5, {}, {Entry("lib", "GE", V(2), V(1))}, {}) EXCEPT !.epoch = 1]
plugin == Rpm("plugin", V(1), V(1), 6, {}, {Entry("app", "EQ", V(1), None), Entry("rpmlib(X)", "LE", V(4), None)}, {})
tool   == Rpm("tool", V(1), V(1), 7, {}, {Entry("libfoo.so", "GT", V(1), V(1)), Entry("/bin/lib", "", None, None)}, {})

Relation(n, op, v) == [name |-> n, op |-> op, version |-> v, arches |-> {}, negated |-> FALSE]

Deb(n, a, v, rank, prov, dep) ==
  [tool |-> "deb", name |-> n, arch |-> a, version |-> v, rank |-> rank,
   provides |-> prov, depends |-> dep]

Virtual(v) == [name |-> "codec", version |-> v]

foo1   == Deb("foo", "amd64", V(1), 1, <<Virtual(None)>>, {})
foo2   == Deb("foo", "amd64", V(2), 2, <<Virtual(None), Virtual(V(2)), [name |-> "foo", version |-> V(1)]>>, {})
foo1r  == Deb("foo", "arm64", V(1), 3, <<>>, {})
doc1   == Deb("doc", "all", V(1), 4, <<>>, {{Relation("foo", "<<", V(2))}})
bar    == Deb("bar", "amd64", V(1), 5, <<>>, {{Relation("foo", "=", V(1)), Relation("doc", ">=", V(2))},
                                            {Relation("libc", ">", V(1))}})
player == Deb("player", "amd64", V(1), 6, <<>>, {{Relation("codec", ">=", V(1))},
             {[Relation("doc", "<=", V(1)) EXCEPT !.arches = {"amd64"}, !.negated = TRUE]},
             {[Relation("foo", "", None) EXCEPT !.arches = {"amd64"}]}, {Relation("${shlibs}", "", None)}})

----------------------------------------------------------------------------
letter == 97

Upto(n, alphabet) == UNION {[1..k -> alphabet] : k \in 1..n}

\* Every version of one or two characters, and 1.0, 1.00, 1^1, 1^a, 1a1, 1~a, 09, 1.a.
RpmWritten ==
  Upto(2, {Zero, Zero + 1, letter, Tilde, Caret, Stop}) \cup
  {V(1) \o <<Stop>> \o V(0), V(1) \o <<Stop>> \o V(0) \o V(0), V(1) \o <<Caret>> \o V(1),
   V(1) \o <<Caret, letter>>, V(1) \o <<letter>> \o V(1), V(1) \o <<Tilde, letter>>,
   V(0) \o V(9), V(1) \o <<Stop, letter>>}

\* The same, and 1:1, 0:1, 1-0, 1-0-1, 1:a, 1~-1, 09, 1.00.
DebWritten ==
  Upto(2, {Zero, Zero + 1, letter, Tilde, Plus, Stop}) \cup
  {V(1) \o <<Colon>> \o V(1), V(0) \o <<Colon>> \o V(1), V(1) \o <<Hyphen>> \o V(0),
   V(1) \o <<Hyphen>> \o V(0) \o <<Hyphen>> \o V(1), V(1) \o <<Colon, letter>>,
   V(1) \o <<Tilde, Hyphen>> \o V(1), V(0) \o V(9), V(1) \o <<Stop>> \o V(0) \o V(0)}

\* In the order of Packages(): that of the text, and for apt that of the versions.
RpmPairs == {{Rpm("x", v[1], V(1), 1, {}, {}, {}), Rpm("x", v[2], V(1), 2, {}, {}, {})} :
               v \in {u \in RpmWritten \X RpmWritten : CompareStr(u[1], u[2]) <= 0}}
DebPairs == {{Deb("x", "amd64", v[1], 1, <<>>, {}), Deb("x", "amd64", v[2], 2, <<>>, {})} :
               v \in {u \in DebWritten \X DebWritten :
                        DebPlace(MustParseVersion(u[1]), MustParseVersion(u[2])) <= 0}}

MCCatalogs == {{lib1, lib1b, lib2, app1, app2, plugin, tool},
               {foo1, foo2, foo1r, doc1, bar, player}} \cup RpmPairs \cup DebPairs
MCIgnored    == {"rpmlib(X)"}
MCIsPath(n)  == n = "/bin/lib"
MCUnexpanded == {{Relation("${shlibs}", "", None)}}

MCRank(p) == p.rank
IsRpm(p)  == p.tool = "rpm"

MCReplaces(p, q)    == IF IsRpm(p) THEN RpmSameEVR(p, q) ELSE AptReplaces(p, q)
MCSameVersion(p, q) == IF IsRpm(p) THEN RpmSameEVR(p, q) ELSE AptSameVersion(p, q)
MCSameName(p, q)    == IF IsRpm(p) THEN RpmSameName(p, q) ELSE AptSameName(p, q)
MCLess(p, q)        == IF IsRpm(p) THEN RpmLess(p, q) ELSE AptLess(p, q)
MCRequirements(p)   == IF IsRpm(p) THEN RpmRequirements(p) ELSE HardRelations(p)
MCKnows(p, q, req)  == IF IsRpm(p) THEN RpmKnows(p, req) ELSE KnowsGroup(p, q, req)
MCMeets(p, q, req)  == IF IsRpm(p) THEN RpmSatisfies(p, req) ELSE SatisfiesGroup(p, q, req)
MCVisible(q, p)     == IsRpm(p) \/ Sees(q, p)

\* entrySatisfies against what it means: some version lies in both ranges.
\* Positions are doubled, so that there is one between any two.
Position(e)  == 50 * e.epoch + 20 * Natural(e.ver) + 2 * Natural(e.rel)
Admits(e, n) == e.flags = "" \/ Sign(n - Position(e)) \in Sense(e.flags)
Comparable(a, b) == a.rel = None <=> b.rel = None

RangesOverlap ==
  \A p \in {q \in repo : IsRpm(q)} : \A req \in AllRequirements(repo) :
    \A prov \in p.provides \cup {SelfProvide(p)} :
      Comparable(prov, req) =>
        (EntrySatisfies(prov, req) <=> \E n \in 0..149 : Admits(prov, n) /\ Admits(req, n))

\* Each tool finds of two versions the one newer that is later in the order
\* versions stand for (vercmp.go:3-10, version.go:103-105), so that what it
\* calls newer is a total order whatever the versions look like, and the latest
\* that a prune keeps does not depend on which it looks at first.
VersionsOrdered ==
  \A p, q \in repo :
    IF IsRpm(p) THEN CompareEVR(p, q) = RpmPlace(p, q)
    ELSE CompareDebVersions(p.version, q.version)
           = DebPlace(MustParseVersion(p.version), MustParseVersion(q.version))
=============================================================================
