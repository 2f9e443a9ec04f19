------------------------------ MODULE AptDeps ------------------------------
(***************************************************************************)
(* pkg/apt/aptdata/depends.go and depgraph.go: what meets a dependency of  *)
(* a Debian package.                                                       *)
(*                                                                         *)
(* A dependency is a set of alternatives, each a relation [name, op,       *)
(* version, arches, negated] that is in force on some architectures only.  *)
(* A package is [name, arch, version, provides, depends], where provides   *)
(* is a sequence of [name, version], the version empty where none is given.*)
(***************************************************************************)
EXTENDS Versions

CONSTANT Unexpanded   \* dependencies that still hold a substitution variable

----------------------------------------------------------------------------
\* Relation.Satisfies
Satisfies(r, version) ==
  \/ r.op = ""
  \/ /\ version # <<>>
     /\ LET c == CompareDebVersions(version, r.version) IN
        \/ r.op = "<<"        /\ c < 0
        \/ r.op \in {"<=", "<"} /\ c <= 0
        \/ r.op = "="         /\ c = 0
        \/ r.op = ">="        /\ c >= 0
        \/ r.op \in {">>", ">"} /\ c > 0

\* Relation.AppliesTo: a list names where the relation is in force, or where not.
AppliesTo(r, arch) ==
  r.arches # {} => IF {arch, "any"} \cap r.arches # {} THEN ~r.negated ELSE r.negated

InForce(g, arch) == {r \in g : AppliesTo(r, arch)}

\* ProvidedCapabilities: its own name at its own version, and what it declares
\* under other names, at the first version it gives if it gives any.
ProvidedCapabilities(p) ==
  LET given(n) == {i \in DOMAIN p.provides : p.provides[i].name = n /\ p.provides[i].version # <<>>} IN
  {[name |-> p.name, version |-> p.version]} \cup
  {p.provides[i] : i \in {k \in DOMAIN p.provides : LET n == p.provides[k].name IN
     n # p.name /\ (given(n) = {} \/ (k \in given(n) /\ \A l \in given(n) : k <= l))}}

\* hardRelations: Depends and Pre-Depends, where any of them is in force.
HardRelations(p) ==
  {g \in p.depends : g \notin Unexpanded /\ InForce(g, p.arch) # {}}

\* satisfyGroup and groupKnown, of one package p, for a dependent q.
SatisfiesGroup(p, q, g) ==
  \E r \in InForce(g, q.arch) : \E c \in ProvidedCapabilities(p) :
    c.name = r.name /\ Satisfies(r, c.version)

KnowsGroup(p, q, g) ==
  \E r \in InForce(g, q.arch) : \E c \in ProvidedCapabilities(p) : c.name = r.name

\* perArchSets: a package is resolved against those for its architecture and
\* those for all; one for all against everything.
Sees(q, p) == q.arch = "all" \/ p.arch \in {q.arch, "all"}

AptLess(p, q)     == CompareDebVersions(p.version, q.version) < 0
AptSameName(p, q) == p.name = q.name /\ p.arch = q.arch

\* supersede: what is added replaces an equal version, however that is written;
\* matches: what is removed is written as it was named.
AptReplaces(p, q)    == CompareDebVersions(p.version, q.version) = 0
AptSameVersion(p, q) == p.version = q.version
=============================================================================
