------------------------------ MODULE RpmDeps ------------------------------
(***************************************************************************)
(* pkg/rpm/repodata/depgraph.go: what meets a requirement of an rpm.       *)
(*                                                                         *)
(* A dependency entry is [name, flags, epoch, ver, rel], where rel is      *)
(* empty when it gives no release.  A package is [name, epoch, ver, rel,   *)
(* provides, requires, files].                                             *)
(***************************************************************************)
EXTENDS Versions

CONSTANTS Ignored,    \* names of requirements nothing in a repository meets
          IsPath(_)   \* IsPath(n): the name n is the path of a file

----------------------------------------------------------------------------
\* parseSense: the comparisons a flag admits; an unknown flag admits none.
Sense(flags) == CASE flags = "EQ" -> {0}
                  [] flags = "LT" -> {-1}
                  [] flags = "GT" -> {1}
                  [] flags = "LE" -> {-1, 0}
                  [] flags = "GE" -> {0, 1}
                  [] OTHER        -> {}

\* compareDepEVR: releases count only where both entries have one.
CompareDepEVR(a, b) ==
  Tiebreak(Sign(a.epoch - b.epoch),
           Tiebreak(CompareVersions(a.ver, b.ver),
                    IF a.rel # <<>> /\ b.rel # <<>> THEN CompareVersions(a.rel, b.rel) ELSE 0))

\* Mutant: ranges that touch at an end point always overlap.
EntrySatisfiesTouching(prov, req) ==
  \/ prov.flags = "" \/ req.flags = ""
  \/ LET cmp == CompareDepEVR(prov, req)
         ps  == Sense(prov.flags)
         rs  == Sense(req.flags)
     IN \/ cmp < 0 /\ (1 \in ps \/ -1 \in rs)
        \/ cmp > 0 /\ (-1 \in ps \/ 1 \in rs)
        \/ cmp = 0

\* entrySatisfies: the ranges overlap.
EntrySatisfies(prov, req) ==
  \/ prov.flags = "" \/ req.flags = ""
  \/ LET cmp == CompareDepEVR(prov, req)
         ps  == Sense(prov.flags)
         rs  == Sense(req.flags)
     IN \/ cmp < 0 /\ (1 \in ps \/ -1 \in rs)
        \/ cmp > 0 /\ (-1 \in ps \/ 1 \in rs)
        \/ cmp = 0 /\ ps \cap rs # {}

SelfProvide(p) ==
  [name |-> p.name, flags |-> "EQ", epoch |-> p.epoch, ver |-> p.ver, rel |-> p.rel]

\* The requirements that are looked at: not rpmlib(...), not rich ones.
RpmRequirements(p) == {req \in p.requires : req.name \notin Ignored}

RpmKnows(p, req) == \/ IsPath(req.name) /\ req.name \in p.files
                    \/ \E prov \in p.provides \cup {SelfProvide(p)} : prov.name = req.name

RpmSatisfies(p, req) ==
  \/ IsPath(req.name) /\ req.name \in p.files
  \/ \E prov \in p.provides \cup {SelfProvide(p)} :
       prov.name = req.name /\ EntrySatisfies(prov, req)

RpmLess(p, q)     == CompareEVR(p, q) < 0   \* rpmEVRLess
RpmSameName(p, q) == p.name = q.name        \* and arch

\* Package.EVR: two packages of one version are of the same text, so that 1.0 and
\* 1.00, of which neither is newer, are two.
RpmSameEVR(p, q) == p.epoch = q.epoch /\ p.ver = q.ver /\ p.rel = q.rel
=============================================================================
