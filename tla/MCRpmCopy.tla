----------------------------- MODULE MCRpmCopy -----------------------------
(***************************************************************************)
(* Two versions of a source: foo-1 and bar, signed; then foo-1 built anew  *)
(* under its old name and foo-2, not signed.  They are copied to an empty  *)
(* place, or over a repository with another build of bar in it.            *)
(***************************************************************************)
EXTENDS RpmCopy, TLC

CONSTANTS foo1, foo1b, foo2, bar, bar2, torn,
          Origin   \* copy_source in the source's own createrepo-go.json

MCKey(r)  == IF r \in {bar, bar2} THEN "bar" ELSE "foo"
MCEVR(r)  == IF r = foo2 THEN 2 ELSE 1
MCBase(r) == CASE r \in {foo1, foo1b} -> "foo-1.rpm"
               [] r = foo2            -> "foo-2.rpm"
               [] OTHER               -> "bar.rpm"

MCSigned(r) == r
MCSize(c)   == IF c = torn THEN 0 ELSE 1
MCFirst(P)  == CHOOSE p \in P : TRUE
MCDirs      == {"", "Packages"}

\* The checks below never enumerate these: they only ask what Execute assumes.
MCIndexPaths == {Repomd, RepomdAsc}
MCPaths      == MCIndexPaths
MCContents   == Rpms \cup {torn}

Readme == [file |-> "README"]

At(dir, R) == [r \in R |-> Location(dir, r)]

Rooted(rev, ix, extra) == [rev |-> rev, docs |-> Range(Documents(ix)) \cup extra, at |-> ByLocation(ix)]

\* The configuration of the source, which may itself be a copy.
Settings(signed) == [copySource |-> Origin, signMetadata |-> signed]

Holding(root, files) == NamedBy(root) @@ Repomd :> root @@ files

Group == [type |-> "group"]
Root1 == Rooted(101, At("", {foo1, bar}), {Group})
Root2 == Rooted(102, At("", {foo1b, foo2}), {Group})

MCSourceAt ==
  <<Holding(Root1, RepomdAsc :> Signature("vendor", Root1) @@ Readme :> [text |-> 1] @@ Config :> Settings(TRUE)),
    Holding(Root2, Readme :> [text |-> 2] @@ Config :> Settings(FALSE))>>

Other == Rooted(100, At("", {bar2}), {[type |-> "updateinfo"]})

\* The flags as they come, and all of them turned round.
MCFlags == {[listed |-> TRUE,  again |-> FALSE, sign |-> FALSE, relocate |-> FALSE],
            [listed |-> FALSE, again |-> TRUE,  sign |-> TRUE,  relocate |-> TRUE]}

\* Over nothing, or over a repository with another build of bar in it.
MCUses ==
  {[store     |-> st,
    options   |-> {[NoOptions EXCEPT !.prefix = "Packages", !.signed = s, !.pruneOlder = ~s] :
                     s \in BOOLEAN},
    calls     |-> {"prune"}, most |-> 1, publishes |-> 1] :
     st \in {<<>>, Holding(Other, RepomdAsc :> Signature("vendor", Other))}}

MCOrder == <<bar, bar2, foo1, foo1b, foo2>>
=============================================================================
