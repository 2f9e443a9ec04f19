----------------------------- MODULE MCRpmRepo -----------------------------
(***************************************************************************)
(* Small repositories for RpmRepo and Takeover: foo in two versions, the   *)
(* first built twice under one file name, and a package qux.               *)
(***************************************************************************)
EXTENDS Takeover

CONSTANTS foo1, foo1b, foo2, qux, qux2, torn

MCKey(r)  == IF r \in {qux, qux2} THEN "qux" ELSE "foo"
MCEVR(r)  == IF r \in {foo2, qux2} THEN 2 ELSE 1
MCBase(r) == CASE r \in {foo1, foo1b} -> "foo-1.rpm"
               [] r = foo2            -> "foo-2.rpm"
               [] OTHER               -> "qux.rpm"

\* Re-signing foo-1 makes another file of the same version; the other files
\* are their own signed form.
MCSigned(r) == IF r = foo1 THEN foo1b ELSE r

MCSize(c) == IF c = torn THEN 0 ELSE 1

\* No content is referenced at two places here.
MCFirst(P) == CHOOSE p \in P : TRUE

MCDirs == {"", "Packages"}

Group     == [type |-> "group"]
PrimaryDb == [type |-> "primary_db"]
Docs(ix)  == Range(Documents(ix))

\* Execute assumes something of these; MCPublish is where all of them are given.
MCIndexPaths == {Repomd, RepomdAsc}
MCPaths      == MCIndexPaths
MCContents   == Rpms \cup {torn}

\* A repository another tool made: foo-1 at the root, comps groups, a sqlite
\* database this tool does not write, and a signature.
ForeignIndex == foo1 :> Location("", foo1)
ForeignRoot  == [rev |-> 0, docs |-> Docs(ForeignIndex) \cup {Group, PrimaryDb},
                 at |-> ByLocation(ForeignIndex)]
SignedBy(who) ==
  [p \in ForeignRoot.docs \cup {Location("", foo1)} \cup MCIndexPaths |->
     CASE p = Repomd             -> ForeignRoot
       [] p = RepomdAsc          -> Signature(who, ForeignRoot)
       [] p = Location("", foo1) -> foo1
       [] OTHER                  -> p]

Foreign == SignedBy("vendor")

\* A repository this tool made: the packages of ix, and other files beside them.
Made(ix, files) ==
  LET root == [rev |-> 0, docs |-> Docs(ix), at |-> ByLocation(ix)] IN
  [p \in DOMAIN NamedBy(root) \cup {Repomd} |-> IF p = Repomd THEN root ELSE NamedBy(root)[p]]
  @@ files

Plain == NoOptions
Tidying == [Plain EXCEPT !.unreferenced = TRUE, !.stale = TRUE]
Add     == [Plain EXCEPT !.prefix = "Packages"]

\* Packages are added to and removed from an empty repository and a foreign one.
Updating == {[store |-> st, options |-> {[Add EXCEPT !.signed = s, !.pruneOlder = p] : s, p \in BOOLEAN},
              calls |-> {"add", "remove"}, most |-> 1, publishes |-> 3] : st \in {<<>>, Foreign}}

\* One is added over another build of itself, and dropped again for a newer one.
Dropping == {[store |-> Made(foo1 :> Location("Packages", foo1), <<>>),
              options |-> {[Add EXCEPT !.pruneOlder = p] : p \in BOOLEAN},
              calls |-> {"add", "remove"}, most |-> 2, publishes |-> 2]}

\* Two versions in two places, and a package and a document nothing names.
TwoPlaces == Made(foo1 :> Location("", foo1) @@ foo2 :> Location("Packages", foo2),
                  Location("Packages", qux) :> qux @@ Filelists(<<>>) :> Filelists(<<>>))

Rebuilding == {[store |-> TwoPlaces, options |-> {Plain, Tidying},
                calls |-> {"prune", "relocate", "resign"}, most |-> 2, publishes |-> 3]}

\* foo-1, foo-2 and qux at the root, and other files put in their places: a
\* package built anew, one moved over the next, two exchanged, one missing.
Three == foo1 :> Location("", foo1) @@ foo2 :> Location("", foo2) @@ qux :> Location("", qux)

Replaced(f1, f2, b) ==
  [p \in DOMAIN Made(Three, <<>>) |->
     CASE p = Location("", foo1) -> f1
       [] p = Location("", foo2) -> f2
       [] p = Location("", qux)  -> b
       [] OTHER                  -> Made(Three, <<>>)[p]]

FilesOfThree == {<<foo1, foo2, qux>>, <<foo1b, foo2, qux>>, <<foo2, foo1b, qux>>,
                 <<foo2, foo1, qux>>, <<torn, foo2, qux>>}

\* Two builds of one version under one name, in two places.
TwoBuilds == Made(foo1 :> Location("", foo1) @@ foo1b :> Location("Packages", foo1b), <<>>)

\* Two packages, of which the first was replaced by the version before it, and
\* the second by the first.
MadeDown   == Made(foo2 :> Location("", foo2) @@ qux :> Location("", qux), <<>>)
Downgraded == Location("", foo2) :> foo1 @@ Location("", qux) :> foo2 @@ MadeDown

Absent == Location("", qux)
Stores == {Replaced(t[1], t[2], t[3]) : t \in FilesOfThree} \cup
          {[p \in DOMAIN Made(Three, <<>>) \ {Absent} |-> Made(Three, <<>>)[p]], Foreign,
           SignedBy(Unidentified), TwoBuilds, Downgraded}

\* Files of other packages than the index says are re-signed: one version in two
\* places, and one entry whose package is nowhere.
Resigning == {[store |-> st, options |-> {Plain}, calls |-> {"resign"}, most |-> 1, publishes |-> 2] :
                st \in {Replaced(foo2, foo2, qux), Downgraded}}

Signing == {[Add EXCEPT !.signed = s] : s \in BOOLEAN}

TakenOver(st, opts) ==
  [store |-> st, options |-> opts,
   calls |-> {"takeover", "refresh", "prune", "relocate"}, most |-> 3, publishes |-> 1]

TakingOver == {TakenOver(st, Signing) : st \in Stores}

MCUses == Updating \cup Dropping \cup Rebuilding \cup Resigning \cup TakingOver

MCOrder == <<foo1, foo1b, foo2, qux, qux2>>

\* One package, relocated on a backend that copies in place.
OneUse == {[store |-> Made(foo1 :> Location("", foo1), <<>>), options |-> {Plain},
            calls |-> {"relocate"}, most |-> 1, publishes |-> 2]}
=============================================================================
