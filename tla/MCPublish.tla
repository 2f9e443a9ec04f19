------------------------------ MODULE MCPublish ------------------------------
(***************************************************************************)
(* A small instance of Publish: two index files, as an apt suite has in    *)
(* Release and InRelease, and three package files.                         *)
(***************************************************************************)
EXTENDS Publish, TLC

CONSTANTS release, inRelease, x, y, z,        \* paths
          a, b,                               \* package contents
          i0, i1, i2, i3,                     \* versions of the index
          torn                                \* a half-written copy

MCIndexPaths == {release, inRelease}
MCPaths      == MCIndexPaths \cup {x, y, z}
MCContents   == {a, b, i0, i1, i2, i3, torn}
MCPartial    == torn

\* The empty repository, one package, the same package elsewhere with another
\* beside it, and another build of the package under its old name.
MCNeeds(c) == CASE c = i1 -> x :> a
                [] c = i2 -> y :> a @@ z :> b
                [] c = i3 -> x :> b
                [] OTHER  -> <<>>

MCInitialStores == {<<>>, (release :> i1) @@ (x :> a)}

MCSwaps == {<<[to |-> release, data |-> i]>> : i \in {i0, i1, i2, i3}} \cup
           {<<[to |-> release, data |-> i], [to |-> inRelease, data |-> i]>> : i \in {i0, i1, i2, i3}}

MCWorks ==
  [copies   : {{}} \cup {{[from |-> p, to |-> q]} : p, q \in {x, y, z}},
   uploads  : {U \in SUBSET [to : {x, y}, data : {a, b}] :
                 \A u, v \in U : u.to = v.to => u = v},
   metadata : {<<>>} \cup {<<[to |-> z, data |-> b]>>},
   swap     : MCSwaps,
   retract  : {<<>>, <<inRelease>>},
   gc       : {<<{}>>, <<{x}>>, <<{y}, {z}>>, <<{z, x}>>}]
=============================================================================
