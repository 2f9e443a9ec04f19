--------------------------- MODULE AtomicPublish ---------------------------
(***************************************************************************)
(* What a publish promises (pkg/publish/execute.go:20-23): the repository  *)
(* is whole at every moment.  A client that starts at an index file sees   *)
(* the files one version of the index names, each with the content that    *)
(* version gives it, and moves from one whole version to the next in a     *)
(* single step.                                                            *)
(***************************************************************************)
CONSTANTS IndexPaths,  \* the index files
          Versions     \* path |-> content: what one version of an index names

VARIABLE view          \* index file |-> the files a client reads through it

Init == \E Q \in SUBSET IndexPaths : view \in [Q -> Versions]

Replace(q) == \E v \in Versions :
  view' = [r \in DOMAIN view \cup {q} |-> IF r = q THEN v ELSE view[r]]

Withdraw(q) == view' = [r \in DOMAIN view \ {q} |-> view[r]]

Next == \E q \in IndexPaths : Replace(q) \/ Withdraw(q)

Spec == Init /\ [][Next]_view
=============================================================================
