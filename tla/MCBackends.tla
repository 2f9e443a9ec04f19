----------------------------- MODULE MCBackends -----------------------------
(***************************************************************************)
(* An index that is there and a package that is not, and calls that write, *)
(* copy, delete and look at them at the same time.                         *)
(***************************************************************************)
EXTENDS Backends, TLC

CONSTANTS index, pkg, old, new

MCPaths == {index, pkg}
MCContents == {old, new}
MCInitialData == index :> old @@ pkg :> Absent

MCRequests ==
  [op : {"put"}, path : MCPaths, src : {index}, data : {new}] \cup
  {[op |-> "copy", path |-> pkg, src |-> index, data |-> None]} \cup
  {[op |-> o, path |-> p, src |-> p, data |-> None] : o \in {"delete", "stat"}, p \in MCPaths}

Looking == {[op |-> "stat", path |-> index, src |-> index, data |-> None]}
Symmetry == Permutations(Calls)
=============================================================================
