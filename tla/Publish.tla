------------------------------- MODULE Publish -------------------------------
(***************************************************************************)
(* A backend updated by one publish after another, each handed Steps that  *)
(* are sound for the store it finds, each possibly stopped half way.       *)
(***************************************************************************)
EXTENDS Execute

CONSTANTS Works,         \* the Steps callers hand over
          InitialStores  \* the stores the first publish may find

ASSUME EnvironmentAssumption ==
  /\ Works \subseteq Steps
  /\ \A st \in InitialStores :
       /\ st \in [DOMAIN st -> Contents]
       /\ DOMAIN st \subseteq Paths
       /\ \A q \in IndexPaths \cap DOMAIN st : \A p \in DOMAIN Needs(st[q]) :
            p \in DOMAIN st /\ st[p] = Needs(st[q])[p]

----------------------------------------------------------------------------
Init == /\ store \in InitialStores
        /\ work = NoSteps

Begin == /\ work = NoSteps
         /\ \E w \in Works : Sound(w) /\ work' = w
         /\ UNCHANGED store

Next == Begin \/ Step \/ Stop \/ StopInCopy

vars == execVars

Spec == Init /\ [][Next]_vars

----------------------------------------------------------------------------
(* What a client reads through each index file.                            *)
Read(p) == IF p \in DOMAIN store THEN store[p] ELSE Partial

Seen == [q \in Live |-> [p \in DOMAIN Needs(store[q]) |-> Read(p)]]

Atomic == INSTANCE AtomicPublish
            WITH Versions <- {Needs(c) : c \in Contents}, view <- Seen

\* A client that starts at an index file moves from one whole version of the
\* repository to the next, however the publishes it runs beside are cut short.
PublishedAtomically == Atomic!Spec
=============================================================================
