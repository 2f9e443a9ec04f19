-------------------------------- MODULE Each --------------------------------
(***************************************************************************)
(* internal/parallel: Each calls a function for every item, on goroutines, *)
(* at most so many at a time, and returns when every call has.  The caller *)
(* counts an item in and takes a slot before it starts the goroutine, and  *)
(* the goroutine gives its slot back before it counts itself out.          *)
(***************************************************************************)
EXTENDS Integers, FiniteSets

CONSTANTS
  Items,    \* what Each is called with
  Conc      \* the concurrency asked for

ASSUME ItemsAssumption == IsFiniteSet(Items)
ASSUME ConcAssumption  == Conc \in Int

VARIABLES
  caller,   \* "next", "waiting for a slot" or "returned"
  current,  \* the item counted in last, {} before the first
  todo,     \* items the caller has not come to
  sem,      \* slots taken: the length of the channel
  wg,       \* items counted in and not yet out
  call      \* per item: "none", "running", "over", "out of its slot", "gone"

eachVars == <<caller, current, todo, sem, wg, call>>

Slots == IF Conc < 1 THEN 1 ELSE Conc

EachInit == /\ caller = "next" /\ todo = Items
            /\ current = {}
            /\ sem = 0 /\ wg = 0
            /\ call = [i \in Items |-> "none"]

CountIn(i) == /\ caller = "next" /\ i \in todo
              /\ caller' = "waiting for a slot"
              /\ current' = i
              /\ todo' = todo \ {i}
              /\ wg' = wg + 1
              /\ UNCHANGED <<sem, call>>

SlotFreeAlways == sem <= Slots  \* mutant: one slot too many

SlotFree == sem < Slots

Start == /\ caller = "waiting for a slot"
         /\ SlotFree
         /\ sem' = sem + 1
         /\ caller' = "next"
         /\ call' = [call EXCEPT ![current] = "running"]
         /\ UNCHANGED <<current, todo, wg>>

AllOut == wg = 0

Return == /\ caller = "next" /\ todo = {}
          /\ AllOut
          /\ caller' = "returned"
          /\ UNCHANGED <<current, todo, sem, wg, call>>

\* The function returns; what it did is for the module that gives it one.
Over(i) == /\ call[i] = "running"
           /\ call' = [call EXCEPT ![i] = "over"]
           /\ UNCHANGED <<caller, current, todo, sem, wg>>

GiveBackForgotten(i) == FALSE  \* mutant: a slot is never given back

GiveBack(i) == /\ call[i] = "over"
               /\ sem' = sem - 1
               /\ call' = [call EXCEPT ![i] = "out of its slot"]
               /\ UNCHANGED <<caller, current, todo, wg>>

CountOut(i) == /\ call[i] = "out of its slot"
               /\ wg' = wg - 1
               /\ call' = [call EXCEPT ![i] = "gone"]
               /\ UNCHANGED <<caller, current, todo, sem>>

Calling == \/ \E i \in Items : CountIn(i)
           \/ Start
           \/ Return

Leaving(i) == GiveBack(i) \/ CountOut(i)

EachNext == Calling \/ \E i \in Items : Over(i) \/ Leaving(i)

EachSpec == EachInit /\ [][EachNext]_eachVars

----------------------------------------------------------------------------
Running == {i \in Items : call[i] = "running"}

\* No more calls run at a time than were asked for, and one if none were
\* (parallel.go:6-8).
Bounded == Cardinality(Running) <= Slots

\* When Each returns, every item's call is over (parallel.go:7).
AllCalled == caller = "returned" => \A i \in Items : call[i] = "gone"
=============================================================================
