---------------------------- MODULE VerifyProofs ----------------------------
(***************************************************************************)
(* For every set of items and every concurrency: parallel.Each never runs  *)
(* more calls than it has slots, and returns only when every call is over; *)
(* and so does the verify that is built on it, whose bar counts what is    *)
(* still to be checked, whose report is what the storage holds, and which  *)
(* vouches for what it was asked for when it finds nothing.  For every     *)
(* package, keyring and release: a package read no further than its header *)
(* is judged no worse than the whole of it; what verifies was made by a    *)
(* trusted key over what it stands for; and no release accepts what rpm in *)
(* general does not.                                                       *)
(***************************************************************************)
EXTENDS Verify, FiniteSetTheorems, TLAPS

Steps == {"none", "running", "over", "out of its slot", "gone"}

EachTypeOK ==
  /\ caller \in {"next", "waiting for a slot", "returned"}
  /\ current \in Items \cup {{}}
  /\ todo \in SUBSET Items
  /\ sem \in Int /\ wg \in Int
  /\ call \in [Items -> Steps]

HoldSteps  == {"running", "over"}
CountSteps == {"running", "over", "out of its slot"}

\* The items whose calls are at the given steps.
In(f, S) == {i \in Items : f[i] \in S}

Holding == In(call, HoldSteps)
Counted == In(call, CountSteps)

\* The channel holds a slot for every call that has not given its own back.
SemExact == sem = Cardinality(Holding) /\ sem <= Slots

\* The wait group counts every item that is in, and the one on its way in.
WgExact == /\ caller = "waiting for a slot" => wg = Cardinality(Counted) + 1
           /\ caller # "waiting for a slot" => wg = Cardinality(Counted)

TodoExact ==
  /\ \A i \in Items : call[i] = "none" <=> i \in todo \/ (caller = "waiting for a slot" /\ i = current)
  /\ caller = "waiting for a slot" => current \in Items /\ current \notin todo

EachInv == EachTypeOK /\ SemExact /\ WgExact /\ TodoExact /\ AllCalled

LEMMA Primed == Holding' = In(call', HoldSteps) /\ Counted' = In(call', CountSteps)
BY DEF Holding, Counted

LEMMA InFinite ==
  ASSUME NEW f, NEW S
  PROVE  IsFiniteSet(In(f, S)) /\ Cardinality(In(f, S)) \in Nat
<1>1. In(f, S) \subseteq Items
  BY DEF In
<1>2. IsFiniteSet(In(f, S))
  BY <1>1, ItemsAssumption, FS_Subset
<1> QED BY <1>2, FS_CardinalityType

LEMMA SlotsType == Slots \in Nat \ {0}
BY ConcAssumption DEF Slots

\* Only i's step differs from f to g.
ButFor(i, f, g) == \A k \in Items \ {i} : f[k] = g[k]

\* What changing one item's step does to a set of the items at certain steps.
LEMMA StepIn ==
  ASSUME NEW f, NEW g, NEW i \in Items, NEW S, ButFor(i, f, g), f[i] \notin S, g[i] \in S
  PROVE  Cardinality(In(g, S)) = Cardinality(In(f, S)) + 1
<1>1. In(g, S) = In(f, S) \cup {i} /\ i \notin In(f, S)
  BY DEF In, ButFor
<1> QED BY <1>1, InFinite, FS_AddElement

LEMMA StepOut ==
  ASSUME NEW f, NEW g, NEW i \in Items, NEW S, ButFor(i, f, g), f[i] \in S, g[i] \notin S
  PROVE  Cardinality(In(g, S)) = Cardinality(In(f, S)) - 1
<1>1. In(g, S) = In(f, S) \ {i} /\ i \in In(f, S)
  BY DEF In, ButFor
<1> QED BY <1>1, InFinite, FS_RemoveElement

LEMMA StepWithin ==
  ASSUME NEW f, NEW g, NEW i \in Items, NEW S, ButFor(i, f, g), f[i] \in S <=> g[i] \in S
  PROVE  In(g, S) = In(f, S)
BY DEF In, ButFor

\* At first nobody holds a slot or is counted.
LEMMA EachInitInv == EachInit => EachInv
<1> SUFFICES ASSUME EachInit PROVE EachInv
  OBVIOUS
<1>1. Holding = {} /\ Counted = {}
  BY DEF EachInit, Holding, Counted, In, HoldSteps, CountSteps
<1>2. Cardinality({}) = 0
  BY FS_EmptySet
<1> QED BY <1>1, <1>2, SlotsType DEF EachInit, EachInv, EachTypeOK, SemExact, WgExact, TodoExact,
                                     AllCalled, Steps

LEMMA CountInKeeps ==
  ASSUME EachInv, NEW i \in Items, CountIn(i)
  PROVE  EachInv'
<1>0. EachTypeOK /\ SemExact /\ WgExact /\ TodoExact /\ AllCalled
  BY DEF EachInv
<1>1. Holding' = Holding /\ Counted' = Counted /\ Slots' = Slots
  BY DEF CountIn, Holding, Counted, Slots
<1>2. caller = "next" /\ caller' = "waiting for a slot"
  BY DEF CountIn
<1>2a. wg' = wg + 1 /\ sem' = sem /\ wg \in Int /\ sem \in Int
  BY <1>0 DEF CountIn, EachTypeOK
<1>3. EachTypeOK'
  <2>1. sem' \in Int /\ wg' \in Int
    BY <1>2a
  <2> QED BY <1>0, <2>1 DEF CountIn, EachTypeOK
<1>4. SemExact' /\ WgExact'
  BY <1>0, <1>1, <1>2, <1>2a DEF SemExact, WgExact
<1>5. TodoExact' /\ AllCalled'
  BY <1>0 DEF CountIn, TodoExact, AllCalled, EachTypeOK
<1> QED BY <1>3, <1>4, <1>5 DEF EachInv

LEMMA StartKeeps ==
  ASSUME EachInv, Start
  PROVE  EachInv'
<1>0. EachTypeOK /\ SemExact /\ WgExact /\ TodoExact /\ AllCalled
  BY DEF EachInv
<1>1. current \in Items /\ call[current] = "none" /\ call \in [Items -> Steps]
  BY <1>0 DEF Start, TodoExact, EachTypeOK
<1>2. call'[current] = "running" /\ ButFor(current, call, call')
  BY <1>1 DEF Start, ButFor
<1>3. caller = "waiting for a slot" /\ caller' = "next"
  BY DEF Start
<1>3a. sem < Slots /\ sem' = sem + 1 /\ wg' = wg /\ wg \in Int /\ sem \in Int
  BY <1>0 DEF Start, SlotFree, EachTypeOK
<1>4. Cardinality(Holding') = Cardinality(Holding) + 1
  <2>1. call[current] \notin HoldSteps /\ call'[current] \in HoldSteps
    BY <1>1, <1>2 DEF HoldSteps
  <2> QED BY <1>1, <1>2, <2>1, StepIn, Primed DEF Holding
<1>5. Cardinality(Counted') = Cardinality(Counted) + 1
  <2>1. call[current] \notin CountSteps /\ call'[current] \in CountSteps
    BY <1>1, <1>2 DEF CountSteps
  <2> QED BY <1>1, <1>2, <2>1, StepIn, Primed DEF Counted
<1>6. EachTypeOK'
  <2>1. sem' \in Int /\ wg' \in Int
    BY <1>3a
  <2> QED BY <1>0, <2>1 DEF Start, EachTypeOK, Steps
<1>7. SemExact'
  <2>1. Slots' = Slots
    BY DEF Slots
  <2>2. sem' = Cardinality(Holding')
    BY <1>0, <1>3a, <1>4 DEF SemExact
  <2>3. sem' <= Slots
    BY <1>3a, SlotsType
  <2> QED BY <2>1, <2>2, <2>3 DEF SemExact
<1>8. WgExact'
  BY <1>0, <1>3, <1>3a, <1>5 DEF WgExact
<1>9. TodoExact' /\ AllCalled'
  BY <1>0, <1>1 DEF Start, TodoExact, AllCalled
<1> QED BY <1>6, <1>7, <1>8, <1>9 DEF EachInv

LEMMA ReturnKeeps ==
  ASSUME EachInv, Return
  PROVE  EachInv'
<1>0. EachTypeOK /\ SemExact /\ WgExact /\ TodoExact /\ AllCalled
  BY DEF EachInv
<1>1. Holding' = Holding /\ Counted' = Counted /\ Slots' = Slots
  BY DEF Return, Holding, Counted, Slots
<1>2. Counted = {}
  <2>1. IsFiniteSet(Counted) /\ Cardinality(Counted) \in Nat
    BY InFinite DEF Counted
  <2>2. Cardinality(Counted) = 0
    BY <1>0, <2>1 DEF Return, AllOut, WgExact
  <2> QED BY <2>1, <2>2, FS_EmptySet
<1>3. \A i \in Items : call[i] = "gone"
  <2> SUFFICES ASSUME NEW i \in Items PROVE call[i] = "gone"
    OBVIOUS
  <2>1. call[i] \in Steps /\ call[i] # "none"
    BY <1>0 DEF Return, TodoExact, EachTypeOK
  <2>2. call[i] \notin CountSteps
    BY <1>2 DEF Counted, In
  <2> QED BY <2>1, <2>2 DEF Steps, CountSteps
<1>4. EachTypeOK' /\ TodoExact' /\ AllCalled'
  BY <1>0, <1>3 DEF Return, EachTypeOK, TodoExact, AllCalled
<1>5. SemExact' /\ WgExact'
  BY <1>0, <1>1 DEF Return, SemExact, WgExact
<1> QED BY <1>4, <1>5 DEF EachInv

LEMMA OverKeeps ==
  ASSUME EachInv, NEW i \in Items, Over(i)
  PROVE  EachInv'
<1>0. EachTypeOK /\ SemExact /\ WgExact /\ TodoExact /\ AllCalled
  BY DEF EachInv
<1>1. call[i] = "running" /\ call'[i] = "over" /\ ButFor(i, call, call')
  BY <1>0 DEF Over, EachTypeOK, ButFor
<1>2. Holding' = Holding
  BY <1>1, StepWithin, Primed DEF Holding, HoldSteps
<1>3. Counted' = Counted
  BY <1>1, StepWithin, Primed DEF Counted, CountSteps
<1>4. EachTypeOK' /\ TodoExact' /\ AllCalled'
  BY <1>0 DEF Over, EachTypeOK, TodoExact, AllCalled, Steps
<1>5. SemExact' /\ WgExact'
  BY <1>0, <1>2, <1>3 DEF Over, SemExact, WgExact, Slots
<1> QED BY <1>4, <1>5 DEF EachInv

LEMMA GiveBackKeeps ==
  ASSUME EachInv, NEW i \in Items, GiveBack(i)
  PROVE  EachInv'
<1>0. EachTypeOK /\ SemExact /\ WgExact /\ TodoExact /\ AllCalled
  BY DEF EachInv
<1>1. call[i] = "over" /\ call'[i] = "out of its slot" /\ ButFor(i, call, call')
  BY <1>0 DEF GiveBack, EachTypeOK, ButFor
<1>2. sem' = sem - 1 /\ wg' = wg /\ caller' = caller /\ sem \in Int /\ wg \in Int
  BY <1>0 DEF GiveBack, EachTypeOK
<1>3. Cardinality(Holding') = Cardinality(Holding) - 1
  <2>1. call[i] \in HoldSteps /\ call'[i] \notin HoldSteps
    BY <1>1 DEF HoldSteps
  <2> QED BY <1>1, <2>1, StepOut, Primed DEF Holding
<1>4. Counted' = Counted
  <2>1. call[i] \in CountSteps /\ call'[i] \in CountSteps
    BY <1>1 DEF CountSteps
  <2> QED BY <1>1, <2>1, StepWithin, Primed DEF Counted
<1>5. EachTypeOK' /\ TodoExact' /\ AllCalled'
  <2>1. sem' \in Int /\ wg' \in Int
    BY <1>2
  <2> QED BY <1>0, <2>1 DEF GiveBack, EachTypeOK, TodoExact, AllCalled, Steps
<1>6. SemExact' /\ WgExact'
  <2>1. Slots' = Slots
    BY DEF Slots
  <2>2. sem' = Cardinality(Holding')
    BY <1>0, <1>2, <1>3 DEF SemExact
  <2>3. sem' <= Slots
    <3>1. sem <= Slots
      BY <1>0 DEF SemExact
    <3> QED BY <1>2, <3>1, SlotsType
  <2>4. WgExact'
    BY <1>0, <1>2, <1>4 DEF WgExact
  <2> QED BY <2>1, <2>2, <2>3, <2>4 DEF SemExact
<1> QED BY <1>5, <1>6 DEF EachInv

LEMMA CountOutKeeps ==
  ASSUME EachInv, NEW i \in Items, CountOut(i)
  PROVE  EachInv'
<1>0. EachTypeOK /\ SemExact /\ WgExact /\ TodoExact /\ AllCalled
  BY DEF EachInv
<1>1. call[i] = "out of its slot" /\ call'[i] = "gone" /\ ButFor(i, call, call')
  BY <1>0 DEF CountOut, EachTypeOK, ButFor
<1>2. wg' = wg - 1 /\ sem' = sem /\ caller' = caller /\ sem \in Int /\ wg \in Int
  BY <1>0 DEF CountOut, EachTypeOK
<1>3. Holding' = Holding
  <2>1. call[i] \notin HoldSteps /\ call'[i] \notin HoldSteps
    BY <1>1 DEF HoldSteps
  <2> QED BY <1>1, <2>1, StepWithin, Primed DEF Holding
<1>4. Cardinality(Counted') = Cardinality(Counted) - 1
  <2>1. call[i] \in CountSteps /\ call'[i] \notin CountSteps
    BY <1>1 DEF CountSteps
  <2> QED BY <1>1, <2>1, StepOut, Primed DEF Counted
<1>5. EachTypeOK' /\ TodoExact' /\ AllCalled'
  <2>1. sem' \in Int /\ wg' \in Int
    BY <1>2
  <2> QED BY <1>0, <2>1 DEF CountOut, EachTypeOK, TodoExact, AllCalled, Steps
<1>6. SemExact' /\ WgExact'
  <2>1. Slots' = Slots /\ Cardinality(Counted) \in Nat
    BY InFinite DEF Slots, Counted
  <2>2. SemExact'
    BY <1>0, <1>2, <1>3, <2>1 DEF SemExact
  <2>3. CASE caller = "waiting for a slot"
    <3>1. wg = Cardinality(Counted) + 1
      BY <1>0, <2>3 DEF WgExact
    <3>2. wg' = Cardinality(Counted') + 1
      BY <1>2, <1>4, <2>1, <3>1
    <3> QED BY <1>2, <2>2, <2>3, <3>2 DEF WgExact
  <2>4. CASE caller # "waiting for a slot"
    <3>1. wg = Cardinality(Counted)
      BY <1>0, <2>4 DEF WgExact
    <3>2. wg' = Cardinality(Counted')
      BY <1>2, <1>4, <2>1, <3>1
    <3> QED BY <1>2, <2>2, <2>4, <3>2 DEF WgExact
  <2> QED BY <2>3, <2>4
<1> QED BY <1>5, <1>6 DEF EachInv

\* No step of Each breaks the invariant.
LEMMA EachStepInv == EachInv /\ [EachNext]_eachVars => EachInv'
<1> SUFFICES ASSUME EachInv, [EachNext]_eachVars PROVE EachInv'
  OBVIOUS
<1>1. CASE UNCHANGED eachVars
  BY <1>1 DEF eachVars, EachInv, EachTypeOK, SemExact, WgExact, TodoExact, AllCalled,
              Holding, Counted, Slots
<1>2. ASSUME NEW i \in Items, CountIn(i) PROVE EachInv'
  BY <1>2, CountInKeeps
<1>3. CASE Start
  BY <1>3, StartKeeps
<1>4. CASE Return
  BY <1>4, ReturnKeeps
<1>5. ASSUME NEW i \in Items, Over(i) PROVE EachInv'
  BY <1>5, OverKeeps
<1>6. ASSUME NEW i \in Items, GiveBack(i) PROVE EachInv'
  BY <1>6, GiveBackKeeps
<1>7. ASSUME NEW i \in Items, CountOut(i) PROVE EachInv'
  BY <1>7, CountOutKeeps
<1> QED BY <1>1, <1>2, <1>3, <1>4, <1>5, <1>6, <1>7 DEF EachNext, Calling, Leaving

\* The calls that run are among those that hold a slot.
LEMMA InvBounded == EachInv => Bounded
<1> SUFFICES ASSUME EachInv PROVE Bounded
  OBVIOUS
<1>1. Running \subseteq Holding /\ Holding \subseteq Items
  BY DEF Running, Holding, In, HoldSteps
<1>2. Cardinality(Running) <= Cardinality(Holding)
  BY <1>1, ItemsAssumption, FS_Subset
<1>3. Cardinality(Running) \in Nat /\ Cardinality(Holding) \in Nat /\ Slots \in Int
  BY <1>1, ItemsAssumption, SlotsType, FS_Subset, FS_CardinalityType
<1> QED BY <1>2, <1>3 DEF EachInv, SemExact, Bounded

\* No call runs beyond the concurrency asked for (parallel.go:6-8).
THEOREM EachBounded == EachSpec => []Bounded
<1>1. EachSpec => []EachInv
  BY EachInitInv, EachStepInv, PTL DEF EachSpec
<1> QED BY <1>1, InvBounded, PTL

\* Each returns when every call is over, and not before (parallel.go:7).
THEOREM EachComplete == EachSpec => []AllCalled
<1>1. EachSpec => []EachInv
  BY EachInitInv, EachStepInv, PTL DEF EachSpec
<1>2. EachInv => AllCalled
  BY DEF EachInv
<1> QED BY <1>1, <1>2, PTL

\* Verify checks its packages as Each does: no step of it is anything else to
\* the caller, the slots and the goroutines.
LEMMA VerifyStep == [Next]_vars => [EachNext]_eachVars
<1> SUFFICES ASSUME [Next]_vars PROVE [EachNext]_eachVars
  OBVIOUS
<1>1. CASE UNCHANGED vars
  BY <1>1 DEF vars, eachVars
<1>2. ASSUME NEW i \in Items, Check(i) PROVE [EachNext]_eachVars
  <2>1. CASE Merge(i)
    BY <1>2, <2>1 DEF Merge, EachNext
  <2>2. CASE ~Merge(i)
    BY <1>2, <2>2 DEF Check, NextFile, Stat, Unsummed, HashContent, HashRecorded, Read, ReadEnd, Settle,
                      Inspect, eachVars
  <2> QED BY <2>1, <2>2
<1>3. CASE Calling
  BY <1>3 DEF EachNext
<1>4. ASSUME NEW i \in Items, Leaving(i) PROVE [EachNext]_eachVars
  BY <1>4 DEF EachNext
<1>5. CASE Judge
  BY <1>5 DEF Judge
<1> QED BY <1>1, <1>2, <1>3, <1>4, <1>5 DEF Next

\* Verify never checks more packages at a time than it was told to
\* (verify.go:63-66).
THEOREM VerifyBounded == Spec => []Bounded
<1>1. Init => EachInv
  BY EachInitInv DEF Init
<1>2. EachInv /\ [Next]_vars => EachInv'
  BY EachStepInv, VerifyStep
<1> QED BY <1>1, <1>2, InvBounded, PTL DEF Spec

----------------------------------------------------------------------------
(* One package.                                                            *)

\* The part a signature covers was read.
Checkable(s, whole) == whole \/ s.tag \notin PayloadTags

\* A signature that reading the header settles has that standing for good
\* (pkgcheck.go:65-69).
LEMMA StatusSettled ==
  ASSUME NEW p, NEW keyring, NEW s, Status(p, s, keyring, FALSE) # "unchecked"
  PROVE  Status(p, s, keyring, FALSE) = Status(p, s, keyring, TRUE)
BY DEF Status

\* Reading less finds nothing wrong that reading all does not: a package that
\* verify, reading headers, calls damaged or badly signed is
\* (verify.go:254-257).
THEOREM HeaderUnderstates ==
  ASSUME NEW p, NEW keyring, NEW policy
  PROVE  /\ CheckPackage(p, keyring, policy, FALSE).problems \subseteq
            CheckPackage(p, keyring, policy, TRUE).problems
         /\ CheckPackage(p, keyring, policy, FALSE).bad \subseteq
            CheckPackage(p, keyring, policy, TRUE).bad
<1> DEFINE sigs(whole) == Signatures(p, keyring, policy, whole)
           known(s) == s.tag # "OPENPGP" \/ policy.openpgp
<1>1. CheckPackage(p, keyring, policy, FALSE).problems \subseteq
      CheckPackage(p, keyring, policy, TRUE).problems
  BY DEF CheckPackage, Digests
<1>2. ASSUME NEW s \in BadSignatures(sigs(FALSE)) PROVE s \in BadSignatures(sigs(TRUE))
  <2>1. ~p.broken /\ s \in sigs(FALSE)
    BY <1>2 DEF BadSignatures, Signatures
  <2>2. PICK t \in p.sigs : s = Signature(t, Status(p, t, keyring, FALSE), known(t), policy)
    BY <2>1 DEF Signatures
  <2>3. s.status = Status(p, t, keyring, FALSE)
    BY <2>2 DEF Signature
  <2>4. s.status = "bad" \/ s.rejected
    BY <1>2 DEF BadSignatures
  <2>5. s.rejected => s.status \in Intacts
    BY <2>2 DEF Signature
  <2>6. Status(p, t, keyring, FALSE) # "unchecked"
    BY <2>3, <2>4, <2>5 DEF Intacts
  <2>7. s = Signature(t, Status(p, t, keyring, TRUE), known(t), policy)
    BY <2>2, <2>6, StatusSettled
  <2>8. s \in sigs(TRUE)
    BY <2>1, <2>7 DEF Signatures
  <2> QED BY <1>2, <2>8 DEF BadSignatures
<1>3. /\ CheckPackage(p, keyring, policy, FALSE).bad = BadSignatures(sigs(FALSE))
      /\ CheckPackage(p, keyring, policy, TRUE).bad = BadSignatures(sigs(TRUE))
  BY DEF CheckPackage
<1> QED BY <1>1, <1>2, <1>3

\* No size of a key is below no bound.
LEMMA NoneShorter == \A n \in Nat : ~(n < 0)
OBVIOUS

\* No release accepts a signature that rpm in general would not: aiming verify
\* at a release can only turn signed packages into unsigned ones
\* (policy.go:36-43).
THEOREM ReleasesRestrict ==
  ASSUME NEW s, NEW status, NEW readable \in BOOLEAN,
         NEW target \in {"", "rhel8", "rhel9", "rhel10"}, s.bits \in Nat,
         Counts(Signature(s, status, readable, PolicyFor(target)))
  PROVE  Counts(Signature(s, status, TRUE, AnyRelease))
<1>1. ~Rejects(PolicyFor(target), s, status) /\ status \in Intacts
  BY DEF Counts, Signature
<1>2. s.hash # "MD5"
  BY <1>1 DEF Rejects
<1>3. ~Rejects(AnyRelease, s, status)
  <2>1. AnyRelease.sha1 /\ AnyRelease.dsa
    BY Zenon DEF AnyRelease
  <2>2. AnyRelease.bits = 0
    BY DEF AnyRelease
  <2>3. \A n \in Nat : ~(n < 0)
    BY NoneShorter
  <2>4. ~(s.bits < AnyRelease.bits)
    BY <2>2, <2>3, Zenon
  <2> QED BY <1>2, <2>1, <2>4, Zenon DEF Rejects
<1> QED BY <1>1, <1>3 DEF Counts, Signature

----------------------------------------------------------------------------
(* The bar.                                                                *)

StepsOfCheck == {"next", "stat", "unsummed", "hash", "recorded", "read", "downloaded", "settle", "inspect"}

\* A file is come to once, and is one of the entry's.
WorkTyped ==
  /\ left \in [Items -> SUBSET AllFiles] /\ file \in [Items -> AllFiles \cup {Absent}]
  /\ at \in [Items -> StepsOfCheck]
  /\ \A i \in Items : /\ left[i] \subseteq job.files[i]
                      /\ at[i] # "next" => file[i] \in job.files[i] \ left[i]

JobGiven == \E c \in Cases : stored = c.stored /\ job = c.job

IsBar(b) == /\ DOMAIN b = DOMAIN Closed /\ b = [part \in DOMAIN b |-> b[part]]
            /\ b.begun \in BOOLEAN
            /\ b.totalItems \in Int /\ b.doneItems \in Int

BarInv == JobGiven /\ WorkTyped /\ IsBar(bar) /\ BarTrue

LEMMA OwnedFinite ==
  ASSUME JobGiven
  PROVE  IsFiniteSet(Owned) /\ \A i \in Items : job.files[i] \subseteq AllFiles
<1>1. PICK c \in Cases : stored = c.stored /\ job = c.job
  BY DEF JobGiven
<1>2. \A i \in Items : IsFiniteSet(job.files[i])
  BY <1>1, CasesAssumption
<1> DEFINE sets == {job.files[i] : i \in Items}
           g    == [i \in Items |-> job.files[i]]
<1>3. g \in Surjection(Items, sets)
  BY DEF Surjection
<1>4. IsFiniteSet(sets)
  BY <1>3, ItemsAssumption, FS_Surjection
<1>5. IsFiniteSet(AllFiles)
  BY <1>2, <1>4, FS_UNION DEF AllFiles
<1>6. IsFiniteSet(Items \X AllFiles)
  BY <1>5, ItemsAssumption, FS_Product
<1>7. IsFiniteSet(Owned)
  BY <1>6, FS_Subset DEF Owned
<1> QED BY <1>7 DEF AllFiles

LEMMA MaxOfTwo ==
  ASSUME NEW m \in Int, NEW n \in Int
  PROVE  Max({m, n}) = IF m >= n THEN m ELSE n
<1> DEFINE max == IF m >= n THEN m ELSE n
<1>1. max \in {m, n} /\ \A k \in {m, n} : max >= k
  OBVIOUS
<1>2. \A o \in {m, n} : (\A k \in {m, n} : o >= k) => o = max
  OBVIOUS
<1> HIDE DEF max
<1>3. Max({m, n}) = max
  BY <1>1, <1>2 DEF Max
<1> QED BY <1>3 DEF max

\* No file is owned but by the job, which no step changes.
LEMMA SameJob == ASSUME UNCHANGED <<stored, job>> PROVE AllFiles' = AllFiles /\ Owned' = Owned /\ (JobGiven => JobGiven')
BY DEF AllFiles, Owned, JobGiven

\* Between being come to and being settled, a file is unsettled.
Pending == StepsOfCheck \ {"next", "downloaded", "inspect"}

LEMMA PendingIs ==
  ASSUME WorkTyped
  PROVE  /\ Unsettled \subseteq Owned
         /\ \A p \in Owned : p \in Unsettled <=> p[2] \in left[p[1]] \/ (p[2] = file[p[1]] /\ at[p[1]] \in Pending)
<1>1. \A p \in Owned : p[1] \in Items /\ at[p[1]] \in StepsOfCheck
  BY DEF Owned, WorkTyped
<1>2. \A p \in Owned : at[p[1]] \in Pending <=> at[p[1]] \notin {"next", "downloaded", "inspect"}
  BY <1>1 DEF Pending
<1> QED BY <1>2 DEF Unsettled

\* A step of i's check that neither settles its file nor comes to another.
Midway(i, step) ==
  /\ UNCHANGED <<stored, job, left, file>>
  /\ Goto(i, step)
  /\ step \in StepsOfCheck \ {"next"}
  /\ at[i] # "next"

LEMMA MidwayWork ==
  ASSUME WorkTyped, NEW i \in Items, NEW step, Midway(i, step)
  PROVE  WorkTyped'
BY SameJob DEF WorkTyped, Midway, Goto

LEMMA MidwayPending ==
  ASSUME WorkTyped, NEW i \in Items, NEW step, Midway(i, step), at[i] \in Pending <=> step \in Pending
  PROVE  Unsettled' = Unsettled
<1>1. WorkTyped'
  BY MidwayWork
<1>2. Owned' = Owned
  BY SameJob DEF Midway
<1>3. \A p \in Owned : at'[p[1]] \in Pending <=> at[p[1]] \in Pending
  BY DEF Midway, Goto, Owned, WorkTyped
<1>4. \A p \in Owned : at[p[1]] \in StepsOfCheck /\ at'[p[1]] \in StepsOfCheck
  BY <1>1 DEF WorkTyped, Owned
<1>5. /\ Unsettled' \subseteq Owned
      /\ \A p \in Owned : p \in Unsettled' <=> p[2] \in left[p[1]] \/ (p[2] = file[p[1]] /\ at'[p[1]] \in Pending)
  BY <1>2, <1>4 DEF Unsettled, Pending, Midway
<1>6. /\ Unsettled \subseteq Owned
      /\ \A p \in Owned : p \in Unsettled <=> p[2] \in left[p[1]] \/ (p[2] = file[p[1]] /\ at[p[1]] \in Pending)
  BY PendingIs
<1> QED BY <1>3, <1>5, <1>6

LEMMA MidwaySettles ==
  ASSUME WorkTyped, NEW i \in Items, NEW step, Goto(i, step), UNCHANGED <<stored, job, left, file>>,
         at[i] \in Pending, step \in StepsOfCheck \ Pending
  PROVE  /\ <<i, file[i]>> \in Unsettled
         /\ Unsettled' = Unsettled \ {<<i, file[i]>>}
<1>1. file[i] \in job.files[i] \ left[i] /\ at[i] # "next" /\ job.files[i] \subseteq AllFiles
  BY DEF WorkTyped, Pending, AllFiles
<1>2. <<i, file[i]>> \in Unsettled
  BY <1>1, PendingIs DEF Owned
<1>3. Owned' = Owned
  BY SameJob
<1>4. at' = [at EXCEPT ![i] = step] /\ at \in [Items -> StepsOfCheck]
  BY DEF Goto, WorkTyped
<1>5. \A p \in Owned : at'[p[1]] \in StepsOfCheck
  BY <1>4 DEF Owned
<1>5a. \A p \in Owned : p \in Unsettled' <=> p[2] \in left[p[1]] \/ (p[2] = file[p[1]] /\ at'[p[1]] \in Pending)
  BY <1>3, <1>5 DEF Unsettled, Pending
<1>5b. \A p \in Owned : p \in Unsettled <=> p[2] \in left[p[1]] \/ (p[2] = file[p[1]] /\ at[p[1]] \in Pending)
  BY PendingIs
<1>6. \A p \in Owned : p \in Unsettled' <=> p \in Unsettled /\ p # <<i, file[i]>>
  <2> SUFFICES ASSUME NEW p \in Owned PROVE p \in Unsettled' <=> p \in Unsettled /\ p # <<i, file[i]>>
    OBVIOUS
  <2>1. p = <<p[1], p[2]>> /\ p[1] \in Items
    BY DEF Owned
  <2>2. CASE p[1] = i
    BY <1>1, <1>4, <1>5a, <1>5b, <2>1, <2>2
  <2>3. CASE p[1] # i
    <3>1. at'[p[1]] = at[p[1]] /\ p # <<i, file[i]>>
      BY <1>4, <2>1, <2>3
    <3> QED BY <1>5a, <1>5b, <3>1
  <2> QED BY <2>2, <2>3
<1>7. Unsettled' \subseteq Owned /\ Unsettled \subseteq Owned
  BY <1>3 DEF Unsettled
<1> QED BY <1>2, <1>6, <1>7

LEMMA NextFileWork ==
  ASSUME WorkTyped, NEW i \in Items, NextFile(i)
  PROVE  WorkTyped' /\ Unsettled' = Unsettled
<1>0. UNCHANGED <<stored, job>>
  BY DEF NextFile
<1>1. PICK f \in left[i] : file' = [file EXCEPT ![i] = f] /\ left' = [left EXCEPT ![i] = @ \ {f}]
  BY DEF NextFile
<1>2. at[i] = "next" /\ at' = [at EXCEPT ![i] = "stat"]
  BY DEF NextFile, At, Goto
<1>3. AllFiles' = AllFiles /\ Owned' = Owned
  BY <1>0, SameJob
<1>4. left[i] \subseteq job.files[i] /\ job.files[i] \subseteq AllFiles
  BY DEF WorkTyped, AllFiles
<1>5. WorkTyped'
  BY <1>0, <1>1, <1>2, <1>3, <1>4 DEF WorkTyped, StepsOfCheck
<1>6. Pending' = Pending /\ "stat" \in Pending /\ "next" \notin Pending
  BY DEF Pending, StepsOfCheck
<1>7. \A p \in Owned : p \in Unsettled' <=> p[2] \in left'[p[1]] \/ (p[2] = file'[p[1]] /\ at'[p[1]] \in Pending)
  <2>1. \A p \in Owned : at'[p[1]] \in StepsOfCheck
    BY <1>5 DEF WorkTyped, Owned
  <2> QED BY <1>3, <2>1 DEF Unsettled, Pending
<1>8. \A p \in Owned : p \in Unsettled' <=> p \in Unsettled
  <2> SUFFICES ASSUME NEW p \in Owned PROVE p \in Unsettled' <=> p \in Unsettled
    OBVIOUS
  <2>1. p[1] \in Items /\ p[2] \in AllFiles
    BY DEF Owned
  <2>2. p \in Unsettled <=> p[2] \in left[p[1]] \/ (p[2] = file[p[1]] /\ at[p[1]] \in Pending)
    BY PendingIs
  <2>3. CASE p[1] = i
    <3>1. left'[i] = left[i] \ {f} /\ file'[i] = f /\ at'[i] = "stat"
      BY <1>1, <1>2 DEF WorkTyped
    <3> QED BY <1>1, <1>2, <1>6, <1>7, <2>2, <2>3, <3>1
  <2>4. CASE p[1] # i
    <3>1. left'[p[1]] = left[p[1]] /\ file'[p[1]] = file[p[1]] /\ at'[p[1]] = at[p[1]]
      BY <1>1, <1>2, <2>1, <2>4 DEF WorkTyped
    <3> QED BY <1>7, <2>2, <3>1
  <2> QED BY <2>3, <2>4
<1>9. Unsettled' \subseteq Owned /\ Unsettled \subseteq Owned
  BY <1>3 DEF Unsettled
<1> QED BY <1>5, <1>8, <1>9

\* What each of the Tracker's methods does to the count.
Remaining(b) == b.totalItems - b.doneItems

LEMMA AddedCounts ==
  ASSUME NEW b, IsBar(b), NEW n
  PROVE  IsBar(Added(b, n)) /\ Added(b, n).begun = b.begun /\ Remaining(Added(b, n)) = Remaining(b)
BY DEF IsBar, Added, Remaining, Closed

LEMMA ItemDoneCounts ==
  ASSUME NEW b, IsBar(b)
  PROVE  /\ IsBar(ItemDone(b)) /\ ItemDone(b).begun = b.begun
         /\ b.begun => Remaining(ItemDone(b)) = Remaining(b) - 1
BY DEF IsBar, ItemDone, Remaining, Closed

\* Skip takes one off, unless there is none left to take.
LEMMA SkippedCounts ==
  ASSUME NEW b, IsBar(b), NEW n
  PROVE  /\ IsBar(Skipped(b, n)) /\ Skipped(b, n).begun = b.begun
         /\ b.begun /\ Remaining(b) >= 1 => Remaining(Skipped(b, n)) = Remaining(b) - 1
<1> DEFINE bytes == Max({b.totalBytes - n, b.doneBytes})
           items == Max({b.totalItems - 1, b.doneItems})
<1>1. items = IF b.totalItems - 1 >= b.doneItems THEN b.totalItems - 1 ELSE b.doneItems
  BY MaxOfTwo DEF IsBar
<1>2. items \in Int
  BY <1>1 DEF IsBar
<1>3. b.begun => Skipped(b, n) = [b EXCEPT !.totalItems = items, !.totalBytes = bytes]
  BY DEF Skipped
<1>4. ~b.begun => Skipped(b, n) = b
  BY DEF Skipped
<1> HIDE DEF items, bytes
<1>5. CASE b.begun
  <2>1. /\ Skipped(b, n).totalItems = items /\ Skipped(b, n).doneItems = b.doneItems
        /\ Skipped(b, n).begun = b.begun
        /\ DOMAIN Skipped(b, n) = DOMAIN b
        /\ IsBar(Skipped(b, n))
    BY <1>2, <1>3, <1>5 DEF IsBar, Closed
  <2> QED BY <1>1, <2>1 DEF Remaining, IsBar
<1>6. CASE ~b.begun
  BY <1>4, <1>6
<1> QED BY <1>5, <1>6 DEF IsBar

LEMMA BarStands ==
  ASSUME BarInv, UNCHANGED <<stored, job>>, WorkTyped', Unsettled' = Unsettled,
         IsBar(bar'), bar'.begun = bar.begun, Remaining(bar') = Remaining(bar)
  PROVE  BarInv'
<1>1. JobGiven'
  BY SameJob DEF BarInv
<1>2. IsBar(bar)'
  BY DEF IsBar, Closed
<1> QED BY <1>1, <1>2 DEF BarInv, BarTrue, Remaining

LEMMA BarMoves ==
  ASSUME BarInv, NEW i \in Items, NEW step, Goto(i, step), UNCHANGED <<stored, job, left, file>>,
         at[i] \in Pending, step \in StepsOfCheck \ Pending, step = "next" \/ Midway(i, step),
         IsBar(bar'), bar'.begun = bar.begun, bar.begun /\ Remaining(bar) >= 1 => Remaining(bar') = Remaining(bar) - 1
  PROVE  BarInv'
<1>0. WorkTyped /\ JobGiven /\ BarTrue /\ IsBar(bar)
  BY DEF BarInv
<1>1. /\ <<i, file[i]>> \in Unsettled
      /\ Unsettled' = Unsettled \ {<<i, file[i]>>}
  BY <1>0, MidwaySettles
<1>2. IsFiniteSet(Unsettled)
  BY <1>0, OwnedFinite, FS_Subset DEF Unsettled
<1>3. Cardinality(Unsettled') = Cardinality(Unsettled) - 1
  BY <1>1, <1>2, FS_RemoveElement
<1>4. Cardinality(Unsettled) \in Nat /\ Cardinality(Unsettled) # 0
  BY <1>1, <1>2, FS_CardinalityType, FS_EmptySet
<1>5. JobGiven'
  BY <1>0, SameJob
<1>6. WorkTyped'
  <2>1. CASE Midway(i, step)
    BY <1>0, <2>1, MidwayWork
  <2>2. CASE step = "next"
    BY <1>0, <2>2, SameJob DEF WorkTyped, Goto, StepsOfCheck
  <2> QED BY <2>1, <2>2
<1>7. IsBar(bar)'
  BY DEF IsBar, Closed
<1>8. BarTrue'
  <2>1. bar.begun => Remaining(bar) = Cardinality(Unsettled)
    BY <1>0 DEF BarTrue, Remaining
  <2>2. bar'.begun => Remaining(bar') = Cardinality(Unsettled')
    BY <1>3, <1>4, <2>1
  <2> QED BY <2>2 DEF BarTrue, Remaining
<1> QED BY <1>5, <1>6, <1>7, <1>8 DEF BarInv

\* A check counts each of its files off once, when it is read or when it is
\* settled without.
LEMMA CheckBar ==
  ASSUME BarInv, NEW i \in Items, Check(i)
  PROVE  BarInv'
<1>0. WorkTyped /\ JobGiven /\ IsBar(bar)
  BY DEF BarInv
<1>a. "stat" \in Pending /\ "unsummed" \in Pending /\ "hash" \in Pending /\ "recorded" \in Pending
      /\ "read" \in Pending /\ "settle" \in Pending /\ Pending \subseteq StepsOfCheck
      /\ "next" \notin Pending /\ "downloaded" \notin Pending /\ "inspect" \notin Pending
  BY DEF Pending, StepsOfCheck
<1>b. {"next", "downloaded", "inspect"} \subseteq StepsOfCheck
  BY DEF StepsOfCheck
<1>1. CASE NextFile(i)
  BY <1>0, <1>1, NextFileWork, BarStands DEF NextFile
<1>2. ASSUME NEW step \in Pending, Goto(i, step), at[i] \in Pending, UNCHANGED <<stored, job, left, file, bar>>
      PROVE  BarInv'
  <2>1. Midway(i, step)
    BY <1>a, <1>2 DEF Midway
  <2>2. WorkTyped' /\ Unsettled' = Unsettled
    BY <1>0, <1>2, <2>1, MidwayWork, MidwayPending
  <2> QED BY <1>0, <1>2, <2>2, BarStands
<1>3. CASE Stat(i)
  BY <1>2, <1>3, <1>a DEF Stat, At
<1>4. CASE Unsummed(i)
  BY <1>2, <1>4, <1>a DEF Unsummed, At
<1>5. CASE HashContent(i)
  BY <1>2, <1>5, <1>a DEF HashContent, At
<1>6. CASE HashRecorded(i)
  BY <1>2, <1>6, <1>a DEF HashRecorded, At
<1>7. CASE Read(i)
  <2>1. bar' = Added(bar, 1) /\ UNCHANGED <<stored, job, left, file, at>>
    BY <1>7 DEF Read
  <2>2. WorkTyped' /\ Unsettled' = Unsettled
    BY <1>0, <2>1, SameJob DEF WorkTyped, Unsettled
  <2> QED BY <1>0, <2>1, <2>2, AddedCounts, BarStands
<1>8. CASE ReadEnd(i)
  <2>1. bar' = ItemDone(bar) /\ Goto(i, "downloaded") /\ UNCHANGED <<stored, job, left, file>> /\ at[i] = "read"
    BY <1>8 DEF ReadEnd, At
  <2>2. Midway(i, "downloaded")
    BY <1>b, <2>1 DEF Midway
  <2> QED BY <1>0, <1>a, <1>b, <2>1, <2>2, ItemDoneCounts, BarMoves
<1>9. CASE Settle(i)
  <2>1. PICK step \in {"inspect", "next"} : Goto(i, step)
    BY <1>9 DEF Settle
  <2>2. bar' = Settled(i) /\ UNCHANGED <<stored, job, left, file>>
    BY <1>9 DEF Settle
  <2>3. step = "next" \/ Midway(i, step)
    BY <1>9, <1>b, <2>1, <2>2 DEF Settle, At, Midway
  <2>4. CASE at[i] = "settle"
    <3>1. bar' = IF job.tool = "rpm" THEN Skipped(bar, Size(file[i])) ELSE ItemDone(bar)
      BY <2>2, <2>4 DEF Settled
    <3>2. /\ IsBar(bar') /\ bar'.begun = bar.begun
          /\ bar.begun /\ Remaining(bar) >= 1 => Remaining(bar') = Remaining(bar) - 1
      BY <1>0, <3>1, SkippedCounts, ItemDoneCounts
    <3> QED BY <1>a, <1>b, <2>1, <2>2, <2>3, <2>4, <3>2, BarMoves
  <2>5. CASE at[i] = "downloaded"
    <3>1. bar' = bar
      BY <2>2, <2>5 DEF Settled
    <3>2. WorkTyped'
      BY <1>0, <1>b, <2>1, <2>2, <2>5, SameJob DEF WorkTyped, Goto
    <3>3. Unsettled' = Unsettled
      <4>1. at'[i] = step /\ \A k \in Items \ {i} : at'[k] = at[k]
        BY <1>0, <2>1 DEF Goto, WorkTyped
      <4>2. \A p \in Owned : at'[p[1]] \in {"next", "downloaded", "inspect"} <=> at[p[1]] \in {"next", "downloaded", "inspect"}
        BY <2>5, <4>1 DEF Owned
      <4> QED BY <2>2, <4>2, SameJob DEF Unsettled
    <3> QED BY <2>2, <3>1, <3>2, <3>3, <1>0, BarStands
  <2> QED BY <1>9, <2>4, <2>5 DEF Settle, At
<1>10. CASE Inspect(i)
  <2>1. Goto(i, "next") /\ at[i] = "inspect" /\ UNCHANGED <<stored, job, left, file, bar>>
    BY <1>10 DEF Inspect, At
  <2>2. WorkTyped'
    BY <1>0, <1>b, <2>1, SameJob DEF WorkTyped, Goto
  <2>3. Unsettled' = Unsettled
    <3>1. at'[i] = "next" /\ \A k \in Items \ {i} : at'[k] = at[k]
      BY <1>0, <2>1 DEF Goto, WorkTyped
    <3>2. \A p \in Owned : at'[p[1]] \in {"next", "downloaded", "inspect"} <=> at[p[1]] \in {"next", "downloaded", "inspect"}
      BY <2>1, <3>1 DEF Owned
    <3> QED BY <2>1, <3>2, SameJob DEF Unsettled
  <2> QED BY <2>1, <2>2, <2>3, <1>0, BarStands
<1>11. CASE Merge(i)
  BY <1>0, <1>11, SameJob, BarStands DEF Merge, work, WorkTyped, Unsettled
<1> QED BY <1>1, <1>3, <1>4, <1>5, <1>6, <1>7, <1>8, <1>9, <1>10, <1>11 DEF Check

LEMMA BarInit == Init => BarInv
<1> SUFFICES ASSUME Init PROVE BarInv
  OBVIOUS
<1>1. PICK c \in Cases : stored = c.stored /\ job = c.job
  BY DEF Init
<1>2. JobGiven
  BY <1>1 DEF JobGiven
<1>3. job.files = [i \in Items |-> job.files[i]]
  BY <1>1, CasesAssumption
<1>4. WorkTyped
  BY <1>2, <1>3, OwnedFinite DEF Init, WorkTyped, StepsOfCheck, AllFiles
<1>5. Unsettled = Owned
  BY <1>2, OwnedFinite DEF Init, Unsettled, Owned
<1>6. IsFiniteSet(Owned) /\ Cardinality(Owned) \in Nat
  BY <1>2, OwnedFinite, FS_CardinalityType
<1>7. PICK bytes : bar = Opened(Cardinality(Owned), bytes) \/ bar = Closed
  BY DEF Init, Begin
<1>8. IsBar(bar) /\ (bar.begun => Remaining(bar) = Cardinality(Owned))
  <2>1. IsBar(Closed) /\ ~Closed.begun
    BY DEF IsBar, Closed
  <2>2. CASE bar = Closed
    BY <2>1, <2>2
  <2>3. CASE bar = Opened(Cardinality(Owned), bytes) /\ bar # Closed
    <3>1. bar = [Closed EXCEPT !.begun = TRUE, !.totalItems = Cardinality(Owned), !.totalBytes = bytes]
      BY <2>3 DEF Opened
    <3>2. /\ bar.totalItems = Cardinality(Owned) /\ bar.doneItems = 0 /\ bar.begun = TRUE
          /\ DOMAIN bar = DOMAIN Closed /\ bar = [part \in DOMAIN bar |-> bar[part]]
      BY <3>1 DEF Closed
    <3>3. Cardinality(Owned) \in Int /\ 0 \in Int /\ TRUE \in BOOLEAN
      BY <1>6
    <3>4. IsBar(bar)
      BY <3>2, <3>3, Zenon DEF IsBar
    <3>5. Remaining(bar) = Cardinality(Owned)
      BY <1>6, <3>2 DEF Remaining
    <3> QED BY <3>4, <3>5
  <2> QED BY <1>7, <2>2, <2>3
<1> QED BY <1>2, <1>4, <1>5, <1>8 DEF BarInv, BarTrue, Remaining

\* The bar has still to count what is still to be checked, so that it is full
\* when verify returns and never before (progress.go:170-173): no file is
\* counted off twice, whether it was skipped, downloaded or failed to be.
THEOREM VerifyBarTrue == Spec => []BarTrue
<1>1. BarInv /\ [Next]_vars => BarInv'
  <2> SUFFICES ASSUME BarInv, [Next]_vars PROVE BarInv'
    OBVIOUS
  <2>1. CASE UNCHANGED <<stored, job, work, bar>>
    BY <2>1, SameJob, BarStands DEF work, BarInv, WorkTyped, Unsettled
  <2>2. ASSUME NEW i \in Items, Check(i) PROVE BarInv'
    BY <2>2, CheckBar
  <2> QED BY <2>1, <2>2 DEF Next, vars, rest, Judge
<1>2. BarInv => BarTrue
  BY DEF BarInv
<1> QED BY BarInit, <1>1, <1>2, PTL DEF Spec

----------------------------------------------------------------------------
(* The report.  What the check of a file has found is known at each of its *)
(* steps; what an entry's verdict holds is what the checks of its files    *)
(* have found; and what the result holds is the verdicts that have joined  *)
(* it.                                                                     *)

Parts == DOMAIN Nothing

SettledSteps == {"settle", "downloaded", "inspect", "next"}

WrongSize(f)     == IF stored[f].size # Size(f) THEN {Problem(f, "size")} ELSE {}
WrongSum(f, sum) == IF sum # "good" THEN {Problem(f, "checksum")} ELSE {}

WrongSumOf(f) == CASE f \in ByContent -> WrongSum(f, stored[f].sum)
                   [] f \in ByRecord  -> WrongSum(f, stored[f].noted)
                   [] OTHER           -> {}

\* What the check of f has found when it is at a step.
Found(f, step) ==
  LET settled(files) == IF step \in SettledSteps THEN {f} \cap files ELSE {} IN
  [Nothing EXCEPT
     !.problems    = CASE stored[f] = Absent /\ step \in SettledSteps -> {Problem(f, "missing")}
                       [] stored[f] = Absent /\ step \notin SettledSteps -> {}
                       [] stored[f] # Absent /\ step = "stat" -> {}
                       [] stored[f] # Absent /\ step \in SettledSteps -> WrongSize(f) \cup WrongSumOf(f)
                       [] OTHER -> WrongSize(f),
     !.verified    = settled({g \in ByContent : stored[g].sum = "good"}),
     !.recorded    = settled({g \in ByRecord : stored[g].noted = "good"}),
     !.unconfirmed = settled(Present \ (ByContent \cup ByRecord))]

Visited(i)   == job.files[i] \ left[i]
StepOf(i, f) == IF f = file[i] THEN at[i] ELSE "next"

\* Entry i's verdict is what the checks of its files have found.
Told(i) == \A part \in Parts : verdict[i][part] = UNION {Found(f, StepOf(i, f))[part] : f \in Visited(i)}

Tellable == AllFiles \cup [file : AllFiles, kind : {"missing", "size", "checksum", "unreadable"}]

VerdictTyped == verdict \in [Items -> [Parts -> SUBSET Tellable]]

\* Why the check of a file is where it is.
Unhashed == job.backend \in {"hashless", "records", "plain"}

StepTrue(i) ==
  /\ at[i] = "unsummed" => stored[file[i]] # Absent /\ file[i] \in NoChecksum
  /\ at[i] \in {"hash", "read", "recorded"} => stored[file[i]] # Absent /\ file[i] \notin NoChecksum
  /\ at[i] = "read" => job.mode = "content" /\ Unhashed
  /\ at[i] = "recorded" => job.mode = "cheap" /\ Unhashed

ResultOf(f, whole) == CheckPackage(stored[f].rpm, TrustedKeys(job.opt), PolicyFor(job.opt.target), whole)

ResultRead(f) == CASE stored[f] = Absent                     -> Absent
                   [] stored[f] # Absent /\ f \in ReadWhole -> ResultOf(f, TRUE)
                   [] OTHER                                  -> ResultOf(f, FALSE)

\* What reading the one file of entry i has found.
InspectTrue(i) == job.contents =>
  /\ Visited(i) = {} => inspected[i] = Absent
  /\ Visited(i) # {} => Visited(i) = {file[i]} /\ left[i] = {}
  /\ at[i] \in Pending => inspected[i] = Absent
  /\ Visited(i) # {} /\ at[i] \in {"settle", "inspect"} /\ stored[file[i]] # Absent =>
       (file[i] \in ReadWhole <=> job.backend = "local")
  /\ at[i] = "downloaded" =>
       stored[file[i]] # Absent /\ file[i] \in ReadWhole /\ inspected[i] = ResultOf(file[i], TRUE)
  /\ at[i] = "inspect" => inspected[i] = Absent
  /\ Visited(i) # {} /\ at[i] = "next" =>
       inspected[i] = ResultRead(file[i])

\* The entries whose verdicts have joined the result.
Merged == {i \in Items : call[i] \notin {"none", "running"}}

Joining(i) == [verdict[i] EXCEPT !.problems = @ \cup ContentProblems(i)]

JoinedIs(part) == UNION {Joining(i)[part] : i \in Merged}

ErrorsTold == errors # 0 => \E i \in Items : \E f \in AllFiles : Problem(f, "unreadable") \in verdict[i].problems

ReportInv ==
  /\ EachInv /\ JobGiven /\ WorkTyped /\ VerdictTyped
  /\ inspected = [i \in Items |-> inspected[i]]
  /\ \A i \in Items : StepTrue(i)
  /\ \A i \in Merged : left[i] = {} /\ at[i] = "next"
  /\ errors \in Nat /\ ended \in {"no", "reported", "failed"}
  /\ errors = 0 => \A i \in Items : Told(i) /\ InspectTrue(i)
  /\ ended # "failed" => ErrorsTold
  /\ ended # "no" => caller = "returned"
  /\ DOMAIN res = Parts
  /\ ended = "no" => \A part \in Parts : res[part] = JoinedIs(part)
  /\ ended = "reported" => \E order \in SetToSeqs(SignerIds(Checked)) :
       \A part \in Parts : res[part] = JoinedIs(part) \cup Judged(order)[part]

PartNames == {"problems", "warnings", "verified", "recorded", "unconfirmed"}

LEMMA PartsAre == Parts = PartNames
BY DEF Parts, Nothing, PartNames

\* What a finding does to the verdicts.
LEMMA FindsSays ==
  ASSUME VerdictTyped, NEW i \in Items, NEW part \in Parts, NEW what \in Tellable, Finds(i, part, what)
  PROVE  /\ verdict' \in [Items -> [Parts -> SUBSET Tellable]]
         /\ verdict'[i][part] = verdict[i][part] \cup {what}
         /\ \A other \in Parts \ {part} : verdict'[i][other] = verdict[i][other]
         /\ \A k \in Items \ {i} : verdict'[k] = verdict[k]
<1>1. verdict \in [Items -> [Parts -> SUBSET Tellable]]
  BY DEF VerdictTyped
<1> DEFINE new == [verdict[i] EXCEPT ![part] = @ \cup {what}]
<1>2. verdict' = [verdict EXCEPT ![i] = new]
  BY <1>1 DEF Finds
<1>3. verdict[i] \in [Parts -> SUBSET Tellable]
  BY <1>1
<1>4. new \in [Parts -> SUBSET Tellable] /\ new[part] = verdict[i][part] \cup {what}
      /\ \A other \in Parts \ {part} : new[other] = verdict[i][other]
  BY <1>3
<1> HIDE DEF new
<1> QED BY <1>1, <1>2, <1>4

\* What the definitions say of the storage and the job stays while they do.
LEMMA FoundSame ==
  ASSUME UNCHANGED <<stored, job>>
  PROVE  /\ \A f, step : Found(f, step)' = Found(f, step)
         /\ ReadWhole' = ReadWhole /\ Present' = Present /\ ByContent' = ByContent /\ ByRecord' = ByRecord
         /\ Unhashed' = Unhashed /\ Tellable' = Tellable
         /\ \A f : ResultRead(f)' = ResultRead(f)
         /\ \A f, whole : ResultOf(f, whole)' = ResultOf(f, whole)
<1>1. /\ ReadWhole' = ReadWhole /\ Present' = Present /\ ByContent' = ByContent /\ ByRecord' = ByRecord
      /\ Unhashed' = Unhashed /\ Tellable' = Tellable
  BY SameJob DEF ReadWhole, Present, Summed, ByContent, ByRecord, Unhashed, Tellable
<1>2. \A f, step : Found(f, step)' = Found(f, step)
  BY <1>1 DEF Found, WrongSize, WrongSumOf, WrongSum, Problem
<1>3. \A f, whole : ResultOf(f, whole)' = ResultOf(f, whole)
  BY DEF ResultOf
<1>4. \A f : ResultRead(f)' = ResultRead(f)
  BY <1>1, <1>3 DEF ResultRead
<1> QED BY <1>1, <1>2, <1>3, <1>4

Untouched(k) == /\ left'[k] = left[k] /\ file'[k] = file[k] /\ at'[k] = at[k]
                /\ verdict'[k] = verdict[k] /\ inspected'[k] = inspected[k]

LEMMA UntouchedKeeps ==
  ASSUME UNCHANGED <<stored, job>>, NEW k \in Items, Untouched(k)
  PROVE  /\ StepTrue(k) => StepTrue(k)'
         /\ Told(k) => Told(k)'
         /\ InspectTrue(k) => InspectTrue(k)'
<1>1. StepTrue(k) => StepTrue(k)'
  BY FoundSame DEF StepTrue, Untouched
<1>2. Visited(k)' = Visited(k) /\ \A f : StepOf(k, f)' = StepOf(k, f)
  BY DEF Visited, StepOf, Untouched
<1>3. Told(k) => Told(k)'
  BY <1>2, FoundSame DEF Told, Untouched
<1>4. InspectTrue(k) => InspectTrue(k)'
  <2>1. /\ ReadWhole' = ReadWhole /\ ResultRead(file[k])' = ResultRead(file[k])
        /\ ResultOf(file[k], TRUE)' = ResultOf(file[k], TRUE)
    BY FoundSame DEF Untouched
  <2>2. /\ stored' = stored /\ job' = job /\ left'[k] = left[k] /\ file'[k] = file[k]
        /\ at'[k] = at[k] /\ inspected'[k] = inspected[k] /\ Visited(k)' = Visited(k) /\ Pending' = Pending
    BY <1>2 DEF Untouched, Pending
  <2> QED BY <2>1, <2>2 DEF InspectTrue
<1> QED BY <1>1, <1>3, <1>4

\* A step of i's check that tells what it has found keeps the verdict true.
LEMMA TellsMore ==
  ASSUME WorkTyped, UNCHANGED <<stored, job, left, file>>, NEW i \in Items, at[i] # "next",
         NEW step, Goto(i, step), Told(i), NEW told,
         \A part \in Parts : /\ verdict'[i][part] = verdict[i][part] \cup told[part]
                             /\ Found(file[i], step)[part] = Found(file[i], at[i])[part] \cup told[part]
  PROVE  Told(i)'
<1>1. file[i] \in Visited(i) /\ Visited(i)' = Visited(i)
  BY DEF WorkTyped, Visited
<1>2. at'[i] = step
  BY DEF Goto, WorkTyped
<1>3. \A f : f # file[i] => StepOf(i, f)' = StepOf(i, f)
  BY DEF StepOf
<1>4. StepOf(i, file[i])' = step /\ StepOf(i, file[i]) = at[i]
  BY <1>2 DEF StepOf
<1> SUFFICES ASSUME NEW part \in Parts
             PROVE  verdict'[i][part] = UNION {Found(f, StepOf(i, f)')[part] : f \in Visited(i)}
  BY <1>1, FoundSame DEF Told
<1>5. verdict[i][part] = UNION {Found(f, StepOf(i, f))[part] : f \in Visited(i)}
  BY DEF Told
<1>6. ASSUME NEW w
      PROVE  w \in verdict'[i][part] <=> \E f \in Visited(i) : w \in Found(f, StepOf(i, f)')[part]
  <2>1. w \in verdict[i][part] <=> \E f \in Visited(i) : w \in Found(f, StepOf(i, f))[part]
    BY <1>5
  <2>2. w \in Found(file[i], step)[part] <=> w \in Found(file[i], at[i])[part] \/ w \in told[part]
    OBVIOUS
  <2> QED BY <1>1, <1>3, <1>4, <2>1, <2>2
<1> QED BY <1>6

ProblemKinds == {"missing", "size", "checksum", "unreadable"}

LEMMA Tells ==
  ASSUME WorkTyped, NEW i \in Items, at[i] # "next"
  PROVE  /\ file[i] \in AllFiles /\ file[i] \in Tellable
         /\ \A kind \in ProblemKinds : Problem(file[i], kind) \in Tellable
<1>1. file[i] \in AllFiles
  BY DEF WorkTyped, AllFiles
<1> QED BY <1>1 DEF Tellable, Problem, ProblemKinds

\* A step of i's check may tell one thing, and an error is told.
TellsOne(i) ==
  /\ verdict' = verdict \/ \E part \in Parts : \E what \in Tellable : Finds(i, part, what)
  /\ errors' = errors \/ (errors' = errors + 1 /\ Fails(i, "unreadable"))
  /\ inspected' = inspected \/ \E result : inspected' = [inspected EXCEPT ![i] = result]

LEMMA CheckTells ==
  ASSUME WorkTyped, NEW i \in Items, Check(i)
  PROVE  TellsOne(i) /\ UNCHANGED <<stored, job, ended>>
<1>a. Parts = PartNames
  BY PartsAre
<1>b. "missing" \in ProblemKinds /\ "size" \in ProblemKinds /\ "checksum" \in ProblemKinds /\ "unreadable" \in ProblemKinds
  BY DEF ProblemKinds
<1>c. ASSUME NEW kind \in ProblemKinds, at[i] # "next", Fails(i, kind)
      PROVE  \E part \in Parts : \E what \in Tellable : Finds(i, part, what)
  BY <1>a, <1>c, Tells DEF Fails, PartNames
<1>d. ASSUME NEW sum, NEW part \in Parts, at[i] # "next", Compared(i, sum, part)
      PROVE  \E p \in Parts : \E what \in Tellable : Finds(i, p, what)
  BY <1>a, <1>b, <1>c, <1>d, Tells DEF Compared
<1>e. "verified" \in Parts /\ "recorded" \in Parts /\ "unconfirmed" \in Parts
  BY <1>a DEF PartNames
<1>1. CASE NextFile(i)
  BY <1>1 DEF NextFile, TellsOne
<1>2. CASE Stat(i)
  <2>1. at[i] # "next" /\ UNCHANGED <<stored, job, ended, inspected>>
    BY <1>2 DEF Stat, At
  <2>2. \/ errors' = errors /\ (verdict' = verdict \/ Fails(i, "missing") \/ Fails(i, "size"))
        \/ errors' = errors + 1 /\ Fails(i, "unreadable")
    BY <1>2 DEF Stat, Error
  <2> QED BY <1>b, <1>c, <2>1, <2>2 DEF TellsOne
<1>3. CASE Unsummed(i)
  BY <1>3, <1>e, Tells DEF Unsummed, At, TellsOne
<1>4. CASE HashContent(i)
  <2>1. at[i] # "next" /\ UNCHANGED <<stored, job, ended, inspected>>
    BY <1>4 DEF HashContent, At
  <2>2. \/ errors' = errors /\ (verdict' = verdict \/ Compared(i, Hash(file[i]), "verified"))
        \/ errors' = errors + 1 /\ Fails(i, "unreadable")
    BY <1>4 DEF HashContent, Error
  <2> QED BY <1>b, <1>c, <1>d, <1>e, <2>1, <2>2 DEF TellsOne
<1>5. CASE HashRecorded(i)
  <2>1. at[i] # "next" /\ UNCHANGED <<stored, job, ended, inspected>>
    BY <1>5 DEF HashRecorded, At
  <2>2. PICK sum : \/ errors' = errors /\ (Finds(i, "unconfirmed", file[i]) \/ Compared(i, sum, "recorded"))
                   \/ errors' = errors + 1 /\ Fails(i, "unreadable")
    BY <1>5 DEF HashRecorded, Error
  <2> QED BY <1>b, <1>c, <1>d, <1>e, <2>1, <2>2, Tells DEF TellsOne
<1>6. CASE Read(i)
  BY <1>6 DEF Read, TellsOne
<1>7. CASE ReadEnd(i)
  <2>1. at[i] # "next" /\ UNCHANGED <<stored, job, ended>>
    BY <1>7 DEF ReadEnd, At
  <2>2. \/ errors' = errors /\ Compared(i, stored[file[i]].sum, "verified")
        \/ errors' = errors + 1 /\ Fails(i, "unreadable")
    BY <1>7 DEF ReadEnd, Error
  <2>3. inspected' = inspected \/ \E result : inspected' = [inspected EXCEPT ![i] = result]
    BY <1>7 DEF ReadEnd, Inspected
  <2> QED BY <1>b, <1>c, <1>d, <1>e, <2>1, <2>2, <2>3 DEF TellsOne
<1>8. CASE Settle(i)
  BY <1>8 DEF Settle, TellsOne
<1>9. CASE Inspect(i)
  <2>1. at[i] # "next" /\ UNCHANGED <<stored, job, ended>>
    BY <1>9 DEF Inspect, At
  <2>2. \/ errors' = errors /\ verdict' = verdict
        \/ errors' = errors + 1 /\ Fails(i, "unreadable")
    BY <1>9 DEF Inspect, Error
  <2>3. inspected' = inspected \/ \E result : inspected' = [inspected EXCEPT ![i] = result]
    BY <1>9 DEF Inspect, Inspected
  <2> QED BY <1>b, <1>c, <2>1, <2>2, <2>3 DEF TellsOne
<1>10. CASE Merge(i)
  BY <1>10 DEF Merge, TellsOne, work
<1> QED BY <1>1, <1>2, <1>3, <1>4, <1>5, <1>6, <1>7, <1>8, <1>9, <1>10 DEF Check

InspectedTyped == inspected = [i \in Items |-> inspected[i]]

\* What was told stays told, every entry but i keeps what it has, and no error
\* goes untold.
LEMMA CheckKeeps ==
  ASSUME WorkTyped, VerdictTyped, InspectedTyped, errors \in Nat, ErrorsTold, NEW i \in Items, Check(i)
  PROVE  /\ VerdictTyped' /\ InspectedTyped' /\ errors' \in Nat /\ ErrorsTold'
         /\ errors' = 0 => errors = 0
         /\ \A k \in Items \ {i} : Untouched(k)
<1>0. TellsOne(i) /\ UNCHANGED <<stored, job, ended>>
  BY CheckTells
<1>1. /\ verdict' \in [Items -> [Parts -> SUBSET Tellable]]
      /\ \A k \in Items : \A part \in Parts : verdict[k][part] \subseteq verdict'[k][part]
      /\ \A k \in Items \ {i} : verdict'[k] = verdict[k]
  <2>1. CASE verdict' = verdict
    BY <2>1 DEF VerdictTyped
  <2>2. ASSUME NEW part \in Parts, NEW what \in Tellable, Finds(i, part, what)
        PROVE  <1>1!1 /\ <1>1!2 /\ <1>1!3
    <3>1. /\ verdict' \in [Items -> [Parts -> SUBSET Tellable]]
          /\ verdict'[i][part] = verdict[i][part] \cup {what}
          /\ \A other \in Parts \ {part} : verdict'[i][other] = verdict[i][other]
          /\ \A k \in Items \ {i} : verdict'[k] = verdict[k]
      BY <2>2, FindsSays
    <3> QED BY <3>1
  <2> QED BY <1>0, <2>1, <2>2 DEF TellsOne
<1>2. VerdictTyped' /\ AllFiles' = AllFiles
  BY <1>0, <1>1, FoundSame, SameJob DEF VerdictTyped, Parts
<1>3. InspectedTyped' /\ \A k \in Items \ {i} : inspected'[k] = inspected[k]
  <2>1. CASE inspected' = inspected
    BY <2>1 DEF InspectedTyped
  <2>2. ASSUME NEW result, inspected' = [inspected EXCEPT ![i] = result]
        PROVE  InspectedTyped' /\ \A k \in Items \ {i} : inspected'[k] = inspected[k]
    BY <2>2 DEF InspectedTyped
  <2> QED BY <1>0, <2>1, <2>2 DEF TellsOne
<1>4. \A k \in Items \ {i} : left'[k] = left[k] /\ file'[k] = file[k] /\ at'[k] = at[k]
  <2>1. left' = left \/ left' = [left EXCEPT ![i] = left'[i]]
    BY DEF Check, NextFile, Stat, Unsummed, HashContent, HashRecorded, Read, ReadEnd, Settle, Inspect, Merge, work, WorkTyped
  <2>2. file' = file \/ file' = [file EXCEPT ![i] = file'[i]]
    BY DEF Check, NextFile, Stat, Unsummed, HashContent, HashRecorded, Read, ReadEnd, Settle, Inspect, Merge, work, WorkTyped
  <2>3. at' = at \/ \E step : at' = [at EXCEPT ![i] = step]
    BY DEF Check, NextFile, Stat, Unsummed, HashContent, HashRecorded, Read, ReadEnd, Settle, Inspect, Merge, work, Goto
  <2> QED BY <2>1, <2>2, <2>3 DEF WorkTyped
<1>5. errors' \in Nat /\ (errors' = 0 => errors = 0)
  BY <1>0 DEF TellsOne
<1>6. ErrorsTold'
  <2>1. "problems" \in Parts
    BY PartsAre DEF PartNames
  <2>2. CASE errors' = errors
    <3>1. ASSUME NEW k \in Items, NEW f \in AllFiles, Problem(f, "unreadable") \in verdict[k].problems
          PROVE  ErrorsTold'
      BY <1>1, <1>2, <2>1, <3>1 DEF ErrorsTold, Problem
    <3> QED BY <2>2, <3>1, <1>2 DEF ErrorsTold
  <2>3. CASE Fails(i, "unreadable") /\ at[i] # "next"
    <3>1. Problem(file[i], "unreadable") \in Tellable /\ file[i] \in AllFiles
      BY <2>3, Tells DEF ProblemKinds
    <3>2. Problem(file[i], "unreadable") \in verdict'[i].problems
      BY <2>1, <2>3, <3>1, FindsSays DEF Fails
    <3> QED BY <1>2, <3>1, <3>2 DEF ErrorsTold, Problem
  <2>4. Fails(i, "unreadable") => at[i] # "next" \/ errors' = errors
    BY DEF Check, NextFile, Stat, Unsummed, HashContent, HashRecorded, Read, ReadEnd, Settle, Inspect, Merge, At
  <2> QED BY <1>0, <2>2, <2>3, <2>4 DEF TellsOne
<1> QED BY <1>2, <1>3, <1>1, <1>4, <1>5, <1>6 DEF Untouched

\* What is known of the job, and of a file it names.
LEMMA JobFacts ==
  ASSUME JobGiven
  PROVE  /\ job.tool \in {"rpm", "apt"} /\ job.mode \in {"content", "cheap"}
         /\ job.backend \in {"local", "ssh", "hashless", "records", "plain"}
         /\ \A f \in AllFiles : stored[f] = Absent \/ (/\ IsFile(stored[f])
                                                       /\ ResultOf(f, TRUE) # Absent
                                                       /\ ResultOf(f, FALSE) # Absent)
         /\ job.contents => \A i \in Items : \E f : job.files[i] = {f}
<1>1. PICK c \in Cases : stored = c.stored /\ job = c.job
  BY DEF JobGiven
<1>2. /\ job.tool \in {"rpm", "apt"} /\ job.mode \in {"content", "cheap"}
      /\ job.backend \in {"local", "ssh", "hashless", "records", "plain"}
  BY <1>1, CasesAssumption
<1>3. ASSUME NEW i \in Items, NEW f \in job.files[i]
      PROVE  stored[f] = Absent \/ (IsFile(stored[f]) /\ ResultOf(f, TRUE) # Absent /\ ResultOf(f, FALSE) # Absent)
  BY <1>1, <1>3, CasesAssumption DEF ResultOf
<1>4. ASSUME job.contents, NEW i \in Items PROVE \E f : job.files[i] = {f}
  <2>1. IsFiniteSet(job.files[i]) /\ Cardinality(job.files[i]) = 1
    BY <1>1, <1>4, CasesAssumption
  <2> QED BY <2>1, FS_Singleton
<1> QED BY <1>2, <1>3, <1>4 DEF AllFiles

\* The backend hashes what it holds, or nothing that counts.
LEMMA HashFacts ==
  ASSUME JobGiven, NEW f \in AllFiles, stored[f] # Absent
  PROVE  /\ HashesContent /\ Hash(f) # "" => job.backend \in {"local", "ssh"} /\ Hash(f) = stored[f].sum
         /\ ~HashesContent \/ Hash(f) = "" => Unhashed
         /\ Unhashed => (IF IsHasher THEN Hash(f) ELSE "") = IF job.backend = "records" THEN stored[f].noted ELSE ""
<1>1. IsFile(stored[f]) /\ job.backend \in {"local", "ssh", "hashless", "records", "plain"}
  BY JobFacts
<1>2. stored[f].sum # ""
  BY <1>1 DEF IsFile
<1>3. CASE job.backend \in {"local", "ssh"}
  BY <1>2, <1>3 DEF HashesContent, Hash, Unhashed
<1>4. CASE job.backend \in {"hashless", "records", "plain"}
  BY <1>4 DEF HashesContent, Hash, Unhashed, IsHasher
<1> QED BY <1>1, <1>3, <1>4

\* Found, part by part.
LEMMA FoundIs ==
  ASSUME NEW f, NEW step
  PROVE  /\ Found(f, step)["warnings"] = {}
         /\ step \notin SettledSteps =>
              /\ Found(f, step)["verified"] = {} /\ Found(f, step)["recorded"] = {}
              /\ Found(f, step)["unconfirmed"] = {}
              /\ stored[f] = Absent => Found(f, step)["problems"] = {}
              /\ stored[f] # Absent => Found(f, step)["problems"] = IF step = "stat" THEN {} ELSE WrongSize(f)
         /\ step \in SettledSteps =>
              /\ Found(f, step)["verified"] = {f} \cap {g \in ByContent : stored[g].sum = "good"}
              /\ Found(f, step)["recorded"] = {f} \cap {g \in ByRecord : stored[g].noted = "good"}
              /\ Found(f, step)["unconfirmed"] = {f} \cap (Present \ (ByContent \cup ByRecord))
              /\ stored[f] = Absent => Found(f, step)["problems"] = {Problem(f, "missing")}
              /\ stored[f] # Absent => Found(f, step)["problems"] = WrongSize(f) \cup WrongSumOf(f)
<1> DEFINE P == CASE stored[f] = Absent /\ step \in SettledSteps -> {Problem(f, "missing")}
                  [] stored[f] = Absent /\ step \notin SettledSteps -> {}
                  [] stored[f] # Absent /\ step = "stat" -> {}
                  [] stored[f] # Absent /\ step \in SettledSteps -> WrongSize(f) \cup WrongSumOf(f)
                  [] OTHER -> WrongSize(f)
           V == IF step \in SettledSteps THEN {f} \cap {g \in ByContent : stored[g].sum = "good"} ELSE {}
           R == IF step \in SettledSteps THEN {f} \cap {g \in ByRecord : stored[g].noted = "good"} ELSE {}
           U == IF step \in SettledSteps THEN {f} \cap (Present \ (ByContent \cup ByRecord)) ELSE {}
<1>1. Found(f, step) = [Nothing EXCEPT !.problems = P, !.verified = V, !.recorded = R, !.unconfirmed = U]
  BY DEF Found
<1> HIDE DEF P, V, R, U
<1>2. /\ Found(f, step)["problems"] = P /\ Found(f, step)["warnings"] = {}
      /\ Found(f, step)["verified"] = V /\ Found(f, step)["recorded"] = R
      /\ Found(f, step)["unconfirmed"] = U
  BY <1>1 DEF Nothing
<1>3. step \in SettledSteps => step # "stat"
  BY DEF SettledSteps
<1> QED BY <1>2, <1>3 DEF P, V, R, U

\* A settled file stays as it is found.
LEMMA FoundSettled ==
  ASSUME NEW f, NEW s \in SettledSteps, NEW t \in SettledSteps, NEW part \in Parts
  PROVE  Found(f, s)[part] = Found(f, t)[part]
<1>1. s # "stat" /\ t # "stat"
  BY DEF SettledSteps
<1>2. Found(f, s) = Found(f, t)
  BY <1>1 DEF Found
<1> QED BY <1>2

LEMMA FoundMidway ==
  ASSUME NEW f, NEW s, NEW t, s \notin SettledSteps, t \notin SettledSteps, s # "stat", t # "stat", NEW part \in Parts
  PROVE  Found(f, s)[part] = Found(f, t)[part]
<1>1. Found(f, s) = Found(f, t)
  BY DEF Found
<1> QED BY <1>1

\* A step that tells nothing.
LEMMA QuietTold ==
  ASSUME WorkTyped, UNCHANGED <<stored, job, left, file>>, NEW i \in Items, at[i] # "next",
         NEW step, Goto(i, step), Told(i), verdict'[i] = verdict[i],
         \A part \in Parts : Found(file[i], step)[part] = Found(file[i], at[i])[part]
  PROVE  Told(i)'
<1> DEFINE told == [part \in Parts |-> {}]
<1>1. \A part \in Parts : told[part] = {}
  OBVIOUS
<1> HIDE DEF told
<1>2. \A part \in Parts : /\ verdict'[i][part] = verdict[i][part] \cup told[part]
                          /\ Found(file[i], step)[part] = Found(file[i], at[i])[part] \cup told[part]
  BY <1>1
<1> QED BY <1>2, TellsMore

\* A step that tells one thing.
LEMMA OneTold ==
  ASSUME WorkTyped, VerdictTyped, UNCHANGED <<stored, job, left, file>>, NEW i \in Items, at[i] # "next",
         NEW step, Goto(i, step), Told(i), NEW one \in Parts, NEW what \in Tellable, Finds(i, one, what),
         Found(file[i], step)[one] = Found(file[i], at[i])[one] \cup {what},
         \A part \in Parts \ {one} : Found(file[i], step)[part] = Found(file[i], at[i])[part]
  PROVE  Told(i)'
<1> DEFINE told == [part \in Parts |-> IF part = one THEN {what} ELSE {}]
<1>1. told[one] = {what} /\ \A part \in Parts \ {one} : told[part] = {}
  OBVIOUS
<1> HIDE DEF told
<1>2. /\ verdict'[i][one] = verdict[i][one] \cup {what}
      /\ \A other \in Parts \ {one} : verdict'[i][other] = verdict[i][other]
  BY FindsSays
<1>3. \A part \in Parts : /\ verdict'[i][part] = verdict[i][part] \cup told[part]
                          /\ Found(file[i], step)[part] = Found(file[i], at[i])[part] \cup told[part]
  BY <1>1, <1>2
<1> QED BY <1>3, TellsMore

\* A checksum is compared with the one that counts.
LEMMA ComparedTold ==
  ASSUME WorkTyped, VerdictTyped, JobGiven, UNCHANGED <<stored, job, left, file>>, NEW i \in Items,
         at[i] \in {"hash", "recorded", "read"}, stored[file[i]] # Absent,
         NEW step \in SettledSteps, Goto(i, step), Told(i), NEW part, NEW sum, Compared(i, sum, part),
         \/ part = "verified" /\ file[i] \in ByContent /\ sum = stored[file[i]].sum
         \/ part = "recorded" /\ file[i] \in ByRecord /\ sum = stored[file[i]].noted
  PROVE  Told(i)'
<1> DEFINE f == file[i]
<1>1. /\ at[i] # "next" /\ at[i] \notin SettledSteps /\ at[i] # "stat"
  BY DEF SettledSteps
<1>2. f \in AllFiles /\ f \in Tellable /\ Problem(f, "checksum") \in Tellable
  BY <1>1, Tells DEF ProblemKinds
<1>3. Parts = {"problems", "warnings", "verified", "recorded", "unconfirmed"}
  BY PartsAre DEF PartNames
<1>4. /\ Found(f, at[i])["warnings"] = {} /\ Found(f, at[i])["verified"] = {} /\ Found(f, at[i])["recorded"] = {}
      /\ Found(f, at[i])["unconfirmed"] = {} /\ Found(f, at[i])["problems"] = WrongSize(f)
  BY <1>1, FoundIs
<1>5. /\ Found(f, step)["warnings"] = {}
      /\ Found(f, step)["verified"] = {f} \cap {g \in ByContent : stored[g].sum = "good"}
      /\ Found(f, step)["recorded"] = {f} \cap {g \in ByRecord : stored[g].noted = "good"}
      /\ Found(f, step)["unconfirmed"] = {f} \cap (Present \ (ByContent \cup ByRecord))
      /\ Found(f, step)["problems"] = WrongSize(f) \cup WrongSumOf(f)
  BY FoundIs
<1>6. f \notin ByContent \/ f \notin ByRecord
  BY DEF ByRecord
<1>7. WrongSumOf(f) = WrongSum(f, sum)
  BY <1>6 DEF WrongSumOf
<1>8. /\ Found(f, step)["unconfirmed"] = {}
      /\ part = "verified" => /\ Found(f, step)["recorded"] = {}
                              /\ Found(f, step)["verified"] = IF sum = "good" THEN {f} ELSE {}
      /\ part = "recorded" => /\ Found(f, step)["verified"] = {}
                              /\ Found(f, step)["recorded"] = IF sum = "good" THEN {f} ELSE {}
  BY <1>5, <1>6
<1> HIDE DEF f
<1>9. CASE sum = "good"
  <2>1. Finds(i, part, f) /\ part \in Parts
    BY <1>3, <1>9 DEF Compared, f
  <2>2. Found(f, step)["problems"] = Found(f, at[i])["problems"]
    BY <1>4, <1>5, <1>7, <1>9 DEF WrongSum
  <2>3. Found(f, step)[part] = Found(f, at[i])[part] \cup {f}
    BY <1>4, <1>8, <1>9
  <2>4. \A p \in Parts \ {part} : Found(f, step)[p] = Found(f, at[i])[p]
    BY <1>3, <1>4, <1>5, <1>8, <2>2
  <2> QED BY <1>1, <1>2, <2>1, <2>3, <2>4, OneTold DEF f
<1>10. CASE sum # "good"
  <2>1. Finds(i, "problems", Problem(f, "checksum")) /\ "problems" \in Parts
    BY <1>3, <1>10 DEF Compared, Fails, f
  <2>2. Found(f, step)["problems"] = Found(f, at[i])["problems"] \cup {Problem(f, "checksum")}
    BY <1>4, <1>5, <1>7, <1>10 DEF WrongSum
  <2>3. \A p \in Parts \ {"problems"} : Found(f, step)[p] = Found(f, at[i])[p]
    BY <1>3, <1>4, <1>5, <1>8, <1>10
  <2> QED BY <1>1, <1>2, <2>1, <2>2, <2>3, OneTold DEF f
<1> QED BY <1>9, <1>10

\* What no checksum can be compared for is told as unconfirmed.
LEMMA UnconfirmedTold ==
  ASSUME WorkTyped, VerdictTyped, JobGiven, UNCHANGED <<stored, job, left, file>>, NEW i \in Items,
         at[i] \in {"unsummed", "recorded"}, stored[file[i]] # Absent,
         Goto(i, "settle"), Told(i), Finds(i, "unconfirmed", file[i]),
         file[i] \notin ByContent, file[i] \notin ByRecord
  PROVE  Told(i)'
<1> DEFINE f == file[i]
<1>1. /\ at[i] # "next" /\ at[i] \notin SettledSteps /\ at[i] # "stat" /\ "settle" \in SettledSteps
  BY DEF SettledSteps
<1>2. f \in AllFiles /\ f \in Tellable /\ f \in Present
  BY <1>1, Tells DEF Present
<1>3. Parts = {"problems", "warnings", "verified", "recorded", "unconfirmed"}
  BY PartsAre DEF PartNames
<1>4. /\ Found(f, at[i])["warnings"] = {} /\ Found(f, at[i])["verified"] = {} /\ Found(f, at[i])["recorded"] = {}
      /\ Found(f, at[i])["unconfirmed"] = {} /\ Found(f, at[i])["problems"] = WrongSize(f)
  BY <1>1, FoundIs
<1>5. /\ Found(f, "settle")["warnings"] = {}
      /\ Found(f, "settle")["verified"] = {} /\ Found(f, "settle")["recorded"] = {}
      /\ Found(f, "settle")["unconfirmed"] = {f}
      /\ Found(f, "settle")["problems"] = WrongSize(f)
  <2>1. /\ Found(f, "settle")["warnings"] = {}
        /\ Found(f, "settle")["verified"] = {f} \cap {g \in ByContent : stored[g].sum = "good"}
        /\ Found(f, "settle")["recorded"] = {f} \cap {g \in ByRecord : stored[g].noted = "good"}
        /\ Found(f, "settle")["unconfirmed"] = {f} \cap (Present \ (ByContent \cup ByRecord))
        /\ Found(f, "settle")["problems"] = WrongSize(f) \cup WrongSumOf(f)
    BY <1>1, FoundIs
  <2>2. WrongSumOf(f) = {}
    BY DEF WrongSumOf
  <2> QED BY <1>2, <2>1, <2>2
<1> HIDE DEF f
<1>6. \A p \in Parts \ {"unconfirmed"} : Found(f, "settle")[p] = Found(f, at[i])[p]
  BY <1>3, <1>4, <1>5
<1> QED BY <1>1, <1>2, <1>3, <1>4, <1>5, <1>6, OneTold DEF f

\* The first thing a check tells is whether the file is there, as large as it
\* should be.
LEMMA StatTold ==
  ASSUME WorkTyped, VerdictTyped, JobGiven, NEW i \in Items, Stat(i), errors' = errors, errors \in Nat, Told(i)
  PROVE  Told(i)'
<1> DEFINE f == file[i]
<1>0. UNCHANGED <<stored, job, left, file>> /\ at[i] = "stat" /\ at[i] # "next" /\ "stat" \notin SettledSteps
  BY DEF Stat, At, SettledSteps
<1>1. f \in AllFiles /\ \A kind \in {"missing", "size"} : Problem(f, kind) \in Tellable
  BY <1>0, Tells DEF ProblemKinds
<1>2. Parts = {"problems", "warnings", "verified", "recorded", "unconfirmed"}
  BY PartsAre DEF PartNames
<1>3. \A part \in Parts : Found(f, "stat")[part] = {}
  BY <1>0, <1>2, FoundIs
<1>4. CASE stored[f] = Absent
  <2>1. Finds(i, "problems", Problem(f, "missing")) /\ Goto(i, "settle")
    BY <1>4 DEF Stat, Error, Fails
  <2>2. f \notin Present /\ f \notin ByContent /\ f \notin ByRecord /\ "settle" \in SettledSteps
    BY <1>4 DEF Present, ByContent, ByRecord, Summed, SettledSteps
  <2>3. /\ Found(f, "settle")["problems"] = {Problem(f, "missing")}
        /\ \A part \in Parts \ {"problems"} : Found(f, "settle")[part] = {}
    BY <1>2, <1>4, <2>2, FoundIs
  <2>4. /\ Found(f, "settle")["problems"] = Found(f, at[i])["problems"] \cup {Problem(f, "missing")}
        /\ \A part \in Parts \ {"problems"} : Found(f, "settle")[part] = Found(f, at[i])[part]
        /\ "problems" \in Parts
    BY <1>0, <1>2, <1>3, <2>3
  <2> QED BY <1>0, <1>1, <2>1, <2>4, OneTold
<1>5. CASE stored[f] # Absent
  <2>1. PICK step \in {"unsummed", "hash"} : Goto(i, step)
    BY <1>5 DEF Stat, Error
  <2>2. IF stored[f].size # Size(f) THEN Fails(i, "size") ELSE UNCHANGED verdict
    BY <1>5 DEF Stat, Error
  <2>3. step \notin SettledSteps /\ step # "stat"
    BY DEF SettledSteps
  <2>4. /\ Found(f, step)["problems"] = WrongSize(f)
        /\ \A part \in Parts \ {"problems"} : Found(f, step)[part] = {}
    BY <1>2, <1>5, <2>3, FoundIs
  <2>5. CASE stored[f].size # Size(f)
    <3>1. Finds(i, "problems", Problem(f, "size")) /\ WrongSize(f) = {Problem(f, "size")}
      BY <2>2, <2>5 DEF Fails, WrongSize
    <3>2. /\ Found(f, step)["problems"] = Found(f, at[i])["problems"] \cup {Problem(f, "size")}
          /\ \A part \in Parts \ {"problems"} : Found(f, step)[part] = Found(f, at[i])[part]
          /\ "problems" \in Parts
      BY <1>0, <1>2, <1>3, <2>4, <3>1
    <3> QED BY <1>0, <1>1, <2>1, <3>1, <3>2, OneTold
  <2>6. CASE stored[f].size = Size(f)
    <3>1. verdict'[i] = verdict[i] /\ WrongSize(f) = {}
      BY <2>2, <2>6 DEF WrongSize
    <3>2. \A part \in Parts : Found(f, step)[part] = Found(f, at[i])[part]
      BY <1>0, <1>2, <1>3, <2>4, <3>1
    <3> QED BY <1>0, <2>1, <3>1, <3>2, QuietTold
  <2> QED BY <2>5, <2>6
<1> QED BY <1>4, <1>5

LEMMA NextFileTold ==
  ASSUME WorkTyped, NEW i \in Items, NextFile(i), Told(i)
  PROVE  Told(i)'
<1>1. PICK f \in left[i] : file' = [file EXCEPT ![i] = f] /\ left' = [left EXCEPT ![i] = @ \ {f}]
  BY DEF NextFile
<1>2. /\ at[i] = "next" /\ at' = [at EXCEPT ![i] = "stat"] /\ verdict' = verdict
      /\ UNCHANGED <<stored, job>>
  BY DEF NextFile, At, Goto
<1>3. file'[i] = f /\ left'[i] = left[i] \ {f} /\ at'[i] = "stat" /\ f \in job.files[i]
  BY <1>1, <1>2 DEF WorkTyped
<1>4. Visited(i)' = Visited(i) \cup {f} /\ f \notin Visited(i)
  BY <1>1, <1>2, <1>3 DEF Visited
<1>5. \A g \in Visited(i) : StepOf(i, g)' = StepOf(i, g)
  BY <1>2, <1>3, <1>4 DEF StepOf
<1>6. StepOf(i, f)' = "stat"
  BY <1>3 DEF StepOf
<1> SUFFICES ASSUME NEW part \in Parts
             PROVE  verdict'[i][part] = UNION {Found(g, StepOf(i, g)')[part] : g \in Visited(i)'}
  BY <1>2, FoundSame DEF Told
<1>7. Found(f, "stat")[part] = {}
  <2>1. part \in PartNames /\ "stat" \notin SettledSteps
    BY PartsAre DEF SettledSteps
  <2> QED BY <2>1, FoundIs DEF PartNames
<1>8. verdict[i][part] = UNION {Found(g, StepOf(i, g))[part] : g \in Visited(i)}
  BY DEF Told
<1>9. ASSUME NEW w
      PROVE  w \in verdict'[i][part] <=> \E g \in Visited(i)' : w \in Found(g, StepOf(i, g)')[part]
  <2>1. w \in verdict[i][part] <=> \E g \in Visited(i) : w \in Found(g, StepOf(i, g))[part]
    BY <1>8
  <2> QED BY <1>2, <1>4, <1>5, <1>6, <1>7, <2>1
<1> QED BY <1>9

\* A check's steps are told truly, as long as no call fails.
LEMMA CheckTold ==
  ASSUME WorkTyped, VerdictTyped, JobGiven, NEW i \in Items, Check(i), StepTrue(i),
         errors' = errors, errors \in Nat, Told(i)
  PROVE  Told(i)'
<1>0. "next" \in SettledSteps /\ "settle" \in SettledSteps /\ "downloaded" \in SettledSteps /\ "inspect" \in SettledSteps
      /\ \A step \in {"stat", "hash", "recorded", "read", "unsummed"} : step \notin SettledSteps
  BY DEF SettledSteps
<1>e. ~Error(i)
  BY DEF Error
<1>1. CASE NextFile(i)
  BY <1>1, NextFileTold
<1>2. CASE Stat(i)
  BY <1>2, StatTold
<1>3. CASE Unsummed(i)
  <2>1. at[i] = "unsummed" /\ UNCHANGED <<stored, job, left, file>> /\ Goto(i, "settle") /\ Finds(i, "unconfirmed", file[i])
    BY <1>3 DEF Unsummed, At
  <2>2. stored[file[i]] # Absent /\ file[i] \notin ByContent /\ file[i] \notin ByRecord
    BY <2>1 DEF StepTrue, ByContent, ByRecord, Summed
  <2> QED BY <2>1, <2>2, UnconfirmedTold
<1>4. CASE HashContent(i)
  <2>1. at[i] = "hash" /\ at[i] # "next" /\ UNCHANGED <<stored, job, left, file>> /\ stored[file[i]] # Absent /\ file[i] \notin NoChecksum
    BY <1>4 DEF HashContent, At, StepTrue
  <2>2. file[i] \in AllFiles
    BY <2>1, Tells
  <2>3. \/ (\E step \in {"read", "recorded"} : Goto(i, step)) /\ verdict' = verdict
        \/ /\ HashesContent /\ Hash(file[i]) # ""
           /\ Compared(i, Hash(file[i]), "verified") /\ Goto(i, "settle")
    BY <1>4, <1>e DEF HashContent
  <2>4. ASSUME NEW step \in {"read", "recorded"}, Goto(i, step), verdict' = verdict
        PROVE  Told(i)'
    <3>1. \A part \in Parts : Found(file[i], step)[part] = Found(file[i], at[i])[part]
      BY <1>0, <2>1, FoundMidway
    <3> QED BY <2>1, <2>4, <3>1, QuietTold
  <2>5. CASE HashesContent /\ Hash(file[i]) # "" /\ Compared(i, Hash(file[i]), "verified") /\ Goto(i, "settle")
    <3>1. job.backend \in {"local", "ssh"} /\ Hash(file[i]) = stored[file[i]].sum
      BY <2>1, <2>2, <2>5, HashFacts
    <3>2. file[i] \in ByContent
      BY <2>1, <2>2, <3>1 DEF ByContent, Summed, Present
    <3> QED BY <1>0, <2>1, <2>5, <3>1, <3>2, ComparedTold
  <2> QED BY <2>3, <2>4, <2>5
<1>5. CASE HashRecorded(i)
  <2>1. at[i] = "recorded" /\ at[i] # "next" /\ UNCHANGED <<stored, job, left, file>> /\ Goto(i, "settle")
        /\ stored[file[i]] # Absent /\ file[i] \notin NoChecksum /\ job.mode = "cheap" /\ Unhashed
    BY <1>5 DEF HashRecorded, At, StepTrue
  <2>2. file[i] \in AllFiles
    BY <2>1, Tells
  <2> DEFINE sum == IF IsHasher THEN Hash(file[i]) ELSE ""
  <2>3. IF sum = "" THEN Finds(i, "unconfirmed", file[i]) ELSE Compared(i, sum, "recorded")
    BY <1>5, <1>e DEF HashRecorded
  <2>4. sum = IF job.backend = "records" THEN stored[file[i]].noted ELSE ""
    BY <2>1, <2>2, HashFacts
  <2> HIDE DEF sum
  <2>5. file[i] \notin ByContent
    BY <2>1 DEF ByContent, Unhashed
  <2>6. CASE sum = ""
    <3>1. file[i] \notin ByRecord
      BY <2>4, <2>6 DEF ByRecord
    <3> QED BY <2>1, <2>3, <2>5, <2>6, <3>1, UnconfirmedTold
  <2>7. CASE sum # ""
    <3>1. job.backend = "records" /\ sum = stored[file[i]].noted
      BY <2>4, <2>7
    <3>2. file[i] \in ByRecord
      BY <2>1, <2>2, <2>5, <2>7, <3>1 DEF ByRecord, Summed, Present
    <3> QED BY <1>0, <2>1, <2>3, <2>7, <3>1, <3>2, ComparedTold
  <2> QED BY <2>6, <2>7
<1>6. CASE Read(i)
  <2>1. Visited(i)' = Visited(i) /\ \A f : StepOf(i, f)' = StepOf(i, f)
    BY <1>6 DEF Read, Visited, StepOf
  <2> QED BY <1>6, <2>1, FoundSame DEF Read, Told
<1>7. CASE ReadEnd(i)
  <2>1. at[i] = "read" /\ at[i] # "next" /\ UNCHANGED <<stored, job, left, file>> /\ Goto(i, "downloaded")
        /\ stored[file[i]] # Absent /\ file[i] \notin NoChecksum /\ job.mode = "content" /\ Unhashed
    BY <1>7 DEF ReadEnd, At, StepTrue
  <2>2. Compared(i, stored[file[i]].sum, "verified")
    BY <1>7, <1>e DEF ReadEnd
  <2>3. file[i] \in ByContent
    BY <2>1, Tells DEF ByContent, Summed, Present
  <2> QED BY <1>0, <2>1, <2>2, <2>3, ComparedTold
<1>8. CASE Settle(i)
  <2>1. PICK step \in {"inspect", "next"} : Goto(i, step)
    BY <1>8 DEF Settle
  <2>2. at[i] \in {"settle", "downloaded"} /\ at[i] # "next" /\ UNCHANGED <<stored, job, left, file>> /\ verdict' = verdict
    BY <1>8 DEF Settle, At
  <2>3. \A part \in Parts : Found(file[i], step)[part] = Found(file[i], at[i])[part]
    BY <1>0, <2>2, FoundSettled
  <2> QED BY <2>1, <2>2, <2>3, QuietTold
<1>9. CASE Inspect(i)
  <2>1. at[i] = "inspect" /\ at[i] # "next" /\ UNCHANGED <<stored, job, left, file>> /\ verdict' = verdict /\ Goto(i, "next")
    BY <1>9 DEF Inspect, At, Error
  <2>2. \A part \in Parts : Found(file[i], "next")[part] = Found(file[i], at[i])[part]
    BY <1>0, <2>1, FoundSettled
  <2> QED BY <2>1, <2>2, QuietTold
<1>10. CASE Merge(i)
  <2>1. Visited(i)' = Visited(i) /\ \A f : StepOf(i, f)' = StepOf(i, f)
    BY <1>10 DEF Merge, work, Visited, StepOf
  <2> QED BY <1>10, <2>1, FoundSame DEF Merge, work, Told
<1> QED BY <1>1, <1>2, <1>3, <1>4, <1>5, <1>6, <1>7, <1>8, <1>9, <1>10 DEF Check

\* A check is where it is for a reason.
LEMMA CheckStep ==
  ASSUME WorkTyped, JobGiven, NEW i \in Items, Check(i), StepTrue(i)
  PROVE  StepTrue(i)'
<1>0. UNCHANGED <<stored, job>> /\ Unhashed' = Unhashed
  BY CheckTells, FoundSame
<1>1. ASSUME NEW step \in {"settle", "downloaded", "inspect", "next", "stat"}, Goto(i, step) PROVE StepTrue(i)'
  BY <1>1 DEF StepTrue, Goto, WorkTyped
<1>2. CASE Stat(i) /\ ~Goto(i, "settle")
  <2>1. /\ stored[file[i]] # Absent /\ file' = file
        /\ Goto(i, IF file[i] \in NoChecksum THEN "unsummed" ELSE "hash")
    BY <1>2 DEF Stat
  <2>2. at'[i] = IF file[i] \in NoChecksum THEN "unsummed" ELSE "hash"
    BY <2>1 DEF Goto, WorkTyped
  <2> QED BY <1>0, <2>1, <2>2 DEF StepTrue
<1>3. CASE HashContent(i) /\ ~Goto(i, "settle")
  <2>1. /\ at[i] = "hash" /\ file' = file
        /\ Goto(i, IF job.mode = "content" THEN "read" ELSE "recorded")
    BY <1>3 DEF HashContent, At
  <2>2. at'[i] = IF job.mode = "content" THEN "read" ELSE "recorded"
    BY <2>1 DEF Goto, WorkTyped
  <2>3. file[i] \in AllFiles /\ stored[file[i]] # Absent /\ file[i] \notin NoChecksum
    BY <1>3, Tells DEF HashContent, At, StepTrue
  <2>4. ~HashesContent \/ Hash(file[i]) = ""
    BY <1>3 DEF HashContent
  <2>5. Unhashed /\ job.mode \in {"content", "cheap"}
    BY <2>3, <2>4, HashFacts, JobFacts
  <2> QED BY <1>0, <2>1, <2>2, <2>3, <2>5 DEF StepTrue
<1>4. CASE at' = at /\ file' = file
  BY <1>0, <1>4 DEF StepTrue
<1> QED BY <1>1, <1>2, <1>3, <1>4 DEF Check, NextFile, Unsummed, HashRecorded, Read, ReadEnd, Settle, Inspect,
                                       Merge, work

\* Reading a package is done once, over as much of it as the backend gives.
LEMMA CheckInspects ==
  ASSUME WorkTyped, WorkTyped', JobGiven, InspectedTyped, NEW i \in Items, Check(i), StepTrue(i),
         errors' = errors, errors \in Nat, InspectTrue(i)
  PROVE  InspectTrue(i)'
<1>0. /\ UNCHANGED <<stored, job>> /\ ReadWhole' = ReadWhole /\ Pending' = Pending
      /\ \A f : ResultRead(f)' = ResultRead(f)
      /\ \A f, whole : ResultOf(f, whole)' = ResultOf(f, whole)
  BY CheckTells, FoundSame DEF Pending
<1>e. ~Error(i)
  BY DEF Error
<1> SUFFICES ASSUME job.contents PROVE InspectTrue(i)'
  BY <1>0 DEF InspectTrue
<1>p. /\ {"stat", "unsummed", "hash", "recorded", "read", "settle"} = Pending
  BY DEF Pending, StepsOfCheck
<1>v. at[i] # "next" => /\ file[i] \in Visited(i) /\ Visited(i) = {file[i]} /\ left[i] = {}
                        /\ file[i] \in AllFiles
  BY Tells DEF WorkTyped, Visited, InspectTrue
<1>1. CASE NextFile(i)
  <2>1. PICK f \in left[i] : file' = [file EXCEPT ![i] = f] /\ left' = [left EXCEPT ![i] = @ \ {f}]
    BY <1>1 DEF NextFile
  <2>2. at[i] = "next" /\ at' = [at EXCEPT ![i] = "stat"] /\ inspected' = inspected
    BY <1>1 DEF NextFile, At, Goto
  <2>3. file'[i] = f /\ left'[i] = left[i] \ {f} /\ at'[i] = "stat" /\ f \in job.files[i]
    BY <2>1, <2>2 DEF WorkTyped
  <2>4. PICK g : job.files[i] = {g}
    BY JobFacts
  <2>5. Visited(i) = {} /\ Visited(i)' = {f} /\ left'[i] = {}
    BY <1>0, <2>1, <2>3, <2>4 DEF Visited, WorkTyped
  <2>6. inspected[i] = Absent
    BY <2>5 DEF InspectTrue
  <2> QED BY <2>2, <2>3, <2>5, <2>6 DEF InspectTrue
<1>2. ASSUME NEW step \in Pending, Goto(i, step), UNCHANGED <<left, file, inspected>>, at[i] \in Pending,
             step = "settle" /\ stored[file[i]] # Absent => (file[i] \in ReadWhole <=> job.backend = "local")
      PROVE  InspectTrue(i)'
  <2>1. at'[i] = step /\ step \notin {"inspect", "downloaded", "next"}
    BY <1>2, <1>p DEF Goto, WorkTyped
  <2>2. at[i] # "next" /\ inspected[i] = Absent
    BY <1>2, <1>p DEF InspectTrue
  <2>3. Visited(i)' = Visited(i)
    BY <1>0, <1>2 DEF Visited
  <2> QED BY <1>0, <1>2, <1>v, <2>1, <2>2, <2>3 DEF InspectTrue
<1>3. CASE Stat(i)
  <2>1. at[i] = "stat" /\ UNCHANGED <<left, file, inspected>>
    BY <1>3 DEF Stat, At
  <2>2. \/ Goto(i, "settle") /\ stored[file[i]] = Absent
        \/ Goto(i, "unsummed") \/ Goto(i, "hash")
    BY <1>3, <1>e DEF Stat
  <2> QED BY <1>2, <1>p, <2>1, <2>2
<1>4. CASE Unsummed(i)
  <2>1. at[i] = "unsummed" /\ UNCHANGED <<left, file, inspected>> /\ Goto(i, "settle")
    BY <1>4 DEF Unsummed, At
  <2>2. file[i] \in ReadWhole <=> job.backend = "local" /\ file[i] \in Present
    BY <2>1 DEF StepTrue, ReadWhole, ByContent, Summed
  <2>3. stored[file[i]] # Absent => (file[i] \in ReadWhole <=> job.backend = "local")
    BY <1>v, <2>1, <2>2 DEF Present
  <2> QED BY <1>2, <1>p, <2>1, <2>3
<1>5. CASE HashContent(i)
  <2>1. at[i] = "hash" /\ UNCHANGED <<left, file, inspected>>
    BY <1>5 DEF HashContent, At
  <2>2. \/ Goto(i, "read") \/ Goto(i, "recorded")
        \/ Goto(i, "settle") /\ HashesContent /\ Hash(file[i]) # ""
    BY <1>5, <1>e DEF HashContent
  <2>3. stored[file[i]] # Absent /\ file[i] \notin NoChecksum /\ file[i] \in AllFiles
    BY <1>v, <2>1 DEF StepTrue
  <2>4. HashesContent /\ Hash(file[i]) # "" => (file[i] \in ReadWhole <=> job.backend = "local")
    BY <2>3, HashFacts DEF ReadWhole, ByContent, Summed, Present
  <2> QED BY <1>2, <1>p, <2>1, <2>2, <2>4
<1>6. CASE HashRecorded(i)
  <2>1. at[i] = "recorded" /\ UNCHANGED <<left, file, inspected>> /\ Goto(i, "settle")
    BY <1>6 DEF HashRecorded, At
  <2>2. job.mode = "cheap" /\ Unhashed
    BY <2>1 DEF StepTrue
  <2>3. file[i] \notin ReadWhole /\ job.backend # "local"
    BY <2>2 DEF ReadWhole, ByContent, Unhashed
  <2> QED BY <1>2, <1>p, <2>1, <2>3
<1>7. CASE Read(i)
  BY <1>0, <1>7 DEF Read, InspectTrue, Visited
<1>8. CASE ReadEnd(i)
  <2>1. at[i] = "read" /\ UNCHANGED <<left, file>> /\ Goto(i, "downloaded") /\ Inspected(i, job.contents, TRUE)
    BY <1>8, <1>e DEF ReadEnd, At
  <2>2. stored[file[i]] # Absent /\ file[i] \notin NoChecksum /\ job.mode = "content" /\ Unhashed
    BY <2>1 DEF StepTrue
  <2>3. file[i] \in ReadWhole
    BY <1>v, <2>1, <2>2 DEF ReadWhole, ByContent, Summed, Present, Unhashed
  <2>4. inspected'[i] = ResultOf(file[i], TRUE)
    BY <2>1 DEF Inspected, InspectedTyped, ResultOf
  <2>5. at'[i] = "downloaded" /\ "downloaded" \notin Pending
    BY <1>p, <2>1 DEF Goto, WorkTyped
  <2>6. Visited(i)' = Visited(i) /\ Visited(i) = {file[i]} /\ left[i] = {}
    BY <1>0, <1>v, <2>1 DEF Visited
  <2> QED BY <1>0, <2>1, <2>2, <2>3, <2>4, <2>5, <2>6 DEF InspectTrue
<1>9. CASE Settle(i)
  <2>1. /\ at[i] \in {"settle", "downloaded"} /\ UNCHANGED <<left, file, inspected>>
        /\ Goto(i, IF inspected[i] = Absent THEN "inspect" ELSE "next")
    BY <1>9 DEF Settle, At
  <2>2. Visited(i)' = Visited(i) /\ Visited(i) = {file[i]} /\ left[i] = {} /\ file[i] \in AllFiles
    BY <1>0, <1>v, <2>1 DEF Visited
  <2>3. CASE at[i] = "settle"
    <3>1. inspected[i] = Absent /\ at'[i] = "inspect" /\ "inspect" \notin Pending
      BY <1>p, <2>1, <2>3 DEF InspectTrue, Goto, WorkTyped
    <3> QED BY <1>0, <2>1, <2>2, <2>3, <3>1 DEF InspectTrue
  <2>4. CASE at[i] = "downloaded"
    <3>1. stored[file[i]] # Absent /\ file[i] \in ReadWhole /\ inspected[i] = ResultOf(file[i], TRUE)
      BY <2>4 DEF InspectTrue
    <3>2. inspected[i] # Absent
      BY <2>2, <3>1, JobFacts
    <3>3. at'[i] = "next" /\ "next" \notin Pending
      BY <1>p, <2>1, <3>2 DEF Goto, WorkTyped
    <3>4. inspected[i] = ResultRead(file[i])
      BY <3>1 DEF ResultRead
    <3> QED BY <1>0, <2>1, <2>2, <3>3, <3>4 DEF InspectTrue
  <2> QED BY <2>1, <2>3, <2>4
<1>10. CASE Inspect(i)
  <2>1. /\ at[i] = "inspect" /\ UNCHANGED <<left, file>> /\ Goto(i, "next")
        /\ Inspected(i, stored[file[i]] # Absent, job.backend = "local")
    BY <1>10, <1>e DEF Inspect, At
  <2>2. Visited(i)' = Visited(i) /\ Visited(i) = {file[i]} /\ left[i] = {} /\ file[i] \in AllFiles
    BY <1>0, <1>v, <2>1 DEF Visited
  <2>3. inspected[i] = Absent /\ (stored[file[i]] # Absent => (file[i] \in ReadWhole <=> job.backend = "local"))
    BY <2>1, <2>2 DEF InspectTrue
  <2>4. inspected'[i] = ResultRead(file[i])
    <3>1. CASE stored[file[i]] = Absent
      BY <2>1, <2>3, <3>1 DEF Inspected, ResultRead
    <3>2. CASE stored[file[i]] # Absent /\ job.backend = "local"
      <4>1. (job.backend = "local") = TRUE
        BY <3>2
      <4>2. Inspected(i, TRUE, TRUE)
        BY <2>1, <3>2, <4>1 DEF Inspected
      <4>3. inspected'[i] = ResultOf(file[i], TRUE)
        BY <4>2 DEF Inspected, InspectedTyped, ResultOf
      <4> QED BY <2>3, <3>2, <4>3 DEF ResultRead
    <3>3. CASE stored[file[i]] # Absent /\ job.backend # "local"
      <4>1. (job.backend = "local") = FALSE
        BY <3>3
      <4>2. Inspected(i, TRUE, FALSE)
        BY <2>1, <3>3, <4>1 DEF Inspected
      <4>3. inspected'[i] = ResultOf(file[i], FALSE)
        BY <4>2 DEF Inspected, InspectedTyped, ResultOf
      <4> QED BY <2>3, <3>3, <4>3 DEF ResultRead
    <3> QED BY <3>1, <3>2, <3>3
  <2>5. at'[i] = "next" /\ "next" \notin Pending
    BY <1>p, <2>1 DEF Goto, WorkTyped
  <2> QED BY <1>0, <2>1, <2>2, <2>4, <2>5 DEF InspectTrue
<1>11. CASE Merge(i)
  BY <1>0, <1>11 DEF Merge, work, InspectTrue, Visited
<1> QED BY <1>1, <1>3, <1>4, <1>5, <1>6, <1>7, <1>8, <1>9, <1>10, <1>11 DEF Check

\* The verdicts that have joined the result are final.
LEMMA JoinedSame ==
  ASSUME VerdictTyped, Merged' = Merged, \A k \in Merged : Untouched(k)
  PROVE  \A part : JoinedIs(part)' = JoinedIs(part)
<1>1. ASSUME NEW k \in Merged PROVE Joining(k)' = Joining(k)
  BY <1>1 DEF Untouched, Joining, ContentProblems, Problem
<1> QED BY <1>1 DEF JoinedIs

LEMMA JudgedSame ==
  ASSUME UNCHANGED <<stored, job, file, inspected>>
  PROVE  Checked' = Checked /\ \A order : Judged(order)' = Judged(order)
<1>1. Checked' = Checked
  BY DEF Checked
<1>2. MetadataProblems' = MetadataProblems /\ MetadataWarnings' = MetadataWarnings
  BY DEF MetadataProblems, MetadataWarnings, MetadataSigs, Problem
<1>3. \A problems : About(problems)' = About(problems)
  BY DEF About, Problem
<1> QED BY <1>1, <1>2, <1>3 DEF Judged, Problem

LEMMA MergeJoins ==
  ASSUME ReportInv, NEW i \in Items, Merge(i), ended = "no"
  PROVE  DOMAIN res' = Parts /\ \A part \in Parts : res'[part] = JoinedIs(part)'
<1>1. call[i] = "running" /\ call' = [call EXCEPT ![i] = "over"] /\ UNCHANGED <<stored, job, work, inspected>>
  BY DEF Merge, Over
<1>2. Merged' = Merged \cup {i} /\ i \notin Merged
  BY <1>1 DEF ReportInv, EachInv, EachTypeOK, Merged
<1>3. \A k \in Items : Joining(k)' = Joining(k)
  BY <1>1 DEF work, Joining, ContentProblems, Problem
<1>4. res' = Joined(res, Joining(i))
  BY DEF Merge, Joining
<1>5. DOMAIN res = Parts /\ \A part \in Parts : res[part] = JoinedIs(part)
  BY DEF ReportInv
<1>6. DOMAIN res' = Parts /\ \A part \in Parts : res'[part] = res[part] \cup Joining(i)[part]
  BY <1>4, <1>5 DEF Joined
<1>7. ASSUME NEW part PROVE JoinedIs(part)' = JoinedIs(part) \cup Joining(i)[part]
  <2>1. JoinedIs(part)' = UNION {Joining(k)'[part] : k \in Merged \cup {i}}
    BY <1>2 DEF JoinedIs
  <2>2. \A k \in Merged \cup {i} : Joining(k)'[part] = Joining(k)[part]
    BY <1>3 DEF Merged
  <2>3. JoinedIs(part)' = UNION {Joining(k)[part] : k \in Merged \cup {i}}
    BY <2>1, <2>2
  <2> QED BY <2>3 DEF JoinedIs
<1> QED BY <1>5, <1>6, <1>7

\* While a call runs, verify has not ended.
LEMMA RunningNotEnded ==
  ASSUME ReportInv, NEW i \in Items, call[i] # "gone"
  PROVE  ended = "no" /\ caller # "returned"
BY DEF ReportInv, EachInv, AllCalled

LEMMA CheckReport ==
  ASSUME ReportInv, NEW i \in Items, Check(i)
  PROVE  ReportInv'
<1>0. /\ EachInv /\ JobGiven /\ WorkTyped /\ VerdictTyped /\ InspectedTyped
      /\ errors \in Nat /\ \A k \in Items : StepTrue(k)
      /\ DOMAIN res = Parts
  BY DEF ReportInv, InspectedTyped
<1>1. call[i] = "running"
  BY DEF Check, At, NextFile, Stat, Unsummed, HashContent, HashRecorded, Read, ReadEnd, Settle, Inspect, Merge
<1>2. ended = "no" /\ caller # "returned" /\ ErrorsTold
  BY <1>1, RunningNotEnded DEF ReportInv
<1>3. TellsOne(i) /\ UNCHANGED <<stored, job, ended>>
  BY <1>0, CheckTells
<1>4. /\ VerdictTyped' /\ InspectedTyped' /\ errors' \in Nat /\ ErrorsTold'
      /\ errors' = 0 => errors = 0
      /\ \A k \in Items \ {i} : Untouched(k)
  BY <1>0, <1>2, CheckKeeps
<1>5. EachInv' /\ JobGiven'
  <2>1. [Next]_vars
    BY DEF Next
  <2> QED BY <1>0, <1>3, <2>1, EachStepInv, VerifyStep, SameJob
<1>6. WorkTyped'
  <2>1. CASE NextFile(i)
    BY <1>0, <2>1, NextFileWork
  <2>2. ASSUME NEW step \in StepsOfCheck \ {"next"}, Goto(i, step), at[i] # "next", UNCHANGED <<left, file>>
        PROVE  WorkTyped'
    <3>1. Midway(i, step)
      BY <1>3, <2>2 DEF Midway
    <3> QED BY <1>0, <3>1, MidwayWork
  <2>3. ASSUME Goto(i, "next"), UNCHANGED <<left, file>> PROVE WorkTyped'
    BY <1>0, <1>3, <2>3, SameJob DEF WorkTyped, Goto, StepsOfCheck
  <2>4. CASE UNCHANGED <<left, file, at>>
    BY <1>0, <1>3, <2>4, SameJob DEF WorkTyped
  <2>5. {"stat", "unsummed", "hash", "recorded", "read", "downloaded", "settle", "inspect"} = StepsOfCheck \ {"next"}
    BY DEF StepsOfCheck
  <2>6. CASE Stat(i) \/ Unsummed(i) \/ HashContent(i) \/ HashRecorded(i) \/ ReadEnd(i)
    <3>1. at[i] # "next" /\ UNCHANGED <<left, file>>
      BY <2>6 DEF Stat, Unsummed, HashContent, HashRecorded, ReadEnd, At
    <3>2. \E step \in {"unsummed", "hash", "recorded", "read", "downloaded", "settle"} : Goto(i, step)
      BY <2>6 DEF Stat, Unsummed, HashContent, HashRecorded, ReadEnd
    <3> QED BY <2>2, <2>5, <3>1, <3>2
  <2>7. CASE Settle(i)
    BY <2>2, <2>3, <2>5, <2>7 DEF Settle, At
  <2>8. CASE Inspect(i)
    BY <2>3, <2>8 DEF Inspect
  <2> QED BY <2>1, <2>4, <2>6, <2>7, <2>8 DEF Check, Read, Merge, work
<1>7. \A k \in Items : StepTrue(k)'
  BY <1>0, <1>3, <1>4, UntouchedKeeps, CheckStep
<1>8. errors' = 0 => \A k \in Items : Told(k)' /\ InspectTrue(k)'
  <2> SUFFICES ASSUME errors' = 0, NEW k \in Items PROVE Told(k)' /\ InspectTrue(k)'
    OBVIOUS
  <2>1. errors = 0 /\ Told(k) /\ InspectTrue(k)
    BY <1>4 DEF ReportInv
  <2>2. CASE k = i
    BY <1>0, <1>6, <2>1, <2>2, CheckTold, CheckInspects
  <2>3. CASE k # i
    BY <1>3, <1>4, <2>1, <2>3, UntouchedKeeps
  <2> QED BY <2>2, <2>3
<1>9. i \notin Merged /\ \A k \in Merged : Untouched(k) /\ left[k] = {} /\ at[k] = "next"
  BY <1>1, <1>4 DEF Merged, ReportInv
<1>10. CASE Merge(i)
  <2>1. Merged' = Merged \cup {i} /\ left[i] = {} /\ at[i] = "next" /\ UNCHANGED <<left, at, ended, caller>>
    BY <1>0, <1>1, <1>10 DEF Merge, Over, Merged, EachInv, EachTypeOK, At, work
  <2>2. \A k \in Merged' : left'[k] = {} /\ at'[k] = "next"
    BY <1>9, <2>1
  <2>3. DOMAIN res' = Parts /\ \A part \in Parts : res'[part] = JoinedIs(part)'
    BY <1>2, <1>10, MergeJoins
  <2> QED BY <1>2, <1>3, <1>4, <1>5, <1>6, <1>7, <1>8, <2>1, <2>2, <2>3, PartsAre DEF ReportInv, InspectedTyped, Parts
<1>11. CASE ~Merge(i)
  <2>1. UNCHANGED <<eachVars, res>>
    BY <1>11 DEF Check, NextFile, Stat, Unsummed, HashContent, HashRecorded, Read, ReadEnd, Settle, Inspect
  <2>2. Merged' = Merged
    BY <2>1 DEF Merged, eachVars
  <2>3. \A part : JoinedIs(part)' = JoinedIs(part)
    BY <1>0, <1>9, <2>2, JoinedSame
  <2>4. \A k \in Merged' : left'[k] = {} /\ at'[k] = "next"
    BY <1>9, <2>2 DEF Untouched
  <2>5. DOMAIN res' = Parts /\ \A part \in Parts : res'[part] = JoinedIs(part)'
    BY <1>0, <1>2, <2>1, <2>3 DEF ReportInv
  <2> QED BY <1>2, <1>3, <1>4, <1>5, <1>6, <1>7, <1>8, <2>1, <2>4, <2>5 DEF ReportInv, InspectedTyped, Parts, eachVars
<1> QED BY <1>10, <1>11

LEMMA ReportStutter ==
  ASSUME ReportInv, UNCHANGED rest, EachInv', Merged' = Merged, ended # "no" => caller' = "returned"
  PROVE  ReportInv'
<1>0. /\ VerdictTyped /\ WorkTyped /\ JobGiven
  BY DEF ReportInv
<1>1. /\ UNCHANGED <<stored, job, file, inspected, left, at, verdict, ended, res, errors>>
      /\ \A k \in Items : Untouched(k)
  BY DEF rest, work, Untouched
<1>2. JobGiven' /\ WorkTyped' /\ VerdictTyped' /\ Parts' = Parts
  BY <1>0, <1>1, SameJob, FoundSame DEF WorkTyped, VerdictTyped, Parts
<1>3. \A k \in Items : StepTrue(k)' /\ (errors' = 0 => Told(k)' /\ InspectTrue(k)')
  BY <1>1, UntouchedKeeps DEF ReportInv
<1>4. \A k \in Merged' : left'[k] = {} /\ at'[k] = "next"
  BY <1>1 DEF ReportInv
<1>5. ErrorsTold => ErrorsTold'
  BY <1>1, SameJob DEF ErrorsTold, Problem
<1>6. \A part : JoinedIs(part)' = JoinedIs(part)
  BY <1>0, <1>1, JoinedSame DEF Merged
<1>7. Checked' = Checked /\ \A order : Judged(order)' = Judged(order)
  BY <1>1, JudgedSame
<1>8. SetToSeqs(SignerIds(Checked))' = SetToSeqs(SignerIds(Checked))
  BY <1>7
<1>9. (errors \in Nat)' /\ (ended \in {"no", "reported", "failed"})' /\ (inspected = [i \in Items |-> inspected[i]])'
  BY <1>1 DEF ReportInv
<1>10. /\ (ended # "failed" => ErrorsTold)'
       /\ (ended # "no" => caller = "returned")'
  BY <1>1, <1>5 DEF ReportInv
<1>11. /\ (DOMAIN res = Parts)'
       /\ (ended = "no" => \A part \in Parts : res[part] = JoinedIs(part))'
  BY <1>1, <1>2, <1>6 DEF ReportInv
<1>12. (ended = "reported" => \E order \in SetToSeqs(SignerIds(Checked)) :
          \A part \in Parts : res[part] = JoinedIs(part) \cup Judged(order)[part])'
  BY <1>1, <1>2, <1>6, <1>7, <1>8 DEF ReportInv
<1> QED BY <1>2, <1>3, <1>4, <1>9, <1>10, <1>11, <1>12 DEF ReportInv

LEMMA JudgeReport ==
  ASSUME ReportInv, Judge
  PROVE  ReportInv'
<1>0. /\ VerdictTyped /\ WorkTyped /\ JobGiven /\ EachInv
  BY DEF ReportInv
<1>1. /\ UNCHANGED <<stored, job, file, inspected, left, at, verdict, caller, call>> /\ UNCHANGED eachVars
      /\ \A k \in Items : Untouched(k)
      /\ caller = "returned" /\ ended = "no" /\ ErrorsTold
  BY DEF Judge, work, Untouched, eachVars, ReportInv
<1>2. JobGiven' /\ WorkTyped' /\ VerdictTyped' /\ Parts' = Parts
  BY <1>0, <1>1, SameJob, FoundSame DEF WorkTyped, VerdictTyped, Parts
<1>3. EachInv'
  BY <1>0, <1>1, EachStepInv
<1>4. errors' \in Nat /\ (errors' = 0 => errors = 0)
  BY DEF Judge, ReportInv
<1>5. \A k \in Items : StepTrue(k)' /\ (errors' = 0 => Told(k)' /\ InspectTrue(k)')
  BY <1>1, <1>4, UntouchedKeeps DEF ReportInv
<1>6. Merged' = Merged
  BY <1>1 DEF Merged
<1>7. \A k \in Merged' : left'[k] = {} /\ at'[k] = "next"
  BY <1>1, <1>6 DEF ReportInv
<1>8. \A part : JoinedIs(part)' = JoinedIs(part)
  BY <1>0, <1>1, <1>6, JoinedSame DEF Merged
<1>9. Checked' = Checked /\ \A order : Judged(order)' = Judged(order)
  BY <1>1, JudgedSame
<1>10. DOMAIN res = Parts /\ \A part \in Parts : res[part] = JoinedIs(part)
  BY <1>1 DEF ReportInv
<1>11. (inspected = [i \in Items |-> inspected[i]])' /\ (ended # "no" => caller = "returned")'
  BY <1>1 DEF ReportInv
<1>12. CASE ended' = "failed" /\ res' = res
  BY <1>2, <1>3, <1>4, <1>5, <1>7, <1>10, <1>11, <1>12 DEF ReportInv
<1>13. ASSUME NEW order \in SetToSeqs(SignerIds(Checked)), res' = Joined(res, Judged(order)),
              ended' = "reported", errors' = errors
       PROVE  ReportInv'
  <2>1. DOMAIN res' = Parts /\ \A part \in Parts : res'[part] = JoinedIs(part)' \cup Judged(order)'[part]
    BY <1>8, <1>9, <1>10, <1>13 DEF Joined
  <2>2. order \in SetToSeqs(SignerIds(Checked))'
    BY <1>9, <1>13
  <2>3. ErrorsTold'
    BY <1>1, <1>13, SameJob DEF ErrorsTold, Problem
  <2>4. (ended = "reported" => \E o \in SetToSeqs(SignerIds(Checked)) :
          \A part \in Parts : res[part] = JoinedIs(part) \cup Judged(o)[part])'
    BY <1>2, <2>1, <2>2
  <2> QED BY <1>2, <1>3, <1>4, <1>5, <1>7, <1>11, <1>13, <2>1, <2>3, <2>4 DEF ReportInv
<1> QED BY <1>12, <1>13 DEF Judge

LEMMA ReportInit == Init => ReportInv
<1> SUFFICES ASSUME Init PROVE ReportInv
  OBVIOUS
<1>1. BarInv /\ EachInv
  BY BarInit, EachInitInv DEF Init
<1>2. JobGiven /\ WorkTyped
  BY <1>1 DEF BarInv
<1>3. VerdictTyped
  BY PartsAre DEF Init, VerdictTyped, Nothing, PartNames
<1>4. Merged = {}
  BY DEF Init, EachInit, Merged
<1>5. \A i \in Items : StepTrue(i)
  BY DEF Init, StepTrue
<1>6. ASSUME NEW i \in Items PROVE Visited(i) = {} /\ Told(i) /\ InspectTrue(i)
  <2>1. Visited(i) = {}
    BY DEF Init, Visited
  <2>2. \A part \in Parts : verdict[i][part] = {}
    BY PartsAre DEF Init, Nothing, PartNames
  <2>3. Told(i)
    BY <2>1, <2>2 DEF Told
  <2>4. InspectTrue(i)
    BY <2>1 DEF Init, InspectTrue, Pending
  <2> QED BY <2>1, <2>3, <2>4
<1>7. DOMAIN res = Parts /\ \A part \in Parts : res[part] = {}
  BY PartsAre DEF Init, Nothing, PartNames
<1>8. \A part \in Parts : res[part] = JoinedIs(part)
  BY <1>4, <1>7 DEF JoinedIs
<1>9. errors = 0 /\ ended = "no" /\ ErrorsTold /\ inspected = [i \in Items |-> inspected[i]]
  BY DEF Init, ErrorsTold
<1> QED BY <1>1, <1>2, <1>3, <1>4, <1>5, <1>6, <1>7, <1>8, <1>9 DEF ReportInv

LEMMA ReportStep == ReportInv /\ [Next]_vars => ReportInv'
<1> SUFFICES ASSUME ReportInv, [Next]_vars PROVE ReportInv'
  OBVIOUS
<1>0. EachInv /\ EachInv'
  BY EachStepInv, VerifyStep DEF ReportInv
<1>1. ASSUME NEW i \in Items, Check(i) PROVE ReportInv'
  BY <1>1, CheckReport
<1>2. CASE Judge
  BY <1>2, JudgeReport
<1>3. CASE UNCHANGED vars
  <2>1. UNCHANGED rest /\ Merged' = Merged /\ caller' = caller
    BY <1>3 DEF vars, rest, eachVars, Merged
  <2>2. ended # "no" => caller' = "returned"
    BY <2>1 DEF ReportInv
  <2> QED BY <1>0, <2>1, <2>2, ReportStutter
<1>4. CASE Calling /\ UNCHANGED rest
  <2>1. caller # "returned" /\ ended = "no"
    BY <1>4 DEF Calling, CountIn, Start, Return, ReportInv
  <2>2. Merged' = Merged
    <3>1. CASE \E i \in Items : CountIn(i)
      BY <3>1 DEF CountIn, Merged
    <3>2. CASE Return
      BY <3>2 DEF Return, Merged
    <3>3. CASE Start
      <4>1. current \in Items /\ call[current] = "none" /\ call' = [call EXCEPT ![current] = "running"]
            /\ call \in [Items -> Steps]
        BY <1>0, <3>3 DEF Start, EachInv, TodoExact, EachTypeOK
      <4> QED BY <4>1 DEF Merged
    <3> QED BY <1>4, <3>1, <3>2, <3>3 DEF Calling
  <2> QED BY <1>0, <1>4, <2>1, <2>2, ReportStutter
<1>5. ASSUME NEW i \in Items, Leaving(i), UNCHANGED rest PROVE ReportInv'
  <2>1. call[i] # "gone"
    BY <1>5 DEF Leaving, GiveBack, CountOut
  <2>2. ended = "no"
    BY <2>1, RunningNotEnded
  <2>3. Merged' = Merged
    BY <1>0, <1>5 DEF Leaving, GiveBack, CountOut, Merged, EachInv, EachTypeOK
  <2> QED BY <1>0, <1>5, <2>2, <2>3, ReportStutter
<1> QED BY <1>1, <1>2, <1>3, <1>4, <1>5 DEF Next

LEMMA SpecReport == Spec => []ReportInv
BY ReportInit, ReportStep, PTL DEF Spec

LateKinds == {"dependency", "unsigned", "unusable", "metadata", "untrusted", "unexpected", "odd"}

LEMMA JudgedKinds ==
  ASSUME NEW order
  PROVE  /\ \A p \in Judged(order)["problems"] : p.kind \in LateKinds
         /\ Judged(order)["verified"] = {} /\ Judged(order)["recorded"] = {} /\ Judged(order)["unconfirmed"] = {}
<1> DEFINE signers == IF job.contents THEN About(SignerProblems(order, Checked, job.opt)) ELSE {}
           late    == {Problem(f, "dependency") : f \in job.unmet} \cup
                      IF job.tool = "apt" THEN {} ELSE MetadataProblems \cup signers
<1>1. /\ Judged(order)["problems"] = late
      /\ Judged(order)["verified"] = {} /\ Judged(order)["recorded"] = {} /\ Judged(order)["unconfirmed"] = {}
  BY DEF Judged, Nothing
<1>2. \A p \in MetadataProblems : p.kind \in LateKinds
  BY DEF MetadataProblems, Problem, LateKinds
<1>3. \A p \in SignerProblems(order, Checked, job.opt) : p.kind \in LateKinds
  BY DEF SignerProblems, Kinds, LateKinds
<1>4. \A p \in signers : p.kind \in LateKinds
  BY <1>3 DEF About, Problem
<1>5. \A p \in {Problem(f, "dependency") : f \in job.unmet} : p.kind \in LateKinds
  BY DEF Problem, LateKinds
<1> HIDE DEF signers
<1> QED BY <1>1, <1>2, <1>4, <1>5

\* When verify has reported, every entry's verdict is in, whole.
LEMMA AllJoined ==
  ASSUME ReportInv, Reported
  PROVE  /\ Merged = Items
         /\ \A i \in Items : left[i] = {} /\ at[i] = "next" /\ Visited(i) = job.files[i]
         /\ \E order \in SetToSeqs(SignerIds(Checked)) :
              \A part \in Parts : res[part] = (UNION {Joining(i)[part] : i \in Items}) \cup Judged(order)[part]
<1>1. caller = "returned" /\ \A i \in Items : call[i] = "gone"
  BY DEF ReportInv, Reported, EachInv, AllCalled
<1>2. Merged = Items
  BY <1>1 DEF Merged
<1>3. \A i \in Items : left[i] = {} /\ at[i] = "next" /\ Visited(i) = job.files[i]
  BY <1>2 DEF ReportInv, Visited
<1>4. PICK order \in SetToSeqs(SignerIds(Checked)) :
        \A part \in Parts : res[part] = JoinedIs(part) \cup Judged(order)[part]
  BY DEF ReportInv, Reported
<1>5. \A part \in Parts : res[part] = (UNION {Joining(i)[part] : i \in Items}) \cup Judged(order)[part]
  <2>1. ASSUME NEW part PROVE JoinedIs(part) = UNION {Joining(i)[part] : i \in Items}
    BY <1>2 DEF JoinedIs
  <2> QED BY <1>4, <2>1
<1> QED BY <1>2, <1>3, <1>5

LEMMA JoiningIs ==
  ASSUME VerdictTyped, NEW i \in Items
  PROVE  /\ Joining(i)["problems"] = verdict[i]["problems"] \cup ContentProblems(i)
         /\ \A part \in Parts \ {"problems"} : Joining(i)[part] = verdict[i][part]
<1>1. verdict[i] \in [Parts -> SUBSET Tellable] /\ "problems" \in Parts
  BY PartsAre DEF VerdictTyped, PartNames
<1> QED BY <1>1 DEF Joining

\* The findings about files, taken together.
LEMMA AllFound ==
  ASSUME ReportInv, Reported, errors = 0, NEW part \in Parts, NEW w
  PROVE  (\E i \in Items : w \in verdict[i][part]) <=> (\E f \in AllFiles : w \in Found(f, "next")[part])
<1>1. ASSUME NEW i \in Items
      PROVE  w \in verdict[i][part] <=> \E f \in job.files[i] : w \in Found(f, "next")[part]
  <2>1. Told(i) /\ Visited(i) = job.files[i] /\ at[i] = "next"
    BY AllJoined DEF ReportInv
  <2>2. \A f : StepOf(i, f) = "next"
    BY <2>1 DEF StepOf
  <2> QED BY <2>1, <2>2 DEF Told
<1> QED BY <1>1 DEF AllFiles

LEMMA CheckedIsExact ==
  ASSUME ReportInv, Reported, errors = 0
  PROVE  /\ res.verified = {f \in ByContent : stored[f].sum = "good"}
         /\ res.recorded = {f \in ByRecord : stored[f].noted = "good"}
         /\ res.unconfirmed = Present \ (ByContent \cup ByRecord)
<1>1. PICK order \in SetToSeqs(SignerIds(Checked)) :
        \A part \in Parts : res[part] = (UNION {Joining(i)[part] : i \in Items}) \cup Judged(order)[part]
  BY AllJoined
<1>2. VerdictTyped
  BY DEF ReportInv
<1>3. "next" \in SettledSteps /\ {"verified", "recorded", "unconfirmed"} \subseteq Parts \ {"problems"}
  BY PartsAre DEF SettledSteps, PartNames
<1>4. ASSUME NEW part \in {"verified", "recorded", "unconfirmed"}, NEW w
      PROVE  w \in res[part] <=> \E f \in AllFiles : w \in Found(f, "next")[part]
  <2>1. Judged(order)[part] = {} /\ part \in Parts
    BY <1>3, JudgedKinds
  <2>2. w \in res[part] <=> \E i \in Items : w \in Joining(i)[part]
    BY <1>1, <2>1
  <2>3. \A i \in Items : Joining(i)[part] = verdict[i][part]
    BY <1>2, <1>3, JoiningIs
  <2> QED BY <2>1, <2>2, <2>3, AllFound
<1>5. \A f : /\ Found(f, "next")["verified"] = {f} \cap {g \in ByContent : stored[g].sum = "good"}
             /\ Found(f, "next")["recorded"] = {f} \cap {g \in ByRecord : stored[g].noted = "good"}
             /\ Found(f, "next")["unconfirmed"] = {f} \cap (Present \ (ByContent \cup ByRecord))
  BY <1>3, FoundIs
<1>6. ByContent \subseteq AllFiles /\ ByRecord \subseteq AllFiles /\ Present \subseteq AllFiles
  BY DEF ByContent, ByRecord, Present, Summed
<1>7. \A w : w \in res["verified"] <=> w \in {g \in ByContent : stored[g].sum = "good"}
  BY <1>4, <1>5, <1>6
<1>8. \A w : w \in res["recorded"] <=> w \in {g \in ByRecord : stored[g].noted = "good"}
  BY <1>4, <1>5, <1>6
<1>9. \A w : w \in res["unconfirmed"] <=> w \in Present \ (ByContent \cup ByRecord)
  BY <1>4, <1>5, <1>6
<1>10. /\ res["verified"] = (UNION {Joining(i)["verified"] : i \in Items}) \cup Judged(order)["verified"]
       /\ res["recorded"] = (UNION {Joining(i)["recorded"] : i \in Items}) \cup Judged(order)["recorded"]
       /\ res["unconfirmed"] = (UNION {Joining(i)["unconfirmed"] : i \in Items}) \cup Judged(order)["unconfirmed"]
  BY <1>1, <1>3
<1> QED BY <1>7, <1>8, <1>9, <1>10

\* The problems that are about what a file is.
LEMMA ProblemsAreFound ==
  ASSUME ReportInv, Reported, errors = 0, NEW p, p.kind \in {"missing", "size", "checksum", "unreadable"}
  PROVE  p \in res.problems <=> \E f \in AllFiles : p \in Found(f, "next")["problems"]
<1>1. PICK order \in SetToSeqs(SignerIds(Checked)) :
        \A part \in Parts : res[part] = (UNION {Joining(i)[part] : i \in Items}) \cup Judged(order)[part]
  BY AllJoined
<1>2. VerdictTyped /\ "problems" \in Parts
  BY PartsAre DEF ReportInv, PartNames
<1>3. p \notin Judged(order)["problems"]
  BY JudgedKinds DEF LateKinds
<1>4. \A i \in Items : p \notin ContentProblems(i)
  BY DEF ContentProblems, Problem
<1>5. p \in res["problems"] <=> \E i \in Items : p \in Joining(i)["problems"]
  <2>1. res["problems"] = (UNION {Joining(i)["problems"] : i \in Items}) \cup Judged(order)["problems"]
    BY <1>1, <1>2
  <2> QED BY <1>3, <2>1
<1>6. p \in res["problems"] <=> \E i \in Items : p \in verdict[i]["problems"]
  BY <1>2, <1>4, <1>5, JoiningIs
<1> QED BY <1>2, <1>6, AllFound

LEMMA FilesOfIs ==
  ASSUME NEW kind, NEW files, \A p : p.kind = kind => (p \in res.problems <=> \E f \in files : p = Problem(f, kind))
  PROVE  FilesOf(kind) = files
<1>1. ASSUME NEW f \in files PROVE f \in FilesOf(kind)
  <2>1. Problem(f, kind) \in res.problems /\ Problem(f, kind).kind = kind /\ Problem(f, kind).file = f
    BY DEF Problem
  <2> QED BY <2>1 DEF FilesOf
<1>2. ASSUME NEW f \in FilesOf(kind) PROVE f \in files
  <2>1. PICK p \in res.problems : p.kind = kind /\ f = p.file
    BY DEF FilesOf
  <2>2. PICK g \in files : p = Problem(g, kind)
    BY <2>1
  <2> QED BY <2>1, <2>2 DEF Problem
<1> QED BY <1>1, <1>2

\* Which problems are found in a file, whatever the order of the checks.
LEMMA ProblemsOfFile ==
  ASSUME JobGiven, NEW f \in AllFiles, NEW p
  PROVE  p \in Found(f, "next")["problems"] <=>
           \/ p = Problem(f, "missing") /\ f \notin Present
           \/ p = Problem(f, "size") /\ f \in Present /\ stored[f].size # Size(f)
           \/ p = Problem(f, "checksum") /\ (\/ f \in ByContent /\ stored[f].sum # "good"
                                             \/ f \in ByRecord /\ stored[f].noted # "good")
<1>1. "next" \in SettledSteps
  BY DEF SettledSteps
<1>2. ByContent \subseteq Present /\ ByRecord \subseteq Present /\ ByContent \cap ByRecord = {}
      /\ \A g \in Present : stored[g] # Absent
  BY DEF ByContent, ByRecord, Summed, Present
<1>3. CASE stored[f] = Absent
  <2>1. Found(f, "next")["problems"] = {Problem(f, "missing")}
    BY <1>1, <1>3, FoundIs
  <2>2. f \notin Present
    BY <1>2, <1>3
  <2>3. f \notin ByContent /\ f \notin ByRecord
    BY <1>2, <2>2
  <2> QED BY <2>1, <2>2, <2>3
<1>4. CASE stored[f] # Absent
  <2>1. Found(f, "next")["problems"] = WrongSize(f) \cup WrongSumOf(f)
    BY <1>1, <1>4, FoundIs
  <2>2. f \in Present
    BY <1>4 DEF Present
  <2>3. p \in WrongSize(f) <=> p = Problem(f, "size") /\ stored[f].size # Size(f)
    BY DEF WrongSize
  <2>4. p \in WrongSumOf(f) <=> /\ p = Problem(f, "checksum")
                                /\ \/ f \in ByContent /\ stored[f].sum # "good"
                                   \/ f \in ByRecord /\ stored[f].noted # "good"
    BY <1>2 DEF WrongSumOf, WrongSum
  <2> QED BY <2>1, <2>2, <2>3, <2>4
<1> QED BY <1>3, <1>4

\* A package that is not what its own digests say is told as far as it was
\* read.
LEMMA DamageIsTold ==
  ASSUME ReportInv, Reported, errors = 0, job.contents
  PROVE  FilesOf("damaged") = {f \in Present : Damaged(stored[f].rpm, f \in ReadWhole)}
<1> DEFINE damaged == {f \in Present : Damaged(stored[f].rpm, f \in ReadWhole)}
<1>0. JobGiven /\ VerdictTyped /\ "problems" \in Parts
  BY PartsAre DEF ReportInv, PartNames
<1>1. PICK order \in SetToSeqs(SignerIds(Checked)) :
        \A part \in Parts : res[part] = (UNION {Joining(i)[part] : i \in Items}) \cup Judged(order)[part]
  BY AllJoined
<1>2. ASSUME NEW i \in Items
      PROVE  job.files[i] = {file[i]} /\ file[i] \in AllFiles /\ inspected[i] = ResultRead(file[i])
  <2>1. InspectTrue(i) /\ Visited(i) = job.files[i] /\ at[i] = "next"
    BY AllJoined DEF ReportInv
  <2>2. PICK g : job.files[i] = {g}
    BY <1>0, JobFacts
  <2>3. Visited(i) # {}
    BY <2>1, <2>2
  <2> QED BY <2>1, <2>3 DEF InspectTrue, AllFiles
<1>3. ASSUME NEW f \in AllFiles PROVE \E i \in Items : file[i] = f
  <2>1. PICK i \in Items : f \in job.files[i]
    BY DEF AllFiles
  <2> QED BY <1>2, <2>1
<1>4. ASSUME NEW f \in AllFiles, NEW whole \in BOOLEAN
      PROVE  ResultOf(f, whole).problems # {} <=> Damaged(stored[f].rpm, whole)
  BY DEF ResultOf, CheckPackage, Digests, Damaged
<1>5. ASSUME NEW i \in Items, NEW p, p.kind = "damaged"
      PROVE  p \in ContentProblems(i) <=> p = Problem(file[i], "damaged") /\ file[i] \in damaged
  <2> DEFINE f == file[i]
  <2>1. f \in AllFiles /\ inspected[i] = ResultRead(f)
    BY <1>2
  <2>2. p \in ContentProblems(i) <=>
          inspected[i] # Absent /\ p = Problem(f, "damaged") /\ inspected[i].problems # {}
    BY <1>5 DEF ContentProblems, Problem
  <2>3. CASE stored[f] = Absent
    BY <2>1, <2>2, <2>3 DEF ResultRead, Present
  <2>4. CASE stored[f] # Absent /\ f \in ReadWhole
    <3>1. inspected[i] = ResultOf(f, TRUE) /\ inspected[i] # Absent /\ f \in Present
      BY <1>0, <2>1, <2>4, JobFacts DEF ResultRead, Present
    <3>2. (f \in ReadWhole) = TRUE
      BY <2>4
    <3>3. f \in damaged <=> Damaged(stored[f].rpm, TRUE)
      BY <3>1, <3>2 DEF Damaged
    <3> HIDE DEF damaged
    <3> QED BY <1>4, <2>1, <2>2, <3>1, <3>3
  <2>5. CASE stored[f] # Absent /\ f \notin ReadWhole
    <3>1. inspected[i] = ResultOf(f, FALSE) /\ inspected[i] # Absent /\ f \in Present
      BY <1>0, <2>1, <2>5, JobFacts DEF ResultRead, Present
    <3>2. (f \in ReadWhole) = FALSE
      BY <2>5
    <3>3. f \in damaged <=> Damaged(stored[f].rpm, FALSE)
      BY <3>1, <3>2 DEF Damaged
    <3> HIDE DEF damaged
    <3> QED BY <1>4, <2>1, <2>2, <3>1, <3>3
  <2> QED BY <2>3, <2>4, <2>5
<1>6. ASSUME NEW p, p.kind = "damaged"
      PROVE  p \in res.problems <=> \E f \in damaged : p = Problem(f, "damaged")
  <2>1. res["problems"] = (UNION {Joining(i)["problems"] : i \in Items}) \cup Judged(order)["problems"]
    BY <1>0, <1>1
  <2>2. p \notin Judged(order)["problems"]
    BY <1>6, JudgedKinds DEF LateKinds
  <2>3. \A i \in Items : p \notin verdict[i]["problems"]
    <3>1. \A f : p \notin Found(f, "next")["problems"] \/ f \notin AllFiles
      BY <1>0, <1>6, ProblemsOfFile DEF Problem
    <3> QED BY <1>0, <3>1, AllFound
  <2>4. p \in res["problems"] <=> \E i \in Items : p \in ContentProblems(i)
    BY <1>0, <2>1, <2>2, <2>3, JoiningIs
  <2>5. damaged \subseteq AllFiles
    BY DEF Present
  <2> HIDE DEF damaged
  <2> QED BY <1>3, <1>5, <1>6, <2>4, <2>5
<1> HIDE DEF damaged
<1>7. FilesOf("damaged") = damaged
  BY <1>6, FilesOfIs
<1> QED BY <1>7 DEF damaged

\* Where no call fails, the report is what the storage holds.
LEMMA ReportIsExact == ReportInv => ReportExact
<1> SUFFICES ASSUME ReportInv, Reported, errors = 0 PROVE ReportExact
  BY DEF ReportExact
<1>0. JobGiven
  BY DEF ReportInv
<1> DEFINE wrong == {f \in ByContent : stored[f].sum # "good"} \cup {f \in ByRecord : stored[f].noted # "good"}
           short == {f \in Present : stored[f].size # Size(f)}
<1>1. ASSUME NEW p, p.kind \in {"missing", "size", "checksum", "unreadable"}
      PROVE  /\ p.kind = "missing" => (p \in res.problems <=> \E f \in AllFiles \ Present : p = Problem(f, "missing"))
             /\ p.kind = "size" => (p \in res.problems <=> \E f \in short : p = Problem(f, "size"))
             /\ p.kind = "checksum" => (p \in res.problems <=> \E f \in wrong : p = Problem(f, "checksum"))
             /\ p.kind = "unreadable" => p \notin res.problems
  <2>1. p \in res.problems <=> \E f \in AllFiles : p \in Found(f, "next")["problems"]
    BY <1>1, ProblemsAreFound
  <2>2. ByContent \subseteq AllFiles /\ ByRecord \subseteq AllFiles /\ Present \subseteq AllFiles
    BY DEF ByContent, ByRecord, Present, Summed
  <2>3. \A f : /\ Problem(f, "missing").kind = "missing" /\ Problem(f, "size").kind = "size"
               /\ Problem(f, "checksum").kind = "checksum"
    BY DEF Problem
  <2>4. CASE p.kind = "missing"
    BY <1>0, <2>1, <2>2, <2>3, <2>4, ProblemsOfFile
  <2>5. CASE p.kind = "size"
    BY <1>0, <2>1, <2>2, <2>3, <2>5, ProblemsOfFile
  <2>6. CASE p.kind = "checksum"
    BY <1>0, <2>1, <2>2, <2>3, <2>6, ProblemsOfFile
  <2>7. CASE p.kind = "unreadable"
    BY <1>0, <2>1, <2>2, <2>3, <2>7, ProblemsOfFile
  <2> QED BY <1>1, <2>4, <2>5, <2>6, <2>7
<1> HIDE DEF wrong, short
<1>2. FilesOf("missing") = AllFiles \ Present
  <2> DEFINE gone == AllFiles \ Present
  <2>1. \A p : p.kind = "missing" => (p \in res.problems <=> \E f \in gone : p = Problem(f, "missing"))
    BY <1>1
  <2> HIDE DEF gone
  <2>2. FilesOf("missing") = gone
    BY <2>1, FilesOfIs
  <2> QED BY <2>2 DEF gone
<1>3. FilesOf("size") = short
  BY <1>1, FilesOfIs
<1>4. FilesOf("checksum") = wrong
  BY <1>1, FilesOfIs
<1>5. FilesOf("unreadable") = {}
  BY <1>1 DEF FilesOf
<1> USE DEF wrong, short
<1> QED BY <1>2, <1>3, <1>4, <1>5, CheckedIsExact, DamageIsTold DEF ReportExact

\* Where no storage call fails, the report of a verify is what the storage
\* holds, whatever order the checks ran in (integrity.go:24-38): every file
\* that is not what the metadata says, as far as it was asked to be told, and
\* no other.
THEOREM VerifyReportExact == Spec => []ReportExact
BY SpecReport, ReportIsExact, PTL

----------------------------------------------------------------------------
(* A clean report.                                                         *)

\* The key that the repository records made it, or a subkey of that.
LEMMA ByRecorded ==
  ASSUME JobGiven, NEW k \in Keys, {k, Primary(k)} \cap Expected(job.opt) # {}
  PROVE  Primary(k) \in job.opt.recorded
<1>1. PICK c \in Cases : stored = c.stored /\ job = c.job
  BY DEF JobGiven
<1>2. \A r \in job.opt.recorded : r \in Keys /\ Primary(r) = r
  BY <1>1, CasesAssumption
<1>3. Primary(k) \in Keys /\ Primary(Primary(k)) = Primary(k)
  BY KeysAssumption
<1> QED BY <1>2, <1>3 DEF Expected

\* The keys a signature has to be by where keys are asked for.
Asked(opt) == IF opt.recorded \subseteq TrustedKeys(opt) /\ opt.recorded # {} THEN opt.recorded
              ELSE TrustedKeys(opt)

\* A good signature that nothing is said against is by a key that was asked for.
LEMMA GoodIsAsked ==
  ASSUME JobGiven, NEW s, IsSignature(s), NEW data, NEW readable, NEW policy,
         SigStatus(s, data, TrustedKeys(job.opt)) = "good",
         NEW t, t = Signature(s, "good", readable, policy),
         Incomplete(job.opt) \/ ~Unexpected(t, job.opt)
  PROVE  /\ s.form = "ok" /\ s.over = data /\ s.by \notin Lapsed
         /\ Primary(s.by) \in Asked(job.opt)
<1>1. /\ s.form = "ok" /\ s.over = data /\ s.by \notin Lapsed /\ Primary(s.by) \in TrustedKeys(job.opt)
  BY DEF SigStatus, IsSignature
<1>2. CASE job.opt.recorded \subseteq TrustedKeys(job.opt) /\ job.opt.recorded # {}
  <2>1. ~Incomplete(job.opt)
    BY <1>2 DEF Incomplete, KnownKeys
  <2>2. t.key = s.by /\ Signer(t) = Primary(s.by)
    BY DEF Signature, Signer
  <2>3. {s.by, Primary(s.by)} \cap Expected(job.opt) # {}
    BY <1>2, <2>1, <2>2 DEF Unexpected
  <2>4. Primary(s.by) \in job.opt.recorded
    BY <2>3, ByRecorded DEF IsSignature
  <2> QED BY <1>1, <1>2, <2>4 DEF Asked
<1>3. CASE ~(job.opt.recorded \subseteq TrustedKeys(job.opt) /\ job.opt.recorded # {})
  BY <1>1, <1>3 DEF Asked
<1> QED BY <1>2, <1>3

\* A clean report of a verify that looked into the packages.
Clean == Reported /\ job.contents /\ res.problems = {}

\* Nothing failed, and nothing was found.
LEMMA CleanMeans ==
  ASSUME ReportInv, Clean
  PROVE  /\ errors = 0
         /\ \A i \in Items : ContentProblems(i) = {} /\ verdict[i].problems = {}
         /\ \E order \in SetToSeqs(SignerIds(Checked)) : Judged(order)["problems"] = {}
<1>0. VerdictTyped /\ "problems" \in Parts /\ Reported
  BY PartsAre DEF ReportInv, PartNames, Clean
<1>1. PICK order \in SetToSeqs(SignerIds(Checked)) :
        \A part \in Parts : res[part] = (UNION {Joining(i)[part] : i \in Items}) \cup Judged(order)[part]
  BY <1>0, AllJoined
<1>2. res["problems"] = (UNION {Joining(i)["problems"] : i \in Items}) \cup Judged(order)["problems"]
  BY <1>0, <1>1
<1>3. Judged(order)["problems"] = {} /\ \A i \in Items : Joining(i)["problems"] = {}
  BY <1>2 DEF Clean
<1>4. \A i \in Items : ContentProblems(i) = {} /\ verdict[i]["problems"] = {}
  BY <1>0, <1>3, JoiningIs
<1>5. errors = 0
  BY <1>0, <1>4 DEF ReportInv, ErrorsTold, Reported
<1> QED BY <1>3, <1>4, <1>5

\* Every package was read, and parses.
LEMMA CleanRead ==
  ASSUME ReportInv, Clean
  PROVE  /\ Checked = inspected /\ DOMAIN Checked = Items
         /\ \A f \in AllFiles : \E i \in Items : f = file[i]
         /\ \A i \in Items : /\ file[i] \in AllFiles /\ IsFile(stored[file[i]]) /\ ~stored[file[i]].rpm.broken
                             /\ \E whole \in BOOLEAN : inspected[i] = ResultOf(file[i], whole)
<1>0. JobGiven /\ errors = 0 /\ job.contents /\ Reported /\ ReportExact
  BY CleanMeans, ReportIsExact DEF ReportInv, Clean
<1>1. FilesOf("missing") = {} /\ FilesOf("damaged") = {}
  BY DEF Clean, FilesOf
<1>2. AllFiles \ Present = {} /\ {f \in Present : Damaged(stored[f].rpm, f \in ReadWhole)} = {}
  BY <1>0, <1>1 DEF ReportExact
<1>3. ASSUME NEW i \in Items
      PROVE  job.files[i] = {file[i]} /\ file[i] \in AllFiles /\ inspected[i] = ResultRead(file[i])
  <2>1. InspectTrue(i) /\ Visited(i) = job.files[i] /\ at[i] = "next"
    BY <1>0, AllJoined DEF ReportInv
  <2>2. PICK g : job.files[i] = {g}
    BY <1>0, JobFacts
  <2>3. Visited(i) # {}
    BY <2>1, <2>2
  <2> QED BY <1>0, <2>1, <2>3 DEF InspectTrue, AllFiles
<1>4. \A f \in AllFiles : stored[f] # Absent
  BY <1>2 DEF Present
<1>5. ASSUME NEW i \in Items
      PROVE  /\ IsFile(stored[file[i]]) /\ inspected[i] # Absent
             /\ \E whole \in BOOLEAN : inspected[i] = ResultOf(file[i], whole)
  <2>1. /\ IsFile(stored[file[i]]) /\ ResultOf(file[i], TRUE) # Absent /\ ResultOf(file[i], FALSE) # Absent
    BY <1>0, <1>3, <1>4, JobFacts
  <2>2. inspected[i] = ResultOf(file[i], TRUE) \/ inspected[i] = ResultOf(file[i], FALSE)
    BY <1>3, <1>4 DEF ResultRead
  <2> QED BY <2>1, <2>2
<1>6. ASSUME NEW i \in Items PROVE ~stored[file[i]].rpm.broken
  <2>1. file[i] \in Present
    BY <1>2, <1>3
  <2>2. ~Damaged(stored[file[i]].rpm, file[i] \in ReadWhole)
    BY <1>2, <2>1
  <2> QED BY <2>2 DEF Damaged
<1>7. {k \in Items : inspected[k] # Absent} = Items
  BY <1>5
<1>8. Checked = inspected /\ DOMAIN Checked = Items
  BY <1>7 DEF Checked, ReportInv
<1>9. \A f \in AllFiles : \E i \in Items : f = file[i]
  BY <1>3 DEF AllFiles
<1> QED BY <1>3, <1>5, <1>6, <1>8, <1>9

\* Nothing is said against the signers or the metadata.
LEMMA CleanSigned ==
  ASSUME ReportInv, Clean
  PROVE  /\ Untrusted(inspected, job.opt) = {}
         /\ Incomplete(job.opt) \/ ByOthers(inspected, job.opt) = {}
         /\ job.opt.signed => Unsigned(inspected) = {}
         /\ \E order \in SetToSeqs(SignerIds(inspected)) : OddOnesOut(order, inspected, job.opt) = {}
         /\ MetadataProblems = {}
<1>0. JobGiven /\ job.contents
  BY DEF ReportInv, Clean
<1>1. PICK order \in SetToSeqs(SignerIds(Checked)) : Judged(order)["problems"] = {}
  BY CleanMeans
<1>2. Checked = inspected
  BY CleanRead
<1>3. job.tool # "apt"
  <2>1. PICK c \in Cases : stored = c.stored /\ job = c.job
    BY <1>0 DEF JobGiven
  <2>2. job.tool = "rpm"
    BY <1>0, <2>1, CasesAssumption
  <2> QED BY <2>2
<1> DEFINE told == {Problem(f, "dependency") : f \in job.unmet}
           said == About(SignerProblems(order, Checked, job.opt))
<1>4. Judged(order)["problems"] =
        told \cup IF job.tool = "apt" THEN {} ELSE MetadataProblems \cup IF job.contents THEN said ELSE {}
  BY DEF Judged, Nothing
<1> HIDE DEF told, said
<1>5. MetadataProblems = {} /\ said = {}
  BY <1>0, <1>1, <1>3, <1>4
<1>6. SignerProblems(order, inspected, job.opt) = {}
  BY <1>2, <1>5 DEF said, About
<1>7. /\ Kinds("untrusted", Untrusted(inspected, job.opt)) = {}
      /\ Kinds("unexpected", IF Incomplete(job.opt) THEN {} ELSE ByOthers(inspected, job.opt)) = {}
      /\ Kinds("unsigned", IF job.opt.signed THEN Unsigned(inspected) ELSE {}) = {}
      /\ Kinds("odd", OddOnesOut(order, inspected, job.opt)) = {}
  BY <1>6 DEF SignerProblems
<1>8. \A kind, packages : Kinds(kind, packages) = {} => packages = {}
  BY DEF Kinds
<1>9. /\ Untrusted(inspected, job.opt) = {}
      /\ (IF Incomplete(job.opt) THEN {} ELSE ByOthers(inspected, job.opt)) = {}
      /\ (IF job.opt.signed THEN Unsigned(inspected) ELSE {}) = {}
      /\ OddOnesOut(order, inspected, job.opt) = {}
  BY <1>7, <1>8
<1> QED BY <1>1, <1>2, <1>5, <1>9

\* Every package has the same signer, or none.
LEMMA CleanOneSigner ==
  ASSUME ReportInv, Clean
  PROVE  \A i, k \in Items : SignerId(inspected[i]) = SignerId(inspected[k])
<1>1. DOMAIN inspected = Items
  BY DEF ReportInv
<1>2. PICK order \in SetToSeqs(SignerIds(inspected)) : OddOnesOut(order, inspected, job.opt) = {}
  BY CleanSigned
<1>3. job.opt.signed => Unsigned(inspected) = {}
  BY CleanSigned
<1> DEFINE main == Main(order, inspected, Expected(job.opt))
<1>4. CASE order = <<>>
  <2>1. IsFiniteSet(SignerIds(inspected))
    <3> DEFINE signed == Items \ Unsigned(inspected)
               g == [i \in signed |-> SignerId(inspected[i])]
    <3>1. SignerIds(inspected) = {SignerId(inspected[i]) : i \in signed}
      BY <1>1 DEF SignerIds
    <3>2. g \in Surjection(signed, SignerIds(inspected))
      BY <3>1 DEF Surjection
    <3>3. IsFiniteSet(signed)
      BY ItemsAssumption, FS_Subset
    <3> QED BY <3>2, <3>3, FS_Surjection
  <2>2. Cardinality(SignerIds(inspected)) \in Nat
    BY <2>1, FS_CardinalityType
  <2>3. order \in [1..Cardinality(SignerIds(inspected)) -> SignerIds(inspected)]
    BY <1>2 DEF SetToSeqs
  <2>4. Cardinality(SignerIds(inspected)) = 0
    <3>1. DOMAIN order = {} /\ DOMAIN order = 1..Cardinality(SignerIds(inspected))
      BY <1>4, <2>3
    <3> QED BY <2>2, <3>1
  <2>5. SignerIds(inspected) = {}
    BY <2>1, <2>4, FS_EmptySet
  <2>6. \A i \in Items : i \in Unsigned(inspected)
    BY <1>1, <2>5 DEF SignerIds
  <2> QED BY <2>6 DEF Unsigned
<1>5. CASE order # <<>>
  <2>1. {p \in DOMAIN inspected \ Unsigned(inspected) : SignerId(inspected[p]) # main} = {}
        /\ (IF job.opt.signed THEN {} ELSE Unsigned(inspected)) = {}
    BY <1>2, <1>5 DEF OddOnesOut
  <2>2. Unsigned(inspected) = {}
    BY <1>3, <2>1
  <2> HIDE DEF main
  <2>3. \A i \in Items : SignerId(inspected[i]) = main
    BY <1>1, <2>1, <2>2
  <2> QED BY <2>3
<1> QED BY <1>4, <1>5

\* One package that is signed has a signature that counts, made of one of the
\* file's.
LEMMA CleanPackage ==
  ASSUME ReportInv, Clean, NEW i \in Items, job.opt.signed
  PROVE  \E s \in stored[file[i]].rpm.sigs : \E whole \in BOOLEAN : \E t \in Counting(inspected[i]) :
           /\ t = Signature(s, Status(stored[file[i]].rpm, s, TrustedKeys(job.opt), whole),
                            s.tag # "OPENPGP" \/ PolicyFor(job.opt.target).openpgp, PolicyFor(job.opt.target))
           /\ IsSignature(s)
<1> DEFINE p == stored[file[i]].rpm
           keys == TrustedKeys(job.opt)
           policy == PolicyFor(job.opt.target)
<1>1. PICK whole \in BOOLEAN : inspected[i] = ResultOf(file[i], whole)
  BY CleanRead
<1>2. IsFile(stored[file[i]]) /\ ~p.broken
  BY CleanRead
<1>3. SignerId(inspected[i]) # {}
  <2>1. i \in DOMAIN inspected /\ Unsigned(inspected) = {}
    BY CleanSigned DEF ReportInv
  <2> QED BY <2>1 DEF Unsigned
<1>4. PICK t \in Counting(inspected[i]) : TRUE
  BY <1>3 DEF SignerId
<1>5. t \in Signatures(p, keys, policy, whole)
  BY <1>1, <1>4 DEF Counting, ResultOf, CheckPackage
<1>6. PICK s \in p.sigs : t = Signature(s, Status(p, s, keys, whole), s.tag # "OPENPGP" \/ policy.openpgp, policy)
  BY <1>2, <1>5 DEF Signatures
<1>7. IsSignature(s)
  BY <1>2 DEF IsFile
<1> QED BY <1>4, <1>6, <1>7

\* No release that cannot read OpenPGP signatures is taken to.
LEMMA NoOpenPGP ==
  ASSUME NEW target \in {"", "rhel8", "rhel9", "rhel10"}, PolicyFor(target).openpgp
  PROVE  target \notin {"rhel8", "rhel9"}
<1>1. ~PolicyFor("rhel8").openpgp /\ ~PolicyFor("rhel9").openpgp
  BY DEF PolicyFor, AnyRelease
<1> QED BY <1>1

LEMMA CleanIsSigned ==
  ASSUME ReportInv, Clean, NEW i \in Items, job.opt.signed
  PROVE  /\ \E s \in stored[file[i]].rpm.sigs :
              s.hash # "MD5" /\ (s.tag = "OPENPGP" => job.opt.target \notin {"rhel8", "rhel9"})
         /\ job.opt.trusted => SealedBy(stored[file[i]].rpm, Asked(job.opt))
<1> DEFINE p == stored[file[i]].rpm
           keys == TrustedKeys(job.opt)
           policy == PolicyFor(job.opt.target)
           status(s, whole) == Status(p, s, keys, whole)
           known(s) == s.tag # "OPENPGP" \/ policy.openpgp
<1>1. PICK s \in p.sigs : \E whole \in BOOLEAN : \E t \in Counting(inspected[i]) :
        t = Signature(s, status(s, whole), known(s), policy) /\ IsSignature(s)
  BY CleanPackage
<1>2. PICK whole \in BOOLEAN : \E t \in Counting(inspected[i]) :
        t = Signature(s, status(s, whole), known(s), policy) /\ IsSignature(s)
  BY <1>1
<1>3. PICK t \in Counting(inspected[i]) : t = Signature(s, status(s, whole), known(s), policy) /\ IsSignature(s)
  BY <1>2
<1> HIDE DEF known, status
<1>4. t.readable /\ ~t.rejected /\ t.status \in Intacts
  BY DEF Counting, Counts
<1>5. t.status = status(s, whole) /\ known(s)
  BY <1>3, <1>4 DEF Signature
<1>6. ~Rejects(policy, s, status(s, whole))
  BY <1>3, <1>4, <1>5 DEF Signature
<1>7. s.hash # "MD5"
  BY <1>6 DEF Rejects
<1>8. s.tag = "OPENPGP" => job.opt.target \notin {"rhel8", "rhel9"}
  <2>1. job.opt.target \in {"", "rhel8", "rhel9", "rhel10"}
    <3>1. PICK c \in Cases : stored = c.stored /\ job = c.job
      BY DEF ReportInv, JobGiven
    <3> QED BY <3>1, CasesAssumption
  <2>2. s.tag = "OPENPGP" => PolicyFor(job.opt.target).openpgp
    BY <1>5 DEF known
  <2> QED BY <2>1, <2>2, NoOpenPGP
<1>9. ASSUME job.opt.trusted PROVE SealedBy(p, Asked(job.opt))
  <2>0. i \in DOMAIN inspected
    BY DEF ReportInv
  <2>1. t.status # "untrusted"
    BY <1>9, <2>0, CleanSigned DEF Untrusted
  <2>2. status(s, whole) = "good" /\ t = Signature(s, "good", known(s), policy)
    BY <1>3, <1>4, <1>5, <2>1 DEF Intacts
  <2>3. Incomplete(job.opt) \/ ~Unexpected(t, job.opt)
    BY <2>0, CleanSigned DEF ByOthers
  <2>4. SigStatus(s, Covered(p, s), keys) = "good"
    BY <2>2 DEF status, Status
  <2>5. /\ s.form = "ok" /\ s.over = Covered(p, s) /\ s.by \notin Lapsed
        /\ Primary(s.by) \in Asked(job.opt)
    BY <1>3, <2>2, <2>3, <2>4, GoodIsAsked DEF ReportInv
  <2>6. s \in Made(p.sigs, <<p.header>>, Asked(job.opt)) \cup Made(p.sigs, <<p.header, p.payload>>, Asked(job.opt))
    BY <2>5 DEF Made, Covered
  <2> QED BY <2>6 DEF SealedBy
<1> QED BY <1>7, <1>8, <1>9

\* What signs the metadata is what was asked for.
LEMMA CleanMetadata ==
  ASSUME ReportInv, Clean
  PROVE  /\ job.opt.signedMetadata => stored[RepomdAsc] # Absent
         /\ job.opt.trusted /\ stored[RepomdAsc] # Absent =>
              /\ stored[RepomdAsc] = Made(stored[RepomdAsc], <<Repomd>>, Asked(job.opt))
              /\ stored[RepomdAsc] # {}
<1> DEFINE asc == stored[RepomdAsc]
           kinds == CASE asc = Absent -> IF job.opt.signedMetadata THEN {"unsigned"} ELSE {}
                      [] asc = {}     -> {"unusable"}
                      [] OTHER        -> {"metadata" : s \in MetadataComplaints(MetadataSigs, job.opt)}
<1>1. {Problem(RepomdAsc, kind) : kind \in kinds} = {}
  BY CleanSigned DEF MetadataProblems
<1>2. kinds = {}
  BY <1>1
<1>3. job.opt.signedMetadata => asc # Absent
  BY <1>2
<1>4. ASSUME job.opt.trusted, asc # Absent
      PROVE  asc # {} /\ \A s \in asc : s \in Made(asc, <<Repomd>>, Asked(job.opt))
  <2>1. asc # {}
    BY <1>2, <1>4
  <2>2. MetadataComplaints(MetadataSigs, job.opt) = {}
    BY <1>2, <1>4, <2>1
  <2>3. ASSUME NEW s \in asc PROVE s \in Made(asc, <<Repomd>>, Asked(job.opt))
    <3> DEFINE status == SigStatus(s, <<Repomd>>, TrustedKeys(job.opt))
               t == Signature(s, status, TRUE, AnyRelease)
    <3>1. IsSignature(s)
      <4>1. PICK c \in Cases : stored = c.stored /\ job = c.job
        BY DEF ReportInv, JobGiven
      <4> QED BY <1>4, <4>1, CasesAssumption
    <3>2. t \in MetadataSigs
      BY DEF MetadataSigs, DetachedSignatures
    <3>3. t.status = status
      BY DEF Signature
    <3>4. /\ t.status \in Intacts /\ t.status # "untrusted"
          /\ Incomplete(job.opt) \/ ~Unexpected(t, job.opt)
      BY <1>4, <2>2, <3>2 DEF MetadataComplaints
    <3>5. status = "good" /\ t = Signature(s, "good", TRUE, AnyRelease)
      BY <3>3, <3>4 DEF Intacts
    <3> HIDE DEF t
    <3>6. /\ s.form = "ok" /\ s.over = <<Repomd>> /\ s.by \notin Lapsed
          /\ Primary(s.by) \in Asked(job.opt)
      BY <3>1, <3>4, <3>5, GoodIsAsked DEF ReportInv
    <3> QED BY <3>6 DEF Made
  <2> QED BY <2>1, <2>3
<1>5. Made(asc, <<Repomd>>, Asked(job.opt)) \subseteq asc
  BY DEF Made
<1> QED BY <1>3, <1>4, <1>5

LEMMA ReportIsTrust == ReportInv => PassIsTrust
<1> SUFFICES ASSUME ReportInv, Clean PROVE PassIsTrust
  BY DEF PassIsTrust, Clean
<1> DEFINE opt == job.opt
           asked == IF opt.recorded \subseteq TrustedKeys(opt) /\ opt.recorded # {} THEN opt.recorded ELSE TrustedKeys(opt)
           rpms == {stored[f].rpm : f \in AllFiles}
<1>1. asked = Asked(opt)
  BY DEF Asked
<1>2. \A p \in rpms : \E i \in Items : p = stored[file[i]].rpm
  BY CleanRead
<1>3. \A i, k \in Items : SignerId(inspected[i]) = SignerId(inspected[k])
  BY CleanOneSigner
<1>4. opt.signed => \A p \in rpms : \E s \in p.sigs :
        s.hash # "MD5" /\ (s.tag = "OPENPGP" => opt.target \notin {"rhel8", "rhel9"})
  BY <1>2, CleanIsSigned
<1>5. opt.trusted /\ opt.signed => \A p \in rpms : SealedBy(p, asked)
  BY <1>1, <1>2, CleanIsSigned
<1>6. /\ opt.signedMetadata => stored[RepomdAsc] # Absent
      /\ opt.trusted /\ stored[RepomdAsc] # Absent =>
           stored[RepomdAsc] = Made(stored[RepomdAsc], <<Repomd>>, asked) /\ stored[RepomdAsc] # {}
  BY <1>1, CleanMetadata
<1> QED BY <1>3, <1>4, <1>5, <1>6 DEF PassIsTrust

\* A verify that finds no problem vouches for what it was asked for: whatever
\* the packages, the keys, the storage and the order of the checks, they have
\* one signer, signed packages hold a signature the release accepts, made over
\* what it stands for by a key that was asked for, and so does repomd.xml
\* (verify.go:70-98).
THEOREM VerifyPassIsTrust == Spec => []PassIsTrust
BY SpecReport, ReportIsTrust, PTL
=============================================================================
