---------------------------- MODULE PublishProofs ----------------------------
(***************************************************************************)
(* Execute keeps the repository whole, for every store, every Steps that   *)
(* are sound for it and every point a publish may stop at.                 *)
(***************************************************************************)
EXTENDS Publish, ExecuteProofs

Inv == TypeOK /\ Whole /\ StaysSound

----------------------------------------------------------------------------
(* The types, and what follows of them alone.                              *)

LEMMA StepsShape == Steps = Shape(Copy, File, File, File, Paths, Paths)
BY DEF Steps, Shape

LEMMA StoredAt ==
  ASSUME TypeOK
  PROVE  \A p \in DOMAIN store : store[p] \in Contents
BY DEF TypeOK

LEMMA TypedApart ==
  ASSUME TypeOK
  PROVE  Apart
<1>1. \A q \in Live : DOMAIN Needs(store[q]) \cap IndexPaths = {}
  BY StoredAt, ContentAssumption DEF Live
<1>2. ASSUME NEW s \in Range(work.swap)
      PROVE  DOMAIN Needs(s.data) \cap IndexPaths = {}
  <2>1. work.swap \in Seq(File)
    BY DEF TypeOK, Steps
  <2>2. s \in File
    BY <2>1 DEF Range
  <2> QED BY <2>2, ContentAssumption DEF File
<1> QED BY <1>1, <1>2 DEF Apart

LEMMA PutTyped ==
  ASSUME TypeOK, NEW p \in Paths, NEW c \in Contents, StorePut(p, c)
  PROVE  store' \in [DOMAIN store' -> Contents] /\ DOMAIN store' \subseteq Paths
BY DEF TypeOK, StorePut

LEMMA DeleteTyped ==
  ASSUME TypeOK, NEW p, StoreDelete(p)
  PROVE  store' \in [DOMAIN store' -> Contents] /\ DOMAIN store' \subseteq Paths
BY DEF TypeOK, StoreDelete

LEMMA NextTyped ==
  ASSUME TypeOK, Next
  PROVE  TypeOK'
<1>1. work \in Shape(Copy, File, File, File, Paths, Paths)
  BY StepsShape DEF TypeOK
<1>2. work' \in Steps
  <2>1. CASE Begin
    BY <2>1, EnvironmentAssumption DEF Begin
  <2>2. CASE Step \/ Stop \/ StopInCopy
    BY <2>2, <1>1, ExecuteShape, StepsShape
  <2> QED BY <2>1, <2>2 DEF Next
<1>3. store' \in [DOMAIN store' -> Contents] /\ DOMAIN store' \subseteq Paths
  <2>1. CASE CopyOne
    <3>1. PICK c \in work.copies :
            c \in Copy /\ c.from \in DOMAIN store /\ StorePut(c.to, store[c.from])
      BY <1>1, <2>1, CopyOneFields
    <3>2. c.to \in Paths /\ store[c.from] \in Contents
      BY <3>1, StoredAt DEF Copy
    <3> QED BY <3>1, <3>2, PutTyped
  <2>2. CASE UploadOne
    <3>1. PICK u \in work.uploads : u \in File /\ StorePut(u.to, u.data)
      BY <1>1, <2>2, UploadOneFields
    <3> QED BY <3>1, PutTyped DEF File
  <2>3. CASE WriteMetadata
    <3> DEFINE u == Head(work.metadata)
    <3>1. u \in File /\ StorePut(u.to, u.data)
      BY <1>1, <2>3, WriteMetadataFields
    <3> HIDE DEF u
    <3> QED BY <3>1, PutTyped DEF File
  <2>4. CASE SwapOne
    <3> DEFINE u == Head(work.swap)
    <3>1. u \in File /\ StorePut(u.to, u.data)
      BY <1>1, <2>4, SwapOneFields
    <3> HIDE DEF u
    <3> QED BY <3>1, PutTyped DEF File
  <2>5. CASE RetractOne
    <3>1. StoreDelete(Head(work.retract))
      BY <2>5 DEF RetractOne
    <3> QED BY <3>1, DeleteTyped
  <2>6. CASE CollectOne
    <3>1. UNCHANGED store \/ \E p \in UNION Range(work.gc) : StoreDelete(p)
      BY <1>1, <2>6, CollectOneFields
    <3> QED BY <3>1, DeleteTyped DEF TypeOK
  <2>7. CASE StopInCopy
    <3>1. PICK c \in work.copies : StorePut(c.to, Partial)
      BY <2>7 DEF StopInCopy
    <3>2. c.to \in Paths
      BY <1>1, <3>1 DEF Shape, Copy
    <3> QED BY <3>1, <3>2, PutTyped, ContentAssumption
  <2>8. CASE Begin \/ Stop
    BY <2>8 DEF Begin, Stop, TypeOK
  <2> QED BY <2>1, <2>2, <2>3, <2>4, <2>5, <2>6, <2>7, <2>8 DEF Next, Step
<1> QED BY <1>2, <1>3 DEF TypeOK

----------------------------------------------------------------------------
(* The invariant.                                                          *)

LEMMA InitInv ==
  ASSUME Init
  PROVE  Inv
<1>1. NoSteps \in Steps
  BY NoStepsShape, StepsShape
<1>2. TypeOK /\ Whole
  BY <1>1, EnvironmentAssumption DEF Init, TypeOK, Whole, Complete, Live
<1> QED BY <1>2, IdleSound DEF Inv, Init

LEMMA BeginInv ==
  ASSUME Inv, Begin
  PROVE  Whole' /\ StaysSound'
<1>1. PICK w \in Works : Sound(w) /\ work' = w
  BY DEF Begin
<1>2. UNCHANGED store
  BY DEF Begin
<1>3. Whole' /\ Live' = Live
  BY <1>2 DEF Inv, Whole, Complete, Live
<1>4. StaysSound'
  BY <1>1, <1>2, <1>3
     DEF StaysSound, Sound, SoundCopies, SoundPuts, SoundSwap, SoundRetract, SoundGC, Harmless
<1> QED BY <1>3, <1>4

LEMMA NextInv ==
  ASSUME Inv, [Next]_vars
  PROVE  Inv'
<1>1. CASE UNCHANGED vars
  BY <1>1 DEF vars, execVars, Inv, TypeOK, Whole, Complete, Live, StaysSound, Sound, SoundCopies,
              SoundPuts, SoundSwap, SoundRetract, SoundGC, Harmless, Puts
<1>2. CASE Next
  <2>1. work \in Shape(Copy, File, File, File, Paths, Paths) /\ Apart /\ Whole /\ StaysSound
    BY StepsShape, TypedApart DEF Inv, TypeOK
  <2>2. TypeOK'
    BY <1>2, NextTyped DEF Inv
  <2>3. CASE Step \/ Stop \/ StopInCopy
    BY <2>1, <2>2, <2>3, ExecuteSound DEF Inv
  <2> QED BY <1>2, <2>2, <2>3, BeginInv DEF Next, Inv
<1> QED BY <1>1, <1>2

\* The store stays a map from paths to contents and the work left stays a
\* Steps value, whatever is published and wherever it stops.
THEOREM PublishTypes == Spec => []TypeOK
<1>1. Init => Inv
  BY InitInv
<1>2. Inv /\ [Next]_vars => Inv'
  BY NextInv
<1>3. Inv => TypeOK
  BY DEF Inv
<1> QED BY <1>1, <1>2, <1>3, PTL DEF Spec

\* execute.go:20-23: between any two storage calls, and after any crash, every
\* file an index in place names is there with the content it names, provided
\* each caller's Steps are sound for the store it found.
THEOREM PublishWhole == Spec => [](Whole /\ StaysSound)
<1>1. Init => Inv
  BY InitInv
<1>2. Inv /\ [Next]_vars => Inv'
  BY NextInv
<1>3. Inv => Whole /\ StaysSound
  BY DEF Inv
<1> QED BY <1>1, <1>2, <1>3, PTL DEF Spec

\* What is left of a publish stays sound as the store changes under it, so a
\* caller has to answer for its Steps once, when it hands them over.
THEOREM PublishStaysSound == Spec => []StaysSound
<1>1. (Whole /\ StaysSound) => StaysSound
  OBVIOUS
<1> QED BY <1>1, PublishWhole, PTL

----------------------------------------------------------------------------
(* Publish implements AtomicPublish.                                       *)

\* While the store is whole, a client reads what the index files name.
LEMMA SeenIsNamed ==
  ASSUME Inv
  PROVE  Seen = [q \in Live |-> Needs(store[q])]
<1> SUFFICES ASSUME NEW q \in Live
             PROVE  [p \in DOMAIN Needs(store[q]) |-> Read(p)] = Needs(store[q])
  BY DEF Seen
<1>1. store[q] \in Contents
  BY DEF Inv, TypeOK, Live
<1>2. \A p \in DOMAIN Needs(store[q]) : Read(p) = Needs(store[q])[p]
  BY DEF Inv, Whole, Complete, Read
<1> QED BY <1>1, <1>2, ContentAssumption

\* Only the swap and the retraction touch an index file.
LEMMA IndexUntouched ==
  ASSUME Inv, Next, ~SwapOne, ~RetractOne
  PROVE  Live' = Live /\ \A q \in Live : store'[q] = store[q]
<1> USE DEF Inv
<1>1. CASE CopyOne
  <2>1. PICK c \in work.copies : StorePut(c.to, store[c.from])
    BY <1>1 DEF CopyOne
  <2>2. c.to \notin DOMAIN store \cup IndexPaths
    BY DEF StaysSound, Sound, SoundCopies
  <2> QED BY <2>1, <2>2 DEF StorePut, Live
<1>2. CASE UploadOne
  <2>1. PICK u \in work.uploads : StorePut(u.to, u.data)
    BY <1>2 DEF UploadOne
  <2>2. u.to \notin IndexPaths
    BY DEF StaysSound, Sound, SoundPuts, Puts, Harmless
  <2> QED BY <2>1, <2>2 DEF StorePut, Live
<1>3. CASE WriteMetadata
  <2>1. work.metadata \in Seq(File) /\ work.metadata # <<>>
    BY <1>3 DEF TypeOK, Steps, WriteMetadata, Describing
  <2>2. Head(work.metadata) \in Range(work.metadata)
    BY <2>1, HeadTail
  <2>3. Head(work.metadata).to \notin IndexPaths
    BY <2>2 DEF StaysSound, Sound, SoundPuts, Puts, Harmless
  <2> QED BY <1>3, <2>3 DEF WriteMetadata, StorePut, Live
<1>4. CASE CollectOne
  <2>1. work.gc \in Seq(SUBSET Paths) /\ work.gc # <<>>
    BY <1>4 DEF TypeOK, Steps, CollectOne, Collecting
  <2>2. Head(work.gc) \in Range(work.gc)
    BY <2>1, HeadTail
  <2>3. \A p \in Head(work.gc) : p \notin IndexPaths
    BY <2>2 DEF StaysSound, Sound, SoundGC
  <2>4. (\E p \in Head(work.gc) : StoreDelete(p)) \/ UNCHANGED store
    BY <1>4 DEF CollectOne
  <2> QED BY <2>3, <2>4 DEF StoreDelete, Live
<1>5. CASE StopInCopy
  <2>1. PICK c \in work.copies : StorePut(c.to, Partial)
    BY <1>5 DEF StopInCopy
  <2>2. c.to \notin DOMAIN store \cup IndexPaths
    BY DEF StaysSound, Sound, SoundCopies
  <2> QED BY <2>1, <2>2 DEF StorePut, Live
<1>6. CASE Begin \/ Stop
  BY <1>6 DEF Begin, Stop, Live
<1> QED BY <1>1, <1>2, <1>3, <1>4, <1>5, <1>6 DEF Next, Step

LEMMA InitSeen ==
  ASSUME Inv
  PROVE  Atomic!Init
<1>1. Seen \in [Live -> {Needs(c) : c \in Contents}]
  BY SeenIsNamed DEF Inv, TypeOK, Live
<1>2. Live \in SUBSET IndexPaths
  BY DEF Live
<1> QED BY <1>1, <1>2 DEF Atomic!Init

LEMMA NextSeen ==
  ASSUME Inv, Inv', [Next]_vars
  PROVE  [Atomic!Next]_Seen
<1>1. Seen = [q \in Live |-> Needs(store[q])]
  BY SeenIsNamed
<1>2. Seen' = [q \in Live' |-> Needs(store'[q])]
  <2>1. ASSUME NEW q \in Live'
        PROVE  [p \in DOMAIN Needs(store'[q]) |-> Read(p)'] = Needs(store'[q])
    <3>1. store'[q] \in Contents
      BY DEF Inv, TypeOK, Live
    <3>2. \A p \in DOMAIN Needs(store'[q]) : Read(p)' = Needs(store'[q])[p]
      BY DEF Inv, Whole, Complete, Read
    <3> QED BY <3>1, <3>2, ContentAssumption
  <2> QED BY <2>1 DEF Seen
<1>3. CASE SwapOne
  <2> DEFINE s == Head(work.swap)
  <2>1. work.swap \in Seq(File) /\ work.swap # <<>>
    BY <1>3 DEF Inv, TypeOK, Steps, SwapOne, Swapping
  <2>2. s \in File /\ s \in Range(work.swap)
    BY <2>1, HeadTail
  <2>3. s.to \in IndexPaths /\ s.data \in Contents
    BY <2>2 DEF File, Inv, StaysSound, Sound, SoundSwap
  <2>4. StorePut(s.to, s.data)
    BY <1>3 DEF SwapOne
  <2> HIDE DEF s
  <2>5. /\ Live' = Live \cup {s.to}
        /\ store'[s.to] = s.data
        /\ \A q \in Live : q # s.to => store'[q] = store[q]
    BY <2>3, <2>4 DEF StorePut, Live
  <2>6. Seen' = [r \in DOMAIN Seen \cup {s.to} |->
                   IF r = s.to THEN Needs(s.data) ELSE Seen[r]]
    BY <1>1, <1>2, <2>5
  <2> QED BY <2>3, <2>6 DEF Atomic!Next, Atomic!Replace
<1>4. CASE RetractOne
  <2> DEFINE h == Head(work.retract)
  <2>1. work.retract \in Seq(Paths) /\ work.retract # <<>>
    BY <1>4 DEF Inv, TypeOK, Steps, RetractOne, Retracting
  <2>2. h \in IndexPaths
    BY <2>1, HeadTail DEF Inv, StaysSound, Sound, SoundRetract
  <2>3. StoreDelete(h)
    BY <1>4 DEF RetractOne
  <2> HIDE DEF h
  <2>4. Live' = Live \ {h} /\ \A q \in Live' : store'[q] = store[q]
    BY <2>3 DEF StoreDelete, Live
  <2>5. Seen' = [r \in DOMAIN Seen \ {h} |-> Seen[r]]
    BY <1>1, <1>2, <2>4
  <2> QED BY <2>2, <2>5 DEF Atomic!Next, Atomic!Withdraw
<1>5. CASE UNCHANGED vars
  BY <1>5 DEF vars, execVars, Seen, Live, Read
<1>6. CASE Next /\ ~SwapOne /\ ~RetractOne
  <2>1. Live' = Live /\ \A q \in Live : store'[q] = store[q]
    BY <1>6, IndexUntouched
  <2> QED BY <1>1, <1>2, <2>1
<1> QED BY <1>3, <1>4, <1>5, <1>6

\* What a client reads through an index file changes only from one whole
\* version to the next: Publish implements AtomicPublish.
THEOREM PublishAtomic == Spec => PublishedAtomically
<1>1. Init => Inv
  BY InitInv
<1>2. Inv /\ [Next]_vars => Inv'
  BY NextInv
<1>3. Inv => Atomic!Init
  BY InitSeen
<1>4. Inv /\ Inv' /\ [Next]_vars => [Atomic!Next]_Seen
  BY NextSeen
<1> QED BY <1>1, <1>2, <1>3, <1>4, PTL DEF Spec, PublishedAtomically, Atomic!Spec
=============================================================================
