---------------------------- MODULE ExecuteProofs ----------------------------
(***************************************************************************)
(* What every caller of Execute relies on, whatever its files are: one     *)
(* lemma per action says what it takes from the work and does to the       *)
(* store, and one says that it keeps the store whole and what is left of   *)
(* the work sound.  Nothing is assumed of paths and contents here but that *)
(* no index names an index.                                                *)
(***************************************************************************)
EXTENDS Execute, TLAPS, WellFoundedInduction

\* Steps made of the copies C, the uploads U, the metadata files M, the swap
\* files W, the retracted paths R and the collected paths G.
Shape(C, U, M, W, R, G) ==
  [copies : SUBSET C, uploads : SUBSET U, metadata : Seq(M), swap : Seq(W),
   retract : Seq(R), gc : Seq(SUBSET G)]

\* No index names an index, neither those in place nor those to come.
Apart == /\ \A q \in Live : DOMAIN Needs(store[q]) \cap IndexPaths = {}
         /\ \A s \in Range(work.swap) : DOMAIN Needs(s.data) \cap IndexPaths = {}

----------------------------------------------------------------------------
(* Sequences and the store.                                                *)

LEMMA HeadTail ==
  ASSUME NEW S, NEW s \in Seq(S), s # <<>>
  PROVE  /\ Head(s) \in S
         /\ Head(s) \in Range(s)
         /\ Tail(s) \in Seq(S)
         /\ Range(Tail(s)) \subseteq Range(s)
         /\ Range(s) \subseteq {Head(s)} \cup Range(Tail(s))
<1>1. Len(s) > 0 /\ Head(s) = s[1] /\ 1 \in DOMAIN s
  OBVIOUS
<1>2. Tail(s) \in Seq(S)
  OBVIOUS
<1>3. ASSUME NEW i \in DOMAIN Tail(s)
      PROVE  i + 1 \in DOMAIN s /\ Tail(s)[i] = s[i + 1]
  BY <1>1
<1>4. ASSUME NEW i \in DOMAIN s, i # 1
      PROVE  i - 1 \in DOMAIN Tail(s) /\ Tail(s)[i - 1] = s[i]
  BY <1>1, <1>4
<1>5. Head(s) \in S /\ Head(s) \in Range(s) /\ Range(Tail(s)) \subseteq Range(s)
  BY <1>1, <1>3 DEF Range
<1>6. Range(s) \subseteq {Head(s)} \cup Range(Tail(s))
  <2> SUFFICES ASSUME NEW i \in DOMAIN s
               PROVE  s[i] \in {Head(s)} \cup Range(Tail(s))
    BY DEF Range
  <2> QED BY <1>1, <1>4 DEF Range
<1> QED BY <1>2, <1>5, <1>6

LEMMA ShrinkHead ==
  ASSUME NEW S, NEW s \in Seq(SUBSET S), s # <<>>, NEW p
  PROVE  LET t == <<Head(s) \ {p}>> \o Tail(s) IN
         /\ t \in Seq(SUBSET S)
         /\ UNION Range(t) \subseteq UNION Range(s)
         /\ UNION Range(s) \subseteq {p} \cup UNION Range(t)
<1> DEFINE t == <<Head(s) \ {p}>> \o Tail(s)
<1>1. Head(s) \in SUBSET S /\ Head(s) \in Range(s) /\ Tail(s) \in Seq(SUBSET S)
      /\ Range(Tail(s)) \subseteq Range(s) /\ Range(s) \subseteq {Head(s)} \cup Range(Tail(s))
  BY HeadTail
<1>2. t \in Seq(SUBSET S)
  BY <1>1
<1>3. ASSUME NEW i \in DOMAIN t
      PROVE  t[i] = Head(s) \ {p} \/ t[i] \in Range(Tail(s))
  <2>1. CASE i = 1
    BY <1>1, <2>1
  <2>2. CASE i # 1
    <3>1. i - 1 \in DOMAIN Tail(s) /\ t[i] = Tail(s)[i - 1]
      BY <1>1, <2>2
    <3> QED BY <3>1 DEF Range
  <2> QED BY <2>1, <2>2
<1>4. UNION Range(t) \subseteq UNION Range(s)
  <2> SUFFICES ASSUME NEW g \in Range(t), NEW e \in g
               PROVE  e \in UNION Range(s)
    OBVIOUS
  <2>1. PICK i \in DOMAIN t : g = t[i]
    BY DEF Range
  <2> QED BY <2>1, <1>1, <1>3
<1>5. Head(s) \ {p} \in Range(t) /\ Range(Tail(s)) \subseteq Range(t)
  <2>1. 1 \in DOMAIN t /\ t[1] = Head(s) \ {p}
    BY <1>1
  <2>2. \A i \in DOMAIN Tail(s) : i + 1 \in DOMAIN t /\ t[i + 1] = Tail(s)[i]
    BY <1>1
  <2> HIDE DEF t
  <2> QED BY <2>1, <2>2 DEF Range
<1> HIDE DEF t
<1>6. UNION Range(s) \subseteq {p} \cup UNION Range(t)
  <2> SUFFICES ASSUME NEW g \in Range(s), NEW e \in g, e # p
               PROVE  e \in UNION Range(t)
    OBVIOUS
  <2> QED BY <1>1, <1>5
<1> QED BY <1>2, <1>4, <1>6 DEF t

LEMMA LeastNat ==
  ASSUME NEW T \in SUBSET Nat, T # {}
  PROVE  \E n \in T : \A m \in T : n <= m
<1> DEFINE R == {ss \in Nat \X Nat : ss[1] < ss[2]}
<1>1. IsWellFoundedOn(R, Nat)
  BY NatLessThanWellFounded DEF OpToRel
<1>2. \A m, n \in Nat : m < n => <<m, n>> \in R
  OBVIOUS
<1> HIDE DEF R
<1>3. PICK n \in T : \A m \in T : ~(<<m, n>> \in R)
  BY <1>1, WFMin
<1>4. ASSUME NEW m \in T PROVE n <= m
  <2>1. ~(m < n)
    BY <1>2, <1>3
  <2> QED BY <2>1
<1> QED BY <1>4

LEMMA PutFacts ==
  ASSUME NEW p, NEW c, StorePut(p, c)
  PROVE  /\ DOMAIN store' = DOMAIN store \cup {p}
         /\ store'[p] = c
         /\ \A q \in DOMAIN store : q # p => store'[q] = store[q]
BY DEF StorePut

LEMMA DeleteFacts ==
  ASSUME NEW p, StoreDelete(p)
  PROVE  /\ DOMAIN store' = DOMAIN store \ {p}
         /\ \A q \in DOMAIN store' : store'[q] = store[q]
BY DEF StoreDelete

----------------------------------------------------------------------------
(* What each action takes from the work.                                   *)

LEMMA CopyOneFields ==
  ASSUME NEW C, NEW U, NEW M, NEW W, NEW R, NEW G, work \in Shape(C, U, M, W, R, G), CopyOne
  PROVE  /\ work' \in Shape(C, U, M, W, R, G)
         /\ \E c \in work.copies :
              /\ c \in C /\ c.from \in DOMAIN store
              /\ StorePut(c.to, store[c.from])
              /\ work'.copies = work.copies \ {c}
         /\ work'.uploads = work.uploads /\ work'.metadata = work.metadata
         /\ work'.swap = work.swap /\ work'.retract = work.retract /\ work'.gc = work.gc
<1>1. PICK c \in work.copies :
        /\ c.from \in DOMAIN store
        /\ StorePut(c.to, store[c.from])
        /\ work' = [work EXCEPT !.copies = @ \ {c}]
  BY DEF CopyOne
<1>2. c \in C
  BY DEF Shape
<1>3. work'.copies = work.copies \ {c}
  BY <1>1 DEF Shape
<1> QED BY <1>1, <1>2, <1>3 DEF Shape

LEMMA UploadOneFields ==
  ASSUME NEW C, NEW U, NEW M, NEW W, NEW R, NEW G, work \in Shape(C, U, M, W, R, G), UploadOne
  PROVE  /\ work' \in Shape(C, U, M, W, R, G)
         /\ work.copies = {} /\ work'.copies = {}
         /\ \E u \in work.uploads :
              /\ u \in U
              /\ StorePut(u.to, u.data)
              /\ work'.uploads = work.uploads \ {u}
         /\ work'.metadata = work.metadata
         /\ work'.swap = work.swap /\ work'.retract = work.retract /\ work'.gc = work.gc
<1>1. PICK u \in work.uploads :
        /\ StorePut(u.to, u.data)
        /\ work' = [work EXCEPT !.uploads = @ \ {u}]
  BY DEF UploadOne
<1>2. u \in U /\ work.copies = {}
  BY DEF Shape, UploadOne, Uploading
<1>3. work'.uploads = work.uploads \ {u}
  BY <1>1 DEF Shape
<1> QED BY <1>1, <1>2, <1>3 DEF Shape

LEMMA WriteMetadataFields ==
  ASSUME NEW C, NEW U, NEW M, NEW W, NEW R, NEW G, work \in Shape(C, U, M, W, R, G), WriteMetadata
  PROVE  LET u == Head(work.metadata) IN
         /\ work' \in Shape(C, U, M, W, R, G)
         /\ work.copies = {} /\ work'.copies = {} /\ work.uploads = {} /\ work'.uploads = {}
         /\ u \in M /\ u \in Range(work.metadata)
         /\ StorePut(u.to, u.data)
         /\ Range(work'.metadata) \subseteq Range(work.metadata)
         /\ Range(work.metadata) \subseteq {u} \cup Range(work'.metadata)
         /\ work'.swap = work.swap /\ work'.retract = work.retract /\ work'.gc = work.gc
<1> DEFINE u == Head(work.metadata)
<1>1. work.metadata \in Seq(M) /\ work.metadata # <<>> /\ work.copies = {} /\ work.uploads = {}
  BY DEF Shape, WriteMetadata, Describing, Packaged
<1>2. /\ u \in M /\ u \in Range(work.metadata)
      /\ Tail(work.metadata) \in Seq(M)
      /\ Range(Tail(work.metadata)) \subseteq Range(work.metadata)
      /\ Range(work.metadata) \subseteq {u} \cup Range(Tail(work.metadata))
  BY <1>1, HeadTail
<1>3. StorePut(u.to, u.data) /\ work' = [work EXCEPT !.metadata = Tail(@)]
  BY DEF WriteMetadata
<1> HIDE DEF u
<1>4. work'.metadata = Tail(work.metadata)
  BY <1>3 DEF Shape
<1> QED BY <1>1, <1>2, <1>3, <1>4 DEF Shape, u

LEMMA SwapOneFields ==
  ASSUME NEW C, NEW U, NEW M, NEW W, NEW R, NEW G, work \in Shape(C, U, M, W, R, G), SwapOne
  PROVE  LET s == Head(work.swap) IN
         /\ work' \in Shape(C, U, M, W, R, G)
         /\ work.copies = {} /\ work'.copies = {} /\ Puts(work) = {} /\ Puts(work') = {}
         /\ s \in W /\ s \in Range(work.swap)
         /\ StorePut(s.to, s.data)
         /\ work.swap # <<>> /\ work'.swap = Tail(work.swap)
         /\ Range(work'.swap) \subseteq Range(work.swap)
         /\ Range(work.swap) \subseteq {s} \cup Range(work'.swap)
         /\ work'.retract = work.retract /\ work'.gc = work.gc
<1> DEFINE s == Head(work.swap)
<1>1. work.swap \in Seq(W) /\ work.swap # <<>> /\ work.copies = {}
      /\ work.uploads = {} /\ work.metadata = <<>>
  BY DEF Shape, SwapOne, Swapping, Placed, Packaged
<1>2. /\ s \in W /\ s \in Range(work.swap)
      /\ Tail(work.swap) \in Seq(W)
      /\ Range(Tail(work.swap)) \subseteq Range(work.swap)
      /\ Range(work.swap) \subseteq {s} \cup Range(Tail(work.swap))
  BY <1>1, HeadTail
<1>3. StorePut(s.to, s.data) /\ work' = [work EXCEPT !.swap = Tail(@)]
  BY DEF SwapOne
<1> HIDE DEF s
<1>4. work'.swap = Tail(work.swap)
  BY <1>3 DEF Shape
<1>5. /\ work' \in Shape(C, U, M, W, R, G)
      /\ work'.copies = work.copies /\ work'.uploads = work.uploads
      /\ work'.metadata = work.metadata /\ work'.retract = work.retract /\ work'.gc = work.gc
  BY <1>2, <1>3, <1>4 DEF Shape
<1>6. Puts(work) = {} /\ Puts(work') = {}
  BY <1>1, <1>5 DEF Puts, Range
<1> QED BY <1>1, <1>2, <1>3, <1>4, <1>5, <1>6 DEF s

LEMMA RetractOneFields ==
  ASSUME NEW C, NEW U, NEW M, NEW W, NEW R, NEW G, work \in Shape(C, U, M, W, R, G), RetractOne
  PROVE  LET h == Head(work.retract) IN
         /\ work' \in Shape(C, U, M, W, R, G)
         /\ work.copies = {} /\ work'.copies = {} /\ Puts(work) = {} /\ Puts(work') = {}
         /\ work.swap = <<>> /\ work'.swap = <<>> /\ Range(work.swap) = {}
         /\ h \in R /\ h \in Range(work.retract)
         /\ StoreDelete(h)
         /\ work.retract # <<>> /\ work'.retract = Tail(work.retract)
         /\ Range(work'.retract) \subseteq Range(work.retract)
         /\ Range(work.retract) \subseteq {h} \cup Range(work'.retract)
         /\ work'.gc = work.gc
<1> DEFINE h == Head(work.retract)
<1>1. work.retract \in Seq(R) /\ work.retract # <<>> /\ work.copies = {}
      /\ work.uploads = {} /\ work.metadata = <<>> /\ work.swap = <<>>
  BY DEF Shape, RetractOne, Retracting, Published, Placed, Packaged
<1>2. /\ h \in R /\ h \in Range(work.retract)
      /\ Tail(work.retract) \in Seq(R)
      /\ Range(Tail(work.retract)) \subseteq Range(work.retract)
      /\ Range(work.retract) \subseteq {h} \cup Range(Tail(work.retract))
  BY <1>1, HeadTail
<1>3. StoreDelete(h) /\ work' = [work EXCEPT !.retract = Tail(@)]
  BY DEF RetractOne
<1> HIDE DEF h
<1>4. work'.retract = Tail(work.retract)
  BY <1>3 DEF Shape
<1>5. /\ work' \in Shape(C, U, M, W, R, G)
      /\ work'.copies = work.copies /\ work'.uploads = work.uploads
      /\ work'.metadata = work.metadata /\ work'.swap = work.swap /\ work'.gc = work.gc
  BY <1>2, <1>3, <1>4 DEF Shape
<1>6. Puts(work) = {} /\ Puts(work') = {} /\ Range(work.swap) = {}
  BY <1>1, <1>5 DEF Puts, Range
<1> QED BY <1>1, <1>2, <1>3, <1>4, <1>5, <1>6 DEF h

\* Either way of CollectOne: a deletion, or an empty group passed over.
LEMMA CollectOneFields ==
  ASSUME NEW C, NEW U, NEW M, NEW W, NEW R, NEW G, work \in Shape(C, U, M, W, R, G), CollectOne
  PROVE  /\ work' \in Shape(C, U, M, W, R, G)
         /\ work.copies = {} /\ work'.copies = {} /\ Puts(work) = {} /\ Puts(work') = {}
         /\ work.swap = <<>> /\ work'.swap = <<>> /\ work.retract = <<>> /\ work'.retract = <<>>
         /\ Range(work.swap) = {} /\ Range(work.retract) = {}
         /\ UNION Range(work'.gc) \subseteq UNION Range(work.gc)
         /\ \/ UNCHANGED store /\ UNION Range(work.gc) \subseteq UNION Range(work'.gc)
            \/ \E p \in UNION Range(work.gc) :
                 /\ p \in G /\ StoreDelete(p)
                 /\ UNION Range(work.gc) \subseteq {p} \cup UNION Range(work'.gc)
<1>1. work.gc \in Seq(SUBSET G) /\ work.gc # <<>> /\ work.copies = {} /\ work.uploads = {}
      /\ work.metadata = <<>> /\ work.swap = <<>> /\ work.retract = <<>>
  BY DEF Shape, CollectOne, Collecting, Published, Placed, Packaged
<1>2. /\ Head(work.gc) \in Range(work.gc) /\ Head(work.gc) \subseteq G
      /\ Tail(work.gc) \in Seq(SUBSET G)
      /\ Range(Tail(work.gc)) \subseteq Range(work.gc)
      /\ Range(work.gc) \subseteq {Head(work.gc)} \cup Range(Tail(work.gc))
  BY <1>1, HeadTail
<1>3. ASSUME NEW t \in Seq(SUBSET G), UNION Range(t) \subseteq UNION Range(work.gc),
             work' = [work EXCEPT !.gc = t]
      PROVE  /\ work' \in Shape(C, U, M, W, R, G)
             /\ work'.gc = t
             /\ work'.copies = {} /\ Puts(work) = {} /\ Puts(work') = {}
             /\ work'.swap = <<>> /\ work'.retract = <<>>
             /\ Range(work.swap) = {} /\ Range(work.retract) = {}
             /\ UNION Range(work'.gc) \subseteq UNION Range(work.gc)
  <2>1. work'.gc = t
    BY <1>3 DEF Shape
  <2>2. /\ work' \in Shape(C, U, M, W, R, G)
        /\ work'.copies = work.copies /\ work'.uploads = work.uploads
        /\ work'.metadata = work.metadata /\ work'.swap = work.swap
        /\ work'.retract = work.retract
    BY <1>3 DEF Shape
  <2> QED BY <1>1, <1>3, <2>1, <2>2 DEF Puts, Range
<1>4. CASE Head(work.gc) = {} /\ work' = [work EXCEPT !.gc = Tail(@)] /\ UNCHANGED store
  <2>1. /\ UNION Range(Tail(work.gc)) \subseteq UNION Range(work.gc)
        /\ UNION Range(work.gc) \subseteq UNION Range(Tail(work.gc))
    BY <1>2, <1>4
  <2> QED BY <1>1, <1>2, <1>3, <1>4, <2>1
<1>5. ASSUME NEW p \in Head(work.gc), StoreDelete(p),
             work' = [work EXCEPT !.gc = <<Head(@) \ {p}>> \o Tail(@)]
      PROVE  /\ p \in UNION Range(work.gc) /\ p \in G
             /\ UNION Range(work.gc) \subseteq {p} \cup UNION Range(work'.gc)
             /\ work' \in Shape(C, U, M, W, R, G)
             /\ work'.copies = {} /\ Puts(work) = {} /\ Puts(work') = {}
             /\ work'.swap = <<>> /\ work'.retract = <<>>
             /\ Range(work.swap) = {} /\ Range(work.retract) = {}
             /\ UNION Range(work'.gc) \subseteq UNION Range(work.gc)
  <2> DEFINE t == <<Head(work.gc) \ {p}>> \o Tail(work.gc)
  <2>1. /\ t \in Seq(SUBSET G) /\ UNION Range(t) \subseteq UNION Range(work.gc)
        /\ UNION Range(work.gc) \subseteq {p} \cup UNION Range(t)
    BY <1>1, ShrinkHead
  <2>2. work' = [work EXCEPT !.gc = t]
    BY <1>5
  <2> HIDE DEF t
  <2>3. p \in UNION Range(work.gc) /\ p \in G
    BY <1>2
  <2> QED BY <1>3, <1>5, <2>1, <2>2, <2>3
<1>6. \/ Head(work.gc) = {} /\ work' = [work EXCEPT !.gc = Tail(@)] /\ UNCHANGED store
      \/ \E p \in Head(work.gc) :
           /\ StoreDelete(p)
           /\ work' = [work EXCEPT !.gc = <<Head(@) \ {p}>> \o Tail(@)]
  BY DEF CollectOne
<1>7. ASSUME NEW p \in Head(work.gc), StoreDelete(p),
             work' = [work EXCEPT !.gc = <<Head(@) \ {p}>> \o Tail(@)]
      PROVE  \E q \in UNION Range(work.gc) :
               /\ q \in G /\ StoreDelete(q)
               /\ UNION Range(work.gc) \subseteq {q} \cup UNION Range(work'.gc)
  BY <1>5, <1>7
<1> QED BY <1>1, <1>4, <1>5, <1>6, <1>7

----------------------------------------------------------------------------
(* Each action keeps the store whole, and what is left of the work sound.  *)

LEMMA CopyOneSound ==
  ASSUME NEW C, NEW U, NEW M, NEW W, NEW R, NEW G, work \in Shape(C, U, M, W, R, G),
         Whole, StaysSound, CopyOne
  PROVE  Whole' /\ StaysSound' /\ Live' = Live /\ \A q \in Live : store'[q] = store[q]
<1>1. PICK c \in work.copies :
        /\ c.from \in DOMAIN store
        /\ StorePut(c.to, store[c.from])
        /\ work'.copies = work.copies \ {c}
  BY CopyOneFields
<1>2. c.to \notin DOMAIN store /\ c.to \notin IndexPaths
  BY <1>1 DEF StaysSound, Sound, SoundCopies
<1>3. /\ DOMAIN store' = DOMAIN store \cup {c.to}
      /\ store'[c.to] = store[c.from]
      /\ \A q \in DOMAIN store : store'[q] = store[q]
  BY <1>1, <1>2, PutFacts
<1>4. /\ work'.uploads = work.uploads
      /\ work'.metadata = work.metadata
      /\ work'.swap = work.swap
      /\ work'.retract = work.retract
      /\ work'.gc = work.gc
  BY CopyOneFields
<1>5. Live' = Live /\ \A q \in Live : store'[q] = store[q]
  BY <1>2, <1>3 DEF Live
<1>6. Whole'
  BY <1>3, <1>5 DEF Whole, Complete
<1>7. SoundCopies(work)'
  BY <1>1, <1>2, <1>3, <1>4 DEF StaysSound, Sound, SoundCopies
<1>8. SoundPuts(work)'
  BY <1>4, <1>5 DEF StaysSound, Sound, SoundPuts, Puts, Harmless
<1>9. SoundSwap(work)'
  <2> SUFFICES ASSUME NEW s \in Range(work.swap), NEW p \in DOMAIN Needs(s.data)
               PROVE  /\ s.to \in IndexPaths
                      /\ \A d \in work'.copies : d.to = p => store'[d.from] = Needs(s.data)[p]
                      /\ \A u \in Puts(work') : u.to = p => u.data = Needs(s.data)[p]
                      /\ \/ \E d \in work'.copies : d.to = p
                         \/ \E u \in Puts(work') : u.to = p
                         \/ p \in DOMAIN store' /\ store'[p] = Needs(s.data)[p]
    <3>1. \A s \in Range(work.swap) : s.to \in IndexPaths
      BY DEF StaysSound, Sound, SoundSwap
    <3> QED BY <1>4, <3>1 DEF SoundSwap
  <2>1. Puts(work') = Puts(work)
    BY <1>4 DEF Puts
  <2>2. /\ s.to \in IndexPaths
        /\ \A d \in work.copies : d.to = p => store[d.from] = Needs(s.data)[p]
        /\ \A u \in Puts(work) : u.to = p => u.data = Needs(s.data)[p]
        /\ \/ \E d \in work.copies : d.to = p
           \/ \E u \in Puts(work) : u.to = p
           \/ p \in DOMAIN store /\ store[p] = Needs(s.data)[p]
    BY DEF StaysSound, Sound, SoundSwap
  <2>3. \A d \in work.copies : d.from \in DOMAIN store
    BY DEF StaysSound, Sound, SoundCopies
  <2> QED BY <1>1, <1>3, <1>4, <2>1, <2>2, <2>3
<1>10. SoundRetract(work)' /\ SoundGC(work)'
  BY <1>4, <1>5 DEF StaysSound, Sound, SoundRetract, SoundGC
<1> QED BY <1>5, <1>6, <1>7, <1>8, <1>9, <1>10 DEF StaysSound, Sound

\* What an upload and a metadata file have in common: a put that was due.
LEMMA PutDueSound ==
  ASSUME Whole, StaysSound, NEW u \in Puts(work), work.copies = {},
         StorePut(u.to, u.data), work'.copies = {},
         Puts(work') \subseteq Puts(work), Puts(work) \subseteq {u} \cup Puts(work'),
         work'.swap = work.swap, work'.retract = work.retract, work'.gc = work.gc
  PROVE  Whole' /\ StaysSound' /\ Live' = Live /\ \A q \in Live : store'[q] = store[q]
<1>1. Harmless(u.to, u.data)
  BY DEF StaysSound, Sound, SoundPuts
<1>2. /\ DOMAIN store' = DOMAIN store \cup {u.to}
      /\ store'[u.to] = u.data
      /\ \A q \in DOMAIN store : q # u.to => store'[q] = store[q]
  BY PutFacts
<1>3. Live' = Live /\ \A q \in Live : store'[q] = store[q]
  BY <1>1, <1>2 DEF Live, Harmless
<1>4. Whole'
  BY <1>1, <1>2, <1>3 DEF Whole, Complete, Harmless
<1>5. SoundCopies(work)' /\ SoundRetract(work)' /\ SoundGC(work)'
  BY <1>3 DEF StaysSound, Sound, SoundCopies, SoundRetract, SoundGC
<1>6. SoundPuts(work)'
  BY <1>3 DEF StaysSound, Sound, SoundPuts, Harmless, Puts
<1>7. SoundSwap(work)'
  <2> SUFFICES ASSUME NEW s \in Range(work.swap), NEW p \in DOMAIN Needs(s.data)
               PROVE  /\ \A v \in Puts(work') : v.to = p => v.data = Needs(s.data)[p]
                      /\ \/ \E v \in Puts(work') : v.to = p
                         \/ p \in DOMAIN store' /\ store'[p] = Needs(s.data)[p]
    <3>1. \A s \in Range(work.swap) : s.to \in IndexPaths
      BY DEF StaysSound, Sound, SoundSwap
    <3> QED BY <3>1 DEF SoundSwap
  <2>1. /\ \A v \in Puts(work) : v.to = p => v.data = Needs(s.data)[p]
        /\ \/ \E v \in Puts(work) : v.to = p
           \/ p \in DOMAIN store /\ store[p] = Needs(s.data)[p]
    BY DEF StaysSound, Sound, SoundSwap
  <2> QED BY <1>2, <2>1
<1> QED BY <1>3, <1>4, <1>5, <1>6, <1>7 DEF StaysSound, Sound

LEMMA UploadOneSound ==
  ASSUME NEW C, NEW U, NEW M, NEW W, NEW R, NEW G, work \in Shape(C, U, M, W, R, G),
         Whole, StaysSound, UploadOne
  PROVE  Whole' /\ StaysSound' /\ Live' = Live /\ \A q \in Live : store'[q] = store[q]
<1>1. PICK u \in work.uploads : StorePut(u.to, u.data) /\ work'.uploads = work.uploads \ {u}
  BY UploadOneFields
<1>2. /\ work.copies = {} /\ work'.copies = {}
      /\ work'.metadata = work.metadata
      /\ work'.swap = work.swap /\ work'.retract = work.retract /\ work'.gc = work.gc
  BY UploadOneFields
<1>3. u \in Puts(work) /\ Puts(work') \subseteq Puts(work) /\ Puts(work) \subseteq {u} \cup Puts(work')
  BY <1>1, <1>2 DEF Puts
<1> QED BY <1>1, <1>2, <1>3, PutDueSound

LEMMA WriteMetadataSound ==
  ASSUME NEW C, NEW U, NEW M, NEW W, NEW R, NEW G, work \in Shape(C, U, M, W, R, G),
         Whole, StaysSound, WriteMetadata
  PROVE  Whole' /\ StaysSound' /\ Live' = Live /\ \A q \in Live : store'[q] = store[q]
<1> DEFINE u == Head(work.metadata)
<1>1. /\ work.copies = {} /\ work'.copies = {} /\ work.uploads = {} /\ work'.uploads = {}
      /\ u \in Range(work.metadata)
      /\ StorePut(u.to, u.data)
      /\ Range(work'.metadata) \subseteq Range(work.metadata)
      /\ Range(work.metadata) \subseteq {u} \cup Range(work'.metadata)
      /\ work'.swap = work.swap /\ work'.retract = work.retract /\ work'.gc = work.gc
  BY WriteMetadataFields
<1> HIDE DEF u
<1>2. u \in Puts(work) /\ Puts(work') \subseteq Puts(work) /\ Puts(work) \subseteq {u} \cup Puts(work')
  BY <1>1 DEF Puts
<1> QED BY <1>1, <1>2, PutDueSound

\* The file that is swapped in is an index, and everything it names is there.
LEMMA SwapOneSound ==
  ASSUME NEW C, NEW U, NEW M, NEW W, NEW R, NEW G, work \in Shape(C, U, M, W, R, G),
         Whole, StaysSound, Apart, SwapOne
  PROVE  LET s == Head(work.swap) IN
         /\ Whole' /\ StaysSound'
         /\ s.to \in IndexPaths /\ Live' = Live \cup {s.to} /\ store'[s.to] = s.data
         /\ \A q \in Live : q # s.to => store'[q] = store[q]
<1> DEFINE s == Head(work.swap)
<1>1. /\ work.copies = {} /\ work'.copies = {} /\ Puts(work) = {} /\ Puts(work') = {}
      /\ s \in Range(work.swap)
      /\ StorePut(s.to, s.data)
      /\ Range(work'.swap) \subseteq Range(work.swap)
      /\ Range(work.swap) \subseteq {s} \cup Range(work'.swap)
      /\ work'.retract = work.retract /\ work'.gc = work.gc
  BY SwapOneFields
<1> HIDE DEF s
<1>2. s.to \in IndexPaths
  BY <1>1 DEF StaysSound, Sound, SoundSwap
<1>3. /\ DOMAIN store' = DOMAIN store \cup {s.to}
      /\ store'[s.to] = s.data
      /\ \A q \in DOMAIN store : q # s.to => store'[q] = store[q]
  BY <1>1, PutFacts
<1>4. Live' = Live \cup {s.to} /\ \A q \in Live : q # s.to => store'[q] = store[q]
  BY <1>2, <1>3 DEF Live
<1>5. \A r \in Range(work.swap) : Complete(r.data)
  BY <1>1 DEF StaysSound, Sound, SoundSwap, Complete
<1>6. ASSUME NEW c, DOMAIN Needs(c) \cap IndexPaths = {}, Complete(c), NEW p \in DOMAIN Needs(c)
      PROVE  p \in DOMAIN store' /\ store'[p] = Needs(c)[p]
  BY <1>2, <1>3, <1>6 DEF Complete
<1>7. Whole'
  <2> SUFFICES ASSUME NEW q \in Live', NEW p \in DOMAIN Needs(store'[q])
               PROVE  p \in DOMAIN store' /\ store'[p] = Needs(store'[q])[p]
    BY DEF Whole, Complete
  <2>1. CASE q = s.to
    <3>1. Complete(s.data) /\ DOMAIN Needs(s.data) \cap IndexPaths = {} /\ store'[q] = s.data
      BY <2>1, <1>1, <1>3, <1>5 DEF Apart
    <3> QED BY <3>1, <1>6
  <2>2. CASE q # s.to
    <3>1. q \in Live /\ store'[q] = store[q]
      BY <2>2, <1>4
    <3>2. Complete(store[q]) /\ DOMAIN Needs(store[q]) \cap IndexPaths = {}
      BY <3>1 DEF Whole, Apart
    <3> QED BY <3>1, <3>2, <1>6
  <2> QED BY <2>1, <2>2
<1>8. SoundCopies(work)' /\ SoundPuts(work)' /\ SoundRetract(work)'
  BY <1>1 DEF StaysSound, Sound, SoundCopies, SoundPuts, SoundRetract
<1>9. SoundSwap(work)'
  <2> SUFFICES ASSUME NEW r \in Range(work'.swap)
               PROVE  /\ r.to \in IndexPaths
                      /\ \A p \in DOMAIN Needs(r.data) :
                           p \in DOMAIN store' /\ store'[p] = Needs(r.data)[p]
    BY <1>1 DEF SoundSwap
  <2>1. r \in Range(work.swap)
    BY <1>1
  <2>2. \A p \in DOMAIN Needs(r.data) : p \in DOMAIN store' /\ store'[p] = Needs(r.data)[p]
    BY <2>1, <1>5, <1>6 DEF Apart
  <2> QED BY <2>1, <2>2 DEF StaysSound, Sound, SoundSwap
<1>10. SoundGC(work)'
  <2> SUFFICES ASSUME NEW p \in UNION Range(work.gc)
               PROVE  /\ p \notin IndexPaths
                      /\ \A r \in Range(work'.swap) : p \notin DOMAIN Needs(r.data)
                      /\ \A q \in Live' : p \in DOMAIN Needs(store'[q]) =>
                           q \in Range(work.retract) \cup {r.to : r \in Range(work'.swap)}
    BY <1>1 DEF SoundGC
  <2>1. /\ p \notin IndexPaths
        /\ \A r \in Range(work.swap) : p \notin DOMAIN Needs(r.data)
        /\ \A q \in Live : p \in DOMAIN Needs(store[q]) =>
             q \in Range(work.retract) \cup {r.to : r \in Range(work.swap)}
    BY DEF StaysSound, Sound, SoundGC
  <2>2. ASSUME NEW q \in Live', p \in DOMAIN Needs(store'[q])
        PROVE  q \in Range(work.retract) \cup {r.to : r \in Range(work'.swap)}
    <3>1. q # s.to
      BY <1>1, <1>3, <2>1, <2>2
    <3>2. q \in Live /\ store'[q] = store[q]
      BY <3>1, <1>4
    <3> QED BY <3>1, <3>2, <2>1, <2>2, <1>1
  <2> QED BY <1>1, <2>1, <2>2
<1> QED BY <1>2, <1>3, <1>4, <1>7, <1>8, <1>9, <1>10 DEF StaysSound, Sound, s

LEMMA RetractOneSound ==
  ASSUME NEW C, NEW U, NEW M, NEW W, NEW R, NEW G, work \in Shape(C, U, M, W, R, G),
         Whole, StaysSound, Apart, RetractOne
  PROVE  LET h == Head(work.retract) IN
         /\ Whole' /\ StaysSound'
         /\ h \in IndexPaths /\ Live' = Live \ {h}
         /\ \A q \in Live' : store'[q] = store[q]
<1> DEFINE h == Head(work.retract)
<1>1. /\ work.copies = {} /\ work'.copies = {} /\ Puts(work) = {} /\ Puts(work') = {}
      /\ work'.swap = work.swap /\ Range(work.swap) = {}
      /\ h \in Range(work.retract)
      /\ StoreDelete(h)
      /\ Range(work'.retract) \subseteq Range(work.retract)
      /\ Range(work.retract) \subseteq {h} \cup Range(work'.retract)
      /\ work'.gc = work.gc
  BY RetractOneFields
<1> HIDE DEF h
<1>2. /\ DOMAIN store' = DOMAIN store \ {h}
      /\ \A q \in DOMAIN store' : store'[q] = store[q]
  BY <1>1, DeleteFacts
<1>3. h \in IndexPaths
  BY <1>1 DEF StaysSound, Sound, SoundRetract
<1>4. Live' = Live \ {h} /\ \A q \in Live' : store'[q] = store[q]
  BY <1>2 DEF Live
<1>5. Whole'
  <2> SUFFICES ASSUME NEW q \in Live', NEW p \in DOMAIN Needs(store'[q])
               PROVE  p \in DOMAIN store' /\ store'[p] = Needs(store'[q])[p]
    BY DEF Whole, Complete
  <2>1. p # h
    BY <1>3, <1>4 DEF Apart
  <2>2. p \in DOMAIN store /\ store[p] = Needs(store[q])[p]
    BY <1>4 DEF Whole, Complete
  <2> QED BY <1>2, <1>4, <2>1, <2>2
<1>6. SoundCopies(work)' /\ SoundPuts(work)' /\ SoundSwap(work)' /\ SoundRetract(work)'
  BY <1>1 DEF StaysSound, Sound, SoundCopies, SoundPuts, SoundSwap, SoundRetract, Puts
<1>7. SoundGC(work)'
  <2> SUFFICES ASSUME NEW p \in UNION Range(work.gc)
               PROVE  /\ p \notin IndexPaths
                      /\ \A q \in Live' : p \in DOMAIN Needs(store'[q]) => q \in Range(work'.retract)
    BY <1>1 DEF SoundGC
  <2> QED BY <1>1, <1>4 DEF StaysSound, Sound, SoundGC
<1> QED BY <1>3, <1>4, <1>5, <1>6, <1>7 DEF StaysSound, Sound, h

LEMMA CollectOneSound ==
  ASSUME NEW C, NEW U, NEW M, NEW W, NEW R, NEW G, work \in Shape(C, U, M, W, R, G),
         Whole, StaysSound, CollectOne
  PROVE  Whole' /\ StaysSound' /\ Live' = Live /\ \A q \in Live : store'[q] = store[q]
<1>1. /\ work.copies = {} /\ work'.copies = {} /\ Puts(work) = {} /\ Puts(work') = {}
      /\ work'.swap = work.swap /\ work'.retract = work.retract
      /\ Range(work.swap) = {} /\ Range(work.retract) = {}
      /\ UNION Range(work'.gc) \subseteq UNION Range(work.gc)
      /\ \/ UNCHANGED store
         \/ \E p \in UNION Range(work.gc) : StoreDelete(p)
  BY CollectOneFields
<1>2. \A p \in UNION Range(work.gc) :
        p \notin IndexPaths /\ \A q \in Live : p \notin DOMAIN Needs(store[q])
  BY <1>1 DEF StaysSound, Sound, SoundGC
<1>3. Whole' /\ Live' = Live /\ \A q \in Live : store'[q] = store[q]
  <2>1. CASE UNCHANGED store
    BY <2>1 DEF Whole, Complete, Live
  <2>2. ASSUME NEW p \in UNION Range(work.gc), StoreDelete(p)
        PROVE  Whole' /\ Live' = Live /\ \A q \in Live : store'[q] = store[q]
    <3>1. DOMAIN store' = DOMAIN store \ {p} /\ \A q \in DOMAIN store' : store'[q] = store[q]
      BY <2>2, DeleteFacts
    <3>2. Live' = Live /\ \A q \in Live : store'[q] = store[q]
      BY <1>2, <3>1 DEF Live
    <3> QED BY <1>2, <3>1, <3>2 DEF Whole, Complete
  <2> QED BY <1>1, <2>1, <2>2
<1>4. SoundCopies(work)' /\ SoundPuts(work)' /\ SoundSwap(work)' /\ SoundRetract(work)'
  BY <1>1 DEF StaysSound, Sound, SoundCopies, SoundPuts, SoundSwap, SoundRetract, Puts
<1>5. SoundGC(work)'
  BY <1>1, <1>2, <1>3 DEF SoundGC
<1> QED BY <1>3, <1>4, <1>5 DEF StaysSound, Sound

\* With nothing left to do there is nothing to be sound about.
LEMMA IdleSound ==
  /\ work = NoSteps => StaysSound
  /\ work' = NoSteps => StaysSound'
<1>1. ASSUME NEW w, w = NoSteps
      PROVE  w.copies = {} /\ Puts(w) = {} /\ Range(w.swap) = {} /\ Range(w.retract) = {} /\ Range(w.gc) = {}
  BY <1>1 DEF NoSteps, Puts, Range
<1> QED
  BY <1>1 DEF StaysSound, Sound, SoundCopies, SoundPuts, SoundSwap, SoundRetract, SoundGC

LEMMA NoStepsShape == \A C, U, M, W, R, G : NoSteps \in Shape(C, U, M, W, R, G)
BY DEF NoSteps, Shape

LEMMA StopSound ==
  ASSUME Whole, Stop
  PROVE  Whole' /\ StaysSound' /\ Live' = Live /\ \A q \in Live : store'[q] = store[q]
BY IdleSound DEF Stop, Whole, Complete, Live

LEMMA StopInCopySound ==
  ASSUME Whole, StaysSound, StopInCopy
  PROVE  Whole' /\ StaysSound' /\ Live' = Live /\ \A q \in Live : store'[q] = store[q]
<1>1. PICK c \in work.copies : StorePut(c.to, Partial)
  BY DEF StopInCopy
<1>2. c.to \notin DOMAIN store /\ c.to \notin IndexPaths
  BY <1>1 DEF StaysSound, Sound, SoundCopies
<1>3. DOMAIN store' = DOMAIN store \cup {c.to} /\ \A q \in DOMAIN store : store'[q] = store[q]
  BY <1>1, <1>2, PutFacts
<1>4. Live' = Live /\ \A q \in Live : store'[q] = store[q]
  BY <1>2, <1>3 DEF Live
<1>5. Whole'
  BY <1>3, <1>4 DEF Whole, Complete
<1> QED BY <1>4, <1>5, IdleSound DEF StopInCopy

\* The whole of Execute: a sound publish of a whole store leaves a whole store
\* and a sound rest, step by step, and wherever it is cut short.
LEMMA ExecuteSound ==
  ASSUME NEW C, NEW U, NEW M, NEW W, NEW R, NEW G, work \in Shape(C, U, M, W, R, G),
         Whole, StaysSound, Apart,
         Step \/ Stop \/ StopInCopy
  PROVE  Whole' /\ StaysSound'
BY CopyOneSound, UploadOneSound, WriteMetadataSound, SwapOneSound, RetractOneSound,
   CollectOneSound, StopSound, StopInCopySound DEF Step

LEMMA ExecuteShape ==
  ASSUME NEW C, NEW U, NEW M, NEW W, NEW R, NEW G, work \in Shape(C, U, M, W, R, G),
         Step \/ Stop \/ StopInCopy
  PROVE  work' \in Shape(C, U, M, W, R, G)
<1>1. CASE Step
  BY <1>1, CopyOneFields, UploadOneFields, WriteMetadataFields, SwapOneFields, RetractOneFields,
     CollectOneFields DEF Step
<1>2. CASE Stop \/ StopInCopy
  BY <1>2, NoStepsShape DEF Stop, StopInCopy
<1> QED BY <1>1, <1>2
=============================================================================
