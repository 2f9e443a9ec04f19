------------------------------ MODULE Execute ------------------------------
(***************************************************************************)
(* pkg/publish/execute.go: the writes of one publish, one storage call at  *)
(* a time, over a store that clients read at every moment.  A publish may  *)
(* stop between any two calls: a call that fails makes Execute return, and *)
(* a killed process just stops.  Nothing is undone, and the next publish   *)
(* starts from what the store then holds.                                  *)
(*                                                                         *)
(* An index (repomd.xml, Release, InRelease) is a file like any other,     *)
(* whose content names files: Needs(c) maps every path the content c names *)
(* to the content c says is there.                                         *)
(***************************************************************************)
EXTENDS Integers, Sequences, Functions

CONSTANTS
  Paths,        \* every path a file may have
  Contents,     \* everything a file may hold
  IndexPaths,   \* where clients start reading
  Needs(_),     \* Needs(c): path |-> content, the files the content c names
  Partial,      \* what an interrupted copy leaves when copies are not atomic
  AtomicCopy    \* FALSE on a backend that copies in place (SFTP: cp -f)

ASSUME ContentAssumption ==
  /\ AtomicCopy \in BOOLEAN
  /\ IndexPaths \subseteq Paths
  /\ Partial \in Contents
  /\ \A c \in Contents : /\ Needs(c) \in [DOMAIN Needs(c) -> Contents]
                         /\ DOMAIN Needs(c) \subseteq Paths \ IndexPaths

Copy == [from : Paths, to : Paths]      \* publish.CopyAction
File == [to : Paths, data : Contents]   \* publish.File, publish.UploadAction

\* publish.Steps.  The copies, the uploads and each group of GC are sets: the
\* code walks them in path order, on which nothing depends.  Metadata, Swap,
\* Retract and the groups of GC are in the caller's order.
Steps == [copies   : SUBSET Copy,
          uploads  : SUBSET File,
          metadata : Seq(File),
          swap     : Seq(File),
          retract  : Seq(Paths),
          gc       : Seq(SUBSET Paths)]

NoSteps == [copies |-> {}, uploads |-> {}, metadata |-> <<>>,
            swap |-> <<>>, retract |-> <<>>, gc |-> <<>>]

VARIABLES store,   \* path |-> content, for every file the backend holds
          work     \* what is left of the Steps being executed

execVars == <<store, work>>

TypeOK == /\ store \in [DOMAIN store -> Contents]
          /\ DOMAIN store \subseteq Paths
          /\ work \in Steps

----------------------------------------------------------------------------
\* backend.Put, and backend.Delete, for which a missing file is not an error.
StorePut(p, c) == store' = [q \in DOMAIN store \cup {p} |-> IF q = p THEN c ELSE store[q]]
StoreDelete(p) == store' = [q \in DOMAIN store \ {p} |-> store[q]]

\* The loops of Execute: each is entered when the ones before it are done.
Placing    == work.copies # {}
UploadingEarly   == work.uploads # {}                          \* mutant: uploads race copies
Uploading  == work.copies = {} /\ work.uploads # {}
Packaged   == work.copies = {} /\ work.uploads = {}
Describing == Packaged /\ work.metadata # <<>>
Placed     == Packaged /\ work.metadata = <<>>
SwappingEarly    == Packaged /\ work.swap # <<>>               \* mutant: swap before metadata
Swapping   == Placed /\ work.swap # <<>>
Published  == Placed /\ work.swap = <<>>
Retracting == Published /\ work.retract # <<>>
CollectingEarly  == Placed /\ work.gc # <<>>                   \* mutant: collect before swap
Collecting == Published /\ work.retract = <<>> /\ work.gc # <<>>

\* xfer.ServerCopy: the source must be there.
CopyOne ==
  /\ Placing
  /\ \E c \in work.copies :
       /\ c.from \in DOMAIN store
       /\ StorePut(c.to, store[c.from])
       /\ work' = [work EXCEPT !.copies = @ \ {c}]

UploadOne ==
  /\ Uploading
  /\ \E u \in work.uploads :
       /\ StorePut(u.to, u.data)
       /\ work' = [work EXCEPT !.uploads = @ \ {u}]

WriteMetadata ==
  /\ Describing
  /\ StorePut(Head(work.metadata).to, Head(work.metadata).data)
  /\ work' = [work EXCEPT !.metadata = Tail(@)]

SwapOne ==
  /\ Swapping
  /\ StorePut(Head(work.swap).to, Head(work.swap).data)
  /\ work' = [work EXCEPT !.swap = Tail(@)]

RetractOne ==
  /\ Retracting
  /\ StoreDelete(Head(work.retract))
  /\ work' = [work EXCEPT !.retract = Tail(@)]

\* One deletion of the first group of GC; an empty group is passed over.
CollectOne ==
  /\ Collecting
  /\ \/ \E p \in Head(work.gc) :
          /\ StoreDelete(p)
          /\ work' = [work EXCEPT !.gc = <<Head(@) \ {p}>> \o Tail(@)]
     \/ /\ Head(work.gc) = {}
        /\ work' = [work EXCEPT !.gc = Tail(@)]
        /\ UNCHANGED store

\* A call fails, or the process dies, before the call changes anything.
Stop ==
  /\ work # NoSteps
  /\ work' = NoSteps
  /\ UNCHANGED store

\* The same in the middle of a copy that writes its destination in place.
StopInCopy ==
  /\ ~AtomicCopy
  /\ \E c \in work.copies :
       /\ c.from \in DOMAIN store
       /\ StorePut(c.to, Partial)
  /\ work' = NoSteps

Step == CopyOne \/ UploadOne \/ WriteMetadata \/ SwapOne \/ RetractOne \/ CollectOne

----------------------------------------------------------------------------
(* What a client can reach, and what Execute needs of its callers to keep  *)
(* it whole.  Sound speaks of what is left to do and of the store as it is *)
(* now, so it holds between any two of Execute's calls, not only before    *)
(* the first.                                                              *)

Live == IndexPaths \cap DOMAIN store

\* The store holds every file c names, with the content c gives it.
Complete(c) == \A p \in DOMAIN Needs(c) : p \in DOMAIN store /\ store[p] = Needs(c)[p]

\* Nothing a client can reach names a file that is not in place, or that has
\* other content than the index says (execute.go:20-23).
Whole == \A q \in Live : Complete(store[q])

\* Writing d to p changes nothing a client can reach.
Harmless(p, d) == /\ p \notin IndexPaths
                  /\ \A q \in Live : p \in DOMAIN Needs(store[q]) => Needs(store[q])[p] = d

Puts(w) == w.uploads \cup Range(w.metadata)

\* Copies read files that are there and write files that are not.
SoundCopies(w) ==
  /\ \A c \in w.copies : /\ c.from \in DOMAIN store
                         /\ c.to \notin DOMAIN store \cup IndexPaths
  /\ \A c, d \in w.copies : c.to = d.to => c = d

SoundPuts(w) == \A u \in Puts(w) : Harmless(u.to, u.data)

\* Everything a swap file names is in place already or about to be.
SoundSwap(w) ==
  \A s \in Range(w.swap) :
    /\ s.to \in IndexPaths
    /\ \A p \in DOMAIN Needs(s.data) :
         LET want == Needs(s.data)[p] IN
         /\ \A c \in w.copies : c.to = p => store[c.from] = want
         /\ \A u \in Puts(w) : u.to = p => u.data = want
         /\ \/ \E c \in w.copies : c.to = p
            \/ \E u \in Puts(w) : u.to = p
            \/ p \in DOMAIN store /\ store[p] = want

SoundRetract(w) == Range(w.retract) \subseteq IndexPaths

\* What is collected is named by no new index, and by no index file in place
\* except those the swap replaces or the retraction removes first.
SoundGC(w) ==
  \A p \in UNION Range(w.gc) :
    /\ p \notin IndexPaths
    /\ \A s \in Range(w.swap) : p \notin DOMAIN Needs(s.data)
    /\ \A q \in Live : p \in DOMAIN Needs(store[q]) =>
         q \in Range(w.retract) \cup {s.to : s \in Range(w.swap)}

Sound(w) == SoundCopies(w) /\ SoundPuts(w) /\ SoundSwap(w) /\ SoundRetract(w) /\ SoundGC(w)

\* What is left of a publish stays sound as the store changes under it.
StaysSound == Sound(work)
=============================================================================
