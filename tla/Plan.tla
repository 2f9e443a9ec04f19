-------------------------------- MODULE Plan --------------------------------
(***************************************************************************)
(* pkg/publish/plan.go: which package files a publish uploads, relocates   *)
(* server-side, skips and deletes.  A plan is computed from a State        *)
(*   referenced  path |-> content the new metadata names                   *)
(*   original    path |-> ID of the package that owned it as loaded        *)
(*   pending     path |-> content of the local file staged for it          *)
(*   copied      paths the copy command already wrote                      *)
(*   force       upload staged files whatever is there                     *)
(* and from what Stat and Hash report of the store st.  A content stands   *)
(* for its checksum, and the ID of a referenced file is that checksum.     *)
(* What original gives a path is the ID the caller recorded for it.        *)
(***************************************************************************)
CONSTANTS CanCopy,    \* the backend is a Copier
          CanHash,    \* it is a RemoteHasher and knows every file's checksum
          SizeOf(_),  \* the length of a content
          First(_)    \* the first of a set of paths, in path order

ASSUME CapabilityAssumption == CanCopy \in BOOLEAN /\ CanHash \in BOOLEAN

\* Mutants: orphans told apart by content, and every original file an orphan.
OrphansByContent(s) == {p \in DOMAIN s.original :
                          \A q \in DOMAIN s.referenced : s.referenced[q] # s.original[p]}
OrphansAll(s)       == DOMAIN s.original

Orphans(s) == DOMAIN s.original \ DOMAIN s.referenced

OrphansWith(s, id) == {p \in Orphans(s) : s.original[p] = id}

\* orphanByID: one orphan per content, the first in path order.
OrphanByID(s, id) == First(OrphansWith(s, id))

RelocatableStaged(s, p) == CanCopy /\ p \in DOMAIN s.pending  \* mutant: only what is staged moves

Relocatable(s, p) == CanCopy /\ OrphansWith(s, s.referenced[p]) # {}

Relocation(s, p) == [from |-> OrphanByID(s, s.referenced[p]), to |-> p]

\* resolveExisting: a checksum decides, or the size when there is none.
Matches(st, s, p) == IF CanHash THEN st[p] = s.referenced[p]
                                ELSE SizeOf(st[p]) = SizeOf(s.referenced[p])

\* The first loop, over the staged files.
Staged(s) == DOMAIN s.pending

StagedMoves(st, s) ==
  {p \in Staged(s) \cap DOMAIN s.referenced :
     p \notin DOMAIN st /\ ~s.force /\ Relocatable(s, p)}

Overwritten(st, s) ==
  {p \in Staged(s) \cap DOMAIN st : s.force \/ p \notin DOMAIN s.referenced}

UploadedIfAbsent(st, s) == (Staged(s) \ DOMAIN st) \ StagedMoves(st, s)  \* mutant: --force is lost

Uploaded(st, s) == Overwritten(st, s) \cup ((Staged(s) \ DOMAIN st) \ StagedMoves(st, s))

ConflictingNever(st, s) == {}  \* mutant: whatever is there is taken for the staged file

Conflicting(st, s) ==
  {p \in (Staged(s) \cap DOMAIN st) \ Overwritten(st, s) : ~Matches(st, s, p)}

\* The second loop, over the files that are referenced and not staged: a path
\* the loaded metadata had is passed over, and so is one already copied.
Unstaged(s) == DOMAIN s.referenced \ (Staged(s) \cup DOMAIN s.original \cup s.copied)

Trusted(st, s) == Unstaged(s) \cap DOMAIN st

\* What is taken to be right without a checksum, a staged file that is already
\* there among them where the backend cannot tell its checksum.
PassedOver(s) == (DOMAIN s.referenced \cap DOMAIN s.original) \ Staged(s)

BySize(st, s) ==
  {p \in (Staged(s) \cap DOMAIN st \cap DOMAIN s.referenced) \ Overwritten(st, s) : ~CanHash}

Unread(st, s) == PassedOver(s) \cup Trusted(st, s) \cup BySize(st, s)

MovesAlways(st, s) == {p \in Unstaged(s) : Relocatable(s, p)}  \* mutant: no Stat first

Moves(st, s) == {p \in Unstaged(s) \ DOMAIN st : Relocatable(s, p)}

Unplaceable(st, s) == {p \in Unstaged(s) \ DOMAIN st : ~Relocatable(s, p)}

\* PlanFiles: an error of either loop refuses the whole publish.
Refuses(st, s) == Conflicting(st, s) \cup Unplaceable(st, s) # {}

PlanFiles(st, s) ==
  [copies  |-> {Relocation(s, p) : p \in StagedMoves(st, s) \cup Moves(st, s)},
   uploads |-> {[to |-> p, data |-> s.pending[p]] : p \in Uploaded(st, s)},
   deleted |-> Orphans(s)]

\* Mutant: keep is read the wrong way round.
UnreferencedInverted(listed, keep, scheduled) == (listed \cap keep) \ scheduled

\* Unreferenced: the listed files that keep rejects and that are not already
\* in one of the scheduled lists.
Unreferenced(listed, keep, scheduled) == (listed \ keep) \ scheduled
=============================================================================
