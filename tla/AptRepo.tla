------------------------------ MODULE AptRepo ------------------------------
(***************************************************************************)
(* pkg/apt/repo: one process at a time opens one suite of a Debian         *)
(* repository, changes its index in memory and publishes it.  Several      *)
(* suites share the pool.  A suite's Release exists three times (Release,  *)
(* its detached signature, and InRelease), and every index it names exists *)
(* twice: under a plain name and under its checksum.                       *)
(*                                                                         *)
(* Components and compressions are left out: an index here is one file.    *)
(***************************************************************************)
EXTENDS Execute, Plan, FiniteSets, SequencesExt

CONSTANTS
  Suites,        \* the suites of the repository
  Entries,       \* binary and source packages, each standing for its ID
  Key(_),        \* Key(e): its kind, name and architecture
  EVR(_),        \* EVR(e): its place among the versions of that name
  ArchOf(_),     \* ArchOf(e): an architecture, "all" or "source"
  Files(_),      \* Files(e): base name |-> content, the files of e
  ArchOrder,     \* the architectures there are, in order, "all" and "source" last
  Dirs,          \* the pool directories the layout options choose between
  Uses,          \* the repositories that are examined, and what is done to each:
                 \* [store, options, calls, most, publishes, copies]
  MaxStops       \* bound: publishes cut short

VARIABLES
  mode,       \* "closed", "open" (loaded) or "publishing"
  idx,        \* r.idx: entry |-> pool directory
  old,        \* r.old: the Release as loaded, or NoRelease
  original,   \* r.original: location |-> ID of the entry that owns it, as loaded
  pending,    \* r.pending: location |-> local file
  copied,     \* r.copied: the locations a copy has written or found written
  opt,        \* r.opt, with the suite
  calls,      \* calls made by this process
  clock,      \* publishes begun so far: the time they happen at
  stops,      \* publishes cut short so far
  use         \* the member of Uses: what the first process finds, the options a
              \* process may be started with, the calls it may make before
              \* Commit, how many at most, how many publishes are begun, and how
              \* many copies instead (AptCopy)

session == <<idx, old, original, pending, copied, opt, use>>
aptVars == <<store, work, mode, session, calls, clock, stops>>

----------------------------------------------------------------------------
(* Paths and contents.  An index is [suite, arch, of]: the entries it      *)
(* lists with their directories.  It is its own by-hash path.              *)

Release(s)    == [suite |-> s, file |-> "Release"]
ReleaseGPG(s) == [suite |-> s, file |-> "Release.gpg"]
InRelease(s)  == [suite |-> s, file |-> "InRelease"]
Plain(d)      == [suite |-> d.suite, arch |-> d.arch]

Location(dir, b)  == [dir |-> dir, base |-> b]
LocationsOf(e, dir) == {Location(dir, b) : b \in DOMAIN Files(e)}

\* The entries of ix that publish a file at p.
Owners(ix, p) == {e \in DOMAIN ix : p.dir = ix[e] /\ p.base \in DOMAIN Files(e)}

AllLocations(ix) == UNION {LocationsOf(e, ix[e]) : e \in DOMAIN ix}

\* Of two entries at one location, the later in Packages() order is kept.
LastOf(E) == CHOOSE e \in E : \A x \in E : EVR(x) <= EVR(e)

\* Index.Locations: every location, with the ID of the entry that owns it.
Locations(ix) == [p \in AllLocations(ix) |-> LastOf(Owners(ix, p))]

\* fileExpectations: every location, with the content its stanza records.
FileExpectations(ix) ==
  [p \in AllLocations(ix) |-> Files(LastOf(Owners(ix, p)))[p.base]]

\* What stanzas say of the pool.  No file can be what two stanzas say of it.
PoolNeeds(stanzas) ==
  LET at(p) == {Files(s.entry)[p.base] : s \in {x \in stanzas :
                  x.dir = p.dir /\ p.base \in DOMAIN Files(x.entry)}}
  IN [p \in UNION {LocationsOf(s.entry, s.dir) : s \in stanzas} |->
        IF Cardinality(at(p)) = 1 THEN CHOOSE c \in at(p) : TRUE ELSE Partial]

NoRelease == [suite |-> "", rev |-> 0, byHash |-> FALSE, docs |-> {}, pool |-> <<>>]

ArchesOf(rel) == {d.arch : d \in rel.docs} \ {"source"}

PoolFiles == (UNION {Range(Files(e)) : e \in Entries}) \cup {Partial}

\* What a Release names: its indexes, at the path a client fetches them from,
\* and through them the files of the pool.  InRelease is a Release with its
\* signature around it; Release.gpg names nothing.
IndexPath(rel, d) == IF rel.byHash THEN d ELSE Plain(d)

NamedBy(rel) ==
  [p \in {IndexPath(rel, d) : d \in rel.docs} \cup DOMAIN rel.pool |->
     IF p \in DOMAIN rel.pool THEN rel.pool[p]
     ELSE CHOOSE d \in rel.docs : IndexPath(rel, d) = p]

AptNeeds(c) ==
  IF c \in PoolFiles THEN <<>>
  ELSE IF "docs" \in DOMAIN c THEN NamedBy(c)
  ELSE IF "inline" \in DOMAIN c THEN NamedBy(c.inline)
  ELSE <<>>

\* The values there are: the places of the pool and what a Release says of them,
\* the stanzas and indexes of a suite, its Releases, and what a process may be
\* started with.
Arches      == Range(ArchOrder)
PlacesOf(e) == {Location(dir, b) : dir \in Dirs, b \in DOMAIN Files(e)}
Places      == UNION {PlacesOf(e) : e \in Entries}
Stanza      == [entry : Entries, dir : Dirs]
Index(s)    == [suite : {s}, arch : Arches, of : SUBSET Stanza]

Releases(s, pools) ==
  [suite : {s}, rev : Nat, byHash : BOOLEAN, docs : SUBSET Index(s), pool : pools] \ {NoRelease}

IsRelease(s, c) == c \in Releases(s, {c.pool}) /\ DOMAIN c.pool \subseteq Places
                     /\ c.pool \in [DOMAIN c.pool -> PoolFiles]

Options == [suite : Suites, dir : Dirs, arches : SUBSET Arches, force : BOOLEAN, signed : BOOLEAN,
            byHash : BOOLEAN, pruneOlder : BOOLEAN, pruneBreakDeps : BOOLEAN,
            unreferenced : BOOLEAN, stale : BOOLEAN]

IsSource(e) == ArchOf(e) = "source"

\* A binary package is found under its own file name.
OwnName(p, c) == c \in Entries /\ ~IsSource(c) => DOMAIN Files(c) = {p.base}

\* A binary package is one file, which is its ID; a source package is others.
ASSUME FilesAssumption ==
  /\ Partial \notin Entries
  /\ \A e \in Entries :
       /\ DOMAIN Files(e) # {}
       /\ ~IsSource(e) => \A b \in DOMAIN Files(e) : DOMAIN Files(e) = {b} /\ Files(e)[b] = e
  /\ \A e, x \in Entries : ~IsSource(e) /\ IsSource(x) =>
       e \notin Range(Files(x)) /\ DOMAIN Files(e) \cap DOMAIN Files(x) = {}

ASSUME PackageAssumption ==
  /\ ArchOrder \in Seq(Arches)
  /\ \A E \in SUBSET Entries : E # {} => \E e \in E : \A x \in E : EVR(x) <= EVR(e)
  /\ \A e \in Entries : \A P \in SUBSET PlacesOf(e) : P # {} => First(P) \in P
  /\ \A s \in Suites, c \in PoolFiles, L \in SUBSET Places :
       c \notin Releases(s, [L -> PoolFiles]) /\ c \notin [inline : Releases(s, [L -> PoolFiles])]

\* What is found is a repository: each suite has a Release, signed or not.
ASSUME UseAssumption ==
  \A u \in Uses :
    /\ u.options \subseteq Options
    /\ \A p \in Places \cap DOMAIN u.store : OwnName(p, u.store[p])
    /\ \A s \in Suites :
         LET at(p) == u.store[p] IN
         /\ Release(s) \in DOMAIN u.store => IsRelease(s, at(Release(s)))
         /\ InRelease(s) \in DOMAIN u.store =>
              /\ at(InRelease(s)) = [inline |-> at(InRelease(s)).inline]
              /\ IsRelease(s, at(InRelease(s)).inline)
         /\ ReleaseGPG(s) \in DOMAIN u.store =>
              /\ at(ReleaseGPG(s)) = [signs |-> at(ReleaseGPG(s)).signs]
              /\ {Release(s), InRelease(s)} \cap DOMAIN u.store # {}

----------------------------------------------------------------------------
(* A process: it loads one suite, changes it, and publishes it once.       *)

\* loadRelease: InRelease is preferred.
ReleaseIn(st, s) == IF InRelease(s) \in DOMAIN st THEN st[InRelease(s)].inline
                    ELSE IF Release(s) \in DOMAIN st THEN st[Release(s)]
                    ELSE NoRelease
Root(s) == ReleaseIn(store, s)

\* fetchIndex: the plain index, or the by-hash copy where there is none; its
\* bytes must be those the Release records.
Fetchable(rel, d) == IF Plain(d) \in DOMAIN store THEN store[Plain(d)] = d
                                                  ELSE rel.byHash /\ d \in DOMAIN store
Loadable(s) == \A d \in Root(s).docs : Fetchable(Root(s), d)

\* ingestIndex: a package that is in several indexes is one entry.
Ingested(rel) ==
  LET stanzas == UNION {d.of : d \in rel.docs} IN
  [e \in {s.entry : s \in stanzas} |-> (CHOOSE s \in stanzas : s.entry = e).dir]

\* What is found lists a package at one place: nothing a Release accounts for is
\* missed when its entries are loaded.
ASSUME PlaceAssumption ==
  \A u \in Uses, s \in Suites :
    LET rel == ReleaseIn(u.store, s) IN DOMAIN rel.pool = AllLocations(Ingested(rel))

NoOptions == [suite |-> "", dir |-> "", arches |-> {}, force |-> FALSE, signed |-> FALSE,
              byHash |-> TRUE, pruneOlder |-> FALSE, pruneBreakDeps |-> FALSE,
              unreferenced |-> FALSE, stale |-> FALSE]

Open ==
  /\ mode = "closed"
  /\ mode' = "open"
  /\ opt' \in use.options
  /\ Loadable(opt'.suite)
  /\ old' = Root(opt'.suite)
  /\ idx' = Ingested(old')
  /\ original' = Locations(idx')
  /\ pending' = <<>> /\ copied' = {}
  /\ calls' = 0
  /\ UNCHANGED <<store, work, clock, stops, use>>

\* The process is gone, and what it held in memory with it.
Forget == /\ mode' = "closed"
          /\ idx' = <<>> /\ original' = <<>> /\ pending' = <<>> /\ copied' = {}
          /\ old' = NoRelease /\ opt' = NoOptions
          /\ use' = use

Call(name) == /\ mode = "open"
              /\ name \in use.calls
              /\ calls < use.most
              /\ calls' = calls + 1
              /\ UNCHANGED <<store, work, mode, old, original, copied, opt, clock, stops, use>>

Without(ix, E) == [e \in DOMAIN ix \ E |-> ix[e]]

SameVersion(e) == {x \in DOMAIN idx : Key(x) = Key(e) /\ EVR(x) = EVR(e)}
Older(e)       == {x \in DOMAIN idx : Key(x) = Key(e) /\ EVR(x) < EVR(e)}

\* What pruning removes of the candidates C: the sources among them, and all
\* the binaries with PruneBreakDeps, else those no dependent needs.
Pruned(C) == IF opt.pruneBreakDeps THEN {C}
             ELSE {G \cup {e \in C : IsSource(e)} : G \in SUBSET {e \in C : ~IsSource(e)}}

\* AddDeb and AddDSC: unlike AddRPM, they do not ask whether a location is taken.
Add(e) ==
  /\ Call("add")
  /\ \E gone \in Pruned(IF opt.pruneOlder THEN Older(e) ELSE {}) :
       idx' = [x \in (DOMAIN idx \ (SameVersion(e) \cup gone)) \cup {e} |->
                 IF x = e THEN opt.dir ELSE idx[x]]
  /\ pending' = [p \in DOMAIN pending \cup LocationsOf(e, opt.dir) |->
                   IF p \in LocationsOf(e, opt.dir) THEN Files(e)[p.base] ELSE pending[p]]

RemoveID(e) ==
  /\ Call("remove")
  /\ e \in DOMAIN idx
  /\ idx' = Without(idx, SameVersion(e))
  /\ UNCHANGED pending

\* PruneOlderVersions: one of the newest entries of each name stays.
PruneOlderVersions ==
  /\ Call("prune")
  /\ \E best \in SUBSET DOMAIN idx :
       /\ \A e \in DOMAIN idx : \E b \in best : Key(b) = Key(e) /\ EVR(b) >= EVR(e)
       /\ \A b, c \in best : Key(b) = Key(c) => b = c
       /\ \E gone \in Pruned(DOMAIN idx \ best) : idx' = Without(idx, gone)
  /\ UNCHANGED pending

RelocateAll == /\ Call("relocate")
               /\ idx' = [e \in DOMAIN idx |-> opt.dir]
               /\ UNCHANGED pending

\* RefreshFromPackages reads every binary package where it is published, which
\* is here under its own file name.
BinariesAt(p) == {e \in Owners(idx, p) : ~IsSource(e)}

BinaryLocations == UNION {LocationsOf(e, idx[e]) : e \in {x \in DOMAIN idx : ~IsSource(x)}}

Readable(p) == p \in DOMAIN store /\ store[p] \in Entries /\ ~IsSource(store[p])

Conflicts == {p \in BinaryLocations : Readable(p) /\
                \E q \in BinaryLocations \ {p} : Readable(q) /\ store[q] = store[p]}

Rereadable == {p \in BinaryLocations : Readable(p)} \ Conflicts

InOrder(p, q) == First({p, q}) = p

RemovedNever(x) == FALSE  \* mutant: the entries of the location stay as well

\* Location by location, in path order, the entries of one make way for the
\* package that is there, by ID, wherever else that ID may have been put in the
\* meantime: x is gone if the last that was done about it was to remove it.
Removed(x) == \E p \in Rereadable :
  /\ x \in BinariesAt(p)
  /\ \A q \in Rereadable : store[q] = x => q # p /\ InOrder(q, p)

Refreshed ==
  [x \in {e \in DOMAIN idx \cup {store[p] : p \in Rereadable} : ~Removed(e)} |->
     IF \E p \in Rereadable : store[p] = x
     THEN (CHOOSE p \in Rereadable : store[p] = x).dir
     ELSE idx[x]]

Refresh == /\ Call("refresh") /\ calls = 0
           /\ idx' = Refreshed
           /\ UNCHANGED pending

----------------------------------------------------------------------------
(* Commit.                                                                 *)

\* buildPlan: the State the planner is given.
PlanState == [referenced |-> FileExpectations(idx), original |-> original,
              pending |-> pending, copied |-> copied, force |-> opt.force]

\* Mutant: an architecture goes when its last package does.
ArchitecturesIndexed ==
  LET seen == {ArchOf(e) : e \in DOMAIN idx} \ {"all", "source"} IN
  IF seen = {} THEN {"all"} ELSE seen

\* architectures: those asked for, or those indexed and those published before.
Architectures ==
  LET seen == ({ArchOf(e) : e \in DOMAIN idx} \ {"all", "source"}) \cup ArchesOf(old) IN
  IF opt.arches # {} THEN opt.arches
  ELSE IF seen = {} THEN {"all"}
  ELSE IF Cardinality(seen) > 1 THEN seen \ {"all"}
  ELSE seen

Selected(a) == {e \in DOMAIN idx : ArchOf(e) = a \/ (ArchOf(e) = "all" /\ a # "source")}

\* The architectures of A, in order.
InArchOrder(A) ==
  LET kept[n \in 0 .. Len(ArchOrder)] ==
        IF n = 0 THEN <<>>
        ELSE IF ArchOrder[n] \in A THEN Append(kept[n - 1], ArchOrder[n])
        ELSE kept[n - 1]
  IN kept[Len(ArchOrder)]

\* indexDocuments: one for each architecture, and one for sources if any.
Documents ==
  LET arches == InArchOrder(Architectures \cup (IF Selected("source") # {} THEN {"source"} ELSE {}))
  IN [i \in DOMAIN arches |->
        [suite |-> opt.suite, arch |-> arches[i],
         of    |-> {[entry |-> e, dir |-> idx[e]] : e \in Selected(arches[i])}]]

NewRelease == LET docs == Range(Documents) IN
  [suite |-> opt.suite, rev |-> clock + 1, byHash |-> opt.byHash, docs |-> docs,
   pool  |-> PoolNeeds(UNION {d.of : d \in docs})]

MetadataPaths(docs, byHash) == {Plain(d) : d \in docs} \cup (IF byHash THEN docs ELSE {})

NewPaths == MetadataPaths(Range(Documents), opt.byHash)

\* Mutants: the by-hash copies are forgotten; what the new Release names too
\* is not spared.
ObsoletePlain == {Plain(d) : d \in old.docs} \ NewPaths
ObsoleteAll   == {Plain(d) : d \in old.docs} \cup old.docs

ObsoleteMeta == ({Plain(d) : d \in old.docs} \cup old.docs) \ NewPaths

IsPool(p)     == "base" \in DOMAIN p
IsSuite(p, s) == "suite" \in DOMAIN p /\ p.suite = s

\* computeCleanups: the whole pool is listed, and this suite's directory.
UnreferencedFiles(deleted) ==
  IF opt.unreferenced
  THEN Unreferenced({p \in DOMAIN store : IsPool(p)}, AllLocations(idx), deleted)
  ELSE {}

StaleMetadata ==
  IF opt.stale
  THEN Unreferenced({p \in DOMAIN store : IsSuite(p, opt.suite)},
                    NewPaths \cup
                      {Release(opt.suite), InRelease(opt.suite), ReleaseGPG(opt.suite)},
                    ObsoleteMeta)
  ELSE {}

\* Mutant: every index gets the bytes of the first.
MetadataFilesFirst(docs) ==
  LET Put(path(_)) == [i \in DOMAIN docs |-> [to |-> path(docs[i]), data |-> docs[1]]]
      Itself(d)    == d
  IN (IF opt.byHash THEN Put(Itself) ELSE <<>>) \o Put(Plain)

\* byHashFirst
MetadataFiles(docs) ==
  LET Put(path(_)) == [i \in DOMAIN docs |-> [to |-> path(docs[i]), data |-> docs[i]]]
      Itself(d)    == d
  IN (IF opt.byHash THEN Put(Itself) ELSE <<>>) \o Put(Plain)

\* InRelease goes last: it is the one apt prefers.
Swapped ==
  LET rel == NewRelease IN
  <<[to |-> Release(opt.suite), data |-> rel]>> \o
  IF opt.signed THEN <<[to |-> ReleaseGPG(opt.suite), data |-> [signs |-> rel]],
                       [to |-> InRelease(opt.suite), data |-> [inline |-> rel]]>>
                ELSE <<>>

\* Mutant: Release.gpg is forgotten.
RetractedInline == IF ~opt.signed /\ old # NoRelease THEN <<InRelease(opt.suite)>> ELSE <<>>

Retracted == IF ~opt.signed /\ old # NoRelease
             THEN <<InRelease(opt.suite), ReleaseGPG(opt.suite)>> ELSE <<>>

CommitSteps ==
  LET plan == PlanFiles(store, PlanState) IN
  [copies   |-> plan.copies,
   uploads  |-> plan.uploads,
   metadata |-> MetadataFiles(Documents),
   swap     |-> Swapped,
   retract  |-> Retracted,
   gc       |-> <<ObsoleteMeta, plan.deleted, UnreferencedFiles(plan.deleted), StaleMetadata>>]

Commit ==
  /\ mode = "open"
  /\ clock < use.publishes
  /\ ~Refuses(store, PlanState)
  /\ mode' = "publishing"
  /\ clock' = clock + 1
  /\ work' = CommitSteps
  /\ UNCHANGED <<store, session, calls, stops>>

\* The process exits without publishing: the commit was refused, a call
\* failed, or the operator declined.
Abandon == /\ mode = "open"
           /\ Forget
           /\ UNCHANGED <<store, work, calls, clock, stops>>

Publishing == /\ mode = "publishing"
              /\ Step
              /\ UNCHANGED <<mode, session, calls, clock, stops>>

Finish == /\ mode = "publishing"
          /\ work = NoSteps
          /\ Forget
          /\ UNCHANGED <<store, work, calls, clock, stops>>

\* A call fails or the process is killed: at any time, but not without end, and
\* for certain when a file that was to be moved is not there.
CutShort == /\ mode = "publishing"
            /\ stops < MaxStops \/ \E c \in work.copies : c.from \notin DOMAIN store
            /\ Stop \/ StopInCopy
            /\ Forget
            /\ stops' = stops + 1
            /\ UNCHANGED <<calls, clock>>

Init == /\ use \in Uses
        /\ store = use.store
        /\ work = NoSteps
        /\ mode = "closed"
        /\ idx = <<>> /\ original = <<>> /\ pending = <<>> /\ copied = {}
        /\ old = NoRelease /\ opt = NoOptions
        /\ calls = 0 /\ clock = 0 /\ stops = 0

Mutate == \/ \E e \in Entries : Add(e) \/ RemoveID(e)
          \/ PruneOlderVersions
          \/ RelocateAll \/ Refresh

Next == \/ Open
        \/ Mutate \/ Commit \/ Abandon \/ Publishing \/ Finish \/ CutShort

Spec == Init /\ [][Next]_aptVars

----------------------------------------------------------------------------
\* Every Release a client can start from says that indexes are found by hash.
ByHashOnly == \A q \in Live : "signs" \notin DOMAIN store[q] =>
  IF "inline" \in DOMAIN store[q] THEN store[q].inline.byHash ELSE store[q].byHash

\* What the plan does not look at, because it is there, because the loaded index
\* had a file of that name, because it was copied or because it is to be moved, and
\* what was staged, is what every stanza that names it says it is.
TrustJustified ==
  LET s           == PlanState
      Holds(p, c) == p \in DOMAIN store /\ store[p] = c
  IN \A e \in DOMAIN idx : \A b \in DOMAIN Files(e) :
       LET p == Location(idx[e], b) IN
       /\ p \in Unread(store, s) \cup copied => Holds(p, Files(e)[b])
       /\ p \in DOMAIN pending => pending[p] = Files(e)[b]
       /\ \A c \in PlanFiles(store, s).copies : c.to = p => Holds(c.from, Files(e)[b])

\* Another suite names a file that this one deletes, knowing one suite only: one
\* of its own as it was loaded, or any that it was told to find unreferenced.
PoolShared == \E q \in Live : /\ q.suite # opt.suite
                            /\ IF opt.unreferenced
                               THEN \E p \in DOMAIN Needs(store[q]) : IsPool(p)
                               ELSE DOMAIN Needs(store[q]) \cap DOMAIN original # {}

\* What was staged for an entry that a later call took out of the index again is
\* uploaded all the same: a file no index names, or one over what clients read.
StagedInVain == DOMAIN pending \ AllLocations(idx)
Dropped == \E p \in StagedInVain : \E q \in Live :
  p \in DOMAIN Needs(store[q]) /\ Needs(store[q])[p] # pending[p]

\* What may be wrong with the Steps Commit hands to Execute.
Doubtful == opt.force \/ ~ByHashOnly \/ ~TrustJustified \/ PoolShared \/ Dropped

\* A publish disturbs no client that finds indexes by hash, wherever it stops
\* (docs/createapt-go.md:50-54): the Steps of a Commit are sound for the store it
\* finds, unless they are doubtful, and Steps that are sound stay so and keep the
\* store whole, which is the hypothesis of PublishWhole.
UndisturbedIfTrusted ==
  [][use.copies = 0 /\ Whole /\ Sound(work) =>
       Whole' /\ (Sound(work)' \/ (Commit /\ Doubtful))]_aptVars

\* InRelease and the detached signature are of the Release beside them, or gone.
SignaturesAgree(s) ==
  IF opt.signed
  THEN /\ InRelease(s) \in DOMAIN store /\ store[InRelease(s)] = [inline |-> store[Release(s)]]
       /\ ReleaseGPG(s) \in DOMAIN store /\ store[ReleaseGPG(s)] = [signs |-> store[Release(s)]]
  ELSE {InRelease(s), ReleaseGPG(s)} \cap DOMAIN store = {}

\* The Release this process is about to publish, or has.
Coming == LET rest == {f \in Range(work.swap) : f.to = Release(opt.suite)} IN
          IF rest # {} THEN (CHOOSE f \in rest : TRUE).data ELSE store[Release(opt.suite)]

\* The files each suite's Release accounts for, as it would be loaded, those of
\* the one to come, and those that are still to be collected.
Accounted(rel) == DOMAIN rel.pool \cup MetadataPaths(rel.docs, rel.byHash)

Named   == UNION {Accounted(Root(s)) : s \in Suites}
Awaited == IF mode = "publishing" THEN Accounted(Coming) ELSE {}
Doomed  == UNION Range(work.gc)

Leftovers == DOMAIN store \ (IndexPaths \cup Named)
Adrift    == Leftovers \ (Awaited \cup Doomed)

\* What is published without an index naming it: files staged in vain, and those
\* of packages for an architecture that is not published.
InVain == (DOMAIN pending \cup AllLocations(idx)) \ DOMAIN Coming.pool

\* A publish diffs the old and new metadata, so orphaned files never accumulate
\* (docs/createapt-go.md:35-41): only where it is cut short does a file come to be
\* that no Release accounts for nor ever will, unless it was published in vain.
\* And the clean-up options leave no other, in the pool or in the suite's
\* directory, whatever was cut short before.
EndsTidy ==
  [][use.copies = 0 =>
       /\ stops' = stops => Adrift' \subseteq Adrift \cup (IF mode' = "publishing" THEN InVain' ELSE {})
       /\ Finish /\ opt.unreferenced /\ opt.stale =>
            \A p \in Leftovers : IsPool(p) \/ IsSuite(p, opt.suite) => p \in InVain]_aptVars

\* What is left to do gives every file that the Release names the content it
\* says, and deletes none of them.
OnCourse ==
  /\ SoundCopies(work)
  /\ \A p \in DOMAIN Needs(Coming) :
       LET want == Needs(Coming)[p] IN
       /\ p \notin Doomed
       /\ \A c \in work.copies : c.to = p => store[c.from] = want
       /\ \A u \in Puts(work) : u.to = p => u.data = want
       /\ \/ \E c \in work.copies : c.to = p
          \/ \E u \in Puts(work) : u.to = p
          \/ p \in DOMAIN store /\ store[p] = want

\* Without by-hash copies an update disturbs the clients that read during it
\* (docs/createapt-go.md:45-48), but one whose trust was justified is on course
\* from then on, and if it ends, the indexes and pool files are what Release says
\* and its three files agree (commit.go:121-125).
EndsWhole ==
  [][/\ Commit /\ TrustJustified => OnCourse'
     /\ Publishing /\ OnCourse => OnCourse'
     /\ Finish => /\ OnCourse => Complete(store[Release(opt.suite)])
                  /\ SignaturesAgree(opt.suite)]_aptVars

\* An architecture does not vanish from under a client subscribed to it, not
\* even when its last package does or when a publish is cut short
\* (commit.go:397-401).
ArchitecturesKept ==
  [][mode = "publishing" /\ opt.arches = {} =>
       \A s \in Suites : ArchesOf(Root(s)) \ {"all"} \subseteq ArchesOf(Root(s)')]_aptVars

\* A suite can be opened again wherever the last publish stopped: what an
\* interruption leaves out of place is found by its checksum (repo.go:392-398).
Reopens == mode = "closed" => \A s \in Suites : Loadable(s)

\* Two entries of the index that was loaded are for one file.
Clash == \E e, x \in DOMAIN Ingested(old) :
  e # x /\ LocationsOf(e, Ingested(old)[e]) \cap LocationsOf(x, Ingested(old)[x]) # {}

\* Moving the entries that were loaded is always possible on a backend that
\* copies: the old location of each is known by its ID (commit.go:255-256).  Not
\* so for the files of a source package, which only its .dsc has the ID of.
RelocationPlaced ==
  mode = "open" /\ use.copies = 0 /\ CanCopy /\ "refresh" \notin use.calls
    /\ pending = <<>> /\ ~opt.force /\ ~Clash
    => \A p \in Unplaceable(store, PlanState) : \E e \in Owners(idx, p) : IsSource(e)

\* The file of one entry turns out to be what another entry, for another file,
\* was about.
Displaced == \E p \in BinaryLocations :
  Readable(p) /\ store[p] \in DOMAIN idx /\ idx[store[p]] # p.dir

\* A refresh leaves an entry for every file it found one for, and each true of
\* its file if that can be read and is no second copy of another
\* (refresh.go:67-71).  Not so where packages have changed places.
RefreshTrue ==
  [][Refresh => \/ Displaced
                \/ /\ AllLocations(idx') = AllLocations(idx)
                   /\ \A p \in BinaryLocations \ Conflicts : Readable(p) =>
                        {e \in Owners(idx', p) : ~IsSource(e)} = {store[p]}]_aptVars

\* Without that exception, what refresh.go:172-174 says: no file is deleted by a
\* refresh, because an entry that survives still names it.
RefreshKeepsFiles == [][Refresh => AllLocations(idx') = AllLocations(idx)]_aptVars
=============================================================================
