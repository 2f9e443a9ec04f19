------------------------------ MODULE RpmRepo ------------------------------
(***************************************************************************)
(* pkg/rpm/repo: one process at a time opens an rpm-md repository, changes *)
(* its index in memory and publishes it.  The package files, the metadata  *)
(* documents, repomd.xml and repomd.xml.asc all live in the store of       *)
(* Execute; a process may be killed at any point, and the next one loads   *)
(* whatever the store then holds.                                          *)
(***************************************************************************)
EXTENDS Execute, Plan, FiniteSets, SequencesExt

CONSTANTS
  Rpms,          \* package files, each standing for its content and its pkgid
  Key(_),        \* Key(r): the name and architecture of r
  EVR(_),        \* EVR(r): its place among the versions of that name
  Base(_),       \* Base(r): the file name it is published under
  Signed(_),     \* Signed(r): the file re-signing r produces
  Dirs,          \* values of --location-prefix
  Order,         \* the packages as Packages() sorts them: name, version, pkgid
  Signer,        \* the key this tool signs repomd.xml with
  Uses,          \* the repositories that are examined, and what is done to each:
                 \* [store, options, calls, most, publishes]
  MaxStops       \* bound: publishes cut short

VARIABLES
  mode,       \* "closed", "open" (loaded) or "publishing"
  idx,        \* r.idx: rpm |-> location
  old,        \* r.old: repomd.xml as loaded, or NoIndex
  original,   \* r.original: location |-> rpm, as loaded
  pending,    \* r.pending: location |-> local file
  copied,     \* r.copied: locations the copy command has written
  replaced,   \* r.replaced: this publish replaces the repository wholesale
  opt,        \* r.opt
  calls,      \* calls made by this process
  clock,      \* publishes begun so far: the time they happen at
  stops,      \* publishes cut short so far
  use         \* the member of Uses: what the first process finds, the options a
              \* process may be started with, the calls it may make before
              \* Commit, how many at most, and how many publishes are begun

session == <<idx, old, original, pending, copied, replaced, opt, use>>
rpmVars == <<store, work, mode, session, calls, clock, stops>>

----------------------------------------------------------------------------
(* Paths and contents.                                                     *)

Repomd    == [file |-> "repodata/repomd.xml"]
RepomdAsc == [file |-> "repodata/repomd.xml.asc"]
NoIndex   == [rev |-> 0, docs |-> {}, at |-> <<>>]

Location(dir, r) == [dir |-> dir, base |-> Base(r)]

\* The inverse of an index in which no two packages share a location.
ByLocation(ix) == AntiFunction(ix)

\* A metadata document is named by its checksum: its path is its content.
\* Only primary.xml says where a package is; other.xml and filelists.xml say
\* the same of the packages and stand for each other here.
Listings == {"primary", "filelists"}
Derived  == {"primary", "filelists", "primary_db", "filelists_db"}

Primary(ix)   == [type |-> "primary", at |-> ByLocation(ix)]
Filelists(ix) == [type |-> "filelists", of |-> DOMAIN ix]
Documents(ix) == <<Primary(ix), Filelists(ix)>>

\* What repomd.xml names: its documents, and, through primary.xml among them,
\* the packages at their locations.
NamedBy(root) == [p \in root.docs \cup DOMAIN root.at |->
                    IF p \in root.docs THEN p ELSE root.at[p]]

IsRoot(c) == c \notin Rpms \cup {Partial} /\ "rev" \in DOMAIN c

RpmNeeds(c) == IF IsRoot(c) THEN NamedBy(c) ELSE <<>>

\* The values there are: where packages may be, an index by location, and what
\* repomd.xml and its signature may hold.
Locations == {Location(dir, r) : dir \in Dirs, r \in Rpms}
Placement == UNION {[L -> Rpms] : L \in SUBSET Locations}
Document  == [type : {"primary"}, at : Placement] \cup [type : {"filelists"}, of : SUBSET Rpms]
               \cup [type : STRING]
Root      == [rev : Nat, docs : SUBSET Document, at : Placement] \ {NoIndex}

Signature(key, root) == [signs |-> root, by |-> key]

Options == [force : BOOLEAN, signed : BOOLEAN, prefix : Dirs, pruneOlder : BOOLEAN,
            pruneBreakDeps : BOOLEAN, unreferenced : BOOLEAN, stale : BOOLEAN]

NoOptions == [force |-> FALSE, signed |-> FALSE, prefix |-> "", pruneOlder |-> FALSE,
              pruneBreakDeps |-> FALSE, unreferenced |-> FALSE, stale |-> FALSE]

\* The packages of one version.
Builds(r) == {x \in Rpms : Key(x) = Key(r) /\ EVR(x) = EVR(r)}

ASSUME PackageAssumption ==
  /\ \A r \in Rpms : Signed(r) \in Builds(r)
  /\ \A c \in Rpms \cup {Partial} : c \notin Root
  /\ Order \in Seq(Range(Order)) /\ Rpms \subseteq Range(Order)
  /\ \A i, j \in DOMAIN Order : Order[i] = Order[j] => i = j
  /\ \A P \in SUBSET Locations : P # {} => First(P) \in P

\* What is found is a repository: an index of packages, signed or not, and
\* packages, whole or not.  Adding does not relocate.
ASSUME UseAssumption ==
  \A u \in Uses :
    /\ Repomd \in DOMAIN u.store => u.store[Repomd] \in Root
    /\ RepomdAsc \in DOMAIN u.store =>
         /\ Repomd \in DOMAIN u.store
         /\ u.store[RepomdAsc] = Signature(u.store[RepomdAsc].by, u.store[RepomdAsc].signs)
    /\ \A l \in Locations \cap DOMAIN u.store : u.store[l] \in Rpms \cup {Partial}
    /\ u.options \subseteq Options
    /\ ~({"add", "relocate"} \subseteq u.calls)

----------------------------------------------------------------------------
(* A process: it loads the index, changes it, and publishes it once.       *)

Current == IF Repomd \in DOMAIN store THEN store[Repomd] ELSE NoIndex

\* load: the documents of the package list must be there, and unaltered.
Loadable == \A d \in Current.docs :
  d.type \in Listings => d \in DOMAIN store /\ store[d] = d

\* OpenWith: what a process holds once it has loaded the index.
Load == /\ mode = "closed"
        /\ Loadable
        /\ mode' = "open"
        /\ old' = Current
        /\ original' = Current.at
        /\ pending' = <<>> /\ copied' = {}
        /\ opt' \in use.options
        /\ use' = use
        /\ calls' = 0

Open ==
  /\ Load
  /\ idx' = AntiFunction(Current.at)
  /\ replaced' = FALSE
  /\ UNCHANGED <<store, work, clock, stops>>

\* The process is gone, and what it held in memory with it.
Forget == /\ mode' = "closed"
          /\ idx' = <<>> /\ original' = <<>> /\ pending' = <<>>
          /\ copied' = {} /\ replaced' = FALSE
          /\ old' = NoIndex /\ opt' = NoOptions
          /\ use' = use

Call(name) == /\ mode = "open"
              /\ name \in use.calls
              /\ calls < use.most
              /\ calls' = calls + 1
              /\ UNCHANGED <<store, work, mode, old, original, copied, replaced, clock, stops, use>>

Without(ix, R) == [r \in DOMAIN ix \ R |-> ix[r]]

SameNEVRA(r) == Builds(r) \cap DOMAIN idx
Older(r)     == {x \in DOMAIN idx : Key(x) = Key(r) /\ EVR(x) < EVR(r)}

\* What pruning removes of the candidates C: all of them with
\* PruneBreakDeps, else all but the versions a dependent still needs.
Pruned(C) == IF opt.pruneBreakDeps THEN {C} ELSE SUBSET C

\* AddRPM: the index has already lost what r supersedes when the location
\* turns out to be taken.
AddRPM(r) ==
  /\ Call("add")
  /\ \E gone \in Pruned(IF opt.pruneOlder THEN Older(r) ELSE {}) :
       LET left  == Without(idx, SameNEVRA(r) \cup gone)
           loc   == Location(opt.prefix, r)
           taken == \E x \in DOMAIN left : left[x] = loc
       IN  /\ idx' = IF taken THEN left
                     ELSE [x \in DOMAIN left \cup {r} |-> IF x = r THEN loc ELSE left[x]]
           /\ pending' = IF taken THEN pending
                         ELSE [l \in DOMAIN pending \cup {loc} |->
                                 IF l = loc THEN r ELSE pending[l]]
  /\ UNCHANGED opt

RemoveNEVRA(r) == /\ Call("remove")
                  /\ SameNEVRA(r) # {}
                  /\ idx' = Without(idx, SameNEVRA(r))
                  /\ UNCHANGED <<pending, opt>>

\* PruneOlderVersions: one package of each name stays, the newest, and the first
\* in order of several as new.
Superseding(b, r) == \/ EVR(b) > EVR(r)
                     \/ EVR(b) = EVR(r) /\ SelectSeq(Order, LAMBDA x : x \in {b, r})[1] = b

Newest(ix) == {b \in DOMAIN ix : \A r \in DOMAIN ix \ {b} : Key(r) = Key(b) => Superseding(b, r)}

PruneOlderVersions ==
  /\ Call("prune") /\ ~opt.force
  /\ \E gone \in Pruned(DOMAIN idx \ Newest(idx)) : idx' = Without(idx, gone)
  /\ UNCHANGED <<pending, opt>>

Relocated(ix, dir) == [r \in DOMAIN ix |-> [ix[r] EXCEPT !.dir = dir]]

RelocateAll(dir) == /\ Call("relocate") /\ ~opt.force
                    /\ idx' = Relocated(idx, dir)
                    /\ UNCHANGED <<pending, opt>>

\* Mutant: a changed file is taken for one that cannot be read.
RereadChangedStays(ix, r) == ix

\* RefreshFromPackages, of one package: a file that is not there, or that is no
\* RPM, leaves its entry as it is, and so does one that another entry, for
\* another file, is already about.
Reread(ix, r) ==
  LET p == ix[r] IN
  IF p \notin DOMAIN store \/ store[p] \notin Rpms THEN ix
  ELSE LET fresh == store[p] IN
       IF fresh \in DOMAIN ix \ {r}
       THEN IF ix[fresh] = p THEN Without(ix, {r}) ELSE ix
       ELSE [x \in (DOMAIN ix \ {r}) \cup {fresh} |-> IF x = fresh THEN p ELSE ix[x]]

\* The entries there were, one after another, each in the index the others left.
Refreshed(ix) ==
  LET reread[n \in 0 .. Len(Order)] ==
        IF n = 0 THEN ix
        ELSE IF Order[n] \in DOMAIN ix THEN Reread(reread[n - 1], Order[n])
        ELSE reread[n - 1]
  IN reread[Len(Order)]

\* A rebuild and a takeover re-read the packages before anything else.
Refresh == /\ Call("refresh") /\ calls = 0
           /\ idx' = Refreshed(idx)
           /\ UNCHANGED <<pending, opt>>

\* resignPackages, the last step of a rebuild (rebuild.go:72-139): whatever is
\* stored where the index says a package is, is read, re-signed, put in the
\* index for its version and staged to overwrite itself.  Of two files of one
\* version only the last replaced stays, and an entry whose version is in no file
\* stays as it was.
ResignAll ==
  /\ Call("resign")
  /\ \A l \in Range(idx) : l \in DOMAIN store /\ store[l] \in Rpms
  /\ LET fresh(l) == Signed(store[l])
         missed   == {r \in DOMAIN idx : \A l \in Range(idx) : store[l] \notin Builds(r)}
     IN \E last \in SUBSET Range(idx) :
          /\ \A l \in Range(idx) : \E k \in last : store[k] \in Builds(store[l])
          /\ \A l, k \in last : store[k] \in Builds(store[l]) => k = l
          /\ LET put == AntiFunction([l \in last |-> fresh(l)]) IN
             idx' = [r \in missed \cup DOMAIN put |-> IF r \in missed THEN idx[r] ELSE put[r]]
          /\ pending' = [l \in DOMAIN pending \cup Range(idx) |->
                           IF l \in Range(idx) THEN fresh(l) ELSE pending[l]]
  /\ opt' = [opt EXCEPT !.force = TRUE]

----------------------------------------------------------------------------
(* Commit.                                                                 *)

\* checkLocations
LocationsClash(ix) == \E r, x \in DOMAIN ix : r # x /\ ix[r] = ix[x]

\* buildPlan: the State the planner is given.
PlanState(ix) == [referenced |-> ByLocation(ix), original |-> original,
                  pending |-> pending, copied |-> copied, force |-> opt.force]

\* generateMetadata: the documents generated, and those carried over.
Carried  == IF replaced THEN {} ELSE {d \in old.docs : d.type \notin Derived}
NewIndex(ix) == [rev  |-> clock + 1,
                 docs |-> Range(Documents(ix)) \cup Carried,
                 at   |-> ByLocation(ix)]

ObsoleteCarried(ix) == old.docs \ Range(Documents(ix))  \* mutant: carried documents are superseded
ObsoleteMeta(ix) == old.docs \ NewIndex(ix).docs

IsRpm(p) == "base" \in DOMAIN p
IsDoc(p) == "type" \in DOMAIN p

\* computeCleanups
UnreferencedRpms(deleted) ==
  IF opt.unreferenced
  THEN Unreferenced({p \in DOMAIN store : IsRpm(p)}, Range(idx), deleted)
  ELSE {}

StaleMetadata ==
  IF opt.stale
  THEN Unreferenced({p \in DOMAIN store : IsDoc(p)}, NewIndex(idx).docs, ObsoleteMeta(idx))
  ELSE {}

\* Each document is written under the name its checksum gives it.
MetadataFiles(docs) == [i \in DOMAIN docs |-> [to |-> docs[i], data |-> docs[i]]]

Swapped == LET index == <<[to |-> Repomd, data |-> NewIndex(idx)]>> IN
  IF opt.signed THEN Append(index, [to |-> RepomdAsc, data |-> Signature(Signer, NewIndex(idx))])
                ELSE index

RetractedNever == <<>>  \* mutant: a signature of the previous index stays

Retracted == IF ~opt.signed /\ old # NoIndex THEN <<RepomdAsc>> ELSE <<>>

\* The Steps Commit hands to Execute.
CommitSteps ==
  LET plan == PlanFiles(store, PlanState(idx)) IN
  [copies   |-> plan.copies,
   uploads  |-> plan.uploads,
   metadata |-> MetadataFiles(Documents(idx)),
   swap     |-> Swapped,
   retract  |-> Retracted,
   gc       |-> <<ObsoleteMeta(idx), plan.deleted, UnreferencedRpms(plan.deleted), StaleMetadata>>]

CommitRefused(ix) == LocationsClash(ix) \/ Refuses(store, PlanState(ix))

Commit ==
  /\ mode = "open"
  /\ clock < use.publishes
  /\ ~CommitRefused(idx)
  /\ mode' = "publishing"
  /\ clock' = clock + 1
  /\ work' = CommitSteps
  /\ UNCHANGED <<store, session, calls, stops>>

\* The process exits without publishing: the commit was refused, a call
\* failed, or the operator declined.
Abandon == /\ mode = "open"
           /\ Forget
           /\ UNCHANGED <<store, work, calls, clock, stops>>

Publishing == /\ mode = "publishing"
              /\ Step
              /\ UNCHANGED <<mode, session, calls, clock, stops>>

Finish == /\ mode = "publishing"
          /\ work = NoSteps
          /\ Forget
          /\ UNCHANGED <<store, work, calls, clock, stops>>

\* A call fails or the process is killed: at any time, but not without end, and
\* for certain when a file that was to be moved is not there.
CutShort == /\ mode = "publishing"
            /\ stops < MaxStops \/ \E c \in work.copies : c.from \notin DOMAIN store
            /\ Stop \/ StopInCopy
            /\ Forget
            /\ stops' = stops + 1
            /\ UNCHANGED <<calls, clock>>

Init == /\ use \in Uses
        /\ store = use.store
        /\ work = NoSteps
        /\ mode = "closed"
        /\ idx = <<>> /\ original = <<>> /\ pending = <<>>
        /\ copied = {} /\ replaced = FALSE
        /\ old = NoIndex /\ opt = NoOptions
        /\ calls = 0 /\ clock = 0 /\ stops = 0

Mutate == \/ \E r \in Rpms : AddRPM(r) \/ RemoveNEVRA(r)
          \/ PruneOlderVersions
          \/ \E dir \in Dirs : RelocateAll(dir)
          \/ ResignAll \/ Refresh

Next == Open \/ Mutate \/ Commit \/ Abandon \/ Publishing \/ Finish \/ CutShort

Spec == Init /\ [][Next]_rpmVars

----------------------------------------------------------------------------
\* What the plan does not look at, because it is there, because the loaded index
\* had a file of that name or because it is to be moved, is what the new index
\* says it is.
TrustJustified ==
  LET s           == PlanState(idx)
      Holds(p, r) == p \in DOMAIN store /\ store[p] = r
  IN /\ \A p \in Unread(store, s) : Holds(p, s.referenced[p])
     /\ \A c \in PlanFiles(store, s).copies : Holds(c.from, s.referenced[c.to])

\* What was staged for a package that a later call took out of the index again is
\* uploaded all the same: a file no index names, or one over what clients read.
StagedInVain == DOMAIN pending \ Range(idx)
Dropped == \E l \in StagedInVain \cap DOMAIN original : original[l] # pending[l]

\* What may be wrong with the Steps Commit hands to Execute: a re-signing
\* overwrites what clients read, or what was trusted was not to be.
Doubtful == opt.force \/ ~TrustJustified \/ Dropped

\* A publish that ends leaves the signature of the index it published, or none
\* if it did not sign: never one over an older repomd.xml (commit.go:109-115).
SignatureCurrent ==
  [][Finish => IF opt.signed
               THEN RepomdAsc \in DOMAIN store /\ store[RepomdAsc].signs = store[Repomd]
               ELSE RepomdAsc \notin DOMAIN store]_rpmVars

\* The files that repomd.xml names, those that the one still to be swapped in
\* will name, and those that are still to be collected.
Named   == IF Repomd \in DOMAIN store THEN DOMAIN Needs(store[Repomd]) ELSE {}
Awaited == UNION {DOMAIN Needs(s.data) : s \in Range(work.swap)}
Doomed  == UNION Range(work.gc)

Leftovers == DOMAIN store \ (IndexPaths \cup Named)
Adrift    == Leftovers \ (Awaited \cup Doomed)

\* A publish diffs the old and new metadata, so orphaned files never accumulate
\* (docs/createrepo-go.md:36-38): only where it is cut short does a file come to
\* be that no index names nor ever will, unless it was staged in vain.  And a
\* rebuild that removes unreferenced RPMs and stale metadata leaves no package
\* and no document of that kind but those staged in vain, whatever was cut short
\* before it (docs/createrepo-go.md:302-304).
EndsTidy ==
  [][/\ stops' = stops => Adrift' \subseteq Adrift \cup StagedInVain
     /\ Finish /\ opt.unreferenced /\ opt.stale =>
          \A p \in Leftovers : IsRpm(p) \/ IsDoc(p) => p \in StagedInVain]_rpmVars

\* A publish disturbs no client, wherever it stops (docs/createrepo-go.md:36-38):
\* the Steps of a Commit are sound for the store it finds, unless they are
\* doubtful, and Steps that are sound stay so and keep the store whole, which is
\* the hypothesis of PublishWhole.
UndisturbedIfTrusted ==
  [][Whole /\ Sound(work) => Whole' /\ (Sound(work)' \/ (Commit /\ Doubtful))]_rpmVars

\* Entries left in place over a file that was found to be of another version and
\* staged, re-signed, as that.
Mistaken == {r \in DOMAIN idx : idx[r] \in DOMAIN pending /\ pending[idx[r]] \notin Builds(r)}

\* Once a re-signing is done, all that the new index names is what it says again,
\* but for the documents carried over unread and what the entries it took for
\* mistaken name, and one that was cut short is made good by the next
\* (rebuild.go:223-275).
Amiss(c) == {p \in DOMAIN Needs(c) : p \notin DOMAIN store \/ store[p] # Needs(c)[p]}

ForcedEndsWhole ==
  [][Finish /\ opt.force => Amiss(store[Repomd]) \subseteq Carried \cup {idx[r] : r \in Mistaken}]_rpmVars

TrueOf(ix, r) == ix[r] \in DOMAIN store /\ store[ix[r]] = r

\* A refresh takes no file out of the index: whatever files were replaced
\* underneath it, the publish after it deletes none (refresh.go:61-62).  And an
\* entry is true of its file then, unless there is no file to read, or the
\* package in it is the one another entry is about.
RefreshTrue ==
  [][Refresh =>
       /\ Range(idx') = Range(idx)
       /\ \A r \in DOMAIN idx' :
            \/ TrueOf(idx', r)
            \/ idx[r] = idx'[r] /\ ( \/ idx[r] \notin DOMAIN store
                                    \/ store[idx[r]] \in DOMAIN idx \cup DOMAIN idx' \cup {Partial})]_rpmVars
=============================================================================
