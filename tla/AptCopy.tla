------------------------------ MODULE AptCopy ------------------------------
(***************************************************************************)
(* createapt-go copy: one suite of a repository, the source, is copied     *)
(* into another, the store of AptRepo, where other suites may draw on the  *)
(* same pool.  An exact copy writes the suite's files as they are, Release *)
(* after all it names and the signatures last; a rebuilding copy writes    *)
(* the files of one package after another, and publishes an index of its   *)
(* own (pkg/apt/repo/copy.go).  Either may be cut short between any two    *)
(* calls and taken up again, and the source may be republished meanwhile.  *)
(***************************************************************************)
EXTENDS AptRepo

CONSTANTS
  SourceAt,      \* the versions of the source, one store after another
  SourceSuite,   \* the suite that is copied
  Here,          \* the location the source is copied from
  Hows,          \* among "new", "overwrite", "continue" and "update"
  Flags          \* [listed, again, sign, relocate]: the flags a copy may be given

VARIABLES
  version,       \* the version of the source now
  job,           \* the copy that is running, or NoJob
  copies         \* copies begun so far

copyVars == <<aptVars, version, job, copies>>
copying  == <<version, copies>>
repoVars == <<work, mode, session, calls, clock, stops>>

Source == SourceAt[version]
From   == ReleaseIn(Source, SourceSuite)

\* The source's suite is as a publish leaves it at every moment: its files are
\* of one Release, which has an index for each architecture and says of the pool
\* what they do, an index found by hash is that index, and no Release comes twice.
ASSUME SourceAssumption ==
  /\ SourceSuite \in Suites
  /\ SourceAt \in Seq(Range(SourceAt)) /\ SourceAt # <<>>
  /\ \A v \in DOMAIN SourceAt :
       LET src == SourceAt[v]
           rel == src[Release(SourceSuite)]
       IN /\ Release(SourceSuite) \in DOMAIN src /\ IsRelease(SourceSuite, rel)
          /\ InRelease(SourceSuite) \in DOMAIN src => src[InRelease(SourceSuite)] = [inline |-> rel]
          /\ ReleaseGPG(SourceSuite) \in DOMAIN src => src[ReleaseGPG(SourceSuite)] = [signs |-> rel]
          /\ rel.pool = FileExpectations(Ingested(rel))
          /\ \A d, x \in rel.docs : Plain(d) = Plain(x) => d = x
          /\ \A d \in DOMAIN src : d \in Index(SourceSuite) => src[d] = d
          /\ \A w \in DOMAIN SourceAt : SourceAt[w][Release(SourceSuite)] = rel => w = v

\* createapt-go.json, and what of it matters here: copy_source.
Config        == [file |-> "createapt-go.json"]
CopiedFrom(l) == [copySource |-> l]

NoJob == [doing |-> "nothing"]

----------------------------------------------------------------------------
(* Starting a copy.                                                        *)

SuiteExists(s) == {Release(s), InRelease(s)} \cap DOMAIN store # {}

\* checkResumable and SameRepository.
Resumable(s) ==
  /\ Config \in DOMAIN store => store[Config].copySource \in {"", Here}
  /\ SuiteExists(s) =>
       Loadable(s) /\ DOMAIN Ingested(Root(s)) \subseteq DOMAIN Ingested(From)

Allowed(how, s) == CASE how = "new"      -> ~SuiteExists(s)
                     [] how = "update"   -> SuiteExists(s)
                     [] how = "continue" -> Resumable(s)
                     [] OTHER            -> TRUE

Begin(how, s) == /\ job = NoJob
                 /\ copies < use.copies
                 /\ how \in Hows /\ Allowed(how, s)
                 /\ copies' = copies + 1

\* What a Release vouches for: its indexes under both their names, whichever
\* clients use, and the files the entries loaded from them name.
Vouched(rel) ==
  LET meta == MetadataPaths(rel.docs, rel.byHash)
      pool == FileExpectations(Ingested(rel))
  IN [p \in meta \cup DOMAIN pool |->
        IF p \in DOMAIN pool THEN pool[p] ELSE CHOOSE d \in rel.docs : p \in {d, Plain(d)}]

\* Objects: of the files that are not vouched for, those of other suites and
\* those of the pool are not this suite's to copy.
Unvouched(listed) ==
  IF listed THEN {p \in DOMAIN Source : ~IsPool(p) /\ ("suite" \in DOMAIN p => IsSuite(p, SourceSuite))}
            ELSE {Release(SourceSuite), InRelease(SourceSuite), ReleaseGPG(SourceSuite), Config}
                   \cap DOMAIN Source

Seen(listed) == LET known == Vouched(From) IN
  [p \in DOMAIN known \cup Unvouched(listed) |->
     IF p \in DOMAIN known THEN known[p] ELSE Source[p]]

RankedAlike(objs) == objs  \* mutant: publishRank is forgotten

\* publishRank: Release after everything it names, its signatures after it.
Ranked(objs) ==
  LET root  == Release(SourceSuite)
      files == objs \ {root, InRelease(SourceSuite), ReleaseGPG(SourceSuite)}
  IN IF files # {} THEN files ELSE IF root \in objs THEN {root} ELSE objs

StartExact(how) ==
  /\ mode = "closed"
  /\ Begin(how, SourceSuite) /\ how # "update"
  /\ \E f \in Flags :
       job' = [doing |-> "exact",
               again |-> f.again,                            \* --force
               sign  |-> f.sign,                             \* --sign-release
               prune |-> how = "overwrite" /\ SuiteExists(SourceSuite),
               root  |-> From,
               known |-> DOMAIN Vouched(From),
               listed |-> f.listed,
               seen  |-> Seen(f.listed),
               todo  |-> DOMAIN Seen(f.listed)]
  /\ UNCHANGED <<aptVars, version>>

\* The destination's suite is loaded and, to be overwritten, its index emptied,
\* what it published before being remembered (ClearIndex).  A copy of a signed
\* source has to be signed.
StartRebuilding(how) ==
  /\ mode = "closed" /\ mode' = "open"
  /\ opt' \in use.options
  /\ Begin(how, opt'.suite)
  /\ Loadable(opt'.suite)
  /\ {InRelease(SourceSuite), ReleaseGPG(SourceSuite)} \cap DOMAIN Source # {} => opt'.signed
  /\ old' = Root(opt'.suite)
  /\ idx' = IF how = "overwrite" THEN <<>> ELSE Ingested(old')
  /\ original' = Locations(Ingested(old'))
  /\ pending' = <<>> /\ copied' = {} /\ calls' = 0
  /\ \E chosen \in SUBSET DOMAIN Ingested(From) \ {{}}, f \in Flags :
       job' = [doing    |-> "rebuild",
               again    |-> f.again,                         \* --rebuild-metadata
               relocate |-> f.relocate,                      \* --pool-layout, --to-component
               base     |-> DOMAIN idx',
               root     |-> From,
               chosen   |-> chosen,
               todo     |-> chosen,
               moves    |-> {}]
  /\ UNCHANGED <<store, work, clock, stops, use, version>>

----------------------------------------------------------------------------
(* The transfers.                                                          *)

Volatile(p) == p \in {Release(SourceSuite), InRelease(SourceSuite), ReleaseGPG(SourceSuite), Config}

\* Mutant: an equal length is enough for a Release too.
SameThereBySize(p, c, vouched) ==
  p \in DOMAIN store /\ IF vouched /\ CanHash THEN store[p] = c ELSE SizeOf(store[p]) = SizeOf(c)

\* DestinationMatches
SameThere(p, c, vouched) ==
  /\ p \in DOMAIN store
  /\ IF vouched /\ CanHash THEN store[p] = c
                           ELSE ~Volatile(p) /\ SizeOf(store[p]) = SizeOf(c)

\* FetchToTemp: what is read has the length and checksum it should.  The length
\* of a Release is known from a listing only (pkg/apt/repo/copy.go:122).
Obtainable(p, c, vouched) ==
  /\ p \in DOMAIN Source
  /\ SizeOf(Source[p]) = SizeOf(c) \/ (p = Release(SourceSuite) /\ ~job.listed)
  /\ vouched => Source[p] = c

\* The body of CopyExact's loop.
CopyObject ==
  /\ job.doing = "exact" /\ job.todo # {}
  /\ LET p       == First(Ranked(job.todo))
         c       == job.seen[p]
         vouched == p \in job.known
     IN /\ IF SameThere(p, c, vouched) /\ ~job.again
           THEN UNCHANGED store
           ELSE Obtainable(p, c, vouched) /\ StorePut(p, Source[p])
        /\ job' = [job EXCEPT !.todo = @ \ {p}]
  /\ UNCHANGED <<repoVars, copying>>

\* pruneExtraneous: the whole of the destination is listed.
Extraneous == {p \in DOMAIN store \ DOMAIN job.seen : job.prune}

PruneObject ==
  /\ job.doing = "exact" /\ job.todo = {}
  /\ Extraneous # {} /\ StoreDelete(First(Extraneous))
  /\ UNCHANGED <<repoVars, job, copying>>

\* resignCopiedRelease signs the Release the source has now; then the origin of
\* the copy is recorded.
EndTransfers ==
  /\ job.doing = "exact" /\ job.todo = {} /\ Extraneous = {}
  /\ LET rel == Source[Release(SourceSuite)] IN
     job' = [job EXCEPT !.doing = "endExact", !.todo =
               (IF job.sign THEN <<[to |-> ReleaseGPG(SourceSuite), data |-> [signs |-> rel]],
                                   [to |-> InRelease(SourceSuite), data |-> [inline |-> rel]]>>
                            ELSE <<>>)
               \o <<[to |-> Config, data |-> CopiedFrom(Here)]>>]
  /\ UNCHANGED <<repoVars, store, copying>>

SupersededNone(e) == {}  \* mutant: the build that was there stays in the index

Superseded(e) == SameVersion(e)

\* placeCopy: the index first.  Nothing asks whether another entry's files are
\* where e's go.
PlaceCopy(e) ==
  LET dir == IF job.relocate THEN opt.dir ELSE Ingested(job.root)[e] IN
  /\ job.doing = "rebuild" /\ job.moves = {} /\ e \in job.todo
  /\ idx' = [x \in (DOMAIN idx \ Superseded(e)) \cup {e} |-> IF x = e THEN dir ELSE idx[x]]
  /\ job' = [job EXCEPT !.todo = @ \ {e},
                        !.moves = {[from |-> Location(Ingested(job.root)[e], b),
                                    to   |-> Location(dir, b),
                                    data |-> Files(e)[b]] : b \in DOMAIN Files(e)}]
  /\ UNCHANGED <<store, work, mode, old, original, pending, copied, opt, use, calls, clock, stops,
                 copying>>

\* copyOneFile.  What a stanza made anew from the written file says is what the
\* one that came with it said, for the file had the checksum it recorded.
CopyFile(m) ==
  /\ job.doing = "rebuild" /\ m \in job.moves
  /\ IF SameThere(m.to, m.data, TRUE) /\ ~job.again
     THEN UNCHANGED store
     ELSE Obtainable(m.from, m.data, TRUE) /\ StorePut(m.to, m.data)
  /\ copied' = copied \cup {m.to}
  /\ job' = [job EXCEPT !.moves = @ \ {m}]
  /\ UNCHANGED <<work, mode, idx, old, original, pending, opt, use, calls, clock, stops, copying>>

Transferred == job.doing = "rebuild" /\ job.todo = {} /\ job.moves = {}

\* --prune-older, once every package is in the index.
PruneCopied == /\ Transferred /\ opt.pruneOlder
               /\ PruneOlderVersions
               /\ UNCHANGED <<job, copying>>

CommitCopied == /\ Transferred /\ (opt.pruneOlder => calls = 1)
                /\ Commit
                /\ UNCHANGED <<job, copying>>

PublishCopied == job # NoJob /\ Publishing /\ UNCHANGED <<job, copying>>

EndRebuilding == /\ job.doing = "rebuild"
                 /\ Finish
                 /\ job' = [doing |-> "endRebuild", root |-> job.root,
                            todo  |-> <<[to |-> Config, data |-> CopiedFrom(Here)]>>]
                 /\ UNCHANGED copying

WriteEnd == /\ job.doing \in {"endExact", "endRebuild"}
            /\ StorePut(Head(job.todo).to, Head(job.todo).data)
            /\ job' = IF Len(job.todo) = 1 THEN NoJob ELSE [job EXCEPT !.todo = Tail(@)]
            /\ UNCHANGED <<repoVars, copying>>

\* The copy fails, is refused or is killed.  It may be begun again.
CutCopy == /\ job # NoJob
           /\ job' = NoJob
           /\ work' = NoSteps
           /\ Forget
           /\ stops' = stops + 1
           /\ UNCHANGED <<store, calls, clock, copying>>

\* The source's owner publishes its next version.
SourcePublishes == /\ use.copies > 0 /\ version < Len(SourceAt)
                   /\ version' = version + 1
                   /\ UNCHANGED <<aptVars, job, copies>>

CopyInit == Init /\ version = 1 /\ job = NoJob /\ copies = 0

CopyNext == \/ use.copies = 0 /\ Next /\ UNCHANGED <<job, copying>>
            \/ \E how \in Hows : StartExact(how) \/ StartRebuilding(how)
            \/ CopyObject \/ PruneObject \/ EndTransfers
            \/ \E e \in Entries : PlaceCopy(e)
            \/ job.doing = "rebuild" /\ \E m \in job.moves : CopyFile(m)
            \/ PruneCopied \/ CommitCopied \/ PublishCopied \/ EndRebuilding
            \/ WriteEnd \/ CutCopy \/ SourcePublishes

CopySpec == CopyInit /\ [][CopyNext]_copyVars

----------------------------------------------------------------------------
\* The source is as it was when the running copy read its Release.
SourceStill == job # NoJob => From = job.root

\* A step that puts another file in the place of one of the pool's.
ReplacesFile == \E p \in DOMAIN store \cap DOMAIN store' : IsPool(p) /\ store'[p] # store[p]

\* No copy disturbs a client of any suite that is read by hash
\* (docs/createapt-go.md:50-54, copy.go:234-238), wherever it is cut short:
\* unless it trusts a file that is not what it was taken for, suites share one,
\* it writes another over one of the pool's, or its source is republished.
ByHashUndisturbed ==
  [][use.copies > 0 /\ ByHashOnly /\ Whole =>
       Whole' \/ ~TrustJustified \/ PoolShared \/ ReplacesFile \/ ~SourceStill]_copyVars

\* An exact copy that ends leaves the source's Release, everything it names and
\* signatures that are of it, whatever was there before and however often the
\* copy was taken up again (docs/createapt-go.md:436-441).
ReplicaMade ==
  [][WriteEnd /\ job.doing = "endExact" /\ job' = NoJob /\ SourceStill =>
       /\ store[Release(SourceSuite)] = job.root
       /\ \A p \in job.known : p \in DOMAIN store /\ store[p] = job.seen[p]
       /\ InRelease(SourceSuite) \in DOMAIN store
            /\ (job.sign \/ job.prune \/ InRelease(SourceSuite) \in DOMAIN job.seen) =>
            store[InRelease(SourceSuite)].inline = job.root
       /\ job.sign => store[ReleaseGPG(SourceSuite)].signs = job.root]_copyVars

\* A rebuilding copy that ends publishes every package that was chosen, each
\* with its files where the index says they are, beside those the suite had:
\* all but other builds of the chosen, and those that were pruned.
ChosenPublished ==
  [][EndRebuilding =>
       LET rel == store[Release(opt.suite)]
           now == DOMAIN Ingested(rel)
       IN /\ now \subseteq job.base \cup job.chosen
          /\ ~opt.pruneOlder =>
               now = job.chosen \cup
                     {x \in job.base : \A e \in job.chosen : Key(x) # Key(e) \/ EVR(x) # EVR(e)}
          /\ \A e \in now \cap job.chosen : \A b \in DOMAIN Files(e) :
               LET p == Location(Ingested(rel)[e], b) IN p \in DOMAIN store /\ store[p] = Files(e)[b]]_copyVars

\* What docs/createapt-go.md:443-444 says of a copy, other suites sharing the
\* same pool are left alone: not so when a whole suite is overwritten.
OtherSuitesLeftAlone ==
  [][job # NoJob => \A s \in Suites \ {SourceSuite, opt.suite} : Root(s)' = Root(s)]_copyVars
=============================================================================
