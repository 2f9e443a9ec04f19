------------------------------ MODULE RpmCopy ------------------------------
(***************************************************************************)
(* createrepo-go copy: one repository, the source, is copied into another, *)
(* the store of RpmRepo.  An exact copy writes the source's files as they  *)
(* are, repomd.xml after what it names (pkg/xfer/copy.go); a rebuilding    *)
(* copy writes packages and then publishes an index of its own, as every   *)
(* other command does (pkg/rpm/repo/copy.go).  Either may be cut short     *)
(* between any two calls and taken up again with --continue, and the       *)
(* source may be republished by its owner at any moment.                   *)
(***************************************************************************)
EXTENDS RpmRepo

CONSTANTS
  SourceAt,      \* the versions of the source, one store after another
  Here,          \* the location the source is copied from
  Hows,          \* among "new", "overwrite", "continue" and "update"
  Flags,         \* [listed, again, sign, relocate]: the flags a copy may be given
  MaxCopies      \* bound: copies begun

VARIABLES
  version,       \* the version of the source now
  job,           \* the copy that is running, or NoJob
  copies,        \* copies begun so far
  unfinished     \* the version whose copy to an empty place was begun, and not ended

copyVars == <<rpmVars, version, job, copies, unfinished>>

Source == SourceAt[version]

\* The source is a repository at every moment: its index and its documents are
\* what they say, its signature is of its index, and no index comes twice.
ASSUME SourceAssumption ==
  /\ SourceAt \in Seq(Range(SourceAt)) /\ SourceAt # <<>>
  /\ \A v \in DOMAIN SourceAt :
       LET src == SourceAt[v] IN
       /\ Repomd \in DOMAIN src /\ src[Repomd] \in Root
       /\ RepomdAsc \in DOMAIN src =>
            src[RepomdAsc] = Signature(src[RepomdAsc].by, src[Repomd])
       /\ \A d \in DOMAIN src : d \in Document => src[d] = d
       /\ \A l \in Locations \cap DOMAIN src : src[l] \in Rpms \cup {Partial}
       /\ \A w \in DOMAIN SourceAt : SourceAt[w][Repomd] = src[Repomd] => w = v

\* createrepo-go.json, and what of it matters here: copy_source, and
\* sign_metadata of the source's.
Config       == [file |-> "createrepo-go.json"]
CopiedFrom(l) == [copySource |-> l]

SourceSigned == \/ RepomdAsc \in DOMAIN Source
                \/ Config \in DOMAIN Source /\ Source[Config].signMetadata

NoJob == [doing |-> "nothing"]

----------------------------------------------------------------------------
(* Starting a copy.                                                        *)

RepoExists == Repomd \in DOMAIN store

\* Mutant: only a whole copy can be resumed.
ResumableWhole ==
  /\ Config \in DOMAIN store => store[Config].copySource \in {"", Here}
  /\ RepoExists => Loadable /\ Range(Current.at) = Range(Source[Repomd].at)

\* checkResumable: of the same origin, and holding nothing the source has not.
Resumable ==
  /\ Config \in DOMAIN store => store[Config].copySource \in {"", Here}
  /\ RepoExists => Loadable /\ Range(Current.at) \subseteq Range(Source[Repomd].at)

Allowed(how) == CASE how = "new"      -> ~RepoExists
                  [] how = "update"   -> RepoExists
                  [] how = "continue" -> Resumable
                  [] OTHER            -> TRUE

\* A copy is unfinished from when it begins in an empty place until it ends.
Begin(how) ==
  /\ copies < MaxCopies
  /\ copies' = copies + 1
  /\ unfinished' = CASE how = "new"      -> version
                      [] how = "continue" -> unfinished
                      [] OTHER            -> 0

\* Objects, and what is known of each: its content if the metadata vouches for
\* it, else its length.
Seen(listed) ==
  LET root == Source[Repomd]
      all  == DOMAIN NamedBy(root) \cup
              (IF listed THEN DOMAIN Source
                         ELSE {Repomd, RepomdAsc, Config} \cap DOMAIN Source)
  IN [p \in all |-> IF p \in DOMAIN NamedBy(root) THEN NamedBy(root)[p] ELSE Source[p]]

RankedAlike(objs) == objs  \* mutant: publishRank is forgotten

\* publishRank: repomd.xml after everything it names, its signature after it.
Ranked(objs) == LET files == objs \ IndexPaths IN
                IF files # {} THEN files
                ELSE IF Repomd \in objs THEN {Repomd} ELSE objs

StartExact(how) ==
  /\ mode = "closed" /\ job = NoJob
  /\ Allowed(how) /\ how # "update"
  /\ \E f \in Flags :
       job' = [doing |-> "exact",
               again |-> f.again,                            \* --force
               sign  |-> f.sign,                             \* --sign-metadata
               prune |-> how = "overwrite" /\ RepoExists,
               root  |-> Source[Repomd],
               seen  |-> Seen(f.listed),
               todo  |-> DOMAIN Seen(f.listed)]
  /\ Begin(how)
  /\ UNCHANGED <<rpmVars, version>>

\* The destination is loaded and, to be overwritten, its index emptied.  A copy
\* of a signed source has to be signed.
StartRebuilding(how) ==
  /\ job = NoJob
  /\ Allowed(how)
  /\ Load
  /\ SourceSigned => opt'.signed
  /\ idx' = IF how = "overwrite" THEN <<>> ELSE AntiFunction(Current.at)
  /\ replaced' = (how = "overwrite")
  /\ \E chosen \in SUBSET Range(Source[Repomd].at) \ {{}}, f \in Flags :
       job' = [doing    |-> "rebuild",
               again    |-> f.again,                         \* --rebuild-metadata
               relocate |-> f.relocate,                        \* --location-prefix
               base     |-> DOMAIN idx',
               root     |-> Source[Repomd],
               chosen   |-> chosen,
               todo     |-> chosen]
  /\ Begin(how)
  /\ UNCHANGED <<store, work, clock, stops, version>>

----------------------------------------------------------------------------
(* The transfers.                                                          *)

Volatile(p) == p \in {Repomd, RepomdAsc, Config}

\* Mutant: an equal length is enough for repomd.xml too.
SameThereBySize(p, c, vouched) ==
  p \in DOMAIN store /\ IF vouched /\ CanHash THEN store[p] = c ELSE SizeOf(store[p]) = SizeOf(c)

\* DestinationMatches
SameThere(p, c, vouched) ==
  /\ p \in DOMAIN store
  /\ IF vouched /\ CanHash THEN store[p] = c
                           ELSE ~Volatile(p) /\ SizeOf(store[p]) = SizeOf(c)

\* FetchToTemp: what is read has the length and checksum it should.
Fetchable(p, c, vouched) ==
  /\ p \in DOMAIN Source
  /\ SizeOf(Source[p]) = SizeOf(c)
  /\ vouched => Source[p] = c

\* The body of CopyExact's loop.
CopyObject ==
  /\ job.doing = "exact" /\ job.todo # {}
  /\ LET p       == First(Ranked(job.todo))
         c       == job.seen[p]
         vouched == p \in DOMAIN NamedBy(job.root)
     IN /\ IF SameThere(p, c, vouched) /\ ~job.again
           THEN UNCHANGED store
           ELSE Fetchable(p, c, vouched) /\ StorePut(p, Source[p])
        /\ job' = [job EXCEPT !.todo = @ \ {p}]
  /\ UNCHANGED <<work, mode, session, calls, clock, stops, version, copies, unfinished>>

\* pruneExtraneous
Extraneous == IF job.prune THEN DOMAIN store \ DOMAIN job.seen ELSE {}

PruneObject ==
  /\ job.doing = "exact" /\ job.todo = {}
  /\ Extraneous # {} /\ StoreDelete(First(Extraneous))
  /\ UNCHANGED <<work, mode, session, calls, clock, stops, version, job, copies, unfinished>>

\* resignCopiedMetadata signs the repomd.xml that was loaded from the source.
EndExact ==
  /\ job.doing = "exact" /\ job.todo = {} /\ Extraneous = {}
  /\ IF job.sign THEN StorePut(RepomdAsc, Signature(Signer, job.root)) ELSE UNCHANGED store
  /\ job' = [job EXCEPT !.doing = "exactConfig"]
  /\ UNCHANGED <<work, mode, session, calls, clock, stops, version, copies, unfinished>>

SupersededNone(r) == {}  \* mutant: the build that was there stays in the index

Superseded(r) == SameNEVRA(r)

CopyLocation(r) == IF job.relocate THEN Location(opt.prefix, r)
                                   ELSE AntiFunction(job.root.at)[r]

\* The body of CopyPackagesFrom's loop: the index first, then the file.
CopyPackage(r) ==
  LET loc == CopyLocation(r) IN
  /\ job.doing = "rebuild" /\ r \in job.todo
  /\ \A x \in DOMAIN idx : idx[x] = loc => x \in Builds(r)     \* locationFree
  /\ idx' = [x \in (DOMAIN idx \ Superseded(r)) \cup {r} |-> IF x = r THEN loc ELSE idx[x]]
  /\ IF SameThere(loc, r, TRUE) /\ ~job.again
     THEN UNCHANGED <<store, copied>>
     ELSE /\ Fetchable(AntiFunction(job.root.at)[r], r, TRUE)
          /\ StorePut(loc, r)
          /\ copied' = copied \cup {loc}
  /\ job' = [job EXCEPT !.todo = @ \ {r}]
  /\ UNCHANGED <<work, mode, old, original, pending, replaced, opt, use, calls, clock, stops,
                 version, copies, unfinished>>

Copied == job.doing = "rebuild" /\ job.todo = {}

\* --prune-older, once every package is in the index.
PruneCopied == /\ Copied /\ opt.pruneOlder
               /\ PruneOlderVersions
               /\ UNCHANGED <<version, job, copies, unfinished>>

CommitCopied == /\ Copied /\ (opt.pruneOlder => calls = 1)
                /\ Commit
                /\ UNCHANGED <<version, job, copies, unfinished>>

PublishCopied == Publishing /\ UNCHANGED <<version, job, copies, unfinished>>

EndRebuilding == /\ Finish
                 /\ job' = [job EXCEPT !.doing = "rebuildConfig"]
                 /\ UNCHANGED <<version, copies, unfinished>>

WriteConfig == /\ job.doing \in {"exactConfig", "rebuildConfig"}
               /\ StorePut(Config, CopiedFrom(Here))
               /\ job' = NoJob
               /\ unfinished' = 0
               /\ UNCHANGED <<work, mode, session, calls, clock, stops, version, copies>>

\* The copy fails, is refused or is killed.  It may be begun again.
CutCopy == /\ job # NoJob
           /\ job' = NoJob
           /\ work' = NoSteps
           /\ Forget
           /\ UNCHANGED <<store, calls, clock, stops, version, copies, unfinished>>

\* The source's owner publishes its next version.
SourcePublishes == /\ version < Len(SourceAt)
                   /\ version' = version + 1
                   /\ UNCHANGED <<rpmVars, job, copies, unfinished>>

CopyInit == Init /\ version = 1 /\ job = NoJob /\ copies = 0 /\ unfinished = 0

CopyNext == \/ \E how \in Hows : StartExact(how) \/ StartRebuilding(how)
            \/ CopyObject \/ PruneObject \/ EndExact
            \/ \E r \in Rpms : CopyPackage(r)
            \/ PruneCopied \/ CommitCopied \/ PublishCopied \/ EndRebuilding
            \/ WriteConfig \/ CutCopy \/ SourcePublishes

CopySpec == CopyInit /\ [][CopyNext]_copyVars

----------------------------------------------------------------------------
\* The source is as it was when the running copy read its index.
SourceStill == job # NoJob => Source[Repomd] = job.root

\* A step that puts another build in the place of a package.
ReplacesPackage == \E p \in Locations \cap DOMAIN store \cap DOMAIN store' : store'[p] # store[p]

\* No copy disturbs a client of the destination, wherever it is cut short
\* (copy.go:118-122): unless it writes another build of a package over the one
\* there, or the source is republished while it is being copied.
CopyUndisturbed == [][Whole => Whole' \/ ReplacesPackage \/ ~SourceStill]_copyVars

\* An exact copy that ends leaves the source's index, everything it names and
\* the signature that goes with it, whatever was there before and however often
\* the copy was taken up again (docs/createrepo-go.md:423-431).
ReplicaMade ==
  [][job.doing = "exactConfig" /\ SourceStill =>
       /\ store[Repomd] = job.root
       /\ Complete(job.root)
       /\ job.sign \/ RepomdAsc \in DOMAIN job.seen => store[RepomdAsc].signs = job.root
       /\ job.prune => DOMAIN store \subseteq DOMAIN job.seen \cup {RepomdAsc}]_copyVars

\* A rebuilding copy that ends publishes every package that was chosen, where
\* the index says it is, beside those the destination had: all but other builds
\* of the chosen, and those that were pruned.
ChosenPublished ==
  [][EndRebuilding =>
       LET root == store[Repomd]
           now  == Range(root.at) IN
       /\ now \subseteq job.base \cup job.chosen
       /\ ~opt.pruneOlder =>
            now = job.chosen \cup {x \in job.base : Builds(x) \cap job.chosen = {}}
       /\ \A l \in DOMAIN root.at : root.at[l] \in job.chosen => store[l] = root.at[l]]_copyVars

\* A copy that was begun in an empty place, of a source that is still the same
\* and is no copy itself, can be taken up again wherever it was cut short
\* (docs/createrepo-go.md:446).
CopyResumes == job = NoJob /\ unfinished = version => Resumable
=============================================================================
