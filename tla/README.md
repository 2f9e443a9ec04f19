# A model of createrepo-go

createrepo-go maintains rpm-md repositories (`createrepo-go`) and Debian ones
(`createapt-go`) in place, on a local directory, an SFTP server, S3, GCS or, read
only, HTTP. It promises that a repository is whole at every moment, that an
interrupted publish does no harm, that pruning never takes a version that
something needs, that a copy leaves what it was asked for, and that what its
verify, check and takeover commands report is true. The TLA+ modules here model the
code that keeps those promises, TLC checks them on small repositories, and TLAPS
proves the central ones for every repository.

## 1. The system

| component | code | state | operations | talks to |
|---|---|---|---|---|
| publish | `pkg/publish/execute.go`, `plan.go` | none: a plan is a value, its effect is in the backend | `PlanFiles`, `Unreferenced`, `Execute` | backends (Stat, Hash, Copy, Put, Delete) |
| rpm repository | `pkg/rpm/repo`, `pkg/rpm/repodata/index.go` | the index as loaded, as it will be, the staged files, the options | `OpenWith`, `AddRPM`, `Remove`, `PruneOlderVersions`, `RelocateAll`, `RefreshFromPackages`, `CopyPackagesFrom`, `Commit` | publish, the dependency graph |
| apt repository | `pkg/apt/repo`, `pkg/apt/aptdata/index.go` | the same for one suite; suites share a pool | the same with `AddDeb`, `AddDSC`, `CopyEntriesFrom` | publish, the dependency graph |
| dependency graphs | `pkg/rpm/repodata/depgraph.go`, `pkg/apt/aptdata/depgraph.go`, `depends.go` | none | `CheckDependencies`, `RemovalBreakages` | called by prunes, copies and checks |
| copy | `cmd/*/copy.go`, `copyrun.go` | `createrepo-go.json`, `createapt-go.json` at the destination | exact, rebuilding; new, overwrite, continue, update | two repositories, transfer |
| transfer | `pkg/xfer` | an exact copy's difference with its destination | `CopyExact`, `PutFile`, `ServerCopy` | two backends |
| takeover | `pkg/rpm/takeover` | a report | `Analyze`, then the republish it foresees | an rpm repository, in memory |
| backends | `pkg/backend` | the files clients read; S3 remembers the bucket's region | Put, Copy, Delete, Stat, Hash, List | the network |
| verify | `pkg/*/repo/verify.go`, `pkg/integrity`, `pkg/rpm/pkgcheck` | results under a mutex | read every file the metadata names, then judge the signatures together | backends, parallel, progress |
| check | `pkg/*/repocheck`, `pkg/checkcore` | a collector of results | root, documents, files, as a client meets them | backends, parallel |
| parallel, progress | `internal/parallel`, `pkg/progress` | slots and a wait group; counters under a mutex | `Each`; `Begin`, `Skip`, `Add`, `Done` | every long operation |
| metadata | `pkg/rpm/repodata`, `pkg/apt/aptdata`, `internal/rpm` | none | parse and render | the repositories |
| signing | `pkg/gpg`, `pkg/rpm/sign`, `pkg/apt/sign` | none | sign a package, sign an index | gpg |
| commands | `cmd/*` | flags | the order in which a command calls a repository | everything |

What makes each correct:

- **publish**: nothing a client can reach names a file that is not in place with
  the content named, whenever a publish stops.
- **repositories**: what `Commit` hands to `Execute` makes that true; what is left
  afterwards is what the index names, with a signature of that index or none; an
  index refreshed from its packages is true of them and loses none.
- **dependency graphs**: a prune breaks nothing it was told to spare, and reports
  all it breaks.
- **copy, transfer**: a copy that is cut short disturbs nobody and is completed by
  the next; one that ends leaves the source's index and all it names, or every
  package that was chosen; other suites are left alone.
- **takeover**: the republish does what its report says, and one with nothing
  blocking loses nothing a client relies on.
- **backends**: a call takes effect in one step or not at all, whatever else runs
  and wherever it fails; a replaced file is never lost; a recorded checksum is that
  of the content.
- **verify, check**: the report is what the storage holds, whatever order the checks
  ran in and whatever could not be read; what passes can be relied on; blame does
  not depend on an order.
- **parallel, progress**: every item is done once, within the slots; counters agree
  with what was done, whatever goroutine reports it.

What is hard here: a process may die between any two storage calls and nothing
records how far it came; clients read with no lock; three files make one signed
index; a plan is made from what the index *says* is stored, not from what is; a
file's absence and its presence both drive decisions that a second, resumed
publish takes again; pruning decides on several packages at once whose
dependencies point at one another; a refresh changes the keys of the index it
walks; a source changes while it is copied; a check that cannot have one proof
takes a weaker one. `PROJECT.json` lists these hazards at their lines.

## 2. The modules

| module | models | |
|---|---|---|
| `AtomicPublish` | the promise of a publish, as a client sees it | abstract |
| `Execute` | `publish.Execute`: one action per storage call, stops, torn copies; the contract `Sound` | core |
| `Publish` | any number of publishes of any sound `Steps`; refines `AtomicPublish` | core |
| `ExecuteProofs` | lemmas about `Execute`: what each storage call keeps of a sound publish | proofs |
| `PublishProofs` | the theorems about `Publish` | proofs |
| `Plan` | `publish.PlanFiles` and `Unreferenced` | pure |
| `RpmRepo` | load, changes, refresh and commit of an rpm repository; `EXTENDS Execute, Plan` | composition |
| `RpmRepoProofs` | the theorems about `RpmRepo`, `Takeover` and `RpmCopy`; `EXTENDS ExecuteProofs` | proofs |
| `Takeover` | the analysis of a takeover and the republish it is about; `EXTENDS RpmRepo` | composition |
| `RpmCopy` | `createrepo-go copy`, exact and rebuilding; `EXTENDS RpmRepo` | composition |
| `AptRepo` | load, changes, refresh and commit of an apt suite; `EXTENDS Execute, Plan` | composition |
| `AptRepoProofs` | the theorems about `AptRepo` and `AptCopy`; `EXTENDS ExecuteProofs` | proofs |
| `AptCopy` | `createapt-go copy`, exact and rebuilding; `EXTENDS AptRepo` | composition |
| `DepGraph` | the prunes of both tools and what they ask the dependency graph, whatever a requirement is | component |
| `RpmDeps`, `AptDeps` | what a requirement is, and what meets it, in each | pure |
| `Versions` | which of two versions is the newer, in each | pure |
| `VersionOrder` | the order that versions stand for, by what a version says rather than by comparing two | abstract |
| `DepGraphProofs` | the theorems about `DepGraph` | proofs |
| `Each` | `parallel.Each`: caller, slots, wait group, goroutines | component |
| `PkgCheck` | one rpm checked against itself and its signatures | pure |
| `Trust` | the rules about who signed what of a repository; `EXTENDS PkgCheck` | pure |
| `Verify` | both verify commands over `integrity.CheckInspect`, with the progress counters; `EXTENDS Each, Trust` | composition |
| `VerifyProofs` | the theorems about `Each`, `PkgCheck` and `Verify` | proofs |
| `Check` | both check commands, from their input to the files of single packages | component |
| `CheckProofs` | the theorems about `Check` | proofs |
| `ObjectStore` | what a publish relies on of a backend: each call takes effect in one step at most | abstract |
| `Backends` | Put, Copy, Delete and Stat on local files, SFTP, S3 and GCS, one system call or request at a time; implements `ObjectStore` but for the steps it names | component |
| `BackendsProofs` | the theorems about `Backends`; that it implements `ObjectStore` | proofs |
| `MC...` | the instances | |

```
AtomicPublish <=refines= Publish --> Execute <-- RpmRepo --> Plan
                                        ^          ^  ^
                                        |          |  +-- Takeover
                                        |          +----- RpmCopy
                                        +-- AptRepo --> Plan
                                              ^
                                              +-- AptCopy
RpmDeps --> DepGraph <-- AptDeps          ObjectStore <=implements= Backends
      \--> Versions <--/
Verify --> Each          Verify --> Trust --> PkgCheck          Check
```

(`DepGraph` takes what a requirement is as constants; `MCDepGraph` gives them from
`RpmDeps` or `AptDeps`, according to the catalogue.)

### Execute and Publish

The store is a function from the paths that exist to what they hold. A content is
a value; what a content *names* is the constant operator `Needs`, so that an index
file (repomd.xml, Release, InRelease) is a file like any other whose content names
paths and the content each should have. `work` is what is left of the `Steps`
being executed. The actions are the loops of `execute.go:66-123`, one storage
call each: `CopyOne`, `UploadOne`, `WriteMetadata`, `SwapOne`, `RetractOne`,
`CollectOne`. `Stop` abandons the rest between any two calls, which is what an
error return and a killed process have in common; `StopInCopy` does so in the middle
of a copy that writes in place, as `cp -f` over SFTP does, and leaves `Partial`.
Every other write is taken to be atomic: local files and SFTP uploads are renamed
into place, object stores replace whole objects. `Backends` is where that
is examined.

`Sound(work)` is the contract `Execute` needs of its callers, never written down in
the code: copies read what is there and write where nothing is; uploads and
metadata change nothing a client can reach; everything the new index names is in
place or about to be; nothing collected is still named. `Publish` runs any
sequence of publishes whose Steps are sound when they begin. `Whole` says that no
index names a file that is missing or different, `StaysSound` that the contract
holds of what is left at every moment, and `PublishedAtomically` that, seen through
an index file, the repository moves from one whole version to the next in a single
step.

### RpmRepo and AptRepo

One process at a time opens a repository (`Open`, which reads whatever the store
then holds), makes calls that change its index in memory, and commits. `Commit`
computes the Steps as `commit.go` does, with the plan of `plan.go`, and hands them to
`Execute`, whose actions then run (`Publishing`) until the publish ends (`Finish`)
or is cut short (`CutShort`, after which a new process starts from the store as it
is). An rpm stands for its content and its pkgid, as the pkgid is its checksum; a
metadata document is named by its checksum, so its path *is* its content.

| RpmRepo | code |
|---|---|
| `idx`, `old`, `original`, `pending`, `copied`, `replaced`, `opt` | the fields of `Repo` |
| `Open` | `OpenWith`, `load`, `loadData` |
| `AddRPM`, `RemoveNEVRA`, `PruneOlderVersions`, `RelocateAll` | the methods of those names |
| `Refresh` (`Reread`, package by package in index order) | `RefreshFromPackages` |
| `ResignAll` | the re-signing step of `rebuild`: whatever RPM lies at a location is signed and staged, and recorded in place of the entry of its name and version |
| `PlanState`, `NewIndex`, `ObsoleteMeta`, `UnreferencedRpms`, `StaleMetadata`, `Swapped`, `Retracted`, `CommitSteps` | `commit.go` |
| `Commit`, `Publishing`, `Finish`, `CutShort`, `Abandon` | `Commit`, `Execute`, a death, a refusal or a declined prompt |

`use` is the repository under examination, chosen once: what the store holds at
first, the options a process may be started with, the calls it may make and how
many, and how many publishes there are. Which versions a prune may take is left
open here (`Pruned`: all, or any subset of the superseded ones), and decided in
`DepGraph`.

`AptRepo` has the same shape with what apt adds: entries of several files, one
index per architecture under a plain name and, with by-hash, under its checksum as
well; three root files swapped one after the other (`Release`, `Release.gpg`,
`InRelease`) of which `load` prefers InRelease; architectures that are kept once
published; source packages whose revisions share a tarball; and several suites
over one pool, each published by sessions of its own. Its `Refresh` follows
`pkg/apt/repo/refresh.go`: the binary packages are read location by location,
identical copies are set aside as conflicts (`Conflicts`), and each remaining location
drops its old entries and takes its fresh one. What that walk comes to is said at
once (`Removed`, `Refreshed`): an entry is gone if the last thing done about it was to drop it.

### Takeover

`Analyze` is `takeover.Analyze`: on the index as loaded it applies what the flags ask
for (re-read, prune, relocate), computes the plan of that, and keeps the findings, the
files that would be deleted and those that would be moved in `report`; the store is
left alone. `CommitForeseen` is a commit of any session; it is `foreseen` when that
session did to the index what was analysed. What is held against the report is what
`Execute` then does, call by call.

### RpmCopy and AptCopy

The destination is the store of the repository; the source is one of the stores in
`SourceAt`, and its owner may publish the next at any moment (`SourcePublishes`). An
exact copy walks the objects in publish order (`CopyObject`, `PruneObject`, `EndExact` or
`EndTransfers`), a rebuilding one writes packages and then commits as every other
command does (`CopyPackage`, or `PlaceCopy` and `CopyFile` where a package has several
files; `PruneCopied`, `CommitCopied`, `PublishCopied`). Both end by rewriting the
configuration (`WriteConfig`, `WriteEnd`). `CutCopy` ends either anywhere; `--continue`
takes it up if `Resumable` lets it. `AptCopy` copies one suite of a source with two into
a destination with two, which is where the objects of other suites come in: `Seen`
leaves them out, `Extraneous` does not.

### DepGraph, RpmDeps and AptDeps

The two tools have one algorithm: `CheckDependencies` and `RemovalBreakages` over an
index of providers, and the prunes and adds that ask them. `DepGraph` has it once, with
`Requirements`, `Knows`, `Meets` and `Visible` left open. `RpmDeps` gives them for rpm:
flags and their ranges (`EntrySatisfies`), releases that count only where both sides
have one, file paths, what a package provides of itself, and names that are not
looked at (`rpmlib(...)`, rich dependencies). `AptDeps` gives them for apt: alternatives,
virtual packages with and without a version, relations in force on some
architectures, and a package for `all` that is resolved against everything.

### Versions and VersionOrder

`Versions` translates rpm's `CompareVersions` and apt's `verrevcmp`, with the parsing of a
Debian version, over the characters of a version as it is written. The loops over two
positions became recursion on what is left of both strings; nothing else is abstracted.
`VersionOrder` says what order they should come to without comparing anything: each
version becomes a sequence of numbers (a tilde below the end, a caret above it, then
words, then numbers; for apt a weight for each character, and a number where there
are digits), and the sequences are in dictionary order. `VersionsOrdered` checks that
the two agree. Two versions may be equal without being written alike (1.0 and 1.00):
to add a package replaces an equal version in apt (`AptReplaces`), and one of the same
text in rpm (`RpmSameEVR`); to remove one names a text in both.

### Each, PkgCheck, Trust and Verify

`Each` has the caller's loop (`CountIn`, then `Start` when a slot is free, `Return` when
the wait group is empty) and each goroutine's end (`Over`, `GiveBack`, `CountOut`, in
the order the deferred calls run). `Verify` gives it a function: for each file of an
item, `Stat`, then the branches of `CheckInspect` on what the backend can do
(`ssh` and `local` hash the content; `hashless`: can, but not for this file; `records` a
checksum made at upload: S3, GCS; `plain`: HTTP), then, for an rpm, the inspection of the
package (`Inspect`: whole if its bytes are at hand anyway, else its header), then the
tracker's counters as the rpm and the apt command each call them, then the merge
into the result under the mutex. When all are done, `Judge` applies the rules that
look at all packages together and ends the command.

`PkgCheck` is `pkgcheck.Check`: the digests of header and payload, then each signature
against what its place says it covers, under what the keyring and the policy of a
release admit (`SigStatus`, `PolicyFor`, `Rejects`); a signature over a payload that
was not read is `unchecked`. A digest or a signature is a value that names the bytes it
is of, so that every combination of right, wrong, unreadable and forged can be
asked about. `Trust` is `checkPackageSigners` and `checkMetadataSignature`.

### Check

An input comes to targets (`RpmTargets`: the cross product of a section's variables;
`AptTargets`: entries, suites and components, a `deb-src` line dropped where a `deb` line
covers it). Each target is checked from its root through the documents it names to
the files of the packages that are selected (`Selected`: an apt package where its ID is
listed first, with `--latest-only` the first of its newest version); of those the .debs and rpms
are opened, the files of a source package only weighed (`FetchCheck`). `Error` lets a storage
call fail at any of them. `CheckExact` compares the results with `Faulty`, written from a client's point
of view: what could not be fetched, parsed or trusted by one that follows the same
metadata. It does not select: a package is wanted if no other `StandsFor` it.

### ObjectStore and Backends

Any number of calls run at once, as the workers of one command make them (SFTP
uploads and checks, downloads while an index is put). Each call is where `Pc(c)`
says: a Put of a file goes `create`, `write`, `sync` (local only), `rename`, and on an
SFTP server without `posix-rename` further through `move aside`, `take its place`,
`restore` and `remove old` (`replaceFile`); a Copy of a local file is a Put that read its
source when it opened it, and one over SFTP is a `cp -f` that truncates first and
goes on when its session is gone. On a bucket a call is one or two requests
(`Parts`), each sent to the region of the moment (`Send`), perhaps redirected, after
which `UseRegion` decides whether it is sent again (`s3do`). What leads where on an
error is one table (`OnError`); `Refuse` answers any step with an error, the removal of a
temporary file included, whose error the code ignores (`littered`); `Then` and
`Cut` lose the connection or the process after or before a step, and `PowerCut`
stops the host of a local repository, after which a file that was not synced
is torn. `by` tells which call made a file, so that a `cp` whose destination was
replaced meanwhile writes into a file nobody reads.

| Backends | code |
|---|---|
| `objects`, `temp`, `aside` | the files under their names, the `.crtmp-` files, the `.crold-` files |
| `region` | `s3Backend.region`, under its mutex in `useRegion` |
| `OpenSource` ... `RenameOver`, `Remove`, `StatFile` | `local.go` and the same calls of `sftp.go` |
| `RenameNew`, `MoveAside`, `TakePlace`, `Restore`, `RemoveOld` | `replaceFile` |
| `CopyInPlace`, `CopyFinish`, `CopyLeft`, `CopyAlone` | the remote `cp` |
| `Send`, `Redirected`, `UseRegion` | `s3do`, `bucketRegionOf`, `useRegion` |
| `PutObject`, `DeleteObject`, `HeadObject`, `CopyObject`, `CommitTruncated` | `s3.go`, `gcs.go` |

`StoreCallsAtomic` maps this to `ObjectStore`, where a call has one `Apply`. The steps
after which a client reads what no call asked for are the operator `Departs`: `cp`
in place, the two renames of plain SFTP around which the destination is missing,
and the object GCS makes of a body that could not be read to its end. The first is
`StopInCopy` of `Execute`; the other two `Execute` does not have.

## 3. The runs

| run | instance | question |
|---|---|---|
| `publish` | 2 index files, 3 package paths, 2 contents, 4 versions of the index, every sound combination of at most a copy, two uploads, a document, a swap of one or both indexes, a retraction and four collections; copies not atomic | is the contract enough, at every stop? |
| `rpm_repo` | foo in two versions, the first built twice under one name, and qux. Five kinds of use: adds and removes on an empty repository and on one another tool made, three publishes of one call each; the same with pruning over another build of the package, two publishes of two calls; prune, relocate and re-sign on two versions in two places with strays, three publishes of two calls; two publishes that re-sign where files are of other packages than the index says; and analysis, refresh, prune and relocate on ten repositories: whose files were replaced, exchanged, moved one place on, torn or lost, or signed by a stranger or by nobody who can be told, one publish of three calls. Signed or not, pruning or not, tidying or not, one publish cut short; copies not atomic | does Commit keep the contract, what is left at the end, who is disturbed, is a refreshed index true, and does a republish do what its analysis said? |
| `rpm_copy` | two versions of a source of two packages each; to an empty place or over a repository with another build of one; two copies of any kind, each cut short anywhere; the flags as they come and all turned round | what does a copy leave, and can it be taken up again? |
| `apt_repo` | amd64, arm64, all and source; foo in two versions, the second built twice, two source revisions that share a tarball. Adds and removes, with and without by-hash and signing; prune and relocate over a suite with a stray index and a stray file; refresh and prune where two builds lie in two places, torn, twice or under one name; one publish cut short. And two copies of one suite of a source with two, to an empty place or over a suite beside another, each cut short anywhere | as `rpm_repo` and `rpm_copy`, for by-hash clients, several suites and three root files |
| `dep_graph` | seven rpms that pin, range over, provide and contain what others require, and an apt catalogue with alternatives, virtual packages and architectures; every subset of either. And every pair of 50 versions of up to five characters, digits, a letter and each character with a meaning, as the two versions of one package, for each tool | what does a prune break, and is what a tool calls newer an order? |
| `verify` | three items of one file, or of one, two and one, two at a time: a missing file and an odd one (tampered, rebuilt, truncated, without a recorded checksum) on each kind of backend and in both modes; or all in place and signed in every way a rule tells apart; one storage call fails | is the report exact, the bar true, the blame settled, what passes trusted, and does it end? |
| `check` | rpm and apt repositories with one fault of each kind in a root, document or file, at each level, with filters, several sections, suites, components and forms of an index; one storage call fails | does a check report exactly what a client would stumble over? |
| `backends` | an index that is there and a package that is not; three calls among Put, Copy, Delete and Stat of either, on each of five kinds of storage; two regions; one power cut; refusals and cuts anywhere | does every call keep to the store a publish relies on? |
| `rpm_resume_copy`, `apt_reopen`, `apt_refresh`, `apt_copy_overwrite` | one property each that the code violates | section 6 |

Why the bounds are enough: what goes wrong in a publish goes wrong between two
publishes and the interruption of one of them, so two or three sessions with one stop
let every remnant meet every later decision (a location that exists already, a
document that is both old and new, an orphan that no diff mentions, a signature
of the index before). Two versions and a second build of one under its file name
give every relation two packages can have in the code: same content, same
location, same version, older, unrelated. The members of `Uses` bound the calls one
process makes (`most`), the sessions (`publishes`) and the copies (`copies`,
`MaxCopies`); `MaxStops` the stops, `MaxErrors` the storage calls that fail, `MaxCuts` the
power cuts. A copy cut short and taken up once meets every state a first copy can
leave, and a source that is republished once is different before and after. Three
items on two slots make one wait. A check looks at one repository at a time and a
file at a time, so one fault and one failing call per repository meet every branch.
Three calls on a backend are one that writes, one that interferes and one that
looks or interferes with both. They are interchangeable (nothing orders them and
none is named in a property), so `backends`, whose properties are safety
properties, uses symmetry on them. Nothing else does: the packages differ by
construction.

Neither `rpm_repo` nor `apt_repo` lists `Whole`: `UndisturbedIfTrusted` of either says that
what `Commit` hands to `Execute` is sound unless it is doubtful (each names its own
doubts) and that a sound publish keeps the store whole at every step. Type invariants are proved of `Publish`, `Backends`, `Each` and `Verify`
(section 4) and not run again.

Deadlock is checked in `publish`, `rpm_repo`, `dep_graph` and `backends`, where
something can always be done (in `backends` until every call has ended). It is not in
the apt and the copy runs, in which a store may be reached that no command opens
(that is a finding of one of them), nor in `verify` and `check`, which end.

**Fairness.** Only `Verify` assumes any, for `Returns`: the caller's next step, each
item's check and each goroutine's two last steps are weakly fair. The Go scheduler
runs every goroutine that can run, and a storage call returns, with an error if it
comes to that. Nothing is assumed of which item comes first, nor that a waiting
caller is served before another goroutine. No liveness is claimed of publishes and
copies, which a killed process never finishes.

Every property has a mutant in `PROJECT.json`: an operator beside the one it
replaces, marked `mutant`, that changes it as a plausible bug would, on which the
property fails.

## 4. What is proved

`PublishProofs`, for every set of paths and contents, every `Needs`, every store that
is whole and every sequence of sound Steps (assumptions `ContentAssumption`:
index files name files that are not index files; `EnvironmentAssumption`: the first
store is whole):

- `PublishTypes`, `PublishWhole`, `PublishStaysSound`: `Spec => []TypeOK`,
  `Spec => [](Whole /\ StaysSound)`. `Whole` alone
  is not inductive, as nothing in it says what is still to be written; together
  with `Sound(work)` of the *remaining* work on the *present* store it is. That is
  why `Sound` is stated of the present rather than of the moment `Execute` was
  called: each action consumes a part of `work` and establishes for the store what
  `SoundSwap` had as a disjunct for the work. There is one lemma per action.
- `PublishAtomic`: `Spec => PublishedAtomically`, by the mapping `Seen`. From `Whole` in both
  states, every step that leaves the index files alone is a stutter for clients,
  a swap is a `Replace` and a retraction a `Withdraw`.

The lemmas about single storage calls are in `ExecuteProofs`, stated of any store and any
`work`, so that a repository can use them as `Publish` does.

`RpmRepoProofs`, for every set of packages, every index order, every repository that is
found (`UseAssumption`: what is there is an index of packages, with a signature or without,
documents and packages, whole or torn) and every sequence of sessions and stops:

- `RpmUndisturbed` (`UndisturbedIfTrusted`) and `RpmAlwaysWhole`: the rpm repository keeps the
  contract of `Execute`. `RepoInv` is the inductive invariant: the store holds indexes and
  signatures where clients read, never a signature alone (`StoreInv`); what a process holds
  is what it loaded, and a staged file is the package the index has at its location
  (`SessionInv`); what is left of a publish is of the kinds that `Commit` makes, and never
  collects repomd.xml (`WorkInv`). The middle part is what the proof needs most: an add writes
  the index and the staged file together, an entry that goes takes no other with it, and no
  session both adds and relocates, as no command does.
  `SoundCommit` then goes through `Sound` conjunct by conjunct: whatever the new index
  names is staged, moved, described, carried over, or passed over by the plan; the last is
  true of the store because the old index was (`Whole`), or the publish is doubtful.
- `RpmSignatureCurrent` (`SignatureCurrent`), from `SignatureInv`: what is left to do says
  which of repomd.xml and its signature has been written.
- `RpmRefreshTrue` (`RefreshTrue`). The refresh walks the index in order and changes it as it
  goes, so the proof is an induction over the walk. The theorems of the library that take
  a predicate cannot be used here; the induction is done with a set: the steps at which
  the claim fails, of which there would be a least one, whose predecessor contradicts it.
- `RpmForcedEndsWhole` (`ForcedEndsWhole`), from `ForcedInv`: while a re-signing is published,
  all that the new index names and is not carried over is `Arriving`: it is about to be
  written as the index has it and by nobody else otherwise, or it is there. The entries over
  whose file the re-signing found another package (`Mistaken`) are its exception (section 6):
  `ResignInv` tells them from those that were re-signed as they are named (`Resigned`).
- `RpmEndsTidy` (`EndsTidy`). `TidyInv` accounts for every file that a publish writes or stops
  naming: until the swap the new index awaits it, after it the collection takes what
  only the old index named, and both clean-ups leave out nothing else of their kind. That a
  step leaves more behind only where a publish is cut short then follows step by step, so
  that no later session has to be looked at.
- `TakeoverImplements`: an analysis changes nothing that a session that is given up does
  not, so all of this holds of takeovers as well.
- `RpmTakeoverForesees` and `RpmTakeoverSafe` (`TakeoverForesees`, `TakeoverSafe`). `ReportInv` keeps what the
  report says beside the store it was made of: its plan is the one of `SeenState`, all of
  which a later process finds again when it has the same index, settings and store
  (`CommitUnderway`). While that publish runs, `Underway` says what the store still holds of what
  was analysed: what is gone was to go (`ToGo`) and what is to go is doomed or gone, what
  stays is untouched, and a move has its source or has been made (`Moving`). `ReadTrue` is
  where a report with nothing blocking earns its name: whatever was re-read, or could be read
  before, is what the index analysed says. The proof of `TakeoverSafe` failed at first: of two
  packages, each replaced by another, a prune may drop the one and a relocation then move
  its file for the other (section 6); `Confused` names the case and the run now has it.

- `RpmCopyUndisturbed`, `RpmReplicaMade`, `RpmChosenPublished` and `RpmCopyResumes` (`CopyUndisturbed`,
  `ReplicaMade`, `ChosenPublished`, `CopyResumes`), for every source and every sequence of its
  versions, from `CopyInv`. `ExactInv` follows an exact copy in publish order: what it has been
  through is there, it reaches repomd.xml after the files and the signature after that, and
  none of it is disturbed while the source stands still. In a rebuilding copy (`RebuildInv`)
  nothing is ever staged, and all of the index is either transferred, and then at its place in
  the store, or as it was loaded; so the publish that follows uploads and moves nothing, awaits
  only what is `Arriving`, and collects nothing the new index carries over (`PublishInv`). Here
  `Sound` is not used: a copy that overwrites starts from an emptied index, and what makes its
  swap harmless is that everything is written before the commit. `ChosenInv` says which
  packages the index then lists. For `CopyResumes`, `ResumeInv` compares two copies: as long as
  the source is the version the unfinished one began with, what stands in a place that was empty
  can be loaded and lists nothing the source has not.

Their hypotheses: `RpmFiles` says which files are index files and that `Needs` is `RpmNeeds`, as
the instances do; `Unforced` (of `RpmForcedEndsWhole` alone) that it is the re-signing that
forces: `--force` on the command line makes no promise about files that were not
staged; `Analysed` (of the two about takeovers) that an analysis is of settings that neither
add nor re-sign nor force, and clear away nothing beside, as `takeover` has no flags for these. And of
copies: `CanHash`, without which a file of the right length is taken for the right file, and
an exact copy may leave another build in place (the others assume it because they share the
invariant); `Ordered`, that `First` picks from any set of paths; `SingleBuilds`
(of `RpmChosenPublished` alone), that the source lists one build of a version, of two the later
one transferred would supersede the other; `Originals` (of `RpmCopyResumes` alone), that neither
the source nor what is found is a copy of something else, since a configuration copied with the rest would
name another source. `SourceAssumption` says that the source is a repository at each of its versions, and that
no two versions have the same repomd.xml, which carries a revision. `PackageAssumption` says that a re-signed package is one of the same name and version, that no package is
an index, that the order of the index is one and that `First` picks from the paths it is given.

`AptRepoProofs`, for every set of packages, suites, architectures and directories, every
repository that is found and every sequence of sessions and stops on any of its suites:

- `AptUndisturbed` (`UndisturbedIfTrusted`) and `AptAlwaysWhole`: the apt repository keeps the
  contract of `Execute` for clients that find indexes by hash. The inductive invariant
  `AptInv` has the parts of `RepoInv`, for several suites and three files each: what stands
  where clients read (`StoreInv`), what a process holds (`SessionTyped`, `SessionInv`), what is
  left of a publish (`WorkInv`), and how far its three files are (`SignatureInv`, `RetractInv`).
  `SoundCommit` again goes through `Sound`; what is new is that an index may be written where one
  is (it is its own by-hash path, so by-hash clients see no difference, and those that are not
  by-hash are a doubt), that two stanzas may be for one file (`PlacedFacts`: if each is
  justified, they agree), and that what is collected may be named by another suite
  (`PoolShared`, of which `CollectSound` shows that nothing else is left).
- `AptEndsWhole` (`EndsWhole`). `OnCourse` is its invariant and part of what it says: whatever
  the Release to come names is about to be given the right content and no other, or has
  it, and is not to be collected. It is weaker than `Sound`, needs no by-hash and no old
  Release that is whole, so it holds of the publishes that do disturb clients.
- `AptArchitecturesKept` (`ArchitecturesKept`), from `KeptInv`: the architectures of the Release
  clients read are among those of the one to come. `StepFronts` says why that is enough:
  through all the steps of a publish, the Release a client would load is the one it was
  or the one to come.

- `AptRefreshTrue` (`RefreshTrue`). A file that is read again is of one package, and no other file
  read again is of it (`RereadFacts`). `NamesInv` keeps binary packages under their own names, as
  long as what is moved, uploaded and torn is; from this, and nothing having changed places, an
  entry goes exactly if another is found at its location (`RefreshedFacts`), so that the order
  of the locations is of no account.
- `AptRelocationPlaced` (`RelocationPlaced`), from `MovedInv`: until something is added, the index
  holds loaded entries, each where it was or each where `RelocateAll` puts it; so what a
  binary package is moved from is an orphan that the plan finds by its ID.
- `AptEndsTidy` (`EndsTidy`), from `TidyInv`, as in the rpm repository. What clients load of the suite
  may at each step be the old Release or the new (`StepFronts`), and what is collected may only
  stop being due when the three files are all written (`EndedFronts`).
- `AptReplicaMade` (`ReplicaMade`), for every source and every sequence of its versions, from
  `CopyInv`. `Transferring` follows an exact copy in publish order: what the Release vouches for
  (under both names of an index, `VouchedFacts`) is there once it has been through, Release comes
  after all of it and the signatures after Release, and while the source stands still nothing of
  it is disturbed, whatever a prune deletes. `Ending` says which signatures of which Release are
  still to be made. What other suites have in the same pool need not be known for this.
- `AptCopyUndisturbed` (`ByHashUndisturbed`), from `CopyInv` and `IntoInv`. Of what a copy writes and
  deletes, clients who read by hash only notice three kinds of files (`LiveNeeds`, `PutWhole`,
  `DeleteWhole`): a Release or InRelease, a file of the pool, an index under its checksum. An exact copy
  comes to the first when all it names is there (`KnownComplete`); it prunes a file only
  after every Release that could name it, or keeps that Release (`PathOrder`). For a rebuilding copy
  `IntoInv` follows the publish: each index of the Release to come is in place or about to be written
  (`DescribedInv`), each of its pool files in place, taken on trust or about to be moved (`PlacedInv`),
  so that with nothing left to move or to write, and the trust justified, the Release is complete
  (`ComingComplete`) before any of its three files is swapped (`SwappingInv`); and what is collected is
  named neither by it nor, unless the pool is shared, by another suite (`CollectingInv`).
- `AptChosenPublished` (`ChosenPublished`), from those two and `ChosenInv`. What is in the index is what was
  there and is of no version placed since, and what was placed (`ListedInv`). Of each file of a
  placed package, it is where the index has it and nothing the publish moves goes over it, or it is
  still to be copied (`InPlaceInv`); that copying one file over another's place does no harm is what
  `OneContent` is for, for `placeCopy` does not ask. The new Release is loaded as the index it was made of
  (`IngestedNew`), since every entry is in the index of some architecture (`EveryEntryIndexed`), and
  no step of the publish touches a file that is in place (`ChosenPublish`).

The hypotheses of the first two are `CanHash` and `Ordered`, as for rpm copies, and
`SourceAssumption` of `AptCopy`; and for the second `PathOrder`, that in path order a suite's
Release and signatures come before its indexes, and suites before the pool: so it is as long as
the names of components do not sort before `Release.gpg`. The third takes `CanHash` and `Ordered`
too, no `PathOrder`, and that the source lists one build of a version (`SingleBuilds`), that what
it lists under one file name is one content (`OneContent`), as an upstream tarball two revisions
share, and that no package is left out for its architecture: there is an index for each, and the
copy is not given `--architectures` (`AllIndexed`). `SourceAssumption`: at each of its versions
the source's suite is a Release that says of its pool what its indexes do, an index found by hash
is that index, signatures are of the Release, and no Release comes twice.

Their hypotheses: `AptFiles` says which files clients start from and that `Needs` is `AptNeeds`;
`PackageAssumption` that versions can be compared, that `First` picks from the paths it is
given, that `ArchOrder` lists each architecture, and that no package is a Release;
`FilesAssumption` that a binary package is one file, whose checksum is its ID, and that no file
of a source package is one; `UseAssumption` that what is found has Releases and signatures
where those belong, and binary packages under their own names; `PlaceAssumption`, which
`AptEndsTidy` alone uses, that no package is listed at two places.
`InArchOrder` is a recursive function; what it returns is proved, as the walk of a refresh
is, by the least index at which the claim would fail (`LeastNat`).

`DepGraphProofs`, for every catalogue, every order of its versions and every notion
of a requirement, rpm's and apt's among them:
`PruneSparesSurvivors` (a prune that spares needed versions leaves everybody who
was not up for removal what they had) and `PruneReportsBreaks`. The first does not
depend on `Visible`: `RemovalBreakages` asks about every package that could meet a
requirement; the second makes the exception for what only another architecture
meets because of it.

`VerifyProofs`, for every finite set of items and every concurrency, also none or a
negative one: `EachBounded`, `EachComplete` and `VerifyBounded`. The invariant counts: the channel
holds a slot for each call that is running or over (`SemExact`), the wait group
each call that is in and not out, and the one on its way in while the caller
waits for a slot (`WgExact`), and an item has no call exactly when the caller has
not come to it (`TodoExact`). `VerifyStep` shows that a step of `Verify` is a step of `Each`
or leaves it alone, so that `Verify` inherits the invariant.

The same module, for every set of keys, packages, signatures and releases:
`HeaderUnderstates` (what a check that stops at the header calls damaged or badly
signed, a check of the whole does too, so that `verify` of remote storage accuses no
sound package) and `ReleasesRestrict` (a release accepts no signature that rpm refuses
everywhere).

And of `Verify` as a whole, for every set of items and files, every storage, mode and
keyring, and every order the checks run in:

- `VerifyBarTrue` (`BarTrue`). `BarInv` adds that what is left of an item is among its files
  and that the one being checked is not left any more. The bar counts pairs of an item and
  a file of it (`Owned`), as two source packages may share a tarball, which is checked for
  each; the steps take one pair off `Unsettled`, or none, as they take one off the bar.
- `VerifyReportExact` (`ReportExact`). `ReportInv` says of each check, at each of its steps,
  what its verdict holds already, what it knows of the file it is looking at, and that the
  verdicts that were merged are what the result holds (`JoinedIs`). That a verdict says
  nothing more is the harder half: each step is compared with what the report promises
  about one file.
- `VerifyPassIsTrust` (`PassIsTrust`), from the same invariant at the last step: with no
  problem reported every package was read and inspected, and each rule about signers
  that was asked for leaves no room for the signature that would contradict it.

`CasesAssumption` says what a verify may be asked: only rpms, which are one file each,
are looked into, files are finite in number, their checksums right or wrong, a repository
records primary keys, and a package that was read can be told from one that was not.
`KeysAssumption`: a subkey is of a primary key.

`BackendsProofs`, for every set of calls, paths, contents, requests and regions and
every kind of backend (`KindAssumption`): `BackendsTyped` and `NothingLost`. The second is
`PreviousKept`, which has two halves and takes two invariants. That a path which had a file
still has one, there or aside, is not inductive: the file moved aside must be the one the
rest of the call puts back or drops. `KInv` says so: whoever is to put a file back holds one (`AsideThere`), who
writes has a temporary file to put in its place (`TempThere`), only a delete removes
(`Removing`, and `TodoOK` for the requests of a bucket), and a call that is about to drop
what it moved aside no longer counts as holding it (`Kept`): by then the new file
stands there, and who takes that one away answers for it. That what can be had is the old file, what was put, or a copy of
something, and torn only where `Torn` says (an object GCS made of a body that failed, a
`cp` in place), is `FInv`: what lies at a path, and what a call moved aside, is `Fit` for that
path, a temporary file is that of the call that writes it, and a call that writes has all of
its content in hand (`Ready`). Every action but `Begin` and
`PowerCut` moves one call, so one lemma (`StepKeeps`) lists what such a step has to
show and each action has a lemma that shows it.

Of the same system, `NoTempLeft` (`TempsCleared`) and `SumsTrue` (`RecordedTrue`). For the first, only a call
that is still writing, or whose way was cut, or whose removal of it was refused
(`littered`, the exception the property makes), has a temporary file (`TempsHeld`). For the
second, `SInv` speaks of one object or one call at a time: no checksum is recorded on
files, a request on its way carries a whole body, what a call wrote is what it was
given, a local directory holds synced files only. So a step has to show it of the call
it moves and the objects it changes (`OneStep`).

It also proves, from `KInv` and `SInv`, that `Backends` implements `ObjectStore` but for
the steps `Departs` names (`StoreAbides`, the property `StoreCallsAtomic`). `Seen` is what
`ObjectStore` sees; a lemma for each of its steps says what has to be seen for it to have
been taken, and each action of `Backends` is shown to look like one of them or like
nothing. It needs that a rename puts in place what the call was asked to write, that
power takes nothing from a local directory (`PowerKeeps`), and `DataAssumption`: `Absent`
and `None` are no contents. `Execute` takes each call of a publish to be one
step; this theorem says of which calls that is true.

`CheckProofs`, for every input, every set of repositories and any number of storage calls
that fail: `CheckReportExact` (`CheckExact`) and `CheckPassMeansSound` (`PassMeansSound`). Neither is
inductive: a report is compared with the faults of a target as a whole, while a check
goes through its documents and then its files. `CheckInv` follows it: the failures reported so far
are the faults of the first `done` documents (`DocumentsTold`), then these and those of the
files it has been through (`FilesTold`). One invariant serves both theorems, as it
speaks of a target that is `Clean`: no call has failed, or nothing but "OK" was said of it. In
the second case a call that fails may still hide a recorded checksum (`Hidden`), which is
the exception `PassMeansSound` makes. What a check picks out of what it read (`Distinct`,
`Newest`, by their place in the list) is compared with what no other entry stands for: there is
a first entry of each ID (`FirstOfID`) and of each newest version, by the least place in the
list, and two entries of one ID are one package (`OneIDOnePackage`). The apt half has to say what was read of the
indexes of which several forms exist: one of each whose content is right, whichever came
first (`AptBody`). `ChecksAssumption` is what a repository may be: its root names one document at a
place, an rpm root one primary, and the forms of an apt index decode to the same stanzas,
as `checkIndexes` relies on when it parses only one of them (`apt/repocheck/check.go:190-193`).

Only model-checked: `BlameSettled`, which folds over an order, and `RangesOverlap` and
`VersionsOrdered`, whose operators are recursive, all three induction over data; and the
liveness of `Verify`, which is out of the prover's reach.

## 5. What the models leave out

- **Parsing, rendering, signing, compression.** A document is what it says, and
  outside the dependency graphs a version is its place among those of its name. Two signatures of one signer over one index are equal,
  and re-signing a package is deterministic. What a check finds in a document that
  does not parse, or is not what its checksum says, is a state the document has.
- **Two processes at once.** The tools take no lock and document none; the models
  run one process at a time, a copy's source being the exception.
- **rpm**: other.xml stands and falls with filelists.xml. `idx` is keyed by the
  pkgid. `CanHash` is TRUE in the runs: where the backend knows no checksum the plan
  compares sizes, and two builds of one size are taken for one another by design.
- **apt**: one component, one compression; per-component Release files are left
  out; publishing a source is one call; a refresh reads binary packages only.
- **takeover**: findings about the contents of documents (checksum types,
  changelogs, weak dependencies, compression), the settings it recommends, and the
  layout it guesses. The key it would sign with is named by its ID, as the signature names its
  signer: given as the path of a key file, it is never the same as the one found.
- **backends**: the retries inside the SDKs, the sync of a directory after a rename,
  file modes, and two copies to one destination at once, which no command makes. A
  bucket's answer is that of one moment (S3 and GCS are strongly consistent).
- **copy**: re-signing of packages, the check of their signers, base URLs,
  path checks and the filters (which packages are chosen is any set of them that
  the flags allow) are left out, and a failure to write the configuration, which the
  command only warns of, does not happen.
- **verify, check**: the painter's goroutine. Files do not change while they are
  looked at. A refresh's progress counters.
- **Not modelled at all**: the metadata documents (`internal/rpm`, `pkg/rpm/rpmmeta`,
  `pkg/rpm/repodata/read.go`, `write.go`, `pkg/apt/aptdata/release.go`, `control.go`),
  signing, compression, configuration files and flag parsing. They are
  functions of their input with no state, whose cases are strings and XML; the tests
  beside them reach what a small model of them would.

## 6. Where the code departs from what it says

Four runs end in a counterexample to a sentence of the repository.

- `rpm_resume_copy`: over SFTP a relocation copies in place. One that is interrupted
  leaves a torn file, which the next rebuild takes for the package because it exists
  (`plan.go:177`): it publishes an index that names it and deletes the intact one.
- `apt_reopen`: a publish stopped between a plain Packages file and the Release
  leaves a suite no command opens, although the by-hash copy is there:
  `fetchIndex` falls back on it when the plain file is missing, not when it differs.
- `apt_refresh`: where two packages have changed places underneath the metadata, the
  refresh adds the first under its new location and then removes it again when it
  comes to the second, whose old entry has the same ID; the Commit that follows
  deletes a file "the surviving entry still names" (`pkg/apt/repo/refresh.go:172-174`).
- `apt_copy_overwrite`: an exact copy of one suite with `--overwrite` prunes the whole
  destination of what is not among the objects of that suite, every other suite included
  (`pkg/xfer/copy.go:202`; `docs/createapt-go.md:443-444`).

Others were met while modelling, and the properties make the exception they need.

Publishing:

- A relocation onto a location the old index had, and whose package a prune
  dropped in the same rebuild, moves nothing: the location counts as original
  (`plan.go:168`), and the index names the wrong bytes there.
  `UndisturbedIfTrusted` and `Doubtful` say exactly which publishes are affected.
- Re-signing overwrites live packages before the index is swapped; clients are
  disturbed until it ends, and `ForcedEndsWhole` says it then is whole. It signs whatever RPM it
  finds at a location (`rebuild.go:254-273`): over another version's file, the signed file is
  recorded as what it is, but the entry that named it stays, and is published though its
  location now holds the other package. `ForcedEndsWhole` excepts these (`Mistaken`).
- What a publish that was cut short left behind is in no later diff; it stays until
  a rebuild removes unreferenced files (`EndsTidy`). A file that was staged in vain stays
  likewise, though no publish was cut short.
- What was staged for a package that a later call of the same session dropped is
  uploaded all the same (`pkg/rpm/repo/repo.go:355`): the plan says that it "Shouldn't
  happen: a staged file is always one the metadata references" (`plan.go:124-127`), and
  replaces what is there. `add --prune-older` of a rebuilt package and then of its successor
  so overwrites the old file while clients still read the old index, or leaves a file that
  no index names. The proof of `RpmUndisturbed` failed on it; `Dropped` and `StagedInVain` are
  the exceptions the properties now make.
- Two apt versions that differ in their epoch have one file name, and the published
  index names that file twice with two checksums (`pkg/apt/repo/repo.go:471`;
  `rebuild.go:214` says that cannot both be right). Relocating two builds of one name
  to one place gives two stanzas for one file. The runs have file names that differ.
- Suites that share a pool each collect what they stopped naming themselves, and so
  delete a file another suite still names; `--remove-unreferenced-packages` deletes
  the pool files of every other suite. `PoolShared` is the exception the apt properties make.
- What an apt session staged for a package it dropped again is uploaded as in the rpm
  repository: `Dropped` and `StagedInVain` are the exceptions.
- Adding a source again under another layout copies the tarball over the .dsc, as
  both have one ID when loaded and each its own when referenced; relocating one
  is refused for the same reason. `RelocationPlaced` speaks of binary packages.
- Files of an architecture that is no longer selected stay.
- A package that two indexes list at two places is one entry at one of them: the file at the
  other is in no diff and stays (`pkg/apt/repo/repo.go:448-452`). `PlaceAssumption` sets this aside.

Refresh and takeover:

- An rpm refresh that meets a package which another, not yet refreshed entry is about
  leaves both entries as they were and calls them identical, although only the
  metadata says so; the index is then still untrue of its files (`refresh.go:102-117`). A
  takeover reports this as advice and is OK, and the republish stays broken
  (`report.go:161-163`); `TakeoverSafe` makes the exception.
- A refresh leaves what the plan takes for the owner of each file as it was loaded
  (`repo.go:218`, `plan.go:95-108`). Where a package was replaced by an older version of itself and
  came to lie where a second one was, an analysis that re-reads, prunes and relocates is OK, and
  the republish moves the older version to where the index names the newer. `TakeoverSafe`
  makes this exception too (`Confused`).
- The report names documents that would be dropped whether or not they are there.
- A signature whose signer cannot be told is not compared with the key to sign with: that the
  metadata will be signed by another goes unsaid (`takeover.go:549-557`), and `TakeoverSafe` says
  nothing of it.
- A package a refresh does not find is counted done by a deferred call and then
  taken off the totals as well (`refresh.go:78-81`, `readablePath`): the bar of three packages, the
  first of them missing, ends at three of two.
- `packageFileMismatches` passes over a package that matches no entry by name and
  version (`takeover.go:821`), so that a file replaced by another version is not a mismatch.
- `packages-relocated` is blocking when a destination already holds the file, as no
  move is planned for it (`takeover.go:883-888`); and the text of
  `metadata-signature-invalidated` speaks of a stale signature left in place, which Commit
  takes away (`takeover.go:563`, `commit.go:109-115`).

Copies:

- The interrupted copy of a copy carries its source's `copy_source` and is refused by
  `--continue` (`cmd/createrepo-go/copy.go:386`, and the same in `createapt-go`). `CopyResumes` is
  checked of a source that is no copy.
- A source that is republished with an index of the same length while it is
  copied goes unnoticed; `--continue` after the source stopped signing leaves the old
  signature (and an old InRelease, which clients prefer); a copy that updates and is cut
  short after it overwrote a package leaves an index that names the build before.
  `CopyUndisturbed`, `ByHashUndisturbed` and `ReplicaMade` speak of a
  source that stands still and name the other case.
- Placing a copied apt entry never asks whether its location is taken
  (`pkg/apt/repo/copy.go:433`), as the rpm copy does.

Dependencies:

- `RemovalBreakages` of apt ignores architectures, `CheckDependencies` does not
  (`aptdata/depgraph.go:236-268`, `143-170`): a prune may report nothing and leave a package
  that only another architecture provides for. `BreaksReported` makes the exception.
- In a Debian relation `<` means `<=`, as dpkg has it, but `>` means `>>`, where dpkg has `>=`
  (`aptdata/depends.go:91-98`).
- 1.0 and 1.00 are one version to `AddDeb`, though their files have two names, and two to
  `AddRPM`, of which a prune keeps the one that comes first (`pkg/apt/repo/repo.go:515`,
  `pkg/rpm/repo/repo.go:319`).
- `ProvidedCapabilities` keeps one of several versions under which a package provides
  one name.

Storage:

- `replaceFile` "moves tmp over dst without ever leaving dst missing" (`sftp.go:348`), but on
  a plain server nothing is there between its two renames, and stays so when it is
  cut there; the old file is then beside it (`PreviousKept`).
- A Put to GCS whose body cannot be read to its end closes the writer, which makes
  an object of what was read, with the checksum of the whole beside it (`gcs.go:75`);
  a later publish takes it for the file (`RecordedTrue` makes the exception). The object it
  replaces is gone, so that neither the old file nor the new can be had: that, and a `cp` in
  place over SFTP, is what `PreviousKept` excepts (`Torn`).
- A temporary file whose removal is refused stays, and nothing is said of it
  (`local.go:90`, `sftp.go:194-202`); `TempsCleared` excepts it.
- `s3do` repeats a request only when `useRegion` changed the region: of two requests that
  are redirected at once the second finds it corrected already, and returns its
  redirect as an error (`s3.go:208`).

Verify and check:

- `--require-trusted` passes a repository none of whose packages is signed, unless
  signatures are required as well; `PassIsTrust` asks for trust of what is signed.
- Verify that reads headers only calls a package whose only signatures cover the
  payload "not signed".
- Check: an empty intersection of the components of an entry and those asked for means
  every component; a `deb-src` entry is dropped for a `deb` entry of other components;
  an entry's own architectures are ignored; apt's head level fails a file whose size
  the server does not tell, where rpm's warns; by-hash copies, and whether Release.gpg and
  InRelease agree with each other, are never looked at; rpm says "ok" for a checksum of a
  type it does not know; a head check whose request for a recorded checksum fails says
  nothing of it (`PassMeansSound` names that case); of a package that is listed at two places
  only the first is looked at, of two builds of a newest version the first; the files of a source
  package are never opened (`apt/repocheck/check.go:572`).
- A check that runs while a publish does reports failures of a sound repository.

## 7. Plan

What is left, in this order:

1. The selection of packages (`repodata/filter.go`, `aptdata/filter.go`) as an operator, and
   what `--latest-only` leaves compared with what a prune leaves.
2. The rest of the tracker (`Phase`, `Aside`, rewinding, the painter), with a refresh and a copy
   that drive it.
3. Two publishers at once, without a lock: what the last of them leaves.
4. Components and compressions in `AptRepo`, with the per-component Release files.
