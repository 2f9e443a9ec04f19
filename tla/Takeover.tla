------------------------------ MODULE Takeover ------------------------------
(***************************************************************************)
(* pkg/rpm/takeover: what republishing a repository with some settings     *)
(* would do, worked out on the loaded index without writing anything.  The *)
(* report is kept here until the next publish ends, so that what it said   *)
(* can be held against what a rebuild with the same settings then does.    *)
(***************************************************************************)
EXTENDS RpmRepo

VARIABLES
  report,     \* the Report of the last analysis, or NoReport
  foreseen    \* what is being published is what the report is about

takeoverVars == <<rpmVars, report, foreseen>>

NoReport == [of |-> "nothing"]

\* What the analysis may be run with: the backend can be listed or not, and
\* --from-packages, --prune-older and --location-prefix.
TakeoverFlags == [listed : BOOLEAN, read : BOOLEAN, prune : BOOLEAN, relocate : BOOLEAN]

IsSigned == RepomdAsc \in DOMAIN store

\* The signer of a signature whose packets cannot be read, which is not compared.
Unidentified == "an unidentified key"

----------------------------------------------------------------------------
(* The findings.                                                           *)

MissingDocuments == old.docs \ DOMAIN store  \* mutant: only documents are looked for
MissingPackages  == DOMAIN old.at \ DOMAIN store

Unreadable == {l \in DOMAIN old.at \cap DOMAIN store : store[l] \notin Rpms}

\* packageFileMismatches: packages are matched by name and version, the last
\* in order of several, and one that matches nothing is passed over.
Match(ix, r) == Last(SelectSeq(Order, LAMBDA x : x \in Builds(r) \cap DOMAIN ix))

Mismatched(ix) == {r \in Range(old.at) : Builds(r) \cap DOMAIN ix # {} /\ Match(ix, r) # r}

\* The conflicts of a refresh: entries that were left as they were although
\* their file is another package.
Identical(ix) == {r \in DOMAIN ix : ix[r] \in DOMAIN store /\ store[ix[r]] \in Rpms \ {r}}

MovedFrom(ix, after) == {r \in DOMAIN after : after[r] # ix[r]}

\* The blocking findings, of the index as read from the packages, as pruned,
\* and as relocated.
BlockingFindings(f, read, pruned, after) ==
  LET plan  == PlanFiles(store, PlanState(after))
      moved == Cardinality(MovedFrom(pruned, after))
  IN {code \in {"missing-packages", "unreadable-packages", "metadata-does-not-match-packages",
                "metadata-signature-invalidated", "metadata-signer-changed", "plan-failed",
                "packages-relocated"} :
        CASE code = "missing-packages"    -> (f.listed \/ f.read) /\ MissingPackages # {}
          [] code = "unreadable-packages" -> f.read /\ Unreadable # {}
          [] code = "metadata-does-not-match-packages" -> f.read /\ Mismatched(read) # {}
          [] code = "metadata-signature-invalidated"   -> IsSigned /\ ~opt.signed
          [] code = "metadata-signer-changed" ->
               IsSigned /\ opt.signed /\ store[RepomdAsc].by \notin {Signer, Unidentified}
          [] code = "plan-failed"        -> CommitRefused(after)
          [] code = "packages-relocated" ->
               ~CommitRefused(after) /\ Cardinality(plan.copies) < moved}

\* Files that a listing shows and the metadata does not name: packages,
\* metadata, and anything else.
Strays == DOMAIN store \ (DOMAIN NamedBy(old) \cup IndexPaths)

DroppedDocuments == {d \in old.docs : d.type \in Derived \ Listings}

\* The others that the properties below tell apart.
Advisories(f, read) ==
  {code \in {"identical-packages", "metadata-dropped", "unnamed-files"} :
     CASE code = "identical-packages" -> f.read /\ Identical(read) # {}
       [] code = "metadata-dropped"   -> DroppedDocuments # {}
       [] code = "unnamed-files"      -> f.listed /\ Strays # {}}

DeletedMetadata(plan, after) == ObsoleteMeta(after)  \* mutant: packages are forgotten

\* What would be deleted, but for what is only moved.
DeletedFiles(plan, after) ==
  ObsoleteMeta(after) \cup (plan.deleted \ {c.from : c \in plan.copies})

----------------------------------------------------------------------------
\* Analyze: reconcile, which changes nothing but the index in memory, and the
\* plan of what Commit would then do.
Analyze(f) ==
  /\ "takeover" \in use.calls
  /\ mode = "open" /\ calls = 0
  /\ old # NoIndex
  /\ report = NoReport
  /\ LET read == IF f.read THEN Refreshed(idx) ELSE idx IN
     \E gone \in Pruned(IF f.prune THEN DOMAIN read \ Newest(read) ELSE {}) :
       LET pruned == Without(read, gone)
           after  == IF f.relocate THEN Relocated(pruned, opt.prefix) ELSE pruned
           plan   == PlanFiles(store, PlanState(after))
       IN report' = [of       |-> store,
                     opt      |-> opt,
                     idx      |-> after,
                     read     |-> f.read,
                     onto     |-> {r \in MovedFrom(pruned, after) : after[r] \in DOMAIN store},
                     whole    |-> Complete(old),
                     blocking |-> BlockingFindings(f, read, pruned, after),
                     advisory |-> Advisories(f, read),
                     moved    |-> {c.from : c \in plan.copies},
                     deleted  |-> DeletedFiles(plan, after)]
  /\ Forget
  /\ UNCHANGED <<store, work, calls, clock, stops, foreseen>>

\* Report.OK
OK == report.blocking = {}

\* The same settings lead another process to the same index of the same store.
Foresees == report # NoReport /\ report.of = store /\ report.opt = opt /\ report.idx = idx

CommitForeseen == Commit /\ foreseen' = Foresees /\ UNCHANGED report

\* A publish that has ended is what the report was for.
EndPublish == (Finish \/ CutShort) /\ report' = NoReport /\ foreseen' = FALSE

TakeoverInit == Init /\ report = NoReport /\ foreseen = FALSE

TakeoverNext == \/ \E f \in TakeoverFlags : Analyze(f)
                \/ CommitForeseen \/ EndPublish
                \/ (Open \/ Mutate \/ Abandon \/ Publishing) /\ UNCHANGED <<report, foreseen>>

TakeoverSpec == TakeoverInit /\ [][TakeoverNext]_takeoverVars

----------------------------------------------------------------------------
\* A republish with the settings that were analysed deletes the files the
\* report lists and the sources of its moves, and no other, what is moved is
\* still there, and it loses documents if the report says so: the report
\* describes the operation that really runs (cmd/createrepo-go/takeover.go:49-52).
TakeoverForesees ==
  [][Finish /\ foreseen =>
       LET gone == DOMAIN report.of \ DOMAIN store IN
       /\ gone \ {RepomdAsc} = (report.deleted \cup report.moved) \cap DOMAIN report.of
       /\ \A p \in report.moved : report.of[p] \in Range(store)
       /\ "metadata-dropped" \in report.advisory <=>
            \E d \in report.of[Repomd].docs \ store[Repomd].docs : d.type \notin Listings]_takeoverVars

KeepsSignature ==
  RepomdAsc \in DOMAIN report.of =>
    /\ RepomdAsc \in DOMAIN store
    /\ store[RepomdAsc].signs = store[Repomd]
    /\ report.of[RepomdAsc].by \in {store[RepomdAsc].by, Unidentified}

KeepsDocuments == {d \in report.of[Repomd].docs : d.type \notin Derived} \subseteq store[Repomd].docs

\* Two entries were found to hold one package, one package moves to where another
\* is, or the file that is moved is not what the index said it was.
Confused == \/ "identical-packages" \in report.advisory
            \/ report.onto # {}
            \/ \E p \in report.moved : report.of[p] # report.of[Repomd].at[p]

\* Where a report has nothing blocking, a republish keeps the signer clients
\* trust, if it could be told who that is, and the documents this tool does not make; and if the packages were
\* re-read, or clients could read all of them before, they can read afterwards
\* all but documents they could not read before (report.go:161-163).  Not so
\* when the files are confused: then a republish with nothing in its way may
\* put a package where the index names another.
TakeoverSafe ==
  [][Finish /\ foreseen /\ OK =>
       /\ KeepsSignature /\ KeepsDocuments
       /\ \/ Confused
          \/ ~report.read /\ ~report.whole
          \/ Amiss(store[Repomd]) \subseteq
               {d \in report.of[Repomd].docs : d \notin DOMAIN report.of \/ report.of[d] # d}]_takeoverVars
=============================================================================
