------------------------------ MODULE DepGraph ------------------------------
(***************************************************************************)
(* Which older versions PruneOlderVersions and Add may drop without        *)
(* leaving a package of the repository with a requirement nothing meets.   *)
(* The two tools have the same algorithm (pkg/rpm/repodata/depgraph.go and *)
(* pkg/apt/aptdata/depgraph.go, with their callers); what a requirement is *)
(* and what meets it is for RpmDeps and AptDeps to say.                    *)
(***************************************************************************)
EXTENDS Integers, FiniteSets

CONSTANTS Catalogs,               \* for each repository, every package there may be
          Rank(_),                \* Rank(p): its place in the order of Packages()
          SameName(_, _),         \* same name and architecture
          Replaces(_, _),         \* Replaces(p, q): and p, when added, takes q's place
          SameVersion(_, _),      \* and the versions are written alike
          Less(_, _),             \* Less(p, q): an older version
          Requirements(_),        \* what p requires that the tool looks at
          Knows(_, _, _),         \* Knows(p, q, req): p provides what req of q names
          Meets(_, _, _),         \* Meets(p, q, req): at a version that meets it
          Visible(_, _)           \* Visible(q, p): q is resolved against p

ASSUME CatalogAssumption == \A C \in Catalogs :
  /\ \A p \in C : Rank(p) \in Int
  /\ \A p, q \in C : Rank(p) = Rank(q) => p = q

VARIABLES catalog, \* the packages there are
          repo,    \* the packages of the index
          opt,     \* [pruneOlder, breakDeps]
          report   \* the breakages the last call reported: [kept, broken]

vars == <<catalog, repo, opt, report>>

----------------------------------------------------------------------------
Satisfied(pkgs, q, req) == \E p \in pkgs : Meets(p, q, req)
Known(pkgs, q, req)     == \E p \in pkgs : Knows(p, q, req)

Seen(pkgs, q) == {p \in pkgs : Visible(q, p)}

AllRequirements(pkgs) == UNION {Requirements(q) : q \in pkgs}

\* CheckDependencies: the requirements this repository should meet and does not.
CheckDependencies(pkgs) ==
  {d \in [dependent : pkgs, requires : AllRequirements(pkgs)] :
     LET seen == Seen(pkgs, d.dependent) IN
     /\ d.requires \in Requirements(d.dependent)
     /\ ~Satisfied(seen, d.dependent, d.requires)
     /\ Known(seen, d.dependent, d.requires)}

\* Mutants: what is being removed still counts as there; and the dependents
\* that are asked are those being removed.
RemovalBreakagesAll(all, removing) ==
  LET keep == all \ removing IN
  {b \in [provider : removing, dependent : keep, requires : AllRequirements(keep)] :
     /\ b.requires \in Requirements(b.dependent)
     /\ ~Satisfied(all, b.dependent, b.requires)
     /\ Meets(b.provider, b.dependent, b.requires)}

RemovalBreakagesOfRemoved(all, removing) ==
  LET keep == all \ removing IN
  {b \in [provider : removing, dependent : removing, requires : AllRequirements(all)] :
     /\ b.requires \in Requirements(b.dependent)
     /\ ~Satisfied(keep, b.dependent, b.requires)
     /\ Meets(b.provider, b.dependent, b.requires)}

\* RemovalBreakages: what a survivor needs of the packages being removed, of
\* whatever architecture.
RemovalBreakages(all, removing) ==
  LET keep == all \ removing IN
  {b \in [provider : removing, dependent : keep, requires : AllRequirements(keep)] :
     /\ b.requires \in Requirements(b.dependent)
     /\ ~Satisfied(keep, b.dependent, b.requires)
     /\ Meets(b.provider, b.dependent, b.requires)}

Providers(breakages) == {b.provider : b \in breakages}

\* What a prune that spares the needed versions leaves of all.
Remaining(all, candidates) ==
  all \ (candidates \ Providers(RemovalBreakages(all, candidates)))

\* q is preferred to p: newer, or as new and earlier in the publish order.
Preferred(q, p) == Less(p, q) \/ (~Less(q, p) /\ Rank(q) < Rank(p))

Superseded(pkgs) == {p \in pkgs : \E q \in pkgs : SameName(p, q) /\ Preferred(q, p)}
Older(pkgs, p)   == {q \in pkgs : SameName(p, q) /\ Less(q, p)}

----------------------------------------------------------------------------
NoReport == [kept |-> {}, broken |-> {}]

Init == /\ catalog \in Catalogs
        /\ repo \in SUBSET catalog
        /\ opt \in [pruneOlder : BOOLEAN, breakDeps : BOOLEAN]
        /\ report = NoReport

\* The candidates are dropped, or those of them no dependent needs.
Prune(all, candidates) ==
  LET breakages == RemovalBreakages(all, candidates) IN
  /\ repo' = IF opt.breakDeps THEN all \ candidates ELSE Remaining(all, candidates)
  /\ report' = IF opt.breakDeps THEN [kept |-> {}, broken |-> breakages]
                                ELSE [kept |-> breakages, broken |-> {}]
  /\ UNCHANGED <<catalog, opt>>

PruneOlderVersions == Prune(repo, Superseded(repo))

\* AddRPM and AddDeb: p takes the place of its own version, and pruning counts
\* p as there.
With(p) == {q \in repo : ~(SameName(p, q) /\ Replaces(p, q))} \cup {p}

Candidates(p) == IF opt.pruneOlder THEN Older(With(p), p) ELSE {}

Add(p) == p \notin repo /\ Prune(With(p), Candidates(p))

\* Remove: the named packages go, whatever needs them.
Remove(p) == /\ repo' = {q \in repo : ~(SameName(p, q) /\ SameVersion(p, q))}
             /\ repo' # repo
             /\ report' = NoReport
             /\ UNCHANGED <<catalog, opt>>

Next == PruneOlderVersions \/ \E p \in catalog : Add(p) \/ Remove(p)

Spec == Init /\ [][Next]_vars

----------------------------------------------------------------------------
\* A package that was not up for removal keeps every requirement it had met.
StillMet(all, candidates) ==
  \A q \in all \ candidates :
    /\ q \in repo'
    /\ \A req \in Requirements(q) : Satisfied(all, q, req) => Satisfied(repo', q, req)

\* Pruning without --prune-break-deps never takes from a package that is not
\* itself superseded the last version that met one of its requirements
\* (depgraph.go:231-240, rebuild.go:27-33, repo.go:316-347).
SurvivorsMet ==
  [][~opt.breakDeps =>
       /\ PruneOlderVersions => StillMet(repo, Superseded(repo))
       /\ \A p \in catalog : Add(p) => StillMet(With(p), Candidates(p))]_vars

\* Each dependency that a prune with --prune-break-deps breaks is one it reports
\* (rebuild.go:66-71): CheckDependencies finds no other afterwards, save those
\* that are met for another architecture only, which RemovalBreakages, not told
\* of architectures, holds to be met.
BreaksReported ==
  [][PruneOlderVersions /\ opt.breakDeps =>
       \A d \in CheckDependencies(repo') \ CheckDependencies(repo) :
         \/ Satisfied(repo' \ Seen(repo', d.dependent), d.dependent, d.requires)
         \/ \E b \in report'.broken : b.dependent = d.dependent /\ b.requires = d.requires]_vars
=============================================================================
