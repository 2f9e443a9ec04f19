--------------------------- MODULE DepGraphProofs ---------------------------
(***************************************************************************)
(* What a prune leaves of the dependency graph, for every catalogue.       *)
(***************************************************************************)
EXTENDS DepGraph, TLAPS

\* The set RemovalBreakages computes, by its members.
LEMMA InBreakages ==
  ASSUME NEW all, NEW removing, NEW p \in removing, NEW q \in all \ removing,
         NEW req \in Requirements(q), Meets(p, q, req),
         ~Satisfied(all \ removing, q, req)
  PROVE  \E b \in RemovalBreakages(all, removing) :
           b.provider = p /\ b.dependent = q /\ b.requires = req
<1> DEFINE b == [provider |-> p, dependent |-> q, requires |-> req]
<1>1. req \in AllRequirements(all \ removing)
  BY DEF AllRequirements
<1>2. b \in RemovalBreakages(all, removing)
  BY <1>1 DEF RemovalBreakages
<1> QED
  BY <1>2

\* A package that stays keeps what it had met: what met it stays as well, or
\* something that meets it was never up for removal.
LEMMA RemainingMeets ==
  ASSUME NEW all, NEW candidates, NEW q \in all \ candidates,
         NEW req \in Requirements(q), Satisfied(all, q, req)
  PROVE  Satisfied(Remaining(all, candidates), q, req)
<1>1. PICK p \in all : Meets(p, q, req)
  BY DEF Satisfied
<1>2. CASE p \notin candidates
  BY <1>1, <1>2 DEF Satisfied, Remaining
<1>3. CASE p \in candidates /\ Satisfied(all \ candidates, q, req)
  BY <1>3 DEF Satisfied, Remaining
<1>4. CASE p \in candidates /\ ~Satisfied(all \ candidates, q, req)
  <2>1. p \in Providers(RemovalBreakages(all, candidates))
    BY <1>1, <1>4, InBreakages DEF Providers
  <2> QED
    BY <1>1, <2>1 DEF Satisfied, Remaining
<1> QED
  BY <1>2, <1>3, <1>4

LEMMA PruneStillMeets ==
  ASSUME NEW all, NEW candidates, Prune(all, candidates), ~opt.breakDeps
  PROVE  StillMet(all, candidates)
<1>1. repo' = Remaining(all, candidates)
  BY DEF Prune
<1> SUFFICES ASSUME NEW q \in all \ candidates
             PROVE  /\ q \in repo'
                    /\ \A req \in Requirements(q) : Satisfied(all, q, req) => Satisfied(repo', q, req)
  BY DEF StillMet
<1>2. q \in repo'
  BY <1>1 DEF Remaining
<1> QED
  BY <1>1, <1>2, RemainingMeets

\* No prune that spares needed versions takes from a package that is not itself
\* superseded the last version that met one of its requirements.
THEOREM PruneSparesSurvivors == Spec => SurvivorsMet
<1>1. ASSUME [Next]_vars
      PROVE  ~opt.breakDeps =>
               /\ PruneOlderVersions => StillMet(repo, Superseded(repo))
               /\ \A p \in catalog : Add(p) => StillMet(With(p), Candidates(p))
  BY PruneStillMeets DEF PruneOlderVersions, Add
<1> QED
  BY <1>1, PTL DEF Spec, SurvivorsMet

\* Whatever a prune with --prune-break-deps breaks is in its report, unless what
\* meets it is there for another architecture.
THEOREM PruneReportsBreaks == Spec => BreaksReported
<1>1. ASSUME PruneOlderVersions, opt.breakDeps,
             NEW d \in CheckDependencies(repo') \ CheckDependencies(repo),
             ~Satisfied(repo' \ Seen(repo', d.dependent), d.dependent, d.requires)
      PROVE  \E b \in report'.broken : b.dependent = d.dependent /\ b.requires = d.requires
  <2> DEFINE gone == Superseded(repo)
             q    == d.dependent
             req  == d.requires
  <2>1. repo' = repo \ gone /\ report'.broken = RemovalBreakages(repo, gone)
    BY <1>1 DEF PruneOlderVersions, Prune
  <2>2. /\ q \in repo \ gone
        /\ req \in Requirements(q)
        /\ ~Satisfied(Seen(repo \ gone, q), q, req)
        /\ Known(Seen(repo, q), q, req)
    BY <2>1 DEF CheckDependencies, Known, Seen
  <2>3. ~Satisfied(repo \ gone, q, req)
    BY <1>1, <2>1, <2>2 DEF Satisfied, Seen
  <2>4. Satisfied(Seen(repo, q), q, req)
    <3>1. SUFFICES ASSUME ~Satisfied(Seen(repo, q), q, req)
                   PROVE  d \in CheckDependencies(repo)
      OBVIOUS
    <3>2. req \in AllRequirements(repo)
      BY <2>2 DEF AllRequirements
    <3>3. d = [dependent |-> q, requires |-> req]
      BY DEF CheckDependencies
    <3> QED
      BY <2>2, <3>1, <3>2, <3>3 DEF CheckDependencies
  <2>5. PICK p \in repo : Meets(p, q, req)
    BY <2>4 DEF Satisfied, Seen
  <2>6. p \in gone
    BY <2>3, <2>5, <2>2 DEF Satisfied
  <2> QED
    BY <2>1, <2>2, <2>3, <2>5, <2>6, InBreakages
<1>2. ASSUME [Next]_vars
      PROVE  PruneOlderVersions /\ opt.breakDeps =>
               \A d \in CheckDependencies(repo') \ CheckDependencies(repo) :
                 \/ Satisfied(repo' \ Seen(repo', d.dependent), d.dependent, d.requires)
                 \/ \E b \in report'.broken : b.dependent = d.dependent /\ b.requires = d.requires
  BY <1>1
<1> QED
  BY <1>2, PTL DEF Spec, BreaksReported
=============================================================================
