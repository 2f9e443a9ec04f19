---------------------------- MODULE RpmRepoProofs ----------------------------
(***************************************************************************)
(* For every set of packages, every repository found and every session:    *)
(* what Commit hands to Execute is sound unless it is doubtful, what a     *)
(* takeover or a relocation breaks its report had foreseen, and what a     *)
(* copy leaves is what its source has.                                     *)
(***************************************************************************)
EXTENDS Takeover, RpmCopy, ExecuteProofs

\* The files of Execute are those of a repository.
RpmFiles == IndexPaths = {Repomd, RepomdAsc} /\ \A c : Needs(c) = RpmNeeds(c)

----------------------------------------------------------------------------
(* Paths, contents and indexes.                                            *)

LEMMA PathKinds ==
  /\ Repomd # RepomdAsc
  /\ \A p \in {Repomd, RepomdAsc} : ~IsRpm(p) /\ ~IsDoc(p)
  /\ \A l \in Locations : IsRpm(l) /\ ~IsDoc(l)
  /\ \A d \in Document : IsDoc(d) /\ ~IsRpm(d)
<1>1. Repomd # RepomdAsc
  BY DEF Repomd, RepomdAsc
<1>2. \A p \in {Repomd, RepomdAsc} : ~IsRpm(p) /\ ~IsDoc(p)
  BY DEF Repomd, RepomdAsc, IsRpm, IsDoc
<1>3. \A l \in Locations : IsRpm(l) /\ ~IsDoc(l)
  BY DEF Locations, Location, IsRpm, IsDoc
<1>4. \A d \in Document : IsDoc(d) /\ ~IsRpm(d)
  BY DEF Document, IsRpm, IsDoc
<1> QED BY <1>1, <1>2, <1>3, <1>4

LEMMA PlacementDef ==
  \A f : f \in Placement <=> DOMAIN f \subseteq Locations /\ f \in [DOMAIN f -> Rpms]
<1> TAKE f
<1>1. ASSUME f \in Placement PROVE DOMAIN f \subseteq Locations /\ f \in [DOMAIN f -> Rpms]
  <2>1. PICK L \in SUBSET Locations : f \in [L -> Rpms]
    BY <1>1 DEF Placement
  <2> QED BY <2>1
<1>2. ASSUME DOMAIN f \subseteq Locations, f \in [DOMAIN f -> Rpms] PROVE f \in Placement
  BY <1>2 DEF Placement
<1> QED BY <1>1, <1>2

\* An index: where each of its packages is.
Indexes == UNION {[S -> Locations] : S \in SUBSET Rpms}

LEMMA IndexesDef ==
  \A f : f \in Indexes <=> DOMAIN f \subseteq Rpms /\ f \in [DOMAIN f -> Locations]
<1> TAKE f
<1>1. ASSUME f \in Indexes PROVE DOMAIN f \subseteq Rpms /\ f \in [DOMAIN f -> Locations]
  <2>1. PICK S \in SUBSET Rpms : f \in [S -> Locations]
    BY <1>1 DEF Indexes
  <2> QED BY <2>1
<1>2. ASSUME DOMAIN f \subseteq Rpms, f \in [DOMAIN f -> Locations] PROVE f \in Indexes
  BY <1>2 DEF Indexes
<1> QED BY <1>1, <1>2

LEMMA NoneYet == <<>> \in Indexes /\ <<>> \in Placement /\ DOMAIN <<>> = {}
<1>1. DOMAIN <<>> = {} /\ \A S : <<>> \in [{} -> S]
  OBVIOUS
<1> QED BY <1>1, IndexesDef, PlacementDef

LEMMA AntiFunctionFacts ==
  ASSUME NEW f
  PROVE  /\ DOMAIN AntiFunction(f) = Range(f)
         /\ \A y \in Range(f) : AntiFunction(f)[y] \in DOMAIN f /\ f[AntiFunction(f)[y]] = y
         /\ AntiFunction(f) = [y \in Range(f) |-> AntiFunction(f)[y]]
<1>1. AntiFunction(f) = [y \in Range(f) |-> CHOOSE x \in DOMAIN f : y \in Range(f) => f[x] = y]
  BY DEF AntiFunction, Inverse
<1>2. \A y \in Range(f) : \E x \in DOMAIN f : f[x] = y
  BY DEF Range
<1> QED BY <1>1, <1>2

LEMMA IndexByLocation ==
  ASSUME NEW ix \in Indexes
  PROVE  /\ ByLocation(ix) \in Placement
         /\ DOMAIN ByLocation(ix) = Range(ix)
         /\ \A l \in Range(ix) : ByLocation(ix)[l] \in DOMAIN ix /\ ix[ByLocation(ix)[l]] = l
<1> DEFINE at == AntiFunction(ix)
<1>1. DOMAIN ix \subseteq Rpms /\ ix \in [DOMAIN ix -> Locations]
  BY IndexesDef
<1>2. /\ DOMAIN at = Range(ix)
      /\ \A y \in Range(ix) : at[y] \in DOMAIN ix /\ ix[at[y]] = y
      /\ at = [y \in Range(ix) |-> at[y]]
  BY AntiFunctionFacts
<1> HIDE DEF at
<1>3. Range(ix) \subseteq Locations
  BY <1>1 DEF Range
<1>4. at \in [Range(ix) -> Rpms]
  BY <1>1, <1>2
<1>5. at \in Placement
  BY <1>2, <1>3, <1>4, PlacementDef
<1> QED BY <1>2, <1>5 DEF at, ByLocation

LEMMA PlacementInverted ==
  ASSUME NEW f \in Placement
  PROVE  AntiFunction(f) \in Indexes
<1> DEFINE ix == AntiFunction(f)
<1>1. DOMAIN f \subseteq Locations /\ f \in [DOMAIN f -> Rpms]
  BY PlacementDef
<1>2. /\ DOMAIN ix = Range(f)
      /\ \A y \in Range(f) : ix[y] \in DOMAIN f
      /\ ix = [y \in Range(f) |-> ix[y]]
  BY AntiFunctionFacts
<1> HIDE DEF ix
<1>3. Range(f) \subseteq Rpms
  BY <1>1 DEF Range
<1>4. ix \in [Range(f) -> Locations]
  BY <1>1, <1>2
<1>5. ix \in Indexes
  BY <1>2, <1>3, <1>4, IndexesDef
<1> QED BY <1>5 DEF ix

LEMMA RootFields ==
  ASSUME NEW c \in Root
  PROVE  /\ c.rev \in Nat /\ c.docs \subseteq Document /\ c.at \in Placement
         /\ c # NoIndex /\ IsRoot(c)
BY PackageAssumption DEF Root, IsRoot

LEMMA NeedsOfRoot ==
  ASSUME RpmFiles, NEW c \in Root
  PROVE  /\ DOMAIN Needs(c) = c.docs \cup DOMAIN c.at
         /\ \A p \in c.docs : Needs(c)[p] = p
         /\ \A p \in DOMAIN c.at : p \notin c.docs /\ Needs(c)[p] = c.at[p]
         /\ DOMAIN Needs(c) \cap IndexPaths = {}
<1>1. c.docs \subseteq Document /\ DOMAIN c.at \subseteq Locations /\ IsRoot(c)
  BY RootFields, PlacementDef
<1>2. Needs(c) = NamedBy(c)
  BY <1>1 DEF RpmFiles, RpmNeeds
<1> QED BY <1>1, <1>2, PathKinds DEF NamedBy, RpmFiles

\* Not every record with a signature is told from a root by what it signs.
IsSignature(c) == c = Signature(c.by, c.signs)

LEMMA NeedsOfSignature ==
  ASSUME RpmFiles, NEW c, IsSignature(c)
  PROVE  DOMAIN Needs(c) = {}
<1>1. "rev" \notin DOMAIN c
  BY DEF IsSignature, Signature
<1> QED BY <1>1 DEF RpmFiles, RpmNeeds, IsRoot

----------------------------------------------------------------------------
(* The inductive invariant.                                                *)

\* Where clients read there are indexes and signatures, never one alone, and
\* where packages may be there are packages, whole or not.
StoreInv ==
  /\ Repomd \in DOMAIN store => store[Repomd] \in Root
  /\ RepomdAsc \in DOMAIN store => Repomd \in DOMAIN store /\ IsSignature(store[RepomdAsc])
  /\ \A l \in Locations \cap DOMAIN store : store[l] \in Rpms \cup {Partial}

\* What one process has in memory.
SessionTyped ==
  /\ mode \in {"closed", "open", "publishing"}
  /\ use \in Uses
  /\ clock \in Nat /\ calls \in Nat
  /\ idx \in Indexes
  /\ original \in Placement /\ pending \in Placement
  /\ copied \subseteq Locations /\ replaced \in BOOLEAN

\* While an index is loaded nothing else is: it is the one clients read, and a
\* staged file is the package its location is in the index for.
SessionInv ==
  mode = "open" =>
    /\ old = Current /\ original = old.at
    /\ opt \in Options
    /\ calls = 0 => pending = <<>>
    /\ "add" \in use.calls \/ opt.force \/ pending = <<>>
    /\ opt.force \/ \A r \in DOMAIN idx : idx[r] \in DOMAIN pending => pending[idx[r]] = r

Movable     == [from : Locations, to : Locations]
Uploadable  == [to : Locations, data : Rpms]
Describable == {d \in [to : Document, data : Document] : d.to = d.data}

IndexFile(root)     == [to |-> Repomd, data |-> root]
SignatureFile(root) == [to |-> RepomdAsc, data |-> Signature(Signer, root)]
Swappable == {IndexFile(root) : root \in Root} \cup {SignatureFile(root) : root \in Root}

\* What is left of a publish, G being what it may collect.
RpmShape(G) == Shape(Movable, Uploadable, Describable, Swappable, {RepomdAsc}, G)

WorkInv ==
  /\ work \in RpmShape(Doomed)
  /\ Doomed \cap {Repomd, RepomdAsc} = {}
  /\ mode # "publishing" => work = NoSteps

\* repomd.xml is written before its signature, and an unsigned one first takes
\* the signature of the old one away: what is left to do says how far it is.
SignatureInv ==
  mode = "publishing" =>
    IF opt.signed
    THEN /\ work.retract = <<>>
         /\ \/ \E root \in Root : work.swap = <<IndexFile(root), SignatureFile(root)>>
            \/ /\ Repomd \in DOMAIN store
               /\ work.swap = <<SignatureFile(store[Repomd])>>
            \/ /\ work.swap = <<>>
               /\ RepomdAsc \in DOMAIN store
               /\ store[RepomdAsc].signs = store[Repomd]
    ELSE /\ work.swap = <<>> \/ \E root \in Root : work.swap = <<IndexFile(root)>>
         /\ work.retract = <<RepomdAsc>> \/ (work.retract = <<>> /\ RepomdAsc \notin DOMAIN store)

RepoInv == StoreInv /\ SessionTyped /\ SessionInv /\ WorkInv /\ SignatureInv

\* Only a copy writes packages before it publishes, or replaces all there is.
NoCopy == copied = {} /\ replaced = FALSE

----------------------------------------------------------------------------
(* The calls of a session keep it: index by index.                         *)

LEMMA WithoutFacts ==
  ASSUME NEW ix \in Indexes, NEW R
  PROVE  /\ Without(ix, R) \in Indexes
         /\ DOMAIN Without(ix, R) = DOMAIN ix \ R
         /\ \A r \in DOMAIN ix \ R : Without(ix, R)[r] = ix[r]
<1>1. DOMAIN ix \subseteq Rpms /\ ix \in [DOMAIN ix -> Locations]
  BY IndexesDef
<1>2. Without(ix, R) \in [DOMAIN ix \ R -> Locations]
  BY <1>1 DEF Without
<1> QED BY <1>1, <1>2, IndexesDef DEF Without

\* An index or a placement with one more entry, or another in place of one.
LEMMA EntrySet ==
  ASSUME NEW f, NEW k, NEW v
  PROVE  LET g == [x \in DOMAIN f \cup {k} |-> IF x = k THEN v ELSE f[x]] IN
         /\ f \in Indexes /\ k \in Rpms /\ v \in Locations => g \in Indexes
         /\ f \in Placement /\ k \in Locations /\ v \in Rpms => g \in Placement
<1> DEFINE g == [x \in DOMAIN f \cup {k} |-> IF x = k THEN v ELSE f[x]]
<1>1. ASSUME f \in Indexes, k \in Rpms, v \in Locations PROVE g \in Indexes
  <2>1. DOMAIN f \subseteq Rpms /\ f \in [DOMAIN f -> Locations]
    BY <1>1, IndexesDef
  <2>2. g \in [DOMAIN f \cup {k} -> Locations] /\ DOMAIN g = DOMAIN f \cup {k}
    BY <1>1, <2>1
  <2> HIDE DEF g
  <2> QED BY <1>1, <2>1, <2>2, IndexesDef
<1>2. ASSUME f \in Placement, k \in Locations, v \in Rpms PROVE g \in Placement
  <2>1. DOMAIN f \subseteq Locations /\ f \in [DOMAIN f -> Rpms]
    BY <1>2, PlacementDef
  <2>2. g \in [DOMAIN f \cup {k} -> Rpms] /\ DOMAIN g = DOMAIN f \cup {k}
    BY <1>2, <2>1
  <2> HIDE DEF g
  <2> QED BY <1>2, <2>1, <2>2, PlacementDef
<1> QED BY <1>1, <1>2

LEMMA RelocatedFacts ==
  ASSUME NEW ix \in Indexes, NEW dir \in Dirs
  PROVE  Relocated(ix, dir) \in Indexes
<1>1. DOMAIN ix \subseteq Rpms /\ ix \in [DOMAIN ix -> Locations]
  BY IndexesDef
<1>2. \A l \in Locations : [l EXCEPT !.dir = dir] \in Locations
  BY DEF Locations, Location
<1>3. Relocated(ix, dir) \in [DOMAIN ix -> Locations] /\ DOMAIN Relocated(ix, dir) = DOMAIN ix
  BY <1>1, <1>2 DEF Relocated
<1> QED BY <1>1, <1>3, IndexesDef

\* What RepoInv says while an index is loaded, for the index and the staging
\* that a call leaves.
Loaded(ix, st, o) ==
  /\ ix \in Indexes /\ st \in Placement /\ o \in Options
  /\ "add" \in use.calls \/ o.force \/ st = <<>>
  /\ o.force \/ \A r \in DOMAIN ix : ix[r] \in DOMAIN st => st[ix[r]] = r

LEMMA LoadedFacts == RepoInv /\ mode = "open" => Loaded(idx, pending, opt)
BY DEF RepoInv, SessionTyped, SessionInv, Loaded

\* A call needs only this: one has been made, so what was staged may stay.
LEMMA CallInv ==
  ASSUME RepoInv, NEW name, Call(name), Loaded(idx', pending', opt')
  PROVE  RepoInv'
<1>1. StoreInv' /\ WorkInv' /\ SignatureInv'
  BY DEF Call, RepoInv, StoreInv, WorkInv, Doomed, SignatureInv, SessionTyped
<1>2. SessionTyped'
  BY DEF Call, RepoInv, SessionTyped, Loaded
<1>3. SessionInv'
  BY DEF Call, RepoInv, SessionInv, SessionTyped, Loaded, Current
<1> QED BY <1>1, <1>2, <1>3 DEF RepoInv

LEMMA AddInv ==
  ASSUME RepoInv, NEW r \in Rpms, AddRPM(r)
  PROVE  RepoInv'
<1>1. mode = "open" /\ Call("add") /\ opt' = opt /\ use' = use /\ "add" \in use.calls
  BY DEF AddRPM, Call
<1>2. Loaded(idx, pending, opt)
  BY <1>1, LoadedFacts
<1> DEFINE loc == Location(opt.prefix, r)
<1>3. loc \in Locations
  BY <1>2 DEF Loaded, Options, Locations
<1>4. PICK gone :
        LET left  == Without(idx, SameNEVRA(r) \cup gone)
            taken == \E x \in DOMAIN left : left[x] = loc
        IN  /\ idx' = IF taken THEN left
                      ELSE [x \in DOMAIN left \cup {r} |-> IF x = r THEN loc ELSE left[x]]
            /\ pending' = IF taken THEN pending
                          ELSE [l \in DOMAIN pending \cup {loc} |->
                                  IF l = loc THEN r ELSE pending[l]]
  BY DEF AddRPM
<1> DEFINE left  == Without(idx, SameNEVRA(r) \cup gone)
           taken == \E x \in DOMAIN left : left[x] = loc
<1>5. /\ left \in Indexes
      /\ opt.force \/ \A x \in DOMAIN left : left[x] \in DOMAIN pending => pending[left[x]] = x
  <2>1. idx \in Indexes
    BY <1>2 DEF Loaded
  <2>2. /\ left \in Indexes /\ DOMAIN left \subseteq DOMAIN idx
        /\ \A x \in DOMAIN left : left[x] = idx[x]
    BY <2>1, WithoutFacts
  <2> HIDE DEF left
  <2> QED BY <1>2, <2>2 DEF Loaded
<1> HIDE DEF left, loc
<1>6. CASE taken
  <2>1. idx' = left /\ pending' = pending
    BY <1>4, <1>6 DEF left, loc
  <2> QED BY <1>1, <1>2, <1>5, <2>1, CallInv DEF Loaded
<1>7. CASE ~taken
  <2>1. /\ idx' = [x \in DOMAIN left \cup {r} |-> IF x = r THEN loc ELSE left[x]]
        /\ pending' = [l \in DOMAIN pending \cup {loc} |-> IF l = loc THEN r ELSE pending[l]]
    BY <1>4, <1>7 DEF left, loc
  <2>2. idx' \in Indexes
    BY <1>3, <1>5, <2>1, EntrySet
  <2>3. pending' \in Placement
    <3>1. pending \in Placement
      BY <1>2 DEF Loaded
    <3> QED BY <1>3, <2>1, <3>1, EntrySet
  <2>4. opt.force \/ \A x \in DOMAIN idx' : idx'[x] \in DOMAIN pending' => pending'[idx'[x]] = x
    BY <1>5, <1>7, <2>1
  <2> QED BY <1>1, <1>2, <2>2, <2>3, <2>4, CallInv DEF Loaded
<1> QED BY <1>6, <1>7

\* What only takes packages out of the index, or moves those nothing is staged
\* for.
LEMMA RemovalInv ==
  ASSUME RepoInv,
         \/ \E r \in Rpms : RemoveNEVRA(r)
         \/ PruneOlderVersions
  PROVE  RepoInv'
<1>1. PICK name, R : Call(name) /\ mode = "open" /\ idx' = Without(idx, R) /\ UNCHANGED <<pending, opt>>
  BY DEF RemoveNEVRA, PruneOlderVersions, Call
<1>2. use' = use
  BY <1>1 DEF Call
<1>3. Loaded(idx, pending, opt)
  BY <1>1, LoadedFacts
<1>4. /\ idx' \in Indexes /\ DOMAIN idx' \subseteq DOMAIN idx
      /\ \A r \in DOMAIN idx' : idx'[r] = idx[r]
  <2>1. idx \in Indexes
    BY <1>3 DEF Loaded
  <2>2. /\ Without(idx, R) \in Indexes /\ DOMAIN Without(idx, R) = DOMAIN idx \ R
        /\ \A r \in DOMAIN idx \ R : Without(idx, R)[r] = idx[r]
    BY <2>1, WithoutFacts
  <2> QED BY <1>1, <2>2
<1>5. Loaded(idx', pending', opt')
  BY <1>1, <1>2, <1>3, <1>4 DEF Loaded
<1> QED BY <1>1, <1>5, CallInv

LEMMA RelocateInv ==
  ASSUME RepoInv, NEW dir \in Dirs, RelocateAll(dir)
  PROVE  RepoInv'
<1>1. /\ Call("relocate") /\ mode = "open" /\ use' = use
      /\ ~opt.force /\ "relocate" \in use.calls
      /\ idx' = Relocated(idx, dir) /\ pending' = pending /\ opt' = opt
  BY DEF RelocateAll, Call
<1>2. Loaded(idx, pending, opt)
  BY <1>1, LoadedFacts
<1>3. use \in Uses
  BY DEF RepoInv, SessionTyped
<1>4. "add" \notin use.calls
  BY <1>1, <1>3, UseAssumption
<1>5. pending = <<>>
  BY <1>1, <1>2, <1>4 DEF Loaded
<1>6. Loaded(idx', pending', opt')
  BY <1>1, <1>2, <1>5, RelocatedFacts, NoneYet DEF Loaded
<1> QED BY <1>1, <1>6, CallInv

LEMMA ResignInv ==
  ASSUME RepoInv, ResignAll
  PROVE  RepoInv'
<1> DEFINE fresh(l) == Signed(store[l])
<1>1. /\ Call("resign") /\ mode = "open" /\ use' = use
      /\ \A l \in Range(idx) : store[l] \in Rpms
      /\ opt' = [opt EXCEPT !.force = TRUE]
      /\ pending' = [l \in DOMAIN pending \cup Range(idx) |->
                       IF l \in Range(idx) THEN fresh(l) ELSE pending[l]]
  BY DEF ResignAll, Call
<1> DEFINE missed == {r \in DOMAIN idx : \A l \in Range(idx) : store[l] \notin Builds(r)}
<1>2. PICK last \in SUBSET Range(idx) :
        LET put == AntiFunction([l \in last |-> fresh(l)]) IN
        idx' = [r \in missed \cup DOMAIN put |-> IF r \in missed THEN idx[r] ELSE put[r]]
  BY DEF ResignAll
<1>3. Loaded(idx, pending, opt)
  BY <1>1, LoadedFacts
<1>4. Range(idx) \subseteq Locations
  BY <1>3, IndexesDef DEF Loaded, Range
<1>5. \A l \in Range(idx) : fresh(l) \in Rpms
  BY <1>1, PackageAssumption DEF Builds
<1>5a. missed \subseteq DOMAIN idx
  OBVIOUS
<1> HIDE DEF fresh, missed
<1>6. idx' \in Indexes
  <2> DEFINE f   == [l \in last |-> fresh(l)]
             put == AntiFunction(f)
  <2>1. f \in [last -> Rpms] /\ DOMAIN f = last
    BY <1>5
  <2> HIDE DEF f
  <2>2. f \in Placement
    BY <1>4, <2>1, PlacementDef
  <2>3. put \in Indexes
    BY <2>2, PlacementInverted
  <2>4. idx' = [r \in missed \cup DOMAIN put |-> IF r \in missed THEN idx[r] ELSE put[r]]
    BY <1>2 DEF f
  <2> HIDE DEF put
  <2> QED BY <1>3, <1>5a, <2>3, <2>4, IndexesDef DEF Loaded
<1>7. pending' \in Placement
  <2>1. DOMAIN pending \subseteq Locations /\ pending \in [DOMAIN pending -> Rpms]
    BY <1>3, PlacementDef DEF Loaded
  <2>2. pending' \in [DOMAIN pending \cup Range(idx) -> Rpms]
    BY <1>1, <1>5, <2>1
  <2> QED BY <1>4, <2>1, <2>2, PlacementDef
<1>8. opt' \in Options /\ opt'.force
  BY <1>1, <1>3 DEF Loaded, Options
<1> QED BY <1>1, <1>6, <1>7, <1>8, CallInv DEF Loaded

----------------------------------------------------------------------------
(* A refresh goes through the entries there were, one after another: what  *)
(* each step leaves is followed to the end of Order by the least step that *)
(* would leave something else.                                             *)

\* The indexes that the first k entries of Order leave, from ix on.
Rereads(ix, k, g) ==
  g = [n \in 0 .. k |-> IF n = 0 THEN ix
                        ELSE IF Order[n] \in DOMAIN ix THEN Reread(g[n - 1], Order[n])
                        ELSE g[n - 1]]

LEMMA RereadsExist == \A ix : \A k \in Nat : \E g : Rereads(ix, k, g)
<1> SUFFICES ASSUME NEW ix, NEW bad \in Nat, ~ \E g : Rereads(ix, bad, g)
             PROVE  FALSE
  OBVIOUS
<1>1. PICK k \in Nat : /\ ~ \E g : Rereads(ix, k, g)
                       /\ \A m \in Nat : m < k => \E g : Rereads(ix, m, g)
  <2> DEFINE T == {m \in Nat : ~ \E g : Rereads(ix, m, g)}
  <2>1. PICK k \in T : \A m \in T : k <= m
    BY LeastNat
  <2> QED BY <2>1
<1>2. CASE k = 0
  <2> DEFINE g == [n \in 0 .. 0 |-> ix]
  <2>1. Rereads(ix, 0, g)
    BY DEF Rereads
  <2> QED BY <1>1, <1>2, <2>1
<1>3. CASE k # 0
  <2>1. PICK g : Rereads(ix, k - 1, g)
    BY <1>1, <1>3
  <2> DEFINE last == IF Order[k] \in DOMAIN ix THEN Reread(g[k - 1], Order[k]) ELSE g[k - 1]
             h    == [n \in 0 .. k |-> IF n = k THEN last ELSE g[n]]
  <2>2. \A n \in 0 .. k - 1 :
          g[n] = IF n = 0 THEN ix
                 ELSE IF Order[n] \in DOMAIN ix THEN Reread(g[n - 1], Order[n]) ELSE g[n - 1]
    BY <2>1 DEF Rereads
  <2> HIDE DEF last
  <2>3. \A n \in 0 .. k - 1 : h[n] = g[n]
    BY <1>3
  <2>4. h[k] = last
    OBVIOUS
  <2> HIDE DEF h
  <2>5. ASSUME NEW n \in 0 .. k
        PROVE  h[n] = IF n = 0 THEN ix
                      ELSE IF Order[n] \in DOMAIN ix THEN Reread(h[n - 1], Order[n]) ELSE h[n - 1]
    <3>1. CASE n = 0
      BY <1>3, <2>2, <2>3, <3>1
    <3>2. CASE n = k
      BY <1>3, <2>3, <2>4, <3>2 DEF last
    <3>3. CASE n \in 1 .. k - 1
      BY <2>2, <2>3, <3>3
    <3> QED BY <3>1, <3>2, <3>3
  <2>6. Rereads(ix, k, h)
    BY <2>5 DEF Rereads, h
  <2> QED BY <1>1, <2>6
<1> QED BY <1>2, <1>3

LEMMA RefreshedLast ==
  ASSUME NEW ix
  PROVE  \E g : Rereads(ix, Len(Order), g) /\ Refreshed(ix) = g[Len(Order)]
<1> DEFINE f == CHOOSE g : Rereads(ix, Len(Order), g)
<1>1. Len(Order) \in Nat
  BY PackageAssumption
<1>2. Rereads(ix, Len(Order), f)
  BY <1>1, RereadsExist
<1>3. Refreshed(ix) = f[Len(Order)]
  BY DEF Rereads, Refreshed
<1> QED BY <1>2, <1>3

\* One entry re-read: the cases of Reread.
LEMMA RereadFacts ==
  ASSUME RepoInv, NEW ix \in Indexes, NEW r \in DOMAIN ix
  PROVE  LET after == Reread(ix, r)
             p     == ix[r]
         IN \/ /\ after = ix
               /\ p \notin DOMAIN store \/ store[p] = Partial
                   \/ (store[p] \in DOMAIN ix /\ store[p] # r)
            \/ /\ p \in DOMAIN store /\ store[p] \in DOMAIN ix \ {r} /\ ix[store[p]] = p
               /\ after = Without(ix, {r})
            \/ /\ p \in DOMAIN store /\ store[p] \in Rpms /\ store[p] \notin DOMAIN ix \ {r}
               /\ after = [x \in (DOMAIN ix \ {r}) \cup {store[p]} |-> IF x = store[p] THEN p ELSE ix[x]]
<1>1. ix[r] \in Locations
  BY IndexesDef
<1>2. ix[r] \in DOMAIN store => store[ix[r]] \in Rpms \cup {Partial}
  BY <1>1 DEF RepoInv, StoreInv
<1> QED BY <1>1, <1>2 DEF Reread

LEMMA RereadIndexes ==
  ASSUME RepoInv, NEW ix \in Indexes, NEW r \in DOMAIN ix
  PROVE  LET after == Reread(ix, r) IN
         /\ after \in Indexes
         /\ Range(after) = Range(ix)
         /\ \A x \in DOMAIN ix \ {r} : x \in DOMAIN after /\ after[x] = ix[x]
         /\ \A x \in DOMAIN after : (x \in DOMAIN ix /\ after[x] = ix[x]) \/ TrueOf(after, x)
<1> DEFINE after == Reread(ix, r)
           p     == ix[r]
<1>1. DOMAIN ix \subseteq Rpms /\ ix \in [DOMAIN ix -> Locations] /\ p \in Locations
  BY IndexesDef
<1>2. CASE after = ix
  BY <1>2
<1>3. CASE /\ store[p] \in DOMAIN ix \ {r} /\ ix[store[p]] = p
           /\ after = Without(ix, {r})
  <2> HIDE DEF after
  <2>1. /\ after \in Indexes /\ DOMAIN after = DOMAIN ix \ {r}
        /\ \A x \in DOMAIN ix \ {r} : after[x] = ix[x]
    <3>1. /\ Without(ix, {r}) \in Indexes /\ DOMAIN Without(ix, {r}) = DOMAIN ix \ {r}
          /\ \A x \in DOMAIN ix \ {r} : Without(ix, {r})[x] = ix[x]
      BY WithoutFacts
    <3> QED BY <1>3, <3>1
  <2>2. Range(after) = Range(ix)
    BY <1>3, <2>1 DEF Range
  <2> QED BY <2>1, <2>2 DEF after
<1>4. CASE /\ p \in DOMAIN store /\ store[p] \in Rpms /\ store[p] \notin DOMAIN ix \ {r}
           /\ after = [x \in (DOMAIN ix \ {r}) \cup {store[p]} |-> IF x = store[p] THEN p ELSE ix[x]]
  <2> HIDE DEF after
  <2>1. /\ DOMAIN after = (DOMAIN ix \ {r}) \cup {store[p]}
        /\ after[store[p]] = p
        /\ \A x \in DOMAIN ix \ {r} : after[x] = ix[x]
    BY <1>4
  <2>2. after \in [DOMAIN after -> Locations] /\ DOMAIN after \subseteq Rpms
    BY <1>1, <1>4
  <2>3. after \in Indexes
    BY <2>2, IndexesDef
  <2>4. Range(after) = Range(ix)
    BY <2>1 DEF Range
  <2>5. TrueOf(after, store[p])
    BY <1>4, <2>1 DEF TrueOf
  <2> QED BY <2>1, <2>3, <2>4, <2>5 DEF after
<1> QED BY <1>2, <1>3, <1>4, RereadFacts

\* An entry left as it was, for one of the reasons RefreshTrue gives.
LeftAlone(ix, h, r) ==
  \/ ix[r] \notin DOMAIN store
  \/ store[ix[r]] \in DOMAIN ix \cup DOMAIN h \cup {Partial}

\* What h, made of ix by the first n entries of Order, is.
Followed(ix, n, h) ==
  /\ h \in Indexes /\ Range(h) = Range(ix)
  /\ \A m \in n + 1 .. Len(Order) :
       Order[m] \in DOMAIN ix => Order[m] \in DOMAIN h /\ h[Order[m]] = ix[Order[m]]
  /\ \A r \in DOMAIN h :
       \/ TrueOf(h, r)
       \/ /\ r \in DOMAIN ix /\ h[r] = ix[r]
          /\ (\E m \in n + 1 .. Len(Order) : Order[m] = r) \/ LeftAlone(ix, h, r)

LEMMA FollowedFirst ==
  ASSUME NEW ix \in Indexes
  PROVE  Followed(ix, 0, ix)
<1>1. DOMAIN ix \subseteq Rpms
  BY IndexesDef
<1>2. Len(Order) \in Nat /\ DOMAIN Order = 1 .. Len(Order)
  BY PackageAssumption
<1>3. ASSUME NEW r \in DOMAIN ix PROVE \E m \in 1 .. Len(Order) : Order[m] = r
  BY <1>1, <1>2, PackageAssumption DEF Range
<1> QED BY <1>3 DEF Followed

LEMMA FollowedNext ==
  ASSUME RepoInv, NEW ix \in Indexes, NEW n \in 1 .. Len(Order), NEW h, Followed(ix, n - 1, h)
  PROVE  Followed(ix, n, IF Order[n] \in DOMAIN ix THEN Reread(h, Order[n]) ELSE h)
<1> DEFINE r0 == Order[n]
<1>1. Len(Order) \in Nat /\ DOMAIN Order = 1 .. Len(Order)
  BY PackageAssumption
<1>2. \A m \in n + 1 .. Len(Order) : Order[m] # r0 /\ m \in n .. Len(Order)
  <2> TAKE m \in n + 1 .. Len(Order)
  <2>1. m \in DOMAIN Order /\ n \in DOMAIN Order /\ m # n
    BY <1>1
  <2> QED BY <1>1, <2>1, PackageAssumption
<1>3. /\ h \in Indexes /\ Range(h) = Range(ix)
      /\ \A m \in n .. Len(Order) :
           Order[m] \in DOMAIN ix => Order[m] \in DOMAIN h /\ h[Order[m]] = ix[Order[m]]
      /\ \A r \in DOMAIN h :
           \/ TrueOf(h, r)
           \/ /\ r \in DOMAIN ix /\ h[r] = ix[r]
              /\ (\E m \in n .. Len(Order) : Order[m] = r) \/ LeftAlone(ix, h, r)
  <2>1. n - 1 + 1 = n
    OBVIOUS
  <2> QED BY <2>1 DEF Followed
<1>4. \A m \in n .. Len(Order) : m = n \/ m \in n + 1 .. Len(Order)
  BY <1>1
<1>5. CASE r0 \notin DOMAIN ix
  <2>1. ASSUME NEW r \in DOMAIN ix, NEW m \in n .. Len(Order), Order[m] = r
        PROVE  m \in n + 1 .. Len(Order)
    BY <1>4, <1>5, <2>1
  <2> QED BY <1>2, <1>3, <1>5, <2>1 DEF Followed
<1>6. CASE r0 \in DOMAIN ix
  <2> DEFINE after == Reread(h, r0)
  <2>1. n \in n .. Len(Order)
    BY <1>1
  <2>2. r0 \in DOMAIN h /\ h[r0] = ix[r0]
    BY <1>3, <1>6, <2>1
  <2>3. /\ after \in Indexes /\ Range(after) = Range(h)
        /\ \A x \in DOMAIN h \ {r0} : x \in DOMAIN after /\ after[x] = h[x]
        /\ \A x \in DOMAIN after : (x \in DOMAIN h /\ after[x] = h[x]) \/ TrueOf(after, x)
    BY <1>3, <2>2, RereadIndexes
  <2>4. \/ /\ after = h
           /\ LeftAlone(ix, h, r0)
        \/ r0 \notin DOMAIN after
        \/ TrueOf(after, r0)
    <3>1. CASE after = h /\ LeftAlone(ix, h, r0)
      BY <3>1
    <3>2. CASE after = Without(h, {r0})
      <4>1. DOMAIN Without(h, {r0}) = DOMAIN h \ {r0}
        BY <1>3, WithoutFacts
      <4> QED BY <3>2, <4>1
    <3>3. CASE /\ h[r0] \in DOMAIN store
               /\ after = [x \in (DOMAIN h \ {r0}) \cup {store[h[r0]]} |->
                             IF x = store[h[r0]] THEN h[r0] ELSE h[x]]
      <4> HIDE DEF after
      <4>1. CASE store[h[r0]] = r0
        <5>1. r0 \in DOMAIN after /\ after[r0] = h[r0]
          BY <3>3, <4>1
        <5> QED BY <3>3, <4>1, <5>1 DEF TrueOf
      <4>2. CASE store[h[r0]] # r0
        BY <3>3, <4>2
      <4> QED BY <4>1, <4>2
    <3>4. h \in Indexes /\ r0 \in DOMAIN h
      BY <1>3, <2>2
    <3> DEFINE p == h[r0]
    <3>5. \/ /\ after = h
             /\ p \notin DOMAIN store \/ store[p] = Partial
                 \/ (store[p] \in DOMAIN h /\ store[p] # r0)
          \/ after = Without(h, {r0})
          \/ /\ p \in DOMAIN store
             /\ after = [x \in (DOMAIN h \ {r0}) \cup {store[p]} |-> IF x = store[p] THEN p ELSE h[x]]
      BY <3>4, RereadFacts
    <3> HIDE DEF after
    <3> QED BY <2>2, <3>1, <3>2, <3>3, <3>5 DEF LeftAlone
  <2> HIDE DEF after
  <2>5. ASSUME NEW m \in n + 1 .. Len(Order), Order[m] \in DOMAIN ix
        PROVE  Order[m] \in DOMAIN after /\ after[Order[m]] = ix[Order[m]]
    BY <1>2, <1>3, <2>3, <2>5
  <2>6. ASSUME NEW r \in DOMAIN after, ~TrueOf(after, r)
        PROVE  /\ r \in DOMAIN ix /\ after[r] = ix[r]
               /\ (\E m \in n + 1 .. Len(Order) : Order[m] = r) \/ LeftAlone(ix, after, r)
    <3>1. r \in DOMAIN h /\ after[r] = h[r]
      BY <2>3, <2>6
    <3>2. ~TrueOf(h, r)
      BY <2>6, <3>1 DEF TrueOf
    <3>3. /\ r \in DOMAIN ix /\ h[r] = ix[r]
          /\ (\E m \in n .. Len(Order) : Order[m] = r) \/ LeftAlone(ix, h, r)
      BY <1>3, <3>1, <3>2
    <3>4. CASE r = r0
      BY <2>4, <2>6, <3>1, <3>3, <3>4
    <3>5. CASE r # r0
      <4>1. DOMAIN h \subseteq DOMAIN ix \cup DOMAIN after
        BY <1>6, <2>3
      <4>2. LeftAlone(ix, h, r) => LeftAlone(ix, after, r)
        BY <4>1 DEF LeftAlone
      <4> QED BY <1>4, <3>1, <3>3, <3>5, <4>2
    <3> QED BY <3>4, <3>5
  <2> QED BY <1>3, <1>6, <2>3, <2>5, <2>6 DEF Followed, after
<1> QED BY <1>5, <1>6

LEMMA RefreshedFacts ==
  ASSUME RepoInv, NEW ix \in Indexes
  PROVE  LET after == Refreshed(ix) IN
         /\ after \in Indexes /\ Range(after) = Range(ix)
         /\ \A r \in DOMAIN after :
              TrueOf(after, r) \/ (r \in DOMAIN ix /\ after[r] = ix[r] /\ LeftAlone(ix, after, r))
<1> DEFINE N == Len(Order)
<1>1. N \in Nat
  BY PackageAssumption
<1>2. PICK g : Rereads(ix, N, g) /\ Refreshed(ix) = g[N]
  BY RefreshedLast
<1>3. \A n \in 0 .. N :
        g[n] = IF n = 0 THEN ix
               ELSE IF Order[n] \in DOMAIN ix THEN Reread(g[n - 1], Order[n]) ELSE g[n - 1]
  BY <1>2 DEF Rereads
<1>4. \A n \in 0 .. N : Followed(ix, n, g[n])
  <2> SUFFICES ASSUME NEW bad \in 0 .. N, ~Followed(ix, bad, g[bad])
               PROVE  FALSE
    OBVIOUS
  <2> DEFINE T == {n \in 0 .. N : ~Followed(ix, n, g[n])}
  <2>1. T \in SUBSET Nat /\ T # {}
    BY <1>1
  <2>2. PICK n \in T : \A m \in T : n <= m
    BY <2>1, LeastNat
  <2>3. n \in 0 .. N /\ ~Followed(ix, n, g[n])
    BY <2>2
  <2>4. CASE n = 0
    BY <1>1, <1>3, <2>3, <2>4, FollowedFirst
  <2>5. CASE n # 0
    <3>1. n \in 1 .. N /\ n - 1 \in 0 .. N
      BY <1>1, <2>3, <2>5
    <3>2. Followed(ix, n - 1, g[n - 1])
      <4>1. ~(n <= n - 1)
        BY <3>1
      <4> QED BY <2>2, <3>1, <4>1
    <3>3. g[n] = IF Order[n] \in DOMAIN ix THEN Reread(g[n - 1], Order[n]) ELSE g[n - 1]
      BY <1>3, <2>3, <2>5
    <3> QED BY <2>3, <3>1, <3>2, <3>3, FollowedNext
  <2> QED BY <2>4, <2>5
<1>5. Followed(ix, N, Refreshed(ix))
  BY <1>1, <1>2, <1>4
<1>6. ~ \E m \in N + 1 .. N : TRUE
  BY <1>1
<1> QED BY <1>5, <1>6 DEF Followed

LEMMA RefreshInv ==
  ASSUME RepoInv, Refresh
  PROVE  RepoInv'
<1>1. /\ Call("refresh") /\ mode = "open" /\ calls = 0 /\ use' = use
      /\ idx' = Refreshed(idx) /\ pending' = pending /\ opt' = opt
  BY DEF Refresh, Call
<1>2. Loaded(idx, pending, opt) /\ pending = <<>>
  BY <1>1, LoadedFacts DEF RepoInv, SessionInv
<1>3. idx' \in Indexes
  BY <1>1, <1>2, RefreshedFacts DEF Loaded
<1>4. Loaded(idx', pending', opt')
  BY <1>1, <1>2, <1>3, NoneYet DEF Loaded
<1> QED BY <1>1, <1>4, CallInv

----------------------------------------------------------------------------
(* What Commit hands to Execute, whether it is sound or not.               *)

\* Where all that a commit is worked out of comes from.
LEMMA OpenFacts ==
  ASSUME RepoInv, mode = "open"
  PROVE  /\ idx \in Indexes /\ original \in Placement /\ pending \in Placement
         /\ clock \in Nat
         /\ opt \in Options
         /\ old = Current /\ original = old.at
         /\ old.docs \subseteq Document
         /\ old = NoIndex \/ (Repomd \in DOMAIN store /\ old = store[Repomd] /\ old \in Root)
         /\ DOMAIN original \subseteq Locations /\ DOMAIN pending \subseteq Locations
         /\ Range(idx) \subseteq Locations /\ DOMAIN idx \subseteq Rpms
<1>1. /\ idx \in Indexes /\ original \in Placement /\ pending \in Placement
      /\ clock \in Nat
      /\ opt \in Options /\ old = Current /\ original = old.at
  BY DEF RepoInv, SessionTyped, SessionInv
<1>2. old = NoIndex \/ (Repomd \in DOMAIN store /\ old = store[Repomd] /\ old \in Root)
  BY <1>1 DEF Current, RepoInv, StoreInv
<1>3. old.docs \subseteq Document
  BY <1>2, RootFields DEF NoIndex
<1>4. DOMAIN original \subseteq Locations /\ DOMAIN pending \subseteq Locations
  BY <1>1, PlacementDef
<1>5. Range(idx) \subseteq Locations /\ DOMAIN idx \subseteq Rpms
  BY <1>1, IndexesDef DEF Range
<1> QED BY <1>1, <1>2, <1>3, <1>4, <1>5

LEMMA DocumentsFacts ==
  ASSUME NEW ix \in Indexes
  PROVE  LET docs == {Primary(ix), Filelists(ix)} IN
         /\ docs \subseteq Document
         /\ Range(Documents(ix)) = docs
         /\ MetadataFiles(Documents(ix)) \in Seq(Describable)
         /\ Range(MetadataFiles(Documents(ix))) = {[to |-> d, data |-> d] : d \in docs}
<1>1. DOMAIN ix \subseteq Rpms
  BY IndexesDef
<1>2. Primary(ix) \in Document /\ Filelists(ix) \in Document
  BY <1>1, IndexByLocation DEF Primary, Filelists, Document
<1>3. /\ DOMAIN Documents(ix) = {1, 2}
      /\ Documents(ix)[1] = Primary(ix) /\ Documents(ix)[2] = Filelists(ix)
  BY DEF Documents
<1>4. Range(Documents(ix)) = {Primary(ix), Filelists(ix)}
  BY <1>3 DEF Range
<1>5. MetadataFiles(Documents(ix)) = <<[to |-> Primary(ix), data |-> Primary(ix)],
                                       [to |-> Filelists(ix), data |-> Filelists(ix)]>>
  BY DEF MetadataFiles, Documents
<1>6. \A d \in Document : [to |-> d, data |-> d] \in Describable
  BY DEF Describable
<1>7. MetadataFiles(Documents(ix)) \in Seq(Describable)
  BY <1>2, <1>5, <1>6
<1>8. Range(MetadataFiles(Documents(ix))) = {[to |-> d, data |-> d] : d \in {Primary(ix), Filelists(ix)}}
  BY <1>3 DEF MetadataFiles, Range
<1> QED BY <1>2, <1>4, <1>7, <1>8

LEMMA NewIndexFacts ==
  ASSUME RepoInv, mode = "open"
  PROVE  /\ NewIndex(idx) \in Root
         /\ NewIndex(idx).docs = {Primary(idx), Filelists(idx)} \cup Carried
         /\ NewIndex(idx).at = ByLocation(idx)
         /\ Carried \subseteq old.docs
<1>1. idx \in Indexes /\ clock \in Nat /\ old.docs \subseteq Document
  BY OpenFacts
<1>2. Carried \subseteq old.docs
  BY <1>1 DEF Carried
<1>3. /\ {Primary(idx), Filelists(idx)} \subseteq Document
      /\ Range(Documents(idx)) = {Primary(idx), Filelists(idx)}
  BY <1>1, DocumentsFacts
<1>4. ByLocation(idx) \in Placement
  BY <1>1, IndexByLocation
<1>5. NewIndex(idx) = [rev |-> clock + 1, docs |-> {Primary(idx), Filelists(idx)} \cup Carried,
                       at |-> ByLocation(idx)]
  BY <1>3 DEF NewIndex
<1>6. NewIndex(idx) # NoIndex
  BY <1>1, <1>5 DEF NoIndex
<1>7. NewIndex(idx) \in Root
  BY <1>1, <1>2, <1>3, <1>4, <1>5, <1>6 DEF Root
<1> QED BY <1>2, <1>5, <1>7

\* The moves of a plan: to where the index puts a package and nothing is, from
\* where the loaded index had one.
LEMMA MoveFacts ==
  ASSUME RepoInv, mode = "open",
         NEW c \in PlanFiles(store, PlanState(idx)).copies
  PROVE  /\ c \in Movable
         /\ c.to \in Range(idx) /\ c.to \notin DOMAIN store
         /\ c = Relocation(PlanState(idx), c.to)
<1> DEFINE s == PlanState(idx)
<1>1. /\ s.referenced = ByLocation(idx) /\ s.original = original /\ s.pending = pending
      /\ s.copied = copied /\ s.force = opt.force
  BY DEF PlanState
<1>2. DOMAIN ByLocation(idx) = Range(idx)
  BY OpenFacts, IndexByLocation
<1> HIDE DEF s
<1>3. PICK p \in StagedMoves(store, s) \cup Moves(store, s) : c = Relocation(s, p)
  BY DEF PlanFiles, s
<1>4. p \in Range(idx) /\ p \notin DOMAIN store /\ Relocatable(s, p)
  BY <1>1, <1>2, <1>3 DEF StagedMoves, Moves, Unstaged
<1>5. OrphanByID(s, s.referenced[p]) \in DOMAIN original
  <2> DEFINE O == OrphansWith(s, s.referenced[p])
  <2>1. O # {} /\ O \subseteq DOMAIN original
    BY <1>1, <1>4 DEF Relocatable, OrphansWith, Orphans
  <2>2. O \in SUBSET Locations
    BY <2>1, OpenFacts
  <2>3. First(O) \in O
    BY <2>1, <2>2, PackageAssumption
  <2> QED BY <2>1, <2>3 DEF OrphanByID
<1>6. c.from \in DOMAIN original /\ c.to = p /\ c = [from |-> c.from, to |-> c.to]
  BY <1>3, <1>5 DEF Relocation
<1>7. c.from \in Locations /\ c.to \in Locations
  BY <1>4, <1>6, OpenFacts
<1> QED BY <1>3, <1>4, <1>6, <1>7 DEF Movable, s

LEMMA UploadFacts ==
  ASSUME RepoInv, mode = "open",
         NEW u \in PlanFiles(store, PlanState(idx)).uploads
  PROVE  /\ u \in Uploadable
         /\ u.to \in DOMAIN pending /\ u.data = pending[u.to]
         /\ \/ u.to \notin DOMAIN store
            \/ opt.force
            \/ u.to \notin Range(idx)
<1> DEFINE s == PlanState(idx)
<1>1. /\ s.referenced = ByLocation(idx) /\ s.pending = pending /\ s.force = opt.force
  BY DEF PlanState
<1>2. DOMAIN ByLocation(idx) = Range(idx)
  BY OpenFacts, IndexByLocation
<1> HIDE DEF s
<1>3. PICK p \in Uploaded(store, s) : u = [to |-> p, data |-> s.pending[p]]
  BY DEF PlanFiles, s
<1>4. /\ p \in DOMAIN pending /\ u = [to |-> p, data |-> pending[p]]
      /\ p \notin DOMAIN store \/ opt.force \/ p \notin Range(idx)
  BY <1>1, <1>2, <1>3 DEF Uploaded, Overwritten, Staged
<1>5. p \in Locations /\ pending[p] \in Rpms
  BY <1>4, OpenFacts, PlacementDef
<1> QED BY <1>4, <1>5 DEF Uploadable

\* What is collected is a package or a document, no index.
LEMMA CollectFacts ==
  ASSUME RepoInv, mode = "open",
         NEW p \in UNION Range(CommitSteps.gc)
  PROVE  /\ \/ IsRpm(p) /\ p \notin Range(idx)
            \/ IsDoc(p) /\ p \notin NewIndex(idx).docs
         /\ p \notin {Repomd, RepomdAsc}
<1> DEFINE plan == PlanFiles(store, PlanState(idx))
<1>1. plan.deleted = DOMAIN original \ Range(idx)
  BY OpenFacts, IndexByLocation DEF PlanFiles, Orphans, PlanState
<1> HIDE DEF plan
<1>2. CommitSteps.gc = <<ObsoleteMeta(idx), plan.deleted, UnreferencedRpms(plan.deleted), StaleMetadata>>
  BY DEF CommitSteps, plan
<1>3. p \in ObsoleteMeta(idx) \cup plan.deleted \cup UnreferencedRpms(plan.deleted) \cup StaleMetadata
  BY <1>2 DEF Range
<1>4. CASE p \in ObsoleteMeta(idx)
  BY <1>4, OpenFacts, PathKinds DEF ObsoleteMeta
<1>5. CASE p \in plan.deleted
  BY <1>1, <1>5, OpenFacts, PathKinds
<1>6. CASE p \in UnreferencedRpms(plan.deleted)
  BY <1>6, PathKinds DEF UnreferencedRpms, Unreferenced
<1>7. CASE p \in StaleMetadata
  BY <1>7, PathKinds DEF StaleMetadata, Unreferenced
<1> QED BY <1>3, <1>4, <1>5, <1>6, <1>7

LEMMA SwappedFacts ==
  LET root == NewIndex(idx) IN
  Swapped = IF opt.signed THEN <<IndexFile(root), SignatureFile(root)>> ELSE <<IndexFile(root)>>
<1>1. ASSUME NEW a, NEW b PROVE Append(<<a>>, b) = <<a, b>>
  <2> DEFINE s == Append(<<a>>, b)
  <2>1. <<a>> \in Seq({a, b}) /\ Len(<<a>>) = 1 /\ <<a>>[1] = a
    OBVIOUS
  <2>2. s \in Seq({a, b}) /\ Len(s) = 2 /\ s[1] = a /\ s[2] = b
    BY <2>1
  <2> HIDE DEF s
  <2>3. \A t \in Seq({a, b}) : Len(t) = 2 /\ t[1] = a /\ t[2] = b => t = <<a, b>>
    OBVIOUS
  <2> QED BY <2>2, <2>3 DEF s
<1> QED BY <1>1 DEF Swapped, IndexFile, SignatureFile

LEMMA CommitShape ==
  ASSUME RepoInv, mode = "open"
  PROVE  CommitSteps \in RpmShape(UNION Range(CommitSteps.gc))
<1> DEFINE plan == PlanFiles(store, PlanState(idx))
           root == NewIndex(idx)
           G    == UNION Range(CommitSteps.gc)
<1>1. plan.copies \subseteq Movable
  BY MoveFacts
<1>2. plan.uploads \subseteq Uploadable
  BY UploadFacts
<1>3. MetadataFiles(Documents(idx)) \in Seq(Describable)
  BY OpenFacts, DocumentsFacts
<1>4. Swapped \in Seq(Swappable)
  <2>1. root \in Root
    BY NewIndexFacts
  <2>2. IndexFile(root) \in Swappable /\ SignatureFile(root) \in Swappable
    BY <2>1 DEF Swappable
  <2> HIDE DEF root
  <2>3. Swapped = IF opt.signed THEN <<IndexFile(root), SignatureFile(root)>> ELSE <<IndexFile(root)>>
    BY SwappedFacts DEF root
  <2> QED BY <2>2, <2>3
<1>5. Retracted \in Seq({RepomdAsc})
  <2>1. \A p : <<>> \in Seq({p}) /\ <<p>> \in Seq({p})
    OBVIOUS
  <2> QED BY <2>1 DEF Retracted
<1>6. CommitSteps.gc \in Seq(SUBSET G)
  <2> DEFINE g == CommitSteps.gc
  <2>1. g = <<ObsoleteMeta(idx), plan.deleted, UnreferencedRpms(plan.deleted), StaleMetadata>>
    BY DEF CommitSteps
  <2>2. DOMAIN g = 1 .. 4 /\ Len(g) = 4 /\ g = [i \in 1 .. 4 |-> g[i]]
    BY <2>1
  <2>3. \A i \in 1 .. 4 : g[i] \in SUBSET UNION Range(g)
    BY <2>2 DEF Range
  <2> HIDE DEF g
  <2>4. g \in Seq(SUBSET UNION Range(g))
    BY <2>2, <2>3
  <2> QED BY <2>4 DEF g
<1> HIDE DEF G
<1>7. CommitSteps = [copies |-> plan.copies, uploads |-> plan.uploads,
                     metadata |-> MetadataFiles(Documents(idx)), swap |-> Swapped,
                     retract |-> Retracted, gc |-> CommitSteps.gc]
  BY DEF CommitSteps
<1> HIDE DEF plan
<1>8. CommitSteps \in RpmShape(G)
  BY <1>1, <1>2, <1>3, <1>4, <1>5, <1>6, <1>7 DEF RpmShape, Shape
<1> QED BY <1>8 DEF G

LEMMA CommitInv ==
  ASSUME RepoInv, Commit
  PROVE  RepoInv'
<1>1. /\ mode = "open" /\ mode' = "publishing" /\ clock' = clock + 1
      /\ work' = CommitSteps /\ store' = store /\ calls' = calls
      /\ idx' = idx /\ old' = old /\ original' = original /\ pending' = pending
      /\ copied' = copied /\ replaced' = replaced /\ opt' = opt /\ use' = use
  BY DEF Commit, session
<1>2. StoreInv' /\ SessionTyped' /\ SessionInv'
  BY <1>1 DEF RepoInv, StoreInv, SessionTyped, SessionInv
<1>3. WorkInv'
  <2>1. CommitSteps \in RpmShape(UNION Range(CommitSteps.gc))
    BY <1>1, CommitShape
  <2>2. (UNION Range(CommitSteps.gc)) \cap {Repomd, RepomdAsc} = {}
    BY <1>1, CollectFacts
  <2> QED BY <1>1, <2>1, <2>2 DEF WorkInv, Doomed
<1>4. SignatureInv'
  <2> DEFINE root == NewIndex(idx)
  <2>1. root \in Root
    BY <1>1, NewIndexFacts
  <2>2. /\ CommitSteps.swap = IF opt.signed THEN <<IndexFile(root), SignatureFile(root)>>
                              ELSE <<IndexFile(root)>>
        /\ CommitSteps.retract = Retracted
    BY SwappedFacts DEF CommitSteps
  <2> HIDE DEF root
  <2>3. CASE opt.signed
    BY <1>1, <2>1, <2>2, <2>3 DEF SignatureInv, Retracted
  <2>4. CASE ~opt.signed
    <3>1. Retracted = <<RepomdAsc>> \/ (Retracted = <<>> /\ RepomdAsc \notin DOMAIN store)
      BY <1>1, <2>4, OpenFacts DEF Retracted, RepoInv, StoreInv, Current, Root
    <3> QED BY <1>1, <2>1, <2>2, <2>4, <3>1 DEF SignatureInv
  <2> QED BY <2>3, <2>4
<1> QED BY <1>2, <1>3, <1>4 DEF RepoInv

----------------------------------------------------------------------------
(* A process begins, publishes and is gone.                                *)

LEMMA IdleWork ==
  /\ work = NoSteps => work \in RpmShape(Doomed) /\ Doomed = {}
  /\ work' = NoSteps => work' \in RpmShape(Doomed') /\ Doomed' = {}
<1>1. UNION Range(NoSteps.gc) = {}
  BY DEF NoSteps, Range
<1>2. \A G : NoSteps \in RpmShape(G)
  BY NoStepsShape DEF RpmShape
<1> QED BY <1>1, <1>2 DEF Doomed

LEMMA InitInv == Init => RepoInv
<1> SUFFICES ASSUME Init PROVE RepoInv
  OBVIOUS
<1>1. StoreInv
  BY UseAssumption DEF Init, StoreInv, IsSignature
<1>2. SessionTyped
  BY NoneYet DEF Init, SessionTyped
<1>3. SessionInv /\ WorkInv /\ SignatureInv
  BY IdleWork DEF Init, SessionInv, WorkInv, SignatureInv
<1> QED BY <1>1, <1>2, <1>3 DEF RepoInv

LEMMA OpenInv ==
  ASSUME RepoInv, Open
  PROVE  RepoInv'
<1>1. /\ mode = "closed" /\ mode' = "open" /\ store' = store /\ work' = work /\ clock' = clock
      /\ old' = Current /\ original' = Current.at /\ idx' = AntiFunction(Current.at)
      /\ pending' = <<>> /\ copied' = {} /\ replaced' = FALSE
      /\ opt' \in use.options /\ use' = use /\ calls' = 0
  BY DEF Open, Load
<1>2. Current.at \in Placement
  BY RootFields, NoneYet DEF Current, NoIndex, RepoInv, StoreInv
<1>3. idx' \in Indexes
  BY <1>1, <1>2, PlacementInverted
<1>4. opt' \in Options
  BY <1>1, UseAssumption DEF RepoInv, SessionTyped
<1>5. StoreInv' /\ WorkInv' /\ SignatureInv'
  BY <1>1 DEF RepoInv, StoreInv, WorkInv, Doomed, SignatureInv
<1>6. SessionTyped'
  BY <1>1, <1>2, <1>3, NoneYet DEF RepoInv, SessionTyped
<1>7. SessionInv'
  BY <1>1, <1>4, NoneYet DEF SessionInv, Current
<1> QED BY <1>5, <1>6, <1>7 DEF RepoInv

\* However a process ends, it leaves a store and nothing else.
LEMMA ForgetInv ==
  ASSUME RepoInv, Forget, work' = NoSteps, StoreInv', clock' = clock, calls' = calls
  PROVE  RepoInv'
<1>1. SessionTyped'
  BY NoneYet DEF Forget, RepoInv, SessionTyped
<1>2. SessionInv' /\ WorkInv' /\ SignatureInv'
  BY IdleWork DEF Forget, SessionInv, WorkInv, SignatureInv
<1> QED BY <1>1, <1>2 DEF RepoInv

LEMMA EndInv ==
  ASSUME RepoInv, Abandon \/ Finish \/ CutShort
  PROVE  RepoInv'
<1>1. Forget /\ clock' = clock /\ calls' = calls
  BY DEF Abandon, Finish, CutShort
<1>2. work' = NoSteps
  BY DEF Abandon, Finish, CutShort, Stop, StopInCopy, RepoInv, WorkInv
<1>3. CASE store' = store
  BY <1>1, <1>2, <1>3, ForgetInv DEF RepoInv, StoreInv
<1>4. CASE StopInCopy
  <2>1. PICK c \in work.copies : StorePut(c.to, Partial)
    BY <1>4 DEF StopInCopy
  <2>2. c \in Movable
    BY DEF RepoInv, WorkInv, RpmShape, Shape
  <2>3. c.to \in Locations /\ c.to \notin {Repomd, RepomdAsc}
    BY <2>2, PathKinds DEF Movable
  <2>4. /\ DOMAIN store' = DOMAIN store \cup {c.to} /\ store'[c.to] = Partial
        /\ \A q \in DOMAIN store : q # c.to => store'[q] = store[q]
    BY <2>1, PutFacts
  <2>5. StoreInv'
    BY <2>3, <2>4 DEF RepoInv, StoreInv
  <2> QED BY <1>1, <1>2, <2>5, ForgetInv
<1> QED BY <1>3, <1>4 DEF Abandon, Finish, CutShort, Stop

\* A step that leaves both index files alone.
LEMMA ElsewhereInv ==
  ASSUME RepoInv, UNCHANGED <<mode, opt>>,
         work'.swap = work.swap, work'.retract = work.retract,
         \A q \in {Repomd, RepomdAsc} : /\ q \in DOMAIN store' <=> q \in DOMAIN store
                                        /\ q \in DOMAIN store => store'[q] = store[q],
         \A l \in Locations \cap DOMAIN store' : store'[l] \in Rpms \cup {Partial}
  PROVE  StoreInv' /\ SignatureInv'
<1>1. /\ Repomd \in DOMAIN store' <=> Repomd \in DOMAIN store
      /\ Repomd \in DOMAIN store => store'[Repomd] = store[Repomd]
      /\ RepomdAsc \in DOMAIN store' <=> RepomdAsc \in DOMAIN store
      /\ RepomdAsc \in DOMAIN store => store'[RepomdAsc] = store[RepomdAsc]
  OBVIOUS
<1>2. StoreInv'
  BY <1>1 DEF RepoInv, StoreInv
<1>3. SignatureInv'
  <2>1. SignatureInv /\ mode' = mode /\ opt' = opt
    BY DEF RepoInv
  <2>2. CASE mode # "publishing"
    BY <2>1, <2>2 DEF SignatureInv
  <2>3. CASE mode = "publishing" /\ ~opt.signed
    BY <1>1, <2>1, <2>3 DEF SignatureInv
  <2>4. CASE mode = "publishing" /\ opt.signed
    <3>1. work.retract = <<>>
      BY <2>1, <2>4 DEF SignatureInv
    <3>2. CASE \E root \in Root : work.swap = <<IndexFile(root), SignatureFile(root)>>
      BY <2>1, <2>4, <3>1, <3>2 DEF SignatureInv
    <3>3. CASE Repomd \in DOMAIN store /\ work.swap = <<SignatureFile(store[Repomd])>>
      <4>1. Repomd \in DOMAIN store' /\ work'.swap = <<SignatureFile(store'[Repomd])>>
        BY <1>1, <3>3
      <4> QED BY <2>1, <2>4, <3>1, <4>1 DEF SignatureInv
    <3>4. CASE work.swap = <<>> /\ RepomdAsc \in DOMAIN store /\ store[RepomdAsc].signs = store[Repomd]
      BY <1>1, <2>1, <2>4, <3>1, <3>4 DEF SignatureInv, RepoInv, StoreInv
    <3> QED BY <2>1, <2>4, <3>2, <3>3, <3>4 DEF SignatureInv
  <2> QED BY <2>2, <2>3, <2>4
<1> QED BY <1>2, <1>3

LEMMA PutElsewhereInv ==
  ASSUME RepoInv, UNCHANGED <<mode, opt>>,
         work'.swap = work.swap, work'.retract = work.retract,
         NEW p, NEW c, StorePut(p, c), p \notin {Repomd, RepomdAsc},
         p \in Locations => c \in Rpms \cup {Partial}
  PROVE  StoreInv' /\ SignatureInv'
<1>1. /\ DOMAIN store' = DOMAIN store \cup {p} /\ store'[p] = c
      /\ \A q \in DOMAIN store : q # p => store'[q] = store[q]
  BY PutFacts
<1>2. \A l \in Locations \cap DOMAIN store' : store'[l] \in Rpms \cup {Partial}
  BY <1>1 DEF RepoInv, StoreInv
<1> QED BY <1>1, <1>2, ElsewhereInv

LEMMA SwapInv ==
  ASSUME RepoInv, mode = "publishing", UNCHANGED <<mode, opt>>, SwapOne
  PROVE  StoreInv' /\ SignatureInv'
<1> DEFINE s == Head(work.swap)
<1>1. /\ StorePut(s.to, s.data) /\ work.swap # <<>>
      /\ work'.swap = Tail(work.swap) /\ work'.retract = work.retract
  BY SwapOneFields DEF RepoInv, WorkInv, RpmShape
<1> HIDE DEF s
<1>2. /\ DOMAIN store' = DOMAIN store \cup {s.to} /\ store'[s.to] = s.data
      /\ \A q \in DOMAIN store : q # s.to => store'[q] = store[q]
  BY <1>1, PutFacts
<1>3. \A l \in Locations : l # Repomd /\ l # RepomdAsc
  BY PathKinds
<1>4. \A a, b : Head(<<a, b>>) = a /\ Tail(<<a, b>>) = <<b>> /\ Head(<<a>>) = a /\ Tail(<<a>>) = <<>>
  OBVIOUS
<1>5. ASSUME NEW root \in Root, s = IndexFile(root)
      PROVE  StoreInv' /\ Repomd \in DOMAIN store' /\ store'[Repomd] = root
             /\ (RepomdAsc \in DOMAIN store' <=> RepomdAsc \in DOMAIN store)
  <2>1. s.to = Repomd /\ s.data = root
    BY <1>5 DEF IndexFile
  <2> QED BY <1>2, <1>3, <2>1, PathKinds DEF RepoInv, StoreInv
<1>6. CASE opt.signed /\ \E root \in Root : work.swap = <<IndexFile(root), SignatureFile(root)>>
  <2>1. PICK root \in Root : work.swap = <<IndexFile(root), SignatureFile(root)>>
    BY <1>6
  <2>2. s = IndexFile(root) /\ work'.swap = <<SignatureFile(root)>>
    BY <1>1, <1>4, <2>1 DEF s
  <2> QED BY <1>1, <1>5, <1>6, <2>2 DEF RepoInv, SignatureInv
<1>7. CASE opt.signed /\ Repomd \in DOMAIN store /\ work.swap = <<SignatureFile(store[Repomd])>>
  <2>1. s = SignatureFile(store[Repomd]) /\ work'.swap = <<>>
    BY <1>1, <1>4, <1>7 DEF s
  <2>2. s.to = RepomdAsc /\ s.data = Signature(Signer, store[Repomd])
    BY <2>1 DEF SignatureFile
  <2>3. IsSignature(s.data) /\ s.data.signs = store[Repomd]
    BY <2>2 DEF IsSignature, Signature
  <2>4. Repomd \in DOMAIN store' /\ store'[Repomd] = store[Repomd]
    BY <1>2, <1>7, <2>2, PathKinds
  <2>5. StoreInv'
    <3>1. /\ RepomdAsc \in DOMAIN store' /\ store'[RepomdAsc] = s.data
          /\ \A l \in Locations \cap DOMAIN store' : l \in DOMAIN store /\ store'[l] = store[l]
      BY <1>2, <1>3, <2>2
    <3> QED BY <1>7, <2>3, <2>4, <3>1 DEF RepoInv, StoreInv
  <2>6. SignatureInv'
    BY <1>1, <1>2, <1>7, <2>1, <2>2, <2>3, <2>4 DEF RepoInv, SignatureInv
  <2> QED BY <2>5, <2>6
<1>8. CASE ~opt.signed /\ \E root \in Root : work.swap = <<IndexFile(root)>>
  <2>1. PICK root \in Root : work.swap = <<IndexFile(root)>>
    BY <1>8
  <2>2. s = IndexFile(root) /\ work'.swap = <<>>
    BY <1>1, <1>4, <2>1 DEF s
  <2> QED BY <1>1, <1>5, <1>8, <2>2 DEF RepoInv, SignatureInv
<1> QED BY <1>1, <1>6, <1>7, <1>8 DEF RepoInv, SignatureInv

LEMMA RetractInv ==
  ASSUME RepoInv, mode = "publishing", UNCHANGED <<mode, opt>>, RetractOne
  PROVE  StoreInv' /\ SignatureInv'
<1> DEFINE h == Head(work.retract)
<1>1. /\ StoreDelete(h) /\ work.retract # <<>>
      /\ work'.retract = Tail(work.retract) /\ work'.swap = <<>>
  BY RetractOneFields DEF RepoInv, WorkInv, RpmShape
<1>2. /\ DOMAIN store' = DOMAIN store \ {h}
      /\ \A q \in DOMAIN store' : store'[q] = store[q]
  BY <1>1, DeleteFacts
<1>3. ~opt.signed /\ work.retract = <<RepomdAsc>>
  BY <1>1 DEF RepoInv, SignatureInv
<1>4. \A a : Head(<<a>>) = a /\ Tail(<<a>>) = <<>>
  OBVIOUS
<1>5. h = RepomdAsc /\ work'.retract = <<>>
  BY <1>1, <1>3, <1>4
<1> HIDE DEF h
<1>6. StoreInv'
  BY <1>2, <1>5, PathKinds DEF RepoInv, StoreInv
<1>7. SignatureInv'
  BY <1>1, <1>2, <1>3, <1>5 DEF SignatureInv
<1> QED BY <1>6, <1>7

LEMMA PublishingInv ==
  ASSUME RepoInv, Publishing
  PROVE  RepoInv'
<1>1. /\ mode = "publishing" /\ mode' = mode /\ Step
      /\ idx' = idx /\ old' = old /\ original' = original /\ pending' = pending
      /\ copied' = copied /\ replaced' = replaced /\ opt' = opt /\ use' = use
      /\ calls' = calls /\ clock' = clock
  BY DEF Publishing, session
<1>2. SessionTyped' /\ SessionInv'
  BY <1>1 DEF RepoInv, SessionTyped, SessionInv
<1>3. work \in Shape(Movable, Uploadable, Describable, Swappable, {RepomdAsc}, Doomed)
  BY DEF RepoInv, WorkInv, RpmShape
<1>4. WorkInv'
  <2>1. work' \in Shape(Movable, Uploadable, Describable, Swappable, {RepomdAsc}, Doomed)
    BY <1>1, <1>3, ExecuteShape
  <2>2. Doomed' \subseteq Doomed
    BY <1>1, <1>3, CopyOneFields, UploadOneFields, WriteMetadataFields, SwapOneFields,
       RetractOneFields, CollectOneFields DEF Step, Doomed
  <2>3. work'.gc \in Seq(SUBSET Doomed')
    <3>1. work'.gc \in Seq(SUBSET Doomed)
      BY <2>1 DEF Shape
    <3>2. \A i \in DOMAIN work'.gc : work'.gc[i] \in SUBSET Doomed'
      BY DEF Doomed, Range
    <3> HIDE DEF Doomed
    <3> QED BY <3>1, <3>2
  <2>4. work' \in RpmShape(Doomed')
    BY <2>1, <2>3 DEF RpmShape, Shape
  <2> QED BY <1>1, <2>2, <2>4 DEF RepoInv, WorkInv
<1>5. CASE CopyOne
  <2>1. PICK c \in work.copies : c \in Movable /\ c.from \in DOMAIN store /\ StorePut(c.to, store[c.from])
    BY <1>3, <1>5, CopyOneFields
  <2>2. work'.swap = work.swap /\ work'.retract = work.retract
    BY <1>3, <1>5, CopyOneFields
  <2>3. c.from \in Locations /\ c.to \in Locations /\ c.to \notin {Repomd, RepomdAsc}
    BY <2>1, PathKinds DEF Movable
  <2>4. store[c.from] \in Rpms \cup {Partial}
    BY <2>1, <2>3 DEF RepoInv, StoreInv
  <2> QED BY <1>1, <1>2, <1>4, <2>1, <2>2, <2>3, <2>4, PutElsewhereInv DEF RepoInv
<1>6. CASE UploadOne
  <2>1. PICK u \in work.uploads : u \in Uploadable /\ StorePut(u.to, u.data)
    BY <1>3, <1>6, UploadOneFields
  <2>2. work'.swap = work.swap /\ work'.retract = work.retract
    BY <1>3, <1>6, UploadOneFields
  <2>3. u.to \notin {Repomd, RepomdAsc} /\ u.data \in Rpms
    BY <2>1, PathKinds DEF Uploadable
  <2> QED BY <1>1, <1>2, <1>4, <2>1, <2>2, <2>3, PutElsewhereInv DEF RepoInv
<1>7. CASE WriteMetadata
  <2> DEFINE u == Head(work.metadata)
  <2>1. u \in Describable /\ StorePut(u.to, u.data)
    BY <1>3, <1>7, WriteMetadataFields
  <2>2. work'.swap = work.swap /\ work'.retract = work.retract
    BY <1>3, <1>7, WriteMetadataFields
  <2> HIDE DEF u
  <2>3. u.to \notin {Repomd, RepomdAsc} /\ u.to \notin Locations
    BY <2>1, PathKinds DEF Describable
  <2> QED BY <1>1, <1>2, <1>4, <2>1, <2>2, <2>3, PutElsewhereInv DEF RepoInv
<1>8. CASE SwapOne
  BY <1>1, <1>2, <1>4, <1>8, SwapInv DEF RepoInv
<1>9. CASE RetractOne
  BY <1>1, <1>2, <1>4, <1>9, RetractInv DEF RepoInv
<1>10. CASE CollectOne
  <2>1. /\ work'.swap = work.swap /\ work'.retract = work.retract
        /\ \/ UNCHANGED store
           \/ \E p \in Doomed : StoreDelete(p)
    BY <1>3, <1>10, CollectOneFields DEF Doomed
  <2>2. ASSUME NEW p \in Doomed, StoreDelete(p)
        PROVE  StoreInv' /\ SignatureInv'
    <3>1. p \notin {Repomd, RepomdAsc}
      BY DEF RepoInv, WorkInv
    <3>2. DOMAIN store' = DOMAIN store \ {p} /\ \A q \in DOMAIN store' : store'[q] = store[q]
      BY <2>2, DeleteFacts
    <3>3. \A l \in Locations \cap DOMAIN store' : store'[l] \in Rpms \cup {Partial}
      BY <3>2 DEF RepoInv, StoreInv
    <3> QED BY <1>1, <2>1, <3>1, <3>2, <3>3, ElsewhereInv
  <2>3. ASSUME UNCHANGED store
        PROVE  StoreInv' /\ SignatureInv'
    <3>1. \A l \in Locations \cap DOMAIN store' : store'[l] \in Rpms \cup {Partial}
      BY <2>3 DEF RepoInv, StoreInv
    <3> QED BY <1>1, <2>1, <2>3, <3>1, ElsewhereInv
  <2> QED BY <1>2, <1>4, <2>1, <2>2, <2>3 DEF RepoInv
<1> QED BY <1>1, <1>5, <1>6, <1>7, <1>8, <1>9, <1>10 DEF Step

LEMMA NextInv == RepoInv /\ [Next]_rpmVars => RepoInv'
<1> SUFFICES ASSUME RepoInv, [Next]_rpmVars PROVE RepoInv'
  OBVIOUS
<1>1. CASE UNCHANGED rpmVars
  BY <1>1 DEF rpmVars, session, RepoInv, StoreInv, SessionTyped, SessionInv, Current, WorkInv,
              Doomed, SignatureInv
<1>2. CASE Mutate
  BY <1>2, AddInv, RemovalInv, RelocateInv, ResignInv, RefreshInv DEF Mutate
<1> QED BY <1>1, <1>2, OpenInv, CommitInv, EndInv, PublishingInv DEF Next

LEMMA NextNoCopy == NoCopy /\ [Next]_rpmVars => NoCopy'
<1> SUFFICES ASSUME NoCopy, [Next]_rpmVars PROVE NoCopy'
  OBVIOUS
<1>1. CASE Mutate
  BY <1>1 DEF Mutate, AddRPM, RemoveNEVRA, PruneOlderVersions, RelocateAll, ResignAll, Refresh, Call, NoCopy
<1>2. CASE Open \/ Abandon \/ Finish \/ CutShort
  BY <1>2 DEF Open, Load, Abandon, Finish, CutShort, Forget, NoCopy
<1>3. CASE Commit \/ Publishing \/ UNCHANGED rpmVars
  BY <1>3 DEF Commit, Publishing, rpmVars, session, NoCopy
<1> QED BY <1>1, <1>2, <1>3 DEF Next

LEMMA SpecInv == Spec => [](RepoInv /\ NoCopy)
<1>1. Init => NoCopy
  BY DEF Init, NoCopy
<1> QED BY <1>1, InitInv, NextInv, NextNoCopy, PTL DEF Spec

----------------------------------------------------------------------------
(* What Commit hands to Execute is sound, unless it is doubtful.           *)

LEMMA LiveFacts ==
  ASSUME RpmFiles, RepoInv, NEW q \in Live
  PROVE  /\ DOMAIN Needs(store[q]) \cap IndexPaths = {}
         /\ DOMAIN Needs(store[q]) # {} => q = Repomd /\ store[q] \in Root
<1>1. CASE q = Repomd
  BY <1>1, NeedsOfRoot DEF Live, RepoInv, StoreInv
<1>2. CASE q = RepomdAsc
  BY <1>2, NeedsOfSignature DEF Live, RepoInv, StoreInv
<1> QED BY <1>1, <1>2 DEF Live, RpmFiles

LEMMA RpmApart ==
  ASSUME RpmFiles, RepoInv
  PROVE  Apart
<1>1. ASSUME NEW s \in Range(work.swap)
      PROVE  DOMAIN Needs(s.data) \cap IndexPaths = {}
  <2>1. work.swap \in Seq(Swappable)
    BY DEF RepoInv, WorkInv, RpmShape, Shape
  <2>2. s \in Swappable
    BY <2>1 DEF Range
  <2>3. CASE \E root \in Root : s = IndexFile(root)
    <3>1. PICK root \in Root : s = IndexFile(root)
      BY <2>3
    <3>2. s.data = root
      BY <3>1 DEF IndexFile
    <3> QED BY <3>1, <3>2, NeedsOfRoot
  <2>4. CASE \E root \in Root : s = SignatureFile(root)
    BY <2>4, NeedsOfSignature DEF SignatureFile, IsSignature, Signature
  <2> QED BY <2>2, <2>3, <2>4 DEF Swappable
<1> QED BY <1>1, LiveFacts DEF Apart

\* What clients read names, when an index is loaded.
LEMMA NamedFacts ==
  ASSUME RpmFiles, RepoInv, Whole, mode = "open", NEW q \in Live, NEW p \in DOMAIN Needs(store[q])
  PROVE  /\ q = Repomd
         /\ p \in DOMAIN store
         /\ \/ p \in old.docs /\ IsDoc(p) /\ Needs(store[q])[p] = p /\ store[p] = p
            \/ p \in DOMAIN original /\ IsRpm(p) /\ Needs(store[q])[p] = original[p]
<1>1. q = Repomd /\ store[q] \in Root /\ q \in DOMAIN store
  BY LiveFacts DEF Live
<1>2. old = store[q] /\ original = old.at
  BY <1>1, OpenFacts DEF Current
<1>3. p \in DOMAIN store /\ store[p] = Needs(store[q])[p]
  BY DEF Whole, Complete
<1>4. /\ p \in old.docs \/ p \in DOMAIN original
      /\ p \in old.docs => Needs(store[q])[p] = p
      /\ p \in DOMAIN original => Needs(store[q])[p] = original[p]
  BY <1>1, <1>2, NeedsOfRoot
<1> QED BY <1>1, <1>3, <1>4, OpenFacts, PathKinds

\* Every path the new index names a package at is one that is written with that
\* package, or holds it already.
LEMMA PlacedFacts ==
  ASSUME RepoInv, NoCopy, mode = "open", ~CommitRefused(idx), ~Doubtful, NEW p \in Range(idx)
  PROVE  LET plan == PlanFiles(store, PlanState(idx))
             want == ByLocation(idx)[p]
         IN /\ \A c \in plan.copies : c.to = p => c.from \in DOMAIN store /\ store[c.from] = want
            /\ \A u \in plan.uploads : u.to = p => u.data = want
            /\ \/ \E c \in plan.copies : c.to = p
               \/ \E u \in plan.uploads : u.to = p
               \/ p \in DOMAIN store /\ store[p] = want
<1> DEFINE s    == PlanState(idx)
           plan == PlanFiles(store, s)
           want == ByLocation(idx)[p]
<1>1. /\ s.referenced = ByLocation(idx) /\ s.original = original /\ s.pending = pending
      /\ s.copied = {} /\ ~s.force
  BY OpenFacts DEF NoCopy, PlanState, Doubtful
<1>2. DOMAIN ByLocation(idx) = Range(idx)
  BY OpenFacts, IndexByLocation
<1>3. /\ plan.copies = {Relocation(s, x) : x \in StagedMoves(store, s) \cup Moves(store, s)}
      /\ plan.uploads = {[to |-> x, data |-> pending[x]] : x \in Uploaded(store, s)}
  BY <1>1 DEF PlanFiles
<1>4. /\ \A x \in Unread(store, s) : x \in DOMAIN store /\ store[x] = ByLocation(idx)[x]
      /\ \A c \in plan.copies : c.from \in DOMAIN store /\ store[c.from] = ByLocation(idx)[c.to]
  BY <1>1 DEF Doubtful, TrustJustified
<1>5. Conflicting(store, s) = {} /\ Unplaceable(store, s) = {}
  BY DEF CommitRefused, Refuses
<1> HIDE DEF s, plan
<1>6. p \in DOMAIN pending => pending[p] = want
  <2>1. want \in DOMAIN idx /\ idx[want] = p
    BY OpenFacts, IndexByLocation
  <2> QED BY <2>1 DEF RepoInv, SessionInv, Doubtful
<1>7. ASSUME NEW x PROVE Relocation(s, x).to = x
  BY DEF Relocation
<1>8. \/ \E c \in plan.copies : c.to = p
      \/ \E u \in plan.uploads : u.to = p
      \/ p \in DOMAIN store /\ store[p] = want
  <2>1. CASE p \in DOMAIN pending /\ p \notin DOMAIN store
    <3>1. CASE p \in StagedMoves(store, s)
      BY <1>3, <1>7, <3>1
    <3>2. CASE p \notin StagedMoves(store, s)
      <4>1. p \in Uploaded(store, s)
        BY <1>1, <2>1, <3>2 DEF Uploaded, Staged
      <4>2. [to |-> p, data |-> pending[p]] \in plan.uploads
        BY <1>3, <4>1
      <4> QED BY <4>2
    <3> QED BY <3>1, <3>2
  <2>2. CASE p \in DOMAIN pending /\ p \in DOMAIN store
    <3>1. p \notin Overwritten(store, s) /\ p \in Staged(s) \cap DOMAIN store
      BY <1>1, <1>2, <2>2 DEF Overwritten, Staged
    <3>2. CASE CanHash
      BY <1>1, <1>5, <2>2, <3>1, <3>2 DEF Conflicting, Matches
    <3>3. CASE ~CanHash
      BY <1>1, <1>2, <1>4, <2>2, <3>1, <3>3 DEF BySize, Unread
    <3> QED BY <3>2, <3>3
  <2>3. CASE p \notin DOMAIN pending /\ p \in DOMAIN original
    BY <1>1, <1>2, <1>4, <2>3 DEF PassedOver, Staged, Unread
  <2>4. CASE p \notin DOMAIN pending /\ p \notin DOMAIN original
    <3>1. p \in Unstaged(s)
      BY <1>1, <1>2, <2>4 DEF Unstaged, Staged
    <3>2. CASE p \in DOMAIN store
      BY <1>4, <3>1, <3>2 DEF Trusted, Unread
    <3>3. CASE p \notin DOMAIN store
      BY <1>3, <1>5, <1>7, <3>1, <3>3 DEF Moves, Unplaceable
    <3> QED BY <3>2, <3>3
  <2> QED BY <2>1, <2>2, <2>3, <2>4
<1>9. \A u \in plan.uploads : u.to = p => u.data = want
  <2> TAKE u \in plan.uploads
  <2>1. PICK x \in Uploaded(store, s) : u = [to |-> x, data |-> pending[x]]
    BY <1>3
  <2>2. x \in DOMAIN pending
    BY <1>1, <2>1 DEF Uploaded, Overwritten, Staged
  <2> QED BY <1>6, <2>1, <2>2
<1> QED BY <1>4, <1>8, <1>9 DEF plan, s

LEMMA CommitPuts ==
  ASSUME RepoInv, mode = "open"
  PROVE  Puts(CommitSteps) = PlanFiles(store, PlanState(idx)).uploads
                               \cup {[to |-> d, data |-> d] : d \in {Primary(idx), Filelists(idx)}}
BY OpenFacts, DocumentsFacts DEF CommitSteps, Puts

LEMMA SoundCommit ==
  ASSUME RpmFiles, RepoInv, NoCopy, Whole, mode = "open", ~CommitRefused(idx), ~Doubtful
  PROVE  Sound(CommitSteps)
<1> DEFINE plan == PlanFiles(store, PlanState(idx))
           docs == {Primary(idx), Filelists(idx)}
           root == NewIndex(idx)
           w    == CommitSteps
<1>1. w.copies = plan.copies /\ w.swap = Swapped /\ w.retract = Retracted
  BY DEF CommitSteps
<1>2. Puts(w) = plan.uploads \cup {[to |-> d, data |-> d] : d \in docs}
  BY CommitPuts
<1>3. docs \subseteq Document /\ \A d \in docs : IsDoc(d) /\ ~IsRpm(d) /\ d \notin IndexPaths
  BY OpenFacts, DocumentsFacts, PathKinds DEF RpmFiles
<1>4. \A l \in Locations : IsRpm(l) /\ ~IsDoc(l) /\ l \notin IndexPaths
  BY PathKinds DEF RpmFiles
<1>5. /\ root \in Root /\ root.docs = docs \cup Carried
      /\ root.at = ByLocation(idx) /\ DOMAIN root.at = Range(idx)
      /\ Carried \subseteq old.docs
  BY NewIndexFacts, OpenFacts, IndexByLocation
<1>6. \A s \in Range(w.swap) : s = IndexFile(root) \/ s = SignatureFile(root)
  <2> HIDE DEF root
  <2>1. Swapped = IF opt.signed THEN <<IndexFile(root), SignatureFile(root)>> ELSE <<IndexFile(root)>>
    BY SwappedFacts DEF root
  <2> QED BY <1>1, <2>1 DEF Range
<1>7. IndexFile(root) \in Range(w.swap)
  <2> HIDE DEF root
  <2>1. Swapped = IF opt.signed THEN <<IndexFile(root), SignatureFile(root)>> ELSE <<IndexFile(root)>>
    BY SwappedFacts DEF root
  <2>2. 1 \in DOMAIN Swapped /\ Swapped[1] = IndexFile(root)
    BY <2>1
  <2> QED BY <1>1, <2>2 DEF Range
<1>8. \A u \in plan.uploads : u.to \in Locations /\ IsRpm(u.to)
  BY UploadFacts, <1>4 DEF Uploadable
<1>9. \A c \in plan.copies : c.to \in Locations /\ c.to \notin IndexPaths
  BY MoveFacts, <1>4 DEF Movable
<1>10. Retracted = <<>> \/ Retracted = <<RepomdAsc>>
  BY DEF Retracted
<1>11. SoundRetract(w)
  BY <1>1, <1>10 DEF SoundRetract, Range, RpmFiles
<1>12. SoundCopies(w)
  <2>1. ASSUME NEW c \in plan.copies PROVE c.from \in DOMAIN store
    BY DEF Doubtful, TrustJustified
  <2> QED BY <1>1, <1>9, <2>1, MoveFacts DEF SoundCopies
<1>13. SoundPuts(w)
  <2>1. ASSUME NEW u \in plan.uploads PROVE Harmless(u.to, u.data)
    <3>1. ASSUME NEW q \in Live, u.to \in DOMAIN Needs(store[q])
          PROVE  Needs(store[q])[u.to] = u.data
      <4>1. u.to \in DOMAIN store /\ ~IsDoc(u.to)
        BY <1>4, <1>8, <3>1, NamedFacts
      <4>2. u.to \in DOMAIN original /\ Needs(store[q])[u.to] = original[u.to]
        BY <3>1, <4>1, NamedFacts
      <4>3. u.to \in StagedInVain /\ u.data = pending[u.to]
        BY <4>1, UploadFacts DEF StagedInVain, Doubtful
      <4> QED BY <4>2, <4>3 DEF Doubtful, Dropped
    <3> QED BY <1>4, <1>8, <3>1 DEF Harmless
  <2>2. ASSUME NEW d \in docs PROVE Harmless(d, d)
    BY <1>3, NamedFacts DEF Harmless
  <2> QED BY <1>2, <2>1, <2>2 DEF SoundPuts
<1>14. SoundSwap(w)
  <2>1. ASSUME NEW p \in DOMAIN Needs(root)
        PROVE  LET want == Needs(root)[p] IN
               /\ \A c \in w.copies : c.to = p => store[c.from] = want
               /\ \A u \in Puts(w) : u.to = p => u.data = want
               /\ \/ \E c \in w.copies : c.to = p
                  \/ \E u \in Puts(w) : u.to = p
                  \/ p \in DOMAIN store /\ store[p] = want
    <3> HIDE DEF w, plan, docs, root
    <3>1. CASE p \in root.docs
      <4>1. Needs(root)[p] = p /\ p \in Document /\ IsDoc(p) /\ p \notin Locations
        BY <1>4, <1>5, <3>1, NeedsOfRoot, RootFields, PathKinds
      <4>2. p \in docs => \E u \in Puts(w) : u.to = p
        <5>1. p \in docs => [to |-> p, data |-> p] \in Puts(w)
          BY <1>2
        <5> QED BY <5>1
      <4>3. p \in Carried => p \in DOMAIN store /\ store[p] = p
        <5>1. SUFFICES ASSUME p \in Carried PROVE p \in DOMAIN store /\ store[p] = p
          OBVIOUS
        <5>2. old # NoIndex
          BY <1>5, <5>1 DEF NoIndex
        <5>3. Repomd \in Live /\ old = store[Repomd] /\ old \in Root
          BY <5>2, OpenFacts DEF Live, RpmFiles
        <5>4. p \in old.docs
          BY <1>5, <5>1
        <5>5. p \in DOMAIN Needs(old) /\ Needs(old)[p] = p
          BY <5>3, <5>4, NeedsOfRoot
        <5> QED BY <5>3, <5>5 DEF Whole, Complete
      <4> QED BY <1>1, <1>2, <1>5, <1>8, <1>9, <3>1, <4>1, <4>2, <4>3
    <3>2. CASE p \in DOMAIN root.at
      <4>1. p \in Range(idx) /\ Needs(root)[p] = ByLocation(idx)[p] /\ IsRpm(p)
        <5>1. root \in Root /\ root.at = ByLocation(idx) /\ DOMAIN root.at = Range(idx)
          BY <1>5
        <5>2. Needs(root)[p] = root.at[p]
          BY <3>2, <5>1, NeedsOfRoot
        <5>3. Range(idx) \subseteq Locations
          BY OpenFacts
        <5> QED BY <1>4, <3>2, <5>1, <5>2, <5>3
      <4>2. \A d \in docs : d # p
        BY <1>3, <4>1
      <4>3. /\ \A c \in plan.copies : c.to = p => store[c.from] = ByLocation(idx)[p]
            /\ \A u \in plan.uploads : u.to = p => u.data = ByLocation(idx)[p]
            /\ \/ \E c \in plan.copies : c.to = p
               \/ \E u \in plan.uploads : u.to = p
               \/ p \in DOMAIN store /\ store[p] = ByLocation(idx)[p]
        BY <4>1, PlacedFacts DEF plan
      <4> QED BY <1>1, <1>2, <4>1, <4>2, <4>3
    <3> QED BY <1>5, <3>1, <3>2, NeedsOfRoot
  <2>2. DOMAIN Needs(SignatureFile(root).data) = {} /\ SignatureFile(root).to \in IndexPaths
    BY NeedsOfSignature DEF SignatureFile, IsSignature, Signature, RpmFiles
  <2>3. IndexFile(root).data = root /\ IndexFile(root).to \in IndexPaths
    BY DEF IndexFile, RpmFiles
  <2> HIDE DEF w, root
  <2> QED BY <1>6, <2>1, <2>2, <2>3 DEF SoundSwap
<1>15. SoundGC(w)
  <2> SUFFICES ASSUME NEW p \in UNION Range(w.gc)
               PROVE  /\ p \notin IndexPaths
                      /\ \A s \in Range(w.swap) : p \notin DOMAIN Needs(s.data)
                      /\ \A q \in Live : p \in DOMAIN Needs(store[q]) =>
                           q \in {s.to : s \in Range(w.swap)}
    BY DEF SoundGC
  <2>1. /\ \/ IsRpm(p) /\ p \notin Range(idx)
           \/ IsDoc(p) /\ p \notin root.docs
        /\ p \notin IndexPaths
    BY CollectFacts DEF RpmFiles
  <2> HIDE DEF w, root, docs
  <2>2. p \notin DOMAIN Needs(root)
    <3>1. DOMAIN Needs(root) = root.docs \cup Range(idx) /\ root.docs \subseteq Document
      BY <1>5, NeedsOfRoot, RootFields
    <3> QED BY <1>4, <2>1, <3>1, OpenFacts, PathKinds
  <2>3. \A s \in Range(w.swap) : p \notin DOMAIN Needs(s.data)
    BY <1>6, <2>2, NeedsOfSignature DEF SignatureFile, IndexFile, IsSignature, Signature
  <2>4. ASSUME NEW q \in Live, p \in DOMAIN Needs(store[q])
        PROVE  q \in {s.to : s \in Range(w.swap)}
    <3>1. q = Repomd
      BY <2>4, LiveFacts
    <3> QED BY <1>7, <3>1 DEF IndexFile
  <2> QED BY <2>1, <2>3, <2>4
<1> QED BY <1>11, <1>12, <1>13, <1>14, <1>15 DEF Sound

\* No step of a session but Commit gives Execute anything to do, and Execute
\* does soundly what is sound.
LEMMA StepUndisturbed ==
  ASSUME RpmFiles, RepoInv, NoCopy, [Next]_rpmVars, Whole, Sound(work)
  PROVE  Whole' /\ (Sound(work)' \/ (Commit /\ Doubtful))
<1>1. ASSUME UNCHANGED <<store, work>> PROVE Whole' /\ Sound(work)'
  BY <1>1 DEF Whole, Live, Complete, Sound, SoundCopies, SoundPuts, Puts, Harmless, SoundSwap,
              SoundRetract, SoundGC
<1>2. ASSUME UNCHANGED store PROVE Whole' /\ (Sound(work') => Sound(work)')
  BY <1>2 DEF Whole, Live, Complete, Sound, SoundCopies, SoundPuts, Puts, Harmless, SoundSwap,
              SoundRetract, SoundGC
<1>3. CASE Commit
  <2>1. mode = "open" /\ ~CommitRefused(idx) /\ work' = CommitSteps /\ UNCHANGED store
    BY <1>3 DEF Commit
  <2>2. CASE Doubtful
    BY <1>2, <1>3, <2>1, <2>2
  <2>3. CASE ~Doubtful
    BY <1>2, <2>1, <2>3, SoundCommit
  <2> QED BY <2>2, <2>3
<1>4. CASE Publishing \/ CutShort
  <2>1. work \in Shape(Movable, Uploadable, Describable, Swappable, {RepomdAsc}, Doomed)
    BY DEF RepoInv, WorkInv, RpmShape
  <2>2. Step \/ Stop \/ StopInCopy
    BY <1>4 DEF Publishing, CutShort
  <2>3. Whole' /\ StaysSound'
    BY <2>1, <2>2, RpmApart, ExecuteSound DEF StaysSound
  <2> QED BY <2>3 DEF StaysSound
<1>5. CASE Open \/ Mutate \/ Abandon \/ Finish \/ UNCHANGED rpmVars
  BY <1>1, <1>5 DEF Open, Mutate, AddRPM, RemoveNEVRA, PruneOlderVersions, RelocateAll, ResignAll,
                    Refresh, Call, Abandon, Finish, rpmVars
<1> QED BY <1>3, <1>4, <1>5 DEF Next

\* A publish disturbs no client, wherever it stops, unless it was doubtful when it
\* began: for every set of packages, every repository found, and every sequence
\* of sessions on it.
THEOREM RpmUndisturbed ==
  ASSUME RpmFiles
  PROVE  Spec => UndisturbedIfTrusted
<1>1. RepoInv /\ NoCopy /\ [Next]_rpmVars => (Whole /\ Sound(work) => Whole' /\ (Sound(work)' \/ (Commit /\ Doubtful)))
  BY StepUndisturbed
<1> QED BY <1>1, SpecInv, PTL DEF Spec, UndisturbedIfTrusted

\* So clients always read a whole repository where none was doubtful and the one
\* found was whole.
THEOREM RpmAlwaysWhole ==
  ASSUME RpmFiles
  PROVE  Spec /\ Whole /\ [][Commit => ~Doubtful]_rpmVars => []Whole
<1>1. Init => Sound(work)
  BY IdleSound DEF Init, StaysSound
<1>2. RepoInv /\ NoCopy /\ Whole /\ Sound(work) /\ [Next]_rpmVars /\ [Commit => ~Doubtful]_rpmVars
        => Whole' /\ Sound(work)'
  <2> SUFFICES ASSUME RepoInv, NoCopy, Whole, Sound(work), [Next]_rpmVars, [Commit => ~Doubtful]_rpmVars
               PROVE  Whole' /\ Sound(work)'
    OBVIOUS
  <2>1. Commit => mode' # mode
    BY DEF Commit
  <2>2. ~(Commit /\ Doubtful)
    BY <2>1 DEF rpmVars
  <2> QED BY <2>2, StepUndisturbed
<1> QED BY <1>1, <1>2, SpecInv, PTL DEF Spec

\* A publish that ends leaves the signature of the index it published, or none.
THEOREM RpmSignatureCurrent == Spec => SignatureCurrent
<1>1. RepoInv /\ Finish =>
        IF opt.signed
        THEN RepomdAsc \in DOMAIN store /\ store[RepomdAsc].signs = store[Repomd]
        ELSE RepomdAsc \notin DOMAIN store
  <2> SUFFICES ASSUME RepoInv, Finish
               PROVE  IF opt.signed
                      THEN RepomdAsc \in DOMAIN store /\ store[RepomdAsc].signs = store[Repomd]
                      ELSE RepomdAsc \notin DOMAIN store
    OBVIOUS
  <2>1. mode = "publishing" /\ work.swap = <<>> /\ work.retract = <<>>
    BY DEF Finish, NoSteps
  <2>2. \A a, b : <<>> # <<a, b>> /\ <<>> # <<a>>
    OBVIOUS
  <2> QED BY <2>1, <2>2 DEF RepoInv, SignatureInv
<1> QED BY <1>1, SpecInv, PTL DEF Spec, SignatureCurrent

\* A refresh takes no file out of the index, and leaves no entry that is not true
\* of its file without one of the two reasons.
THEOREM RpmRefreshTrue == Spec => RefreshTrue
<1>1. RepoInv /\ Refresh =>
        /\ Range(idx') = Range(idx)
        /\ \A r \in DOMAIN idx' :
             \/ TrueOf(idx', r)
             \/ idx[r] = idx'[r] /\ ( \/ idx[r] \notin DOMAIN store
                                     \/ store[idx[r]] \in DOMAIN idx \cup DOMAIN idx' \cup {Partial})
  BY RefreshedFacts DEF Refresh, RepoInv, SessionTyped, LeftAlone
<1> QED BY <1>1, SpecInv, PTL DEF Spec, RefreshTrue

\* An analysis changes nothing that a session that is given up does not, so a
\* takeover is such a session: whatever holds of every session holds beside it.
THEOREM TakeoverImplements == TakeoverSpec => Spec
<1>1. TakeoverInit => Init
  BY DEF TakeoverInit
<1>2. [TakeoverNext]_takeoverVars => [Next]_rpmVars
  <2>1. ASSUME NEW f \in TakeoverFlags, Analyze(f) PROVE Abandon
    BY <2>1 DEF Analyze, Abandon
  <2>2. UNCHANGED takeoverVars => UNCHANGED rpmVars
    BY DEF takeoverVars
  <2> QED BY <2>1, <2>2 DEF TakeoverNext, CommitForeseen, EndPublish, Next
<1> QED BY <1>1, <1>2, PTL DEF TakeoverSpec, Spec

----------------------------------------------------------------------------
(* A re-signing: once everything is staged, everything is written.         *)

\* No process is started with --force: what forces is a re-signing.
Unforced == \A u \in Uses : \A o \in u.options : ~o.force

NewDocuments == {Primary(idx), Filelists(idx)}

\* The index that is being published.
Target == [rev |-> clock, docs |-> NewDocuments \cup Carried, at |-> ByLocation(idx)]

\* p is about to hold c, or does.
Arriving(p, c) ==
  /\ \A u \in Puts(work) : u.to = p => u.data = c
  /\ \/ \E u \in Puts(work) : u.to = p
     \/ p \in DOMAIN store /\ store[p] = c

\* The same of what is swapped in.
SwapArriving(q, c) ==
  /\ \A s \in Range(work.swap) : s.to = q => s.data = c
  /\ (\E s \in Range(work.swap) : s.to = q) \/ (q \in DOMAIN store /\ store[q] = c)

AllStaged ==
  calls # 0 /\ \A r \in DOMAIN idx : idx[r] \in DOMAIN pending /\ (r \in Mistaken \/ pending[idx[r]] = r)

\* What is new of a publish that moves nothing, the packages at P among it.
ArrivingAt(P) ==
  /\ work.copies = {}
  /\ Doomed \cap (Range(idx) \cup NewDocuments) = {}
  /\ SwapArriving(Repomd, Target)
  /\ \A p \in P : Arriving(p, ByLocation(idx)[p])
  /\ \A d \in NewDocuments : Arriving(d, d)

\* Where the entries are that were not taken for mistaken.
Resigned == {p \in Range(idx) : ByLocation(idx)[p] \notin Mistaken}

AllArriving == ArrivingAt(Resigned)

ForcedInv ==
  opt.force => /\ mode = "open" => AllStaged
               /\ mode = "publishing" => AllArriving

LEMMA SetStaged ==
  ASSUME RepoInv, mode = "open", Unforced, opt.force => AllStaged, opt'.force, Mutate
  PROVE  AllStaged'
<1>1. calls \in Nat /\ opt \in Options /\ Loaded(idx, pending, opt)
  BY LoadedFacts DEF RepoInv, SessionTyped, SessionInv
<1>2. calls' = calls + 1 /\ calls' # 0
  <2>1. \E name : Call(name)
    BY DEF Mutate, AddRPM, RemoveNEVRA, PruneOlderVersions, RelocateAll, ResignAll, Refresh
  <2>2. calls' = calls + 1
    BY <2>1 DEF Call
  <2> QED BY <1>1, <2>2
<1>3. ASSUME NEW r \in Rpms, AddRPM(r) PROVE AllStaged'
  <2>1. AllStaged
    BY <1>3 DEF AddRPM
  <2> DEFINE loc == Location(opt.prefix, r)
  <2>2. PICK gone :
          LET left  == Without(idx, SameNEVRA(r) \cup gone)
              taken == \E x \in DOMAIN left : left[x] = loc
          IN  /\ idx' = IF taken THEN left
                        ELSE [x \in DOMAIN left \cup {r} |-> IF x = r THEN loc ELSE left[x]]
              /\ pending' = IF taken THEN pending
                            ELSE [l \in DOMAIN pending \cup {loc} |->
                                    IF l = loc THEN r ELSE pending[l]]
    BY <1>3 DEF AddRPM
  <2> DEFINE left  == Without(idx, SameNEVRA(r) \cup gone)
             taken == \E x \in DOMAIN left : left[x] = loc
  <2>3. DOMAIN left \subseteq DOMAIN idx /\ \A x \in DOMAIN left : left[x] = idx[x]
    BY DEF Without
  <2>4. \A x \in DOMAIN left :
          left[x] \in DOMAIN pending /\ (pending[left[x]] \notin Builds(x) \/ pending[left[x]] = x)
    BY <2>1, <2>3 DEF AllStaged, Mistaken
  <2>5. CASE taken
    BY <1>2, <2>2, <2>4, <2>5 DEF AllStaged, Mistaken
  <2>6. CASE ~taken
    <3>1. /\ idx' = [x \in DOMAIN left \cup {r} |-> IF x = r THEN loc ELSE left[x]]
          /\ pending' = [l \in DOMAIN pending \cup {loc} |-> IF l = loc THEN r ELSE pending[l]]
      BY <2>2, <2>6
    <3>2. \A x \in DOMAIN left : left[x] # loc
      BY <2>6
    <3>3. DOMAIN idx' = DOMAIN left \cup {r} /\ DOMAIN pending' = DOMAIN pending \cup {loc}
      BY <3>1
    <3> HIDE DEF left, loc
    <3>4. ASSUME NEW x \in DOMAIN idx'
          PROVE  /\ idx'[x] \in DOMAIN pending'
                 /\ pending'[idx'[x]] \notin Builds(x) \/ pending'[idx'[x]] = x
      BY <2>4, <3>1, <3>2, <3>3, <3>4
    <3> QED BY <1>2, <3>4 DEF AllStaged, Mistaken
  <2> QED BY <2>5, <2>6
<1>4. ASSUME NEW r \in Rpms, RemoveNEVRA(r) PROVE AllStaged'
  <2>1. AllStaged /\ pending' = pending /\ idx' = Without(idx, SameNEVRA(r))
    BY <1>4 DEF RemoveNEVRA
  <2>2. DOMAIN idx' \subseteq DOMAIN idx /\ \A x \in DOMAIN idx' : idx'[x] = idx[x]
    BY <2>1 DEF Without
  <2> QED BY <1>2, <2>1, <2>2 DEF AllStaged, Mistaken
<1>5. CASE PruneOlderVersions \/ \E dir \in Dirs : RelocateAll(dir)
  BY <1>5 DEF PruneOlderVersions, RelocateAll
<1>6. CASE Refresh
  BY <1>6 DEF Refresh, AllStaged
<1>7. CASE ResignAll
  <2> DEFINE fresh(l) == Signed(store[l])
  <2>1. PICK last \in SUBSET Range(idx) :
          LET missed == {r \in DOMAIN idx : \A l \in Range(idx) : store[l] \notin Builds(r)}
              put    == AntiFunction([l \in last |-> fresh(l)])
          IN  /\ idx' = [r \in missed \cup DOMAIN put |-> IF r \in missed THEN idx[r] ELSE put[r]]
              /\ pending' = [l \in DOMAIN pending \cup Range(idx) |->
                               IF l \in Range(idx) THEN fresh(l) ELSE pending[l]]
    BY <1>7 DEF ResignAll
  <2> DEFINE missed == {r \in DOMAIN idx : \A l \in Range(idx) : store[l] \notin Builds(r)}
             f      == [l \in last |-> fresh(l)]
  <2>2. DOMAIN f = last /\ \A l \in last : f[l] = fresh(l)
    OBVIOUS
  <2>3. \A l \in Range(idx) : store[l] \in Rpms /\ fresh(l) \in Builds(store[l])
    BY <1>7, PackageAssumption DEF ResignAll
  <2>4. ASSUME NEW r \in missed
        PROVE  idx[r] \in Range(idx) /\ fresh(idx[r]) \notin Builds(r)
    <3>1. idx[r] \in Range(idx)
      BY DEF Range
    <3>2. fresh(idx[r]) \in Builds(store[idx[r]]) /\ store[idx[r]] \in Rpms
      BY <2>3, <3>1
    <3>3. store[idx[r]] \notin Builds(r)
      BY <3>1
    <3> HIDE DEF fresh
    <3> QED BY <3>1, <3>2, <3>3 DEF Builds
  <2> HIDE DEF fresh, f
  <2>5. ASSUME NEW r \in DOMAIN idx'
        PROVE  idx'[r] \in DOMAIN pending' /\ (r \in Mistaken' \/ pending'[idx'[r]] = r)
    <3>1. CASE r \in missed
      <4>1. idx'[r] = idx[r] /\ idx[r] \in Range(idx)
        BY <2>1, <2>4, <3>1
      <4>2. idx[r] \in DOMAIN pending' /\ pending'[idx[r]] = fresh(idx[r])
        BY <2>1, <4>1
      <4> HIDE DEF missed
      <4> QED BY <2>4, <3>1, <4>1, <4>2 DEF Mistaken
    <3>2. CASE r \notin missed
      <4>1. r \in DOMAIN AntiFunction(f) /\ idx'[r] = AntiFunction(f)[r]
        BY <2>1, <3>2 DEF f
      <4>2. idx'[r] \in last /\ f[idx'[r]] = r
        BY <2>2, <4>1, AntiFunctionFacts
      <4>3. pending'[idx'[r]] = fresh(idx'[r]) /\ idx'[r] \in DOMAIN pending'
        BY <2>1, <4>2
      <4> QED BY <2>2, <4>2, <4>3
    <3> QED BY <3>1, <3>2
  <2> QED BY <1>2, <2>5 DEF AllStaged
<1> QED BY <1>3, <1>4, <1>5, <1>6, <1>7 DEF Mutate

LEMMA CommitSwap ==
  ASSUME RepoInv, Commit
  PROVE  /\ SwapArriving(Repomd, Target)'
         /\ opt.signed => SwapArriving(RepomdAsc, Signature(Signer, Target))'
<1> DEFINE root == NewIndex(idx)
<1>1. /\ mode = "open" /\ work' = CommitSteps /\ store' = store /\ clock' = clock + 1
      /\ idx' = idx /\ old' = old /\ replaced' = replaced
  BY DEF Commit, session
<1>2. root = [rev |-> clock + 1, docs |-> NewDocuments \cup Carried, at |-> ByLocation(idx)]
  BY <1>1, OpenFacts, DocumentsFacts DEF NewIndex, NewDocuments
<1>3. Target' = root
  BY <1>1, <1>2 DEF Target, NewDocuments, Carried
<1> HIDE DEF root
<1>4. CommitSteps.swap = IF opt.signed THEN <<IndexFile(root), SignatureFile(root)>> ELSE <<IndexFile(root)>>
  BY SwappedFacts DEF CommitSteps, root
<1>5. /\ IndexFile(root).to = Repomd /\ IndexFile(root).data = root
      /\ SignatureFile(root).to = RepomdAsc /\ SignatureFile(root).data = Signature(Signer, root)
      /\ Repomd # RepomdAsc
  BY PathKinds DEF IndexFile, SignatureFile
<1>6. /\ 1 \in DOMAIN CommitSteps.swap /\ CommitSteps.swap[1] = IndexFile(root)
      /\ opt.signed => 2 \in DOMAIN CommitSteps.swap /\ CommitSteps.swap[2] = SignatureFile(root)
  BY <1>4
<1>7. \A t \in Range(CommitSteps.swap) : t \in {IndexFile(root), SignatureFile(root)}
  BY <1>4 DEF Range
<1>8. IndexFile(root) \in Range(CommitSteps.swap) /\ (opt.signed => SignatureFile(root) \in Range(CommitSteps.swap))
  BY <1>6 DEF Range
<1> QED BY <1>1, <1>3, <1>5, <1>7, <1>8 DEF SwapArriving

\* What a commit has to show of the packages at P.
LEMMA CommitArriving ==
  ASSUME RepoInv, Commit, CommitSteps.copies = {}, NEW P, P \subseteq Range(idx),
         \A p \in P :
           LET ups == {u \in PlanFiles(store, PlanState(idx)).uploads : u.to = p} IN
           /\ \A u \in ups : u.data = ByLocation(idx)[p]
           /\ ups # {} \/ (p \in DOMAIN store /\ store[p] = ByLocation(idx)[p])
  PROVE  ArrivingAt(P)'
<1> DEFINE uploads == PlanFiles(store, PlanState(idx)).uploads
           root    == NewIndex(idx)
<1>1. /\ mode = "open" /\ work' = CommitSteps /\ store' = store /\ clock' = clock + 1
      /\ idx' = idx /\ old' = old /\ replaced' = replaced
  BY DEF Commit, session
<1>2. Puts(CommitSteps) = uploads \cup {[to |-> d, data |-> d] : d \in NewDocuments}
  BY <1>1, CommitPuts DEF NewDocuments
<1>3. /\ \A p \in Range(idx) : p \in Locations /\ p \notin NewDocuments
      /\ \A d \in NewDocuments : d \notin Locations
      /\ \A u \in uploads : u.to \in Locations
  BY <1>1, OpenFacts, DocumentsFacts, UploadFacts, PathKinds DEF NewDocuments, Uploadable
<1>4. ASSUME NEW p \in P
      PROVE  /\ \A u \in uploads : u.to = p => u.data = ByLocation(idx)[p]
             /\ (\E u \in uploads : u.to = p) \/ (p \in DOMAIN store /\ store[p] = ByLocation(idx)[p])
  OBVIOUS
<1> HIDE DEF uploads
<1>5. \A p \in P : Arriving(p, ByLocation(idx)[p])'
  <2> TAKE p \in P
  <2>1. \A u \in Puts(CommitSteps) : u.to = p => u \in uploads
    BY <1>2, <1>3
  <2>2. uploads \subseteq Puts(CommitSteps)
    BY <1>2
  <2> QED BY <1>1, <1>4, <2>1, <2>2 DEF Arriving
<1>6. NewDocuments' = NewDocuments
  BY <1>1 DEF NewDocuments
<1>7. \A d \in NewDocuments : Arriving(d, d)'
  <2> TAKE d \in NewDocuments
  <2>1. [to |-> d, data |-> d] \in Puts(CommitSteps)
    BY <1>2
  <2>2. \A u \in Puts(CommitSteps) : u.to = d => u.data = d
    BY <1>2, <1>3
  <2> QED BY <1>1, <2>1, <2>2 DEF Arriving
<1>8. \A p \in UNION Range(CommitSteps.gc) : p \notin Range(idx) \cup NewDocuments
  <2> TAKE p \in UNION Range(CommitSteps.gc)
  <2>1. \/ IsRpm(p) /\ p \notin Range(idx)
        \/ IsDoc(p) /\ p \notin root.docs
    BY <1>1, CollectFacts
  <2>2. NewDocuments \subseteq root.docs /\ NewDocuments \subseteq Document
    BY <1>1, NewIndexFacts, OpenFacts, DocumentsFacts DEF NewDocuments
  <2> QED BY <1>3, <2>1, <2>2, PathKinds
<1>9. Doomed' \cap (Range(idx') \cup NewDocuments') = {}
  BY <1>1, <1>6, <1>8 DEF Doomed
<1>10. SwapArriving(Repomd, Target)'
  BY CommitSwap
<1> QED BY <1>1, <1>5, <1>6, <1>7, <1>9, <1>10 DEF ArrivingAt

LEMMA SetArriving ==
  ASSUME RepoInv, opt.force, AllStaged, Commit
  PROVE  AllArriving'
<1> DEFINE s    == PlanState(idx)
           plan == PlanFiles(store, s)
<1>1. mode = "open" /\ idx' = idx /\ pending' = pending
  BY DEF Commit, session
<1>2. /\ s.referenced = ByLocation(idx) /\ s.pending = pending /\ s.force
      /\ DOMAIN ByLocation(idx) = Range(idx)
  BY <1>1, OpenFacts, IndexByLocation DEF PlanState
<1>3. \A p \in Range(idx) : p \in DOMAIN pending /\ (p \in Resigned => pending[p] = ByLocation(idx)[p])
  <2> TAKE p \in Range(idx)
  <2>1. ByLocation(idx)[p] \in DOMAIN idx /\ idx[ByLocation(idx)[p]] = p
    BY <1>1, OpenFacts, IndexByLocation
  <2> QED BY <2>1 DEF AllStaged, Resigned
<1>4. plan.uploads = {[to |-> p, data |-> pending[p]] : p \in Uploaded(store, s)}
  BY <1>2 DEF PlanFiles
<1>5. plan.copies = {Relocation(s, p) : p \in StagedMoves(store, s) \cup Moves(store, s)}
  BY DEF PlanFiles
<1> HIDE DEF s
<1>6. StagedMoves(store, s) = {} /\ Moves(store, s) = {}
  BY <1>2, <1>3 DEF StagedMoves, Moves, Unstaged, Staged
<1>7. CommitSteps.copies = {}
  BY <1>5, <1>6 DEF CommitSteps, s
<1>8. Range(idx) \subseteq Uploaded(store, s)
  BY <1>2, <1>3, <1>6 DEF Uploaded, Overwritten, Staged
<1> HIDE DEF plan
<1>9. \A p \in Resigned :
        LET ups == {u \in plan.uploads : u.to = p} IN
        /\ \A u \in ups : u.data = ByLocation(idx)[p]
        /\ ups # {}
  <2> TAKE p \in Resigned
  <2>0. p \in Range(idx)
    BY DEF Resigned
  <2>1. [to |-> p, data |-> pending[p]] \in plan.uploads
    BY <1>4, <1>8, <2>0
  <2>2. \A u \in plan.uploads : u.to = p => u.data = pending[p]
    BY <1>4
  <2> QED BY <1>3, <2>0, <2>1, <2>2
<1>10. PICK P : P = Resigned
  OBVIOUS
<1>11. P \subseteq Range(idx)
  BY <1>10 DEF Resigned
<1>12. ArrivingAt(P)'
  BY <1>7, <1>9, <1>10, <1>11, CommitArriving DEF plan, s
<1>13. Resigned' = Resigned
  BY <1>1 DEF Resigned, Mistaken
<1> QED BY <1>10, <1>12, <1>13 DEF AllArriving

\* A file that is about to hold c, or does, is not touched by anything else.
LEMMA ArrivingKept ==
  ASSUME RepoInv, Publishing, NEW p, NEW c, Arriving(p, c),
         p \notin {Repomd, RepomdAsc} \cup Doomed, \A d \in work.copies : d.to # p
  PROVE  Arriving(p, c)'
<1>1. work \in Shape(Movable, Uploadable, Describable, Swappable, {RepomdAsc}, Doomed)
  BY DEF RepoInv, WorkInv, RpmShape
<1>2. Step
  BY DEF Publishing
<1>3. ASSUME NEW u \in Puts(work), StorePut(u.to, u.data),
             Puts(work') \subseteq Puts(work), Puts(work) \subseteq {u} \cup Puts(work')
      PROVE  Arriving(p, c)'
  <2>1. /\ DOMAIN store' = DOMAIN store \cup {u.to} /\ store'[u.to] = u.data
        /\ \A q \in DOMAIN store : q # u.to => store'[q] = store[q]
    BY <1>3, PutFacts
  <2> QED BY <1>3, <2>1 DEF Arriving
<1>4. ASSUME Puts(work) = {}, Puts(work') = {},
             p \in DOMAIN store => p \in DOMAIN store' /\ store'[p] = store[p]
      PROVE  Arriving(p, c)'
  BY <1>4 DEF Arriving
<1>5. CASE UploadOne
  <2>1. PICK u \in work.uploads : StorePut(u.to, u.data) /\ work'.uploads = work.uploads \ {u}
    BY <1>1, <1>5, UploadOneFields
  <2>2. work'.metadata = work.metadata
    BY <1>1, <1>5, UploadOneFields
  <2>3. u \in Puts(work) /\ Puts(work') \subseteq Puts(work) /\ Puts(work) \subseteq {u} \cup Puts(work')
    BY <2>1, <2>2 DEF Puts
  <2> QED BY <1>3, <2>1, <2>3
<1>6. CASE WriteMetadata
  <2> DEFINE u == Head(work.metadata)
  <2>1. /\ work.uploads = {} /\ work'.uploads = {} /\ u \in Range(work.metadata)
        /\ StorePut(u.to, u.data)
        /\ Range(work'.metadata) \subseteq Range(work.metadata)
        /\ Range(work.metadata) \subseteq {u} \cup Range(work'.metadata)
    BY <1>1, <1>6, WriteMetadataFields
  <2> HIDE DEF u
  <2>2. u \in Puts(work) /\ Puts(work') \subseteq Puts(work) /\ Puts(work) \subseteq {u} \cup Puts(work')
    BY <2>1 DEF Puts
  <2> QED BY <1>3, <2>1, <2>2
<1>7. CASE SwapOne
  <2> DEFINE s == Head(work.swap)
  <2>1. Puts(work) = {} /\ Puts(work') = {} /\ StorePut(s.to, s.data) /\ s \in Swappable
    BY <1>1, <1>7, SwapOneFields
  <2> HIDE DEF s
  <2>2. s.to \in {Repomd, RepomdAsc}
    BY <2>1 DEF Swappable, IndexFile, SignatureFile
  <2>3. DOMAIN store' = DOMAIN store \cup {s.to} /\ \A q \in DOMAIN store : q # s.to => store'[q] = store[q]
    BY <2>1, PutFacts
  <2> QED BY <1>4, <2>1, <2>2, <2>3
<1>8. CASE RetractOne
  <2> DEFINE h == Head(work.retract)
  <2>1. Puts(work) = {} /\ Puts(work') = {} /\ StoreDelete(h) /\ h \in {RepomdAsc}
    BY <1>1, <1>8, RetractOneFields
  <2> HIDE DEF h
  <2>2. DOMAIN store' = DOMAIN store \ {h} /\ \A q \in DOMAIN store' : store'[q] = store[q]
    BY <2>1, DeleteFacts
  <2> QED BY <1>4, <2>1, <2>2
<1>9. CASE CollectOne
  <2>1. /\ Puts(work) = {} /\ Puts(work') = {}
        /\ UNCHANGED store \/ \E q \in Doomed : StoreDelete(q)
    BY <1>1, <1>9, CollectOneFields DEF Doomed
  <2>2. CASE UNCHANGED store
    BY <1>4, <2>1, <2>2
  <2>3. ASSUME NEW q \in Doomed, StoreDelete(q) PROVE Arriving(p, c)'
    <3>1. DOMAIN store' = DOMAIN store \ {q} /\ \A x \in DOMAIN store' : store'[x] = store[x]
      BY <2>3, DeleteFacts
    <3> QED BY <1>4, <2>1, <3>1
  <2> QED BY <2>1, <2>2, <2>3
<1>10. CASE CopyOne
  <2>1. PICK c0 \in work.copies : StorePut(c0.to, store[c0.from])
    BY <1>1, <1>10, CopyOneFields
  <2>2. Puts(work') = Puts(work)
    BY <1>1, <1>10, CopyOneFields DEF Puts
  <2>3. c0.to # p
    BY <1>1, <2>1
  <2>4. DOMAIN store' = DOMAIN store \cup {c0.to} /\ \A q \in DOMAIN store : q # c0.to => store'[q] = store[q]
    BY <2>1, PutFacts
  <2> QED BY <2>2, <2>3, <2>4 DEF Arriving
<1> QED BY <1>2, <1>10, <1>5, <1>6, <1>7, <1>8, <1>9 DEF Step

LEMMA SwapArrivingKept ==
  ASSUME RepoInv, Publishing, NEW q \in {Repomd, RepomdAsc}, NEW c, SwapArriving(q, c),
         q = RepomdAsc => work.retract = <<>>
  PROVE  SwapArriving(q, c)'
<1>1. work \in Shape(Movable, Uploadable, Describable, Swappable, {RepomdAsc}, Doomed)
  BY DEF RepoInv, WorkInv, RpmShape
<1>2. Step
  BY DEF Publishing
<1>3. ASSUME work'.swap = work.swap,
             q \in DOMAIN store => q \in DOMAIN store' /\ store'[q] = store[q]
      PROVE  SwapArriving(q, c)'
  BY <1>3 DEF SwapArriving
<1>4. ASSUME NEW p, NEW d, StorePut(p, d), p # q
      PROVE  q \in DOMAIN store => q \in DOMAIN store' /\ store'[q] = store[q]
  BY <1>4, PutFacts
<1>5. ASSUME NEW p, StoreDelete(p), p # q
      PROVE  q \in DOMAIN store => q \in DOMAIN store' /\ store'[q] = store[q]
  BY <1>5, DeleteFacts
<1>6. CASE UploadOne
  <2>1. PICK u \in work.uploads : u \in Uploadable /\ StorePut(u.to, u.data)
    BY <1>1, <1>6, UploadOneFields
  <2>2. work'.swap = work.swap /\ u.to \notin {Repomd, RepomdAsc}
    BY <1>1, <1>6, <2>1, UploadOneFields, PathKinds DEF Uploadable
  <2> QED BY <1>3, <1>4, <2>1, <2>2
<1>7. CASE WriteMetadata
  <2> DEFINE u == Head(work.metadata)
  <2>1. u \in Describable /\ StorePut(u.to, u.data) /\ work'.swap = work.swap
    BY <1>1, <1>7, WriteMetadataFields
  <2> HIDE DEF u
  <2>2. u.to \notin {Repomd, RepomdAsc}
    BY <2>1, PathKinds DEF Describable
  <2> QED BY <1>3, <1>4, <2>1, <2>2
<1>8. CASE SwapOne
  <2> DEFINE s == Head(work.swap)
  <2>1. /\ s \in Range(work.swap) /\ StorePut(s.to, s.data)
        /\ Range(work'.swap) \subseteq Range(work.swap)
        /\ Range(work.swap) \subseteq {s} \cup Range(work'.swap)
    BY <1>1, <1>8, SwapOneFields
  <2> HIDE DEF s
  <2>2. /\ DOMAIN store' = DOMAIN store \cup {s.to} /\ store'[s.to] = s.data
        /\ \A x \in DOMAIN store : x # s.to => store'[x] = store[x]
    BY <2>1, PutFacts
  <2>3. CASE s.to = q
    BY <2>1, <2>2, <2>3 DEF SwapArriving
  <2>4. CASE s.to # q
    BY <2>1, <2>2, <2>4 DEF SwapArriving
  <2> QED BY <2>3, <2>4
<1>9. CASE RetractOne
  <2> DEFINE h == Head(work.retract)
  <2>1. StoreDelete(h) /\ h \in {RepomdAsc} /\ work.swap = <<>> /\ work'.swap = <<>>
    BY <1>1, <1>9, RetractOneFields
  <2>2. work.retract # <<>>
    BY <1>1, <1>9, RetractOneFields
  <2> HIDE DEF h
  <2>3. h # q
    BY <2>1, <2>2, PathKinds
  <2> QED BY <1>3, <1>5, <2>1, <2>3
<1>10. CASE CollectOne
  <2>1. /\ work'.swap = work.swap
        /\ UNCHANGED store \/ \E x \in Doomed : StoreDelete(x)
    BY <1>1, <1>10, CollectOneFields DEF Doomed
  <2>2. \A x \in Doomed : x # q
    BY DEF RepoInv, WorkInv
  <2>3. CASE UNCHANGED store
    BY <1>3, <2>1, <2>3
  <2> QED BY <1>3, <1>5, <2>1, <2>2, <2>3
<1>11. CASE CopyOne
  <2>1. PICK d \in work.copies : d \in Movable /\ StorePut(d.to, store[d.from])
    BY <1>1, <1>11, CopyOneFields
  <2>2. work'.swap = work.swap /\ d.to \notin {Repomd, RepomdAsc}
    BY <1>1, <1>11, <2>1, CopyOneFields, PathKinds DEF Movable
  <2> QED BY <1>3, <1>4, <2>1, <2>2
<1> QED BY <1>2, <1>11, <1>6, <1>7, <1>8, <1>9, <1>10 DEF Step

LEMMA KeepArriving ==
  ASSUME RepoInv, Publishing, NEW P, P \subseteq Range(idx), ArrivingAt(P)
  PROVE  ArrivingAt(P)'
<1>1. /\ mode = "publishing" /\ Step /\ idx' = idx /\ old' = old /\ replaced' = replaced
      /\ clock' = clock
  BY DEF Publishing, session
<1>2. work \in Shape(Movable, Uploadable, Describable, Swappable, {RepomdAsc}, Doomed)
  BY DEF RepoInv, WorkInv, RpmShape
<1>3. work.copies = {} /\ ~CopyOne
  BY DEF ArrivingAt, CopyOne, Placing
<1>4. Target' = Target /\ NewDocuments' = NewDocuments
  BY <1>1 DEF Target, NewDocuments, Carried
<1>5. \A p \in Range(idx) \cup NewDocuments :
        p \notin {Repomd, RepomdAsc} /\ p \notin Doomed
  <2>1. idx \in Indexes
    BY DEF RepoInv, SessionTyped
  <2>2. Range(idx) \subseteq Locations /\ NewDocuments \subseteq Document
    BY <2>1, IndexesDef, DocumentsFacts DEF Range, NewDocuments
  <2> QED BY <2>2, PathKinds DEF ArrivingAt
<1>6. \A p \in Range(idx) \cup NewDocuments : \A c : Arriving(p, c) => Arriving(p, c)'
  BY <1>3, <1>5, ArrivingKept
<1>7. work'.copies = {} /\ Doomed' \subseteq Doomed
  BY <1>1, <1>2, <1>3, UploadOneFields, WriteMetadataFields, SwapOneFields, RetractOneFields,
     CollectOneFields DEF Step, Doomed
<1>8. SwapArriving(Repomd, Target)'
  <2>1. PICK c : c = Target
    OBVIOUS
  <2>2. SwapArriving(Repomd, c)'
    BY <2>1, SwapArrivingKept, PathKinds DEF ArrivingAt
  <2> QED BY <1>4, <2>1, <2>2 DEF SwapArriving
<1>9. \A p \in P : Arriving(p, ByLocation(idx)[p])'
  BY <1>1, <1>6 DEF ArrivingAt
<1>10. \A d \in NewDocuments' : Arriving(d, d)'
  BY <1>4, <1>6 DEF ArrivingAt
<1> QED BY <1>1, <1>4, <1>7, <1>8, <1>9, <1>10 DEF ArrivingAt

LEMMA ForcedNext ==
  ASSUME Unforced, RepoInv, ForcedInv, [Next]_rpmVars
  PROVE  ForcedInv'
<1>1. CASE UNCHANGED rpmVars
  BY <1>1 DEF rpmVars, session, ForcedInv, AllStaged, AllArriving, Resigned, Mistaken, ArrivingAt, SwapArriving, Arriving, Target, NewDocuments,
              Carried, Doomed
<1>2. CASE Open
  <2>1. opt' \in use.options /\ use \in Uses
    BY <1>2 DEF Open, Load, RepoInv, SessionTyped
  <2> QED BY <2>1 DEF ForcedInv, Unforced
<1>3. CASE Mutate
  <2>1. mode = "open" /\ mode' = mode
    BY <1>3 DEF Mutate, AddRPM, RemoveNEVRA, PruneOlderVersions, RelocateAll, ResignAll, Refresh, Call
  <2> QED BY <1>3, <2>1, SetStaged DEF ForcedInv
<1>4. CASE Commit
  <2>1. mode = "open" /\ mode' = "publishing" /\ opt' = opt
    BY <1>4 DEF Commit, session
  <2> QED BY <1>4, <2>1, SetArriving DEF ForcedInv
<1>5. CASE Abandon \/ Finish \/ CutShort
  BY <1>5 DEF Abandon, Finish, CutShort, Forget, ForcedInv
<1>6. CASE Publishing
  <2>1. mode = "publishing" /\ mode' = mode /\ opt' = opt
    BY <1>6 DEF Publishing, session
  <2>2. ASSUME AllArriving PROVE AllArriving'
    <3>1. PICK P : P = Resigned
      OBVIOUS
    <3>2. P \subseteq Range(idx) /\ ArrivingAt(P)
      BY <2>2, <3>1 DEF Resigned, AllArriving
    <3>3. ArrivingAt(P)'
      BY <1>6, <3>2, KeepArriving
    <3>4. Resigned' = Resigned
      BY <1>6 DEF Resigned, Mistaken, Publishing, session
    <3> QED BY <3>1, <3>3, <3>4 DEF AllArriving
  <2> QED BY <2>1, <2>2 DEF ForcedInv
<1> QED BY <1>1, <1>2, <1>3, <1>4, <1>5, <1>6 DEF Next

\* A re-signing that ends leaves in place every document it made and every package
\* but those of mistaken entries, whatever an earlier one that was cut short had
\* left.
THEOREM RpmForcedEndsWhole ==
  ASSUME RpmFiles, Unforced
  PROVE  Spec => ForcedEndsWhole
<1>1. Init => ForcedInv
  BY DEF Init, ForcedInv, NoOptions
<1>2. RepoInv /\ ForcedInv /\ [Next]_rpmVars => ForcedInv'
  BY ForcedNext
<1>3. RepoInv /\ ForcedInv /\ Finish => 
      (opt.force => Amiss(store[Repomd]) \subseteq Carried \cup {idx[r] : r \in Mistaken})
  <2> SUFFICES ASSUME RepoInv, ForcedInv, Finish, opt.force, NEW p \in Amiss(store[Repomd])
               PROVE  p \in Carried \cup {idx[r] : r \in Mistaken}
    OBVIOUS
  <2>1. mode = "publishing" /\ AllArriving
    BY DEF Finish, ForcedInv
  <2>2. Range(work.swap) = {} /\ Puts(work) = {}
    BY DEF Finish, NoSteps, Puts, Range
  <2>3. Repomd \in DOMAIN store /\ store[Repomd] = Target /\ Target \in Root
    BY <2>1, <2>2 DEF AllArriving, ArrivingAt, SwapArriving, RepoInv, StoreInv
  <2>4. /\ Target.docs = NewDocuments \cup Carried
        /\ Target.at = ByLocation(idx) /\ DOMAIN Target.at = Range(idx)
    BY IndexByLocation DEF Target, RepoInv, SessionTyped
  <2>5. /\ \A l \in Resigned : l \in DOMAIN store /\ store[l] = ByLocation(idx)[l]
        /\ \A d \in NewDocuments : d \in DOMAIN store /\ store[d] = d
    BY <2>1, <2>2 DEF AllArriving, ArrivingAt, Arriving
  <2> HIDE DEF Target
  <2>6. /\ DOMAIN Needs(Target) = Target.docs \cup DOMAIN Target.at
        /\ \A d \in Target.docs : Needs(Target)[d] = d
        /\ \A l \in DOMAIN Target.at : Needs(Target)[l] = Target.at[l]
    BY <2>3, NeedsOfRoot
  <2>7. \A l \in Range(idx) \ Resigned : l \in {idx[r] : r \in Mistaken}
    BY IndexByLocation DEF Resigned, RepoInv, SessionTyped
  <2> QED BY <2>3, <2>4, <2>5, <2>6, <2>7 DEF Amiss
<1> QED BY <1>1, <1>2, <1>3, SpecInv, PTL DEF Spec, ForcedEndsWhole

----------------------------------------------------------------------------
(* Nothing is left behind.                                                 *)

\* What a publish has written and what it has taken out of the index are what
\* the index to come names, what is still to be collected, and what was staged
\* in vain; and with both clean-ups that is all there is.
TidyInv ==
  mode = "publishing" =>
    /\ \A c \in work.copies : c.to \in Awaited
    /\ \A u \in Puts(work) : u.to \in Awaited \cup StagedInVain
    /\ \A root : IndexFile(root) \in Range(work.swap) => Named \subseteq DOMAIN Needs(root) \cup Doomed
    /\ opt.unreferenced /\ opt.stale =>
         \A p \in Adrift : IsRpm(p) \/ IsDoc(p) => p \in StagedInVain

LEMMA CommitTidy ==
  ASSUME RpmFiles, RepoInv, Commit
  PROVE  TidyInv' /\ Adrift' \subseteq Adrift
<1> DEFINE plan == PlanFiles(store, PlanState(idx))
           root == NewIndex(idx)
<1>1. /\ mode = "open" /\ mode' = "publishing" /\ work' = CommitSteps /\ store' = store
      /\ idx' = idx /\ pending' = pending /\ opt' = opt /\ work = NoSteps
  BY DEF Commit, session, RepoInv, WorkInv
<1>2. Named' = Named /\ Leftovers' = Leftovers /\ StagedInVain' = StagedInVain
  BY <1>1 DEF Named, Leftovers, StagedInVain
<1>3. Adrift = Leftovers
  <2>1. Range(work.swap) = {} /\ Doomed = {}
    BY <1>1 DEF NoSteps, Range, Doomed
  <2>2. Awaited = {}
    BY <2>1 DEF Awaited
  <2> QED BY <2>1, <2>2 DEF Adrift
<1>4. /\ IndexFile(root) \in Range(CommitSteps.swap)
      /\ \A r : IndexFile(r) \in Range(CommitSteps.swap) => r = root
  <2>1. CommitSteps.swap = IF opt.signed THEN <<IndexFile(root), SignatureFile(root)>>
                                         ELSE <<IndexFile(root)>>
    BY SwappedFacts DEF CommitSteps
  <2>2. \A a, b : Range(<<a, b>>) = {a, b} /\ Range(<<a>>) = {a}
    BY DEF Range
  <2>3. \A r : (IndexFile(r) = IndexFile(root) => r = root) /\ IndexFile(r) # SignatureFile(root)
    BY PathKinds DEF IndexFile, SignatureFile
  <2> HIDE DEF root
  <2> QED BY <2>1, <2>2, <2>3
<1>5. /\ root \in Root
      /\ root.docs = {Primary(idx), Filelists(idx)} \cup Carried
      /\ DOMAIN root.at = Range(idx)
  BY <1>1, NewIndexFacts, OpenFacts, IndexByLocation
<1>6. DOMAIN Needs(root) = root.docs \cup Range(idx)
  BY <1>5, NeedsOfRoot
<1>7. root.docs \cup Range(idx) \subseteq Awaited'
  <2>1. DOMAIN Needs(IndexFile(root).data) \subseteq UNION {DOMAIN Needs(s.data) : s \in Range(work'.swap)}
    BY <1>1, <1>4
  <2>2. IndexFile(root).data = root
    BY DEF IndexFile
  <2> QED BY <1>6, <2>1, <2>2 DEF Awaited
<1>8. /\ ObsoleteMeta(idx) \subseteq Doomed' /\ DOMAIN original \ Range(idx) \subseteq Doomed'
      /\ UnreferencedRpms(plan.deleted) \subseteq Doomed' /\ StaleMetadata \subseteq Doomed'
      /\ plan.deleted = DOMAIN original \ Range(idx)
  <2>1. plan.deleted = DOMAIN original \ Range(idx)
    BY <1>1, OpenFacts, IndexByLocation DEF PlanFiles, Orphans, PlanState
  <2>2. CommitSteps.gc = <<ObsoleteMeta(idx), plan.deleted, UnreferencedRpms(plan.deleted), StaleMetadata>>
    BY DEF CommitSteps
  <2>3. \A a, b, c, d : {a, b, c, d} \subseteq Range(<<a, b, c, d>>)
    BY DEF Range
  <2> HIDE DEF plan
  <2>4. {ObsoleteMeta(idx), plan.deleted, UnreferencedRpms(plan.deleted), StaleMetadata} \subseteq Range(CommitSteps.gc)
    BY <2>2, <2>3
  <2> QED BY <1>1, <2>1, <2>4 DEF Doomed
<1>9. \A c \in CommitSteps.copies : c.to \in Awaited'
  BY <1>1, <1>7, MoveFacts DEF CommitSteps
<1>10. \A u \in Puts(CommitSteps) : u.to \in Awaited' \cup StagedInVain'
  <2>1. ASSUME NEW u \in plan.uploads PROVE u.to \in Awaited' \cup StagedInVain'
    BY <1>1, <1>2, <1>7, <2>1, UploadFacts DEF StagedInVain
  <2>2. ASSUME NEW u \in Range(MetadataFiles(Documents(idx))) PROVE u.to \in Awaited'
    BY <1>1, <1>5, <1>7, <2>2, OpenFacts, DocumentsFacts
  <2> QED BY <2>1, <2>2 DEF Puts, CommitSteps
<1>11. Named \subseteq DOMAIN Needs(root) \cup Doomed'
  <2>1. CASE Repomd \notin DOMAIN store
    BY <2>1 DEF Named
  <2>2. CASE Repomd \in DOMAIN store
    <3>1. old = store[Repomd] /\ old \in Root /\ original = old.at
      BY <1>1, <2>2, OpenFacts DEF Current, RepoInv, StoreInv
    <3>2. Named = old.docs \cup DOMAIN original
      BY <2>2, <3>1, NeedsOfRoot DEF Named
    <3> QED BY <1>6, <1>8, <3>2 DEF ObsoleteMeta
  <2> QED BY <2>1, <2>2
<1>12. ASSUME opt.unreferenced, opt.stale, NEW p \in Adrift'
       PROVE  ~IsRpm(p) /\ ~IsDoc(p)
  <2>1. p \in DOMAIN store /\ p \notin Awaited' /\ p \notin Doomed'
    BY <1>2, <1>12 DEF Adrift, Leftovers
  <2>2. ASSUME IsRpm(p) PROVE FALSE
    BY <1>7, <1>8, <1>12, <2>1, <2>2 DEF UnreferencedRpms, Unreferenced
  <2>3. ASSUME IsDoc(p) PROVE FALSE
    BY <1>7, <1>8, <1>12, <2>1, <2>3 DEF StaleMetadata, Unreferenced
  <2> QED BY <2>2, <2>3
<1>13. \A r : IndexFile(r) \in Range(work'.swap) => Named' \subseteq DOMAIN Needs(r) \cup Doomed'
  BY <1>1, <1>2, <1>4, <1>11
<1>14. TidyInv'
  <2> HIDE DEF root, plan
  <2> QED BY <1>1, <1>9, <1>10, <1>12, <1>13 DEF TidyInv
<1> QED BY <1>2, <1>3, <1>14 DEF Adrift

\* A file is written: it is awaited, or was staged in vain.
LEMMA PutTidy ==
  ASSUME TidyInv, mode = "publishing", UNCHANGED <<mode, opt, idx, pending>>,
         NEW p, NEW c, StorePut(p, c), p \in Awaited \cup StagedInVain, p \notin {Repomd, RepomdAsc},
         work'.copies \subseteq work.copies, Puts(work') \subseteq Puts(work),
         work'.swap = work.swap, work'.gc = work.gc
  PROVE  TidyInv' /\ Adrift' \subseteq Adrift \cup StagedInVain
<1>1. /\ DOMAIN store' = DOMAIN store \cup {p}
      /\ \A q \in DOMAIN store : q # p => store'[q] = store[q]
  BY PutFacts
<1>2. Awaited' = Awaited /\ Doomed' = Doomed /\ StagedInVain' = StagedInVain
  BY DEF Awaited, Doomed, StagedInVain
<1>3. Named' = Named
  BY <1>1 DEF Named
<1>4. Adrift' \subseteq Adrift \cup StagedInVain
  BY <1>1, <1>2, <1>3 DEF Adrift, Leftovers
<1> QED BY <1>2, <1>3, <1>4 DEF TidyInv

\* A file is deleted, once the index is swapped.
LEMMA DeleteTidy ==
  ASSUME TidyInv, mode = "publishing", UNCHANGED <<mode, opt, idx, pending>>,
         NEW p, StoreDelete(p), p # Repomd,
         (p \in IndexPaths /\ Doomed' = Doomed) \/ Doomed \subseteq {p} \cup Doomed',
         work'.copies = {}, Puts(work') = {}, work.swap = <<>>, work'.swap = <<>>
  PROVE  TidyInv' /\ Adrift' \subseteq Adrift
<1>1. /\ DOMAIN store' = DOMAIN store \ {p}
      /\ \A q \in DOMAIN store' : store'[q] = store[q]
  BY DeleteFacts
<1>2. Range(work.swap) = {} /\ Range(work'.swap) = {}
  BY DEF Range
<1>3. Awaited' = Awaited /\ StagedInVain' = StagedInVain /\ Named' = Named
  BY <1>1 DEF Awaited, StagedInVain, Named
<1>4. Adrift' \subseteq Adrift
  BY <1>1, <1>3 DEF Adrift, Leftovers
<1> QED BY <1>2, <1>3, <1>4 DEF TidyInv

\* What the old index named and the new one does not is collected after this.
LEMMA SwapTidy ==
  ASSUME RpmFiles, RepoInv, TidyInv, mode = "publishing", UNCHANGED <<mode, opt, idx, pending>>,
         SwapOne
  PROVE  TidyInv' /\ Adrift' \subseteq Adrift
<1> DEFINE s == Head(work.swap)
<1>1. /\ StorePut(s.to, s.data) /\ s \in Range(work.swap) /\ s \in Swappable
      /\ Range(work'.swap) \subseteq Range(work.swap)
      /\ Range(work.swap) \subseteq {s} \cup Range(work'.swap)
      /\ work'.copies = {} /\ Puts(work') = {} /\ work'.gc = work.gc
  BY SwapOneFields DEF RepoInv, WorkInv, RpmShape
<1> HIDE DEF s
<1>2. /\ DOMAIN store' = DOMAIN store \cup {s.to} /\ store'[s.to] = s.data
      /\ \A q \in DOMAIN store : q # s.to => store'[q] = store[q]
  BY <1>1, PutFacts
<1>3. Doomed' = Doomed /\ StagedInVain' = StagedInVain
  BY <1>1 DEF Doomed, StagedInVain
<1>4. s.to \in IndexPaths
  BY <1>1 DEF Swappable, IndexFile, SignatureFile, RpmFiles
<1>5. DOMAIN store' \ IndexPaths \subseteq DOMAIN store \ IndexPaths
  BY <1>2, <1>4
<1>6. CASE \E root \in Root : s = IndexFile(root)
  <2>1. PICK root \in Root : s = IndexFile(root)
    BY <1>6
  <2>2. Named' = DOMAIN Needs(root)
    BY <1>2, <2>1 DEF Named, IndexFile
  <2>3. Named \subseteq Named' \cup Doomed
    BY <1>1, <2>1, <2>2 DEF TidyInv
  <2>4. Awaited \subseteq Named' \cup Awaited'
    <3>1. ASSUME NEW x \in Range(work.swap) PROVE DOMAIN Needs(x.data) \subseteq Named' \cup Awaited'
      <4>1. CASE x = s
        BY <2>1, <2>2, <4>1 DEF IndexFile
      <4>2. CASE x \in Range(work'.swap)
        BY <4>2 DEF Awaited
      <4> QED BY <1>1, <4>1, <4>2
    <3> QED BY <3>1 DEF Awaited
  <2>5. Adrift' \subseteq Adrift
    BY <1>3, <1>5, <2>3, <2>4 DEF Adrift, Leftovers
  <2>6. \A r : IndexFile(r) \notin Range(work'.swap)
    <3>1. \A a, b : Head(<<a, b>>) = a /\ Tail(<<a, b>>) = <<b>> /\ Head(<<a>>) = a /\ Tail(<<a>>) = <<>>
      OBVIOUS
    <3>2. work'.swap = Tail(work.swap) /\ work.swap # <<>>
      BY SwapOneFields DEF RepoInv, WorkInv, RpmShape
    <3>3. \A r, x : IndexFile(r) # SignatureFile(x)
      BY PathKinds DEF IndexFile, SignatureFile
    <3>4. work'.swap = <<>> \/ \E x : work'.swap = <<SignatureFile(x)>>
      BY <3>1, <3>2 DEF RepoInv, SignatureInv
    <3> QED BY <3>3, <3>4 DEF Range
  <2> QED BY <1>1, <1>3, <2>5, <2>6 DEF TidyInv
<1>7. CASE \E root \in Root : s = SignatureFile(root)
  <2>1. PICK root \in Root : s = SignatureFile(root)
    BY <1>7
  <2>2. s.to = RepomdAsc /\ DOMAIN Needs(s.data) = {}
    BY <2>1, NeedsOfSignature DEF SignatureFile, IsSignature, Signature
  <2>3. Named' = Named
    BY <1>2, <2>2, PathKinds DEF Named
  <2>4. Awaited \subseteq Awaited'
    <3>1. ASSUME NEW x \in Range(work.swap) PROVE DOMAIN Needs(x.data) \subseteq Awaited'
      <4>1. CASE x = s
        BY <2>2, <4>1
      <4>2. CASE x \in Range(work'.swap)
        BY <4>2 DEF Awaited
      <4> QED BY <1>1, <4>1, <4>2
    <3> QED BY <3>1 DEF Awaited
  <2>5. Adrift' \subseteq Adrift
    BY <1>3, <1>5, <2>3, <2>4 DEF Adrift, Leftovers
  <2> QED BY <1>1, <1>3, <2>3, <2>5 DEF TidyInv
<1> QED BY <1>1, <1>6, <1>7 DEF Swappable

LEMMA PublishingTidy ==
  ASSUME RpmFiles, RepoInv, TidyInv, Publishing
  PROVE  TidyInv' /\ Adrift' \subseteq Adrift \cup StagedInVain
<1>1. mode = "publishing" /\ Step /\ UNCHANGED <<mode, opt, idx, pending>>
  BY DEF Publishing, session
<1>2. work \in Shape(Movable, Uploadable, Describable, Swappable, {RepomdAsc}, Doomed)
  BY DEF RepoInv, WorkInv, RpmShape
<1>3. CASE CopyOne
  <2>1. PICK c \in work.copies :
          c \in Movable /\ StorePut(c.to, store[c.from]) /\ work'.copies = work.copies \ {c}
    BY <1>2, <1>3, CopyOneFields
  <2>2. Puts(work') = Puts(work) /\ work'.swap = work.swap /\ work'.gc = work.gc
    BY <1>2, <1>3, CopyOneFields DEF Puts
  <2>3. c.to \in Awaited /\ c.to \notin {Repomd, RepomdAsc}
    BY <1>1, <2>1, PathKinds DEF Movable, TidyInv
  <2> QED BY <1>1, <2>1, <2>2, <2>3, PutTidy
<1>4. CASE UploadOne
  <2>1. PICK u \in work.uploads :
          u \in Uploadable /\ StorePut(u.to, u.data) /\ work'.uploads = work.uploads \ {u}
    BY <1>2, <1>4, UploadOneFields
  <2>2. /\ work'.copies \subseteq work.copies /\ Puts(work') \subseteq Puts(work)
        /\ work'.swap = work.swap /\ work'.gc = work.gc
    BY <1>2, <1>4, <2>1, UploadOneFields DEF Puts
  <2>3. u.to \in Awaited \cup StagedInVain /\ u.to \notin {Repomd, RepomdAsc}
    BY <1>1, <2>1, PathKinds DEF Uploadable, TidyInv, Puts
  <2> QED BY <1>1, <2>1, <2>2, <2>3, PutTidy
<1>5. CASE WriteMetadata
  <2> DEFINE u == Head(work.metadata)
  <2>1. /\ u \in Describable /\ u \in Range(work.metadata) /\ StorePut(u.to, u.data)
        /\ Range(work'.metadata) \subseteq Range(work.metadata)
        /\ work'.copies = {} /\ work'.uploads = {} /\ work'.swap = work.swap /\ work'.gc = work.gc
    BY <1>2, <1>5, WriteMetadataFields
  <2> HIDE DEF u
  <2>2. Puts(work') \subseteq Puts(work) /\ u \in Puts(work)
    BY <2>1 DEF Puts
  <2>3. u.to \in Awaited \cup StagedInVain /\ u.to \notin {Repomd, RepomdAsc}
    BY <1>1, <2>1, <2>2, PathKinds DEF Describable, TidyInv
  <2> QED BY <1>1, <2>1, <2>2, <2>3, PutTidy
<1>6. CASE SwapOne
  BY <1>1, <1>6, SwapTidy
<1>7. CASE RetractOne
  <2> DEFINE h == Head(work.retract)
  <2>1. /\ StoreDelete(h) /\ h \in {RepomdAsc} /\ work'.copies = {} /\ Puts(work') = {}
        /\ work.swap = <<>> /\ work'.swap = <<>> /\ work'.gc = work.gc
    BY <1>2, <1>7, RetractOneFields
  <2> HIDE DEF h
  <2>2. h # Repomd /\ h \in IndexPaths /\ Doomed' = Doomed
    BY <2>1, PathKinds DEF Doomed, RpmFiles
  <2> QED BY <1>1, <2>1, <2>2, DeleteTidy
<1>8. CASE CollectOne
  <2>1. /\ work'.copies = {} /\ Puts(work') = {} /\ work.swap = <<>> /\ work'.swap = <<>>
        /\ Doomed' \subseteq Doomed
        /\ \/ UNCHANGED store /\ Doomed \subseteq Doomed'
           \/ \E p \in Doomed : StoreDelete(p) /\ Doomed \subseteq {p} \cup Doomed'
    BY <1>2, <1>8, CollectOneFields DEF Doomed
  <2>2. CASE UNCHANGED store /\ Doomed \subseteq Doomed'
    <3>1. Doomed' = Doomed /\ Awaited' = Awaited /\ Named' = Named /\ StagedInVain' = StagedInVain
      BY <1>1, <2>1, <2>2 DEF Awaited, Named, StagedInVain
    <3>2. Adrift' = Adrift
      BY <2>2, <3>1 DEF Adrift, Leftovers
    <3> QED BY <1>1, <2>1, <3>1, <3>2 DEF TidyInv
  <2>3. ASSUME NEW p \in Doomed, StoreDelete(p), Doomed \subseteq {p} \cup Doomed'
        PROVE  TidyInv' /\ Adrift' \subseteq Adrift
    <3>1. p # Repomd
      BY DEF RepoInv, WorkInv
    <3> QED BY <1>1, <2>1, <2>3, <3>1, DeleteTidy
  <2> QED BY <2>1, <2>2, <2>3
<1> QED BY <1>1, <1>3, <1>4, <1>5, <1>6, <1>7, <1>8 DEF Step

LEMMA TidyNext ==
  ASSUME RpmFiles, RepoInv, TidyInv, [Next]_rpmVars
  PROVE  TidyInv' /\ (stops' = stops => Adrift' \subseteq Adrift \cup StagedInVain)
<1>1. ASSUME UNCHANGED <<store, work>> PROVE Adrift' = Adrift
  BY <1>1 DEF Adrift, Leftovers, Named, Awaited, Doomed
<1>2. CASE UNCHANGED rpmVars
  <2>1. /\ mode' = mode /\ opt' = opt /\ UNCHANGED <<store, work>>
        /\ Awaited' = Awaited /\ Doomed' = Doomed /\ Named' = Named /\ StagedInVain' = StagedInVain
    BY <1>2 DEF rpmVars, session, Awaited, Doomed, Named, StagedInVain
  <2> QED BY <1>1, <2>1 DEF TidyInv
<1>3. CASE Commit
  BY <1>3, CommitTidy
<1>4. CASE Publishing
  BY <1>4, PublishingTidy
<1>5. CASE CutShort
  <2>1. stops \in Nat => stops' # stops
    BY <1>5 DEF CutShort
  <2> QED BY <1>5, <2>1 DEF CutShort, Forget, TidyInv
<1>6. CASE Open \/ Mutate \/ Abandon \/ Finish
  <2>1. UNCHANGED <<store, work>> /\ mode' # "publishing"
    BY <1>6 DEF Open, Load, Mutate, AddRPM, RemoveNEVRA, PruneOlderVersions, RelocateAll, ResignAll,
                Refresh, Call, Abandon, Finish, Forget
  <2> QED BY <1>1, <2>1 DEF TidyInv
<1> QED BY <1>2, <1>3, <1>4, <1>5, <1>6 DEF Next

\* Files that no index names come of a publish that is cut short, or were staged
\* in vain; the clean-ups of a rebuild leave only the latter.
THEOREM RpmEndsTidy ==
  ASSUME RpmFiles
  PROVE  Spec => EndsTidy
<1>1. Init => TidyInv
  BY DEF Init, TidyInv
<1>2. RepoInv /\ TidyInv /\ [Next]_rpmVars
        => TidyInv' /\ (stops' = stops => Adrift' \subseteq Adrift \cup StagedInVain)
  BY TidyNext
<1>3. TidyInv /\ Finish =>
        (opt.unreferenced /\ opt.stale =>
           \A p \in Leftovers : IsRpm(p) \/ IsDoc(p) => p \in StagedInVain)
  <2> SUFFICES ASSUME TidyInv, Finish
               PROVE  opt.unreferenced /\ opt.stale =>
                        \A p \in Leftovers : IsRpm(p) \/ IsDoc(p) => p \in StagedInVain
    OBVIOUS
  <2>1. mode = "publishing" /\ Range(work.swap) = {} /\ Doomed = {}
    BY DEF Finish, NoSteps, Range, Doomed
  <2>2. Adrift = Leftovers
    BY <2>1 DEF Adrift, Awaited
  <2> QED BY <2>1, <2>2 DEF TidyInv
<1> QED BY <1>1, <1>2, <1>3, SpecInv, PTL DEF Spec, EndsTidy

----------------------------------------------------------------------------
(* A takeover: what the report says of the index and the store it was made *)
(* of, and what is left of the publish it is about.                        *)

\* An analysis has settings for neither adding nor re-signing packages, nor for
\* clearing away what no index names, and nothing is forced.
Analysed ==
  \A u \in Uses : "takeover" \in u.calls =>
    /\ {"add", "resign"} \cap u.calls = {}
    /\ \A o \in u.options : ~o.force /\ ~o.unreferenced /\ ~o.stale

PlainOptions == ~opt.force /\ ~opt.unreferenced /\ ~opt.stale

\* What a process has loaded, before it is called.
LoadedInv ==
  mode = "open" =>
    /\ calls = 0 => idx = AntiFunction(old.at)
    /\ "takeover" \in use.calls => PlainOptions

\* The index the report is about, the plan of its republish, the documents that
\* are written and kept then, and all that is to go.
SeenIndex == report.of[Repomd]
SeenState == [referenced |-> ByLocation(report.idx), original |-> SeenIndex.at,
              pending |-> <<>>, copied |-> {}, force |-> FALSE]
SeenPlan  == PlanFiles(report.of, SeenState)
FreshDocs == {Primary(report.idx), Filelists(report.idx)}
KeptDocs  == {d \in SeenIndex.docs : d.type \notin Derived}
LostDocs  == SeenIndex.docs \ (FreshDocs \cup KeptDocs)
ToGo      == LostDocs \cup SeenPlan.deleted

\* Packages are what the index analysed says, or will be where nothing is.
SeenTrue ==
  /\ DOMAIN SeenIndex.at \subseteq DOMAIN report.of
  /\ \A r \in DOMAIN report.idx :
       report.idx[r] \in DOMAIN report.of =>
         report.idx[r] \in DOMAIN SeenIndex.at /\ report.of[report.idx[r]] = r

ReportInv ==
  report # NoReport =>
    /\ "takeover" \in use.calls
    /\ report.idx \in Indexes
    /\ Repomd \in DOMAIN report.of /\ SeenIndex \in Root
    /\ report.moved = {c.from : c \in SeenPlan.copies}
    /\ report.deleted = LostDocs \cup (SeenPlan.deleted \ report.moved)
    /\ "metadata-dropped" \in report.advisory <=> \E d \in SeenIndex.docs : d.type \in Derived \ Listings
    /\ OK /\ RepomdAsc \in DOMAIN report.of =>
         report.opt.signed /\ report.of[RepomdAsc].by \in {Signer, Unidentified}
    /\ OK /\ (report.read \/ report.whole) =>
         report.onto # {} \/ "identical-packages" \in report.advisory \/ SeenTrue

LEMMA SeenMoves ==
  ASSUME ReportInv, report # NoReport
  PROVE  /\ SeenPlan.deleted = DOMAIN SeenIndex.at \ Range(report.idx)
         /\ SeenPlan.deleted \subseteq Locations /\ Range(report.idx) \subseteq Locations
         /\ FreshDocs \cup KeptDocs \cup LostDocs \subseteq Document
         /\ \A c \in SeenPlan.copies :
              /\ c.from \in SeenPlan.deleted
              /\ c.to \in Range(report.idx) \ DOMAIN report.of
              /\ SeenIndex.at[c.from] = ByLocation(report.idx)[c.to]
              /\ \A d \in SeenPlan.copies : c.to = d.to => c = d
<1>1. report.idx \in Indexes /\ SeenIndex \in Root
  BY DEF ReportInv
<1> DEFINE s == SeenState
<1>2. /\ s.referenced = ByLocation(report.idx) /\ s.original = SeenIndex.at
      /\ s.pending = <<>> /\ s.copied = {} /\ DOMAIN s.pending = {}
  BY NoneYet DEF SeenState
<1>3. DOMAIN ByLocation(report.idx) = Range(report.idx)
  BY <1>1, IndexByLocation
<1>4. DOMAIN SeenIndex.at \subseteq Locations
  BY <1>1, RootFields, PlacementDef
<1>5. Range(report.idx) \subseteq Locations
  BY <1>1, IndexesDef DEF Range
<1>6. FreshDocs \cup KeptDocs \cup LostDocs \subseteq Document
  BY <1>1, RootFields, DocumentsFacts DEF FreshDocs, KeptDocs, LostDocs
<1>7. /\ SeenPlan.deleted = Orphans(s)
      /\ SeenPlan.copies = {Relocation(s, p) : p \in StagedMoves(report.of, s) \cup Moves(report.of, s)}
  BY DEF SeenPlan, PlanFiles
<1> HIDE DEF s
<1>8. Orphans(s) = DOMAIN SeenIndex.at \ Range(report.idx)
  BY <1>2, <1>3 DEF Orphans
<1>9. ASSUME NEW p \in StagedMoves(report.of, s) \cup Moves(report.of, s)
      PROVE  /\ Relocation(s, p).to = p
             /\ p \in Range(report.idx) \ DOMAIN report.of
             /\ Relocation(s, p).from \in Orphans(s)
             /\ SeenIndex.at[Relocation(s, p).from] = ByLocation(report.idx)[p]
  <2>1. p \in Range(report.idx) \ DOMAIN report.of /\ Relocatable(s, p)
    BY <1>2, <1>3, <1>9 DEF StagedMoves, Moves, Unstaged, Staged
  <2> DEFINE O == OrphansWith(s, s.referenced[p])
  <2>2. O # {} /\ O \in SUBSET Locations
    BY <1>4, <1>8, <2>1 DEF Relocatable, OrphansWith
  <2>3. First(O) \in O
    BY <2>2, PackageAssumption
  <2>4. First(O) \in Orphans(s) /\ SeenIndex.at[First(O)] = ByLocation(report.idx)[p]
    BY <1>2, <2>3 DEF OrphansWith
  <2>5. Relocation(s, p).from = First(O) /\ Relocation(s, p).to = p
    BY DEF Relocation, OrphanByID
  <2> QED BY <2>1, <2>4, <2>5
<1>10. ASSUME NEW c \in SeenPlan.copies
       PROVE  /\ c.from \in SeenPlan.deleted
              /\ c.to \in Range(report.idx) \ DOMAIN report.of
              /\ SeenIndex.at[c.from] = ByLocation(report.idx)[c.to]
              /\ c = Relocation(s, c.to)
  BY <1>7, <1>9
<1> QED BY <1>4, <1>5, <1>6, <1>7, <1>8, <1>10

LEMMA BlockingFacts ==
  ASSUME NEW f, NEW read, NEW pruned, NEW after
  PROVE  LET found == BlockingFindings(f, read, pruned, after) IN
         /\ (f.listed \/ f.read) /\ MissingPackages # {} => "missing-packages" \in found
         /\ f.read /\ Unreadable # {} => "unreadable-packages" \in found
         /\ IsSigned /\ ~opt.signed => "metadata-signature-invalidated" \in found
         /\ IsSigned /\ opt.signed /\ store[RepomdAsc].by \notin {Signer, Unidentified} => "metadata-signer-changed" \in found
BY DEF BlockingFindings

LEMMA AdvisoryFacts ==
  ASSUME NEW f, NEW read
  PROVE  /\ "identical-packages" \in Advisories(f, read) <=> f.read /\ Identical(read) # {}
         /\ "metadata-dropped" \in Advisories(f, read) <=> DroppedDocuments # {}
BY DEF Advisories

\* What the packages are that an analysis with nothing in its way has looked at:
\* those it re-read, or those of a repository clients could read.
LEMMA ReadTrue ==
  ASSUME RpmFiles, RepoInv, LoadedInv, mode = "open", calls = 0, old # NoIndex,
         NEW f \in TakeoverFlags, NEW read, read = IF f.read THEN Refreshed(idx) ELSE idx,
         \/ f.read /\ MissingPackages = {} /\ Unreadable = {} /\ Identical(read) = {}
         \/ ~f.read /\ Complete(old)
  PROVE  /\ DOMAIN old.at \subseteq DOMAIN store
         /\ \A r \in DOMAIN read : read[r] \in DOMAIN old.at /\ store[read[r]] = r
<1>1. /\ idx \in Indexes /\ old \in Root /\ original = old.at
      /\ idx = AntiFunction(old.at)
  BY OpenFacts DEF LoadedInv
<1>2. /\ DOMAIN idx = Range(old.at)
      /\ \A r \in DOMAIN idx : idx[r] \in DOMAIN old.at /\ old.at[idx[r]] = r
  BY <1>1, AntiFunctionFacts
<1>3. CASE f.read /\ MissingPackages = {} /\ Unreadable = {} /\ Identical(read) = {}
  <2>1. read = Refreshed(idx)
    BY <1>3
  <2>2. Range(read) = Range(idx) /\ read \in Indexes
    BY <1>1, <2>1, RefreshedFacts
  <2>3. DOMAIN old.at \subseteq DOMAIN store
    BY <1>3 DEF MissingPackages
  <2>4. ASSUME NEW r \in DOMAIN read PROVE read[r] \in DOMAIN old.at /\ store[read[r]] = r
    <3>1. read[r] \in Range(idx)
      BY <2>2 DEF Range
    <3>2. read[r] \in DOMAIN old.at
      BY <1>2, <3>1 DEF Range
    <3>3. store[read[r]] \in Rpms
      BY <1>3, <2>3, <3>2 DEF Unreadable
    <3>4. store[read[r]] = r
      BY <1>3, <2>3, <3>2, <3>3 DEF Identical
    <3> QED BY <3>2, <3>4
  <2> QED BY <2>3, <2>4
<1>4. CASE ~f.read /\ Complete(old)
  <2>1. /\ DOMAIN Needs(old) = old.docs \cup DOMAIN old.at
        /\ \A p \in DOMAIN old.at : Needs(old)[p] = old.at[p]
    BY <1>1, NeedsOfRoot
  <2>2. \A p \in DOMAIN old.at : p \in DOMAIN store /\ store[p] = old.at[p]
    BY <1>4, <2>1 DEF Complete
  <2> QED BY <1>2, <1>4, <2>2
<1> QED BY <1>3, <1>4

LEMMA AnalyzeReport ==
  ASSUME RpmFiles, RepoInv, NoCopy, LoadedInv, NEW f \in TakeoverFlags, Analyze(f)
  PROVE  ReportInv'
<1> DEFINE read == IF f.read THEN Refreshed(idx) ELSE idx
<1>1. /\ mode = "open" /\ calls = 0 /\ old # NoIndex /\ "takeover" \in use.calls
      /\ use' = use /\ store' = store
  BY DEF Analyze, Forget
<1> DEFINE pruned(gone) == Without(read, gone)
           after(gone)  == IF f.relocate THEN Relocated(pruned(gone), opt.prefix) ELSE pruned(gone)
           plan(gone)   == PlanFiles(store, PlanState(after(gone)))
<1>2. PICK gone :
        report' = [of       |-> store,
                   opt      |-> opt,
                   idx      |-> after(gone),
                   read     |-> f.read,
                   onto     |-> {r \in MovedFrom(pruned(gone), after(gone)) : after(gone)[r] \in DOMAIN store},
                   whole    |-> Complete(old),
                   blocking |-> BlockingFindings(f, read, pruned(gone), after(gone)),
                   advisory |-> Advisories(f, read),
                   moved    |-> {c.from : c \in plan(gone).copies},
                   deleted  |-> DeletedFiles(plan(gone), after(gone))]
  BY DEF Analyze
<1> DEFINE pr == pruned(gone)
           ix == after(gone)
<1>3. /\ idx \in Indexes /\ old \in Root /\ old = store[Repomd] /\ Repomd \in DOMAIN store
      /\ original = old.at /\ copied = {} /\ replaced = FALSE /\ opt \in Options
  BY <1>1, OpenFacts DEF NoCopy
<1>4. pending = <<>> /\ opt.force = FALSE
  BY <1>1, <1>3 DEF RepoInv, SessionInv, LoadedInv, PlainOptions, Options
<1>5. read \in Indexes
  BY <1>3, RefreshedFacts
<1> HIDE DEF read
<1>6. pr \in Indexes /\ DOMAIN pr \subseteq DOMAIN read /\ \A r \in DOMAIN pr : pr[r] = read[r]
  BY <1>5, WithoutFacts
<1> HIDE DEF pruned
<1>7. opt.prefix \in Dirs
  BY <1>3 DEF Options
<1>8. ix \in Indexes /\ DOMAIN ix = DOMAIN pr
  BY <1>6, <1>7, RelocatedFacts DEF Relocated
<1> HIDE DEF after
<1>9. /\ report'.of = store /\ report'.opt = opt /\ report'.idx = ix /\ report'.read = f.read
      /\ report'.onto = {r \in MovedFrom(pr, ix) : ix[r] \in DOMAIN store}
      /\ report'.whole = Complete(old)
      /\ report'.blocking = BlockingFindings(f, read, pr, ix)
      /\ report'.advisory = Advisories(f, read)
      /\ report'.moved = {c.from : c \in plan(gone).copies}
      /\ report'.deleted = DeletedFiles(plan(gone), ix)
  BY <1>2
<1>10. SeenIndex' = old /\ SeenState' = PlanState(ix)
  BY <1>3, <1>4, <1>9 DEF SeenIndex, SeenState, PlanState
<1>11. SeenPlan' = plan(gone)
  BY <1>9, <1>10 DEF SeenPlan
<1> HIDE DEF plan
<1>12. /\ FreshDocs' = {Primary(ix), Filelists(ix)}
       /\ KeptDocs' = {d \in old.docs : d.type \notin Derived}
       /\ LostDocs' = ObsoleteMeta(ix)
  <2>1. FreshDocs' = {Primary(ix), Filelists(ix)} /\ KeptDocs' = {d \in old.docs : d.type \notin Derived}
    BY <1>9, <1>10 DEF FreshDocs, KeptDocs
  <2>2. NewIndex(ix).docs = {Primary(ix), Filelists(ix)} \cup {d \in old.docs : d.type \notin Derived}
    BY <1>3, <1>8, DocumentsFacts DEF NewIndex, Carried
  <2> QED BY <1>10, <2>1, <2>2 DEF LostDocs, ObsoleteMeta
<1>13. report'.deleted = LostDocs' \cup (SeenPlan'.deleted \ report'.moved)
  BY <1>9, <1>11, <1>12 DEF DeletedFiles
<1>14. "metadata-dropped" \in report'.advisory <=> \E d \in old.docs : d.type \in Derived \ Listings
  BY <1>9, AdvisoryFacts DEF DroppedDocuments
<1>15. ASSUME OK', RepomdAsc \in DOMAIN store PROVE opt.signed /\ store[RepomdAsc].by \in {Signer, Unidentified}
  <2>1. BlockingFindings(f, read, pr, ix) = {}
    BY <1>9, <1>15 DEF OK
  <2>2. IsSigned
    BY <1>15 DEF IsSigned
  <2> QED BY <2>1, <2>2, BlockingFacts
<1>16. ASSUME OK', f.read \/ Complete(old), report'.onto = {}, "identical-packages" \notin report'.advisory
       PROVE  SeenTrue'
  <2>1. BlockingFindings(f, read, pr, ix) = {}
    BY <1>9, <1>16 DEF OK
  <2>2. f.read => MissingPackages = {} /\ Unreadable = {} /\ Identical(read) = {}
    BY <1>9, <1>16, <2>1, BlockingFacts, AdvisoryFacts
  <2>3. /\ DOMAIN old.at \subseteq DOMAIN store
        /\ \A r \in DOMAIN read : read[r] \in DOMAIN old.at /\ store[read[r]] = r
    BY <1>1, <1>16, <2>2, ReadTrue DEF read
  <2>4. ASSUME NEW r \in DOMAIN ix, ix[r] \in DOMAIN store
        PROVE  ix[r] \in DOMAIN old.at /\ store[ix[r]] = r
    <3>1. r \notin MovedFrom(pr, ix)
      BY <1>9, <1>16, <2>4
    <3>2. ix[r] = read[r] /\ r \in DOMAIN read
      BY <1>6, <1>8, <3>1 DEF MovedFrom
    <3> QED BY <2>3, <3>2
  <2> QED BY <1>9, <1>10, <2>3, <2>4 DEF SeenTrue
<1> QED BY <1>1, <1>3, <1>8, <1>9, <1>10, <1>11, <1>13, <1>14, <1>15, <1>16 DEF ReportInv

\* What is left of the publish a report is about, and what the store holds by
\* then of what the report was made of.
Moving(c) ==
  IF c \in work.copies
  THEN /\ c.from \in DOMAIN store <=> c.from \in DOMAIN report.of
       /\ c.from \in DOMAIN store => store[c.from] = report.of[c.from]
  ELSE c.from \in DOMAIN report.of /\ c.to \in DOMAIN store /\ store[c.to] = report.of[c.from]

StoreKept ==
  /\ Doomed \subseteq ToGo /\ ToGo \cap DOMAIN store \subseteq Doomed
  /\ DOMAIN report.of \ DOMAIN store \subseteq ToGo \cup {RepomdAsc}
  /\ \A p \in (Range(report.idx) \cup KeptDocs) \cap DOMAIN report.of :
       p \in DOMAIN store /\ store[p] = report.of[p]
  /\ \A c \in SeenPlan.copies : Moving(c)

Underway ==
  /\ work.uploads = {}
  /\ work.copies \subseteq SeenPlan.copies
  /\ \A s \in Range(work.metadata) : s.to \in FreshDocs
  /\ \A d \in FreshDocs : Arriving(d, d)
  /\ SwapArriving(Repomd, Target)
  /\ opt.signed => SwapArriving(RepomdAsc, Signature(Signer, Target))
  /\ StoreKept

ForeseenInv ==
  foreseen =>
    /\ mode = "publishing" /\ report # NoReport
    /\ idx = report.idx /\ opt = report.opt /\ old = SeenIndex
    /\ ~Refuses(report.of, SeenState)
    /\ Underway

TakeoverInv == NoCopy /\ LoadedInv /\ ReportInv /\ ForeseenInv

\* What is to go is no file of the index to come.
LEMMA ToGoFacts ==
  ASSUME ReportInv, report # NoReport
  PROVE  /\ ToGo \cap (Range(report.idx) \cup KeptDocs \cup FreshDocs \cup {Repomd, RepomdAsc}) = {}
         /\ KeptDocs \cap FreshDocs = {}
         /\ Range(report.idx) \cap (KeptDocs \cup FreshDocs) = {}
         /\ {Repomd, RepomdAsc} \cap (Range(report.idx) \cup KeptDocs \cup FreshDocs) = {}
<1>1. /\ SeenPlan.deleted = DOMAIN SeenIndex.at \ Range(report.idx)
      /\ SeenPlan.deleted \subseteq Locations /\ Range(report.idx) \subseteq Locations
      /\ FreshDocs \cup KeptDocs \cup LostDocs \subseteq Document
  BY SeenMoves
<1>2. \A l \in Locations : l \notin Document \cup {Repomd, RepomdAsc}
  BY PathKinds
<1>3. \A d \in Document : d \notin {Repomd, RepomdAsc}
  BY PathKinds
<1>4. KeptDocs \cap FreshDocs = {}
  BY DEF KeptDocs, FreshDocs, Primary, Filelists, Derived
<1> QED BY <1>1, <1>2, <1>3, <1>4 DEF ToGo, LostDocs

LEMMA PutKept ==
  ASSUME ReportInv, report # NoReport, StoreKept, NEW p, NEW c, StorePut(p, c),
         report' = report, Doomed' = Doomed, work.copies \subseteq SeenPlan.copies,
         p \notin ToGo \cup KeptDocs,
         \/ work'.copies = work.copies /\ p \notin Range(report.idx)
         \/ \E d \in work.copies : /\ p = d.to /\ d.from \in DOMAIN store /\ c = store[d.from]
                                   /\ work'.copies = work.copies \ {d}
  PROVE  StoreKept'
<1>1. /\ DOMAIN store' = DOMAIN store \cup {p} /\ store'[p] = c
      /\ \A q \in DOMAIN store : q # p => store'[q] = store[q]
  BY PutFacts
<1>2. /\ ToGo' = ToGo /\ KeptDocs' = KeptDocs /\ SeenPlan' = SeenPlan
  BY DEF ToGo, KeptDocs, LostDocs, FreshDocs, SeenPlan, SeenState, SeenIndex
<1>3. \A d \in SeenPlan.copies :
        /\ d.from \in SeenPlan.deleted /\ d.to \in Range(report.idx) \ DOMAIN report.of
        /\ \A e \in SeenPlan.copies : d.to = e.to => d = e
  BY SeenMoves
<1>4. \A d \in SeenPlan.copies : d.from # p
  BY <1>3 DEF ToGo
<1>5. p \in Range(report.idx) => p \notin DOMAIN report.of
  BY <1>3
<1>6. ASSUME NEW d \in SeenPlan.copies PROVE Moving(d)'
  <2>1. Moving(d)
    BY DEF StoreKept
  <2>2. CASE work'.copies = work.copies /\ p \notin Range(report.idx)
    BY <1>1, <1>3, <1>4, <2>1, <2>2 DEF Moving
  <2>3. ASSUME NEW e \in work.copies, p = e.to, e.from \in DOMAIN store, c = store[e.from],
               work'.copies = work.copies \ {e}
        PROVE  Moving(d)'
    <3>1. Moving(e)
      BY DEF StoreKept
    <3>2. CASE d = e
      BY <1>1, <2>3, <3>1, <3>2 DEF Moving
    <3>3. CASE d # e
      <4>1. d.to # p
        BY <1>3, <2>3, <3>3
      <4> QED BY <1>1, <1>4, <2>1, <2>3, <3>3, <4>1 DEF Moving
    <3> QED BY <3>2, <3>3
  <2> QED BY <2>2, <2>3
<1>7. \A q \in (Range(report.idx) \cup KeptDocs) \cap DOMAIN report.of :
        q \in DOMAIN store' /\ store'[q] = report.of[q]
  BY <1>1, <1>5 DEF StoreKept
<1> QED BY <1>1, <1>2, <1>6, <1>7 DEF StoreKept

LEMMA DeleteKept ==
  ASSUME ReportInv, report # NoReport, StoreKept, NEW p, StoreDelete(p),
         report' = report, work.copies = {}, work'.copies = {}, p \in ToGo \cup {RepomdAsc},
         Doomed' \subseteq Doomed, Doomed \subseteq {p} \cup Doomed'
  PROVE  StoreKept'
<1>1. DOMAIN store' = DOMAIN store \ {p} /\ \A q \in DOMAIN store' : store'[q] = store[q]
  BY DeleteFacts
<1>2. /\ ToGo' = ToGo /\ KeptDocs' = KeptDocs /\ SeenPlan' = SeenPlan
  BY DEF ToGo, KeptDocs, LostDocs, FreshDocs, SeenPlan, SeenState, SeenIndex
<1>3. p \notin Range(report.idx) \cup KeptDocs
  BY ToGoFacts
<1>4. \A d \in SeenPlan.copies : d.to \in Range(report.idx)
  BY SeenMoves
<1>5. \A d \in SeenPlan.copies : Moving(d)'
  BY <1>1, <1>3, <1>4 DEF StoreKept, Moving
<1> QED BY <1>1, <1>2, <1>3, <1>5 DEF StoreKept

LEMMA CommitUnderway ==
  ASSUME Analysed, RepoInv, TakeoverInv, CommitForeseen, Foresees
  PROVE  ForeseenInv'
<1>1. /\ Commit /\ report' = report
      /\ report # NoReport /\ report.of = store /\ report.opt = opt /\ report.idx = idx
  BY DEF CommitForeseen, Foresees
<1>2. /\ mode = "open" /\ mode' = "publishing" /\ work' = CommitSteps /\ store' = store
      /\ clock' = clock + 1 /\ idx' = idx /\ old' = old /\ replaced' = replaced /\ opt' = opt
      /\ ~CommitRefused(idx)
  BY <1>1 DEF Commit, session
<1>3. /\ "takeover" \in use.calls /\ Repomd \in DOMAIN store /\ PlainOptions
      /\ idx \in Indexes /\ opt \in Options
  BY <1>1, <1>2, OpenFacts DEF TakeoverInv, ReportInv, LoadedInv
<1>4. old = SeenIndex /\ original = SeenIndex.at /\ copied = {} /\ replaced = FALSE
  BY <1>1, <1>2, <1>3, OpenFacts DEF SeenIndex, Current, TakeoverInv, NoCopy
<1>5. pending = <<>> /\ opt.force = FALSE
  BY <1>2, <1>3 DEF RepoInv, SessionInv, SessionTyped, Analysed, PlainOptions, Options
<1>6. PlanState(idx) = SeenState
  BY <1>1, <1>4, <1>5 DEF PlanState, SeenState
<1>7. ~Refuses(report.of, SeenState)
  BY <1>1, <1>2, <1>6 DEF CommitRefused
<1>8. /\ CommitSteps.copies = SeenPlan.copies /\ CommitSteps.uploads = SeenPlan.uploads
      /\ CommitSteps.metadata = MetadataFiles(Documents(idx))
      /\ CommitSteps.gc = <<ObsoleteMeta(idx), SeenPlan.deleted,
                            UnreferencedRpms(SeenPlan.deleted), StaleMetadata>>
  BY <1>1, <1>6 DEF CommitSteps, SeenPlan
<1>9. SeenPlan.uploads = {}
  <2>1. Uploaded(report.of, SeenState) = {}
    BY NoneYet DEF Uploaded, Overwritten, Staged, SeenState
  <2> QED BY <2>1 DEF SeenPlan, PlanFiles
<1>10. UnreferencedRpms(SeenPlan.deleted) = {} /\ StaleMetadata = {}
  BY <1>3 DEF UnreferencedRpms, StaleMetadata, PlainOptions
<1>11. Carried = KeptDocs /\ NewDocuments = FreshDocs
  BY <1>1, <1>4 DEF Carried, KeptDocs, NewDocuments, FreshDocs
<1>12. ObsoleteMeta(idx) = LostDocs
  <2>1. NewIndex(idx).docs = FreshDocs \cup KeptDocs
    BY <1>2, <1>11, NewIndexFacts DEF NewDocuments
  <2> QED BY <1>4, <2>1 DEF ObsoleteMeta, LostDocs
<1>13. UNION Range(CommitSteps.gc) = ToGo
  <2> DEFINE g == CommitSteps.gc
  <2>1. DOMAIN g = 1 .. 4 /\ g[1] = LostDocs /\ g[2] = SeenPlan.deleted /\ g[3] = {} /\ g[4] = {}
    BY <1>8, <1>10, <1>12
  <2> HIDE DEF g
  <2>2. Range(g) = {LostDocs, SeenPlan.deleted, {}}
    BY <2>1 DEF Range
  <2> QED BY <2>2 DEF ToGo, g
<1>14. /\ ToGo' = ToGo /\ KeptDocs' = KeptDocs /\ SeenPlan' = SeenPlan /\ FreshDocs' = FreshDocs
       /\ SeenIndex' = SeenIndex /\ SeenState' = SeenState
  BY <1>1 DEF ToGo, KeptDocs, LostDocs, FreshDocs, SeenPlan, SeenState, SeenIndex
<1>15. ReportInv
  BY DEF TakeoverInv
<1>16. StoreKept'
  <2>1. Doomed' = ToGo
    BY <1>2, <1>13 DEF Doomed
  <2>2. \A c \in SeenPlan.copies : Moving(c)'
    BY <1>1, <1>2, <1>8 DEF Moving
  <2> QED BY <1>1, <1>2, <1>14, <2>1, <2>2 DEF StoreKept
<1>17. \A s \in Range(CommitSteps.metadata) : s.to \in FreshDocs
  BY <1>1, <1>3, <1>8, DocumentsFacts DEF FreshDocs
<1>18. \A d \in FreshDocs : Arriving(d, d)'
  <2>1. Puts(CommitSteps) = {[to |-> d, data |-> d] : d \in FreshDocs}
    BY <1>1, <1>3, <1>8, <1>9, DocumentsFacts DEF Puts, FreshDocs
  <2> TAKE d \in FreshDocs
  <2>2. /\ \A u \in Puts(CommitSteps) : u.to = d => u.data = d
        /\ [to |-> d, data |-> d] \in Puts(CommitSteps)
    BY <2>1
  <2> QED BY <1>2, <2>2 DEF Arriving
<1>19. /\ SwapArriving(Repomd, Target)'
       /\ opt.signed => SwapArriving(RepomdAsc, Signature(Signer, Target))'
  BY <1>1, CommitSwap
<1>20. Underway'
  BY <1>2, <1>8, <1>9, <1>14, <1>16, <1>17, <1>18, <1>19 DEF Underway
<1> QED BY <1>1, <1>2, <1>4, <1>7, <1>14, <1>20 DEF ForeseenInv

LEMMA KeepUnderway ==
  ASSUME RepoInv, ReportInv, report # NoReport, report' = report, Underway, Publishing,
         idx = report.idx, opt = report.opt
  PROVE  Underway'
<1>1. /\ mode = "publishing" /\ Step /\ idx' = idx /\ old' = old /\ replaced' = replaced
      /\ clock' = clock /\ opt' = opt
  BY DEF Publishing, session
<1>2. work \in Shape(Movable, Uploadable, Describable, Swappable, {RepomdAsc}, Doomed)
  BY DEF RepoInv, WorkInv, RpmShape
<1>3. /\ FreshDocs' = FreshDocs /\ SeenPlan' = SeenPlan /\ Target' = Target
  BY <1>1 DEF FreshDocs, SeenPlan, SeenState, SeenIndex, Target, NewDocuments, Carried
<1>4. work.uploads = {} /\ ~UploadOne
  BY DEF Underway, UploadOne, Uploading
<1>5. \A d \in SeenPlan.copies : d.to \in Range(report.idx)
  BY SeenMoves
<1>6. \A d \in FreshDocs : Arriving(d, d)'
  <2> TAKE d \in FreshDocs
  <2>1. d \notin {Repomd, RepomdAsc} \cup Doomed /\ \A c \in work.copies : c.to # d
    BY <1>5, ToGoFacts DEF Underway, StoreKept
  <2> QED BY <2>1, ArrivingKept DEF Underway
<1>7. SwapArriving(Repomd, Target)'
  <2>1. PICK c : c = Target
    OBVIOUS
  <2>2. SwapArriving(Repomd, c)'
    BY <2>1, SwapArrivingKept, PathKinds DEF Underway
  <2> QED BY <1>3, <2>1, <2>2 DEF SwapArriving
<1>8. opt'.signed => SwapArriving(RepomdAsc, Signature(Signer, Target))'
  <2> SUFFICES ASSUME opt.signed PROVE SwapArriving(RepomdAsc, Signature(Signer, Target))'
    BY <1>1
  <2>1. PICK c : c = Signature(Signer, Target)
    OBVIOUS
  <2>2. work.retract = <<>>
    BY <1>1 DEF RepoInv, SignatureInv
  <2>3. SwapArriving(RepomdAsc, c)'
    BY <2>1, <2>2, SwapArrivingKept DEF Underway
  <2> QED BY <1>3, <2>1, <2>3 DEF SwapArriving
<1>9. work.copies \subseteq SeenPlan.copies /\ StoreKept
  BY DEF Underway
<1> DEFINE Rest == /\ work'.uploads = {} /\ work'.copies \subseteq work.copies
                   /\ Range(work'.metadata) \subseteq Range(work.metadata)
<1>10. ASSUME CopyOne PROVE Rest /\ StoreKept'
  <2>1. /\ work'.uploads = work.uploads /\ work'.metadata = work.metadata /\ work'.gc = work.gc
        /\ \E c \in work.copies :
             c.from \in DOMAIN store /\ StorePut(c.to, store[c.from]) /\ work'.copies = work.copies \ {c}
    BY <1>2, <1>10, CopyOneFields
  <2>2. PICK c \in work.copies :
          c.from \in DOMAIN store /\ StorePut(c.to, store[c.from]) /\ work'.copies = work.copies \ {c}
    BY <2>1
  <2>3. c.to \notin ToGo \cup KeptDocs /\ Doomed' = Doomed
    BY <1>5, <1>9, <2>1, ToGoFacts DEF Doomed
  <2>4. StoreKept'
    BY <1>9, <2>2, <2>3, PutKept
  <2> QED BY <1>4, <2>1, <2>2, <2>4
<1>11. ASSUME WriteMetadata PROVE Rest /\ StoreKept'
  <2> DEFINE u == Head(work.metadata)
  <2>1. /\ work.uploads = {} /\ work'.uploads = {} /\ work.copies = {} /\ work'.copies = {}
        /\ u \in Range(work.metadata) /\ StorePut(u.to, u.data)
        /\ Range(work'.metadata) \subseteq Range(work.metadata)
        /\ work'.gc = work.gc
    BY <1>2, <1>11, WriteMetadataFields
  <2> HIDE DEF u
  <2>2. u.to \in FreshDocs /\ Doomed' = Doomed
    BY <2>1 DEF Underway, Doomed
  <2>3. u.to \notin ToGo \cup KeptDocs /\ u.to \notin Range(report.idx)
    BY <2>2, ToGoFacts
  <2>4. StoreKept'
    BY <1>9, <2>1, <2>2, <2>3, PutKept
  <2> QED BY <2>1, <2>4
<1>12. ASSUME SwapOne PROVE Rest /\ StoreKept'
  <2> DEFINE s == Head(work.swap)
  <2>1. /\ work.copies = {} /\ work'.copies = {} /\ Puts(work') = {}
        /\ s \in Swappable /\ StorePut(s.to, s.data) /\ work'.gc = work.gc
    BY <1>2, <1>12, SwapOneFields
  <2> HIDE DEF s
  <2>2. s.to \in {Repomd, RepomdAsc} /\ Doomed' = Doomed
    BY <2>1 DEF Swappable, IndexFile, SignatureFile, Doomed
  <2>3. s.to \notin ToGo \cup KeptDocs /\ s.to \notin Range(report.idx)
    BY <2>2, ToGoFacts
  <2>4. StoreKept'
    BY <1>9, <2>1, <2>2, <2>3, PutKept
  <2> QED BY <2>1, <2>4 DEF Puts
<1>13. ASSUME RetractOne PROVE Rest /\ StoreKept'
  <2> DEFINE h == Head(work.retract)
  <2>1. /\ work.copies = {} /\ work'.copies = {} /\ Puts(work') = {}
        /\ h \in {RepomdAsc} /\ StoreDelete(h) /\ work'.gc = work.gc
    BY <1>2, <1>13, RetractOneFields
  <2> HIDE DEF h
  <2>2. Doomed' = Doomed
    BY <2>1 DEF Doomed
  <2>3. StoreKept'
    BY <1>9, <2>1, <2>2, DeleteKept
  <2> QED BY <2>1, <2>3 DEF Puts
<1>14. ASSUME CollectOne PROVE Rest /\ StoreKept'
  <2>1. /\ work.copies = {} /\ work'.copies = {} /\ Puts(work') = {}
        /\ Doomed' \subseteq Doomed
        /\ \/ UNCHANGED store /\ Doomed \subseteq Doomed'
           \/ \E p \in Doomed : StoreDelete(p) /\ Doomed \subseteq {p} \cup Doomed'
    BY <1>2, <1>14, CollectOneFields DEF Doomed
  <2>2. CASE UNCHANGED store /\ Doomed \subseteq Doomed'
    <3>1. /\ Doomed' = Doomed /\ store' = store /\ ToGo' = ToGo /\ KeptDocs' = KeptDocs
      BY <2>1, <2>2 DEF ToGo, KeptDocs, LostDocs, FreshDocs, SeenPlan, SeenState, SeenIndex
    <3>2. \A c \in SeenPlan.copies : Moving(c)'
      BY <1>9, <2>1, <3>1 DEF StoreKept, Moving
    <3>3. StoreKept'
      BY <1>3, <1>9, <3>1, <3>2 DEF StoreKept
    <3> QED BY <2>1, <3>3 DEF Puts
  <2>3. ASSUME NEW p \in Doomed, StoreDelete(p), Doomed \subseteq {p} \cup Doomed'
        PROVE  Rest /\ StoreKept'
    <3>1. StoreKept'
      BY <1>9, <2>1, <2>3, DeleteKept DEF StoreKept
    <3> QED BY <2>1, <3>1 DEF Puts
  <2> QED BY <2>1, <2>2, <2>3
<1>15. Rest /\ StoreKept'
  BY <1>1, <1>4, <1>10, <1>11, <1>12, <1>13, <1>14 DEF Step
<1> QED BY <1>3, <1>6, <1>7, <1>8, <1>9, <1>15 DEF Underway

LEMMA LoadedStep ==
  ASSUME Analysed, RepoInv, LoadedInv, [Next]_rpmVars
  PROVE  LoadedInv' /\ use' = use
<1>1. CASE UNCHANGED rpmVars
  BY <1>1 DEF rpmVars, session, LoadedInv, PlainOptions
<1>2. CASE Open
  <2>1. /\ idx' = AntiFunction(Current.at) /\ old' = Current /\ opt' \in use.options
        /\ use' = use /\ use \in Uses
    BY <1>2 DEF Open, Load, RepoInv, SessionTyped
  <2> QED BY <2>1 DEF LoadedInv, Analysed, PlainOptions
<1>3. CASE Mutate
  <2>1. PICK name : Call(name) /\ (opt' = opt \/ name = "resign")
    BY <1>3 DEF Mutate, AddRPM, RemoveNEVRA, PruneOlderVersions, RelocateAll, ResignAll, Refresh
  <2>2. /\ mode = "open" /\ name \in use.calls /\ calls' = calls + 1 /\ use' = use
        /\ use \in Uses /\ calls \in Nat
    BY <2>1 DEF Call, RepoInv, SessionTyped
  <2>3. calls' # 0 /\ ("takeover" \in use.calls => opt' = opt)
    BY <2>1, <2>2 DEF Analysed
  <2> QED BY <2>2, <2>3 DEF LoadedInv, PlainOptions
<1>4. CASE Commit \/ Abandon \/ Publishing \/ Finish \/ CutShort
  BY <1>4 DEF Commit, Abandon, Publishing, Finish, CutShort, Forget, session, LoadedInv
<1> QED BY <1>1, <1>2, <1>3, <1>4 DEF Next

LEMMA TakeoverStep ==
  ASSUME RpmFiles, Analysed, RepoInv, TakeoverInv, [TakeoverNext]_takeoverVars, [Next]_rpmVars
  PROVE  TakeoverInv'
<1>1. NoCopy' /\ LoadedInv' /\ use' = use
  BY LoadedStep, NextNoCopy DEF TakeoverInv
<1>2. report' = report => ReportInv'
  BY <1>1 DEF TakeoverInv, ReportInv, OK, SeenIndex, SeenState, SeenPlan, FreshDocs, KeptDocs, LostDocs, SeenTrue
<1>3. ASSUME NEW f \in TakeoverFlags, Analyze(f) PROVE ReportInv' /\ ForeseenInv'
  <2>1. ReportInv'
    BY <1>3, AnalyzeReport DEF TakeoverInv
  <2>2. ~foreseen'
    BY <1>3 DEF Analyze, TakeoverInv, ForeseenInv
  <2> QED BY <2>1, <2>2 DEF ForeseenInv
<1>4. CASE CommitForeseen
  <2>1. report' = report /\ foreseen' = Foresees
    BY <1>4 DEF CommitForeseen
  <2>2. ForeseenInv'
    BY <1>4, <2>1, CommitUnderway DEF ForeseenInv
  <2> QED BY <1>1, <1>2, <2>1, <2>2 DEF TakeoverInv
<1>5. CASE EndPublish
  BY <1>1, <1>5 DEF EndPublish, TakeoverInv, ReportInv, ForeseenInv
<1>6. CASE (Open \/ Mutate \/ Abandon) /\ UNCHANGED <<report, foreseen>>
  <2>1. mode # "publishing"
    BY <1>6 DEF Open, Load, Mutate, AddRPM, RemoveNEVRA, PruneOlderVersions, RelocateAll, ResignAll,
                Refresh, Call, Abandon
  <2> QED BY <1>1, <1>2, <1>6, <2>1 DEF TakeoverInv, ForeseenInv
<1>7. CASE Publishing /\ UNCHANGED <<report, foreseen>>
  <2>1. /\ mode' = mode /\ idx' = idx /\ opt' = opt /\ old' = old
        /\ SeenIndex' = SeenIndex /\ SeenState' = SeenState
    BY <1>7 DEF Publishing, session, SeenIndex, SeenState
  <2>2. ASSUME foreseen PROVE Underway'
    BY <1>7, <2>2, KeepUnderway DEF TakeoverInv, ForeseenInv
  <2> QED BY <1>1, <1>2, <1>7, <2>1, <2>2 DEF TakeoverInv, ForeseenInv
<1>8. CASE UNCHANGED takeoverVars
  <2>1. /\ report' = report /\ foreseen' = foreseen /\ store' = store /\ work' = work /\ mode' = mode
        /\ UNCHANGED session /\ clock' = clock
    BY <1>8 DEF takeoverVars, rpmVars
  <2>2. Underway => Underway'
    BY <2>1 DEF session, Underway, StoreKept, Moving, Arriving, SwapArriving, Puts, Target, NewDocuments,
                Carried, FreshDocs, KeptDocs, LostDocs, ToGo, SeenPlan, SeenState, SeenIndex, Doomed
  <2> QED BY <1>1, <1>2, <2>1, <2>2 DEF session, TakeoverInv, ForeseenInv, SeenIndex, SeenState
<1> QED BY <1>1, <1>3, <1>4, <1>5, <1>6, <1>7, <1>8 DEF TakeoverNext, TakeoverInv

LEMMA TakeoverSpecInv ==
  ASSUME RpmFiles, Analysed
  PROVE  TakeoverSpec => [](RepoInv /\ TakeoverInv)
<1>1. TakeoverInit => TakeoverInv
  BY DEF TakeoverInit, Init, TakeoverInv, NoCopy, LoadedInv, ReportInv, ForeseenInv
<1>2. RepoInv /\ TakeoverInv /\ [TakeoverNext]_takeoverVars /\ [Next]_rpmVars => TakeoverInv'
  BY TakeoverStep
<1>3. TakeoverSpec => Spec /\ [][Next]_rpmVars
  BY TakeoverImplements, PTL DEF Spec
<1> QED BY <1>1, <1>2, <1>3, SpecInv, PTL DEF TakeoverSpec

\* What holds when the publish a report is about has ended.
LEMMA ForeseenEnd ==
  ASSUME RepoInv, TakeoverInv, Finish, foreseen
  PROVE  /\ Repomd \in DOMAIN store /\ store[Repomd] = Target
         /\ Target \in Root /\ Target.docs = FreshDocs \cup KeptDocs
         /\ Target.at = ByLocation(report.idx)
         /\ report.opt.signed =>
              RepomdAsc \in DOMAIN store /\ store[RepomdAsc] = Signature(Signer, store[Repomd])
         /\ \A d \in FreshDocs : d \in DOMAIN store /\ store[d] = d
         /\ ToGo \cap DOMAIN store = {}
         /\ DOMAIN report.of \ DOMAIN store \subseteq ToGo \cup {RepomdAsc}
         /\ \A p \in (Range(report.idx) \cup KeptDocs) \cap DOMAIN report.of :
              p \in DOMAIN store /\ store[p] = report.of[p]
         /\ \A c \in SeenPlan.copies :
              c.from \in DOMAIN report.of /\ c.to \in DOMAIN store /\ store[c.to] = report.of[c.from]
<1>1. /\ work = NoSteps /\ idx = report.idx /\ opt = report.opt /\ old = SeenIndex /\ Underway
      /\ replaced = FALSE
  BY DEF Finish, TakeoverInv, NoCopy, ForeseenInv
<1>2. work.copies = {} /\ Range(work.swap) = {} /\ Puts(work) = {} /\ Doomed = {}
  BY <1>1 DEF NoSteps, Range, Puts, Doomed
<1>3. Repomd \in DOMAIN store /\ store[Repomd] = Target
  BY <1>1, <1>2 DEF Underway, SwapArriving
<1>4. opt.signed => RepomdAsc \in DOMAIN store /\ store[RepomdAsc] = Signature(Signer, Target)
  BY <1>1, <1>2 DEF Underway, SwapArriving
<1>5. Target.docs = FreshDocs \cup KeptDocs /\ Target.at = ByLocation(report.idx)
  BY <1>1 DEF Target, NewDocuments, FreshDocs, Carried, KeptDocs
<1>6. Target \in Root
  BY <1>3 DEF RepoInv, StoreInv
<1>7. \A d \in FreshDocs : d \in DOMAIN store /\ store[d] = d
  BY <1>1, <1>2 DEF Underway, Arriving
<1>8. StoreKept
  BY <1>1 DEF Underway
<1> QED BY <1>1, <1>2, <1>3, <1>4, <1>5, <1>6, <1>7, <1>8 DEF StoreKept, Moving

\* A republish with the settings that were analysed does to the files and the
\* documents what the report says, whatever the repository and the settings.
THEOREM RpmTakeoverForesees ==
  ASSUME RpmFiles, Analysed
  PROVE  TakeoverSpec => TakeoverForesees
<1> DEFINE gone == DOMAIN report.of \ DOMAIN store
<1>1. ASSUME RepoInv, TakeoverInv, Finish, foreseen
      PROVE  /\ gone \ {RepomdAsc} = (report.deleted \cup report.moved) \cap DOMAIN report.of
             /\ \A p \in report.moved : report.of[p] \in Range(store)
             /\ "metadata-dropped" \in report.advisory <=>
                  \E d \in report.of[Repomd].docs \ store[Repomd].docs : d.type \notin Listings
  <2>1. report # NoReport /\ ReportInv
    BY <1>1 DEF TakeoverInv, ForeseenInv
  <2>2. /\ report.moved = {c.from : c \in SeenPlan.copies}
        /\ report.deleted = LostDocs \cup (SeenPlan.deleted \ report.moved)
        /\ "metadata-dropped" \in report.advisory <=> \E d \in SeenIndex.docs : d.type \in Derived \ Listings
    BY <2>1 DEF ReportInv
  <2>3. \A c \in SeenPlan.copies : c.from \in SeenPlan.deleted
    BY <2>1, SeenMoves
  <2>4. report.deleted \cup report.moved = ToGo
    BY <2>2, <2>3 DEF ToGo
  <2>5. gone \ {RepomdAsc} = ToGo \cap DOMAIN report.of
    <3>1. RepomdAsc \notin ToGo
      BY <2>1, ToGoFacts
    <3> QED BY <1>1, <3>1, ForeseenEnd
  <2>6. \A p \in report.moved : report.of[p] \in Range(store)
    BY <1>1, <2>2, ForeseenEnd DEF Range
  <2>7. SeenIndex.docs \ store[Repomd].docs = {d \in SeenIndex.docs : d.type \in Derived} \ FreshDocs
    BY <1>1, ForeseenEnd DEF KeptDocs
  <2>8. \A d \in FreshDocs : d.type \in Listings
    BY DEF FreshDocs, Primary, Filelists, Listings
  <2>9. (\E d \in SeenIndex.docs : d.type \in Derived \ Listings) <=>
          \E d \in SeenIndex.docs \ store[Repomd].docs : d.type \notin Listings
    BY <2>7, <2>8
  <2> QED BY <2>2, <2>4, <2>5, <2>6, <2>9 DEF SeenIndex
<1>2. RepoInv /\ TakeoverInv =>
        (Finish /\ foreseen =>
           LET lost == DOMAIN report.of \ DOMAIN store IN
           /\ lost \ {RepomdAsc} = (report.deleted \cup report.moved) \cap DOMAIN report.of
           /\ \A p \in report.moved : report.of[p] \in Range(store)
           /\ "metadata-dropped" \in report.advisory <=>
                \E d \in report.of[Repomd].docs \ store[Repomd].docs : d.type \notin Listings)
  BY <1>1
<1> QED BY <1>2, TakeoverSpecInv, PTL DEF TakeoverForesees, TakeoverSpec

\* A report with nothing blocking is borne out: the signer and the documents are
\* kept, and clients can read what they could, unless the files are confused.
THEOREM RpmTakeoverSafe ==
  ASSUME RpmFiles, Analysed
  PROVE  TakeoverSpec => TakeoverSafe
<1> DEFINE Missed == {d \in report.of[Repomd].docs : d \notin DOMAIN report.of \/ report.of[d] # d}
<1>1. ASSUME RepoInv, TakeoverInv, Finish, foreseen, OK
      PROVE  /\ KeepsSignature /\ KeepsDocuments
             /\ \/ Confused
                \/ ~report.read /\ ~report.whole
                \/ Amiss(store[Repomd]) \subseteq Missed
  <2>1. report # NoReport /\ ReportInv /\ ~Refuses(report.of, SeenState)
    BY <1>1 DEF TakeoverInv, ForeseenInv
  <2>2. KeepsSignature
    BY <1>1, <2>1, ForeseenEnd DEF KeepsSignature, ReportInv, Signature
  <2>3. KeepsDocuments
    BY <1>1, ForeseenEnd DEF KeepsDocuments, KeptDocs, SeenIndex
  <2>4. ASSUME ~Confused, report.read \/ report.whole, NEW p \in Amiss(store[Repomd])
        PROVE  p \in Missed
    <3>1. /\ SeenTrue /\ report.idx \in Indexes
          /\ \A q \in report.moved : report.of[q] = SeenIndex.at[q]
          /\ report.moved = {c.from : c \in SeenPlan.copies}
      BY <1>1, <2>1, <2>4 DEF ReportInv, Confused, SeenIndex
    <3>2. /\ DOMAIN Needs(Target) = Target.docs \cup DOMAIN Target.at
          /\ \A d \in Target.docs : Needs(Target)[d] = d
          /\ \A l \in DOMAIN Target.at : Needs(Target)[l] = Target.at[l]
      BY <1>1, ForeseenEnd, NeedsOfRoot
    <3>3. /\ p \in Target.docs \cup DOMAIN Target.at
          /\ p \notin DOMAIN store \/ store[p] # Needs(Target)[p]
      BY <1>1, <2>4, <3>2, ForeseenEnd DEF Amiss
    <3>4. CASE p \in FreshDocs
      BY <1>1, <3>2, <3>3, <3>4, ForeseenEnd
    <3>5. CASE p \in KeptDocs
      <4>1. p \in SeenIndex.docs /\ (p \notin DOMAIN store \/ store[p] # p)
        BY <1>1, <3>2, <3>3, <3>5, ForeseenEnd DEF KeptDocs
      <4>2. p \in DOMAIN report.of => p \in DOMAIN store /\ store[p] = report.of[p]
        BY <1>1, <3>5, ForeseenEnd
      <4> QED BY <4>1, <4>2 DEF SeenIndex
    <3>6. CASE p \in DOMAIN Target.at
      <4> DEFINE r == ByLocation(report.idx)[p]
      <4>1. /\ Target.at = ByLocation(report.idx) /\ DOMAIN ByLocation(report.idx) = Range(report.idx)
            /\ p \in Range(report.idx) /\ r \in DOMAIN report.idx /\ report.idx[r] = p
        BY <1>1, <3>1, <3>6, ForeseenEnd, IndexByLocation
      <4> HIDE DEF r
      <4>2. p \notin DOMAIN store \/ store[p] # r
        BY <3>2, <3>3, <3>6, <4>1 DEF r
      <4>3. p \notin DOMAIN report.of
        <5> SUFFICES ASSUME p \in DOMAIN report.of PROVE FALSE
          OBVIOUS
        <5>1. report.of[p] = r
          BY <3>1, <4>1 DEF SeenTrue
        <5>2. p \in DOMAIN store /\ store[p] = report.of[p]
          BY <1>1, <4>1, ForeseenEnd
        <5> QED BY <4>2, <5>1, <5>2
      <4>4. p \notin DOMAIN SeenIndex.at
        BY <3>1, <4>3 DEF SeenTrue
      <4>5. p \in Unstaged(SeenState)
        BY <4>1, <4>4, NoneYet DEF Unstaged, Staged, SeenState
      <4>6. PICK c \in SeenPlan.copies : c.to = p
        <5>1. Relocatable(SeenState, p)
          BY <2>1, <4>3, <4>5 DEF Refuses, Unplaceable
        <5>2. p \in Moves(report.of, SeenState)
          BY <4>3, <4>5, <5>1 DEF Moves
        <5>3. Relocation(SeenState, p) \in SeenPlan.copies
          BY <5>2 DEF SeenPlan, PlanFiles
        <5> QED BY <5>3 DEF Relocation
      <4>7. p \in DOMAIN store /\ store[p] = report.of[c.from]
        BY <1>1, <4>6, ForeseenEnd
      <4>8. report.of[c.from] = SeenIndex.at[c.from] /\ SeenIndex.at[c.from] = r
        BY <2>1, <3>1, <4>6, SeenMoves DEF r
      <4> QED BY <4>2, <4>7, <4>8
    <3> QED BY <1>1, <3>3, <3>4, <3>5, <3>6, ForeseenEnd
  <2> QED BY <2>2, <2>3, <2>4
<1>2. RepoInv /\ TakeoverInv =>
        (Finish /\ foreseen /\ OK =>
           /\ KeepsSignature /\ KeepsDocuments
           /\ \/ Confused
              \/ ~report.read /\ ~report.whole
              \/ Amiss(store[Repomd]) \subseteq
                   {d \in report.of[Repomd].docs : d \notin DOMAIN report.of \/ report.of[d] # d})
  BY <1>1
<1> QED BY <1>2, TakeoverSpecInv, PTL DEF TakeoverSafe, TakeoverSpec

----------------------------------------------------------------------------
(* Copies.  A rebuilding copy is a session that writes packages before it  *)
(* publishes; an exact copy writes what the source has, index and all.     *)

\* Every set of paths has a first.
Ordered == \A P : P # {} => First(P) \in P

\* The source lists one build of a version.
SingleBuilds ==
  \A v \in DOMAIN SourceAt : LET listed == Range(SourceAt[v][Repomd].at) IN
    \A r, x \in listed : x \in Builds(r) => x = r

\* Neither the source nor what is found is a copy of something else.
Originals ==
  \A st \in Range(SourceAt) \cup {u.store : u \in Uses} :
    Config \in DOMAIN st => st[Config].copySource \in {"", Here}

Copying == {"exact", "exactConfig", "rebuild", "rebuildConfig"}

\* What is running, and since which version of the source.
CopyTyped ==
  /\ version \in DOMAIN SourceAt /\ unfinished \in Nat /\ unfinished <= version
  /\ job = NoJob \/ job.doing \in Copying
  /\ job.doing \in Copying => \E v \in 1 .. version : job.root = SourceAt[v][Repomd]
  /\ mode # "closed" <=> job.doing = "rebuild"

\* What an exact copy has been through is there, and it comes to the index after
\* the files, to the signature after the index.
ExactInv ==
  job.doing \in {"exact", "exactConfig"} =>
    /\ DOMAIN NamedBy(job.root) \cup {Repomd} \subseteq DOMAIN job.seen
    /\ \A p \in DOMAIN NamedBy(job.root) : job.seen[p] = NamedBy(job.root)[p]
    /\ job.todo \subseteq DOMAIN job.seen
    /\ Repomd \notin job.todo => job.todo \subseteq {RepomdAsc}
    /\ \A p \in DOMAIN NamedBy(job.root) \ job.todo :
         p \in DOMAIN store /\ store[p] = NamedBy(job.root)[p]
    /\ Repomd \notin job.todo =>
         Repomd \in DOMAIN store /\ (SourceStill => store[Repomd] = job.root)
    /\ SourceStill /\ RepomdAsc \in DOMAIN job.seen \ job.todo =>
         RepomdAsc \in DOMAIN store /\ store[RepomdAsc].signs = job.root

ExactEnded ==
  job.doing = "exactConfig" =>
    /\ job.todo = {}
    /\ job.prune => DOMAIN store \subseteq DOMAIN job.seen \cup {RepomdAsc}
    /\ job.sign => RepomdAsc \in DOMAIN store /\ store[RepomdAsc].signs = job.root

Transferred == job.chosen \ job.todo

\* What a rebuilding copy has transferred is where its index says, and the rest
\* of the index is as it was loaded.
RebuildInv ==
  job.doing = "rebuild" =>
    /\ pending = <<>> /\ original = old.at
    /\ job.todo \subseteq job.chosen /\ job.chosen \subseteq Range(job.root.at)
    /\ \A r \in DOMAIN idx :
         IF r \in Transferred THEN TrueOf(idx, r)
         ELSE r \in job.base /\ idx[r] \in DOMAIN original /\ original[idx[r]] = r

\* All of the index is arriving but what was there before.
CopiedAt == {l \in Range(idx) : ByLocation(idx)[l] \in job.chosen}

PublishInv ==
  mode = "publishing" =>
    /\ job.todo = {} /\ work.uploads = {}
    /\ ArrivingAt(CopiedAt)
    /\ Doomed \cap Carried = {}
    /\ (\E s \in Range(work.swap) : s.to = Repomd) => old = Current

\* The index of a copy that leaves nothing out, and what of it is published.
ChosenInv ==
  /\ job.doing = "rebuild" /\ ~opt.pruneOlder =>
       DOMAIN idx = Transferred \cup {x \in job.base : Builds(x) \cap Transferred = {}}
  /\ mode = "publishing" => ~LocationsClash(idx)

\* What is there can be loaded, and holds no other packages than these.
HoldsOnly(listed) == RepoExists => Loadable /\ Range(Current.at) \subseteq listed

\* What was begun in an empty place holds nothing the source has not.
Resuming ==
  /\ HoldsOnly(Range(Source[Repomd].at))
  /\ SourceStill
  /\ job.doing = "exact" => ~job.prune
  /\ job.doing = "rebuild" => job.base \subseteq Range(Source[Repomd].at)

ResumeInv ==
  /\ Config \in DOMAIN store => store[Config].copySource \in {"", Here}
  /\ unfinished = version => Resuming

CopyInv == RepoInv /\ CopyTyped /\ ExactInv /\ ExactEnded /\ RebuildInv /\ PublishInv

----------------------------------------------------------------------------
(* The source, and the parts of a copy.                                    *)

LEMMA SourceFacts ==
  ASSUME NEW v \in DOMAIN SourceAt
  PROVE  /\ Repomd \in DOMAIN SourceAt[v] /\ SourceAt[v][Repomd] \in Root
         /\ RepomdAsc \in DOMAIN SourceAt[v] =>
              /\ IsSignature(SourceAt[v][RepomdAsc])
              /\ SourceAt[v][RepomdAsc].signs = SourceAt[v][Repomd]
         /\ \A d \in DOMAIN SourceAt[v] : d \in Document => SourceAt[v][d] = d
         /\ \A l \in Locations \cap DOMAIN SourceAt[v] : SourceAt[v][l] \in Rpms \cup {Partial}
         /\ \A w \in DOMAIN SourceAt : SourceAt[w][Repomd] = SourceAt[v][Repomd] => w = v
<1>1. RepomdAsc \in DOMAIN SourceAt[v] =>
        SourceAt[v][RepomdAsc] = Signature(SourceAt[v][RepomdAsc].by, SourceAt[v][Repomd])
  BY SourceAssumption
<1>2. \A a, b : Signature(a, b).signs = b /\ IsSignature(Signature(a, b))
  BY DEF Signature, IsSignature
<1> QED BY <1>1, <1>2, SourceAssumption

LEMMA Versions ==
  /\ Len(SourceAt) \in Nat /\ Len(SourceAt) # 0 /\ DOMAIN SourceAt = 1 .. Len(SourceAt)
BY SourceAssumption

LEMMA NamedByFacts ==
  ASSUME NEW c \in Root
  PROVE  /\ DOMAIN NamedBy(c) = c.docs \cup DOMAIN c.at
         /\ c.docs \subseteq Document /\ DOMAIN c.at \subseteq Locations
         /\ \A p \in c.docs : NamedBy(c)[p] = p
         /\ \A p \in DOMAIN c.at : p \notin c.docs /\ NamedBy(c)[p] = c.at[p] /\ c.at[p] \in Rpms
         /\ \A p \in DOMAIN NamedBy(c) : p \notin {Repomd, RepomdAsc, Config}
         /\ RpmFiles => NamedBy(c) = Needs(c)
<1>1. c.docs \subseteq Document /\ DOMAIN c.at \subseteq Locations /\ IsRoot(c)
      /\ c.at \in [DOMAIN c.at -> Rpms]
  BY RootFields, PlacementDef
<1>2. ~IsRpm(Config) /\ ~IsDoc(Config)
  BY DEF Config, IsRpm, IsDoc
<1>3. \A p \in Document \cup Locations : p \notin {Repomd, RepomdAsc, Config}
  BY <1>2, PathKinds
<1>4. RpmFiles => NamedBy(c) = Needs(c)
  BY <1>1 DEF RpmFiles, RpmNeeds
<1> QED BY <1>1, <1>3, <1>4, PathKinds DEF NamedBy

LEMMA JobFacts ==
  ASSUME CopyTyped, job.doing \in Copying
  PROVE  /\ version \in DOMAIN SourceAt /\ Source = SourceAt[version]
         /\ job # NoJob
         /\ \E v \in DOMAIN SourceAt : v <= version /\ job.root = SourceAt[v][Repomd]
         /\ job.root \in Root
         /\ SourceStill <=> Source[Repomd] = job.root
<1>1. version \in DOMAIN SourceAt /\ Source = SourceAt[version]
  BY DEF CopyTyped, Source
<1>2. PICK v \in 1 .. version : job.root = SourceAt[v][Repomd]
  BY DEF CopyTyped
<1>3. v \in DOMAIN SourceAt /\ v <= version
  BY <1>1, <1>2, Versions
<1>4. job # NoJob
  <2>1. NoJob.doing = "nothing"
    BY DEF NoJob
  <2> QED BY <2>1 DEF Copying
<1> QED BY <1>1, <1>2, <1>3, <1>4, SourceFacts DEF SourceStill

----------------------------------------------------------------------------
(* An exact copy.                                                          *)

\* While nothing is loaded only the store can go wrong.
LEMMA ClosedInv ==
  ASSUME RepoInv, mode = "closed", StoreInv', UNCHANGED <<work, mode, session, calls, clock, stops>>
  PROVE  RepoInv'
BY DEF session, RepoInv, SessionTyped, SessionInv, WorkInv, Doomed, SignatureInv

\* What a copy writes at p fits there.
Fitting(p, c) ==
  /\ p = Repomd => c \in Root
  /\ p = RepomdAsc => Repomd \in DOMAIN store /\ IsSignature(c)
  /\ p \in Locations => c \in Rpms \cup {Partial}

LEMMA PutInv ==
  ASSUME StoreInv, NEW p, NEW c, Fitting(p, c), StorePut(p, c)
  PROVE  StoreInv'
<1>1. /\ DOMAIN store' = DOMAIN store \cup {p} /\ store'[p] = c
      /\ \A q \in DOMAIN store : q # p => store'[q] = store[q]
  BY PutFacts
<1>2. \A l \in Locations : l # Repomd /\ l # RepomdAsc
  BY PathKinds
<1>3. Repomd \in DOMAIN store' => store'[Repomd] \in Root
  BY <1>1 DEF StoreInv, Fitting
<1>4. RepomdAsc \in DOMAIN store' => Repomd \in DOMAIN store' /\ IsSignature(store'[RepomdAsc])
  BY <1>1, PathKinds DEF StoreInv, Fitting
<1>5. \A l \in Locations \cap DOMAIN store' : store'[l] \in Rpms \cup {Partial}
  BY <1>1 DEF StoreInv, Fitting
<1> QED BY <1>3, <1>4, <1>5 DEF StoreInv

\* The object that is next, and what the rank says of it.
LEMMA NextObject ==
  ASSUME RpmFiles, Ordered, CopyTyped, ExactInv, job.doing = "exact", job.todo # {},
         NEW p, p = First(Ranked(job.todo))
  PROVE  /\ p \in job.todo /\ p \in DOMAIN job.seen
         /\ p = Repomd => job.todo \subseteq {Repomd, RepomdAsc}
         /\ p = RepomdAsc => job.todo = {RepomdAsc}
<1>1. Ranked(job.todo) \subseteq job.todo /\ Ranked(job.todo) # {}
      /\ (Repomd \in Ranked(job.todo) => job.todo \subseteq IndexPaths)
      /\ (RepomdAsc \in Ranked(job.todo) => job.todo \subseteq IndexPaths /\ Repomd \notin job.todo)
  <2>1. CASE job.todo \ IndexPaths # {}
    <3>1. Ranked(job.todo) = job.todo \ IndexPaths
      BY <2>1 DEF Ranked
    <3> QED BY <2>1, <3>1 DEF RpmFiles
  <2>2. CASE job.todo \subseteq IndexPaths /\ Repomd \in job.todo
    <3>1. Ranked(job.todo) = {Repomd}
      BY <2>2 DEF Ranked
    <3> QED BY <2>2, <3>1, PathKinds DEF RpmFiles
  <2>3. CASE job.todo \subseteq IndexPaths /\ Repomd \notin job.todo
    <3>1. Ranked(job.todo) = job.todo
      BY <2>3 DEF Ranked
    <3> QED BY <2>3, <3>1, PathKinds DEF RpmFiles
  <2> QED BY <2>1, <2>2, <2>3
<1>2. p \in Ranked(job.todo)
  BY <1>1, Zenon DEF Ordered
<1>3. job.todo \subseteq DOMAIN job.seen
  BY DEF ExactInv
<1> QED BY <1>1, <1>2, <1>3, PathKinds DEF RpmFiles

\* What one object leaves in the store.
LEMMA ObjectFacts ==
  ASSUME RpmFiles, CanHash, Ordered, CopyTyped, ExactInv, CopyObject,
         NEW p, p = First(Ranked(job.todo))
  PROVE  /\ p \in job.todo /\ job' = [job EXCEPT !.todo = @ \ {p}] /\ p \in DOMAIN store'
         /\ \A q : q # p => (q \in DOMAIN store' <=> q \in DOMAIN store)
         /\ \A q \in DOMAIN store : q # p => store'[q] = store[q]
         /\ p \in DOMAIN NamedBy(job.root) => store'[p] = NamedBy(job.root)[p]
         /\ \/ p \in DOMAIN store /\ store' = store /\ p \notin {Repomd, RepomdAsc}
            \/ p \in DOMAIN Source /\ StorePut(p, Source[p]) /\ store'[p] = Source[p]
<1> DEFINE c       == job.seen[p]
           vouched == p \in DOMAIN NamedBy(job.root)
<1>1. /\ job.doing = "exact" /\ job.todo # {}
      /\ IF SameThere(p, c, vouched) /\ ~job.again
         THEN UNCHANGED store
         ELSE Fetchable(p, c, vouched) /\ StorePut(p, Source[p])
      /\ job' = [job EXCEPT !.todo = @ \ {p}]
  BY DEF CopyObject
<1>2. p \in job.todo
  BY <1>1, NextObject
<1>3. vouched => c = NamedBy(job.root)[p]
  BY <1>1 DEF ExactInv
<1>4. job.root \in Root
  BY <1>1, JobFacts DEF Copying
<1>5. p \in {Repomd, RepomdAsc} => ~vouched
  BY <1>4, NamedByFacts
<1> HIDE DEF c, vouched
<1>6. CASE SameThere(p, c, vouched) /\ ~job.again
  <2>1. store' = store /\ p \in DOMAIN store /\ (vouched => store[p] = c)
    BY <1>1, <1>6 DEF SameThere
  <2>2. p \notin {Repomd, RepomdAsc}
    BY <1>5, <1>6 DEF SameThere, Volatile
  <2> QED BY <1>1, <1>2, <1>3, <2>1, <2>2 DEF vouched
<1>7. CASE Fetchable(p, c, vouched) /\ StorePut(p, Source[p])
  <2>1. p \in DOMAIN Source /\ (vouched => Source[p] = c)
    BY <1>7 DEF Fetchable
  <2>2. /\ DOMAIN store' = DOMAIN store \cup {p} /\ store'[p] = Source[p]
        /\ \A q \in DOMAIN store : q # p => store'[q] = store[q]
    BY <1>7, PutFacts
  <2> QED BY <1>1, <1>2, <1>3, <1>7, <2>1, <2>2 DEF vouched
<1> QED BY <1>1, <1>6, <1>7

LEMMA BeginFacts ==
  ASSUME CopyTyped, NEW how, Begin(how)
  PROVE  /\ unfinished' \in Nat /\ unfinished' <= version
         /\ how = "new" => unfinished' = version
         /\ how = "continue" => unfinished' = unfinished
         /\ how \notin {"new", "continue"} => unfinished' = 0
<1>1. version \in Nat /\ 0 <= version
  BY Versions DEF CopyTyped
<1>2. how = "new" => unfinished' = version
  BY DEF Begin
<1>3. how = "continue" => unfinished' = unfinished
  BY DEF Begin
<1>4. how \notin {"new", "continue"} => unfinished' = 0
  BY DEF Begin
<1> QED BY <1>1, <1>2, <1>3, <1>4 DEF CopyTyped

\* A job of another version of the source is not of this one.
LEMMA VersionKept ==
  ASSUME CopyTyped, job' = job, unfinished' = unfinished, mode' = mode,
         SourcePublishes \/ version' = version
  PROVE  /\ CopyTyped'
         /\ job.doing \in Copying => (SourceStill' => SourceStill)
<1>1. CASE version' = version
  BY <1>1 DEF CopyTyped, SourceStill, Source
<1>2. CASE SourcePublishes
  <2>1. version' = version + 1 /\ version' \in DOMAIN SourceAt /\ version \in Nat
    BY <1>2, Versions DEF SourcePublishes, CopyTyped
  <2>2. CopyTyped'
    <3>1. \A v \in 1 .. version : v \in 1 .. version'
      BY <2>1
    <3>2. unfinished' <= version'
      BY <2>1 DEF CopyTyped
    <3> QED BY <2>1, <3>1, <3>2 DEF CopyTyped
  <2>3. ASSUME job.doing \in Copying PROVE ~SourceStill'
    <3>1. PICK v \in 1 .. version : job.root = SourceAt[v][Repomd]
      BY <2>3 DEF CopyTyped
    <3>2. v \in DOMAIN SourceAt /\ v # version'
      BY <2>1, Versions
    <3>3. SourceAt[version'][Repomd] # job.root
      BY <2>1, <3>1, <3>2, SourceFacts
    <3>4. job # NoJob
      BY <2>3, JobFacts
    <3> QED BY <3>3, <3>4 DEF SourceStill, Source
  <2> QED BY <2>2, <2>3
<1> QED BY <1>1, <1>2

\* Nothing is published and nothing is rebuilt.
LEMMA NotRebuilding ==
  ASSUME mode' = "closed", job'.doing # "rebuild"
  PROVE  RebuildInv' /\ PublishInv'
BY DEF RebuildInv, PublishInv

LEMMA StartExactInv ==
  ASSUME CopyInv, NEW how, StartExact(how)
  PROVE  CopyInv'
<1>1. /\ mode = "closed" /\ Begin(how)
      /\ UNCHANGED <<rpmVars, version>>
  BY DEF StartExact
<1>2. PICK f \in Flags :
        job' = [doing |-> "exact", again |-> f.again, sign |-> f.sign,
                prune |-> how = "overwrite" /\ RepoExists, root |-> Source[Repomd],
                seen  |-> Seen(f.listed), todo |-> DOMAIN Seen(f.listed)]
  BY DEF StartExact
<1>3. /\ job'.doing = "exact" /\ job'.root = Source[Repomd]
      /\ job'.seen = Seen(f.listed) /\ job'.todo = DOMAIN Seen(f.listed)
  BY <1>2
<1>4. /\ version \in DOMAIN SourceAt /\ Source = SourceAt[version] /\ version \in 1 .. version
      /\ Repomd \in DOMAIN Source
  BY Versions, SourceFacts DEF CopyInv, CopyTyped, Source
<1>5. /\ DOMAIN NamedBy(Source[Repomd]) \cup {Repomd} \subseteq DOMAIN Seen(f.listed)
      /\ \A p \in DOMAIN NamedBy(Source[Repomd]) : Seen(f.listed)[p] = NamedBy(Source[Repomd])[p]
  BY <1>4 DEF Seen
<1>6. RepoInv'
  BY <1>1 DEF CopyInv, rpmVars, session, RepoInv, StoreInv, SessionTyped, SessionInv, Current,
              WorkInv, Doomed, SignatureInv
<1>7. CopyTyped'
  BY <1>1, <1>3, <1>4, BeginFacts DEF CopyInv, CopyTyped, Copying, rpmVars
<1>8. ExactInv' /\ ExactEnded'
  BY <1>3, <1>5 DEF ExactInv, ExactEnded
<1> QED BY <1>1, <1>3, <1>6, <1>7, <1>8, NotRebuilding DEF CopyInv, rpmVars

LEMMA SourcePublishesInv ==
  ASSUME CopyInv, SourcePublishes \/ UNCHANGED copyVars
  PROVE  CopyInv'
<1>1. /\ UNCHANGED <<rpmVars, job, unfinished>>
      /\ SourcePublishes \/ version' = version
  BY DEF SourcePublishes, copyVars
<1>2. RepoInv'
  BY <1>1 DEF CopyInv, rpmVars, session, RepoInv, StoreInv, SessionTyped, SessionInv, Current,
              WorkInv, Doomed, SignatureInv
<1>3. CopyTyped' /\ (job.doing \in Copying => (SourceStill' => SourceStill))
  BY <1>1, VersionKept DEF CopyInv, rpmVars
<1>4. ExactInv' /\ ExactEnded'
  BY <1>1, <1>3 DEF CopyInv, ExactInv, ExactEnded, rpmVars, Copying
<1>5. RebuildInv'
  BY <1>1 DEF CopyInv, RebuildInv, Transferred, TrueOf, rpmVars, session
<1>6. PublishInv'
  BY <1>1 DEF CopyInv, PublishInv, rpmVars, session, ArrivingAt, Arriving, SwapArriving, CopiedAt,
              Doomed, Carried, Current, Target, NewDocuments, Puts
<1> QED BY <1>2, <1>3, <1>4, <1>5, <1>6 DEF CopyInv

\* A step of an exact copy that goes on, or has just ended.
LEMMA ExactTyped ==
  ASSUME CopyTyped, job.doing \in {"exact", "exactConfig"}, NEW j, job' = j, j # NoJob,
         j.root = job.root, j.doing \in {"exact", "exactConfig"},
         UNCHANGED <<mode, version, unfinished>>
  PROVE  CopyTyped' /\ (SourceStill' <=> SourceStill)
<1>1. mode = "closed" /\ job.doing \in Copying /\ j.doing \in Copying
  BY DEF CopyTyped, Copying
<1>2. CopyTyped'
  BY <1>1 DEF CopyTyped
<1>3. SourceStill' <=> SourceStill
  BY <1>1, JobFacts DEF SourceStill, Source
<1> QED BY <1>2, <1>3

LEMMA NotNothing ==
  /\ NoJob.doing = "nothing"
  /\ \A j : j.doing \in Copying => j # NoJob
<1>1. NoJob.doing = "nothing"
  BY DEF NoJob
<1> QED BY <1>1 DEF Copying

LEMMA CopyObjectInv ==
  ASSUME RpmFiles, CanHash, Ordered, CopyInv, CopyObject
  PROVE  CopyInv'
<1> DEFINE p == First(Ranked(job.todo))
<1>1. /\ job.doing = "exact" /\ job.todo # {}
      /\ UNCHANGED <<work, mode, session, calls, clock, stops, version, copies, unfinished>>
  BY DEF CopyObject
<1>2. /\ p \in job.todo /\ job' = [job EXCEPT !.todo = @ \ {p}] /\ p \in DOMAIN store'
      /\ \A q : q # p => (q \in DOMAIN store' <=> q \in DOMAIN store)
      /\ \A q \in DOMAIN store : q # p => store'[q] = store[q]
      /\ p \in DOMAIN NamedBy(job.root) => store'[p] = NamedBy(job.root)[p]
      /\ \/ p \in DOMAIN store /\ store' = store /\ p \notin {Repomd, RepomdAsc}
         \/ p \in DOMAIN Source /\ StorePut(p, Source[p]) /\ store'[p] = Source[p]
  BY ObjectFacts DEF CopyInv
<1>3. /\ p \in DOMAIN job.seen
      /\ p = Repomd => job.todo \subseteq {Repomd, RepomdAsc}
      /\ p = RepomdAsc => job.todo = {RepomdAsc}
  BY <1>1, NextObject DEF CopyInv
<1> HIDE DEF p
<1>4. /\ job'.doing = "exact" /\ job'.root = job.root /\ job'.seen = job.seen
      /\ job'.todo = job.todo \ {p} /\ job'.prune = job.prune
  BY <1>1, <1>2, NotNothing DEF ExactInv
<1>5. mode = "closed" /\ job.doing \in Copying
  BY <1>1 DEF CopyInv, CopyTyped, Copying
<1>6. version \in DOMAIN SourceAt /\ Source = SourceAt[version] /\ (SourceStill <=> Source[Repomd] = job.root)
  BY <1>5, JobFacts DEF CopyInv
<1>7. StoreInv'
  <2>1. CASE store' = store
    BY <2>1 DEF CopyInv, RepoInv, StoreInv
  <2>2. CASE p \in DOMAIN Source /\ StorePut(p, Source[p])
    <3>1. p = RepomdAsc => Repomd \in DOMAIN store
      BY <1>1, <1>3, PathKinds DEF CopyInv, ExactInv
    <3>2. Fitting(p, Source[p])
      BY <1>6, <2>2, <3>1, SourceFacts DEF Fitting
    <3> QED BY <2>2, <3>2, PutInv DEF CopyInv, RepoInv
  <2> QED BY <1>2, <2>1, <2>2
<1>8. RepoInv'
  BY <1>1, <1>5, <1>7, ClosedInv DEF CopyInv
<1>9. CopyTyped' /\ (SourceStill' <=> SourceStill)
  <2>1. job' # NoJob
    BY <1>4, NotNothing DEF Copying
  <2> QED BY <1>1, <1>4, <2>1, ExactTyped DEF CopyInv
<1>10. ExactInv'
  <2>1. Repomd \notin job.todo \ {p} => job.todo \ {p} \subseteq {RepomdAsc}
    BY <1>1, <1>3 DEF CopyInv, ExactInv
  <2>2. \A q \in DOMAIN NamedBy(job.root) \ (job.todo \ {p}) :
          q \in DOMAIN store' /\ store'[q] = NamedBy(job.root)[q]
    <3> TAKE q \in DOMAIN NamedBy(job.root) \ (job.todo \ {p})
    <3>1. CASE q = p
      BY <1>2, <3>1
    <3>2. CASE q # p
      BY <1>1, <1>2, <3>2 DEF CopyInv, ExactInv
    <3> QED BY <3>1, <3>2
  <2>3. Repomd \notin job.todo \ {p} =>
          Repomd \in DOMAIN store' /\ (SourceStill => store'[Repomd] = job.root)
    <3>1. CASE p = Repomd
      BY <1>2, <1>6, <3>1
    <3>2. CASE p # Repomd
      BY <1>1, <1>2, <3>2 DEF CopyInv, ExactInv
    <3> QED BY <3>1, <3>2
  <2>4. SourceStill /\ RepomdAsc \in DOMAIN job.seen \ (job.todo \ {p}) =>
          RepomdAsc \in DOMAIN store' /\ store'[RepomdAsc].signs = job.root
    <3>1. CASE p = RepomdAsc
      BY <1>2, <1>6, <3>1, SourceFacts
    <3>2. CASE p # RepomdAsc
      BY <1>1, <1>2, <3>2 DEF CopyInv, ExactInv
    <3> QED BY <3>1, <3>2
  <2>5. /\ DOMAIN NamedBy(job.root) \cup {Repomd} \subseteq DOMAIN job.seen
        /\ \A q \in DOMAIN NamedBy(job.root) : job.seen[q] = NamedBy(job.root)[q]
        /\ job.todo \ {p} \subseteq DOMAIN job.seen
    BY <1>1 DEF CopyInv, ExactInv
  <2> QED BY <1>4, <1>9, <2>1, <2>2, <2>3, <2>4, <2>5 DEF ExactInv
<1>11. ExactEnded'
  BY <1>4 DEF ExactEnded
<1> QED BY <1>1, <1>4, <1>5, <1>8, <1>9, <1>10, <1>11, NotRebuilding DEF CopyInv

LEMMA PruneObjectInv ==
  ASSUME Ordered, CopyInv, PruneObject
  PROVE  CopyInv'
<1> DEFINE p == First(Extraneous)
<1>1. /\ job.doing = "exact" /\ job.todo = {} /\ Extraneous # {} /\ StoreDelete(p)
      /\ UNCHANGED <<work, mode, session, calls, clock, stops, version, job, copies, unfinished>>
  BY DEF PruneObject
<1>2. p \in Extraneous
  BY <1>1 DEF Ordered
<1> HIDE DEF p
<1>3. p \in DOMAIN store \ DOMAIN job.seen
  BY <1>2 DEF Extraneous
<1>4. DOMAIN store' = DOMAIN store \ {p} /\ \A q \in DOMAIN store' : store'[q] = store[q]
  BY <1>1, DeleteFacts
<1>5. mode = "closed" /\ p \notin DOMAIN NamedBy(job.root) \cup {Repomd}
  BY <1>1, <1>3 DEF CopyInv, CopyTyped, ExactInv
<1>6. StoreInv'
  <2>1. Repomd \in DOMAIN store' <=> Repomd \in DOMAIN store
    BY <1>4, <1>5
  <2>2. \A l \in Locations \cap DOMAIN store' : store'[l] \in Rpms \cup {Partial}
    BY <1>4 DEF CopyInv, RepoInv, StoreInv
  <2> QED BY <1>4, <2>1, <2>2 DEF CopyInv, RepoInv, StoreInv
<1>7. RepoInv'
  BY <1>1, <1>5, <1>6, ClosedInv DEF CopyInv
<1>8. CopyTyped' /\ (SourceStill' <=> SourceStill)
  <2>1. job # NoJob
    BY <1>1, NotNothing DEF Copying
  <2> QED BY <1>1, <2>1, ExactTyped DEF CopyInv
<1>9. ExactInv'
  <2>1. /\ \A q \in DOMAIN NamedBy(job.root) : q \in DOMAIN store' /\ store'[q] = NamedBy(job.root)[q]
        /\ Repomd \in DOMAIN store' /\ (SourceStill => store'[Repomd] = job.root)
    BY <1>1, <1>4, <1>5 DEF CopyInv, ExactInv
  <2>2. SourceStill /\ RepomdAsc \in DOMAIN job.seen =>
          RepomdAsc \in DOMAIN store' /\ store'[RepomdAsc].signs = job.root
    BY <1>1, <1>3, <1>4 DEF CopyInv, ExactInv
  <2> QED BY <1>1, <1>8, <2>1, <2>2 DEF CopyInv, ExactInv
<1>10. ExactEnded'
  BY <1>1 DEF ExactEnded
<1> QED BY <1>1, <1>5, <1>7, <1>8, <1>9, <1>10, NotRebuilding DEF CopyInv

LEMMA EndExactInv ==
  ASSUME CopyInv, EndExact
  PROVE  CopyInv'
<1>1. /\ job.doing = "exact" /\ job.todo = {} /\ Extraneous = {}
      /\ IF job.sign THEN StorePut(RepomdAsc, Signature(Signer, job.root)) ELSE UNCHANGED store
      /\ UNCHANGED <<work, mode, session, calls, clock, stops, version, copies, unfinished>>
  BY DEF EndExact
<1>2. job' = [job EXCEPT !.doing = "exactConfig"]
  BY DEF EndExact
<1>3. /\ job'.doing = "exactConfig" /\ job'.root = job.root /\ job'.seen = job.seen
      /\ job'.todo = job.todo /\ job'.prune = job.prune /\ job'.sign = job.sign
  BY <1>2
<1>4. mode = "closed" /\ job.doing \in Copying /\ job.root \in Root
  BY <1>1, JobFacts DEF CopyInv, CopyTyped, Copying
<1>5. /\ DOMAIN NamedBy(job.root) \cup {Repomd} \subseteq DOMAIN job.seen
      /\ \A q \in DOMAIN NamedBy(job.root) : q \in DOMAIN store /\ store[q] = NamedBy(job.root)[q]
      /\ Repomd \in DOMAIN store /\ (SourceStill => store[Repomd] = job.root)
      /\ SourceStill /\ RepomdAsc \in DOMAIN job.seen =>
           RepomdAsc \in DOMAIN store /\ store[RepomdAsc].signs = job.root
  BY <1>1 DEF CopyInv, ExactInv
<1>6. /\ DOMAIN store' \subseteq DOMAIN store \cup {RepomdAsc} /\ DOMAIN store \subseteq DOMAIN store'
      /\ \A q \in DOMAIN store : q # RepomdAsc => store'[q] = store[q]
      /\ \/ RepomdAsc \in DOMAIN store' /\ store'[RepomdAsc].signs = job.root
         \/ ~job.sign /\ store' = store
      /\ StoreInv'
  <2>1. CASE job.sign
    <3>1. StorePut(RepomdAsc, Signature(Signer, job.root))
      BY <1>1, <2>1
    <3>2. /\ Signature(Signer, job.root).signs = job.root
          /\ IsSignature(Signature(Signer, job.root))
      BY DEF Signature, IsSignature
    <3>3. Fitting(RepomdAsc, Signature(Signer, job.root))
      BY <1>5, <3>2, PathKinds DEF Fitting
    <3>4. StoreInv'
      BY <3>1, <3>3, PutInv DEF CopyInv, RepoInv
    <3>5. /\ DOMAIN store' = DOMAIN store \cup {RepomdAsc}
          /\ store'[RepomdAsc] = Signature(Signer, job.root)
          /\ \A q \in DOMAIN store : q # RepomdAsc => store'[q] = store[q]
      BY <3>1, PutFacts
    <3> QED BY <3>2, <3>4, <3>5
  <2>2. CASE ~job.sign
    BY <1>1, <2>2 DEF CopyInv, RepoInv, StoreInv
  <2> QED BY <2>1, <2>2
<1>7. RepoInv'
  BY <1>1, <1>4, <1>6, ClosedInv DEF CopyInv
<1>8. CopyTyped' /\ (SourceStill' <=> SourceStill)
  <2>1. job' # NoJob
    BY <1>3, NotNothing DEF Copying
  <2> QED BY <1>1, <1>3, <2>1, ExactTyped DEF CopyInv
<1>9. ExactInv'
  <2>1. \A q \in DOMAIN NamedBy(job.root) : q # RepomdAsc /\ q # Repomd
    BY <1>4, NamedByFacts
  <2>2. \A q \in DOMAIN NamedBy(job.root) : q \in DOMAIN store' /\ store'[q] = NamedBy(job.root)[q]
    BY <1>5, <1>6, <2>1
  <2>3. Repomd \in DOMAIN store' /\ (SourceStill => store'[Repomd] = job.root)
    BY <1>5, <1>6, PathKinds
  <2>4. SourceStill /\ RepomdAsc \in DOMAIN job.seen =>
          RepomdAsc \in DOMAIN store' /\ store'[RepomdAsc].signs = job.root
    BY <1>5, <1>6
  <2>5. \A q \in DOMAIN NamedBy(job.root) : job.seen[q] = NamedBy(job.root)[q]
    BY <1>1 DEF CopyInv, ExactInv
  <2> QED BY <1>1, <1>3, <1>5, <1>8, <2>2, <2>3, <2>4, <2>5 DEF ExactInv
<1>10. ExactEnded'
  <2>1. job.prune => DOMAIN store \subseteq DOMAIN job.seen
    BY <1>1 DEF Extraneous
  <2> QED BY <1>1, <1>3, <1>6, <2>1 DEF ExactEnded
<1>11. mode' = "closed" /\ job'.doing # "rebuild"
  BY <1>1, <1>3, <1>4
<1> QED BY <1>7, <1>8, <1>9, <1>10, <1>11, NotRebuilding DEF CopyInv

LEMMA WriteConfigInv ==
  ASSUME CopyInv, WriteConfig
  PROVE  CopyInv'
<1>1. /\ job.doing \in {"exactConfig", "rebuildConfig"}
      /\ StorePut(Config, CopiedFrom(Here))
      /\ job' = NoJob /\ unfinished' = 0
      /\ UNCHANGED <<work, mode, session, calls, clock, stops, version, copies>>
  BY DEF WriteConfig
<1>2. mode = "closed"
  BY <1>1 DEF CopyInv, CopyTyped
<1>3. Fitting(Config, CopiedFrom(Here))
  <2>1. ~IsRpm(Config) /\ Config # Repomd /\ Config # RepomdAsc
    BY DEF Config, IsRpm, Repomd, RepomdAsc
  <2> QED BY <2>1, PathKinds DEF Fitting
<1>4. RepoInv'
  BY <1>1, <1>2, <1>3, PutInv, ClosedInv DEF CopyInv, RepoInv
<1>5. job'.doing \notin Copying
  BY <1>1, NotNothing DEF Copying
<1>6. CopyTyped'
  BY <1>1, <1>2, <1>5, Versions DEF CopyInv, CopyTyped, Copying
<1> QED BY <1>1, <1>2, <1>4, <1>5, <1>6, NotRebuilding DEF CopyInv, ExactInv, ExactEnded, Copying

LEMMA CutCopyInv ==
  ASSUME CopyInv, CutCopy
  PROVE  CopyInv'
<1>1. /\ job' = NoJob /\ work' = NoSteps /\ Forget /\ mode' = "closed"
      /\ UNCHANGED <<store, calls, clock, stops, version, copies, unfinished>>
  BY DEF CutCopy, Forget
<1>2. RepoInv'
  <2>1. StoreInv'
    BY <1>1 DEF CopyInv, RepoInv, StoreInv
  <2> QED BY <1>1, <2>1, ForgetInv DEF CopyInv
<1>3. job'.doing \notin Copying
  BY <1>1, NotNothing DEF Copying
<1>4. CopyTyped'
  BY <1>1, <1>3 DEF CopyInv, CopyTyped, Copying
<1> QED BY <1>1, <1>2, <1>3, <1>4, NotRebuilding DEF CopyInv, ExactInv, ExactEnded, Copying

LEMMA EndRebuildingInv ==
  ASSUME CopyInv, EndRebuilding
  PROVE  CopyInv'
<1>1. Finish /\ mode = "publishing" /\ mode' = "closed" /\ UNCHANGED <<version, copies, unfinished>>
  BY DEF EndRebuilding, Finish, Forget
<1>2. job' = [job EXCEPT !.doing = "rebuildConfig"]
  BY DEF EndRebuilding
<1>3. job'.doing = "rebuildConfig" /\ job'.root = job.root
  BY <1>2
<1>4. RepoInv'
  BY <1>1, EndInv DEF CopyInv
<1>5. job.doing = "rebuild"
  BY <1>1 DEF CopyInv, CopyTyped
<1>6. CopyTyped'
  BY <1>1, <1>3, <1>5 DEF CopyInv, CopyTyped, Copying
<1> QED BY <1>1, <1>3, <1>4, <1>6, NotRebuilding DEF CopyInv, ExactInv, ExactEnded

----------------------------------------------------------------------------
(* A rebuilding copy.                                                      *)

LEMMA StartRebuildingInv ==
  ASSUME CopyInv, NEW how, StartRebuilding(how)
  PROVE  CopyInv'
<1>1. /\ mode = "closed" /\ mode' = "open" /\ Begin(how)
      /\ old' = Current /\ original' = Current.at /\ pending' = <<>> /\ copied' = {}
      /\ opt' \in use.options /\ use' = use /\ calls' = 0
      /\ replaced' = (how = "overwrite")
      /\ UNCHANGED <<store, work, clock, stops, version>>
  BY DEF StartRebuilding, Load
<1>2. idx' = IF how = "overwrite" THEN <<>> ELSE AntiFunction(Current.at)
  BY DEF StartRebuilding
<1>3. PICK chosen \in SUBSET Range(Source[Repomd].at) \ {{}}, f \in Flags :
        job' = [doing |-> "rebuild", again |-> f.again, relocate |-> f.relocate, base |-> DOMAIN idx',
                root |-> Source[Repomd], chosen |-> chosen, todo |-> chosen]
  BY DEF StartRebuilding
<1>4. /\ job'.doing = "rebuild" /\ job'.root = Source[Repomd] /\ job'.base = DOMAIN idx'
      /\ job'.chosen = chosen /\ job'.todo = chosen
  BY <1>3
<1>5. Current.at \in Placement /\ AntiFunction(Current.at) \in Indexes
  BY RootFields, NoneYet, PlacementInverted DEF Current, NoIndex, CopyInv, RepoInv, StoreInv
<1>6. /\ idx' \in Indexes
      /\ \A r \in DOMAIN idx' : idx'[r] \in DOMAIN Current.at /\ Current.at[idx'[r]] = r
  <2>1. CASE how = "overwrite"
    BY <1>2, <2>1, NoneYet
  <2>2. CASE how # "overwrite"
    BY <1>2, <1>5, <2>2, AntiFunctionFacts
  <2> QED BY <2>1, <2>2
<1>7. RepoInv'
  <2>1. opt' \in Options
    BY <1>1, UseAssumption DEF CopyInv, RepoInv, SessionTyped
  <2>2. StoreInv' /\ WorkInv' /\ SignatureInv'
    BY <1>1 DEF CopyInv, RepoInv, StoreInv, WorkInv, Doomed, SignatureInv
  <2>3. replaced' \in BOOLEAN
    BY <1>1
  <2>4. SessionTyped'
    BY <1>1, <1>5, <1>6, <2>3, NoneYet DEF CopyInv, RepoInv, SessionTyped
  <2>5. SessionInv'
    BY <1>1, <2>1, NoneYet DEF SessionInv, Current
  <2> QED BY <2>2, <2>4, <2>5 DEF RepoInv
<1>8. CopyTyped'
  <2>1. version \in 1 .. version /\ Source = SourceAt[version]
    BY Versions DEF CopyInv, CopyTyped, Source
  <2> QED BY <1>1, <1>4, <2>1, BeginFacts DEF CopyInv, CopyTyped, Copying
<1>9. RebuildInv'
  <2>1. Transferred' = {}
    BY <1>4 DEF Transferred
  <2>2. chosen \subseteq Range(job'.root.at)
    BY <1>4
  <2>3. pending' = <<>> /\ original' = old'.at
    BY <1>1
  <2>4. \A r \in DOMAIN idx' : r \in job'.base /\ idx'[r] \in DOMAIN original' /\ original'[idx'[r]] = r
    BY <1>1, <1>4, <1>6
  <2> QED BY <1>4, <2>1, <2>2, <2>3, <2>4 DEF RebuildInv
<1> QED BY <1>1, <1>4, <1>7, <1>8, <1>9 DEF CopyInv, ExactInv, ExactEnded, PublishInv

\* Where a package goes, and what the copy of one leaves.
LEMMA PackageFacts ==
  ASSUME CanHash, CopyInv, NEW r \in Rpms, CopyPackage(r)
  PROVE  LET loc == CopyLocation(r) IN
         /\ mode = "open" /\ job.doing = "rebuild" /\ r \in job.todo /\ r \in job.chosen
         /\ loc \in Locations
         /\ DOMAIN idx' = (DOMAIN idx \ Builds(r)) \cup {r}
         /\ idx' \in Indexes /\ idx'[r] = loc
         /\ \A x \in DOMAIN idx' \ {r} : x \in DOMAIN idx /\ idx'[x] = idx[x] /\ idx[x] # loc
         /\ copied' \subseteq copied \cup {loc}
         /\ store' = store \/ StorePut(loc, r)
         /\ loc \in DOMAIN store' /\ store'[loc] = r
         /\ \A q \in DOMAIN store : q # loc => q \in DOMAIN store' /\ store'[q] = store[q]
<1> DEFINE loc == CopyLocation(r)
<1>1. /\ job.doing = "rebuild" /\ r \in job.todo
      /\ \A x \in DOMAIN idx : idx[x] = loc => x \in Builds(r)
      /\ idx' = [x \in (DOMAIN idx \ Superseded(r)) \cup {r} |-> IF x = r THEN loc ELSE idx[x]]
  BY DEF CopyPackage
<1>2. IF SameThere(loc, r, TRUE) /\ ~job.again
      THEN UNCHANGED <<store, copied>>
      ELSE StorePut(loc, r) /\ copied' = copied \cup {loc}
  BY DEF CopyPackage
<1>3. r \in job.chosen /\ r \in Range(job.root.at) /\ mode = "open"
  BY <1>1 DEF CopyInv, RebuildInv, CopyTyped, PublishInv, RepoInv, SessionTyped
<1>4. loc \in Locations
  <2>1. job.root \in Root
    BY <1>1, JobFacts DEF CopyInv, Copying
  <2>2. AntiFunction(job.root.at)[r] \in DOMAIN job.root.at
    BY <1>3, AntiFunctionFacts
  <2>3. AntiFunction(job.root.at)[r] \in Locations
    BY <2>1, <2>2, RootFields, PlacementDef
  <2>4. opt.prefix \in Dirs
    BY <1>3, OpenFacts DEF CopyInv, Options
  <2>5. Location(opt.prefix, r) \in Locations
    BY <2>4 DEF Locations
  <2> QED BY <2>3, <2>5 DEF CopyLocation
<1> HIDE DEF loc
<1>5. idx \in Indexes /\ DOMAIN idx \subseteq Rpms
  BY <1>3, OpenFacts DEF CopyInv
<1>6. DOMAIN idx' = (DOMAIN idx \ Builds(r)) \cup {r}
  BY <1>1, <1>5 DEF Superseded, SameNEVRA
<1>7. idx' \in Indexes
  <2> DEFINE f == Without(idx, Superseded(r))
  <2>1. f \in Indexes /\ DOMAIN f = DOMAIN idx \ Superseded(r) /\ \A x \in DOMAIN f : f[x] = idx[x]
    BY <1>5, WithoutFacts
  <2> HIDE DEF f
  <2>2. [x \in DOMAIN f \cup {r} |-> IF x = r THEN loc ELSE f[x]] \in Indexes
    BY <1>4, <2>1, EntrySet
  <2>3. idx' = [x \in DOMAIN f \cup {r} |-> IF x = r THEN loc ELSE f[x]]
    BY <1>1, <2>1
  <2> QED BY <2>2, <2>3
<1>8. /\ idx'[r] = loc
      /\ \A x \in DOMAIN idx' \ {r} : x \in DOMAIN idx /\ idx'[x] = idx[x] /\ idx[x] # loc
  <2>1. idx'[r] = loc
    BY <1>1
  <2>2. ASSUME NEW x \in DOMAIN idx' \ {r} PROVE x \in DOMAIN idx /\ idx'[x] = idx[x] /\ idx[x] # loc
    <3>1. x \in DOMAIN idx /\ x \notin Builds(r) /\ x \in DOMAIN idx \ Superseded(r)
      BY <1>6 DEF Superseded, SameNEVRA
    <3> QED BY <1>1, <3>1
  <2> QED BY <2>1, <2>2
<1>9. /\ copied' \subseteq copied \cup {loc}
      /\ store' = store \/ StorePut(loc, r)
      /\ loc \in DOMAIN store' /\ store'[loc] = r
      /\ \A q \in DOMAIN store : q # loc => q \in DOMAIN store' /\ store'[q] = store[q]
  <2>1. CASE SameThere(loc, r, TRUE) /\ ~job.again
    BY <1>2, <2>1 DEF SameThere
  <2>2. CASE StorePut(loc, r) /\ copied' = copied \cup {loc}
    <3>1. /\ DOMAIN store' = DOMAIN store \cup {loc} /\ store'[loc] = r
          /\ \A q \in DOMAIN store : q # loc => store'[q] = store[q]
      BY <2>2, PutFacts
    <3> QED BY <2>2, <3>1
  <2> QED BY <1>2, <2>1, <2>2
<1> QED BY <1>1, <1>3, <1>4, <1>6, <1>7, <1>8, <1>9 DEF loc

LEMMA CopyPackageInv ==
  ASSUME CanHash, CopyInv, NEW r \in Rpms, CopyPackage(r)
  PROVE  CopyInv'
<1> DEFINE loc == CopyLocation(r)
<1>1. /\ mode = "open" /\ job.doing = "rebuild" /\ r \in job.todo /\ r \in job.chosen
      /\ loc \in Locations
      /\ DOMAIN idx' = (DOMAIN idx \ Builds(r)) \cup {r}
      /\ idx' \in Indexes /\ idx'[r] = loc
      /\ \A x \in DOMAIN idx' \ {r} : x \in DOMAIN idx /\ idx'[x] = idx[x] /\ idx[x] # loc
      /\ copied' \subseteq copied \cup {loc}
      /\ store' = store \/ StorePut(loc, r)
      /\ loc \in DOMAIN store' /\ store'[loc] = r
      /\ \A q \in DOMAIN store : q # loc => q \in DOMAIN store' /\ store'[q] = store[q]
  BY PackageFacts
<1>2. UNCHANGED <<work, mode, old, original, pending, replaced, opt, use, calls, clock, stops,
                  version, copies, unfinished>>
  BY DEF CopyPackage
<1>3. job' = [job EXCEPT !.todo = @ \ {r}]
  BY DEF CopyPackage
<1>4. /\ job'.todo = job.todo \ {r} /\ job'.doing = "rebuild" /\ job'.root = job.root
      /\ job'.chosen = job.chosen /\ job'.base = job.base
  BY <1>1, <1>3
<1> HIDE DEF loc
<1>5. loc \notin {Repomd, RepomdAsc}
  BY <1>1, PathKinds
<1>6. StoreInv' /\ \A q \in {Repomd, RepomdAsc} : /\ q \in DOMAIN store' <=> q \in DOMAIN store
                                                  /\ q \in DOMAIN store => store'[q] = store[q]
  <2>1. CASE store' = store
    BY <2>1 DEF CopyInv, RepoInv, StoreInv
  <2>2. CASE StorePut(loc, r)
    <3>1. Fitting(loc, r)
      BY <1>5 DEF Fitting
    <3>2. StoreInv'
      BY <2>2, <3>1, PutInv DEF CopyInv, RepoInv
    <3>3. DOMAIN store' = DOMAIN store \cup {loc} /\ \A q \in DOMAIN store : q # loc => store'[q] = store[q]
      BY <2>2, PutFacts
    <3> QED BY <1>5, <3>2, <3>3
  <2> QED BY <1>1, <2>1, <2>2
<1>7. RepoInv'
  <2>1. SessionTyped'
    BY <1>1, <1>2 DEF CopyInv, RepoInv, SessionTyped
  <2>2. Current' = Current
    BY <1>6 DEF Current
  <2>3. SessionInv'
    <3>1. pending' = <<>>
      BY <1>1, <1>2 DEF CopyInv, RebuildInv
    <3> QED BY <1>2, <2>2, <3>1, NoneYet DEF CopyInv, RepoInv, SessionInv
  <2>4. WorkInv' /\ SignatureInv'
    BY <1>1, <1>2 DEF CopyInv, RepoInv, WorkInv, Doomed, SignatureInv
  <2> QED BY <1>6, <2>1, <2>3, <2>4 DEF RepoInv
<1>8. CopyTyped'
  BY <1>1, <1>2, <1>4 DEF CopyInv, CopyTyped, Copying
<1>9. RebuildInv'
  <2>1. Transferred' = Transferred \cup {r}
    BY <1>1, <1>4 DEF Transferred
  <2>2. /\ pending' = <<>> /\ original' = old'.at
        /\ job'.todo \subseteq job'.chosen /\ job'.chosen \subseteq Range(job'.root.at)
    BY <1>1, <1>2, <1>4 DEF CopyInv, RebuildInv
  <2>3. ASSUME NEW x \in DOMAIN idx'
        PROVE  IF x \in Transferred' THEN TrueOf(idx, x)'
               ELSE x \in job'.base /\ idx'[x] \in DOMAIN original' /\ original'[idx'[x]] = x
    <3>1. CASE x = r
      BY <1>1, <2>1, <3>1 DEF TrueOf
    <3>2. CASE x # r
      <4>1. x \in DOMAIN idx /\ idx'[x] = idx[x] /\ idx[x] # loc
        BY <1>1, <3>2
      <4>2. CASE x \in Transferred
        <5>1. TrueOf(idx, x)
          BY <1>1, <4>1, <4>2 DEF CopyInv, RebuildInv
        <5> QED BY <1>1, <2>1, <4>1, <4>2, <5>1 DEF TrueOf
      <4>3. CASE x \notin Transferred
        <5>1. x \in job.base /\ idx[x] \in DOMAIN original /\ original[idx[x]] = x
          BY <1>1, <4>1, <4>3 DEF CopyInv, RebuildInv
        <5> QED BY <1>2, <1>4, <2>1, <3>2, <4>1, <4>3, <5>1
      <4> QED BY <4>2, <4>3
    <3> QED BY <3>1, <3>2
  <2> QED BY <2>2, <2>3 DEF RebuildInv
<1> QED BY <1>1, <1>2, <1>4, <1>7, <1>8, <1>9 DEF CopyInv, ExactInv, ExactEnded, PublishInv

LEMMA PruneCopiedInv ==
  ASSUME CopyInv, PruneCopied
  PROVE  CopyInv'
<1>1. /\ job.doing = "rebuild" /\ PruneOlderVersions /\ mode = "open"
      /\ UNCHANGED <<store, work, mode, old, original, copied, replaced, clock, stops, use,
                     pending, opt, version, job, copies, unfinished>>
  BY DEF PruneCopied, Copied, PruneOlderVersions, Call
<1>2. RepoInv'
  BY <1>1, RemovalInv DEF CopyInv
<1>3. DOMAIN idx' \subseteq DOMAIN idx /\ \A r \in DOMAIN idx' : idx'[r] = idx[r]
  <2>1. PICK R : idx' = Without(idx, R)
    BY <1>1 DEF PruneOlderVersions
  <2>2. idx \in Indexes
    BY DEF CopyInv, RepoInv, SessionTyped
  <2>3. /\ DOMAIN Without(idx, R) = DOMAIN idx \ R
        /\ \A r \in DOMAIN idx \ R : Without(idx, R)[r] = idx[r]
    BY <2>2, WithoutFacts
  <2> QED BY <2>1, <2>3
<1>4. CopyTyped'
  BY <1>1 DEF CopyInv, CopyTyped
<1>5. RebuildInv'
  <2>1. Transferred' = Transferred
    BY <1>1 DEF Transferred
  <2>2. ASSUME NEW r \in DOMAIN idx'
        PROVE  IF r \in Transferred THEN TrueOf(idx, r)'
               ELSE r \in job.base /\ idx'[r] \in DOMAIN original /\ original[idx'[r]] = r
    <3>1. r \in DOMAIN idx /\ idx'[r] = idx[r]
      BY <1>3
    <3> QED BY <1>1, <3>1 DEF CopyInv, RebuildInv, TrueOf
  <2> QED BY <1>1, <2>1, <2>2 DEF CopyInv, RebuildInv
<1> QED BY <1>1, <1>2, <1>4, <1>5 DEF CopyInv, ExactInv, ExactEnded, PublishInv

\* What is published was copied before, or was there.
LEMMA CopiedThere ==
  ASSUME RepoInv, RebuildInv, job.doing = "rebuild", job.todo = {}, NEW l \in Range(idx)
  PROVE  LET r == ByLocation(idx)[l] IN
         /\ r \in DOMAIN idx /\ idx[r] = l
         /\ IF r \in job.chosen THEN l \in DOMAIN store /\ store[l] = r
                                ELSE l \in DOMAIN original /\ original[l] = r
<1>1. ByLocation(idx)[l] \in DOMAIN idx /\ idx[ByLocation(idx)[l]] = l
  BY IndexByLocation DEF RepoInv, SessionTyped
<1>2. Transferred = job.chosen
  BY DEF Transferred
<1> QED BY <1>1, <1>2 DEF RebuildInv, TrueOf

LEMMA CommitCopiedInv ==
  ASSUME CopyInv, CommitCopied
  PROVE  CopyInv'
<1> DEFINE plan == PlanFiles(store, PlanState(idx))
<1>1. /\ job.doing = "rebuild" /\ job.todo = {} /\ Commit /\ mode = "open"
      /\ UNCHANGED <<version, job, copies, unfinished>>
  BY DEF CommitCopied, Copied, Commit
<1>2. /\ mode' = "publishing" /\ work' = CommitSteps /\ store' = store
      /\ idx' = idx /\ old' = old /\ original' = original /\ pending' = pending
      /\ replaced' = replaced
  BY <1>1 DEF Commit, session
<1>3. RepoInv'
  BY <1>1, CommitInv DEF CopyInv
<1>4. CopyTyped'
  BY <1>1, <1>2 DEF CopyInv, CopyTyped
<1>5. RebuildInv'
  BY <1>1, <1>2 DEF CopyInv, RebuildInv, Transferred, TrueOf
<1>6. \A l \in Range(idx) :
        LET r == ByLocation(idx)[l] IN
        /\ r \in DOMAIN idx /\ idx[r] = l
        /\ IF r \in job.chosen THEN l \in DOMAIN store /\ store[l] = r
                               ELSE l \in DOMAIN original /\ original[l] = r
  BY <1>1, CopiedThere DEF CopyInv
<1>7. pending = <<>> /\ DOMAIN pending = {}
  BY <1>1, NoneYet DEF CopyInv, RebuildInv
<1>8. plan.uploads = {}
  <2>1. \A u \in plan.uploads : u.to \in DOMAIN pending
    BY <1>1, UploadFacts DEF CopyInv
  <2> QED BY <1>7, <2>1
<1>9. plan.copies = {}
  <2> DEFINE s == PlanState(idx)
  <2>1. /\ DOMAIN s.referenced = Range(idx) /\ s.original = original /\ s.pending = pending
    BY <1>1, OpenFacts, IndexByLocation DEF PlanState, CopyInv
  <2> HIDE DEF s
  <2>2. StagedMoves(store, s) = {}
    BY <1>7, <2>1 DEF StagedMoves, Staged
  <2>3. Moves(store, s) = {}
    BY <1>6, <2>1 DEF Moves, Unstaged
  <2> QED BY <2>2, <2>3 DEF PlanFiles, s
<1> HIDE DEF plan
<1>10. work'.copies = {} /\ work'.uploads = {} /\ CommitSteps.copies = {}
  BY <1>2, <1>8, <1>9 DEF CommitSteps, plan
<1>11. ArrivingAt(CopiedAt)'
  <2>1. PICK P : P = CopiedAt
    OBVIOUS
  <2>2. P \subseteq Range(idx) /\ \A p \in P : ByLocation(idx)[p] \in job.chosen
    BY <2>1 DEF CopiedAt
  <2>3. \A p \in P : p \in DOMAIN store /\ store[p] = ByLocation(idx)[p]
    BY <1>6, <2>2
  <2>4. ArrivingAt(P)'
    BY <1>1, <1>8, <1>10, <2>2, <2>3, CommitArriving DEF CopyInv, plan
  <2>5. CopiedAt' = CopiedAt
    BY <1>1, <1>2 DEF CopiedAt
  <2> QED BY <2>1, <2>4, <2>5
<1>12. (Doomed \cap Carried = {})'
  <2>1. \A p \in UNION Range(CommitSteps.gc) : p \notin Carried
    <3> TAKE p \in UNION Range(CommitSteps.gc)
    <3>1. IsRpm(p) \/ p \notin NewIndex(idx).docs
      BY <1>1, CollectFacts DEF CopyInv
    <3>2. Carried \subseteq NewIndex(idx).docs /\ Carried \subseteq Document
      BY <1>1, NewIndexFacts, OpenFacts DEF CopyInv
    <3> QED BY <3>1, <3>2, PathKinds
  <2> QED BY <1>2, <2>1 DEF Doomed, Carried
<1>13. old' = Current'
  BY <1>1, <1>2, OpenFacts DEF CopyInv, Current
<1>14. PublishInv'
  BY <1>1, <1>10, <1>11, <1>12, <1>13 DEF PublishInv
<1> QED BY <1>1, <1>3, <1>4, <1>5, <1>14 DEF CopyInv, ExactInv, ExactEnded

\* After one write of the swap the index is not to be written again.
LEMMA SwappedOnce ==
  ASSUME RepoInv, mode = "publishing", SwapOne
  PROVE  \A t \in Range(work'.swap) : t.to # Repomd
<1>1. work'.swap = Tail(work.swap) /\ work.swap # <<>>
  BY SwapOneFields DEF RepoInv, WorkInv, RpmShape
<1>2. \A a, b : Tail(<<a, b>>) = <<b>> /\ Tail(<<a>>) = <<>>
  OBVIOUS
<1>3. work'.swap = <<>> \/ \E c : work'.swap = <<SignatureFile(c)>>
  BY <1>1, <1>2 DEF RepoInv, SignatureInv
<1>4. \A c : SignatureFile(c).to # Repomd
  BY PathKinds DEF SignatureFile
<1>5. CASE work'.swap = <<>>
  BY <1>5 DEF Range
<1>6. ASSUME NEW c, work'.swap = <<SignatureFile(c)>>
      PROVE  \A t \in Range(work'.swap) : t.to # Repomd
  <2>1. \A t \in Range(work'.swap) : t = SignatureFile(c)
    BY <1>6 DEF Range
  <2> QED BY <1>4, <2>1
<1> QED BY <1>3, <1>5, <1>6

\* What the publish of a copy writes and deletes.
LEMMA PublishStep ==
  ASSUME CopyInv, Publishing
  PROVE  /\ work'.uploads = {} /\ Doomed' \subseteq Doomed
         /\ (\E s \in Range(work'.swap) : s.to = Repomd) => old' = Current'
         /\ \/ store' = store
            \/ \E d \in Document : StorePut(d, d)
            \/ StorePut(Repomd, Target) /\ Puts(work) = {} /\ old = Current
            \/ \E root : StorePut(RepomdAsc, Signature(Signer, root))
            \/ StoreDelete(RepomdAsc)
            \/ \E p \in Doomed : /\ StoreDelete(p)
                                 /\ Repomd \in DOMAIN store /\ store[Repomd] = Target
<1>1. /\ mode = "publishing" /\ Step /\ old' = old
  BY DEF Publishing, session
<1>2. /\ work.uploads = {} /\ work.copies = {}
      /\ (\E s \in Range(work.swap) : s.to = Repomd) => old = Current
      /\ SwapArriving(Repomd, Target)
  BY <1>1 DEF CopyInv, PublishInv, ArrivingAt
<1>3. work \in Shape(Movable, Uploadable, Describable, Swappable, {RepomdAsc}, Doomed)
  BY DEF CopyInv, RepoInv, WorkInv, RpmShape
<1>4. ~CopyOne /\ ~UploadOne
  BY <1>2 DEF CopyOne, UploadOne, Placing, Uploading
<1>5. CASE WriteMetadata
  <2> DEFINE u == Head(work.metadata)
  <2>1. /\ u \in Describable /\ StorePut(u.to, u.data) /\ work'.uploads = {}
        /\ work'.swap = work.swap /\ work'.gc = work.gc
    BY <1>3, <1>5, WriteMetadataFields
  <2> HIDE DEF u
  <2>2. u.to \in Document /\ u.data = u.to /\ u.to # Repomd
    BY <2>1, PathKinds DEF Describable
  <2>3. Current' = Current
    <3>1. /\ DOMAIN store' = DOMAIN store \cup {u.to}
          /\ \A q \in DOMAIN store : q # u.to => store'[q] = store[q]
      BY <2>1, PutFacts
    <3> QED BY <2>2, <3>1 DEF Current
  <2> QED BY <1>1, <1>2, <2>1, <2>2, <2>3 DEF Doomed
<1>6. CASE SwapOne
  <2> DEFINE s == Head(work.swap)
  <2>1. /\ s \in Swappable /\ s \in Range(work.swap) /\ StorePut(s.to, s.data)
        /\ Puts(work) = {} /\ Puts(work') = {} /\ work'.gc = work.gc
    BY <1>3, <1>6, SwapOneFields
  <2> HIDE DEF s
  <2>2. \A t \in Range(work'.swap) : t.to # Repomd
    BY <1>1, <1>6, SwappedOnce DEF CopyInv
  <2>3. work'.uploads = {}
    BY <2>1 DEF Puts
  <2>4. CASE s.to = Repomd
    <3>1. s.data = Target /\ old = Current
      BY <1>2, <2>1, <2>4 DEF SwapArriving
    <3> QED BY <2>1, <2>2, <2>3, <2>4, <3>1 DEF Doomed
  <2>5. CASE s.to # Repomd
    <3>1. PICK root : s = SignatureFile(root)
      BY <2>1, <2>5 DEF Swappable, IndexFile
    <3>2. s.to = RepomdAsc /\ s.data = Signature(Signer, root)
      BY <3>1 DEF SignatureFile
    <3> QED BY <2>1, <2>2, <2>3, <3>2 DEF Doomed
  <2> QED BY <2>4, <2>5
<1>7. CASE RetractOne
  <2> DEFINE h == Head(work.retract)
  <2>1. /\ h \in {RepomdAsc} /\ StoreDelete(h) /\ Puts(work') = {} /\ work'.gc = work.gc
        /\ work'.swap = <<>>
    BY <1>3, <1>7, RetractOneFields
  <2> HIDE DEF h
  <2> QED BY <2>1 DEF Doomed, Puts, Range
<1>8. CASE CollectOne
  <2>1. /\ Puts(work') = {} /\ work.swap = <<>> /\ work'.swap = <<>> /\ Range(work.swap) = {}
        /\ Doomed' \subseteq Doomed
        /\ UNCHANGED store \/ \E p \in Doomed : StoreDelete(p)
    BY <1>3, <1>8, CollectOneFields DEF Doomed
  <2>2. Repomd \in DOMAIN store /\ store[Repomd] = Target
    BY <1>2, <2>1 DEF SwapArriving
  <2>3. work'.uploads = {} /\ Range(work'.swap) = {}
    BY <2>1 DEF Puts, Range
  <2> QED BY <2>1, <2>2, <2>3
<1> QED BY <1>1, <1>4, <1>5, <1>6, <1>7, <1>8 DEF Step

LEMMA PublishCopiedInv ==
  ASSUME CopyInv, PublishCopied
  PROVE  CopyInv'
<1>1. /\ Publishing /\ mode = "publishing" /\ mode' = "publishing"
      /\ UNCHANGED <<session, version, job, copies, unfinished, clock>>
  BY DEF PublishCopied, Publishing
<1>2. /\ idx' = idx /\ old' = old /\ original' = original /\ pending' = pending
      /\ replaced' = replaced /\ copied' = copied /\ job' = job
  BY <1>1 DEF session
<1>3. job.doing = "rebuild"
  BY <1>1 DEF CopyInv, CopyTyped
<1>4. RepoInv'
  BY <1>1, PublishingInv DEF CopyInv
<1>5. CopyTyped'
  BY <1>1 DEF CopyInv, CopyTyped
<1>6. PublishInv'
  <2>1. PICK P : P = CopiedAt
    OBVIOUS
  <2>2. P \subseteq Range(idx) /\ ArrivingAt(P)
    BY <1>1, <2>1 DEF CopiedAt, CopyInv, PublishInv
  <2>3. ArrivingAt(P)'
    BY <1>1, <2>2, KeepArriving DEF CopyInv
  <2>4. CopiedAt' = CopiedAt /\ Carried' = Carried
    BY <1>2 DEF CopiedAt, Carried
  <2>5. ArrivingAt(CopiedAt)'
    BY <2>1, <2>3, <2>4
  <2>6. /\ work'.uploads = {} /\ Doomed' \subseteq Doomed
        /\ (\E s \in Range(work'.swap) : s.to = Repomd) => old' = Current'
    BY <1>1, PublishStep
  <2>7. (Doomed \cap Carried)' = {}
    BY <1>1, <2>4, <2>6 DEF CopyInv, PublishInv
  <2>8. job.todo = {}
    BY <1>1 DEF CopyInv, PublishInv
  <2> QED BY <1>2, <2>5, <2>6, <2>7, <2>8 DEF PublishInv
<1>7. RebuildInv'
  <2>1. Doomed \cap Range(idx) = {}
    BY <1>1 DEF CopyInv, PublishInv, ArrivingAt
  <2>2. \A l \in Range(idx) \cap DOMAIN store : l \in DOMAIN store' /\ store'[l] = store[l]
    <3> TAKE l \in Range(idx) \cap DOMAIN store
    <3>1. l \in Locations /\ l \notin Document /\ l # Repomd /\ l # RepomdAsc
      <4>1. l \in Locations
        BY IndexesDef DEF CopyInv, RepoInv, SessionTyped, Range
      <4> QED BY <4>1, PathKinds
    <3>2. \A p, c : StorePut(p, c) /\ p # l => l \in DOMAIN store' /\ store'[l] = store[l]
      BY PutFacts
    <3>3. \A p : StoreDelete(p) /\ p # l => l \in DOMAIN store' /\ store'[l] = store[l]
      BY DeleteFacts
    <3> QED BY <1>1, <2>1, <3>1, <3>2, <3>3, PublishStep
  <2>3. \A r \in DOMAIN idx : TrueOf(idx, r) => TrueOf(idx, r)'
    BY <1>2, <2>2 DEF TrueOf, Range
  <2>4. Transferred' = Transferred
    BY <1>2 DEF Transferred
  <2> QED BY <1>2, <1>3, <2>3, <2>4 DEF CopyInv, RebuildInv
<1> QED BY <1>2, <1>3, <1>4, <1>5, <1>6, <1>7 DEF CopyInv, ExactInv, ExactEnded

LEMMA CopyInitInv == CopyInit => CopyInv
<1> SUFFICES ASSUME CopyInit PROVE CopyInv
  OBVIOUS
<1>1. /\ Init /\ mode = "closed" /\ version = 1 /\ job = NoJob /\ unfinished = 0
  BY DEF CopyInit, Init
<1>2. RepoInv
  BY <1>1, InitInv
<1>3. job.doing \notin Copying
  BY <1>1, NotNothing DEF Copying
<1>4. CopyTyped
  BY <1>1, <1>3, Versions DEF CopyTyped, Copying
<1> QED BY <1>1, <1>2, <1>3, <1>4 DEF CopyInv, ExactInv, ExactEnded, RebuildInv, PublishInv, Copying

LEMMA CopyNextInv ==
  ASSUME RpmFiles, CanHash, Ordered, CopyInv, [CopyNext]_copyVars
  PROVE  CopyInv'
BY StartExactInv, StartRebuildingInv, CopyObjectInv, PruneObjectInv, EndExactInv, CopyPackageInv,
   PruneCopiedInv, CommitCopiedInv, PublishCopiedInv, EndRebuildingInv, WriteConfigInv, CutCopyInv,
   SourcePublishesInv DEF CopyNext

LEMMA CopySpecInv ==
  ASSUME RpmFiles, CanHash, Ordered
  PROVE  CopySpec => []CopyInv
BY CopyInitInv, CopyNextInv, PTL DEF CopySpec

----------------------------------------------------------------------------
(* What copies promise.                                                    *)

\* Clients read through repomd.xml alone: its signature names nothing.
LEMMA WholeIndex ==
  ASSUME RpmFiles
  PROVE  /\ StoreInv => (Whole <=> (Repomd \in DOMAIN store => Complete(store[Repomd])))
         /\ StoreInv' => (Whole' <=> (Repomd \in DOMAIN store' => Complete(store[Repomd])'))
<1>1. ASSUME StoreInv PROVE Whole <=> (Repomd \in DOMAIN store => Complete(store[Repomd]))
  <2>1. RepomdAsc \in DOMAIN store => DOMAIN Needs(store[RepomdAsc]) = {}
    BY <1>1, NeedsOfSignature DEF StoreInv
  <2> QED BY <2>1 DEF Whole, Live, Complete, RpmFiles
<1>2. ASSUME StoreInv' PROVE Whole' <=> (Repomd \in DOMAIN store' => Complete(store[Repomd])')
  <2>1. RepomdAsc \in DOMAIN store' => DOMAIN Needs(store'[RepomdAsc]) = {}
    BY <1>2, NeedsOfSignature DEF StoreInv
  <2> QED BY <2>1 DEF Whole, Live, Complete, RpmFiles
<1> QED BY <1>1, <1>2

LEMMA PutWhole ==
  ASSUME RpmFiles, StoreInv, StoreInv', Whole, NEW p, NEW c, StorePut(p, c), p # Repomd,
         \/ p \notin DOMAIN store \/ store[p] = c
         \/ p \notin Locations \cup Document
         \/ p \in Document /\ c = p
  PROVE  Whole'
<1>1. /\ DOMAIN store' = DOMAIN store \cup {p} /\ store'[p] = c
      /\ \A q \in DOMAIN store : q # p => store'[q] = store[q]
  BY PutFacts
<1>2. SUFFICES ASSUME Repomd \in DOMAIN store PROVE Complete(store[Repomd])'
  BY <1>1, WholeIndex
<1>3. store'[Repomd] = store[Repomd] /\ store[Repomd] \in Root /\ Complete(store[Repomd])
  BY <1>1, <1>2, WholeIndex DEF StoreInv
<1> DEFINE root == store[Repomd]
<1>4. ASSUME NEW q \in DOMAIN Needs(root)
      PROVE  q \in DOMAIN store' /\ store'[q] = Needs(root)[q]
  <2>1. q \in DOMAIN store /\ store[q] = Needs(root)[q]
    BY <1>3 DEF Complete
  <2>2. /\ q \in Document \cup Locations
        /\ q \in Document => Needs(root)[q] = q
    <3>1. root \in Root
      BY <1>3
    <3> HIDE DEF root
    <3>2. /\ DOMAIN Needs(root) = root.docs \cup DOMAIN root.at
          /\ root.docs \subseteq Document /\ DOMAIN root.at \subseteq Locations
          /\ \A d \in root.docs : Needs(root)[d] = d
      BY <3>1, NamedByFacts, NeedsOfRoot
    <3> QED BY <3>2, PathKinds
  <2> HIDE DEF root
  <2>3. CASE q = p
    BY <1>1, <2>1, <2>2, <2>3
  <2>4. CASE q # p
    BY <1>1, <2>1, <2>4
  <2> QED BY <2>3, <2>4
<1> QED BY <1>3, <1>4 DEF Complete

LEMMA DeleteWhole ==
  ASSUME RpmFiles, StoreInv, StoreInv', Whole, NEW p, StoreDelete(p),
         Repomd \in DOMAIN store => p \notin DOMAIN Needs(store[Repomd])
  PROVE  Whole'
<1>1. DOMAIN store' = DOMAIN store \ {p} /\ \A q \in DOMAIN store' : store'[q] = store[q]
  BY DeleteFacts
<1>2. SUFFICES ASSUME Repomd \in DOMAIN store' PROVE Complete(store[Repomd])'
  BY WholeIndex
<1>3. Complete(store[Repomd]) /\ store'[Repomd] = store[Repomd]
  BY <1>1, <1>2, WholeIndex
<1> QED BY <1>1, <1>2, <1>3 DEF Complete

LEMMA IndexWhole ==
  ASSUME RpmFiles, StoreInv, StoreInv', NEW root \in Root, StorePut(Repomd, root), Complete(root)
  PROVE  Whole'
<1>1. /\ DOMAIN store' = DOMAIN store \cup {Repomd} /\ store'[Repomd] = root
      /\ \A q \in DOMAIN store : q # Repomd => store'[q] = store[q]
  BY PutFacts
<1>2. \A p \in DOMAIN Needs(root) : p # Repomd
  BY NeedsOfRoot DEF RpmFiles
<1>3. Complete(store[Repomd])'
  BY <1>1, <1>2 DEF Complete
<1> QED BY <1>3, WholeIndex

LEMMA ObjectUndisturbed ==
  ASSUME RpmFiles, CanHash, Ordered, CopyInv, CopyInv', CopyObject, Whole
  PROVE  Whole' \/ ReplacesPackage \/ ~SourceStill
<1> DEFINE p == First(Ranked(job.todo))
<1>1. job.doing = "exact" /\ job.todo # {} /\ StoreInv /\ StoreInv'
  BY DEF CopyObject, CopyInv, RepoInv
<1>2. /\ p \in job.todo
      /\ p \in DOMAIN store' /\ \A q \in DOMAIN store : q # p => store'[q] = store[q]
      /\ \/ p \in DOMAIN store /\ store' = store /\ p \notin {Repomd, RepomdAsc}
         \/ p \in DOMAIN Source /\ StorePut(p, Source[p]) /\ store'[p] = Source[p]
  BY ObjectFacts DEF CopyInv
<1>3. p = Repomd => job.todo \subseteq {Repomd, RepomdAsc}
  BY <1>1, NextObject DEF CopyInv
<1> HIDE DEF p
<1>4. /\ version \in DOMAIN SourceAt /\ Source = SourceAt[version] /\ job.root \in Root
      /\ SourceStill <=> Source[Repomd] = job.root
  BY <1>1, JobFacts DEF CopyInv, Copying
<1>5. CASE store' = store
  BY <1>1, <1>5, WholeIndex DEF Complete
<1>6. CASE p \in DOMAIN Source /\ StorePut(p, Source[p]) /\ p = Repomd /\ SourceStill
  <2>1. \A q \in DOMAIN NamedBy(job.root) : q \notin job.todo
    BY <1>3, <1>4, <1>6, NamedByFacts
  <2>2. Complete(job.root)
    <3>1. NamedBy(job.root) = Needs(job.root)
      BY <1>4, NamedByFacts
    <3>2. \A q \in DOMAIN NamedBy(job.root) : q \in DOMAIN store /\ store[q] = NamedBy(job.root)[q]
      BY <1>1, <2>1 DEF CopyInv, ExactInv
    <3> QED BY <3>1, <3>2 DEF Complete
  <2>3. StorePut(Repomd, job.root)
    BY <1>4, <1>6
  <2> QED BY <1>1, <1>4, <2>2, <2>3, IndexWhole
<1>7. CASE p \in DOMAIN Source /\ StorePut(p, Source[p]) /\ p # Repomd
  <2>1. p \in Document => Source[p] = p
    BY <1>4, <1>7, SourceFacts
  <2>2. CASE p \in Locations \cap DOMAIN store /\ store[p] # Source[p]
    BY <1>7, <2>2, PutFacts DEF ReplacesPackage
  <2>3. CASE ~(p \in Locations \cap DOMAIN store /\ store[p] # Source[p])
    BY <1>1, <1>7, <2>1, <2>3, PutWhole
  <2> QED BY <2>2, <2>3
<1> QED BY <1>2, <1>5, <1>6, <1>7

LEMMA PublishUndisturbed ==
  ASSUME RpmFiles, CopyInv, CopyInv', Publishing, Whole
  PROVE  Whole'
<1>1. /\ mode = "publishing" /\ StoreInv /\ StoreInv'
      /\ job.doing = "rebuild" /\ job.todo = {} /\ ArrivingAt(CopiedAt) /\ Doomed \cap Carried = {}
      /\ original = old.at /\ idx \in Indexes
  BY DEF Publishing, CopyInv, RepoInv, SessionTyped, CopyTyped, PublishInv, RebuildInv
<1>2. /\ DOMAIN ByLocation(idx) = Range(idx) /\ Range(idx) \subseteq Locations
  <2>1. DOMAIN ByLocation(idx) = Range(idx)
    BY <1>1, IndexByLocation
  <2>2. Range(idx) \subseteq Locations
    BY <1>1, IndexesDef DEF Range
  <2> QED BY <2>1, <2>2
<1>3. Target.docs = NewDocuments \cup Carried /\ Target.at = ByLocation(idx)
  BY DEF Target
<1>4. CASE store' = store
  BY <1>1, <1>4, WholeIndex DEF Complete
<1>5. ASSUME NEW d \in Document, StorePut(d, d) PROVE Whole'
  <2>1. d # Repomd
    BY PathKinds
  <2> QED BY <1>1, <1>5, <2>1, PutWhole
<1>6. CASE StorePut(Repomd, Target) /\ Puts(work) = {} /\ old = Current
  <2>1. Target \in Root
    BY <1>1, <1>6, PutFacts DEF StoreInv
  <2>2. Carried \subseteq old.docs
    BY NoneYet DEF Carried
  <2>3. old = NoIndex \/ (Repomd \in DOMAIN store /\ old = store[Repomd] /\ old \in Root /\ Complete(old))
    BY <1>1, <1>6, WholeIndex DEF Current, StoreInv
  <2>4. \A d \in Carried : d \in DOMAIN store /\ store[d] = d
    <3> TAKE d \in Carried
    <3>1. old # NoIndex /\ d \in old.docs
      BY <2>2 DEF NoIndex
    <3>2. d \in DOMAIN Needs(old) /\ Needs(old)[d] = d
      BY <2>3, <3>1, NeedsOfRoot
    <3> QED BY <2>3, <3>1, <3>2 DEF Complete
  <2>5. \A d \in NewDocuments : d \in DOMAIN store /\ store[d] = d
    BY <1>1, <1>6 DEF ArrivingAt, Arriving
  <2>6. \A l \in Range(idx) : l \in DOMAIN store /\ store[l] = ByLocation(idx)[l]
    <3> TAKE l \in Range(idx)
    <3>1. IF ByLocation(idx)[l] \in job.chosen
          THEN l \in DOMAIN store /\ store[l] = ByLocation(idx)[l]
          ELSE l \in DOMAIN original /\ original[l] = ByLocation(idx)[l]
      BY <1>1, CopiedThere DEF CopyInv
    <3>2. ASSUME l \in DOMAIN original PROVE l \in DOMAIN store /\ store[l] = original[l]
      <4>1. old # NoIndex
        BY <1>1, <3>2, NoneYet DEF NoIndex
      <4>2. l \in DOMAIN Needs(old) /\ Needs(old)[l] = original[l]
        BY <1>1, <2>3, <3>2, <4>1, NeedsOfRoot
      <4> QED BY <2>3, <4>1, <4>2 DEF Complete
    <3> QED BY <3>1, <3>2
  <2> HIDE DEF Target
  <2>7. Complete(Target)
    <3>1. /\ DOMAIN Needs(Target) = NewDocuments \cup Carried \cup Range(idx)
          /\ \A d \in NewDocuments \cup Carried : Needs(Target)[d] = d
          /\ \A l \in Range(idx) : Needs(Target)[l] = ByLocation(idx)[l]
      BY <1>2, <1>3, <2>1, NeedsOfRoot
    <3> QED BY <2>4, <2>5, <2>6, <3>1 DEF Complete
  <2> QED BY <1>1, <1>6, <2>1, <2>7, IndexWhole
<1>7. ASSUME NEW root, StorePut(RepomdAsc, Signature(Signer, root)) PROVE Whole'
  <2>1. RepomdAsc # Repomd /\ RepomdAsc \notin Locations \cup Document
    BY PathKinds
  <2> QED BY <1>1, <1>7, <2>1, PutWhole
<1>8. CASE StoreDelete(RepomdAsc)
  <2>1. Repomd \in DOMAIN store => RepomdAsc \notin DOMAIN Needs(store[Repomd])
    BY <1>1, NeedsOfRoot DEF StoreInv, RpmFiles
  <2> QED BY <1>1, <1>8, <2>1, DeleteWhole
<1>9. ASSUME NEW p \in Doomed, StoreDelete(p), Repomd \in DOMAIN store, store[Repomd] = Target
      PROVE  Whole'
  <2>1. Target \in Root
    BY <1>1, <1>9 DEF StoreInv
  <2>2. p \notin NewDocuments \cup Carried \cup Range(idx)
    BY <1>1 DEF ArrivingAt
  <2> HIDE DEF Target
  <2>3. DOMAIN Needs(Target) = NewDocuments \cup Carried \cup Range(idx)
    BY <1>2, <1>3, <2>1, NeedsOfRoot
  <2> QED BY <1>1, <1>9, <2>2, <2>3, DeleteWhole
<1> QED BY <1>4, <1>5, <1>6, <1>7, <1>8, <1>9, PublishStep

LEMMA CopyUndisturbedStep ==
  ASSUME RpmFiles, CanHash, Ordered, CopyInv, CopyInv', [CopyNext]_copyVars, Whole
  PROVE  Whole' \/ ReplacesPackage \/ ~SourceStill
<1>1. StoreInv /\ StoreInv'
  BY DEF CopyInv, RepoInv
<1>2. ASSUME store' = store PROVE Whole'
  BY <1>1, <1>2, WholeIndex DEF Complete
<1>3. ASSUME PruneObject PROVE Whole' \/ ~SourceStill
  <2> DEFINE p == First(Extraneous)
  <2>1. job.doing = "exact" /\ job.todo = {} /\ Extraneous # {} /\ StoreDelete(p)
    BY <1>3 DEF PruneObject
  <2>2. p \in Extraneous
    BY <2>1 DEF Ordered
  <2> HIDE DEF p
  <2>3. p \notin DOMAIN job.seen
    BY <2>2 DEF Extraneous
  <2>4. /\ DOMAIN NamedBy(job.root) \subseteq DOMAIN job.seen
        /\ SourceStill => store[Repomd] = job.root
    BY <2>1 DEF CopyInv, ExactInv
  <2>5. NamedBy(job.root) = Needs(job.root)
    BY <2>1, JobFacts, NamedByFacts DEF CopyInv, Copying
  <2> QED BY <1>1, <2>1, <2>3, <2>4, <2>5, DeleteWhole
<1>4. ASSUME EndExact PROVE Whole'
  <2>1. RepomdAsc # Repomd /\ RepomdAsc \notin Locations \cup Document
    BY PathKinds
  <2>2. StorePut(RepomdAsc, Signature(Signer, job.root)) \/ store' = store
    BY <1>4 DEF EndExact
  <2> QED BY <1>1, <1>2, <2>1, <2>2, PutWhole
<1>5. ASSUME WriteConfig PROVE Whole'
  <2>1. StorePut(Config, CopiedFrom(Here))
    BY <1>5 DEF WriteConfig
  <2>2. ~IsRpm(Config) /\ ~IsDoc(Config) /\ Config # Repomd
    BY DEF Config, IsRpm, IsDoc, Repomd
  <2>3. Config \notin Locations \cup Document
    BY <2>2, PathKinds
  <2> QED BY <1>1, <2>1, <2>2, <2>3, PutWhole
<1>6. ASSUME NEW r \in Rpms, CopyPackage(r) PROVE Whole' \/ ReplacesPackage
  <2> DEFINE l == CopyLocation(r)
  <2>1. /\ l \in Locations /\ (store' = store \/ StorePut(l, r))
        /\ l \in DOMAIN store' /\ store'[l] = r
    BY <1>6, PackageFacts
  <2> HIDE DEF l
  <2>2. l # Repomd
    BY <2>1, PathKinds
  <2>3. CASE l \in DOMAIN store /\ store[l] # r
    BY <2>1, <2>3 DEF ReplacesPackage
  <2>4. CASE ~(l \in DOMAIN store /\ store[l] # r)
    BY <1>1, <1>2, <2>1, <2>2, <2>4, PutWhole
  <2> QED BY <2>3, <2>4
<1>7. ASSUME PublishCopied PROVE Whole'
  BY <1>7, PublishUndisturbed DEF PublishCopied
<1>8. ASSUME \/ \E how \in Hows : StartExact(how) \/ StartRebuilding(how)
             \/ PruneCopied \/ CommitCopied \/ EndRebuilding \/ CutCopy \/ SourcePublishes
             \/ UNCHANGED copyVars
      PROVE  store' = store
  BY <1>8 DEF StartExact, StartRebuilding, PruneCopied, PruneOlderVersions, Call, CommitCopied, Commit,
              EndRebuilding, Finish, CutCopy, SourcePublishes, copyVars, rpmVars
<1> QED BY <1>2, <1>3, <1>4, <1>5, <1>6, <1>7, <1>8, ObjectUndisturbed DEF CopyNext

\* No copy disturbs a client of the destination, wherever it is cut short and
\* however it is taken up again, but by writing another build over a package or
\* where the source was republished under it: whatever the source and the
\* destination hold.  It takes a backend that knows checksums.
THEOREM RpmCopyUndisturbed ==
  ASSUME RpmFiles, CanHash, Ordered
  PROVE  CopySpec => CopyUndisturbed
<1>1. CopyInv /\ CopyInv' /\ [CopyNext]_copyVars => (Whole => Whole' \/ ReplacesPackage \/ ~SourceStill)
  BY CopyUndisturbedStep
<1> QED BY <1>1, CopySpecInv, PTL DEF CopySpec, CopyUndisturbed

\* An exact copy that ends leaves the source's index, all that it names and the
\* signature that goes with it, and to overwrite leaves nothing else.
THEOREM RpmReplicaMade ==
  ASSUME RpmFiles, CanHash, Ordered
  PROVE  CopySpec => ReplicaMade
<1>1. ASSUME CopyInv, job.doing = "exactConfig", SourceStill
      PROVE  /\ store[Repomd] = job.root
             /\ Complete(job.root)
             /\ job.sign \/ RepomdAsc \in DOMAIN job.seen => store[RepomdAsc].signs = job.root
             /\ job.prune => DOMAIN store \subseteq DOMAIN job.seen \cup {RepomdAsc}
  <2>1. job.root \in Root /\ NamedBy(job.root) = Needs(job.root)
    BY <1>1, JobFacts, NamedByFacts DEF CopyInv, Copying
  <2>2. /\ job.todo = {}
        /\ job.prune => DOMAIN store \subseteq DOMAIN job.seen \cup {RepomdAsc}
        /\ job.sign => store[RepomdAsc].signs = job.root
    BY <1>1 DEF CopyInv, ExactEnded
  <2>3. /\ store[Repomd] = job.root
        /\ \A p \in DOMAIN NamedBy(job.root) : p \in DOMAIN store /\ store[p] = NamedBy(job.root)[p]
        /\ RepomdAsc \in DOMAIN job.seen => store[RepomdAsc].signs = job.root
    BY <1>1, <2>2 DEF CopyInv, ExactInv
  <2> QED BY <2>1, <2>2, <2>3 DEF Complete
<1> QED BY <1>1, CopySpecInv, PTL DEF CopySpec, ReplicaMade

\* One build of a version is chosen, so what is in the index for it stays.
LEMMA ChosenPackage ==
  ASSUME SingleBuilds, CanHash, CopyInv, ChosenInv, NEW r \in Rpms, CopyPackage(r), ~opt.pruneOlder
  PROVE  DOMAIN idx' = Transferred' \cup {x \in job'.base : Builds(x) \cap Transferred' = {}}
<1>1. /\ job.doing = "rebuild" /\ r \in job.todo /\ r \in job.chosen
      /\ DOMAIN idx' = (DOMAIN idx \ Builds(r)) \cup {r}
  BY PackageFacts
<1>2. DOMAIN idx = Transferred \cup {x \in job.base : Builds(x) \cap Transferred = {}}
  BY <1>1 DEF ChosenInv
<1>3. DOMAIN idx \subseteq Rpms
  BY IndexesDef DEF CopyInv, RepoInv, SessionTyped
<1>4. \A t \in Transferred : t \in Builds(r) => t = r
  <2>1. PICK v \in 1 .. version : job.root = SourceAt[v][Repomd]
    BY <1>1 DEF CopyInv, CopyTyped, Copying
  <2>2. v \in DOMAIN SourceAt
    BY Versions DEF CopyInv, CopyTyped
  <2>3. job.chosen \subseteq Range(SourceAt[v][Repomd].at)
    BY <1>1, <2>1 DEF CopyInv, RebuildInv
  <2> QED BY <1>1, <2>2, <2>3 DEF SingleBuilds, Transferred
<1>5. job' = [job EXCEPT !.todo = @ \ {r}]
  BY DEF CopyPackage
<1>6. job'.base = job.base /\ job'.chosen = job.chosen /\ job'.todo = job.todo \ {r}
  BY <1>5
<1>7. Transferred' = Transferred \cup {r}
  BY <1>1, <1>6 DEF Transferred
<1>8. \A x \in Rpms : x \in Builds(r) <=> r \in Builds(x)
  BY DEF Builds
<1>9. ASSUME NEW x \in DOMAIN idx'
      PROVE  x \in Transferred \cup {r} \/ (x \in job.base /\ Builds(x) \cap (Transferred \cup {r}) = {})
  BY <1>1, <1>2, <1>3, <1>8
<1>10. ASSUME NEW x \in job.base, Builds(x) \cap (Transferred \cup {r}) = {}
       PROVE  x \in DOMAIN idx'
  <2>1. Builds(x) \cap Transferred = {} /\ r \notin Builds(x)
    BY <1>10
  <2>2. x \in DOMAIN idx
    BY <1>2, <2>1
  <2>3. x \in Rpms
    BY <1>3, <2>2
  <2>4. x \notin Builds(r)
    BY <1>8, <2>1, <2>3
  <2> QED BY <1>1, <2>2, <2>4
<1>11. \A t \in Transferred \cup {r} : t \in DOMAIN idx'
  BY <1>1, <1>2, <1>4
<1> HIDE DEF Builds, Transferred
<1> QED BY <1>6, <1>7, <1>9, <1>10, <1>11

LEMMA ChosenNext ==
  ASSUME SingleBuilds, CanHash, CopyInv, CopyInv', ChosenInv, [CopyNext]_copyVars
  PROVE  ChosenInv'
<1>1. ASSUME mode' = "closed" PROVE ChosenInv'
  BY <1>1 DEF ChosenInv, CopyInv, CopyTyped
<1>2. ASSUME UNCHANGED <<session, mode, job>> PROVE ChosenInv'
  BY <1>2 DEF ChosenInv, session, Transferred, LocationsClash
<1>3. ASSUME NEW how, StartRebuilding(how) PROVE ChosenInv'
  <2>1. mode' = "open"
    BY <1>3 DEF StartRebuilding, Load
  <2>2. PICK chosen \in SUBSET Range(Source[Repomd].at) \ {{}}, f \in Flags :
          job' = [doing |-> "rebuild", again |-> f.again, relocate |-> f.relocate, base |-> DOMAIN idx',
                  root |-> Source[Repomd], chosen |-> chosen, todo |-> chosen]
    BY <1>3 DEF StartRebuilding
  <2>3. Transferred' = {} /\ job'.base = DOMAIN idx'
    BY <2>2 DEF Transferred
  <2>4. DOMAIN idx' = Transferred' \cup {x \in job'.base : Builds(x) \cap Transferred' = {}}
    BY <2>3
  <2> QED BY <2>1, <2>4 DEF ChosenInv
<1>4. ASSUME NEW r \in Rpms, CopyPackage(r) PROVE ChosenInv'
  <2>1. mode' = "open" /\ opt' = opt
    BY <1>4, PackageFacts DEF CopyPackage
  <2> QED BY <1>4, <2>1, ChosenPackage DEF ChosenInv
<1>5. ASSUME PruneCopied PROVE ChosenInv'
  <2>1. mode' = "open" /\ opt' = opt /\ opt.pruneOlder
    BY <1>5 DEF PruneCopied, PruneOlderVersions, Call
  <2> QED BY <2>1 DEF ChosenInv
<1>6. ASSUME CommitCopied PROVE ChosenInv'
  <2>1. UNCHANGED <<session, job>> /\ ~LocationsClash(idx)
    BY <1>6 DEF CommitCopied, Commit, CommitRefused
  <2> QED BY <2>1 DEF ChosenInv, session, Transferred, LocationsClash
<1>7. ASSUME \/ \E how \in Hows : StartExact(how)
             \/ CopyObject \/ PruneObject \/ EndExact \/ WriteConfig \/ CutCopy \/ EndRebuilding
      PROVE  mode' = "closed"
  BY <1>7 DEF StartExact, CopyObject, PruneObject, EndExact, WriteConfig, CutCopy, EndRebuilding, Finish,
              Forget, CopyInv, CopyTyped, rpmVars
<1>8. ASSUME PublishCopied \/ SourcePublishes \/ UNCHANGED copyVars
      PROVE  UNCHANGED <<session, mode, job>>
  BY <1>8 DEF PublishCopied, Publishing, SourcePublishes, copyVars, rpmVars
<1> QED BY <1>1, <1>2, <1>3, <1>4, <1>5, <1>6, <1>7, <1>8 DEF CopyNext

LEMMA ChosenInit == CopyInit => ChosenInv
<1> SUFFICES ASSUME CopyInit PROVE ChosenInv
  OBVIOUS
<1>1. mode = "closed" /\ job.doing = "nothing"
  BY NotNothing DEF CopyInit, Init
<1> QED BY <1>1 DEF ChosenInv

\* A rebuilding copy that ends publishes all that was chosen, where its index
\* says, beside what was there: of a source that lists one build of a version.
THEOREM RpmChosenPublished ==
  ASSUME RpmFiles, CanHash, Ordered, SingleBuilds
  PROVE  CopySpec => ChosenPublished
<1>1. ASSUME CopyInv, ChosenInv, EndRebuilding
      PROVE  LET root == store[Repomd]
                 now  == Range(root.at) IN
             /\ now \subseteq job.base \cup job.chosen
             /\ ~opt.pruneOlder =>
                  now = job.chosen \cup {x \in job.base : Builds(x) \cap job.chosen = {}}
             /\ \A l \in DOMAIN root.at : root.at[l] \in job.chosen => store[l] = root.at[l]
  <2>1. mode = "publishing" /\ work = NoSteps
    BY <1>1 DEF EndRebuilding, Finish
  <2>2. /\ job.doing = "rebuild" /\ job.todo = {} /\ SwapArriving(Repomd, Target)
        /\ idx \in Indexes /\ ~LocationsClash(idx)
    BY <1>1, <2>1 DEF CopyInv, CopyTyped, PublishInv, ArrivingAt, RepoInv, SessionTyped, ChosenInv
  <2>3. store[Repomd].at = ByLocation(idx)
    <3>1. Range(work.swap) = {}
      BY <2>1 DEF NoSteps, Range
    <3>2. store[Repomd] = Target
      BY <2>2, <3>1 DEF SwapArriving
    <3> QED BY <3>2 DEF Target
  <2>4. /\ DOMAIN ByLocation(idx) = Range(idx)
        /\ \A l \in Range(idx) : ByLocation(idx)[l] \in DOMAIN idx /\ idx[ByLocation(idx)[l]] = l
    BY <2>2, IndexByLocation
  <2>5. Range(ByLocation(idx)) = DOMAIN idx
    <3>1. \A r \in DOMAIN idx : ByLocation(idx)[idx[r]] = r
      BY <2>2, <2>4 DEF LocationsClash, Range
    <3> QED BY <2>4, <3>1 DEF Range
  <2>6. Transferred = job.chosen
    BY <2>2 DEF Transferred
  <2>7. DOMAIN idx \subseteq job.base \cup job.chosen
    BY <1>1, <2>2, <2>6 DEF CopyInv, RebuildInv
  <2>8. ~opt.pruneOlder =>
          DOMAIN idx = job.chosen \cup {x \in job.base : Builds(x) \cap job.chosen = {}}
    BY <1>1, <2>2, <2>6 DEF ChosenInv
  <2>9. \A l \in Range(idx) : ByLocation(idx)[l] \in job.chosen => store[l] = ByLocation(idx)[l]
    BY <1>1, <2>2, CopiedThere DEF CopyInv
  <2> QED BY <2>3, <2>4, <2>5, <2>7, <2>8, <2>9
<1>2. CopyInv /\ CopyInv' /\ ChosenInv /\ [CopyNext]_copyVars => ChosenInv'
  BY ChosenNext
<1> QED BY <1>1, <1>2, ChosenInit, CopySpecInv, PTL DEF CopySpec, ChosenPublished

\* A write or a deletion away from what is named of the package list.
LEMMA PutHolds ==
  ASSUME StoreInv, NEW S, HoldsOnly(S), NEW p, NEW c, StorePut(p, c), p # Repomd,
         p \in Document => c = p
  PROVE  HoldsOnly(S)'
<1>1. /\ DOMAIN store' = DOMAIN store \cup {p} /\ store'[p] = c
      /\ \A q \in DOMAIN store : q # p => store'[q] = store[q]
  BY PutFacts
<1>2. RepoExists' <=> RepoExists
  BY <1>1 DEF RepoExists
<1>3. Current' = Current
  BY <1>1 DEF Current
<1>4. ASSUME RepoExists, Loadable PROVE Loadable'
  <2>1. Current.docs \subseteq Document
    BY <1>4, RootFields DEF Current, RepoExists, StoreInv
  <2>2. \A d \in Current.docs : d.type \in Listings => d \in DOMAIN store' /\ store'[d] = d
    BY <1>1, <1>4, <2>1 DEF Loadable
  <2> QED BY <1>3, <2>2 DEF Loadable
<1> QED BY <1>2, <1>3, <1>4 DEF HoldsOnly

LEMMA DeleteHolds ==
  ASSUME NEW S, HoldsOnly(S), NEW p, StoreDelete(p), p # Repomd,
         \A d \in Current.docs : d.type \in Listings => d # p
  PROVE  HoldsOnly(S)'
<1>1. DOMAIN store' = DOMAIN store \ {p} /\ \A q \in DOMAIN store' : store'[q] = store[q]
  BY DeleteFacts
<1>2. RepoExists' <=> RepoExists
  BY <1>1 DEF RepoExists
<1>3. Current' = Current
  BY <1>1 DEF Current
<1>4. Loadable => Loadable'
  <2>1. ASSUME Loadable
        PROVE  \A d \in Current.docs : d.type \in Listings => d \in DOMAIN store' /\ store'[d] = d
    BY <1>1, <2>1 DEF Loadable
  <2> QED BY <1>3, <2>1 DEF Loadable
<1> QED BY <1>2, <1>3, <1>4 DEF HoldsOnly

LEMMA SameHolds ==
  ASSUME NEW S, HoldsOnly(S), store' = store
  PROVE  HoldsOnly(S)'
BY DEF HoldsOnly, RepoExists, Loadable, Current

\* What the publish of a copy leaves can be loaded, and holds its index.
LEMMA PublishHolds ==
  ASSUME CopyInv, CopyInv', Publishing, NEW S, HoldsOnly(S), job.base \subseteq S, job.chosen \subseteq S
  PROVE  HoldsOnly(S)'
<1>1. /\ mode = "publishing" /\ StoreInv /\ StoreInv'
      /\ job.doing = "rebuild" /\ ArrivingAt(CopiedAt) /\ idx \in Indexes
  BY DEF Publishing, CopyInv, RepoInv, SessionTyped, CopyTyped, PublishInv
<1>2. /\ Target.docs = NewDocuments \cup Carried /\ Target.at = ByLocation(idx)
      /\ \A d \in Carried : d.type \notin Listings
  BY DEF Target, Carried, Listings, Derived
<1>3. Range(Target.at) \subseteq S
  <2>1. DOMAIN idx \subseteq job.base \cup job.chosen
    BY <1>1 DEF CopyInv, RebuildInv, Transferred
  <2>2. Range(ByLocation(idx)) \subseteq DOMAIN idx
    BY <1>1, IndexByLocation DEF Range
  <2> QED BY <1>2, <2>1, <2>2
<1> HIDE DEF Target
<1>4. ASSUME NEW d \in Document, StorePut(d, d) PROVE HoldsOnly(S)'
  <2>1. d # Repomd
    BY PathKinds
  <2> QED BY <1>1, <1>4, <2>1, PutHolds
<1>5. ASSUME StorePut(Repomd, Target), Puts(work) = {} PROVE HoldsOnly(S)'
  <2>1. /\ DOMAIN store' = DOMAIN store \cup {Repomd} /\ store'[Repomd] = Target
        /\ \A q \in DOMAIN store : q # Repomd => store'[q] = store[q]
    BY <1>5, PutFacts
  <2>2. Current' = Target
    BY <2>1 DEF Current
  <2>3. \A d \in NewDocuments : d \in DOMAIN store /\ store[d] = d /\ d # Repomd
    <3>1. NewDocuments \subseteq Document
      BY <1>1, DocumentsFacts DEF NewDocuments
    <3> QED BY <1>1, <1>5, <3>1, PathKinds DEF ArrivingAt, Arriving
  <2>4. \A d \in Target.docs : d.type \in Listings => d \in DOMAIN store' /\ store'[d] = d
    BY <1>2, <2>1, <2>3
  <2>5. Loadable'
    BY <2>2, <2>4 DEF Loadable
  <2> QED BY <1>3, <2>2, <2>5 DEF HoldsOnly
<1>6. ASSUME NEW root, StorePut(RepomdAsc, Signature(Signer, root)) PROVE HoldsOnly(S)'
  <2>1. RepomdAsc # Repomd /\ RepomdAsc \notin Document
    BY PathKinds
  <2> QED BY <1>1, <1>6, <2>1, PutHolds
<1>7. ASSUME StoreDelete(RepomdAsc) PROVE HoldsOnly(S)'
  <2>1. \A d \in Current.docs : d # RepomdAsc
    BY <1>1, RootFields, PathKinds DEF StoreInv, Current, NoIndex
  <2> QED BY <1>1, <1>7, <2>1, PathKinds, DeleteHolds
<1>8. ASSUME NEW p \in Doomed, StoreDelete(p), Repomd \in DOMAIN store, store[Repomd] = Target
      PROVE  HoldsOnly(S)'
  <2>1. Current = Target
    BY <1>8 DEF Current
  <2>2. p \notin NewDocuments
    BY <1>1 DEF ArrivingAt
  <2>3. \A d \in Current.docs : d.type \in Listings => d # p
    BY <1>2, <2>1, <2>2
  <2>4. p # Repomd
    BY DEF CopyInv, RepoInv, WorkInv
  <2> QED BY <1>1, <1>8, <2>3, <2>4, DeleteHolds
<1> QED BY <1>4, <1>5, <1>6, <1>7, <1>8, SameHolds, PublishStep

\* Where the source says its copies come from is kept.
LEMMA ConfigNext ==
  ASSUME RpmFiles, CanHash, Ordered, Originals, CopyInv, [CopyNext]_copyVars,
         Config \in DOMAIN store => store[Config].copySource \in {"", Here}
  PROVE  Config \in DOMAIN store' => store'[Config].copySource \in {"", Here}
<1>1. ~IsRpm(Config) /\ ~IsDoc(Config) /\ Config # Repomd /\ Config # RepomdAsc
  BY DEF Config, IsRpm, IsDoc, Repomd, RepomdAsc
<1>2. Config \notin Locations \cup Document
  BY <1>1, PathKinds
<1>3. \A p, c : StorePut(p, c) /\ p # Config =>
        (Config \in DOMAIN store' => Config \in DOMAIN store /\ store'[Config] = store[Config])
  <2> SUFFICES ASSUME NEW p, NEW c, StorePut(p, c), p # Config, Config \in DOMAIN store'
               PROVE  Config \in DOMAIN store /\ store'[Config] = store[Config]
    OBVIOUS
  <2>1. DOMAIN store' = DOMAIN store \cup {p} /\ \A q \in DOMAIN store : q # p => store'[q] = store[q]
    BY PutFacts
  <2> QED BY <2>1
<1>4. \A p : StoreDelete(p) =>
        (Config \in DOMAIN store' => Config \in DOMAIN store /\ store'[Config] = store[Config])
  BY DeleteFacts
<1>5. ASSUME CopyObject PROVE Config \in DOMAIN store' => store'[Config].copySource \in {"", Here}
  <2> DEFINE p == First(Ranked(job.todo))
  <2>1. /\ \A q : q # p => (q \in DOMAIN store' <=> q \in DOMAIN store)
        /\ \A q \in DOMAIN store : q # p => store'[q] = store[q]
        /\ store' = store \/ (p \in DOMAIN Source /\ store'[p] = Source[p])
    BY <1>5, ObjectFacts DEF CopyInv
  <2> HIDE DEF p
  <2>2. Source \in Range(SourceAt)
    BY DEF CopyInv, CopyTyped, Source, Range
  <2> QED BY <2>1, <2>2 DEF Originals
<1>6. ASSUME WriteConfig PROVE store'[Config].copySource = Here
  <2>1. StorePut(Config, CopiedFrom(Here))
    BY <1>6 DEF WriteConfig
  <2>2. store'[Config] = CopiedFrom(Here)
    BY <2>1, PutFacts
  <2>3. CopiedFrom(Here).copySource = Here
    BY DEF CopiedFrom
  <2> QED BY <2>2, <2>3
<1>7. ASSUME NEW r \in Rpms, CopyPackage(r)
      PROVE  store' = store \/ \E p, c : StorePut(p, c) /\ p # Config
  <2> DEFINE l == CopyLocation(r)
  <2>1. l \in Locations /\ (store' = store \/ StorePut(l, r))
    BY <1>7, PackageFacts
  <2> QED BY <1>2, <2>1
<1>8. ASSUME PublishCopied
      PROVE  store' = store \/ (\E p, c : StorePut(p, c) /\ p # Config) \/ \E p : StoreDelete(p)
  <2>1. Publishing
    BY <1>8 DEF PublishCopied
  <2>2. \A d \in Document : d # Config
    BY <1>2
  <2>3. \/ store' = store
        \/ \E d \in Document : StorePut(d, d)
        \/ StorePut(Repomd, Target)
        \/ \E root : StorePut(RepomdAsc, Signature(Signer, root))
        \/ \E p : StoreDelete(p)
    BY <2>1, PublishStep
  <2> QED BY <1>1, <2>2, <2>3
<1>9. ASSUME EndExact PROVE store' = store \/ \E p, c : StorePut(p, c) /\ p # Config
  BY <1>1, <1>9 DEF EndExact
<1>10. ASSUME PruneObject PROVE \E p : StoreDelete(p)
  BY <1>10 DEF PruneObject
<1>11. ASSUME \/ \E how \in Hows : StartExact(how) \/ StartRebuilding(how)
              \/ PruneCopied \/ CommitCopied \/ EndRebuilding \/ CutCopy \/ SourcePublishes
              \/ UNCHANGED copyVars
       PROVE  store' = store
  BY <1>11 DEF StartExact, StartRebuilding, PruneCopied, PruneOlderVersions, Call, CommitCopied, Commit,
               EndRebuilding, Finish, CutCopy, SourcePublishes, copyVars, rpmVars
<1> QED BY <1>3, <1>4, <1>5, <1>6, <1>7, <1>8, <1>9, <1>10, <1>11 DEF CopyNext

LEMMA StartResuming ==
  ASSUME CopyInv, ResumeInv, NEW how, StartExact(how) \/ StartRebuilding(how), unfinished' = version'
  PROVE  Resuming'
<1>1. /\ version' = version /\ store' = store /\ Begin(how) /\ Allowed(how)
  BY DEF StartExact, StartRebuilding, rpmVars
<1>2. version # 0
  BY Versions DEF CopyInv, CopyTyped
<1>3. how \in {"new", "continue"} /\ (how = "continue" => unfinished = version)
  BY <1>1, <1>2, BeginFacts DEF CopyInv
<1>4. how = "new" => ~RepoExists
  BY <1>1 DEF Allowed
<1>5. PICK S : S = Range(Source[Repomd].at)
  OBVIOUS
<1>6. HoldsOnly(S)
  BY <1>3, <1>4, <1>5 DEF ResumeInv, Resuming, HoldsOnly
<1>7. HoldsOnly(S)' /\ S = Range(Source[Repomd].at)'
  BY <1>1, <1>5, <1>6, SameHolds DEF Source
<1>8. CASE StartExact(how)
  <2>1. PICK f \in Flags :
          job' = [doing |-> "exact", again |-> f.again, sign |-> f.sign,
                  prune |-> how = "overwrite" /\ RepoExists, root |-> Source[Repomd],
                  seen  |-> Seen(f.listed), todo |-> DOMAIN Seen(f.listed)]
    BY <1>8 DEF StartExact
  <2>2. job'.doing = "exact" /\ job'.root = Source[Repomd] /\ job'.prune = (how = "overwrite" /\ RepoExists)
    BY <2>1
  <2>3. ~job'.prune
    BY <1>3, <2>2
  <2>4. SourceStill'
    BY <1>1, <2>2 DEF SourceStill, Source
  <2> QED BY <1>7, <2>2, <2>3, <2>4 DEF Resuming
<1>9. CASE StartRebuilding(how)
  <2>1. PICK chosen \in SUBSET Range(Source[Repomd].at) \ {{}}, f \in Flags :
          job' = [doing |-> "rebuild", again |-> f.again, relocate |-> f.relocate, base |-> DOMAIN idx',
                  root |-> Source[Repomd], chosen |-> chosen, todo |-> chosen]
    BY <1>9 DEF StartRebuilding
  <2>2. job'.doing = "rebuild" /\ job'.root = Source[Repomd] /\ job'.base = DOMAIN idx'
    BY <2>1
  <2>3. SourceStill'
    BY <1>1, <2>2 DEF SourceStill, Source
  <2>4. DOMAIN idx' \subseteq S
    <3>1. idx' = AntiFunction(Current.at)
      BY <1>3, <1>9 DEF StartRebuilding
    <3>2. DOMAIN idx' = Range(Current.at)
      BY <3>1, AntiFunctionFacts
    <3>3. CASE RepoExists
      BY <1>6, <3>2, <3>3 DEF HoldsOnly
    <3>4. CASE ~RepoExists
      <4>1. Current.at = <<>>
        BY <3>4 DEF Current, NoIndex, RepoExists
      <4> QED BY <3>2, <4>1, NoneYet DEF Range
    <3> QED BY <3>3, <3>4
  <2> QED BY <1>7, <2>2, <2>3, <2>4 DEF Resuming
<1> QED BY <1>8, <1>9

\* Only the index and the documents of the package list matter here.
LEMMA WriteHolds ==
  ASSUME RpmFiles, CanHash, Ordered, CopyInv, CopyInv', NEW S, HoldsOnly(S),
         Resuming, S = Range(Source[Repomd].at),
         \/ CopyObject \/ PruneObject \/ EndExact
         \/ \E r \in Rpms : CopyPackage(r)
         \/ PublishCopied
  PROVE  HoldsOnly(S)'
<1>1. StoreInv
  BY DEF CopyInv, RepoInv
<1>2. ASSUME CopyObject PROVE HoldsOnly(S)'
  <2> DEFINE p == First(Ranked(job.todo))
  <2>1. job.doing = "exact" /\ job.todo # {}
    BY <1>2 DEF CopyObject
  <2>2. store' = store \/ (p \in DOMAIN Source /\ StorePut(p, Source[p]))
    BY <1>2, ObjectFacts DEF CopyInv
  <2>3. p = Repomd => job.todo \subseteq {Repomd, RepomdAsc}
    BY <2>1, NextObject DEF CopyInv
  <2> HIDE DEF p
  <2>4. /\ version \in DOMAIN SourceAt /\ Source = SourceAt[version] /\ job.root \in Root
        /\ Source[Repomd] = job.root
    BY <2>1, JobFacts DEF CopyInv, Copying, Resuming
  <2>5. CASE store' = store
    BY <2>5, SameHolds
  <2>6. CASE p \in DOMAIN Source /\ StorePut(p, Source[p]) /\ p # Repomd
    <3>1. p \in Document => Source[p] = p
      BY <2>4, <2>6, SourceFacts
    <3> QED BY <1>1, <2>6, <3>1, PutHolds
  <2>7. CASE p \in DOMAIN Source /\ StorePut(p, Source[p]) /\ p = Repomd
    <3>1. /\ DOMAIN store' = DOMAIN store \cup {Repomd} /\ store'[Repomd] = job.root
          /\ \A q \in DOMAIN store : q # Repomd => store'[q] = store[q]
      BY <2>4, <2>7, PutFacts
    <3>2. Current' = job.root
      BY <3>1 DEF Current
    <3>3. \A d \in job.root.docs : d \in DOMAIN store' /\ store'[d] = d
      <4> TAKE d \in job.root.docs
      <4>1. d \in DOMAIN NamedBy(job.root) /\ NamedBy(job.root)[d] = d /\ d \notin {Repomd, RepomdAsc}
        BY <2>4, NamedByFacts
      <4>2. d \notin job.todo
        BY <2>3, <2>7, <4>1
      <4>3. d \in DOMAIN store /\ store[d] = d
        BY <2>1, <4>1, <4>2 DEF CopyInv, ExactInv
      <4> QED BY <3>1, <4>1, <4>3
    <3>4. Loadable'
      BY <3>2, <3>3 DEF Loadable
    <3> QED BY <2>4, <3>2, <3>4 DEF HoldsOnly
  <2> QED BY <2>2, <2>5, <2>6, <2>7
<1>3. ~PruneObject
  BY DEF PruneObject, Extraneous, Resuming
<1>4. ASSUME EndExact PROVE HoldsOnly(S)'
  <2>1. RepomdAsc # Repomd /\ RepomdAsc \notin Document
    BY PathKinds
  <2>2. StorePut(RepomdAsc, Signature(Signer, job.root)) \/ store' = store
    BY <1>4 DEF EndExact
  <2> QED BY <1>1, <2>1, <2>2, PutHolds, SameHolds
<1>5. ASSUME NEW r \in Rpms, CopyPackage(r) PROVE HoldsOnly(S)'
  <2> DEFINE l == CopyLocation(r)
  <2>1. l \in Locations /\ (store' = store \/ StorePut(l, r))
    BY <1>5, PackageFacts
  <2> HIDE DEF l
  <2>2. l # Repomd /\ l \notin Document
    BY <2>1, PathKinds
  <2> QED BY <1>1, <2>1, <2>2, PutHolds, SameHolds
<1>6. ASSUME PublishCopied PROVE HoldsOnly(S)'
  <2>1. Publishing /\ mode = "publishing"
    BY <1>6 DEF PublishCopied, Publishing
  <2>2. job.doing = "rebuild"
    BY <2>1 DEF CopyInv, CopyTyped
  <2>3. job.base \subseteq S /\ Source[Repomd] = job.root
    BY <2>2, JobFacts DEF CopyInv, Copying, Resuming
  <2>4. job.chosen \subseteq S
    BY <2>2, <2>3 DEF CopyInv, RebuildInv
  <2> QED BY <2>1, <2>3, <2>4, PublishHolds
<1> QED BY <1>2, <1>3, <1>4, <1>5, <1>6

LEMMA ResumeNext ==
  ASSUME RpmFiles, CanHash, Ordered, Originals, CopyInv, CopyInv', ResumeInv, [CopyNext]_copyVars
  PROVE  ResumeInv'
<1>1. Config \in DOMAIN store' => store'[Config].copySource \in {"", Here}
  BY ConfigNext DEF ResumeInv
<1>2. ASSUME unfinished' = version' PROVE Resuming'
  <2>1. ~SourcePublishes /\ ~WriteConfig
    <3>1. version \in Nat /\ version # 0 /\ unfinished \in Nat /\ unfinished <= version
      BY Versions DEF CopyInv, CopyTyped
    <3> QED BY <1>2, <3>1 DEF SourcePublishes, WriteConfig
  <2>2. ASSUME NEW how, StartExact(how) \/ StartRebuilding(how) PROVE Resuming'
    BY <1>2, <2>2, StartResuming
  <2>3. ASSUME \/ CopyObject \/ PruneObject \/ EndExact
               \/ \E r \in Rpms : CopyPackage(r)
               \/ PruneCopied \/ CommitCopied \/ PublishCopied \/ EndRebuilding
               \/ CutCopy \/ UNCHANGED copyVars
        PROVE  Resuming'
    <3>1. version' = version /\ unfinished' = unfinished
      BY <2>3 DEF CopyObject, PruneObject, EndExact, CopyPackage, PruneCopied, CommitCopied, PublishCopied,
                  EndRebuilding, CutCopy, copyVars
    <3>2. Resuming
      BY <1>2, <3>1 DEF ResumeInv
    <3>3. PICK S : S = Range(Source[Repomd].at)
      OBVIOUS
    <3>4. S = Range(Source[Repomd].at)' /\ HoldsOnly(S)
      BY <3>1, <3>2, <3>3 DEF Source, Resuming
    <3>5. HoldsOnly(S)'
      <4>1. ASSUME PruneCopied \/ CommitCopied \/ EndRebuilding \/ CutCopy \/ UNCHANGED copyVars
            PROVE  store' = store
        BY <4>1 DEF PruneCopied, PruneOlderVersions, Call, CommitCopied, Commit, EndRebuilding, Finish,
                    CutCopy, copyVars, rpmVars
      <4> QED BY <2>3, <3>2, <3>3, <3>4, <4>1, SameHolds, WriteHolds
    <3>6. /\ SourceStill'
          /\ job'.doing = "exact" => ~job'.prune
          /\ job'.doing = "rebuild" => job'.base \subseteq S
      <4>1. CASE job' = job
        BY <3>1, <3>2, <3>3, <4>1 DEF Resuming, SourceStill, Source
      <4>2. CASE job' = NoJob
        BY <4>2, NotNothing DEF SourceStill
      <4>3. ASSUME NEW todo, job' = [job EXCEPT !.todo = todo], job.doing \in Copying
            PROVE  /\ SourceStill'
                   /\ job'.doing = "exact" => ~job'.prune
                   /\ job'.doing = "rebuild" => job'.base \subseteq S
        <5>1. /\ job'.doing = job.doing /\ job'.root = job.root /\ job'.prune = job.prune
              /\ job'.base = job.base
          BY <4>3
        <5>2. Source[Repomd] = job.root
          BY <3>2, <4>3, JobFacts DEF CopyInv, Resuming
        <5> QED BY <3>1, <3>2, <3>3, <5>1, <5>2 DEF Resuming, SourceStill, Source
      <4>4. ASSUME EndExact \/ EndRebuilding
            PROVE  /\ SourceStill' /\ job'.doing \notin {"exact", "rebuild"}
        <5>1. \E doing \in {"exactConfig", "rebuildConfig"} : job' = [job EXCEPT !.doing = doing]
          BY <4>4 DEF EndExact, EndRebuilding
        <5>2. job'.doing \in {"exactConfig", "rebuildConfig"} /\ job'.root = job.root
          BY <5>1
        <5>3. job.doing \in Copying
          BY <4>4 DEF EndExact, EndRebuilding, Finish, CopyInv, CopyTyped, Copying
        <5>4. Source[Repomd] = job.root
          BY <3>2, <5>3, JobFacts DEF CopyInv, Resuming
        <5> QED BY <3>1, <5>2, <5>4 DEF SourceStill, Source
      <4>5. ASSUME NEW r \in Rpms, CopyPackage(r)
            PROVE  job.doing \in Copying /\ \E todo : job' = [job EXCEPT !.todo = todo]
        BY <4>5 DEF CopyPackage, Copying
      <4>6. ASSUME CopyObject
            PROVE  job.doing \in Copying /\ \E todo : job' = [job EXCEPT !.todo = todo]
        BY <4>6 DEF CopyObject, Copying
      <4>7. ASSUME PruneObject \/ PruneCopied \/ CommitCopied \/ PublishCopied \/ UNCHANGED copyVars
            PROVE  job' = job
        BY <4>7 DEF PruneObject, PruneCopied, CommitCopied, PublishCopied, copyVars
      <4>8. CutCopy => job' = NoJob
        BY DEF CutCopy
      <4> QED BY <2>3, <4>1, <4>2, <4>3, <4>4, <4>5, <4>6, <4>7, <4>8
    <3> QED BY <3>4, <3>5, <3>6 DEF Resuming
  <2> QED BY <2>1, <2>2, <2>3 DEF CopyNext
<1> QED BY <1>1, <1>2 DEF ResumeInv

LEMMA ResumeInit ==
  ASSUME Originals, CopyInit
  PROVE  ResumeInv
<1>1. /\ use \in Uses /\ store = use.store /\ version = 1 /\ unfinished = 0
  BY DEF CopyInit, Init
<1>2. store \in {u.store : u \in Uses}
  BY <1>1
<1>3. Config \in DOMAIN store => store[Config].copySource \in {"", Here}
  BY <1>2 DEF Originals
<1>4. unfinished # version
  BY <1>1
<1> QED BY <1>3, <1>4 DEF ResumeInv

\* A copy that was begun in an empty place, of a source that is still the same
\* and is no copy of another, can be taken up again wherever it was cut short.
THEOREM RpmCopyResumes ==
  ASSUME RpmFiles, CanHash, Ordered, Originals
  PROVE  CopySpec => []CopyResumes
<1>1. CopyInv /\ ResumeInv => CopyResumes
  BY DEF ResumeInv, Resuming, HoldsOnly, CopyResumes, Resumable
<1>2. CopyInv /\ CopyInv' /\ ResumeInv /\ [CopyNext]_copyVars => ResumeInv'
  BY ResumeNext
<1>3. CopyInit => ResumeInv
  BY ResumeInit
<1> QED BY <1>1, <1>2, <1>3, CopySpecInv, PTL DEF CopySpec
=============================================================================
