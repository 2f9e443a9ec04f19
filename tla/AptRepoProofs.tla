---------------------------- MODULE AptRepoProofs ----------------------------
(***************************************************************************)
(* For every set of packages and suites, every repository found and every  *)
(* session: what Commit hands to Execute is sound unless it is doubtful;   *)
(* and what copies into such a repository leave, and do to clients.        *)
(***************************************************************************)
EXTENDS AptCopy, ExecuteProofs, FiniteSetTheorems

\* Where clients start: the three files of each suite.
Fronts == {Release(s) : s \in Suites} \cup {ReleaseGPG(s) : s \in Suites}
            \cup {InRelease(s) : s \in Suites}

\* The files of Execute are those of a repository.
AptFiles == IndexPaths = Fronts /\ \A c : Needs(c) = AptNeeds(c)

----------------------------------------------------------------------------
(* Paths and contents.                                                     *)

LEMMA FrontKinds ==
  \A s, t :
    /\ Release(s) # ReleaseGPG(t) /\ Release(s) # InRelease(t) /\ ReleaseGPG(s) # InRelease(t)
    /\ Release(s) = Release(t) => s = t
    /\ InRelease(s) = InRelease(t) => s = t
    /\ ReleaseGPG(s) = ReleaseGPG(t) => s = t
    /\ Release(s).suite = s /\ ReleaseGPG(s).suite = s /\ InRelease(s).suite = s
BY DEF Release, ReleaseGPG, InRelease

LEMMA PlaceKinds ==
  ASSUME NEW p \in Places
  PROVE  IsPool(p) /\ p \notin Fronts /\ \A s : ~IsSuite(p, s)
<1>1. PICK e \in Entries : p \in PlacesOf(e)
  BY DEF Places
<1>2. PICK dir \in Dirs, b \in DOMAIN Files(e) : p = [dir |-> dir, base |-> b]
  BY <1>1 DEF PlacesOf, Location
<1>3. DOMAIN p = {"dir", "base"}
  BY <1>2
<1> QED BY <1>3 DEF IsPool, IsSuite, Fronts, Release, ReleaseGPG, InRelease

LEMMA IndexKinds ==
  ASSUME NEW s, NEW d \in Index(s)
  PROVE  /\ ~IsPool(d) /\ d \notin Fronts /\ IsSuite(d, s) /\ d \notin Places
         /\ ~IsPool(Plain(d)) /\ Plain(d) \notin Fronts /\ IsSuite(Plain(d), s) /\ Plain(d) \notin Places
         /\ \A t : \A x \in Index(t) : Plain(x) # d
         /\ \A x \in Index(s) : Plain(x) = Plain(d) => x.arch = d.arch
<1>1. d = [suite |-> s, arch |-> d.arch, of |-> d.of] /\ Plain(d) = [suite |-> s, arch |-> d.arch]
  BY DEF Index, Plain
<1>2. DOMAIN d = {"suite", "arch", "of"} /\ DOMAIN Plain(d) = {"suite", "arch"}
  BY <1>1
<1>3. \A t : \A x \in Index(t) : DOMAIN Plain(x) = {"suite", "arch"} /\ Plain(x).arch = x.arch
  BY DEF Index, Plain
<1>4. d \notin Fronts /\ Plain(d) \notin Fronts
  BY <1>2 DEF Fronts, Release, ReleaseGPG, InRelease
<1>5. ~IsPool(d) /\ ~IsPool(Plain(d)) /\ IsSuite(d, s) /\ IsSuite(Plain(d), s)
  BY <1>1, <1>2 DEF IsPool, IsSuite
<1> QED BY <1>2, <1>3, <1>4, <1>5, PlaceKinds

LEMMA ReleaseFields ==
  ASSUME NEW s \in Suites, NEW c, IsRelease(s, c)
  PROVE  /\ c.suite = s /\ c.rev \in Nat /\ c.byHash \in BOOLEAN
         /\ c.docs \subseteq Index(s) /\ c # NoRelease
         /\ DOMAIN c.pool \subseteq Places
         /\ DOMAIN c = {"suite", "rev", "byHash", "docs", "pool"}
         /\ c \notin PoolFiles /\ [inline |-> c] \notin PoolFiles
<1>1. /\ c \in Releases(s, [DOMAIN c.pool -> PoolFiles]) /\ DOMAIN c.pool \in SUBSET Places
  BY DEF IsRelease, Releases
<1>2. [inline |-> c] \in [inline : Releases(s, [DOMAIN c.pool -> PoolFiles])]
  BY <1>1
<1> QED BY <1>1, <1>2, PackageAssumption DEF IsRelease, Releases

LEMMA NamedByFacts ==
  ASSUME NEW s \in Suites, NEW c, IsRelease(s, c)
  PROVE  /\ DOMAIN NamedBy(c) = {IndexPath(c, d) : d \in c.docs} \cup DOMAIN c.pool
         /\ \A p \in DOMAIN c.pool : NamedBy(c)[p] = c.pool[p]
         /\ \A p \in DOMAIN NamedBy(c) \ DOMAIN c.pool :
              NamedBy(c)[p] \in c.docs /\ IndexPath(c, NamedBy(c)[p]) = p
         /\ \A p \in DOMAIN NamedBy(c) : p \notin Fronts
         /\ \A d \in c.docs : IndexPath(c, d) \notin DOMAIN c.pool
<1>1. /\ DOMAIN NamedBy(c) = {IndexPath(c, d) : d \in c.docs} \cup DOMAIN c.pool
      /\ \A p \in DOMAIN c.pool : NamedBy(c)[p] = c.pool[p]
      /\ \A p \in DOMAIN NamedBy(c) \ DOMAIN c.pool :
           NamedBy(c)[p] = CHOOSE d \in c.docs : IndexPath(c, d) = p
  BY DEF NamedBy
<1>2. \A p \in DOMAIN NamedBy(c) \ DOMAIN c.pool : \E d \in c.docs : IndexPath(c, d) = p
  BY <1>1
<1>3. \A d \in c.docs : IndexPath(c, d) \notin Places /\ IndexPath(c, d) \notin Fronts
  BY ReleaseFields, IndexKinds DEF IndexPath
<1>4. \A p \in DOMAIN c.pool : p \in Places /\ p \notin Fronts
  BY ReleaseFields, PlaceKinds
<1> QED BY <1>1, <1>2, <1>3, <1>4

LEMMA NeedsFacts ==
  ASSUME AptFiles, NEW s \in Suites, NEW c, IsRelease(s, c)
  PROVE  Needs(c) = NamedBy(c) /\ Needs([inline |-> c]) = NamedBy(c)
<1>1. "docs" \in DOMAIN c /\ c \notin PoolFiles /\ [inline |-> c] \notin PoolFiles
  BY ReleaseFields
<1>2. DOMAIN [inline |-> c] = {"inline"} /\ [inline |-> c].inline = c
  OBVIOUS
<1> QED BY <1>1, <1>2 DEF AptFiles, AptNeeds

LEMMA NeedsOfSignature ==
  ASSUME AptFiles, NEW r
  PROVE  DOMAIN Needs([signs |-> r]) = {}
<1>1. DOMAIN [signs |-> r] = {"signs"} /\ DOMAIN <<>> = {}
  OBVIOUS
<1> QED BY <1>1 DEF AptFiles, AptNeeds

----------------------------------------------------------------------------
(* Indexes: what is in memory.                                             *)

TypedIndex(ix) == DOMAIN ix \subseteq Entries /\ ix \in [DOMAIN ix -> Dirs]

Staging(st) == DOMAIN st \subseteq Places /\ st \in [DOMAIN st -> PoolFiles]

\* What original records: a place, and an entry that has a file of that name.
Recorded(at) == DOMAIN at \subseteq Places /\ \A p \in DOMAIN at : at[p] \in Entries /\ p \in PlacesOf(at[p])

LEMMA NoneYet == TypedIndex(<<>>) /\ Staging(<<>>) /\ Recorded(<<>>) /\ DOMAIN <<>> = {}
<1>1. DOMAIN <<>> = {} /\ \A S : <<>> \in [{} -> S]
  OBVIOUS
<1> QED BY <1>1 DEF TypedIndex, Staging, Recorded

LEMMA FilesTyped ==
  ASSUME NEW e \in Entries, NEW dir \in Dirs, NEW b \in DOMAIN Files(e)
  PROVE  Files(e)[b] \in PoolFiles /\ Location(dir, b) \in PlacesOf(e) /\ Location(dir, b) \in Places
BY DEF PoolFiles, Range, PlacesOf, Places

LEMMA LocationFacts ==
  ASSUME NEW e, NEW dir
  PROVE  /\ \A b \in DOMAIN Files(e) : Location(dir, b) \in LocationsOf(e, dir)
         /\ \A p \in LocationsOf(e, dir) : p.base \in DOMAIN Files(e) /\ p.dir = dir /\ p = Location(dir, p.base)
BY DEF Location, LocationsOf

LEMMA IndexFacts ==
  ASSUME NEW ix, TypedIndex(ix)
  PROVE  /\ AllLocations(ix) \subseteq Places
         /\ \A e \in DOMAIN ix : \A b \in DOMAIN Files(e) :
              Location(ix[e], b) \in AllLocations(ix) /\ e \in Owners(ix, Location(ix[e], b))
         /\ \A p \in AllLocations(ix) :
              /\ Owners(ix, p) \subseteq DOMAIN ix
              /\ \A e \in Owners(ix, p) : p = Location(ix[e], p.base) /\ p.base \in DOMAIN Files(e)
              /\ LastOf(Owners(ix, p)) \in Owners(ix, p)
<1>1. DOMAIN ix \subseteq Entries /\ \A e \in DOMAIN ix : ix[e] \in Dirs
  BY DEF TypedIndex
<1>2. ASSUME NEW e \in DOMAIN ix, NEW b \in DOMAIN Files(e)
      PROVE  Location(ix[e], b) \in AllLocations(ix) /\ e \in Owners(ix, Location(ix[e], b))
  <2>1. Location(ix[e], b).dir = ix[e] /\ Location(ix[e], b).base = b
    BY DEF Location
  <2> QED BY <2>1, LocationFacts DEF AllLocations, Owners
<1>3. ASSUME NEW p \in AllLocations(ix)
      PROVE  /\ p \in Places /\ Owners(ix, p) \subseteq DOMAIN ix
             /\ \A e \in Owners(ix, p) : p = Location(ix[e], p.base) /\ p.base \in DOMAIN Files(e)
             /\ LastOf(Owners(ix, p)) \in Owners(ix, p)
  <2>1. PICK e \in DOMAIN ix : p \in LocationsOf(e, ix[e])
    BY DEF AllLocations
  <2>2. p.base \in DOMAIN Files(e) /\ p.dir = ix[e] /\ p = Location(ix[e], p.base)
    BY <2>1, LocationFacts
  <2>3. p \in Places
    BY <1>1, <2>2, FilesTyped
  <2>4. e \in Owners(ix, p) /\ Owners(ix, p) \in SUBSET Entries /\ Owners(ix, p) \subseteq DOMAIN ix
    BY <1>1, <2>2 DEF Owners
  <2>5. \E x \in Owners(ix, p) : \A y \in Owners(ix, p) : EVR(y) <= EVR(x)
    BY <2>4, PackageAssumption
  <2>6. LastOf(Owners(ix, p)) \in Owners(ix, p)
    BY <2>5 DEF LastOf
  <2>7. \A x \in Owners(ix, p) : p = Location(ix[x], p.base) /\ p.base \in DOMAIN Files(x)
    BY <2>2 DEF Owners, Location
  <2> QED BY <2>3, <2>4, <2>6, <2>7
<1> QED BY <1>2, <1>3

LEMMA RecordFacts ==
  ASSUME NEW ix, TypedIndex(ix)
  PROVE  /\ DOMAIN Locations(ix) = AllLocations(ix) /\ Recorded(Locations(ix))
         /\ DOMAIN FileExpectations(ix) = AllLocations(ix)
         /\ \A p \in AllLocations(ix) : \E e \in Owners(ix, p) :
              Locations(ix)[p] = e /\ FileExpectations(ix)[p] = Files(e)[p.base]
<1>1. /\ DOMAIN Locations(ix) = AllLocations(ix)
      /\ DOMAIN FileExpectations(ix) = AllLocations(ix)
      /\ \A p \in AllLocations(ix) : /\ Locations(ix)[p] = LastOf(Owners(ix, p))
                                     /\ FileExpectations(ix)[p] = Files(LastOf(Owners(ix, p)))[p.base]
  BY DEF Locations, FileExpectations
<1>2. \A e \in DOMAIN ix : e \in Entries /\ ix[e] \in Dirs
  BY DEF TypedIndex
<1>3. ASSUME NEW p \in AllLocations(ix), NEW e \in Owners(ix, p)
      PROVE  e \in Entries /\ p \in PlacesOf(e)
  <2>1. e \in DOMAIN ix /\ p = Location(ix[e], p.base) /\ p.base \in DOMAIN Files(e)
    BY <1>3, IndexFacts
  <2>2. e \in Entries /\ ix[e] \in Dirs
    BY <1>2, <2>1
  <2> QED BY <2>1, <2>2, FilesTyped
<1> QED BY <1>1, <1>3, IndexFacts DEF Recorded

LEMMA IngestedFacts ==
  ASSUME NEW s \in Suites, NEW rel, IsRelease(s, rel) \/ rel = NoRelease
  PROVE  TypedIndex(Ingested(rel))
<1> DEFINE stanzas == UNION {d.of : d \in rel.docs}
<1>1. rel.docs \subseteq Index(s)
  <2>1. CASE rel = NoRelease
    <3>1. rel.docs = {}
      BY <2>1 DEF NoRelease
    <3> QED BY <3>1
  <2> QED BY <2>1, ReleaseFields
<1>2. stanzas \subseteq Stanza
  BY <1>1 DEF Index
<1>3. /\ DOMAIN Ingested(rel) = {x.entry : x \in stanzas}
      /\ \A e \in {x.entry : x \in stanzas} :
           Ingested(rel)[e] = (CHOOSE x \in stanzas : x.entry = e).dir
      /\ Ingested(rel) = [e \in {x.entry : x \in stanzas} |-> Ingested(rel)[e]]
  BY DEF Ingested
<1> HIDE DEF stanzas
<1>4. ASSUME NEW e \in DOMAIN Ingested(rel) PROVE e \in Entries /\ Ingested(rel)[e] \in Dirs
  <2>1. \E x \in stanzas : x.entry = e
    BY <1>3
  <2>2. (CHOOSE x \in stanzas : x.entry = e) \in stanzas
    BY <2>1
  <2> QED BY <1>2, <1>3, <2>1, <2>2 DEF Stanza
<1> QED BY <1>3, <1>4 DEF TypedIndex

----------------------------------------------------------------------------
(* The inductive invariant.                                                *)

\* What a file that clients start from may hold.
FrontContent(s, p, c) ==
  /\ p = Release(s) => IsRelease(s, c)
  /\ p = InRelease(s) => c = [inline |-> c.inline] /\ IsRelease(s, c.inline)
  /\ p = ReleaseGPG(s) => c = [signs |-> c.signs]

FrontsOf(s) == {Release(s), InRelease(s), ReleaseGPG(s)}

FrontsInv == \A s \in Suites : \A p \in FrontsOf(s) \cap DOMAIN store : FrontContent(s, p, store[p])

\* Where clients read there are Releases and signatures, no signature alone.
StoreInv == \A s \in Suites :
  /\ Release(s) \in DOMAIN store => IsRelease(s, store[Release(s)])
  /\ InRelease(s) \in DOMAIN store =>
       /\ store[InRelease(s)] = [inline |-> store[InRelease(s)].inline]
       /\ IsRelease(s, store[InRelease(s)].inline)
  /\ ReleaseGPG(s) \in DOMAIN store =>
       /\ store[ReleaseGPG(s)] = [signs |-> store[ReleaseGPG(s)].signs]
       /\ {Release(s), InRelease(s)} \cap DOMAIN store # {}

\* What one process has in memory.
SessionTyped ==
  /\ mode \in {"closed", "open", "publishing"}
  /\ use \in Uses
  /\ clock \in Nat /\ calls \in Nat
  /\ TypedIndex(idx) /\ Staging(pending) /\ copied = {}

\* While a suite is open its Release is the one clients read.
SessionInv ==
  mode # "closed" =>
    /\ opt \in Options
    /\ old = NoRelease \/ IsRelease(opt.suite, old)
    /\ original = Locations(Ingested(old))
    /\ mode = "open" => old = Root(opt.suite)

Movable    == [from : Places, to : Places]
Uploadable == [to : Places, data : PoolFiles]

IndexFile(d)  == [to |-> d, data |-> d]
PlainFile(d)  == [to |-> Plain(d), data |-> d]
Describable   == UNION {{IndexFile(d), PlainFile(d)} : d \in UNION {Index(s) : s \in Suites}}

ReleaseFile(rel)   == [to |-> Release(rel.suite), data |-> rel]
DetachedFile(rel)  == [to |-> ReleaseGPG(rel.suite), data |-> [signs |-> rel]]
InlineFile(rel)    == [to |-> InRelease(rel.suite), data |-> [inline |-> rel]]

ReleasesOf(s) == UNION {Releases(s, [L -> PoolFiles]) : L \in SUBSET Places}
Swappable(s)  == {ReleaseFile(rel)  : rel \in ReleasesOf(s)} \cup
                 {DetachedFile(rel) : rel \in ReleasesOf(s)} \cup
                 {InlineFile(rel)   : rel \in ReleasesOf(s)}

\* What is left of a publish of the suite s, G being what it may collect.
AptShape(s, G) ==
  Shape(Movable, Uploadable, Describable, Swappable(s), {InRelease(s), ReleaseGPG(s)}, G)

WorkInv ==
  /\ work \in AptShape(opt.suite, Doomed)
  /\ Doomed \cap Fronts = {}
  /\ mode # "publishing" => work = NoSteps

\* Release is written before its signatures, and an unsigned one first takes the
\* signatures of the old one away: what is left to do says how far it is.
SignatureInv ==
  mode = "publishing" =>
    LET s   == opt.suite
        now == store[Release(s)]
    IN IF opt.signed
       THEN /\ work.retract = <<>>
            /\ \/ \E rel \in ReleasesOf(s) :
                    work.swap = <<ReleaseFile(rel), DetachedFile(rel), InlineFile(rel)>>
               \/ /\ Release(s) \in DOMAIN store
                  /\ \/ work.swap = <<DetachedFile(now), InlineFile(now)>>
                     \/ work.swap = <<InlineFile(now)>>
                          /\ ReleaseGPG(s) \in DOMAIN store /\ store[ReleaseGPG(s)] = [signs |-> now]
                     \/ work.swap = <<>> /\ SignaturesAgree(s)
       ELSE \/ /\ \E rel \in ReleasesOf(s) : work.swap = <<ReleaseFile(rel)>>
               /\ work.retract = Retracted
            \/ /\ work.swap = <<>> /\ Release(s) \in DOMAIN store
               /\ \/ work.retract = <<InRelease(s), ReleaseGPG(s)>>
                  \/ work.retract = <<ReleaseGPG(s)>> /\ InRelease(s) \notin DOMAIN store
                  \/ work.retract = <<>> /\ SignaturesAgree(s)

\* Nothing is retracted only where there was nothing.
RetractInv ==
  mode = "publishing" /\ ~opt.signed /\ old = NoRelease =>
    {InRelease(opt.suite), ReleaseGPG(opt.suite)} \cap DOMAIN store = {}

AptInv == StoreInv /\ SessionTyped /\ SessionInv /\ WorkInv /\ SignatureInv /\ RetractInv

LEMMA ReleasesDef ==
  ASSUME NEW s, NEW c
  PROVE  c \in ReleasesOf(s) <=> IsRelease(s, c)
<1>1. ASSUME c \in ReleasesOf(s) PROVE IsRelease(s, c)
  <2>1. PICK L \in SUBSET Places : c \in Releases(s, [L -> PoolFiles])
    BY <1>1 DEF ReleasesOf
  <2>2. c.pool \in [L -> PoolFiles] /\ c \in Releases(s, {c.pool})
    BY <2>1 DEF Releases
  <2> QED BY <2>2 DEF IsRelease
<1>2. ASSUME IsRelease(s, c) PROVE c \in ReleasesOf(s)
  <2>1. DOMAIN c.pool \in SUBSET Places /\ c \in Releases(s, [DOMAIN c.pool -> PoolFiles])
    BY <1>2 DEF IsRelease, Releases
  <2> QED BY <2>1 DEF ReleasesOf
<1> QED BY <1>1, <1>2

----------------------------------------------------------------------------
(* The calls of a session keep it.                                         *)

LEMMA CallInv ==
  ASSUME AptInv, NEW name, Call(name), TypedIndex(idx'), Staging(pending')
  PROVE  AptInv'
<1>1. StoreInv' /\ WorkInv' /\ SignatureInv' /\ RetractInv'
  BY DEF Call, AptInv, StoreInv, WorkInv, Doomed, SignatureInv, RetractInv
<1>2. SessionTyped' /\ SessionInv'
  BY DEF Call, AptInv, SessionTyped, SessionInv, Root
<1> QED BY <1>1, <1>2 DEF AptInv

LEMMA AddInv ==
  ASSUME AptInv, NEW e \in Entries, Add(e)
  PROVE  AptInv'
<1>1. Call("add") /\ mode = "open" /\ opt.dir \in Dirs /\ TypedIndex(idx) /\ Staging(pending)
  BY DEF Add, Call, AptInv, SessionTyped, SessionInv, Options
<1>2. PICK gone :
        idx' = [x \in (DOMAIN idx \ (SameVersion(e) \cup gone)) \cup {e} |->
                  IF x = e THEN opt.dir ELSE idx[x]]
  BY DEF Add
<1>3. TypedIndex(idx')
  BY <1>1, <1>2 DEF TypedIndex
<1>4. pending' = [p \in DOMAIN pending \cup LocationsOf(e, opt.dir) |->
                    IF p \in LocationsOf(e, opt.dir) THEN Files(e)[p.base] ELSE pending[p]]
  BY DEF Add
<1>5. \A p \in LocationsOf(e, opt.dir) : p \in Places /\ Files(e)[p.base] \in PoolFiles
  BY <1>1, LocationFacts, FilesTyped
<1>6. Staging(pending')
  BY <1>1, <1>4, <1>5 DEF Staging
<1> QED BY <1>1, <1>3, <1>6, CallInv

LEMMA RemovalInv ==
  ASSUME AptInv, (\E e \in Entries : RemoveID(e)) \/ PruneOlderVersions
  PROVE  AptInv'
<1>1. PICK name, E : Call(name) /\ idx' = Without(idx, E) /\ UNCHANGED pending
  BY DEF RemoveID, PruneOlderVersions
<1>2. TypedIndex(idx) /\ Staging(pending)
  BY DEF AptInv, SessionTyped
<1>3. TypedIndex(idx')
  BY <1>1, <1>2 DEF TypedIndex, Without
<1> QED BY <1>1, <1>2, <1>3, CallInv

LEMMA RelocateInv ==
  ASSUME AptInv, RelocateAll
  PROVE  AptInv'
<1>1. Call("relocate") /\ idx' = [e \in DOMAIN idx |-> opt.dir] /\ UNCHANGED pending
  BY DEF RelocateAll
<1>2. TypedIndex(idx) /\ Staging(pending) /\ opt.dir \in Dirs
  BY <1>1 DEF Call, AptInv, SessionTyped, SessionInv, Options
<1>3. TypedIndex(idx')
  BY <1>1, <1>2 DEF TypedIndex
<1> QED BY <1>1, <1>2, <1>3, CallInv

LEMMA RereadableFacts ==
  ASSUME TypedIndex(idx), NEW p \in Rereadable
  PROVE  /\ p \in AllLocations(idx) /\ p \in Places /\ p.dir \in Dirs
         /\ p \in DOMAIN store /\ store[p] \in Entries /\ ~IsSource(store[p])
<1>1. p \in BinaryLocations /\ Readable(p)
  BY DEF Rereadable
<1>2. PICK e \in DOMAIN idx : p \in LocationsOf(e, idx[e])
  BY <1>1 DEF BinaryLocations
<1>3. p.dir = idx[e] /\ idx[e] \in Dirs /\ p \in AllLocations(idx)
  BY <1>2, LocationFacts DEF TypedIndex, AllLocations
<1> QED BY <1>1, <1>3, IndexFacts DEF Readable

LEMMA RefreshInv ==
  ASSUME AptInv, Refresh
  PROVE  AptInv'
<1>1. Call("refresh") /\ idx' = Refreshed /\ UNCHANGED pending
  BY DEF Refresh
<1>2. TypedIndex(idx) /\ Staging(pending)
  BY DEF AptInv, SessionTyped
<1>3. ASSUME NEW x, \E p \in Rereadable : store[p] = x
      PROVE  (CHOOSE p \in Rereadable : store[p] = x).dir \in Dirs
  <2>1. (CHOOSE p \in Rereadable : store[p] = x) \in Rereadable
    BY <1>3
  <2> QED BY <1>2, <2>1, RereadableFacts
<1>4. \A p \in Rereadable : store[p] \in Entries
  BY <1>2, RereadableFacts
<1>5. TypedIndex(idx')
  <2>1. DOMAIN Refreshed \subseteq Entries
    BY <1>2, <1>4 DEF Refreshed, TypedIndex
  <2>2. ASSUME NEW x \in DOMAIN Refreshed PROVE Refreshed[x] \in Dirs
    <3>1. CASE \E p \in Rereadable : store[p] = x
      BY <1>3, <3>1 DEF Refreshed
    <3>2. CASE ~ \E p \in Rereadable : store[p] = x
      <4>1. x \in DOMAIN idx /\ Refreshed[x] = idx[x]
        BY <3>2 DEF Refreshed
      <4> QED BY <1>2, <4>1 DEF TypedIndex
    <3> QED BY <3>1, <3>2
  <2>3. Refreshed = [x \in DOMAIN Refreshed |-> Refreshed[x]]
    BY DEF Refreshed
  <2> QED BY <1>1, <2>1, <2>2, <2>3 DEF TypedIndex
<1> QED BY <1>1, <1>2, <1>5, CallInv

----------------------------------------------------------------------------
(* The documents of a publish, and the Release it writes.                  *)

\* What the first k architectures there are leave of A.
Keeps(A, k, g) ==
  g = [n \in 0 .. k |-> IF n = 0 THEN <<>>
                        ELSE IF ArchOrder[n] \in A THEN Append(g[n - 1], ArchOrder[n])
                        ELSE g[n - 1]]

LEMMA KeepsExist == \A A : \A k \in Nat : \E g : Keeps(A, k, g)
<1> SUFFICES ASSUME NEW A, NEW bad \in Nat, ~ \E g : Keeps(A, bad, g)
             PROVE  FALSE
  OBVIOUS
<1>1. PICK k \in Nat : /\ ~ \E g : Keeps(A, k, g)
                       /\ \A m \in Nat : m < k => \E g : Keeps(A, m, g)
  <2> DEFINE T == {m \in Nat : ~ \E g : Keeps(A, m, g)}
  <2>1. PICK k \in T : \A m \in T : k <= m
    BY LeastNat
  <2> QED BY <2>1
<1>2. CASE k = 0
  <2> DEFINE g == [n \in 0 .. 0 |-> <<>>]
  <2>1. Keeps(A, 0, g)
    BY DEF Keeps
  <2> QED BY <1>1, <1>2, <2>1
<1>3. CASE k # 0
  <2>1. PICK g : Keeps(A, k - 1, g)
    BY <1>1, <1>3
  <2> DEFINE last == IF ArchOrder[k] \in A THEN Append(g[k - 1], ArchOrder[k]) ELSE g[k - 1]
             h    == [n \in 0 .. k |-> IF n = k THEN last ELSE g[n]]
  <2>2. \A n \in 0 .. k - 1 :
          g[n] = IF n = 0 THEN <<>>
                 ELSE IF ArchOrder[n] \in A THEN Append(g[n - 1], ArchOrder[n]) ELSE g[n - 1]
    BY <2>1 DEF Keeps
  <2> HIDE DEF last
  <2>3. \A n \in 0 .. k - 1 : h[n] = g[n]
    BY <1>3
  <2>4. h[k] = last
    OBVIOUS
  <2> HIDE DEF h
  <2>5. ASSUME NEW n \in 0 .. k
        PROVE  h[n] = IF n = 0 THEN <<>>
                      ELSE IF ArchOrder[n] \in A THEN Append(h[n - 1], ArchOrder[n]) ELSE h[n - 1]
    <3>1. CASE n = 0
      BY <1>3, <2>2, <2>3, <3>1
    <3>2. CASE n = k
      BY <1>3, <2>3, <2>4, <3>2 DEF last
    <3>3. CASE n \in 1 .. k - 1
      BY <2>2, <2>3, <3>3
    <3> QED BY <3>1, <3>2, <3>3
  <2>6. Keeps(A, k, h)
    BY <2>5 DEF Keeps, h
  <2> QED BY <1>1, <2>6
<1> QED BY <1>2, <1>3

LEMMA AppendFacts ==
  ASSUME NEW S, NEW s \in Seq(S), NEW x \in S
  PROVE  Append(s, x) \in Seq(S) /\ Range(Append(s, x)) = Range(s) \cup {x}
<1>1. /\ Append(s, x) \in Seq(S) /\ DOMAIN s = 1 .. Len(s) /\ Len(s) \in Nat
      /\ DOMAIN Append(s, x) = 1 .. Len(s) + 1 /\ Append(s, x)[Len(s) + 1] = x
      /\ \A i \in 1 .. Len(s) : Append(s, x)[i] = s[i]
  OBVIOUS
<1>2. \A i \in 1 .. Len(s) + 1 : i \in 1 .. Len(s) \/ i = Len(s) + 1
  BY <1>1
<1>3. 1 .. Len(s) \subseteq 1 .. Len(s) + 1 /\ Len(s) + 1 \in 1 .. Len(s) + 1
  BY <1>1
<1> QED BY <1>1, <1>2, <1>3 DEF Range

\* The architectures of A there are, each once or more.
LEMMA InArchOrderFacts ==
  ASSUME NEW A
  PROVE  InArchOrder(A) \in Seq(Arches) /\ Range(InArchOrder(A)) = A \cap Arches
<1> DEFINE N == Len(ArchOrder)
           g == CHOOSE f : Keeps(A, N, f)
           S(n) == {ArchOrder[m] : m \in 1 .. n}
           Good(n) == g[n] \in Seq(Arches) /\ Range(g[n]) = A \cap S(n)
<1>1. N \in Nat /\ DOMAIN ArchOrder = 1 .. N
  BY PackageAssumption
<1>2. Keeps(A, N, g)
  BY <1>1, KeepsExist
<1>3. InArchOrder(A) = g[N]
  BY DEF InArchOrder, Keeps
<1> HIDE DEF g
<1>4. \A n \in 0 .. N :
        g[n] = IF n = 0 THEN <<>>
               ELSE IF ArchOrder[n] \in A THEN Append(g[n - 1], ArchOrder[n]) ELSE g[n - 1]
  BY <1>2 DEF Keeps
<1>5. \A n \in 0 .. N : Good(n)
  <2> SUFFICES ASSUME NEW bad \in 0 .. N, ~Good(bad)
               PROVE  FALSE
    OBVIOUS
  <2> DEFINE T == {n \in 0 .. N : ~Good(n)}
  <2>1. T \in SUBSET Nat /\ T # {}
    <3> HIDE DEF Good
    <3> QED BY <1>1
  <2>2. PICK n \in T : \A m \in T : n <= m
    BY <2>1, LeastNat
  <2>3. n \in 0 .. N /\ ~Good(n)
    BY <2>2
  <2>4. CASE n = 0
    <3>1. g[n] = <<>> /\ S(n) = {}
      BY <1>1, <1>4, <2>3, <2>4
    <3>2. Range(<<>>) = {} /\ <<>> \in Seq(Arches)
      BY DEF Range
    <3> QED BY <2>3, <3>1, <3>2
  <2>5. CASE n # 0
    <3>1. n \in 1 .. N /\ n - 1 \in 0 .. N /\ ~(n <= n - 1)
      BY <1>1, <2>3, <2>5
    <3>2. Good(n - 1)
      BY <2>2, <3>1
    <3>3. S(n) = S(n - 1) \cup {ArchOrder[n]}
      <4>1. \A m \in 1 .. n : m \in 1 .. n - 1 \/ m = n
        BY <3>1
      <4>2. 1 .. n - 1 \subseteq 1 .. n /\ n \in 1 .. n
        BY <3>1
      <4> QED BY <4>1, <4>2
    <3>4. ArchOrder[n] \in Arches
      BY <1>1, <3>1 DEF Arches, Range
    <3>5. CASE ArchOrder[n] \in A
      <4>1. g[n] = Append(g[n - 1], ArchOrder[n])
        BY <1>4, <2>3, <2>5, <3>5
      <4>2. g[n] \in Seq(Arches) /\ Range(g[n]) = Range(g[n - 1]) \cup {ArchOrder[n]}
        BY <3>2, <3>4, <4>1, AppendFacts
      <4> HIDE DEF S
      <4> QED BY <2>3, <3>2, <3>3, <3>5, <4>2
    <3>6. CASE ArchOrder[n] \notin A
      <4>1. g[n] = g[n - 1]
        BY <1>4, <2>3, <2>5, <3>6
      <4> HIDE DEF S
      <4> QED BY <2>3, <3>2, <3>3, <3>6, <4>1
    <3> QED BY <3>5, <3>6
  <2> QED BY <2>4, <2>5
<1>6. S(N) = Arches
  BY <1>1 DEF Arches, Range
<1>7. Good(N)
  <2>1. N \in 0 .. N
    BY <1>1
  <2> HIDE DEF Good, N
  <2> QED BY <1>5, <2>1
<1> QED BY <1>3, <1>6, <1>7

LEMMA ConcatFacts ==
  ASSUME NEW S, NEW s \in Seq(S), NEW t \in Seq(S)
  PROVE  s \o t \in Seq(S) /\ Range(s \o t) = Range(s) \cup Range(t)
<1>1. /\ s \o t \in Seq(S) /\ DOMAIN s = 1 .. Len(s) /\ Len(s) \in Nat
      /\ DOMAIN t = 1 .. Len(t) /\ Len(t) \in Nat /\ DOMAIN (s \o t) = 1 .. Len(s) + Len(t)
      /\ \A i \in 1 .. Len(s) : (s \o t)[i] = s[i]
  OBVIOUS
<1>2. \A i \in 1 .. Len(t) : (s \o t)[Len(s) + i] = t[i] /\ Len(s) + i \in 1 .. Len(s) + Len(t)
  BY <1>1
<1>3. \A i \in 1 .. Len(s) + Len(t) : i \in 1 .. Len(s) \/
        (i - Len(s) \in 1 .. Len(t) /\ Len(s) + (i - Len(s)) = i)
  BY <1>1
<1>4. 1 .. Len(s) \subseteq 1 .. Len(s) + Len(t)
  BY <1>1
<1>5. ASSUME NEW i \in 1 .. Len(s) + Len(t) PROVE (s \o t)[i] \in Range(s) \cup Range(t)
  <2>1. CASE i \in 1 .. Len(s)
    BY <1>1, <2>1 DEF Range
  <2>2. CASE i \notin 1 .. Len(s)
    <3>1. i - Len(s) \in 1 .. Len(t) /\ Len(s) + (i - Len(s)) = i
      BY <1>3, <2>2
    <3>2. (s \o t)[i] = t[i - Len(s)]
      BY <1>2, <3>1
    <3> QED BY <1>1, <3>1, <3>2 DEF Range
  <2> QED BY <2>1, <2>2
<1>6. Range(s \o t) \subseteq Range(s) \cup Range(t)
  BY <1>1, <1>5 DEF Range
<1>7. Range(s) \subseteq Range(s \o t)
  BY <1>1, <1>4 DEF Range
<1>8. Range(t) \subseteq Range(s \o t)
  BY <1>1, <1>2 DEF Range
<1> QED BY <1>1, <1>6, <1>7, <1>8

\* What a process has loaded, changed or not: all that a commit is worked out of.
Opened ==
  /\ mode = "open" /\ opt \in Options /\ clock \in Nat
  /\ TypedIndex(idx) /\ Staging(pending)
  /\ old = Root(opt.suite) /\ (old = NoRelease \/ IsRelease(opt.suite, old))
  /\ original = Locations(Ingested(old))

LEMMA AptOpened ==
  ASSUME AptInv, mode = "open"
  PROVE  Opened
BY DEF AptInv, SessionTyped, SessionInv, Opened

\* And where that comes from.
LEMMA OpenFacts ==
  ASSUME Opened
  PROVE  /\ mode = "open" /\ opt \in Options /\ opt.suite \in Suites /\ clock \in Nat
         /\ TypedIndex(idx) /\ Staging(pending)
         /\ old = Root(opt.suite) /\ (old = NoRelease \/ IsRelease(opt.suite, old))
         /\ old.docs \subseteq Index(opt.suite)
         /\ original = Locations(Ingested(old)) /\ Recorded(original)
<1>1. /\ mode = "open" /\ opt \in Options /\ opt.suite \in Suites /\ clock \in Nat
      /\ TypedIndex(idx) /\ Staging(pending)
      /\ old = Root(opt.suite) /\ (old = NoRelease \/ IsRelease(opt.suite, old))
      /\ original = Locations(Ingested(old))
  BY DEF Opened, Options
<1>2. old.docs \subseteq Index(opt.suite)
  <2>1. CASE old = NoRelease
    <3>1. old.docs = {}
      BY <2>1 DEF NoRelease
    <3> QED BY <3>1
  <2> QED BY <1>1, <2>1, ReleaseFields
<1>3. Recorded(original)
  BY <1>1, IngestedFacts, RecordFacts
<1> QED BY <1>1, <1>2, <1>3

\* The document of an architecture.
Document(a) == [suite |-> opt.suite, arch |-> a,
                of |-> {[entry |-> e, dir |-> idx[e]] : e \in Selected(a)}]

\* The architectures that get one.
Documented == Arches \cap (Architectures \cup (IF Selected("source") # {} THEN {"source"} ELSE {}))

LEMMA DocumentsFacts ==
  ASSUME TypedIndex(idx)
  PROVE  /\ Documents \in Seq(Index(opt.suite))
         /\ Range(Documents) = {Document(a) : a \in Documented}
         /\ \A d \in Range(Documents) :
              /\ d \in Index(opt.suite) /\ d = Document(d.arch)
              /\ \A x \in d.of : x.entry \in DOMAIN idx /\ x.dir = idx[x.entry]
<1> DEFINE arches == InArchOrder(Architectures \cup (IF Selected("source") # {} THEN {"source"} ELSE {}))
<1>1. arches \in Seq(Arches) /\ Range(arches) = Documented
  BY InArchOrderFacts DEF Documented
<1>2. Documents = [i \in DOMAIN arches |-> Document(arches[i])]
  BY DEF Documents, Document
<1>3. ASSUME NEW a \in Arches
      PROVE  /\ Document(a) \in Index(opt.suite) /\ Document(a).arch = a
             /\ \A x \in Document(a).of : x.entry \in DOMAIN idx /\ x.dir = idx[x.entry]
  <2>1. Selected(a) \subseteq DOMAIN idx
    BY DEF Selected
  <2>2. {[entry |-> e, dir |-> idx[e]] : e \in Selected(a)} \subseteq Stanza
    BY <2>1 DEF Stanza, TypedIndex
  <2>3. \A x \in {[entry |-> e, dir |-> idx[e]] : e \in Selected(a)} :
          x.entry \in DOMAIN idx /\ x.dir = idx[x.entry]
    BY <2>1
  <2> QED BY <2>2, <2>3 DEF Document, Index
<1> HIDE DEF arches
<1>4. DOMAIN arches = 1 .. Len(arches) /\ Len(arches) \in Nat /\ \A i \in DOMAIN arches : arches[i] \in Arches
  BY <1>1
<1>5. Documents \in Seq(Index(opt.suite))
  BY <1>2, <1>3, <1>4
<1>6. Range(Documents) = {Document(a) : a \in Documented}
  <2>1. Range(Documents) = {Document(arches[i]) : i \in DOMAIN arches}
    BY <1>2 DEF Range
  <2>2. Documented = {arches[i] : i \in DOMAIN arches}
    BY <1>1 DEF Range
  <2> QED BY <2>1, <2>2
<1>7. Documented \subseteq Arches
  BY DEF Documented
<1> QED BY <1>3, <1>5, <1>6, <1>7

\* Indexes of one release and one architecture are the same.
LEMMA DocumentsAlike ==
  ASSUME TypedIndex(idx), NEW d \in Range(Documents), NEW x \in Range(Documents), Plain(d) = Plain(x)
  PROVE  d = x
<1>1. d \in Index(opt.suite) /\ x \in Index(opt.suite) /\ d = Document(d.arch) /\ x = Document(x.arch)
  BY DocumentsFacts
<1>2. d.arch = x.arch
  BY <1>1, IndexKinds
<1> QED BY <1>1, <1>2

LEMMA MetadataFacts ==
  ASSUME NEW s \in Suites, NEW docs \in Seq(Index(s))
  PROVE  /\ MetadataFiles(docs) \in Seq(Describable)
         /\ Range(MetadataFiles(docs)) = {PlainFile(d) : d \in Range(docs)} \cup
              (IF opt.byHash THEN {IndexFile(d) : d \in Range(docs)} ELSE {})
<1> DEFINE hashed == [i \in DOMAIN docs |-> IndexFile(docs[i])]
           plain  == [i \in DOMAIN docs |-> PlainFile(docs[i])]
           first  == IF opt.byHash THEN hashed ELSE <<>>
<1>1. MetadataFiles(docs) = first \o plain
  BY DEF MetadataFiles, IndexFile, PlainFile
<1>2. DOMAIN docs = 1 .. Len(docs) /\ Len(docs) \in Nat /\ \A i \in DOMAIN docs : docs[i] \in Index(s)
  OBVIOUS
<1>3. \A d \in Index(s) : IndexFile(d) \in Describable /\ PlainFile(d) \in Describable
  BY DEF Describable
<1>4. hashed \in Seq(Describable) /\ plain \in Seq(Describable)
  BY <1>2, <1>3
<1>5. /\ Range(hashed) = {IndexFile(d) : d \in Range(docs)}
      /\ Range(plain) = {PlainFile(d) : d \in Range(docs)}
  BY DEF Range
<1> HIDE DEF hashed, plain
<1>6. first \in Seq(Describable)
  BY <1>4
<1>7. Range(first) = IF opt.byHash THEN Range(hashed) ELSE {}
  BY DEF Range
<1> HIDE DEF first
<1>8. MetadataFiles(docs) \in Seq(Describable) /\ Range(first \o plain) = Range(first) \cup Range(plain)
  BY <1>1, <1>4, <1>6, ConcatFacts
<1> QED BY <1>1, <1>5, <1>7, <1>8

\* What is said of the pool is said of the locations of the entries, by one of
\* those there, and by all if they agree.
LEMMA PoolNeedsFacts ==
  ASSUME NEW S \in SUBSET Stanza
  PROVE  /\ DOMAIN PoolNeeds(S) \subseteq Places
         /\ PoolNeeds(S) \in [DOMAIN PoolNeeds(S) -> PoolFiles]
         /\ \A p \in DOMAIN PoolNeeds(S) :
              \E x \in S : p = Location(x.dir, p.base) /\ p.base \in DOMAIN Files(x.entry)
         /\ \A x \in S : LocationsOf(x.entry, x.dir) \subseteq DOMAIN PoolNeeds(S)
         /\ \A p \in DOMAIN PoolNeeds(S) : \A c :
              (\A x \in S : x.dir = p.dir /\ p.base \in DOMAIN Files(x.entry) => Files(x.entry)[p.base] = c)
                => PoolNeeds(S)[p] = c
<1> DEFINE at(p) == {Files(x.entry)[p.base] : x \in {y \in S : y.dir = p.dir /\ p.base \in DOMAIN Files(y.entry)}}
           places == UNION {LocationsOf(x.entry, x.dir) : x \in S}
<1>1. PoolNeeds(S) = [p \in places |-> IF Cardinality(at(p)) = 1 THEN CHOOSE c \in at(p) : TRUE ELSE Partial]
  BY DEF PoolNeeds
<1>2. ASSUME NEW p \in places
      PROVE  /\ p \in Places /\ at(p) # {} /\ at(p) \subseteq PoolFiles
             /\ \E x \in S : p = Location(x.dir, p.base) /\ p.base \in DOMAIN Files(x.entry)
  <2>1. PICK x \in S : p \in LocationsOf(x.entry, x.dir)
    OBVIOUS
  <2>2. p.base \in DOMAIN Files(x.entry) /\ p.dir = x.dir /\ p = Location(x.dir, p.base)
    BY <2>1, LocationFacts
  <2>3. x.entry \in Entries /\ x.dir \in Dirs
    BY DEF Stanza
  <2>4. p \in Places
    BY <2>2, <2>3, FilesTyped
  <2>5. Files(x.entry)[p.base] \in at(p)
    BY <2>2
  <2>6. at(p) \subseteq PoolFiles
    <3> SUFFICES ASSUME NEW y \in S, p.base \in DOMAIN Files(y.entry)
                 PROVE  Files(y.entry)[p.base] \in PoolFiles
      OBVIOUS
    <3>1. y.entry \in Entries
      BY DEF Stanza
    <3> QED BY <2>3, <3>1, FilesTyped
  <2> QED BY <2>2, <2>4, <2>5, <2>6
<1>3. Partial \in PoolFiles
  BY DEF PoolFiles
<1>4. ASSUME NEW p \in places PROVE PoolNeeds(S)[p] \in PoolFiles
  <2> DEFINE A == at(p)
  <2>1. A # {} /\ A \subseteq PoolFiles /\ PoolNeeds(S)[p] = IF Cardinality(A) = 1 THEN CHOOSE c \in A : TRUE ELSE Partial
    BY <1>1, <1>2
  <2> HIDE DEF A
  <2> QED BY <1>3, <2>1
<1>5. ASSUME NEW p \in places, NEW c,
             \A x \in S : x.dir = p.dir /\ p.base \in DOMAIN Files(x.entry) => Files(x.entry)[p.base] = c
      PROVE  PoolNeeds(S)[p] = c
  <2> DEFINE A == at(p)
  <2>1. A \subseteq {c}
    BY <1>5
  <2>2. A # {} /\ PoolNeeds(S)[p] = IF Cardinality(A) = 1 THEN CHOOSE x \in A : TRUE ELSE Partial
    BY <1>1, <1>2
  <2> HIDE DEF A
  <2>3. A = {c}
    BY <2>1, <2>2
  <2>4. Cardinality({c}) = 1
    BY FS_Singleton
  <2> QED BY <2>2, <2>3, <2>4
<1>6. DOMAIN PoolNeeds(S) = places
  BY <1>1
<1>7. PoolNeeds(S) \in [places -> PoolFiles]
  <2> HIDE DEF places, at
  <2> QED BY <1>1, <1>4
<1> HIDE DEF places
<1>8. \A x \in S : LocationsOf(x.entry, x.dir) \subseteq places
  BY DEF places
<1> QED BY <1>2, <1>5, <1>6, <1>7, <1>8

LEMMA NewReleaseFacts ==
  ASSUME Opened
  PROVE  /\ IsRelease(opt.suite, NewRelease) /\ NewRelease \in ReleasesOf(opt.suite)
         /\ NewRelease.suite = opt.suite
         /\ NewRelease.byHash = opt.byHash /\ NewRelease.docs = Range(Documents)
         /\ DOMAIN NewRelease.pool \subseteq AllLocations(idx)
         /\ \A p \in DOMAIN NewRelease.pool : \A c :
              (\A e \in Owners(idx, p) : Files(e)[p.base] = c) => NewRelease.pool[p] = c
<1> DEFINE S == UNION {d.of : d \in Range(Documents)}
           pool == PoolNeeds(S)
           docs == Range(Documents)
<1>1. TypedIndex(idx) /\ opt.byHash \in BOOLEAN /\ clock \in Nat
  BY OpenFacts DEF Options
<1>2. docs \subseteq Index(opt.suite) /\ \A x \in S : x.entry \in DOMAIN idx /\ x.dir = idx[x.entry]
  BY <1>1, DocumentsFacts
<1>3. S \in SUBSET Stanza
  BY <1>2 DEF Index
<1>4. NewRelease = [suite |-> opt.suite, rev |-> clock + 1, byHash |-> opt.byHash, docs |-> docs, pool |-> pool]
  BY DEF NewRelease
<1> HIDE DEF S
<1>5. DOMAIN pool \subseteq Places /\ pool \in [DOMAIN pool -> PoolFiles]
  BY <1>3, PoolNeedsFacts
<1>6. ASSUME NEW p \in DOMAIN pool
      PROVE  /\ p \in AllLocations(idx)
             /\ \A c : (\A e \in Owners(idx, p) : Files(e)[p.base] = c) => pool[p] = c
  <2>1. PICK x \in S : p = Location(x.dir, p.base) /\ p.base \in DOMAIN Files(x.entry)
    BY <1>3, PoolNeedsFacts
  <2>2. p \in AllLocations(idx)
    BY <1>1, <1>2, <2>1, IndexFacts
  <2>3. ASSUME NEW c, \A e \in Owners(idx, p) : Files(e)[p.base] = c
        PROVE  pool[p] = c
    <3>1. ASSUME NEW y \in S, y.dir = p.dir, p.base \in DOMAIN Files(y.entry)
          PROVE  Files(y.entry)[p.base] = c
      <4>1. y.entry \in Owners(idx, p)
        BY <1>2, <3>1 DEF Owners
      <4> QED BY <2>3, <4>1
    <3>2. (\A y \in S : y.dir = p.dir /\ p.base \in DOMAIN Files(y.entry) => Files(y.entry)[p.base] = c)
            => PoolNeeds(S)[p] = c
      BY <1>3, PoolNeedsFacts
    <3> QED BY <3>1, <3>2
  <2> QED BY <2>2, <2>3
<1> HIDE DEF pool, docs
<1>7. NewRelease # NoRelease
  <2>1. clock + 1 # 0
    BY <1>1
  <2> QED BY <1>4, <2>1 DEF NoRelease
<1>8. IsRelease(opt.suite, NewRelease)
  BY <1>1, <1>2, <1>4, <1>5, <1>7 DEF IsRelease, Releases
<1> QED BY <1>4, <1>6, <1>8, ReleasesDef DEF docs

----------------------------------------------------------------------------
(* What Commit hands to Execute, whether it is sound or not.               *)

\* The moves of a plan: to where the index puts a file and nothing is, from
\* where the loaded index had one.
LEMMA MoveFacts ==
  ASSUME Opened, NEW c \in PlanFiles(store, PlanState).copies
  PROVE  c \in Movable /\ c.to \in AllLocations(idx) /\ c.to \notin DOMAIN store
         /\ c = Relocation(PlanState, c.to)
<1> DEFINE s == PlanState
<1>1. s.referenced = FileExpectations(idx) /\ s.original = original /\ s.pending = pending
  BY DEF PlanState
<1>2. /\ DOMAIN FileExpectations(idx) = AllLocations(idx) /\ AllLocations(idx) \subseteq Places
      /\ Recorded(original)
  BY OpenFacts, RecordFacts, IndexFacts
<1> HIDE DEF s
<1>3. PICK p \in StagedMoves(store, s) \cup Moves(store, s) : c = Relocation(s, p)
  BY DEF PlanFiles, s
<1>4. p \in AllLocations(idx) /\ p \notin DOMAIN store /\ Relocatable(s, p)
  BY <1>1, <1>2, <1>3 DEF StagedMoves, Moves, Unstaged
<1>5. OrphanByID(s, s.referenced[p]) \in DOMAIN original
  <2> DEFINE id == s.referenced[p]
             O  == OrphansWith(s, id)
  <2>1. O # {} /\ O \subseteq DOMAIN original /\ \A q \in O : original[q] = id
    BY <1>1, <1>4 DEF Relocatable, OrphansWith, Orphans
  <2>2. id \in Entries /\ O \in SUBSET PlacesOf(id)
    <3> HIDE DEF O, id
    <3> QED BY <1>2, <2>1 DEF Recorded
  <2>3. First(O) \in O
    BY <2>1, <2>2, PackageAssumption
  <2> QED BY <2>1, <2>3 DEF OrphanByID
<1>6. c.from \in DOMAIN original /\ c.to = p /\ c = [from |-> c.from, to |-> c.to]
  BY <1>3, <1>5 DEF Relocation
<1>7. c.from \in Places /\ c.to \in Places
  BY <1>2, <1>4, <1>6 DEF Recorded
<1> QED BY <1>3, <1>4, <1>6, <1>7 DEF Movable, s

LEMMA UploadFacts ==
  ASSUME Opened, NEW u \in PlanFiles(store, PlanState).uploads
  PROVE  /\ u \in Uploadable
         /\ u.to \in DOMAIN pending /\ u.data = pending[u.to]
         /\ \/ u.to \notin DOMAIN store
            \/ opt.force
            \/ u.to \notin AllLocations(idx)
<1> DEFINE s == PlanState
<1>1. /\ s.referenced = FileExpectations(idx) /\ s.pending = pending /\ s.force = opt.force
  BY DEF PlanState
<1>2. DOMAIN FileExpectations(idx) = AllLocations(idx)
  BY OpenFacts, RecordFacts
<1> HIDE DEF s
<1>3. PICK p \in Uploaded(store, s) : u = [to |-> p, data |-> s.pending[p]]
  BY DEF PlanFiles, s
<1>4. /\ p \in DOMAIN pending /\ u = [to |-> p, data |-> pending[p]]
      /\ p \notin DOMAIN store \/ opt.force \/ p \notin AllLocations(idx)
  BY <1>1, <1>2, <1>3 DEF Uploaded, Overwritten, Staged
<1>5. p \in Places /\ pending[p] \in PoolFiles
  BY <1>4, OpenFacts DEF Staging
<1> QED BY <1>4, <1>5 DEF Uploadable

\* The paths of the new indexes.
LEMMA NewPathsFacts ==
  ASSUME Opened
  PROVE  \A d \in NewRelease.docs : IndexPath(NewRelease, d) \in NewPaths /\ Plain(d) \in NewPaths
<1>1. NewRelease.byHash = opt.byHash /\ NewRelease.docs = Range(Documents)
  BY NewReleaseFacts
<1> QED BY <1>1 DEF NewPaths, MetadataPaths, IndexPath

\* What is collected is an index of this suite or a file of the pool, and not one
\* the new Release names.
LEMMA CollectFacts ==
  ASSUME Opened, NEW p \in UNION Range(CommitSteps.gc)
  PROVE  /\ p \notin Fronts
         /\ p \notin DOMAIN NamedBy(NewRelease)
         /\ p \notin AllLocations(idx) /\ p \notin NewPaths
         /\ \/ IsSuite(p, opt.suite) /\ p \notin Places
            \/ opt.unreferenced /\ IsPool(p)
            \/ IsPool(p) /\ p \in DOMAIN original
<1> DEFINE plan == PlanFiles(store, PlanState)
<1>1. plan.deleted = DOMAIN original \ AllLocations(idx)
  BY OpenFacts, RecordFacts DEF PlanFiles, Orphans, PlanState
<1> HIDE DEF plan
<1>2. CommitSteps.gc = <<ObsoleteMeta, plan.deleted, UnreferencedFiles(plan.deleted), StaleMetadata>>
  BY DEF CommitSteps, plan
<1>3. p \in ObsoleteMeta \cup plan.deleted \cup UnreferencedFiles(plan.deleted) \cup StaleMetadata
  BY <1>2 DEF Range
<1>4. /\ Range(Documents) \subseteq Index(opt.suite) /\ AllLocations(idx) \subseteq Places
      /\ NewPaths \subseteq {Plain(d) : d \in Range(Documents)} \cup Range(Documents)
  BY OpenFacts, DocumentsFacts, IndexFacts DEF NewPaths, MetadataPaths
<1>5. \A q \in NewPaths : ~IsPool(q)
  BY <1>4, IndexKinds
<1>6. \A q \in AllLocations(idx) : IsPool(q) /\ \A s : ~IsSuite(q, s)
  BY <1>4, PlaceKinds
<1>7. p \notin AllLocations(idx) /\ p \notin NewPaths => p \notin DOMAIN NamedBy(NewRelease)
  <2>1. DOMAIN NamedBy(NewRelease) = {IndexPath(NewRelease, d) : d \in NewRelease.docs} \cup DOMAIN NewRelease.pool
    BY OpenFacts, NewReleaseFacts, NamedByFacts
  <2>2. DOMAIN NewRelease.pool \subseteq AllLocations(idx)
    BY NewReleaseFacts
  <2> QED BY <2>1, <2>2, NewPathsFacts
<1>8. \A q \in Fronts : ~IsPool(q) /\
        (IsSuite(q, opt.suite) => q \in {Release(opt.suite), InRelease(opt.suite), ReleaseGPG(opt.suite)})
  BY FrontKinds DEF Fronts, IsPool, IsSuite, Release, InRelease, ReleaseGPG
<1>9. CASE p \in ObsoleteMeta
  <2>1. PICK d \in old.docs : p = d \/ p = Plain(d)
    BY <1>9 DEF ObsoleteMeta
  <2>2. d \in Index(opt.suite)
    BY OpenFacts
  <2>3. ~IsPool(p) /\ p \notin Fronts /\ IsSuite(p, opt.suite) /\ p \notin Places
    BY <2>1, <2>2, IndexKinds
  <2> QED BY <1>4, <1>7, <1>9, <2>3 DEF ObsoleteMeta
<1>10. CASE p \in plan.deleted
  <2>1. p \in Places /\ p \notin AllLocations(idx) /\ p \in DOMAIN original
    BY <1>1, <1>10, OpenFacts DEF Recorded
  <2>2. IsPool(p) /\ p \notin Fronts
    BY <2>1, PlaceKinds
  <2> QED BY <1>5, <1>7, <2>1, <2>2
<1>11. CASE p \in UnreferencedFiles(plan.deleted)
  <2>1. opt.unreferenced /\ IsPool(p) /\ p \notin AllLocations(idx)
    BY <1>11 DEF UnreferencedFiles, Unreferenced
  <2> QED BY <1>5, <1>7, <1>8, <2>1
<1>12. CASE p \in StaleMetadata
  <2>1. /\ IsSuite(p, opt.suite) /\ p \notin NewPaths
        /\ p \notin {Release(opt.suite), InRelease(opt.suite), ReleaseGPG(opt.suite)}
    BY <1>12 DEF StaleMetadata, Unreferenced
  <2>2. p \notin AllLocations(idx) /\ p \notin Fronts /\ p \notin Places
    BY <1>6, <1>8, <2>1, PlaceKinds
  <2> QED BY <1>7, <2>1, <2>2
<1> QED BY <1>3, <1>9, <1>10, <1>11, <1>12

\* The files of a publish that clients start from, in order.
LEMMA SwappedFacts ==
  LET rel == NewRelease IN
  rel.suite = opt.suite =>
    Swapped = IF opt.signed THEN <<ReleaseFile(rel), DetachedFile(rel), InlineFile(rel)>>
                            ELSE <<ReleaseFile(rel)>>
<1>1. ASSUME NEW a, NEW b, NEW c PROVE <<a>> \o <<b, c>> = <<a, b, c>> /\ <<a>> \o <<>> = <<a>>
  <2> DEFINE s == <<a>> \o <<b, c>>
             t == <<a>> \o <<>>
  <2>1. <<a>> \in Seq({a, b, c}) /\ <<b, c>> \in Seq({a, b, c}) /\ Len(<<a>>) = 1 /\ Len(<<b, c>>) = 2
        /\ <<>> \in Seq({a, b, c}) /\ Len(<<>>) = 0
    OBVIOUS
  <2>2. s \in Seq({a, b, c}) /\ Len(s) = 3 /\ s[1] = a /\ s[2] = b /\ s[3] = c
    BY <2>1
  <2>3. t \in Seq({a, b, c}) /\ Len(t) = 1 /\ t[1] = a
    BY <2>1
  <2> HIDE DEF s, t
  <2>4. \A x \in Seq({a, b, c}) : Len(x) = 3 /\ x[1] = a /\ x[2] = b /\ x[3] = c => x = <<a, b, c>>
    OBVIOUS
  <2>5. \A x \in Seq({a, b, c}) : Len(x) = 1 /\ x[1] = a => x = <<a>>
    OBVIOUS
  <2> QED BY <2>2, <2>3, <2>4, <2>5 DEF s, t
<1> SUFFICES ASSUME NewRelease.suite = opt.suite
             PROVE  LET rel == NewRelease IN
                    Swapped = IF opt.signed
                              THEN <<ReleaseFile(rel), DetachedFile(rel), InlineFile(rel)>>
                              ELSE <<ReleaseFile(rel)>>
  OBVIOUS
<1>2. Swapped = <<ReleaseFile(NewRelease)>> \o
                (IF opt.signed THEN <<DetachedFile(NewRelease), InlineFile(NewRelease)>> ELSE <<>>)
  BY DEF Swapped, ReleaseFile, DetachedFile, InlineFile
<1> QED BY <1>1, <1>2

LEMMA CommitShape ==
  ASSUME Opened
  PROVE  CommitSteps \in AptShape(opt.suite, UNION Range(CommitSteps.gc))
<1> DEFINE plan == PlanFiles(store, PlanState)
           rel  == NewRelease
           G    == UNION Range(CommitSteps.gc)
<1>1. plan.copies \subseteq Movable
  BY MoveFacts
<1>2. plan.uploads \subseteq Uploadable
  BY UploadFacts
<1>3. MetadataFiles(Documents) \in Seq(Describable)
  BY OpenFacts, DocumentsFacts, MetadataFacts
<1>4. Swapped \in Seq(Swappable(opt.suite))
  <2>1. rel \in ReleasesOf(opt.suite) /\ rel.suite = opt.suite
    BY NewReleaseFacts
  <2>2. Swapped = IF opt.signed THEN <<ReleaseFile(rel), DetachedFile(rel), InlineFile(rel)>>
                                ELSE <<ReleaseFile(rel)>>
    BY <2>1, SwappedFacts
  <2> HIDE DEF rel
  <2>3. /\ ReleaseFile(rel) \in Swappable(opt.suite) /\ DetachedFile(rel) \in Swappable(opt.suite)
        /\ InlineFile(rel) \in Swappable(opt.suite)
    BY <2>1 DEF Swappable
  <2>4. \A S : \A a, b, c \in S : <<a, b, c>> \in Seq(S) /\ <<a>> \in Seq(S)
    OBVIOUS
  <2> QED BY <2>2, <2>3, <2>4
<1>5. Retracted \in Seq({InRelease(opt.suite), ReleaseGPG(opt.suite)})
  <2>1. \A p, q : <<>> \in Seq({p, q}) /\ <<p, q>> \in Seq({p, q})
    OBVIOUS
  <2> QED BY <2>1 DEF Retracted
<1>6. CommitSteps.gc \in Seq(SUBSET G)
  <2> DEFINE g == CommitSteps.gc
  <2>1. g = <<ObsoleteMeta, plan.deleted, UnreferencedFiles(plan.deleted), StaleMetadata>>
    BY DEF CommitSteps
  <2>2. DOMAIN g = 1 .. 4 /\ Len(g) = 4 /\ g = [i \in 1 .. 4 |-> g[i]]
    BY <2>1
  <2>3. \A i \in 1 .. 4 : g[i] \in SUBSET UNION Range(g)
    BY <2>2 DEF Range
  <2> HIDE DEF g
  <2>4. g \in Seq(SUBSET UNION Range(g))
    BY <2>2, <2>3
  <2> QED BY <2>4 DEF g
<1> HIDE DEF G
<1>7. CommitSteps = [copies |-> plan.copies, uploads |-> plan.uploads,
                     metadata |-> MetadataFiles(Documents), swap |-> Swapped,
                     retract |-> Retracted, gc |-> CommitSteps.gc]
  BY DEF CommitSteps
<1> HIDE DEF plan
<1>8. CommitSteps \in AptShape(opt.suite, G)
  BY <1>1, <1>2, <1>3, <1>4, <1>5, <1>6, <1>7 DEF AptShape, Shape
<1> QED BY <1>8 DEF G

LEMMA CommitInv ==
  ASSUME AptInv, Commit
  PROVE  AptInv'
<1>1. /\ mode = "open" /\ mode' = "publishing" /\ clock' = clock + 1
      /\ work' = CommitSteps /\ store' = store /\ calls' = calls
      /\ idx' = idx /\ old' = old /\ original' = original /\ pending' = pending
      /\ copied' = copied /\ opt' = opt /\ use' = use
  BY DEF Commit, session
<1>2. StoreInv' /\ SessionTyped' /\ SessionInv'
  BY <1>1 DEF AptInv, StoreInv, SessionTyped, SessionInv
<1>3. WorkInv'
  <2>1. CommitSteps \in AptShape(opt.suite, UNION Range(CommitSteps.gc))
    BY <1>1, AptOpened, CommitShape
  <2>2. (UNION Range(CommitSteps.gc)) \cap Fronts = {}
    BY <1>1, AptOpened, CollectFacts
  <2> QED BY <1>1, <2>1, <2>2 DEF WorkInv, Doomed
<1>4. SignatureInv'
  <2> DEFINE rel == NewRelease
  <2>1. rel \in ReleasesOf(opt.suite) /\ rel.suite = opt.suite
    BY <1>1, AptOpened, NewReleaseFacts
  <2>2. /\ CommitSteps.swap = IF opt.signed THEN <<ReleaseFile(rel), DetachedFile(rel), InlineFile(rel)>>
                              ELSE <<ReleaseFile(rel)>>
        /\ CommitSteps.retract = Retracted
    BY <2>1, SwappedFacts DEF CommitSteps
  <2> HIDE DEF rel
  <2>3. CASE opt.signed
    BY <1>1, <2>1, <2>2, <2>3 DEF SignatureInv, Retracted
  <2>4. CASE ~opt.signed
    <3>1. Retracted' = Retracted
      BY <1>1 DEF Retracted
    <3> QED BY <1>1, <2>1, <2>2, <2>4, <3>1 DEF SignatureInv
  <2> QED BY <2>3, <2>4
<1>5. RetractInv'
  <2> SUFFICES ASSUME old = NoRelease
               PROVE  {InRelease(opt.suite), ReleaseGPG(opt.suite)} \cap DOMAIN store = {}
    BY <1>1 DEF RetractInv
  <2>1. opt.suite \in Suites /\ old = ReleaseIn(store, opt.suite) /\ StoreInv
    BY <1>1, AptOpened, OpenFacts DEF AptInv, Root
  <2>2. InRelease(opt.suite) \notin DOMAIN store /\ Release(opt.suite) \notin DOMAIN store
    <3>1. InRelease(opt.suite) \in DOMAIN store \/ Release(opt.suite) \in DOMAIN store
            => IsRelease(opt.suite, old)
      BY <2>1 DEF ReleaseIn, StoreInv
    <3> QED BY <2>1, <3>1, ReleaseFields
  <2> QED BY <2>1, <2>2 DEF StoreInv
<1> QED BY <1>2, <1>3, <1>4, <1>5 DEF AptInv

----------------------------------------------------------------------------
(* A process begins, publishes and is gone.                                *)

LEMMA IdleWork ==
  /\ work = NoSteps => Doomed = {} /\ \A s : work \in AptShape(s, Doomed)
  /\ work' = NoSteps => Doomed' = {} /\ \A s : work' \in AptShape(s, Doomed')
<1>1. UNION Range(NoSteps.gc) = {}
  BY DEF NoSteps, Range
<1>2. \A s, G : NoSteps \in AptShape(s, G)
  BY NoStepsShape DEF AptShape
<1> QED BY <1>1, <1>2 DEF Doomed

LEMMA InitInv == Init => AptInv
<1> SUFFICES ASSUME Init PROVE AptInv
  OBVIOUS
<1>1. StoreInv
  BY UseAssumption DEF Init, StoreInv
<1>2. SessionTyped
  BY NoneYet DEF Init, SessionTyped
<1>3. SessionInv /\ WorkInv /\ SignatureInv /\ RetractInv
  BY IdleWork DEF Init, SessionInv, WorkInv, SignatureInv, RetractInv
<1> QED BY <1>1, <1>2, <1>3 DEF AptInv

LEMMA OpenInv ==
  ASSUME AptInv, Open
  PROVE  AptInv'
<1>1. /\ mode = "closed" /\ mode' = "open" /\ store' = store /\ work' = work /\ clock' = clock
      /\ old' = Root(opt'.suite) /\ idx' = Ingested(old') /\ original' = Locations(idx')
      /\ pending' = <<>> /\ copied' = {}
      /\ opt' \in use.options /\ use' = use /\ calls' = 0
  BY DEF Open
<1>2. opt' \in Options /\ opt'.suite \in Suites
  BY <1>1, UseAssumption DEF AptInv, SessionTyped, Options
<1>3. old' = NoRelease \/ IsRelease(opt'.suite, old')
  BY <1>1, <1>2 DEF Root, ReleaseIn, AptInv, StoreInv
<1>4. TypedIndex(idx')
  BY <1>1, <1>2, <1>3, IngestedFacts
<1>5. StoreInv' /\ SignatureInv' /\ RetractInv'
  BY <1>1 DEF AptInv, StoreInv, SignatureInv, RetractInv
<1>6. WorkInv'
  BY <1>1, IdleWork DEF AptInv, WorkInv, Doomed
<1>7. SessionTyped'
  BY <1>1, <1>4, NoneYet DEF AptInv, SessionTyped
<1>8. SessionInv'
  BY <1>1, <1>2, <1>3 DEF SessionInv, Root
<1> QED BY <1>5, <1>6, <1>7, <1>8 DEF AptInv

\* However a process ends, it leaves a store and nothing else.
LEMMA ForgetInv ==
  ASSUME AptInv, Forget, work' = NoSteps, StoreInv', clock' = clock, calls' = calls
  PROVE  AptInv'
<1>1. SessionTyped'
  BY NoneYet DEF Forget, AptInv, SessionTyped
<1>2. SessionInv' /\ WorkInv' /\ SignatureInv' /\ RetractInv'
  BY IdleWork DEF Forget, SessionInv, WorkInv, SignatureInv, RetractInv
<1> QED BY <1>1, <1>2 DEF AptInv

LEMMA EndInv ==
  ASSUME AptInv, Abandon \/ Finish \/ CutShort
  PROVE  AptInv'
<1>1. Forget /\ clock' = clock /\ calls' = calls
  BY DEF Abandon, Finish, CutShort
<1>2. work' = NoSteps
  BY DEF Abandon, Finish, CutShort, Stop, StopInCopy, AptInv, WorkInv
<1>3. CASE store' = store
  BY <1>1, <1>2, <1>3, ForgetInv DEF AptInv, StoreInv
<1>4. CASE StopInCopy
  <2>1. PICK c \in work.copies : StorePut(c.to, Partial)
    BY <1>4 DEF StopInCopy
  <2>2. c \in Movable
    BY DEF AptInv, WorkInv, AptShape, Shape
  <2>3. c.to \notin Fronts
    BY <2>2, PlaceKinds DEF Movable
  <2>4. /\ DOMAIN store' = DOMAIN store \cup {c.to}
        /\ \A q \in DOMAIN store : q # c.to => store'[q] = store[q]
    BY <2>1, PutFacts
  <2>5. \A s \in Suites : \A q \in {Release(s), InRelease(s), ReleaseGPG(s)} :
          (q \in DOMAIN store' <=> q \in DOMAIN store) /\ (q \in DOMAIN store => store'[q] = store[q])
    BY <2>3, <2>4 DEF Fronts
  <2>6. StoreInv'
    BY <2>5 DEF AptInv, StoreInv
  <2> QED BY <1>1, <1>2, <2>6, ForgetInv
<1> QED BY <1>3, <1>4 DEF Abandon, Finish, CutShort, Stop

\* What the invariant says of the front files: a step that leaves them alone
\* keeps it.
LEMMA ElsewhereInv ==
  ASSUME AptInv, UNCHANGED <<mode, opt, old>>,
         work'.swap = work.swap, work'.retract = work.retract,
         \A q \in Fronts : /\ q \in DOMAIN store' <=> q \in DOMAIN store
                           /\ q \in DOMAIN store => store'[q] = store[q]
  PROVE  StoreInv' /\ SignatureInv' /\ RetractInv'
<1> DEFINE s == opt.suite
<1>1. \A t \in Suites : \A q \in {Release(t), InRelease(t), ReleaseGPG(t)} :
        (q \in DOMAIN store' <=> q \in DOMAIN store) /\ (q \in DOMAIN store => store'[q] = store[q])
  BY DEF Fronts
<1>2. StoreInv'
  BY <1>1 DEF AptInv, StoreInv
<1>3. CASE mode # "publishing"
  BY <1>2, <1>3 DEF SignatureInv, RetractInv
<1>4. CASE mode = "publishing"
  <2>1. s \in Suites
    BY <1>4 DEF AptInv, SessionInv, Options
  <2>2. \A q \in {Release(s), InRelease(s), ReleaseGPG(s)} :
          (q \in DOMAIN store' <=> q \in DOMAIN store) /\ (q \in DOMAIN store => store'[q] = store[q])
    BY <1>1, <2>1
  <2> HIDE DEF s
  <2>3. RetractInv'
    BY <1>4, <2>2 DEF AptInv, RetractInv, s
  <2>4. Release(s) \in DOMAIN store /\ SignaturesAgree(s) => SignaturesAgree(s)'
    BY <2>2 DEF SignaturesAgree, s
  <2>5. CASE ~opt.signed
    <3>1. \/ /\ \E rel \in ReleasesOf(s) : work.swap = <<ReleaseFile(rel)>>
             /\ work.retract = Retracted
          \/ /\ work.swap = <<>> /\ Release(s) \in DOMAIN store
             /\ \/ work.retract = <<InRelease(s), ReleaseGPG(s)>>
                \/ work.retract = <<ReleaseGPG(s)>> /\ InRelease(s) \notin DOMAIN store
                \/ work.retract = <<>> /\ SignaturesAgree(s)
      BY <1>4, <2>5 DEF AptInv, SignatureInv, s
    <3>2. Retracted' = Retracted
      BY DEF Retracted
    <3> QED BY <1>2, <1>4, <2>2, <2>3, <2>4, <2>5, <3>1, <3>2 DEF SignatureInv, s
  <2>6. CASE opt.signed
    <3>1. /\ work.retract = <<>>
          /\ \/ \E rel \in ReleasesOf(s) :
                  work.swap = <<ReleaseFile(rel), DetachedFile(rel), InlineFile(rel)>>
             \/ /\ Release(s) \in DOMAIN store
                /\ \/ work.swap = <<DetachedFile(store[Release(s)]), InlineFile(store[Release(s)])>>
                   \/ work.swap = <<InlineFile(store[Release(s)])>>
                        /\ ReleaseGPG(s) \in DOMAIN store
                        /\ store[ReleaseGPG(s)] = [signs |-> store[Release(s)]]
                   \/ work.swap = <<>> /\ SignaturesAgree(s)
      BY <1>4, <2>6 DEF AptInv, SignatureInv, s
    <3> QED BY <1>2, <1>4, <2>2, <2>3, <2>4, <2>6, <3>1 DEF SignatureInv, s
  <2> QED BY <1>2, <2>3, <2>5, <2>6
<1> QED BY <1>3, <1>4

LEMMA PutElsewhereInv ==
  ASSUME AptInv, UNCHANGED <<mode, opt, old>>,
         work'.swap = work.swap, work'.retract = work.retract,
         NEW p, NEW c, StorePut(p, c), p \notin Fronts
  PROVE  StoreInv' /\ SignatureInv' /\ RetractInv'
BY PutFacts, ElsewhereInv

LEMMA SwapInv ==
  ASSUME AptInv, mode = "publishing", UNCHANGED <<mode, opt, old>>, SwapOne
  PROVE  StoreInv' /\ SignatureInv' /\ RetractInv'
<1> DEFINE f == Head(work.swap)
           s == opt.suite
<1>1. /\ StorePut(f.to, f.data) /\ work.swap # <<>>
      /\ work'.swap = Tail(work.swap) /\ work'.retract = work.retract
  BY SwapOneFields DEF AptInv, WorkInv, AptShape
<1> HIDE DEF f
<1>2. /\ DOMAIN store' = DOMAIN store \cup {f.to} /\ store'[f.to] = f.data
      /\ \A q \in DOMAIN store : q # f.to => store'[q] = store[q]
  BY <1>1, PutFacts
<1>3. s \in Suites /\ StoreInv /\ SignatureInv /\ RetractInv
  BY DEF AptInv, SessionInv, Options
<1>4. \A a, b, c : /\ Head(<<a, b, c>>) = a /\ Tail(<<a, b, c>>) = <<b, c>>
                   /\ Head(<<a, b>>) = a /\ Tail(<<a, b>>) = <<b>>
                   /\ Head(<<a>>) = a /\ Tail(<<a>>) = <<>>
  OBVIOUS
<1>5. \A t \in Suites : \A q \in {Release(t), InRelease(t), ReleaseGPG(t)} : q # f.to =>
        (q \in DOMAIN store' <=> q \in DOMAIN store) /\ (q \in DOMAIN store => store'[q] = store[q])
  BY <1>2
<1> HIDE DEF s
\* Release is written.
<1>6. ASSUME NEW rel \in ReleasesOf(s), f = ReleaseFile(rel)
      PROVE  /\ StoreInv' /\ RetractInv'
             /\ Release(s) \in DOMAIN store' /\ store'[Release(s)] = rel
             /\ \A q \in {InRelease(s), ReleaseGPG(s)} :
                  (q \in DOMAIN store' <=> q \in DOMAIN store) /\ (q \in DOMAIN store => store'[q] = store[q])
  <2>1. IsRelease(s, rel) /\ rel.suite = s
    BY <1>3, <1>6, ReleasesDef, ReleaseFields
  <2>2. f.to = Release(s) /\ f.data = rel
    BY <1>6, <2>1 DEF ReleaseFile
  <2>3. Release(s) \in DOMAIN store' /\ store'[Release(s)] = rel
    BY <1>2, <2>2
  <2>4. \A t \in Suites : /\ InRelease(t) # f.to /\ ReleaseGPG(t) # f.to
                          /\ t # s => Release(t) # f.to
    BY <2>2, FrontKinds
  <2>5. ASSUME NEW t \in Suites
        PROVE  /\ Release(t) \in DOMAIN store' => IsRelease(t, store'[Release(t)])
               /\ InRelease(t) \in DOMAIN store' =>
                    /\ store'[InRelease(t)] = [inline |-> store'[InRelease(t)].inline]
                    /\ IsRelease(t, store'[InRelease(t)].inline)
               /\ ReleaseGPG(t) \in DOMAIN store' =>
                    /\ store'[ReleaseGPG(t)] = [signs |-> store'[ReleaseGPG(t)].signs]
                    /\ {Release(t), InRelease(t)} \cap DOMAIN store' # {}
    <3>1. /\ InRelease(t) \in DOMAIN store' <=> InRelease(t) \in DOMAIN store
          /\ ReleaseGPG(t) \in DOMAIN store' <=> ReleaseGPG(t) \in DOMAIN store
          /\ InRelease(t) \in DOMAIN store => store'[InRelease(t)] = store[InRelease(t)]
          /\ ReleaseGPG(t) \in DOMAIN store => store'[ReleaseGPG(t)] = store[ReleaseGPG(t)]
      BY <1>5, <2>4
    <3>2. Release(t) \in DOMAIN store' => IsRelease(t, store'[Release(t)])
      BY <1>3, <1>5, <2>1, <2>3, <2>4 DEF StoreInv
    <3>3. {Release(t), InRelease(t)} \cap DOMAIN store # {} => {Release(t), InRelease(t)} \cap DOMAIN store' # {}
      BY <1>2
    <3> QED BY <1>3, <3>1, <3>2, <3>3 DEF StoreInv
  <2>6. StoreInv'
    BY <2>5 DEF StoreInv
  <2>7. RetractInv'
    BY <1>2, <1>3, <2>4 DEF RetractInv, s
  <2> QED BY <1>3, <1>5, <2>3, <2>4, <2>6, <2>7
\* A signature of the Release in place is.
<1>7. ASSUME opt.signed, Release(s) \in DOMAIN store,
             f = DetachedFile(store[Release(s)]) \/ f = InlineFile(store[Release(s)])
      PROVE  /\ StoreInv' /\ RetractInv'
             /\ Release(s) \in DOMAIN store' /\ store'[Release(s)] = store[Release(s)]
             /\ f = DetachedFile(store[Release(s)]) =>
                  ReleaseGPG(s) \in DOMAIN store' /\ store'[ReleaseGPG(s)] = [signs |-> store[Release(s)]]
             /\ f = InlineFile(store[Release(s)]) =>
                  /\ InRelease(s) \in DOMAIN store' /\ store'[InRelease(s)] = [inline |-> store[Release(s)]]
                  /\ ReleaseGPG(s) \in DOMAIN store => ReleaseGPG(s) \in DOMAIN store' /\ store'[ReleaseGPG(s)] = store[ReleaseGPG(s)]
  <2> DEFINE rel == store[Release(s)]
  <2>1. IsRelease(s, rel) /\ rel.suite = s
    BY <1>3, <1>7, ReleaseFields DEF StoreInv
  <2> HIDE DEF rel
  <2>2. /\ f = DetachedFile(rel) => f.to = ReleaseGPG(s) /\ f.data = [signs |-> rel]
        /\ f = InlineFile(rel) => f.to = InRelease(s) /\ f.data = [inline |-> rel]
    BY <2>1 DEF DetachedFile, InlineFile
  <2>3. \A t \in Suites : /\ Release(t) # f.to
                          /\ t # s => InRelease(t) # f.to /\ ReleaseGPG(t) # f.to
                          /\ f = DetachedFile(rel) => InRelease(t) # f.to
                          /\ f = InlineFile(rel) => ReleaseGPG(t) # f.to
    BY <1>7, <2>2, FrontKinds DEF rel
  <2>4. Release(s) \in DOMAIN store' /\ store'[Release(s)] = rel
    BY <1>3, <1>5, <1>7, <2>3 DEF rel
  <2>5. ASSUME NEW t \in Suites
        PROVE  /\ Release(t) \in DOMAIN store' => IsRelease(t, store'[Release(t)])
               /\ InRelease(t) \in DOMAIN store' =>
                    /\ store'[InRelease(t)] = [inline |-> store'[InRelease(t)].inline]
                    /\ IsRelease(t, store'[InRelease(t)].inline)
               /\ ReleaseGPG(t) \in DOMAIN store' =>
                    /\ store'[ReleaseGPG(t)] = [signs |-> store'[ReleaseGPG(t)].signs]
                    /\ {Release(t), InRelease(t)} \cap DOMAIN store' # {}
    <3>1. Release(t) \in DOMAIN store' => IsRelease(t, store'[Release(t)])
      BY <1>3, <1>5, <2>3 DEF StoreInv
    <3>2. InRelease(t) \in DOMAIN store' =>
            /\ store'[InRelease(t)] = [inline |-> store'[InRelease(t)].inline]
            /\ IsRelease(t, store'[InRelease(t)].inline)
      <4>1. CASE InRelease(t) = f.to
        <5>1. t = s /\ store'[InRelease(t)] = [inline |-> rel]
          BY <1>2, <1>7, <2>2, <2>3, <4>1 DEF rel
        <5> QED BY <2>1, <5>1
      <4>2. CASE InRelease(t) # f.to
        BY <1>3, <1>5, <4>2 DEF StoreInv
      <4> QED BY <4>1, <4>2
    <3>3. ReleaseGPG(t) \in DOMAIN store' =>
            /\ store'[ReleaseGPG(t)] = [signs |-> store'[ReleaseGPG(t)].signs]
            /\ {Release(t), InRelease(t)} \cap DOMAIN store' # {}
      <4>1. CASE ReleaseGPG(t) = f.to
        <5>1. t = s /\ store'[ReleaseGPG(t)] = [signs |-> rel]
          BY <1>2, <1>7, <2>2, <2>3, <4>1 DEF rel
        <5> QED BY <2>4, <5>1
      <4>2. CASE ReleaseGPG(t) # f.to
        <5>1. /\ ReleaseGPG(t) \in DOMAIN store' <=> ReleaseGPG(t) \in DOMAIN store
              /\ ReleaseGPG(t) \in DOMAIN store => store'[ReleaseGPG(t)] = store[ReleaseGPG(t)]
          BY <1>5, <4>2
        <5>2. DOMAIN store \subseteq DOMAIN store'
          BY <1>2
        <5> QED BY <1>3, <5>1, <5>2 DEF StoreInv
      <4> QED BY <4>1, <4>2
    <3> QED BY <3>1, <3>2, <3>3
  <2>6. StoreInv'
    BY <2>5 DEF StoreInv
  <2>7. RetractInv'
    BY <1>7 DEF RetractInv
  <2>8. f = InlineFile(rel) /\ ReleaseGPG(s) \in DOMAIN store =>
          ReleaseGPG(s) \in DOMAIN store' /\ store'[ReleaseGPG(s)] = store[ReleaseGPG(s)]
    BY <1>3, <1>5, <2>3
  <2> QED BY <1>2, <2>2, <2>4, <2>6, <2>7, <2>8 DEF rel
<1>8. CASE opt.signed /\ \E rel \in ReleasesOf(s) :
             work.swap = <<ReleaseFile(rel), DetachedFile(rel), InlineFile(rel)>>
  <2>1. PICK rel \in ReleasesOf(s) : work.swap = <<ReleaseFile(rel), DetachedFile(rel), InlineFile(rel)>>
    BY <1>8
  <2>2. f = ReleaseFile(rel) /\ work'.swap = <<DetachedFile(rel), InlineFile(rel)>>
    BY <1>1, <1>4, <2>1 DEF f
  <2>3. work'.retract = <<>>
    BY <1>1, <1>3, <1>8 DEF SignatureInv
  <2> QED BY <1>6, <1>8, <2>2, <2>3 DEF SignatureInv, s
<1>9. CASE opt.signed /\ Release(s) \in DOMAIN store /\
             work.swap = <<DetachedFile(store[Release(s)]), InlineFile(store[Release(s)])>>
  <2>1. f = DetachedFile(store[Release(s)]) /\ work'.swap = <<InlineFile(store[Release(s)])>>
    BY <1>1, <1>4, <1>9 DEF f
  <2>2. work'.retract = <<>>
    BY <1>1, <1>3, <1>9 DEF SignatureInv
  <2> QED BY <1>7, <1>9, <2>1, <2>2 DEF SignatureInv, s
<1>10. CASE opt.signed /\ Release(s) \in DOMAIN store /\ work.swap = <<InlineFile(store[Release(s)])>>
              /\ ReleaseGPG(s) \in DOMAIN store /\ store[ReleaseGPG(s)] = [signs |-> store[Release(s)]]
  <2>1. f = InlineFile(store[Release(s)]) /\ work'.swap = <<>>
    BY <1>1, <1>4, <1>10 DEF f
  <2>2. work'.retract = <<>>
    BY <1>1, <1>3, <1>10 DEF SignatureInv
  <2>3. SignaturesAgree(s)'
    BY <1>7, <1>10, <2>1 DEF SignaturesAgree, s
  <2> QED BY <1>7, <1>10, <2>1, <2>2, <2>3 DEF SignatureInv, s
<1>11. CASE ~opt.signed /\ \E rel \in ReleasesOf(s) : work.swap = <<ReleaseFile(rel)>>
              /\ work.retract = Retracted
  <2>1. PICK rel \in ReleasesOf(s) : work.swap = <<ReleaseFile(rel)>>
    BY <1>11
  <2>2. f = ReleaseFile(rel) /\ work'.swap = <<>>
    BY <1>1, <1>4, <2>1 DEF f
  <2>3. \/ work'.retract = <<InRelease(s), ReleaseGPG(s)>>
        \/ work'.retract = <<>> /\ old = NoRelease
    BY <1>1, <1>11 DEF Retracted, s
  <2>4. CASE work'.retract = <<InRelease(s), ReleaseGPG(s)>>
    BY <1>6, <1>11, <2>2, <2>4 DEF SignatureInv, s
  <2>5. CASE work'.retract = <<>> /\ old = NoRelease
    <3>1. {InRelease(s), ReleaseGPG(s)} \cap DOMAIN store = {}
      BY <1>3, <1>11, <2>5 DEF RetractInv, s
    <3>2. SignaturesAgree(s)'
      BY <1>6, <1>11, <2>2, <3>1 DEF SignaturesAgree, s
    <3> QED BY <1>6, <1>11, <2>2, <2>5, <3>2 DEF SignatureInv, s
  <2> QED BY <2>3, <2>4, <2>5
<1> QED BY <1>1, <1>3, <1>8, <1>9, <1>10, <1>11 DEF SignatureInv, s

LEMMA RetractStepInv ==
  ASSUME AptInv, mode = "publishing", UNCHANGED <<mode, opt, old>>, RetractOne
  PROVE  StoreInv' /\ SignatureInv' /\ RetractInv'
<1> DEFINE h == Head(work.retract)
           s == opt.suite
<1>1. /\ StoreDelete(h) /\ work.retract # <<>>
      /\ work'.retract = Tail(work.retract) /\ work.swap = <<>> /\ work'.swap = <<>>
  BY RetractOneFields DEF AptInv, WorkInv, AptShape
<1> HIDE DEF h
<1>2. /\ DOMAIN store' = DOMAIN store \ {h}
      /\ \A q \in DOMAIN store' : store'[q] = store[q]
  BY <1>1, DeleteFacts
<1>3. s \in Suites /\ StoreInv /\ SignatureInv /\ RetractInv
  BY DEF AptInv, SessionInv, Options
<1>4. \A a, b : /\ Head(<<a, b>>) = a /\ Tail(<<a, b>>) = <<b>>
                /\ Head(<<a>>) = a /\ Tail(<<a>>) = <<>>
  OBVIOUS
<1> HIDE DEF s
<1>5. ~opt.signed /\ Release(s) \in DOMAIN store
      /\ \/ work.retract = <<InRelease(s), ReleaseGPG(s)>>
         \/ work.retract = <<ReleaseGPG(s)>> /\ InRelease(s) \notin DOMAIN store
  <2>1. \A a : <<>> # <<a>>
    OBVIOUS
  <2> QED BY <1>1, <1>3, <2>1 DEF SignatureInv, s
<1>6. \/ h = InRelease(s) /\ work'.retract = <<ReleaseGPG(s)>>
      \/ h = ReleaseGPG(s) /\ work'.retract = <<>> /\ InRelease(s) \notin DOMAIN store
  BY <1>1, <1>4, <1>5 DEF h
<1>7. \A t \in Suites : h # Release(t) /\ (t # s => h # InRelease(t) /\ h # ReleaseGPG(t))
  BY <1>6, FrontKinds
<1>8. Release(s) \in DOMAIN store'
  BY <1>2, <1>3, <1>5, <1>7
<1>9. StoreInv'
  <2> SUFFICES ASSUME NEW t \in Suites, ReleaseGPG(t) \in DOMAIN store'
               PROVE  {Release(t), InRelease(t)} \cap DOMAIN store' # {}
    BY <1>2, <1>3 DEF StoreInv
  <2> QED BY <1>2, <1>3, <1>7, <1>8 DEF StoreInv
<1>10. RetractInv'
  BY <1>2, <1>3 DEF RetractInv, s
<1>11. SignatureInv'
  <2>1. CASE h = InRelease(s) /\ work'.retract = <<ReleaseGPG(s)>>
    BY <1>1, <1>2, <1>5, <1>8, <2>1 DEF SignatureInv, s
  <2>2. CASE h = ReleaseGPG(s) /\ work'.retract = <<>> /\ InRelease(s) \notin DOMAIN store
    <3>1. SignaturesAgree(s)'
      BY <1>2, <1>5, <2>2 DEF SignaturesAgree, s
    <3> QED BY <1>1, <1>5, <1>8, <2>2, <3>1 DEF SignatureInv, s
  <2> QED BY <1>6, <2>1, <2>2
<1> QED BY <1>9, <1>10, <1>11

LEMMA DescribableFacts ==
  ASSUME NEW u \in Describable
  PROVE  u.to \notin Fronts /\ u.to \notin Places
<1>1. PICK d \in UNION {Index(t) : t \in Suites} : u = IndexFile(d) \/ u = PlainFile(d)
  BY DEF Describable
<1> QED BY <1>1, IndexKinds DEF IndexFile, PlainFile

\* What is left of a publish stays of its kind, and nothing more comes to be collected.
LEMMA ShapeStep ==
  ASSUME NEW s, work \in AptShape(s, Doomed), Step
  PROVE  work' \in AptShape(s, Doomed') /\ Doomed' \subseteq Doomed
<1>1. work \in Shape(Movable, Uploadable, Describable, Swappable(s),
                     {InRelease(s), ReleaseGPG(s)}, Doomed)
  BY DEF AptShape
<1>2. work' \in Shape(Movable, Uploadable, Describable, Swappable(s),
                      {InRelease(s), ReleaseGPG(s)}, Doomed)
  BY <1>1, ExecuteShape
<1>3. Doomed' \subseteq Doomed
  BY <1>1, CopyOneFields, UploadOneFields, WriteMetadataFields, SwapOneFields,
     RetractOneFields, CollectOneFields DEF Step, Doomed
<1>4. work'.gc \in Seq(SUBSET Doomed')
  <2>1. work'.gc \in Seq(SUBSET Doomed)
    BY <1>2 DEF Shape
  <2>2. \A i \in DOMAIN work'.gc : work'.gc[i] \in SUBSET Doomed'
    BY DEF Doomed, Range
  <2> HIDE DEF Doomed
  <2> QED BY <2>1, <2>2
<1>5. work' \in AptShape(s, Doomed')
  BY <1>2, <1>4 DEF AptShape, Shape
<1> QED BY <1>3, <1>5

LEMMA PublishingInv ==
  ASSUME AptInv, Publishing
  PROVE  AptInv'
<1>1. /\ mode = "publishing" /\ mode' = mode /\ Step
      /\ idx' = idx /\ old' = old /\ original' = original /\ pending' = pending
      /\ copied' = copied /\ opt' = opt /\ use' = use
      /\ calls' = calls /\ clock' = clock
  BY DEF Publishing, session
<1>2. SessionTyped' /\ SessionInv'
  BY <1>1 DEF AptInv, SessionTyped, SessionInv
<1>3. work \in Shape(Movable, Uploadable, Describable, Swappable(opt.suite),
                     {InRelease(opt.suite), ReleaseGPG(opt.suite)}, Doomed)
  BY DEF AptInv, WorkInv, AptShape
<1>4. WorkInv'
  BY <1>1, ShapeStep DEF AptInv, WorkInv
<1>5. CASE CopyOne
  <2>1. PICK c \in work.copies : c \in Movable /\ StorePut(c.to, store[c.from])
    BY <1>3, <1>5, CopyOneFields
  <2>2. work'.swap = work.swap /\ work'.retract = work.retract
    BY <1>3, <1>5, CopyOneFields
  <2>3. c.to \notin Fronts
    BY <2>1, PlaceKinds DEF Movable
  <2> QED BY <1>1, <1>2, <1>4, <2>1, <2>2, <2>3, PutElsewhereInv DEF AptInv
<1>6. CASE UploadOne
  <2>1. PICK u \in work.uploads : u \in Uploadable /\ StorePut(u.to, u.data)
    BY <1>3, <1>6, UploadOneFields
  <2>2. work'.swap = work.swap /\ work'.retract = work.retract
    BY <1>3, <1>6, UploadOneFields
  <2>3. u.to \notin Fronts
    BY <2>1, PlaceKinds DEF Uploadable
  <2> QED BY <1>1, <1>2, <1>4, <2>1, <2>2, <2>3, PutElsewhereInv DEF AptInv
<1>7. CASE WriteMetadata
  <2> DEFINE u == Head(work.metadata)
  <2>1. u \in Describable /\ StorePut(u.to, u.data)
    BY <1>3, <1>7, WriteMetadataFields
  <2>2. work'.swap = work.swap /\ work'.retract = work.retract
    BY <1>3, <1>7, WriteMetadataFields
  <2> HIDE DEF u
  <2>3. u.to \notin Fronts
    BY <2>1, DescribableFacts
  <2> QED BY <1>1, <1>2, <1>4, <2>1, <2>2, <2>3, PutElsewhereInv DEF AptInv
<1>8. CASE SwapOne
  BY <1>1, <1>2, <1>4, <1>8, SwapInv DEF AptInv
<1>9. CASE RetractOne
  BY <1>1, <1>2, <1>4, <1>9, RetractStepInv DEF AptInv
<1>10. CASE CollectOne
  <2>1. /\ work'.swap = work.swap /\ work'.retract = work.retract
        /\ \/ UNCHANGED store
           \/ \E p \in Doomed : StoreDelete(p)
    BY <1>3, <1>10, CollectOneFields DEF Doomed
  <2>2. Doomed \cap Fronts = {}
    BY DEF AptInv, WorkInv
  <2>3. \A q \in Fronts : /\ q \in DOMAIN store' <=> q \in DOMAIN store
                          /\ q \in DOMAIN store => store'[q] = store[q]
    BY <2>1, <2>2, DeleteFacts
  <2> QED BY <1>1, <1>2, <1>4, <2>1, <2>3, ElsewhereInv DEF AptInv
<1> QED BY <1>1, <1>5, <1>6, <1>7, <1>8, <1>9, <1>10 DEF Step

LEMMA NextInv == AptInv /\ [Next]_aptVars => AptInv'
<1> SUFFICES ASSUME AptInv, [Next]_aptVars PROVE AptInv'
  OBVIOUS
<1>1. CASE UNCHANGED aptVars
  <2>1. UNCHANGED <<store, work, mode, idx, old, original, pending, copied, opt, use, calls, clock, stops>>
    BY <1>1 DEF aptVars, session
  <2>2. StoreInv' /\ SessionTyped' /\ SessionInv' /\ WorkInv' /\ RetractInv'
    BY <2>1 DEF AptInv, StoreInv, SessionTyped, SessionInv, Root, WorkInv, Doomed, RetractInv
  <2>3. SignatureInv'
    BY <2>1, ElsewhereInv
  <2> QED BY <2>2, <2>3 DEF AptInv
<1>2. CASE Mutate
  BY <1>2, AddInv, RemovalInv, RelocateInv, RefreshInv DEF Mutate
<1> QED BY <1>1, <1>2, OpenInv, CommitInv, EndInv, PublishingInv DEF Next

LEMMA SpecInv == Spec => []AptInv
BY InitInv, NextInv, PTL DEF Spec

----------------------------------------------------------------------------
(* What Commit hands to Execute is sound, unless it is doubtful.           *)

LEMMA AptFronts == AptInv => FrontsInv
BY DEF AptInv, StoreInv, FrontsInv, FrontsOf, FrontContent

\* What is live at a suite's own paths.
LEMMA LiveFacts ==
  ASSUME AptFiles, FrontsInv, NEW q \in Live
  PROVE  \/ DOMAIN Needs(store[q]) = {} /\ \E s \in Suites : q = ReleaseGPG(s)
         \/ \E s \in Suites : \E c :
              /\ IsRelease(s, c) /\ Needs(store[q]) = NamedBy(c) /\ q.suite = s
              /\ \/ q = Release(s) /\ store[q] = c
                 \/ q = InRelease(s) /\ store[q] = [inline |-> c]
<1>1. PICK s \in Suites : q \in {Release(s), ReleaseGPG(s), InRelease(s)}
  BY DEF Live, AptFiles, Fronts
<1>2. q \in DOMAIN store /\ FrontContent(s, q, store[q])
  BY <1>1 DEF Live, FrontsInv, FrontsOf
<1>3. CASE q = Release(s)
  <2>1. IsRelease(s, store[q])
    BY <1>2, <1>3 DEF FrontContent
  <2>2. Needs(store[q]) = NamedBy(store[q]) /\ q.suite = s
    BY <1>3, <2>1, NeedsFacts, FrontKinds
  <2> QED BY <1>3, <2>1, <2>2
<1>4. CASE q = InRelease(s)
  <2>1. store[q] = [inline |-> store[q].inline] /\ IsRelease(s, store[q].inline)
    BY <1>2, <1>4 DEF FrontContent
  <2> DEFINE c == store[q].inline
  <2>2. store[q] = [inline |-> c] /\ IsRelease(s, c)
    BY <2>1
  <2> HIDE DEF c
  <2>3. Needs(store[q]) = NamedBy(c) /\ q.suite = s
    BY <1>4, <2>2, NeedsFacts, FrontKinds
  <2> QED BY <1>4, <2>2, <2>3
<1>5. CASE q = ReleaseGPG(s)
  <2>1. store[q] = [signs |-> store[q].signs]
    BY <1>2, <1>5 DEF FrontContent
  <2> QED BY <1>5, <2>1, NeedsOfSignature
<1> QED BY <1>1, <1>3, <1>4, <1>5

\* Where every Release says that indexes are found by hash, what one names are
\* places of the pool and indexes of its suite, each of which is itself.
LEMMA LiveNeeds ==
  ASSUME AptFiles, FrontsInv, ByHashOnly, NEW q \in Live, NEW p \in DOMAIN Needs(store[q])
  PROVE  \E s \in Suites : \E c :
           /\ IsRelease(s, c) /\ Needs(store[q]) = NamedBy(c) /\ q.suite = s
           /\ \/ q = Release(s) /\ store[q] = c
              \/ q = InRelease(s) /\ store[q] = [inline |-> c]
           /\ \/ p \in Places
              \/ p \in Index(s) /\ Needs(store[q])[p] = p
<1> DEFINE Is(s, c) == /\ IsRelease(s, c) /\ Needs(store[q]) = NamedBy(c) /\ q.suite = s
                       /\ \/ q = Release(s) /\ store[q] = c
                          \/ q = InRelease(s) /\ store[q] = [inline |-> c]
<1>1. PICK s \in Suites : \E c : Is(s, c)
  BY LiveFacts
<1>2. PICK c : Is(s, c)
  BY <1>1
<1>3. c.byHash
  <2>1. DOMAIN c = {"suite", "rev", "byHash", "docs", "pool"}
    BY <1>2, ReleaseFields
  <2>2. DOMAIN [inline |-> c] = {"inline"} /\ [inline |-> c].inline = c
    OBVIOUS
  <2> QED BY <1>2, <2>1, <2>2 DEF ByHashOnly
<1>4. CASE p \in DOMAIN c.pool
  BY <1>2, <1>4, ReleaseFields
<1>5. CASE p \notin DOMAIN c.pool
  <2>1. NamedBy(c)[p] \in c.docs /\ IndexPath(c, NamedBy(c)[p]) = p
    BY <1>2, <1>5, NamedByFacts
  <2>2. NamedBy(c)[p] = p /\ p \in Index(s)
    BY <1>2, <1>3, <2>1, ReleaseFields DEF IndexPath
  <2> QED BY <1>2, <2>2
<1> QED BY <1>4, <1>5

LEMMA NamedApart ==
  ASSUME AptFiles, NEW s \in Suites, NEW c, IsRelease(s, c)
  PROVE  DOMAIN NamedBy(c) \cap IndexPaths = {}
BY NamedByFacts DEF AptFiles

LEMMA AptApart ==
  ASSUME AptFiles, AptInv
  PROVE  Apart
<1>1. \A q \in Live : DOMAIN Needs(store[q]) \cap IndexPaths = {}
  BY LiveFacts, AptFronts, NamedApart
<1>2. ASSUME NEW f \in Range(work.swap)
      PROVE  DOMAIN Needs(f.data) \cap IndexPaths = {}
  <2>1. CASE mode # "publishing"
    <3>1. Range(work.swap) = {}
      BY <2>1 DEF AptInv, WorkInv, NoSteps, Range
    <3> QED BY <3>1
  <2>2. CASE mode = "publishing"
    <3>1. opt.suite \in Suites /\ work.swap \in Seq(Swappable(opt.suite))
      BY <2>2 DEF AptInv, SessionInv, Options, WorkInv, AptShape, Shape
    <3>2. f \in Swappable(opt.suite)
      BY <3>1 DEF Range
    <3>3. PICK rel \in ReleasesOf(opt.suite) : f \in {ReleaseFile(rel), DetachedFile(rel), InlineFile(rel)}
      BY <3>2 DEF Swappable
    <3>4. IsRelease(opt.suite, rel)
      BY <3>3, ReleasesDef
    <3>5. f.data \in {rel, [signs |-> rel], [inline |-> rel]}
      BY <3>3 DEF ReleaseFile, DetachedFile, InlineFile
    <3>6. DOMAIN NamedBy(rel) \cap IndexPaths = {}
      BY <3>1, <3>4, NamedApart
    <3> QED BY <3>1, <3>4, <3>5, <3>6, NeedsFacts, NeedsOfSignature
  <2> QED BY <2>1, <2>2
<1> QED BY <1>1, <1>2 DEF Apart

\* Every file the new indexes name is one that is written with what they say, or
\* holds it already: whichever entry says it.
LEMMA PlacedFacts ==
  ASSUME AptInv, mode = "open", ~Refuses(store, PlanState), TrustJustified,
         NEW p \in AllLocations(idx), NEW e \in Owners(idx, p)
  PROVE  LET plan == PlanFiles(store, PlanState)
             want == Files(e)[p.base]
         IN /\ \A c \in plan.copies : c.to = p => c.from \in DOMAIN store /\ store[c.from] = want
            /\ \A u \in plan.uploads : u.to = p => u.data = want
            /\ \/ \E c \in plan.copies : c.to = p
               \/ \E u \in plan.uploads : u.to = p
               \/ p \in DOMAIN store /\ store[p] = want
<1> DEFINE s    == PlanState
           plan == PlanFiles(store, s)
           want == Files(e)[p.base]
<1>1. /\ s.referenced = FileExpectations(idx) /\ s.original = original /\ s.pending = pending
      /\ s.copied = {} /\ s.force = opt.force
  BY DEF PlanState, AptInv, SessionTyped
<1>2. DOMAIN FileExpectations(idx) = AllLocations(idx) /\ copied = {}
  BY AptOpened, OpenFacts, RecordFacts DEF AptInv, SessionTyped
<1>3. /\ plan.copies = {Relocation(s, x) : x \in StagedMoves(store, s) \cup Moves(store, s)}
      /\ plan.uploads = {[to |-> x, data |-> pending[x]] : x \in Uploaded(store, s)}
  BY <1>1 DEF PlanFiles
<1>4. /\ p \in Unread(store, s) => p \in DOMAIN store /\ store[p] = want
      /\ p \in DOMAIN pending => pending[p] = want
      /\ \A c \in plan.copies : c.to = p => c.from \in DOMAIN store /\ store[c.from] = want
      /\ p \in DOMAIN pending => pending[p] = FileExpectations(idx)[p]
  <2>1. \A x \in Owners(idx, p) : x \in DOMAIN idx /\ p.base \in DOMAIN Files(x) /\ Location(idx[x], p.base) = p
    BY AptOpened, OpenFacts, IndexFacts
  <2>2. \A x \in Owners(idx, p) : p \in DOMAIN pending => pending[p] = Files(x)[p.base]
    BY <2>1 DEF TrustJustified
  <2>3. \E x \in Owners(idx, p) : FileExpectations(idx)[p] = Files(x)[p.base]
    BY AptOpened, OpenFacts, RecordFacts
  <2>4. p \in DOMAIN pending => pending[p] = FileExpectations(idx)[p]
    BY <2>2, <2>3
  <2> QED BY <2>1, <2>4 DEF TrustJustified
<1>5. Conflicting(store, s) = {} /\ Unplaceable(store, s) = {}
  BY DEF Refuses
<1>6. CanHash /\ p \in Staged(s) \cap DOMAIN store /\ p \notin Overwritten(store, s) => store[p] = FileExpectations(idx)[p]
  BY <1>1, <1>5 DEF Conflicting, Matches
<1> HIDE DEF s, plan
<1>7. ASSUME NEW x PROVE Relocation(s, x).to = x
  BY DEF Relocation
<1>8. \/ \E c \in plan.copies : c.to = p
      \/ \E u \in plan.uploads : u.to = p
      \/ p \in DOMAIN store /\ store[p] = want
  <2>1. CASE p \in DOMAIN pending /\ p \notin DOMAIN store
    <3>1. CASE p \in StagedMoves(store, s)
      BY <1>3, <1>7, <3>1
    <3>2. CASE p \notin StagedMoves(store, s)
      <4>1. p \in Uploaded(store, s)
        BY <1>1, <2>1, <3>2 DEF Uploaded, Staged
      <4>2. [to |-> p, data |-> pending[p]] \in plan.uploads
        BY <1>3, <4>1
      <4> QED BY <4>2
    <3> QED BY <3>1, <3>2
  <2>2. CASE p \in DOMAIN pending /\ p \in DOMAIN store /\ opt.force
    <3>1. p \in Uploaded(store, s)
      BY <1>1, <2>2 DEF Uploaded, Overwritten, Staged
    <3>2. [to |-> p, data |-> pending[p]] \in plan.uploads
      BY <1>3, <3>1
    <3> QED BY <3>2
  <2>5. CASE p \in DOMAIN pending /\ p \in DOMAIN store /\ ~opt.force
    <3>1. p \notin Overwritten(store, s) /\ p \in Staged(s) \cap DOMAIN store
      BY <1>1, <1>2, <2>5 DEF Overwritten, Staged
    <3>2. CASE CanHash
      <4>1. store[p] = FileExpectations(idx)[p]
        BY <1>6, <3>1, <3>2
      <4> QED BY <1>4, <2>5, <4>1
    <3>3. CASE ~CanHash
      BY <1>1, <1>2, <1>4, <2>5, <3>1, <3>3 DEF BySize, Unread
    <3> QED BY <3>2, <3>3
  <2>3. CASE p \notin DOMAIN pending /\ p \in DOMAIN original
    BY <1>1, <1>2, <1>4, <2>3 DEF PassedOver, Staged, Unread
  <2>4. CASE p \notin DOMAIN pending /\ p \notin DOMAIN original
    <3>1. p \in Unstaged(s)
      BY <1>1, <1>2, <2>4 DEF Unstaged, Staged
    <3>2. CASE p \in DOMAIN store
      BY <1>4, <3>1, <3>2 DEF Trusted, Unread
    <3>3. CASE p \notin DOMAIN store
      BY <1>3, <1>5, <1>7, <3>1, <3>3 DEF Moves, Unplaceable
    <3> QED BY <3>2, <3>3
  <2> QED BY <2>1, <2>2, <2>3, <2>4, <2>5
<1>9. \A u \in plan.uploads : u.to = p => u.data = want
  <2> TAKE u \in plan.uploads
  <2>1. PICK x \in Uploaded(store, s) : u = [to |-> x, data |-> pending[x]]
    BY <1>3
  <2>2. x \in DOMAIN pending
    BY <1>1, <2>1 DEF Uploaded, Overwritten, Staged
  <2> QED BY <1>4, <2>1, <2>2
<1> QED BY <1>4, <1>8, <1>9 DEF plan, s

LEMMA CommitPuts ==
  ASSUME Opened
  PROVE  Puts(CommitSteps) = PlanFiles(store, PlanState).uploads
                               \cup {PlainFile(d) : d \in NewRelease.docs}
                               \cup (IF opt.byHash THEN {IndexFile(d) : d \in NewRelease.docs} ELSE {})
<1>1. /\ Documents \in Seq(Index(opt.suite)) /\ opt.suite \in Suites
      /\ NewRelease.docs = Range(Documents)
  BY OpenFacts, DocumentsFacts, NewReleaseFacts
<1>2. Range(MetadataFiles(Documents)) = {PlainFile(d) : d \in NewRelease.docs} \cup
        (IF opt.byHash THEN {IndexFile(d) : d \in NewRelease.docs} ELSE {})
  BY <1>1, MetadataFacts
<1> QED BY <1>2 DEF CommitSteps, Puts

\* What the new Release names is written with what it says, or holds it already.
LEMMA ArrivesFacts ==
  ASSUME AptInv, mode = "open", ~Refuses(store, PlanState), TrustJustified,
         NEW p \in DOMAIN NamedBy(NewRelease)
  PROVE  LET want == NamedBy(NewRelease)[p]
             w    == CommitSteps
         IN /\ \A c \in w.copies : c.to = p => store[c.from] = want
            /\ \A u \in Puts(w) : u.to = p => u.data = want
            /\ \/ \E c \in w.copies : c.to = p
               \/ \E u \in Puts(w) : u.to = p
               \/ p \in DOMAIN store /\ store[p] = want
<1> DEFINE rel  == NewRelease
           plan == PlanFiles(store, PlanState)
           want == NamedBy(rel)[p]
           puts == {PlainFile(d) : d \in rel.docs} \cup
                     (IF opt.byHash THEN {IndexFile(d) : d \in rel.docs} ELSE {})
<1>1. CommitSteps.copies = plan.copies /\ Puts(CommitSteps) = plan.uploads \cup puts
  BY AptOpened, CommitPuts DEF CommitSteps
<1>2. /\ opt.suite \in Suites /\ TypedIndex(idx) /\ IsRelease(opt.suite, rel) /\ rel.byHash = opt.byHash
      /\ rel.docs = Range(Documents) /\ rel.docs \subseteq Index(opt.suite)
  BY AptOpened, OpenFacts, NewReleaseFacts, DocumentsFacts
<1>3. /\ p \in {IndexPath(rel, d) : d \in rel.docs} \cup DOMAIN rel.pool
      /\ p \in DOMAIN rel.pool => want = rel.pool[p]
      /\ p \notin DOMAIN rel.pool => want \in rel.docs /\ IndexPath(rel, want) = p
      /\ \A d \in rel.docs : IndexPath(rel, d) \notin DOMAIN rel.pool
  BY <1>2, NamedByFacts
<1>4. \A c \in plan.copies : c.to \in Places
  BY AptOpened, MoveFacts DEF Movable
<1>5. \A u \in plan.uploads : u.to \in Places
  BY AptOpened, UploadFacts DEF Uploadable
<1>6. \A d \in rel.docs : d \notin Places /\ Plain(d) \notin Places
  BY <1>2, IndexKinds
<1>7. CASE p \in DOMAIN rel.pool
  <2>1. p \in AllLocations(idx)
    BY <1>7, AptOpened, NewReleaseFacts
  <2>2. PICK e \in Owners(idx, p) : TRUE
    BY <1>2, <2>1, IndexFacts
  <2>3. p \in Places
    BY <1>2, <2>1, IndexFacts
  <2> DEFINE Right(x) ==
        /\ \A c \in plan.copies : c.to = p => c.from \in DOMAIN store /\ store[c.from] = x
        /\ \A u \in plan.uploads : u.to = p => u.data = x
        /\ \/ \E c \in plan.copies : c.to = p
           \/ \E u \in plan.uploads : u.to = p
           \/ p \in DOMAIN store /\ store[p] = x
  <2>4. \A x \in Owners(idx, p) : Right(Files(x)[p.base])
    BY <2>1, PlacedFacts
  <2> HIDE DEF plan
  <2>5. \A x, y : Right(x) /\ Right(y) => x = y \/ (p \in DOMAIN store /\ store[p] = x)
    OBVIOUS
  <2>6. \A x, y : Right(x) /\ Right(y) => x = y
    BY <2>5
  <2> HIDE DEF Right
  <2>7. \A x \in Owners(idx, p) : Files(x)[p.base] = Files(e)[p.base]
    BY <2>4, <2>6
  <2>8. rel.pool[p] = Files(e)[p.base]
    BY <1>7, <2>7, AptOpened, NewReleaseFacts
  <2>9. Right(want)
    BY <1>3, <1>7, <2>2, <2>4, <2>8
  <2>10. \A u \in puts : u.to # p
    BY <1>6, <2>3 DEF IndexFile, PlainFile
  <2> HIDE DEF puts, want, rel
  <2> QED BY <1>1, <2>9, <2>10 DEF Right, want, rel
<1>8. CASE p \notin DOMAIN rel.pool
  <2>1. want \in rel.docs /\ IndexPath(rel, want) = p
    BY <1>3, <1>8
  <2>2. p \notin Places
    BY <1>6, <2>1 DEF IndexPath
  <2>3. \E u \in puts : u.to = p
    <3>1. CASE opt.byHash
      <4>1. IndexFile(want) \in puts /\ IndexFile(want).to = p
        BY <1>2, <2>1, <3>1 DEF IndexPath, IndexFile
      <4> QED BY <4>1
    <3>2. CASE ~opt.byHash
      <4>1. PlainFile(want) \in puts /\ PlainFile(want).to = p
        BY <1>2, <2>1, <3>2 DEF IndexPath, PlainFile
      <4> QED BY <4>1
    <3> QED BY <3>1, <3>2
  <2>4. ASSUME NEW u \in puts, u.to = p PROVE u.data = want
    <3> HIDE DEF want, rel
    <3>1. PICK d \in rel.docs : u = PlainFile(d) \/ u = IndexFile(d)
      OBVIOUS
    <3>2. want \in Index(opt.suite) /\ d \in Index(opt.suite)
      BY <1>2, <2>1
    <3>3. CASE u = PlainFile(d)
      <4>1. p = Plain(d) /\ u.data = d
        BY <2>4, <3>3 DEF PlainFile
      <4>2. p = Plain(want)
        BY <1>2, <2>1, <3>2, <4>1, IndexKinds DEF IndexPath
      <4> QED BY <1>2, <2>1, <4>1, <4>2, DocumentsAlike
    <3>4. CASE u = IndexFile(d)
      <4>1. p = d /\ u.data = d
        BY <2>4, <3>4 DEF IndexFile
      <4>2. p = want
        BY <1>2, <2>1, <3>2, <4>1, IndexKinds DEF IndexPath
      <4> QED BY <4>1, <4>2
    <3> QED BY <3>1, <3>3, <3>4
  <2> HIDE DEF puts, want, rel, plan
  <2> QED BY <1>1, <1>4, <1>5, <2>2, <2>3, <2>4 DEF want, rel
<1> QED BY <1>7, <1>8

LEMMA CommitCopies ==
  ASSUME AptFiles, AptInv, mode = "open", ~Refuses(store, PlanState), TrustJustified
  PROVE  SoundCopies(CommitSteps)
<1>1. ASSUME NEW c \in PlanFiles(store, PlanState).copies
      PROVE  c.from \in DOMAIN store /\ c.to \notin DOMAIN store /\ c.to \notin IndexPaths
             /\ c = Relocation(PlanState, c.to)
  <2>1. c.to \in AllLocations(idx) /\ c.to \in Places
    BY AptOpened, OpenFacts, MoveFacts, IndexFacts
  <2>2. \E e \in Owners(idx, c.to) : TRUE
    BY <2>1, AptOpened, OpenFacts, IndexFacts
  <2> QED BY <2>1, <2>2, AptOpened, MoveFacts, PlacedFacts, PlaceKinds DEF AptFiles
<1> QED BY <1>1 DEF SoundCopies, CommitSteps

\* The swap of a commit: the Release, and its signatures if it is signed.
LEMMA SwapFacts ==
  ASSUME AptFiles, AptInv, mode = "open"
  PROVE  /\ \A f \in Range(CommitSteps.swap) :
              f.to \in IndexPaths /\ DOMAIN Needs(f.data) \subseteq DOMAIN NamedBy(NewRelease)
              /\ (DOMAIN Needs(f.data) # {} => Needs(f.data) = NamedBy(NewRelease))
         /\ Release(opt.suite) \in {f.to : f \in Range(CommitSteps.swap)}
         /\ opt.signed => InRelease(opt.suite) \in {f.to : f \in Range(CommitSteps.swap)}
<1> DEFINE rel == NewRelease
<1>1. opt.suite \in Suites /\ IsRelease(opt.suite, rel) /\ rel.suite = opt.suite
  BY AptOpened, OpenFacts, NewReleaseFacts
<1>2. CommitSteps.swap = IF opt.signed THEN <<ReleaseFile(rel), DetachedFile(rel), InlineFile(rel)>>
                                       ELSE <<ReleaseFile(rel)>>
  BY <1>1, SwappedFacts DEF CommitSteps
<1> HIDE DEF rel
<1>3. \A a, b, c : /\ Range(<<a, b, c>>) = {a, b, c} /\ Range(<<a>>) = {a}
  BY DEF Range
<1>4. /\ Range(CommitSteps.swap) \subseteq {ReleaseFile(rel), DetachedFile(rel), InlineFile(rel)}
      /\ ReleaseFile(rel) \in Range(CommitSteps.swap)
      /\ opt.signed => InlineFile(rel) \in Range(CommitSteps.swap)
  BY <1>2, <1>3
<1>5. /\ ReleaseFile(rel).to = Release(opt.suite) /\ ReleaseFile(rel).data = rel
      /\ DetachedFile(rel).to = ReleaseGPG(opt.suite) /\ DetachedFile(rel).data = [signs |-> rel]
      /\ InlineFile(rel).to = InRelease(opt.suite) /\ InlineFile(rel).data = [inline |-> rel]
  BY <1>1 DEF ReleaseFile, DetachedFile, InlineFile
<1>6. {Release(opt.suite), ReleaseGPG(opt.suite), InRelease(opt.suite)} \subseteq IndexPaths
  BY <1>1 DEF AptFiles, Fronts
<1>7. /\ Needs(rel) = NamedBy(rel) /\ Needs([inline |-> rel]) = NamedBy(rel)
      /\ DOMAIN Needs([signs |-> rel]) = {}
  BY <1>1, NeedsFacts, NeedsOfSignature
<1> QED BY <1>4, <1>5, <1>6, <1>7 DEF rel

\* A place another suite's Release may name, and what this suite may not.
LEMMA CollectSound ==
  ASSUME AptFiles, AptInv, mode = "open", ~PoolShared,
         NEW p \in UNION Range(CommitSteps.gc), NEW q \in Live, p \in DOMAIN Needs(store[q])
  PROVE  q \in Range(CommitSteps.retract) \cup {f.to : f \in Range(CommitSteps.swap)}
<1> DEFINE Is(s, c) == /\ IsRelease(s, c) /\ Needs(store[q]) = NamedBy(c) /\ q.suite = s
                       /\ \/ q = Release(s) /\ store[q] = c
                          \/ q = InRelease(s) /\ store[q] = [inline |-> c]
<1>0. PICK s \in Suites : \E c : Is(s, c)
  BY LiveFacts, AptFronts
<1>1. PICK c : Is(s, c)
  BY <1>0
<1>2. CASE s = opt.suite
  <2>1. CASE q = Release(s)
    BY <1>2, <2>1, SwapFacts
  <2>2. CASE q = InRelease(s) /\ opt.signed
    BY <1>2, <2>2, SwapFacts
  <2>3. CASE q = InRelease(s) /\ ~opt.signed
    <3>1. q \in DOMAIN store /\ store[q].inline = c
      BY <1>1, <2>3, FrontKinds DEF Live, AptInv, StoreInv
    <3>2. old # NoRelease
      <4>1. old = c
        BY <1>2, <2>3, <3>1, AptOpened, OpenFacts DEF Root, ReleaseIn
      <4> QED BY <1>1, <4>1, ReleaseFields
    <3>3. CommitSteps.retract = <<InRelease(opt.suite), ReleaseGPG(opt.suite)>>
      BY <2>3, <3>2 DEF CommitSteps, Retracted
    <3>4. InRelease(opt.suite) \in Range(CommitSteps.retract)
      BY <3>3 DEF Range
    <3> QED BY <1>2, <2>3, <3>4
  <2> QED BY <1>1, <2>1, <2>2, <2>3
<1>3. CASE s # opt.suite
  <2>1. p \in {IndexPath(c, d) : d \in c.docs} \cup DOMAIN c.pool
    BY <1>1, NamedByFacts
  <2>2. c.docs \subseteq Index(s) /\ DOMAIN c.pool \subseteq Places
    BY <1>1, ReleaseFields
  <2>3. ASSUME NEW d \in c.docs, p = IndexPath(c, d)
        PROVE  p.suite = s /\ "suite" \in DOMAIN p /\ ~IsPool(p)
    BY <2>2, <2>3, IndexKinds DEF IndexPath, IsSuite
  <2>4. ~(IsSuite(p, opt.suite) /\ p \notin Places)
    BY <1>3, <2>1, <2>2, <2>3 DEF IsSuite
  <2>5. ~(opt.unreferenced /\ IsPool(p))
    BY <1>1, <1>3 DEF PoolShared
  <2>6. ~(IsPool(p) /\ p \in DOMAIN original)
    BY <1>1, <1>3, <2>5 DEF PoolShared
  <2> QED BY <2>4, <2>5, <2>6, AptOpened, CollectFacts
<1> QED BY <1>2, <1>3

LEMMA SoundCommit ==
  ASSUME AptFiles, AptInv, Whole, mode = "open", ~Refuses(store, PlanState), ~Doubtful
  PROVE  Sound(CommitSteps)
<1> DEFINE plan == PlanFiles(store, PlanState)
           rel  == NewRelease
           w    == CommitSteps
<1>1. w.copies = plan.copies /\ w.retract = Retracted
  BY DEF CommitSteps
<1>2. Puts(w) = plan.uploads \cup {PlainFile(d) : d \in rel.docs}
                  \cup (IF opt.byHash THEN {IndexFile(d) : d \in rel.docs} ELSE {})
  BY AptOpened, CommitPuts
<1>3. ~opt.force /\ ByHashOnly /\ TrustJustified /\ ~PoolShared /\ ~Dropped
  BY DEF Doubtful
<1>4. opt.suite \in Suites /\ rel.docs \subseteq Index(opt.suite) /\ TypedIndex(idx)
  BY AptOpened, OpenFacts, NewReleaseFacts, DocumentsFacts
<1> HIDE DEF rel
<1>5. \A p \in Places : p \notin IndexPaths
  BY PlaceKinds DEF AptFiles
<1>6. SoundRetract(w)
  BY <1>1, <1>4 DEF SoundRetract, Range, Retracted, AptFiles, Fronts
<1>7. SoundCopies(w)
  BY <1>3, CommitCopies
<1>8. SoundPuts(w)
  <2>1. ASSUME NEW u \in plan.uploads PROVE Harmless(u.to, u.data)
    <3>1. u.to \in Places
      BY AptOpened, UploadFacts DEF Uploadable
    <3>2. ASSUME NEW q \in Live, u.to \in DOMAIN Needs(store[q])
          PROVE  Needs(store[q])[u.to] = u.data
      <4>1. u.to \in DOMAIN store
        BY <3>2 DEF Whole, Complete
      <4>2. u.to \in StagedInVain /\ u.data = pending[u.to]
        BY <1>3, <4>1, AptOpened, UploadFacts DEF StagedInVain
      <4> QED BY <1>3, <3>2, <4>2 DEF Dropped
    <3> QED BY <1>5, <3>1, <3>2 DEF Harmless
  <2>2. ASSUME NEW d \in rel.docs
        PROVE  Harmless(d, d) /\ Harmless(Plain(d), d)
    <3>1. d \in Index(opt.suite) /\ d \notin IndexPaths /\ Plain(d) \notin IndexPaths
          /\ d \notin Places /\ Plain(d) \notin Places
      BY <1>4, IndexKinds DEF AptFiles
    <3>2. ASSUME NEW q \in Live
          PROVE  /\ Plain(d) \notin DOMAIN Needs(store[q])
                 /\ d \in DOMAIN Needs(store[q]) => Needs(store[q])[d] = d
      <4>1. ASSUME NEW x \in {d, Plain(d)}, x \in DOMAIN Needs(store[q])
            PROVE  x = d /\ Needs(store[q])[x] = x
        <5>1. /\ x \notin Places
              /\ \A s \in Suites : x \in Index(s) => x = d
          BY <3>1, IndexKinds
        <5> QED BY <1>3, <4>1, <5>1, AptFronts, LiveNeeds
      <4>2. Plain(d) # d
        BY <3>1, IndexKinds
      <4> QED BY <4>1, <4>2
    <3> QED BY <3>1, <3>2 DEF Harmless
  <2> QED BY <1>2, <2>1, <2>2 DEF SoundPuts, PlainFile, IndexFile
<1>9. SoundSwap(w)
  <2>1. ASSUME NEW p \in DOMAIN NamedBy(rel)
        PROVE  LET want == NamedBy(rel)[p] IN
               /\ \A c \in w.copies : c.to = p => store[c.from] = want
               /\ \A u \in Puts(w) : u.to = p => u.data = want
               /\ \/ \E c \in w.copies : c.to = p
                  \/ \E u \in Puts(w) : u.to = p
                  \/ p \in DOMAIN store /\ store[p] = want
    BY <1>3, ArrivesFacts DEF rel
  <2>2. \A f \in Range(w.swap) :
          f.to \in IndexPaths /\ (DOMAIN Needs(f.data) # {} => Needs(f.data) = NamedBy(rel))
    BY SwapFacts DEF rel
  <2> HIDE DEF w
  <2> QED BY <2>1, <2>2 DEF SoundSwap
<1>10. SoundGC(w)
  <2> SUFFICES ASSUME NEW p \in UNION Range(w.gc)
               PROVE  /\ p \notin IndexPaths
                      /\ \A f \in Range(w.swap) : p \notin DOMAIN Needs(f.data)
                      /\ \A q \in Live : p \in DOMAIN Needs(store[q]) =>
                           q \in Range(w.retract) \cup {f.to : f \in Range(w.swap)}
    BY DEF SoundGC
  <2>1. p \notin IndexPaths /\ p \notin DOMAIN NamedBy(rel)
    BY AptOpened, CollectFacts DEF AptFiles, rel
  <2>2. \A f \in Range(w.swap) : p \notin DOMAIN Needs(f.data)
    BY <2>1, SwapFacts DEF rel
  <2> QED BY <1>3, <2>1, <2>2, CollectSound
<1> QED BY <1>6, <1>7, <1>8, <1>9, <1>10 DEF Sound

\* No step of a session but Commit gives Execute anything to do, and Execute
\* does soundly what is sound.
LEMMA StepUndisturbed ==
  ASSUME AptFiles, AptInv, [Next]_aptVars, Whole, Sound(work)
  PROVE  Whole' /\ (Sound(work)' \/ (Commit /\ Doubtful))
<1>1. ASSUME UNCHANGED <<store, work>> PROVE Whole' /\ Sound(work)'
  BY <1>1 DEF Whole, Live, Complete, Sound, SoundCopies, SoundPuts, Puts, Harmless, SoundSwap,
              SoundRetract, SoundGC
<1>2. ASSUME UNCHANGED store PROVE Whole' /\ (Sound(work') => Sound(work)')
  BY <1>2 DEF Whole, Live, Complete, Sound, SoundCopies, SoundPuts, Puts, Harmless, SoundSwap,
              SoundRetract, SoundGC
<1>3. CASE Commit
  <2>1. mode = "open" /\ ~Refuses(store, PlanState) /\ work' = CommitSteps /\ UNCHANGED store
    BY <1>3 DEF Commit
  <2>2. CASE Doubtful
    BY <1>2, <1>3, <2>1, <2>2
  <2>3. CASE ~Doubtful
    BY <1>2, <2>1, <2>3, SoundCommit
  <2> QED BY <2>2, <2>3
<1>4. CASE Publishing \/ CutShort
  <2>1. work \in Shape(Movable, Uploadable, Describable, Swappable(opt.suite),
                       {InRelease(opt.suite), ReleaseGPG(opt.suite)}, Doomed)
    BY DEF AptInv, WorkInv, AptShape
  <2>2. Step \/ Stop \/ StopInCopy
    BY <1>4 DEF Publishing, CutShort
  <2>3. Whole' /\ StaysSound'
    BY <2>1, <2>2, AptApart, ExecuteSound DEF StaysSound
  <2> QED BY <2>3 DEF StaysSound
<1>5. CASE Open \/ Mutate \/ Abandon \/ Finish \/ UNCHANGED aptVars
  BY <1>1, <1>5 DEF Open, Mutate, Add, RemoveID, PruneOlderVersions, RelocateAll,
                    Refresh, Call, Abandon, Finish, aptVars
<1> QED BY <1>3, <1>4, <1>5 DEF Next

\* A publish disturbs no client that finds indexes by hash, wherever it stops,
\* unless it was doubtful when it began: for every set of packages and suites,
\* every repository found, and every sequence of sessions on it.
THEOREM AptUndisturbed ==
  ASSUME AptFiles
  PROVE  Spec => UndisturbedIfTrusted
<1>1. AptInv /\ [Next]_aptVars => (Whole /\ Sound(work) => Whole' /\ (Sound(work)' \/ (Commit /\ Doubtful)))
  BY StepUndisturbed
<1> QED BY <1>1, SpecInv, PTL DEF Spec, UndisturbedIfTrusted

\* So clients always read a whole repository where none was doubtful and the one
\* found was whole.
THEOREM AptAlwaysWhole ==
  ASSUME AptFiles
  PROVE  Spec /\ Whole /\ [][Commit => ~Doubtful]_aptVars => []Whole
<1>1. Init => Sound(work)
  BY IdleSound DEF Init, StaysSound
<1>2. AptInv /\ Whole /\ Sound(work) /\ [Next]_aptVars /\ [Commit => ~Doubtful]_aptVars
        => Whole' /\ Sound(work)'
  <2> SUFFICES ASSUME AptInv, Whole, Sound(work), [Next]_aptVars, [Commit => ~Doubtful]_aptVars
               PROVE  Whole' /\ Sound(work)'
    OBVIOUS
  <2>1. Commit => mode' # mode
    BY DEF Commit
  <2>2. ~(Commit /\ Doubtful)
    BY <2>1 DEF aptVars
  <2> QED BY <2>2, StepUndisturbed
<1> QED BY <1>1, <1>2, SpecInv, PTL DEF Spec

----------------------------------------------------------------------------
(* A publish that ends: whole indexes, one signature, no architecture lost. *)

\* The Release to come, by how far the publish is.
LEMMA ComingFacts ==
  ASSUME AptInv, mode = "publishing"
  PROVE  /\ opt.suite \in Suites /\ IsRelease(opt.suite, Coming)
         /\ \A f \in Range(work.swap) : f.to = Release(opt.suite) => f = ReleaseFile(Coming)
         /\ \/ \/ work.swap = <<ReleaseFile(Coming), DetachedFile(Coming), InlineFile(Coming)>>
               \/ work.swap = <<ReleaseFile(Coming)>>
            \/ /\ Release(opt.suite) \in DOMAIN store /\ Coming = store[Release(opt.suite)]
               /\ \A f \in Range(work.swap) : f.to # Release(opt.suite)
               /\ \/ work.swap = <<DetachedFile(Coming), InlineFile(Coming)>>
                  \/ work.swap = <<InlineFile(Coming)>>
                  \/ work.swap = <<>>
<1> DEFINE s == opt.suite
           rest == {f \in Range(work.swap) : f.to = Release(s)}
<1>1. s \in Suites /\ SignatureInv /\ StoreInv
  BY DEF AptInv, SessionInv, Options
<1>2. Coming = IF rest # {} THEN (CHOOSE f \in rest : TRUE).data ELSE store[Release(s)]
  BY DEF Coming
<1>3. \A a, b, c : /\ Range(<<a, b, c>>) = {a, b, c} /\ Range(<<a, b>>) = {a, b}
                   /\ Range(<<a>>) = {a}
  BY DEF Range
<1>4. Range(<<>>) = {}
  BY DEF Range
<1> HIDE DEF s
<1>5. ASSUME NEW rel, rel.suite = s
      PROVE  /\ ReleaseFile(rel).to = Release(s) /\ ReleaseFile(rel).data = rel
             /\ DetachedFile(rel).to # Release(s) /\ InlineFile(rel).to # Release(s)
  BY <1>5, FrontKinds DEF ReleaseFile, DetachedFile, InlineFile
<1>6. CASE \E rel \in ReleasesOf(s) : \/ work.swap = <<ReleaseFile(rel), DetachedFile(rel), InlineFile(rel)>>
                                      \/ work.swap = <<ReleaseFile(rel)>>
  <2>1. PICK rel \in ReleasesOf(s) : \/ work.swap = <<ReleaseFile(rel), DetachedFile(rel), InlineFile(rel)>>
                                     \/ work.swap = <<ReleaseFile(rel)>>
    BY <1>6
  <2>2. IsRelease(s, rel) /\ rel.suite = s
    BY <1>1, <2>1, ReleasesDef, ReleaseFields
  <2>3. ReleaseFile(rel) \in Range(work.swap) /\
          Range(work.swap) \subseteq {ReleaseFile(rel), DetachedFile(rel), InlineFile(rel)}
    BY <1>3, <2>1
  <2>4. rest = {ReleaseFile(rel)}
    BY <1>5, <2>2, <2>3
  <2> HIDE DEF rest
  <2>5. Coming = rel
    BY <1>2, <1>5, <2>2, <2>4
  <2> QED BY <1>1, <2>1, <2>2, <2>4, <2>5 DEF rest, s
<1>7. CASE /\ Release(s) \in DOMAIN store
           /\ \/ work.swap = <<DetachedFile(store[Release(s)]), InlineFile(store[Release(s)])>>
              \/ work.swap = <<InlineFile(store[Release(s)])>>
              \/ work.swap = <<>>
  <2>1. IsRelease(s, store[Release(s)]) /\ store[Release(s)].suite = s
    BY <1>1, <1>7, ReleaseFields DEF StoreInv
  <2> DEFINE now == store[Release(s)]
  <2>2. Range(work.swap) \subseteq {DetachedFile(now), InlineFile(now)}
    <3>1. work.swap \in {<<DetachedFile(now), InlineFile(now)>>, <<InlineFile(now)>>, <<>>}
      BY <1>7
    <3> HIDE DEF now
    <3> QED BY <1>3, <1>4, <3>1
  <2>3. rest = {}
    BY <1>5, <2>1, <2>2
  <2>4. Coming = store[Release(s)]
    BY <1>2, <2>3
  <2> QED BY <1>1, <1>7, <2>1, <2>3, <2>4 DEF s
<1> QED BY <1>1, <1>6, <1>7 DEF SignatureInv, s

\* What one step does where clients start: the Release to come stays the same,
\* and what is loaded is as it was or as it is to be.
LEMMA StepFronts ==
  ASSUME AptInv, Publishing
  PROVE  /\ Coming' = Coming
         /\ \A s \in Suites : Root(s)' = Root(s) \/ (s = opt.suite /\ Root(s)' = Coming)
<1> DEFINE s == opt.suite
<1>1. /\ mode = "publishing" /\ Step /\ opt' = opt /\ old' = old /\ mode' = mode
      /\ StoreInv /\ SignatureInv
  BY DEF Publishing, session, AptInv
<1>2. work \in Shape(Movable, Uploadable, Describable, Swappable(opt.suite),
                     {InRelease(opt.suite), ReleaseGPG(opt.suite)}, Doomed)
  BY DEF AptInv, WorkInv, AptShape
<1>3. s \in Suites /\ IsRelease(s, Coming) /\ Coming.suite = s
  BY <1>1, ComingFacts, ReleaseFields
<1>4. ASSUME work'.swap = work.swap,
             \A q \in Fronts : (q \in DOMAIN store' <=> q \in DOMAIN store)
                                 /\ (q \in DOMAIN store => store'[q] = store[q])
      PROVE  Coming' = Coming /\ \A t \in Suites : Root(t)' = Root(t)
  <2>1. \A t \in Suites : \A q \in {Release(t), InRelease(t)} :
          (q \in DOMAIN store' <=> q \in DOMAIN store) /\ (q \in DOMAIN store => store'[q] = store[q])
    BY <1>4 DEF Fronts
  <2>2. \A t \in Suites : Root(t)' = Root(t)
    BY <2>1 DEF Root, ReleaseIn
  <2>3. \/ \E f \in Range(work.swap) : f.to = Release(s)
        \/ Release(s) \in DOMAIN store
    <3>1. \A a, b, c : a \in Range(<<a, b, c>>) /\ a \in Range(<<a>>)
      BY DEF Range
    <3>2. ReleaseFile(Coming).to = Release(s)
      BY <1>3 DEF ReleaseFile
    <3> QED BY <1>1, <3>1, <3>2, ComingFacts
  <2>4. Coming' = Coming
    BY <1>1, <1>3, <1>4, <2>1, <2>3 DEF Coming
  <2> QED BY <2>2, <2>4
<1>5. CASE CopyOne
  <2>1. PICK c \in work.copies : c \in Movable /\ StorePut(c.to, store[c.from])
    BY <1>2, <1>5, CopyOneFields
  <2>2. work'.swap = work.swap /\ c.to \notin Fronts
    BY <1>2, <1>5, <2>1, CopyOneFields, PlaceKinds DEF Movable
  <2>3. \A q \in Fronts : (q \in DOMAIN store' <=> q \in DOMAIN store)
                            /\ (q \in DOMAIN store => store'[q] = store[q])
    <3>1. /\ DOMAIN store' = DOMAIN store \cup {c.to}
          /\ \A q \in DOMAIN store : q # c.to => store'[q] = store[q]
      BY <2>1, PutFacts
    <3> QED BY <2>2, <3>1
  <2> QED BY <1>4, <2>2, <2>3
<1>6. CASE UploadOne
  <2>1. PICK u \in work.uploads : u \in Uploadable /\ StorePut(u.to, u.data)
    BY <1>2, <1>6, UploadOneFields
  <2>2. work'.swap = work.swap /\ u.to \notin Fronts
    BY <1>2, <1>6, <2>1, UploadOneFields, PlaceKinds DEF Uploadable
  <2>3. \A q \in Fronts : (q \in DOMAIN store' <=> q \in DOMAIN store)
                            /\ (q \in DOMAIN store => store'[q] = store[q])
    <3>1. /\ DOMAIN store' = DOMAIN store \cup {u.to}
          /\ \A q \in DOMAIN store : q # u.to => store'[q] = store[q]
      BY <2>1, PutFacts
    <3> QED BY <2>2, <3>1
  <2> QED BY <1>4, <2>2, <2>3
<1>7. CASE WriteMetadata
  <2> DEFINE u == Head(work.metadata)
  <2>1. u \in Describable /\ StorePut(u.to, u.data) /\ work'.swap = work.swap
    BY <1>2, <1>7, WriteMetadataFields
  <2> HIDE DEF u
  <2>2. work'.swap = work.swap /\ u.to \notin Fronts
    BY <2>1, DescribableFacts
  <2>3. \A q \in Fronts : (q \in DOMAIN store' <=> q \in DOMAIN store)
                            /\ (q \in DOMAIN store => store'[q] = store[q])
    <3>1. /\ DOMAIN store' = DOMAIN store \cup {u.to}
          /\ \A q \in DOMAIN store : q # u.to => store'[q] = store[q]
      BY <2>1, PutFacts
    <3> QED BY <2>2, <3>1
  <2> QED BY <1>4, <2>2, <2>3
<1>8. CASE SwapOne
  <2> DEFINE f == Head(work.swap)
  <2>1. StorePut(f.to, f.data) /\ work.swap # <<>> /\ work'.swap = Tail(work.swap)
    BY <1>2, <1>8, SwapOneFields
  <2>2. \A a, b, c : /\ Head(<<a, b, c>>) = a /\ Tail(<<a, b, c>>) = <<b, c>>
                     /\ Head(<<a, b>>) = a /\ Tail(<<a, b>>) = <<b>>
                     /\ Head(<<a>>) = a /\ Tail(<<a>>) = <<>>
    OBVIOUS
  <2> HIDE DEF f, s
  <2>3. /\ f \in {ReleaseFile(Coming), DetachedFile(Coming), InlineFile(Coming)}
        /\ work'.swap \in {<<DetachedFile(Coming), InlineFile(Coming)>>, <<InlineFile(Coming)>>, <<>>}
        /\ f # ReleaseFile(Coming) => Release(s) \in DOMAIN store /\ Coming = store[Release(s)]
    <3> DEFINE r == ReleaseFile(Coming)
               d == DetachedFile(Coming)
               i == InlineFile(Coming)
    <3>1. \/ work.swap = <<r, d, i>> \/ work.swap = <<r>>
          \/ /\ Release(s) \in DOMAIN store /\ Coming = store[Release(s)]
             /\ work.swap = <<d, i>> \/ work.swap = <<i>>
      BY <1>1, <2>1, ComingFacts DEF s
    <3> HIDE DEF r, d, i
    <3>2. CASE work.swap = <<r, d, i>>
      BY <2>1, <2>2, <3>2 DEF f, r, d, i
    <3>3. CASE work.swap = <<r>>
      BY <2>1, <2>2, <3>3 DEF f, r, d, i
    <3>4. CASE Release(s) \in DOMAIN store /\ Coming = store[Release(s)] /\ work.swap = <<d, i>>
      BY <2>1, <2>2, <3>4 DEF f, r, d, i
    <3>5. CASE Release(s) \in DOMAIN store /\ Coming = store[Release(s)] /\ work.swap = <<i>>
      BY <2>1, <2>2, <3>5 DEF f, r, d, i
    <3> QED BY <3>1, <3>2, <3>3, <3>4, <3>5
  <2>4. /\ ReleaseFile(Coming).to = Release(s) /\ ReleaseFile(Coming).data = Coming
        /\ DetachedFile(Coming).to = ReleaseGPG(s)
        /\ InlineFile(Coming).to = InRelease(s) /\ InlineFile(Coming).data = [inline |-> Coming]
    BY <1>3 DEF ReleaseFile, DetachedFile, InlineFile
  <2>5. \A t : /\ ReleaseGPG(s) # Release(t) /\ ReleaseGPG(s) # InRelease(t) /\ InRelease(s) # Release(t)
               /\ Release(s) # InRelease(t)
               /\ t # s => Release(s) # Release(t) /\ InRelease(s) # InRelease(t)
    BY FrontKinds
  <2>6. /\ DOMAIN store' = DOMAIN store \cup {f.to} /\ store'[f.to] = f.data
        /\ \A q \in DOMAIN store : q # f.to => store'[q] = store[q]
    BY <2>1, PutFacts
  <2>7. Release(s) \in DOMAIN store' /\ store'[Release(s)] = Coming
    BY <2>3, <2>4, <2>5, <2>6
  <2>8. {x \in Range(work'.swap) : x.to = Release(s)} = {}
    <3>1. \A a, b : Range(<<a, b>>) = {a, b} /\ Range(<<a>>) = {a}
      BY DEF Range
    <3>2. Range(<<>>) = {}
      BY DEF Range
    <3>3. Range(work'.swap) \subseteq {DetachedFile(Coming), InlineFile(Coming)}
      <4> DEFINE d == DetachedFile(Coming)
                 i == InlineFile(Coming)
      <4>1. work'.swap \in {<<d, i>>, <<i>>, <<>>}
        BY <2>3
      <4> HIDE DEF d, i
      <4>2. Range(work'.swap) \subseteq {d, i}
        BY <3>1, <3>2, <4>1
      <4> QED BY <4>2 DEF d, i
    <3> QED BY <2>4, <2>5, <3>3
  <2>9. Coming' = Coming
    <3>1. Coming' = store'[Release(s)]
      BY <1>1, <2>8 DEF Coming, s
    <3> QED BY <2>7, <3>1
  <2>10. \A t \in Suites : Root(t)' = Root(t) \/ (t = s /\ Root(t)' = Coming)
    <3> SUFFICES ASSUME NEW t \in Suites PROVE Root(t)' = Root(t) \/ (t = s /\ Root(t)' = Coming)
      OBVIOUS
    <3>1. CASE t # s
      BY <2>3, <2>4, <2>5, <2>6, <3>1 DEF Root, ReleaseIn
    <3>2. CASE t = s /\ f = InlineFile(Coming)
      <4>1. InRelease(t) \in DOMAIN store' /\ store'[InRelease(t)].inline = Coming
        BY <2>4, <2>6, <3>2
      <4> QED BY <3>2, <4>1 DEF Root, ReleaseIn
    <3>3. CASE t = s /\ f # InlineFile(Coming)
      <4>1. f.to # InRelease(t)
        BY <2>3, <2>4, <2>5, <3>3
      <4>2. /\ InRelease(t) \in DOMAIN store' <=> InRelease(t) \in DOMAIN store
            /\ InRelease(t) \in DOMAIN store => store'[InRelease(t)] = store[InRelease(t)]
        BY <2>6, <4>1
      <4> QED BY <2>7, <3>3, <4>2 DEF Root, ReleaseIn
    <3> QED BY <3>1, <3>2, <3>3
  <2> QED BY <2>9, <2>10 DEF s
<1>9. CASE RetractOne
  <2> DEFINE h == Head(work.retract)
  <2>1. StoreDelete(h) /\ work.swap = <<>> /\ work'.swap = <<>> /\ h \in {InRelease(s), ReleaseGPG(s)}
    BY <1>2, <1>9, RetractOneFields
  <2> HIDE DEF h, s
  <2>2. DOMAIN store' = DOMAIN store \ {h} /\ \A q \in DOMAIN store' : store'[q] = store[q]
    BY <2>1, DeleteFacts
  <2>3. \A a, b, c : <<>> # <<a, b, c>> /\ <<>> # <<a>>
    OBVIOUS
  <2>4. Release(s) \in DOMAIN store /\ Coming = store[Release(s)]
    BY <1>1, <2>1, <2>3, ComingFacts DEF s
  <2>5. \A t : /\ h # Release(t)
               /\ t # s => h # InRelease(t)
    BY <2>1, FrontKinds
  <2>6. Release(s) \in DOMAIN store' /\ store'[Release(s)] = Coming
    BY <2>2, <2>4, <2>5
  <2>7. Coming' = Coming
    <3>1. Range(<<>>) = {}
      BY DEF Range
    <3>2. {x \in Range(work'.swap) : x.to = Release(s)} = {}
      BY <2>1, <3>1
    <3>3. Coming' = store'[Release(s)]
      BY <1>1, <3>2 DEF Coming, s
    <3> QED BY <2>6, <3>3
  <2>8. ASSUME NEW t \in Suites PROVE Root(t)' = Root(t) \/ (t = s /\ Root(t)' = Coming)
    <3>1. CASE t # s
      BY <2>2, <2>5, <3>1 DEF Root, ReleaseIn
    <3>2. CASE t = s
      BY <2>2, <2>5, <2>6, <3>2 DEF Root, ReleaseIn
    <3> QED BY <3>1, <3>2
  <2> QED BY <2>7, <2>8 DEF s
<1>10. CASE CollectOne
  <2>1. work'.swap = work.swap /\ (UNCHANGED store \/ \E p \in Doomed : StoreDelete(p))
    BY <1>2, <1>10, CollectOneFields DEF Doomed
  <2>2. Doomed \cap Fronts = {}
    BY DEF AptInv, WorkInv
  <2> QED BY <1>4, <2>1, <2>2, DeleteFacts
<1> QED BY <1>1, <1>5, <1>6, <1>7, <1>8, <1>9, <1>10 DEF Step

\* Any step of Execute keeps copies sound.
LEMMA CopiesStaySound ==
  ASSUME NEW C, NEW U, NEW M, NEW W, NEW R, NEW G, work \in Shape(C, U, M, W, R, G),
         SoundCopies(work), Step
  PROVE  SoundCopies(work)'
<1>1. CASE CopyOne
  <2>1. PICK c \in work.copies : StorePut(c.to, store[c.from]) /\ work'.copies = work.copies \ {c}
    BY <1>1, CopyOneFields
  <2>2. DOMAIN store' = DOMAIN store \cup {c.to}
    BY <2>1, PutFacts
  <2> QED BY <2>1, <2>2 DEF SoundCopies
<1>2. CASE ~CopyOne
  <2>1. work'.copies = {}
    BY <1>2, UploadOneFields, WriteMetadataFields, SwapOneFields, RetractOneFields, CollectOneFields DEF Step
  <2> QED BY <2>1 DEF SoundCopies
<1> QED BY <1>1, <1>2

\* An upload or a metadata file that was due, seen from a path that waits for it.
OnItsWay(p, want) ==
  /\ \A c \in work.copies : c.to = p => store[c.from] = want
  /\ \A u \in Puts(work) : u.to = p => u.data = want
  /\ \/ \E c \in work.copies : c.to = p
     \/ \E u \in Puts(work) : u.to = p
     \/ p \in DOMAIN store /\ store[p] = want

LEMMA ArrivesStep ==
  ASSUME NEW C, NEW U, NEW M, NEW W, NEW R, NEW G, work \in Shape(C, U, M, W, R, G),
         SoundCopies(work), Step,
         NEW p, NEW want, OnItsWay(p, want), p \notin Doomed,
         \A f \in Range(work.swap) : f.to # p, p \notin R
  PROVE  OnItsWay(p, want)' /\ p \notin Doomed'
<1>1. CASE CopyOne
  <2>1. PICK c \in work.copies : StorePut(c.to, store[c.from]) /\ work'.copies = work.copies \ {c}
    BY <1>1, CopyOneFields
  <2>2. c.to \notin DOMAIN store /\ \A d \in work.copies : d.from \in DOMAIN store /\ (d.to = c.to => d = c)
    BY <2>1 DEF SoundCopies
  <2>3. /\ DOMAIN store' = DOMAIN store \cup {c.to} /\ store'[c.to] = store[c.from]
        /\ \A q \in DOMAIN store : store'[q] = store[q]
    BY <2>1, <2>2, PutFacts
  <2>4. Puts(work') = Puts(work) /\ Doomed' = Doomed
    BY <1>1, CopyOneFields DEF Puts, Doomed
  <2>5. \A d \in work'.copies : d.to = p => store'[d.from] = want
    BY <2>1, <2>2, <2>3 DEF OnItsWay
  <2>6. \/ \E d \in work'.copies : d.to = p
        \/ \E u \in Puts(work') : u.to = p
        \/ p \in DOMAIN store' /\ store'[p] = want
    <3>1. CASE c.to = p
      BY <2>1, <2>3, <3>1 DEF OnItsWay
    <3>2. CASE c.to # p
      BY <2>1, <2>3, <2>4, <3>2 DEF OnItsWay
    <3> QED BY <3>1, <3>2
  <2> QED BY <2>4, <2>5, <2>6 DEF OnItsWay
<1>2. ASSUME NEW u \in Puts(work), StorePut(u.to, u.data), work.copies = {}, work'.copies = {},
             Puts(work') \subseteq Puts(work), Puts(work) \subseteq {u} \cup Puts(work'), work'.gc = work.gc
      PROVE  OnItsWay(p, want)' /\ p \notin Doomed'
  <2>1. /\ DOMAIN store' = DOMAIN store \cup {u.to} /\ store'[u.to] = u.data
        /\ \A q \in DOMAIN store : q # u.to => store'[q] = store[q]
    BY <1>2, PutFacts
  <2>2. Doomed' = Doomed
    BY <1>2 DEF Doomed
  <2>3. \/ \E v \in Puts(work') : v.to = p
        \/ p \in DOMAIN store' /\ store'[p] = want
    <3>1. CASE u.to = p
      BY <2>1, <3>1 DEF OnItsWay
    <3>2. CASE u.to # p
      BY <1>2, <2>1, <3>2 DEF OnItsWay
    <3> QED BY <3>1, <3>2
  <2> QED BY <1>2, <2>2, <2>3 DEF OnItsWay
<1>3. CASE UploadOne
  <2>1. PICK u \in work.uploads : StorePut(u.to, u.data) /\ work'.uploads = work.uploads \ {u}
    BY <1>3, UploadOneFields
  <2>2. work.copies = {} /\ work'.copies = {} /\ work'.metadata = work.metadata /\ work'.gc = work.gc
    BY <1>3, UploadOneFields
  <2>3. u \in Puts(work) /\ Puts(work') \subseteq Puts(work) /\ Puts(work) \subseteq {u} \cup Puts(work')
    BY <2>1, <2>2 DEF Puts
  <2> QED BY <1>2, <2>1, <2>2, <2>3
<1>4. CASE WriteMetadata
  <2> DEFINE u == Head(work.metadata)
  <2>1. /\ work.copies = {} /\ work'.copies = {} /\ work.uploads = {} /\ work'.uploads = {}
        /\ u \in Range(work.metadata) /\ StorePut(u.to, u.data)
        /\ Range(work'.metadata) \subseteq Range(work.metadata)
        /\ Range(work.metadata) \subseteq {u} \cup Range(work'.metadata)
        /\ work'.gc = work.gc
    BY <1>4, WriteMetadataFields
  <2> HIDE DEF u
  <2>2. u \in Puts(work) /\ Puts(work') \subseteq Puts(work) /\ Puts(work) \subseteq {u} \cup Puts(work')
    BY <2>1 DEF Puts
  <2> QED BY <1>2, <2>1, <2>2
<1>5. ASSUME work.copies = {}, work'.copies = {}, Puts(work) = {}, Puts(work') = {},
             p \in DOMAIN store => p \in DOMAIN store' /\ store'[p] = store[p], Doomed' \subseteq Doomed
      PROVE  OnItsWay(p, want)' /\ p \notin Doomed'
  BY <1>5 DEF OnItsWay
<1>6. CASE SwapOne
  <2> DEFINE f == Head(work.swap)
  <2>1. /\ work.copies = {} /\ work'.copies = {} /\ Puts(work) = {} /\ Puts(work') = {}
        /\ f \in Range(work.swap) /\ StorePut(f.to, f.data) /\ work'.gc = work.gc
    BY <1>6, SwapOneFields
  <2> HIDE DEF f
  <2>2. f.to # p
    BY <2>1
  <2>3. DOMAIN store' = DOMAIN store \cup {f.to} /\ \A q \in DOMAIN store : q # f.to => store'[q] = store[q]
    BY <2>1, PutFacts
  <2>4. p \in DOMAIN store => p \in DOMAIN store' /\ store'[p] = store[p]
    BY <2>2, <2>3
  <2>5. Doomed' = Doomed
    BY <2>1 DEF Doomed
  <2> QED BY <1>5, <2>1, <2>4, <2>5
<1>7. CASE RetractOne
  <2> DEFINE h == Head(work.retract)
  <2>1. /\ work.copies = {} /\ work'.copies = {} /\ Puts(work) = {} /\ Puts(work') = {}
        /\ h \in R /\ StoreDelete(h) /\ work'.gc = work.gc
    BY <1>7, RetractOneFields
  <2> HIDE DEF h
  <2>2. DOMAIN store' = DOMAIN store \ {h} /\ \A q \in DOMAIN store' : store'[q] = store[q]
    BY <2>1, DeleteFacts
  <2>3. p \in DOMAIN store => p \in DOMAIN store' /\ store'[p] = store[p]
    BY <2>1, <2>2
  <2>4. Doomed' = Doomed
    BY <2>1 DEF Doomed
  <2> QED BY <1>5, <2>1, <2>3, <2>4
<1>8. CASE CollectOne
  <2>1. /\ work.copies = {} /\ work'.copies = {} /\ Puts(work) = {} /\ Puts(work') = {}
        /\ Doomed' \subseteq Doomed
        /\ UNCHANGED store \/ \E q \in Doomed : StoreDelete(q)
    BY <1>8, CollectOneFields DEF Doomed
  <2>2. ASSUME NEW q \in Doomed, StoreDelete(q)
        PROVE  p \in DOMAIN store => p \in DOMAIN store' /\ store'[p] = store[p]
    <3>1. DOMAIN store' = DOMAIN store \ {q} /\ \A r \in DOMAIN store' : store'[r] = store[r]
      BY <2>2, DeleteFacts
    <3> QED BY <2>2, <3>1
  <2> QED BY <1>5, <2>1, <2>2
<1> QED BY <1>1, <1>3, <1>4, <1>6, <1>7, <1>8 DEF Step

LEMMA OnCourseStep ==
  ASSUME AptFiles, AptInv, Publishing, OnCourse
  PROVE  OnCourse'
<1>1. mode = "publishing" /\ Step
  BY DEF Publishing
<1>2. work \in Shape(Movable, Uploadable, Describable, Swappable(opt.suite),
                     {InRelease(opt.suite), ReleaseGPG(opt.suite)}, Doomed)
  BY DEF AptInv, WorkInv, AptShape
<1>3. Coming' = Coming
  BY StepFronts
<1>4. opt.suite \in Suites /\ IsRelease(opt.suite, Coming)
  BY <1>1, ComingFacts
<1>5. SoundCopies(work) /\ SoundCopies(work)'
  BY <1>1, <1>2, CopiesStaySound DEF OnCourse
<1>6. ASSUME NEW f \in Range(work.swap) PROVE f.to \in Fronts
  <2>1. f \in Swappable(opt.suite)
    BY <1>2 DEF Shape, Range
  <2>2. PICK rel \in ReleasesOf(opt.suite) : f \in {ReleaseFile(rel), DetachedFile(rel), InlineFile(rel)}
    BY <2>1 DEF Swappable
  <2>3. rel.suite = opt.suite
    BY <1>4, <2>2, ReleasesDef, ReleaseFields
  <2> QED BY <1>4, <2>2, <2>3 DEF ReleaseFile, DetachedFile, InlineFile, Fronts
<1>7. {InRelease(opt.suite), ReleaseGPG(opt.suite)} \subseteq Fronts
  BY <1>4 DEF Fronts
<1>8. ASSUME NEW p \in DOMAIN Needs(Coming)
      PROVE  OnItsWay(p, Needs(Coming)[p])' /\ p \notin Doomed'
  <2>1. p \notin Fronts
    BY <1>4, NeedsFacts, NamedByFacts
  <2>2. OnItsWay(p, Needs(Coming)[p]) /\ p \notin Doomed
    BY DEF OnCourse, OnItsWay
  <2>3. (\A f \in Range(work.swap) : f.to # p) /\ p \notin {InRelease(opt.suite), ReleaseGPG(opt.suite)}
    BY <1>6, <1>7, <2>1
  <2>4. PICK want : want = Needs(Coming)[p]
    OBVIOUS
  <2>5. OnItsWay(p, want)
    BY <2>2, <2>4 DEF OnItsWay
  <2>6. OnItsWay(p, want)' /\ p \notin Doomed'
    BY <1>1, <1>2, <1>5, <2>2, <2>3, <2>5, ArrivesStep
  <2>7. Needs(Coming')[p] = want
    BY <1>3, <2>4
  <2> QED BY <2>6, <2>7 DEF OnItsWay
<1> QED BY <1>3, <1>5, <1>8 DEF OnCourse, OnItsWay

LEMMA CommitComing ==
  ASSUME Opened, Commit
  PROVE  Coming' = NewRelease
<1> DEFINE rel  == NewRelease
           w    == CommitSteps
           rest == {f \in Range(w.swap) : f.to = Release(opt.suite)}
<1>1. mode = "open" /\ store' = store /\ work' = w /\ opt' = opt
  BY DEF Commit, session
<1>2. rel.suite = opt.suite /\ opt.suite \in Suites
  BY OpenFacts, NewReleaseFacts
<1>3. w.swap = IF opt.signed THEN <<ReleaseFile(rel), DetachedFile(rel), InlineFile(rel)>>
                             ELSE <<ReleaseFile(rel)>>
  BY <1>2, SwappedFacts DEF CommitSteps
<1>4. Coming' = IF rest # {} THEN (CHOOSE f \in rest : TRUE).data ELSE store'[Release(opt.suite)]
  BY <1>1 DEF Coming
<1> HIDE DEF rel, w
<1>5. \A a, b, c : Range(<<a, b, c>>) = {a, b, c} /\ Range(<<a>>) = {a}
  BY DEF Range
<1>6. ReleaseFile(rel) \in Range(w.swap) /\
        Range(w.swap) \subseteq {ReleaseFile(rel), DetachedFile(rel), InlineFile(rel)}
  BY <1>3, <1>5
<1>7. /\ ReleaseFile(rel).to = Release(opt.suite) /\ ReleaseFile(rel).data = rel
      /\ DetachedFile(rel).to # Release(opt.suite) /\ InlineFile(rel).to # Release(opt.suite)
  BY <1>2, FrontKinds DEF ReleaseFile, DetachedFile, InlineFile
<1>8. rest = {ReleaseFile(rel)}
  BY <1>6, <1>7
<1> HIDE DEF rest
<1> QED BY <1>4, <1>7, <1>8 DEF rel

\* A publish whose trust was justified begins on course.
LEMMA CommitOnCourse ==
  ASSUME AptFiles, AptInv, Commit, TrustJustified
  PROVE  OnCourse'
<1> DEFINE rel == NewRelease
           w   == CommitSteps
<1>1. mode = "open" /\ ~Refuses(store, PlanState) /\ store' = store /\ work' = w /\ opt' = opt
  BY DEF Commit, session
<1>2. /\ opt.suite \in Suites /\ IsRelease(opt.suite, rel) /\ rel.suite = opt.suite
      /\ Needs(rel) = NamedBy(rel)
  BY <1>1, AptOpened, OpenFacts, NewReleaseFacts, NeedsFacts
<1>3. Coming' = rel
  BY AptOpened, CommitComing DEF Commit
<1>4. SoundCopies(work)'
  BY <1>1, CommitCopies DEF SoundCopies
<1>5. Doomed' = UNION Range(w.gc)
  BY <1>1 DEF Doomed
<1>6. ASSUME NEW p \in DOMAIN NamedBy(rel)
      PROVE  LET want == NamedBy(rel)[p] IN
             /\ p \notin Doomed'
             /\ \A c \in work'.copies : c.to = p => store'[c.from] = want
             /\ \A u \in Puts(work') : u.to = p => u.data = want
             /\ \/ \E c \in work'.copies : c.to = p
                \/ \E u \in Puts(work') : u.to = p
                \/ p \in DOMAIN store' /\ store'[p] = want
  <2>1. p \notin UNION Range(w.gc)
    BY <1>1, AptOpened, CollectFacts
  <2>2. LET want == NamedBy(rel)[p] IN
        /\ \A c \in w.copies : c.to = p => store[c.from] = want
        /\ \A u \in Puts(w) : u.to = p => u.data = want
        /\ \/ \E c \in w.copies : c.to = p
           \/ \E u \in Puts(w) : u.to = p
           \/ p \in DOMAIN store /\ store[p] = want
    BY <1>1, ArrivesFacts
  <2> HIDE DEF rel, w
  <2> QED BY <1>1, <1>5, <2>1, <2>2
<1> HIDE DEF rel, w
<1> QED BY <1>2, <1>3, <1>4, <1>6 DEF OnCourse

\* One that ends has done all it had to do.
LEMMA FinishWhole ==
  ASSUME AptFiles, AptInv, Finish
  PROVE  /\ OnCourse => Complete(store[Release(opt.suite)])
         /\ SignaturesAgree(opt.suite)
<1>1. mode = "publishing" /\ work = NoSteps
  BY DEF Finish
<1>2. work.copies = {} /\ Puts(work) = {} /\ work.swap = <<>> /\ work.retract = <<>>
  <2>1. Range(<<>>) = {}
    BY DEF Range
  <2> QED BY <1>1, <2>1 DEF NoSteps, Puts
<1>3. \A a, b, c : <<>> # <<a, b, c>> /\ <<>> # <<a, b>> /\ <<>> # <<a>>
  OBVIOUS
<1>4. Coming = store[Release(opt.suite)]
  BY <1>1, <1>2, <1>3, ComingFacts
<1>5. SignaturesAgree(opt.suite)
  BY <1>1, <1>2, <1>3 DEF AptInv, SignatureInv
<1>6. OnCourse => Complete(Coming)
  BY <1>2 DEF OnCourse, Complete
<1> QED BY <1>4, <1>5, <1>6

\* A publish whose trust was justified stays on course at every one of its
\* steps, and one that ends leaves the suite whole and its three files of one
\* Release: for every set of packages and suites, every repository found, and
\* whatever was interrupted before.
THEOREM AptEndsWhole ==
  ASSUME AptFiles
  PROVE  Spec => EndsWhole
<1>1. AptInv /\ [Next]_aptVars =>
        [/\ Commit /\ TrustJustified => OnCourse'
         /\ Publishing /\ OnCourse => OnCourse'
         /\ Finish => /\ OnCourse => Complete(store[Release(opt.suite)])
                      /\ SignaturesAgree(opt.suite)]_aptVars
  BY CommitOnCourse, OnCourseStep, FinishWhole
<1> QED BY <1>1, SpecInv, PTL DEF Spec, EndsWhole

\* The architectures of the Release clients read are among those of the one to
\* come, when nobody named the architectures to publish.
KeptInv ==
  mode = "publishing" /\ opt.arches = {} =>
    ArchesOf(Root(opt.suite)) \ {"all"} \subseteq ArchesOf(Coming)

LEMMA CommitKept ==
  ASSUME AptInv, Commit
  PROVE  KeptInv'
<1> DEFINE rel == NewRelease
           w   == CommitSteps
<1>1. mode = "open" /\ store' = store /\ work' = w /\ opt' = opt /\ mode' = "publishing"
  BY DEF Commit, session
<1>2. /\ opt.suite \in Suites /\ rel.suite = opt.suite /\ rel.docs = Range(Documents)
      /\ TypedIndex(idx) /\ old = Root(opt.suite) /\ old.docs \subseteq Index(opt.suite)
  BY <1>1, AptOpened, OpenFacts, NewReleaseFacts
<1>3. Coming' = rel
  BY AptOpened, CommitComing DEF Commit
<1>4. ASSUME NEW a \in ArchesOf(old) \ {"all"}, opt.arches = {}
      PROVE  a \in ArchesOf(rel)
  <2>1. a \in Arches /\ a # "source" /\ a \in ArchesOf(old)
    BY <1>2 DEF ArchesOf, Index
  <2>2. a \in Architectures
    BY <1>4, <2>1 DEF Architectures
  <2>3. Document(a) \in rel.docs
    BY <1>2, <2>1, <2>2, DocumentsFacts DEF Documented
  <2>4. Document(a).arch = a
    BY DEF Document
  <2> HIDE DEF rel
  <2> QED BY <2>1, <2>3, <2>4 DEF ArchesOf
<1>5. Root(opt.suite)' = Root(opt.suite)
  BY <1>1 DEF Root, ReleaseIn
<1> HIDE DEF rel, w
<1> QED BY <1>1, <1>2, <1>3, <1>4, <1>5 DEF KeptInv

LEMMA RootElsewhere ==
  ASSUME AptInv, Finish \/ CutShort
  PROVE  \A s \in Suites : Root(s)' = Root(s)
<1>1. CASE store' = store
  BY <1>1 DEF Root, ReleaseIn
<1>2. CASE StopInCopy
  <2>1. PICK c \in work.copies : StorePut(c.to, Partial)
    BY <1>2 DEF StopInCopy
  <2>2. c \in Movable
    BY DEF AptInv, WorkInv, AptShape, Shape
  <2>3. c.to \notin Fronts
    BY <2>2, PlaceKinds DEF Movable
  <2>4. /\ DOMAIN store' = DOMAIN store \cup {c.to}
        /\ \A q \in DOMAIN store : q # c.to => store'[q] = store[q]
    BY <2>1, PutFacts
  <2>5. \A s \in Suites : \A q \in {Release(s), InRelease(s)} :
          (q \in DOMAIN store' <=> q \in DOMAIN store) /\ (q \in DOMAIN store => store'[q] = store[q])
    BY <2>3, <2>4 DEF Fronts
  <2> QED BY <2>5 DEF Root, ReleaseIn
<1> QED BY <1>1, <1>2 DEF Finish, CutShort, Stop

LEMMA StepKept ==
  ASSUME AptInv, KeptInv, [Next]_aptVars
  PROVE  /\ KeptInv'
         /\ mode = "publishing" /\ opt.arches = {} =>
              \A s \in Suites : ArchesOf(Root(s)) \ {"all"} \subseteq ArchesOf(Root(s)')
<1>1. CASE Open \/ Mutate \/ Abandon
  <2>1. mode # "publishing" /\ mode' # "publishing"
    BY <1>1 DEF Open, Mutate, Add, RemoveID, PruneOlderVersions, RelocateAll, Refresh, Call, Abandon, Forget
  <2> QED BY <2>1 DEF KeptInv
<1>2. CASE Commit
  <2>1. mode # "publishing"
    BY <1>2 DEF Commit
  <2> QED BY <1>2, <2>1, CommitKept
<1>3. CASE Finish \/ CutShort
  <2>1. mode' # "publishing" /\ \A s \in Suites : Root(s)' = Root(s)
    BY <1>3, RootElsewhere DEF Finish, CutShort, Forget
  <2> QED BY <2>1 DEF KeptInv
<1>4. CASE Publishing
  <2>1. mode = "publishing" /\ mode' = mode /\ opt' = opt
    BY <1>4 DEF Publishing, session
  <2>2. opt.suite \in Suites
    BY <2>1, ComingFacts
  <2>3. /\ Coming' = Coming
        /\ \A s \in Suites : Root(s)' = Root(s) \/ (s = opt.suite /\ Root(s)' = Coming)
    BY <1>4, StepFronts
  <2> QED BY <2>1, <2>2, <2>3 DEF KeptInv
<1>5. CASE UNCHANGED aptVars
  <2>1. mode' = mode /\ opt' = opt /\ Coming' = Coming /\ \A s : Root(s)' = Root(s)
    BY <1>5 DEF aptVars, session, Coming, Root, ReleaseIn
  <2> QED BY <2>1 DEF KeptInv
<1> QED BY <1>1, <1>2, <1>3, <1>4, <1>5 DEF Next

\* No step of a publish, finished or cut short, takes away an architecture that
\* clients of a suite may be subscribed to, unless the operator named those to
\* publish: for every set of packages and suites, and every repository found.
THEOREM AptArchitecturesKept ==
  Spec => ArchitecturesKept
<1>1. Init => KeptInv
  BY DEF Init, KeptInv
<1>2. AptInv /\ KeptInv /\ [Next]_aptVars =>
        /\ KeptInv'
        /\ [mode = "publishing" /\ opt.arches = {} =>
              \A s \in Suites : ArchesOf(Root(s)) \ {"all"} \subseteq ArchesOf(Root(s)')]_aptVars
  BY StepKept
<1> QED BY <1>1, <1>2, SpecInv, PTL DEF Spec, ArchitecturesKept

----------------------------------------------------------------------------
(* A refresh: every file that can be read has one entry, and keeps it.     *)

\* A move does not give a binary package another name.
NameKept(c) == \A e \in Entries : ~IsSource(e) /\ DOMAIN Files(e) = {c.from.base} => c.to.base = c.from.base

\* Binary packages are under their own names, and what is left to do puts no
\* other there.
NamesInv ==
  /\ \A p \in Places \cap DOMAIN store : OwnName(p, store[p])
  /\ \A p \in DOMAIN pending : OwnName(p, pending[p])
  /\ \A u \in work.uploads : OwnName(u.to, u.data)
  /\ \A c \in work.copies : NameKept(c)

LEMMA OwnFiles ==
  ASSUME NEW e \in Entries, NEW b \in DOMAIN Files(e), NEW p, p.base = b
  PROVE  OwnName(p, Files(e)[b])
<1>1. CASE IsSource(e)
  <2>1. Files(e)[b] \in Range(Files(e))
    BY DEF Range
  <2> QED BY <1>1, <2>1, FilesAssumption DEF OwnName
<1>2. CASE ~IsSource(e)
  BY <1>2, FilesAssumption DEF OwnName
<1> QED BY <1>1, <1>2

LEMMA CommitNames ==
  ASSUME AptInv, NamesInv, mode = "open"
  PROVE  /\ \A u \in CommitSteps.uploads : OwnName(u.to, u.data)
         /\ \A c \in CommitSteps.copies : NameKept(c)
<1> DEFINE s == PlanState
           plan == PlanFiles(store, s)
<1>1. CommitSteps.uploads = plan.uploads /\ CommitSteps.copies = plan.copies
  BY DEF CommitSteps
<1>2. \A u \in plan.uploads : OwnName(u.to, u.data)
  BY AptOpened, UploadFacts DEF NamesInv
<1>3. ASSUME NEW c \in plan.copies PROVE NameKept(c)
  <2>1. s.referenced = FileExpectations(idx) /\ s.original = original
    BY DEF PlanState
  <2>2. /\ c.to \in AllLocations(idx) /\ c = Relocation(s, c.to) /\ c.to \notin DOMAIN store
        /\ TypedIndex(idx) /\ Recorded(original)
    BY AptOpened, OpenFacts, MoveFacts
  <2> DEFINE id == s.referenced[c.to]
             O  == OrphansWith(s, id)
  <2>3. PICK x \in Owners(idx, c.to) : FileExpectations(idx)[c.to] = Files(x)[c.to.base]
    BY <2>2, RecordFacts
  <2>4. x \in Entries /\ c.to.base \in DOMAIN Files(x) /\ id = Files(x)[c.to.base]
    BY <2>1, <2>2, <2>3, IndexFacts DEF TypedIndex
  <2>5. c.from = First(O)
    BY <2>2 DEF Relocation, OrphanByID
  <2>6. O # {}
    <3>1. \E p \in StagedMoves(store, s) \cup Moves(store, s) : c = Relocation(s, p)
      BY DEF PlanFiles
    <3>2. PICK p \in StagedMoves(store, s) \cup Moves(store, s) : c = Relocation(s, p)
      BY <3>1
    <3>3. Relocatable(s, p) /\ c.to = p
      BY <3>2 DEF StagedMoves, Moves, Relocation
    <3> QED BY <3>3 DEF Relocatable
  <2>7. O \subseteq DOMAIN original /\ \A q \in O : original[q] = id
    BY <2>1 DEF OrphansWith, Orphans
  <2> HIDE DEF O, id
  <2>8. id \in Entries /\ O \in SUBSET PlacesOf(id)
    BY <2>2, <2>6, <2>7 DEF Recorded
  <2>9. c.from \in PlacesOf(id)
    BY <2>5, <2>6, <2>8, PackageAssumption
  <2>10. c.from.base \in DOMAIN Files(id)
    BY <2>9 DEF PlacesOf, Location
  <2>11. ASSUME NEW e \in Entries, ~IsSource(e), DOMAIN Files(e) = {c.from.base}
         PROVE  c.to.base = c.from.base
    <3>1. ~IsSource(id)
      BY <2>8, <2>10, <2>11, FilesAssumption
    <3>2. id \in Range(Files(x))
      BY <2>4 DEF Range
    <3>3. ~IsSource(x)
      BY <2>4, <2>8, <3>1, <3>2, FilesAssumption
    <3>4. id = x /\ DOMAIN Files(x) = {c.to.base}
      BY <2>4, <3>3, FilesAssumption
    <3> QED BY <2>10, <3>4
  <2> QED BY <2>11 DEF NameKept
<1> HIDE DEF plan, s
<1> QED BY <1>1, <1>2, <1>3

LEMMA NamesPut ==
  ASSUME NamesInv, NEW p, NEW c, StorePut(p, c), p \in Places => OwnName(p, c)
  PROVE  \A q \in Places \cap DOMAIN store' : OwnName(q, store'[q])
<1>1. /\ DOMAIN store' = DOMAIN store \cup {p} /\ store'[p] = c
      /\ \A q \in DOMAIN store : q # p => store'[q] = store[q]
  BY PutFacts
<1> SUFFICES ASSUME NEW q \in Places \cap DOMAIN store' PROVE OwnName(q, store'[q])
  OBVIOUS
<1>2. CASE q = p
  BY <1>1, <1>2
<1>3. CASE q # p
  BY <1>1, <1>3 DEF NamesInv
<1> QED BY <1>2, <1>3

LEMMA NamesKept ==
  ASSUME NamesInv, UNCHANGED <<store, work>>,
         pending' = pending \/ pending' = <<>>
  PROVE  NamesInv'
<1>1. \A p \in DOMAIN pending' : OwnName(p, pending'[p])
  BY NoneYet DEF NamesInv
<1> QED BY <1>1 DEF NamesInv

LEMMA AddNames ==
  ASSUME AptInv, NamesInv, NEW e \in Entries, Add(e)
  PROVE  NamesInv'
<1>1. store' = store /\ work' = work
  BY DEF Add, Call
<1>2. pending' = [p \in DOMAIN pending \cup LocationsOf(e, opt.dir) |->
                    IF p \in LocationsOf(e, opt.dir) THEN Files(e)[p.base] ELSE pending[p]]
  BY DEF Add
<1>3. \A p \in LocationsOf(e, opt.dir) : OwnName(p, Files(e)[p.base])
  BY LocationFacts, OwnFiles
<1>4. \A p \in DOMAIN pending' : OwnName(p, pending'[p])
  BY <1>2, <1>3 DEF NamesInv
<1> QED BY <1>1, <1>4 DEF NamesInv

LEMMA CutShortNames ==
  ASSUME AptInv, NamesInv, CutShort
  PROVE  NamesInv'
<1>1. work' = NoSteps /\ pending' = <<>>
  BY DEF CutShort, Stop, StopInCopy, Forget
<1>2. \A p \in Places \cap DOMAIN store' : OwnName(p, store'[p])
  <2>1. CASE StopInCopy
    <3>1. PICK c \in work.copies : StorePut(c.to, Partial)
      BY <2>1 DEF StopInCopy
    <3>2. OwnName(c.to, Partial)
      BY FilesAssumption DEF OwnName
    <3> QED BY <3>1, <3>2, NamesPut
  <2>2. CASE Stop
    BY <2>2 DEF Stop, NamesInv
  <2> QED BY <2>1, <2>2 DEF CutShort
<1>3. \A p \in DOMAIN pending' : OwnName(p, pending'[p])
  BY <1>1, NoneYet
<1> QED BY <1>1, <1>2, <1>3 DEF NamesInv, NoSteps

LEMMA SwappableFronts ==
  ASSUME NEW s \in Suites, NEW f \in Swappable(s)
  PROVE  f.to \in Fronts
<1>1. PICK rel \in ReleasesOf(s) : f = ReleaseFile(rel) \/ f = DetachedFile(rel) \/ f = InlineFile(rel)
  BY DEF Swappable
<1>2. rel.suite = s
  BY ReleasesDef, <1>1, ReleaseFields
<1> QED BY <1>1, <1>2 DEF ReleaseFile, DetachedFile, InlineFile, Fronts

LEMMA PublishingNames ==
  ASSUME AptInv, NamesInv, Publishing
  PROVE  NamesInv'
<1>1. Step /\ pending' = pending
  BY DEF Publishing, session
<1>2. work \in Shape(Movable, Uploadable, Describable, Swappable(opt.suite),
                     {InRelease(opt.suite), ReleaseGPG(opt.suite)}, Doomed)
      /\ opt.suite \in Suites
  BY DEF AptInv, WorkInv, AptShape, SessionInv, Options, Publishing
<1>3. work'.copies \subseteq work.copies /\ work'.uploads \subseteq work.uploads
  <2>1. CASE WriteMetadata \/ SwapOne \/ RetractOne \/ CollectOne
    <3>1. work'.uploads = work.uploads /\ work'.copies = work.copies
      BY <1>2, <2>1 DEF WriteMetadata, SwapOne, RetractOne, CollectOne, Shape
    <3> QED BY <3>1
  <2> QED BY <1>1, <1>2, <2>1, CopyOneFields, UploadOneFields DEF Step
<1>4. \A q \in Places \cap DOMAIN store' : OwnName(q, store'[q])
  <2>1. CASE CopyOne
    <3>1. PICK c \in work.copies :
            c \in Movable /\ c.from \in DOMAIN store /\ StorePut(c.to, store[c.from])
      BY <1>2, <2>1, CopyOneFields
    <3>2. OwnName(c.from, store[c.from]) /\ NameKept(c)
      BY <3>1 DEF NamesInv, Movable
    <3>3. OwnName(c.to, store[c.from])
      BY <3>2 DEF OwnName, NameKept
    <3> QED BY <3>1, <3>3, NamesPut
  <2>2. CASE UploadOne
    <3>1. PICK u \in work.uploads : StorePut(u.to, u.data)
      BY <1>2, <2>2, UploadOneFields
    <3> QED BY <3>1, NamesPut DEF NamesInv
  <2>3. CASE WriteMetadata
    <3> DEFINE u == Head(work.metadata)
    <3>1. u \in Describable /\ StorePut(u.to, u.data)
      BY <1>2, <2>3, WriteMetadataFields
    <3> HIDE DEF u
    <3> QED BY <3>1, DescribableFacts, NamesPut
  <2>4. CASE SwapOne
    <3> DEFINE f == Head(work.swap)
    <3>1. f \in Swappable(opt.suite) /\ StorePut(f.to, f.data)
      BY <1>2, <2>4, SwapOneFields
    <3> HIDE DEF f
    <3>2. f.to \in Fronts
      BY <1>2, <3>1, SwappableFronts
    <3> QED BY <3>1, <3>2, PlaceKinds, NamesPut
  <2>5. CASE RetractOne \/ CollectOne
    <3>1. store' = store \/ \E p : StoreDelete(p)
      BY <1>2, <2>5, RetractOneFields, CollectOneFields
    <3>2. DOMAIN store' \subseteq DOMAIN store /\ \A q \in DOMAIN store' : store'[q] = store[q]
      BY <3>1, DeleteFacts
    <3> QED BY <3>2 DEF NamesInv
  <2> QED BY <1>1, <2>1, <2>2, <2>3, <2>4, <2>5 DEF Step
<1> QED BY <1>1, <1>3, <1>4 DEF NamesInv

LEMMA NamesStep ==
  /\ Init => NamesInv
  /\ AptInv /\ NamesInv /\ [Next]_aptVars => NamesInv'
<1>1. ASSUME Init PROVE NamesInv
  <2>1. \A p \in DOMAIN pending : OwnName(p, pending[p])
    BY <1>1, NoneYet DEF Init
  <2> QED BY <1>1, <2>1, UseAssumption DEF Init, NamesInv, NoSteps
<1>2. ASSUME AptInv, NamesInv, [Next]_aptVars PROVE NamesInv'
  <2>1. CASE Open \/ Abandon \/ Finish \/ UNCHANGED aptVars
    <3>1. UNCHANGED <<store, work>> /\ (pending' = pending \/ pending' = <<>>)
      BY <2>1 DEF Open, Abandon, Finish, Forget, aptVars, session
    <3> QED BY <1>2, <3>1, NamesKept
  <2>2. CASE (\E e \in Entries : RemoveID(e)) \/ PruneOlderVersions \/ RelocateAll \/ Refresh
    <3>1. UNCHANGED <<store, work, pending>>
      BY <2>2 DEF RemoveID, PruneOlderVersions, RelocateAll, Refresh, Call
    <3> QED BY <1>2, <3>1, NamesKept
  <2>3. CASE Commit
    <3>1. mode = "open" /\ store' = store /\ work' = CommitSteps /\ pending' = pending
      BY <2>3 DEF Commit, session
    <3> QED BY <1>2, <3>1, CommitNames DEF NamesInv
  <2> QED BY <1>2, <2>1, <2>2, <2>3, AddNames, CutShortNames, PublishingNames DEF Next, Mutate
<1> QED BY <1>1, <1>2

\* What is read again, where no entry turns up in another's place: each file is
\* of one package, which its location knows.
LEMMA RereadFacts ==
  ASSUME AptInv, NamesInv, ~Displaced
  PROVE  /\ \A p \in Rereadable :
              /\ p \in AllLocations(idx) /\ p = Location(p.dir, p.base)
              /\ store[p] \in Entries /\ ~IsSource(store[p]) /\ DOMAIN Files(store[p]) = {p.base}
              /\ store[p] \in DOMAIN idx => idx[store[p]] = p.dir
         /\ \A p, q \in Rereadable : store[p] = store[q] => p = q
<1>1. TypedIndex(idx)
  BY DEF AptInv, SessionTyped
<1>2. ASSUME NEW p \in Rereadable
      PROVE  /\ p \in AllLocations(idx) /\ p = Location(p.dir, p.base)
             /\ store[p] \in Entries /\ ~IsSource(store[p]) /\ DOMAIN Files(store[p]) = {p.base}
             /\ store[p] \in DOMAIN idx => idx[store[p]] = p.dir
  <2>1. p \in AllLocations(idx) /\ p \in Places /\ p \in DOMAIN store /\ store[p] \in Entries
        /\ ~IsSource(store[p])
    BY <1>1, RereadableFacts
  <2>2. p \in BinaryLocations /\ Readable(p)
    BY DEF Rereadable
  <2>3. p = Location(p.dir, p.base)
    BY <2>1 DEF Places, PlacesOf, Location
  <2>4. DOMAIN Files(store[p]) = {p.base}
    BY <2>1 DEF NamesInv, OwnName
  <2> QED BY <2>1, <2>2, <2>3, <2>4 DEF Displaced
<1>3. ASSUME NEW p \in Rereadable, NEW q \in Rereadable, store[p] = store[q] PROVE p = q
  BY <1>3 DEF Rereadable, Conflicts
<1> QED BY <1>2, <1>3

\* Who goes: an entry of a location that is read again and is of another package.
LEMMA RefreshedFacts ==
  ASSUME AptInv, NamesInv, ~Displaced
  PROVE  /\ \A p \in Rereadable : store[p] \in DOMAIN Refreshed /\ Refreshed[store[p]] = p.dir
         /\ \A x \in DOMAIN Refreshed : (\A p \in Rereadable : store[p] # x) =>
              x \in DOMAIN idx /\ Refreshed[x] = idx[x]
         /\ \A x \in DOMAIN idx : \/ x \in DOMAIN Refreshed
                                  \/ \E p \in Rereadable : x \in BinariesAt(p)
         /\ \A x \in DOMAIN Refreshed, p \in Rereadable : x \in BinariesAt(p) => x = store[p]
<1>1. /\ \A p \in Rereadable :
           /\ p = Location(p.dir, p.base) /\ DOMAIN Files(store[p]) = {p.base}
           /\ store[p] \in DOMAIN idx => idx[store[p]] = p.dir
      /\ \A p, q \in Rereadable : store[p] = store[q] => p = q
  BY RereadFacts
<1>2. ASSUME NEW p \in Rereadable, NEW q \in Rereadable, store[q] \in BinariesAt(p) PROVE q = p
  <2>1. store[q] \in DOMAIN idx /\ p.dir = idx[store[q]] /\ p.base \in DOMAIN Files(store[q])
    BY <1>2 DEF BinariesAt, Owners
  <2> QED BY <1>1, <2>1
<1>3. ASSUME NEW p \in Rereadable PROVE ~Removed(store[p])
  <2> SUFFICES ASSUME NEW q \in Rereadable, store[p] \in BinariesAt(q),
                      \A r \in Rereadable : store[r] = store[p] => r # q
               PROVE  FALSE
    BY DEF Removed
  <2>1. p = q
    BY <1>2
  <2> QED BY <2>1
<1>4. ASSUME NEW x, NEW p \in Rereadable, x \in BinariesAt(p), x # store[p] PROVE Removed(x)
  <2>1. \A q \in Rereadable : store[q] # x
    BY <1>2, <1>4
  <2> QED BY <1>4, <2>1 DEF Removed
<1>5. DOMAIN Refreshed = {e \in DOMAIN idx \cup {store[p] : p \in Rereadable} : ~Removed(e)}
  BY DEF Refreshed
<1>6. \A x \in DOMAIN Refreshed :
        Refreshed[x] = IF \E p \in Rereadable : store[p] = x
                       THEN (CHOOSE p \in Rereadable : store[p] = x).dir
                       ELSE idx[x]
  BY DEF Refreshed
<1>7. ASSUME NEW p \in Rereadable
      PROVE  store[p] \in DOMAIN Refreshed /\ Refreshed[store[p]] = p.dir
  <2>1. store[p] \in DOMAIN Refreshed
    BY <1>3, <1>5
  <2>2. (CHOOSE q \in Rereadable : store[q] = store[p]) = p
    BY <1>1
  <2> QED BY <1>6, <2>1, <2>2
<1>8. ASSUME NEW x \in DOMAIN idx, x \notin DOMAIN Refreshed
      PROVE  \E p \in Rereadable : x \in BinariesAt(p)
  <2>1. Removed(x)
    BY <1>5, <1>8
  <2> QED BY <2>1 DEF Removed
<1>9. ASSUME NEW x \in DOMAIN Refreshed, \A p \in Rereadable : store[p] # x
      PROVE  x \in DOMAIN idx /\ Refreshed[x] = idx[x]
  BY <1>5, <1>6, <1>9
<1> QED BY <1>4, <1>5, <1>7, <1>8, <1>9

LEMMA RefreshIsTrue ==
  ASSUME AptInv, NamesInv, ~Displaced
  PROVE  /\ AllLocations(Refreshed) = AllLocations(idx)
         /\ \A p \in Rereadable : {e \in Owners(Refreshed, p) : ~IsSource(e)} = {store[p]}
<1> DEFINE ix == Refreshed
<1>1. /\ \A p \in Rereadable :
           /\ p \in AllLocations(idx) /\ p = Location(p.dir, p.base)
           /\ ~IsSource(store[p]) /\ DOMAIN Files(store[p]) = {p.base}
           /\ store[p] \in DOMAIN idx => idx[store[p]] = p.dir
  BY RereadFacts
<1>2. TypedIndex(idx)
  BY DEF AptInv, SessionTyped
<1>3. /\ \A p \in Rereadable : store[p] \in DOMAIN ix /\ ix[store[p]] = p.dir
      /\ \A x \in DOMAIN ix : (\A p \in Rereadable : store[p] # x) =>
           x \in DOMAIN idx /\ ix[x] = idx[x]
      /\ \A x \in DOMAIN idx : x \in DOMAIN ix \/ \E p \in Rereadable : x \in BinariesAt(p)
      /\ \A x \in DOMAIN ix, p \in Rereadable : x \in BinariesAt(p) => x = store[p]
  BY RefreshedFacts
<1> HIDE DEF ix
<1>4. ASSUME NEW p \in Rereadable PROVE p \in LocationsOf(store[p], ix[store[p]])
  <2>1. Location(p.dir, p.base) \in LocationsOf(store[p], p.dir)
    BY <1>1, LocationFacts
  <2> QED BY <1>1, <1>3, <2>1
<1>5. ASSUME NEW l \in AllLocations(ix) PROVE l \in AllLocations(idx)
  <2>1. PICK x \in DOMAIN ix : l \in LocationsOf(x, ix[x])
    BY DEF AllLocations
  <2>2. CASE \E p \in Rereadable : store[p] = x
    <3>1. PICK p \in Rereadable : store[p] = x
      BY <2>2
    <3>2. l = Location(ix[x], l.base) /\ l.base \in DOMAIN Files(x)
      BY <2>1, LocationFacts
    <3>3. ix[x] = p.dir /\ DOMAIN Files(x) = {p.base} /\ p = Location(p.dir, p.base)
      BY <1>1, <1>3, <3>1
    <3> QED BY <1>1, <3>2, <3>3
  <2>3. CASE \A p \in Rereadable : store[p] # x
    BY <1>3, <2>1, <2>3 DEF AllLocations
  <2> QED BY <2>2, <2>3
<1>6. ASSUME NEW l \in AllLocations(idx) PROVE l \in AllLocations(ix)
  <2>1. PICK x \in DOMAIN idx : l \in LocationsOf(x, idx[x])
    BY DEF AllLocations
  <2>2. CASE x \in DOMAIN ix
    <3>1. ix[x] = idx[x]
      <4>1. ASSUME NEW p \in Rereadable, store[p] = x PROVE ix[x] = idx[x]
        <5>1. ix[store[p]] = p.dir /\ idx[store[p]] = p.dir
          BY <1>1, <1>3, <4>1
        <5> QED BY <4>1, <5>1
      <4>2. CASE \A p \in Rereadable : store[p] # x
        BY <1>3, <2>2, <4>2
      <4> QED BY <4>1, <4>2
    <3> QED BY <2>1, <2>2, <3>1 DEF AllLocations
  <2>3. CASE x \notin DOMAIN ix
    <3>1. PICK p \in Rereadable : x \in BinariesAt(p)
      BY <1>3, <2>3
    <3>2. p.dir = idx[x] /\ p.base \in DOMAIN Files(x) /\ ~IsSource(x) /\ x \in Entries
      BY <1>2, <3>1 DEF BinariesAt, Owners, TypedIndex
    <3>3. DOMAIN Files(x) = {p.base}
      BY <3>2, FilesAssumption
    <3>4. l = p
      BY <1>1, <2>1, <3>2, <3>3, LocationFacts
    <3> QED BY <1>3, <1>4, <3>4 DEF AllLocations
  <2> QED BY <2>2, <2>3
<1>7. ASSUME NEW p \in Rereadable, NEW e PROVE e \in Owners(ix, p) /\ ~IsSource(e) <=> e = store[p]
  <2>1. store[p] \in Owners(ix, p) /\ ~IsSource(store[p])
    BY <1>1, <1>3 DEF Owners
  <2>2. ASSUME e \in Owners(ix, p), ~IsSource(e) PROVE e = store[p]
    <3>1. e \in DOMAIN ix /\ p.dir = ix[e] /\ p.base \in DOMAIN Files(e)
      BY <2>2 DEF Owners
    <3>2. CASE \E q \in Rereadable : store[q] = e
      <4>1. PICK q \in Rereadable : store[q] = e
        BY <3>2
      <4>2. p.dir = q.dir /\ p.base = q.base
        BY <1>1, <1>3, <3>1, <4>1
      <4> QED BY <1>1, <4>1, <4>2
    <3>3. CASE \A q \in Rereadable : store[q] # e
      <4>1. e \in BinariesAt(p)
        BY <1>3, <2>2, <3>1, <3>3 DEF BinariesAt, Owners
      <4> QED BY <1>3, <3>1, <4>1
    <3> QED BY <3>2, <3>3
  <2> QED BY <2>1, <2>2
<1> QED BY <1>5, <1>6, <1>7 DEF ix

\* A refresh keeps every location published, and leaves the package that is at
\* each it can read alone there, unless packages have changed places: for every
\* repository whose binary packages are under their own names, and whatever was
\* cut short before.
THEOREM AptRefreshTrue ==
  Spec => RefreshTrue
<1>1. AptInv /\ NamesInv /\ [Next]_aptVars =>
        [Refresh => \/ Displaced
                    \/ /\ AllLocations(idx') = AllLocations(idx)
                       /\ \A p \in BinaryLocations \ Conflicts : Readable(p) =>
                            {e \in Owners(idx', p) : ~IsSource(e)} = {store[p]}]_aptVars
  <2> SUFFICES ASSUME AptInv, NamesInv, Refresh, ~Displaced
               PROVE  /\ AllLocations(idx') = AllLocations(idx)
                      /\ \A p \in BinaryLocations \ Conflicts : Readable(p) =>
                           {e \in Owners(idx', p) : ~IsSource(e)} = {store[p]}
    OBVIOUS
  <2>1. idx' = Refreshed
    BY DEF Refresh
  <2>2. \A p \in BinaryLocations \ Conflicts : Readable(p) => p \in Rereadable
    BY DEF Rereadable
  <2> QED BY <2>1, <2>2, RefreshIsTrue
<1> QED BY <1>1, NamesStep, SpecInv, PTL DEF Spec, RefreshTrue

----------------------------------------------------------------------------
(* Packages are moved: the plan finds where each was.                      *)

\* Until something is added, the index holds entries that were loaded, each where
\* it was or each where RelocateAll put it.
MovedInv ==
  mode = "open" /\ "refresh" \notin use.calls /\ pending = <<>> =>
    /\ DOMAIN idx \subseteq DOMAIN Ingested(old)
    /\ \/ \A e \in DOMAIN idx : idx[e] = Ingested(old)[e]
       \/ \A e \in DOMAIN idx : idx[e] = opt.dir

LEMMA MovedStep ==
  /\ Init => MovedInv
  /\ AptInv /\ MovedInv /\ [Next]_aptVars => MovedInv'
<1>1. ASSUME Init PROVE MovedInv
  BY <1>1 DEF Init, MovedInv
<1>2. ASSUME AptInv, MovedInv, [Next]_aptVars PROVE MovedInv'
  <2>1. CASE Commit \/ Abandon \/ Publishing \/ Finish \/ CutShort
    <3>1. mode' # "open"
      BY <2>1 DEF Commit, Abandon, Publishing, Finish, CutShort, Forget
    <3> QED BY <3>1 DEF MovedInv
  <2>2. CASE Open
    <3>1. old' = Root(opt'.suite) /\ idx' = Ingested(old')
      BY <2>2 DEF Open
    <3> QED BY <3>1 DEF MovedInv
  <2>3. ASSUME NEW e \in Entries, Add(e) PROVE MovedInv'
    <3>1. DOMAIN pending' = DOMAIN pending \cup LocationsOf(e, opt.dir)
      BY <2>3 DEF Add
    <3>2. PICK b \in DOMAIN Files(e) : TRUE
      BY FilesAssumption
    <3>3. Location(opt.dir, b) \in DOMAIN pending'
      BY <3>1, <3>2, LocationFacts
    <3>4. pending' # <<>>
      BY <3>3, NoneYet
    <3> QED BY <3>4 DEF MovedInv
  <2>4. CASE (\E e \in Entries : RemoveID(e)) \/ PruneOlderVersions
    <3>1. PICK name, E : Call(name) /\ idx' = Without(idx, E) /\ UNCHANGED pending
      BY <2>4 DEF RemoveID, PruneOlderVersions
    <3>2. /\ DOMAIN idx' \subseteq DOMAIN idx /\ \A e \in DOMAIN idx' : idx'[e] = idx[e]
          /\ mode = "open" /\ UNCHANGED <<old, opt, use, pending>>
      BY <3>1 DEF Without, Call
    <3> QED BY <1>2, <3>2 DEF MovedInv
  <2>5. CASE RelocateAll
    <3>1. /\ DOMAIN idx' = DOMAIN idx /\ \A e \in DOMAIN idx' : idx'[e] = opt.dir
          /\ mode = "open" /\ UNCHANGED <<old, opt, use, pending>>
      BY <2>5 DEF RelocateAll, Call
    <3> QED BY <1>2, <3>1 DEF MovedInv
  <2>6. CASE Refresh
    <3>1. "refresh" \in use'.calls
      BY <2>6 DEF Refresh, Call
    <3> QED BY <3>1 DEF MovedInv
  <2>7. CASE UNCHANGED aptVars
    <3>1. UNCHANGED <<mode, idx, old, opt, use, pending>>
      BY <2>7 DEF aptVars, session
    <3> QED BY <1>2, <3>1 DEF MovedInv
  <2> QED BY <1>2, <2>1, <2>2, <2>3, <2>4, <2>5, <2>6, <2>7 DEF Next, Mutate
<1> QED BY <1>1, <1>2

LEMMA MovesFound ==
  ASSUME AptInv, MovedInv
  PROVE  RelocationPlaced
<1> DEFINE s   == PlanState
           was == Ingested(old)
<1> SUFFICES ASSUME mode = "open", CanCopy, "refresh" \notin use.calls, pending = <<>>, ~Clash,
                    NEW p \in Unplaceable(store, s), \A e \in Owners(idx, p) : ~IsSource(e)
             PROVE  FALSE
  BY DEF RelocationPlaced
<1>1. /\ s.referenced = FileExpectations(idx) /\ s.original = Locations(was)
      /\ TypedIndex(idx) /\ TypedIndex(was)
  <2>1. original = Locations(was) /\ TypedIndex(idx) /\ opt.suite \in Suites
        /\ (old = NoRelease \/ IsRelease(opt.suite, old))
    BY AptOpened, OpenFacts
  <2> QED BY <2>1, IngestedFacts DEF PlanState
<1>2. /\ DOMAIN idx \subseteq DOMAIN was
      /\ \/ \A e \in DOMAIN idx : idx[e] = was[e]
         \/ \A e \in DOMAIN idx : idx[e] = opt.dir
  BY DEF MovedInv
<1> HIDE DEF s, was
<1>3. /\ DOMAIN s.referenced = AllLocations(idx) /\ DOMAIN s.original = AllLocations(was)
  BY <1>1, RecordFacts
<1>4. /\ p \in AllLocations(idx) /\ p \notin AllLocations(was)
      /\ OrphansWith(s, s.referenced[p]) = {}
  BY <1>3 DEF Unplaceable, Unstaged, Relocatable
<1>5. PICK e \in Owners(idx, p) : s.referenced[p] = Files(e)[p.base]
  BY <1>1, <1>4, RecordFacts
<1>6. e \in DOMAIN idx /\ e \in Entries /\ p = Location(idx[e], p.base) /\ p.base \in DOMAIN Files(e)
  BY <1>1, <1>4, IndexFacts DEF TypedIndex
<1>7. s.referenced[p] = e
  BY <1>5, <1>6, FilesAssumption
<1> DEFINE l == Location(was[e], p.base)
<1>8. l \in AllLocations(was) /\ e \in DOMAIN was
  BY <1>1, <1>2, <1>6, IndexFacts
<1>9. s.original[l] = e
  <2>1. PICK x \in Owners(was, l) : s.original[l] = x
    BY <1>1, <1>8, RecordFacts
  <2>2. x \in DOMAIN was /\ l = Location(was[x], l.base) /\ l.base \in DOMAIN Files(x)
    BY <1>1, <1>8, IndexFacts
  <2>3. l \in LocationsOf(x, was[x]) /\ l \in LocationsOf(e, was[e])
    BY <1>6, <2>2, LocationFacts
  <2> QED BY <1>8, <2>1, <2>2, <2>3 DEF Clash, was
<1>10. l \notin AllLocations(idx)
  <2>1. ASSUME \A x \in DOMAIN idx : idx[x] = was[x] PROVE FALSE
    BY <1>4, <1>6, <1>8, <2>1
  <2>2. ASSUME \A x \in DOMAIN idx : idx[x] = opt.dir, l \in AllLocations(idx) PROVE FALSE
    <3>1. PICK x \in DOMAIN idx : l \in LocationsOf(x, idx[x])
      BY <2>2 DEF AllLocations
    <3>2. l.dir = opt.dir /\ p = Location(opt.dir, p.base)
      BY <1>6, <2>2, <3>1, LocationFacts
    <3>3. l.dir = was[e]
      BY DEF Location
    <3>4. l = p
      BY <3>2, <3>3
    <3> QED BY <1>4, <1>8, <3>4
  <2> QED BY <1>2, <2>1, <2>2
<1> QED BY <1>3, <1>4, <1>7, <1>8, <1>9, <1>10 DEF OrphansWith, Orphans

\* On a backend that copies, moving what was loaded is never refused for the sake
\* of a binary package: for every repository whose indexes name each file once.
THEOREM AptRelocationPlaced ==
  Spec => []RelocationPlaced
BY MovedStep, MovesFound, SpecInv, PTL DEF Spec

----------------------------------------------------------------------------
(* A publish leaves nothing behind.                                        *)

\* What a publish may leave: what the Release to come accounts for, and what is
\* published in vain.
Expected == Accounted(Coming) \cup InVain

\* What was loaded and is not expected will be collected; so will all else there
\* is in the pool and in the suite, if that was asked for.
TidyInv ==
  /\ stops \in Nat
  /\ \A s \in Suites : DOMAIN Root(s).pool = AllLocations(Ingested(Root(s)))
  /\ mode = "publishing" =>
       /\ DOMAIN Coming.pool = AllLocations(Ingested(Coming))
       /\ \A c \in work.copies : c.to \in AllLocations(idx)
       /\ \A u \in work.uploads : u.to \in DOMAIN pending
       /\ \A u \in Range(work.metadata) : u.to \in MetadataPaths(Coming.docs, Coming.byHash)
       /\ Accounted(Root(opt.suite)) \subseteq Expected \cup Doomed
       /\ opt.unreferenced /\ opt.stale =>
            \A p \in DOMAIN store : IsPool(p) \/ IsSuite(p, opt.suite) =>
              p \in Fronts \cup Expected \cup Doomed

\* A Release accounts for the files of the entries that are loaded from it.
LEMMA NewReleaseAccounts ==
  ASSUME AptInv, mode = "open"
  PROVE  DOMAIN NewRelease.pool = AllLocations(Ingested(NewRelease))
<1> DEFINE S   == UNION {d.of : d \in Range(Documents)}
           ing == Ingested(NewRelease)
<1>1. NewRelease.docs = Range(Documents) /\ NewRelease.pool = PoolNeeds(S)
  BY DEF NewRelease
<1>2. TypedIndex(idx)
  BY AptOpened, OpenFacts
<1>3. \A x \in S : x.dir = idx[x.entry]
  BY <1>2, DocumentsFacts
<1>4. DOMAIN PoolNeeds(S) = UNION {LocationsOf(x.entry, x.dir) : x \in S}
  BY DEF PoolNeeds
<1>5. /\ DOMAIN ing = {x.entry : x \in S}
      /\ \A e \in {x.entry : x \in S} : ing[e] = (CHOOSE x \in S : x.entry = e).dir
  BY <1>1 DEF Ingested
<1> HIDE DEF S, ing
<1>6. ASSUME NEW x \in S PROVE x.entry \in DOMAIN ing /\ ing[x.entry] = x.dir
  <2> DEFINE y == CHOOSE z \in S : z.entry = x.entry
  <2>1. y \in S /\ y.entry = x.entry
    OBVIOUS
  <2> HIDE DEF y
  <2>2. x.entry \in {z.entry : z \in S}
    OBVIOUS
  <2>3. ing[x.entry] = y.dir
    BY <1>5, <2>2 DEF y
  <2>4. y.dir = idx[x.entry] /\ x.dir = idx[x.entry]
    BY <1>3, <2>1
  <2> QED BY <1>5, <2>2, <2>3, <2>4
<1>7. UNION {LocationsOf(x.entry, x.dir) : x \in S} = AllLocations(ing)
  <2>1. ASSUME NEW x \in S PROVE LocationsOf(x.entry, x.dir) \subseteq AllLocations(ing)
    BY <1>6 DEF AllLocations
  <2>2. ASSUME NEW e \in DOMAIN ing
        PROVE  LocationsOf(e, ing[e]) \subseteq UNION {LocationsOf(x.entry, x.dir) : x \in S}
    <3>1. PICK x \in S : x.entry = e
      BY <1>5
    <3>2. ing[e] = x.dir
      BY <1>6, <3>1
    <3> QED BY <3>1, <3>2
  <2> QED BY <2>1, <2>2 DEF AllLocations
<1> QED BY <1>1, <1>4, <1>7 DEF ing

\* What is collected are the files of the loaded Release that the index has no
\* longer, and of the rest what was asked for.
LEMMA GroupFacts ==
  ASSUME AptInv, mode = "open"
  PROVE  LET G == UNION Range(CommitSteps.gc) IN
         /\ DOMAIN original \subseteq AllLocations(idx) \cup G
         /\ MetadataPaths(old.docs, old.byHash) \subseteq NewPaths \cup G
         /\ opt.unreferenced => \A p \in DOMAIN store : IsPool(p) => p \in AllLocations(idx) \cup G
         /\ opt.stale => \A p \in DOMAIN store : IsSuite(p, opt.suite) => p \in Fronts \cup NewPaths \cup G
<1> DEFINE plan == PlanFiles(store, PlanState)
           G    == UNION Range(CommitSteps.gc)
<1>1. plan.deleted = DOMAIN original \ AllLocations(idx)
  BY AptOpened, OpenFacts, RecordFacts DEF PlanFiles, Orphans, PlanState
<1> HIDE DEF plan
<1>2. CommitSteps.gc = <<ObsoleteMeta, plan.deleted, UnreferencedFiles(plan.deleted), StaleMetadata>>
  BY DEF CommitSteps, plan
<1>3. \A a, b, c, d : Range(<<a, b, c, d>>) = {a, b, c, d}
  BY DEF Range
<1>4. G = ObsoleteMeta \cup plan.deleted \cup UnreferencedFiles(plan.deleted) \cup StaleMetadata
  BY <1>2, <1>3
<1> HIDE DEF G
<1>5. MetadataPaths(old.docs, old.byHash) \subseteq NewPaths \cup G
  BY <1>4 DEF MetadataPaths, ObsoleteMeta
<1>6. opt.unreferenced => \A p \in DOMAIN store : IsPool(p) => p \in AllLocations(idx) \cup G
  BY <1>4 DEF UnreferencedFiles, Unreferenced
<1>7. opt.suite \in Suites
  BY AptOpened, OpenFacts
<1>8. opt.stale => \A p \in DOMAIN store : IsSuite(p, opt.suite) => p \in Fronts \cup NewPaths \cup G
  BY <1>4, <1>7 DEF StaleMetadata, Unreferenced, Fronts
<1> QED BY <1>1, <1>4, <1>5, <1>6, <1>8 DEF G

LEMMA CommitTidy ==
  ASSUME AptInv, TidyInv, Commit
  PROVE  TidyInv' /\ Adrift' \subseteq Adrift
<1> DEFINE rel == NewRelease
           w   == CommitSteps
           G   == UNION Range(w.gc)
<1>1. /\ mode = "open" /\ mode' = "publishing" /\ store' = store /\ work' = w /\ opt' = opt
      /\ idx' = idx /\ pending' = pending /\ stops' = stops
  BY DEF Commit, session
<1>2. /\ opt.suite \in Suites /\ TypedIndex(idx) /\ old = Root(opt.suite)
      /\ original = Locations(Ingested(old))
      /\ (old = NoRelease \/ IsRelease(opt.suite, old))
      /\ rel.docs = Range(Documents) /\ rel.byHash = opt.byHash
  BY <1>1, AptOpened, OpenFacts, NewReleaseFacts
<1>3. Coming' = rel /\ DOMAIN rel.pool = AllLocations(Ingested(rel))
  BY <1>1, AptOpened, CommitComing, NewReleaseAccounts
<1>4. NewPaths = MetadataPaths(rel.docs, rel.byHash)
  BY <1>2 DEF NewPaths
<1>5. Doomed' = G /\ Doomed = {}
  BY <1>1, IdleWork DEF Doomed, AptInv, WorkInv
<1>6. \A s : Root(s)' = Root(s)
  BY <1>1 DEF Root, ReleaseIn
<1>7. /\ \A c \in w.copies : c.to \in AllLocations(idx)
      /\ \A u \in w.uploads : u.to \in DOMAIN pending
  BY <1>1, AptOpened, MoveFacts, UploadFacts DEF CommitSteps
<1>8. \A u \in Range(w.metadata) : u.to \in NewPaths
  <2>1. Documents \in Seq(Index(opt.suite)) /\ w.metadata = MetadataFiles(Documents)
    BY <1>2, DocumentsFacts DEF CommitSteps
  <2>2. Range(w.metadata) = {PlainFile(d) : d \in Range(Documents)} \cup
              (IF opt.byHash THEN {IndexFile(d) : d \in Range(Documents)} ELSE {})
    BY <1>2, <2>1, MetadataFacts
  <2> HIDE DEF w
  <2> QED BY <2>2 DEF NewPaths, MetadataPaths, PlainFile, IndexFile
<1>9. /\ DOMAIN original \subseteq AllLocations(idx) \cup G
      /\ MetadataPaths(old.docs, old.byHash) \subseteq NewPaths \cup G
      /\ opt.unreferenced => \A p \in DOMAIN store : IsPool(p) => p \in AllLocations(idx) \cup G
      /\ opt.stale => \A p \in DOMAIN store : IsSuite(p, opt.suite) => p \in Fronts \cup NewPaths \cup G
  BY <1>1, GroupFacts
<1>10. DOMAIN old.pool = DOMAIN original
  <2>1. TypedIndex(Ingested(old))
    BY <1>2, IngestedFacts
  <2>2. DOMAIN original = AllLocations(Ingested(old))
    BY <1>2, <2>1, RecordFacts
  <2> QED BY <1>2, <2>2 DEF TidyInv
<1> HIDE DEF rel, w, G
<1>11. Expected' = DOMAIN rel.pool \cup NewPaths \cup DOMAIN pending \cup AllLocations(idx)
  BY <1>1, <1>3, <1>4 DEF Expected, Accounted, InVain
<1>12. Accounted(Root(opt.suite)) \subseteq Expected' \cup G
  BY <1>2, <1>9, <1>10, <1>11 DEF Accounted
<1>13. opt.unreferenced /\ opt.stale =>
         \A p \in DOMAIN store : IsPool(p) \/ IsSuite(p, opt.suite) => p \in Fronts \cup Expected' \cup G
  BY <1>9, <1>11
<1>14. TidyInv'
  <2>1. stops' \in Nat /\ \A s \in Suites : DOMAIN Root(s)'.pool = AllLocations(Ingested(Root(s)'))
    BY <1>1, <1>6 DEF TidyInv
  <2> QED BY <1>1, <1>2, <1>3, <1>4, <1>5, <1>6, <1>7, <1>8, <1>12, <1>13, <2>1 DEF TidyInv
<1>15. Adrift' \subseteq Adrift
  <2>1. Leftovers' = Leftovers
    BY <1>1, <1>6 DEF Leftovers, Named
  <2>2. Adrift = Leftovers
    BY <1>1, <1>5 DEF Adrift, Awaited
  <2> QED BY <2>1, <2>2 DEF Adrift
<1> QED BY <1>14, <1>15

\* One step of a publish: what it adds was expected, and what is to be collected
\* no longer is gone.
LEMMA StepTidy ==
  ASSUME AptFiles, AptInv, TidyInv, Publishing,
         work'.copies \subseteq work.copies, work'.uploads \subseteq work.uploads,
         Range(work'.metadata) \subseteq Range(work.metadata),
         \A p \in DOMAIN store' : p \in DOMAIN store \/ p \in Fronts \cup Expected,
         \A p \in Doomed \cap DOMAIN store' : p \in Doomed',
         Doomed' = Doomed \/ Root(opt.suite)' = Coming
  PROVE  TidyInv' /\ Adrift' \subseteq Adrift \cup InVain'
<1>1. /\ mode = "publishing" /\ mode' = "publishing" /\ opt' = opt /\ idx' = idx /\ pending' = pending
      /\ stops' = stops
  BY DEF Publishing, session
<1>2. opt.suite \in Suites
  BY <1>1, ComingFacts
<1>3. /\ Coming' = Coming
      /\ \A s \in Suites : Root(s)' = Root(s) \/ (s = opt.suite /\ Root(s)' = Coming)
  BY StepFronts
<1>4. /\ DOMAIN Coming.pool = AllLocations(Ingested(Coming))
      /\ Accounted(Root(opt.suite)) \subseteq Expected \cup Doomed
      /\ opt.unreferenced /\ opt.stale =>
           \A p \in DOMAIN store : IsPool(p) \/ IsSuite(p, opt.suite) =>
             p \in Fronts \cup Expected \cup Doomed
  BY <1>1 DEF TidyInv
<1>5. InVain' = InVain /\ Expected' = Expected
  BY <1>1, <1>3 DEF InVain, Expected
<1>6. Accounted(Coming) \subseteq Expected
  BY DEF Expected
<1>7. Accounted(Root(opt.suite)') \subseteq Expected \cup Doomed'
  <2>1. CASE Root(opt.suite)' = Coming
    BY <1>6, <2>1
  <2>2. CASE Root(opt.suite)' = Root(opt.suite) /\ Doomed' = Doomed
    BY <1>4, <2>2
  <2>3. Root(opt.suite)' = Root(opt.suite) \/ Root(opt.suite)' = Coming
    BY <1>1, <1>2, <1>3
  <2> QED BY <2>1, <2>2, <2>3
<1>8. \A s \in Suites : DOMAIN Root(s)'.pool = AllLocations(Ingested(Root(s)'))
  <2> SUFFICES ASSUME NEW s \in Suites PROVE DOMAIN Root(s)'.pool = AllLocations(Ingested(Root(s)'))
    OBVIOUS
  <2>1. CASE Root(s)' = Root(s)
    BY <2>1 DEF TidyInv
  <2>2. CASE Root(s)' = Coming
    BY <1>4, <2>2
  <2> QED BY <1>3, <2>1, <2>2
<1>9. opt.unreferenced /\ opt.stale =>
        \A p \in DOMAIN store' : IsPool(p) \/ IsSuite(p, opt.suite) =>
          p \in Fronts \cup Expected \cup Doomed'
  BY <1>4
<1>10. /\ \A c \in work'.copies : c.to \in AllLocations(idx)
       /\ \A u \in work'.uploads : u.to \in DOMAIN pending
       /\ \A u \in Range(work'.metadata) : u.to \in MetadataPaths(Coming.docs, Coming.byHash)
  BY <1>1 DEF TidyInv
<1>11. TidyInv'
  <2>1. stops' \in Nat
    BY <1>1 DEF TidyInv
  <2> QED BY <1>1, <1>3, <1>4, <1>5, <1>7, <1>8, <1>9, <1>10, <2>1 DEF TidyInv
<1>12. ASSUME NEW p \in Adrift', p \notin InVain PROVE p \in Adrift
  <2>1. /\ p \in DOMAIN store' /\ p \notin Fronts /\ p \notin Doomed'
        /\ p \notin Accounted(Coming) /\ \A s \in Suites : p \notin Accounted(Root(s)')
    BY <1>1, <1>3, <1>12 DEF Adrift, Leftovers, Awaited, Named, AptFiles
  <2>2. p \notin Expected
    BY <1>12, <2>1 DEF Expected
  <2>3. p \in DOMAIN store /\ p \notin Doomed
    BY <2>1, <2>2
  <2>4. ASSUME NEW s \in Suites PROVE p \notin Accounted(Root(s))
    <3>1. CASE Root(s)' = Root(s)
      BY <2>1, <3>1
    <3>2. CASE s = opt.suite
      BY <1>4, <2>2, <2>3, <3>2
    <3> QED BY <1>3, <3>1, <3>2
  <2> QED BY <1>1, <2>1, <2>3, <2>4 DEF Adrift, Leftovers, Awaited, Named, AptFiles
<1> QED BY <1>5, <1>11, <1>12

\* Clients read what was to come when all of it is written.
LEMMA EndedFronts ==
  ASSUME AptInv, mode = "publishing", work.swap = <<>>, work.retract = <<>>
  PROVE  Root(opt.suite) = Coming
<1>1. \A a, b, c : <<>> # <<a, b, c>> /\ <<>> # <<a, b>> /\ <<>> # <<a>>
  OBVIOUS
<1>2. Release(opt.suite) \in DOMAIN store /\ Coming = store[Release(opt.suite)]
  BY <1>1, ComingFacts
<1>3. SignaturesAgree(opt.suite)
  BY <1>1 DEF AptInv, SignatureInv
<1>4. CASE opt.signed
  BY <1>2, <1>3, <1>4 DEF SignaturesAgree, Root, ReleaseIn
<1>5. CASE ~opt.signed
  BY <1>2, <1>3, <1>5 DEF SignaturesAgree, Root, ReleaseIn
<1> QED BY <1>4, <1>5

LEMMA PublishingTidy ==
  ASSUME AptFiles, AptInv, TidyInv, Publishing
  PROVE  TidyInv' /\ Adrift' \subseteq Adrift \cup InVain'
<1>1. mode = "publishing" /\ Step
  BY DEF Publishing
<1>2. work \in Shape(Movable, Uploadable, Describable, Swappable(opt.suite),
                     {InRelease(opt.suite), ReleaseGPG(opt.suite)}, Doomed)
      /\ opt.suite \in Suites
  BY <1>1, ComingFacts DEF AptInv, WorkInv, AptShape
<1>3. /\ \A c \in work.copies : c.to \in AllLocations(idx)
      /\ \A u \in work.uploads : u.to \in DOMAIN pending
      /\ \A u \in Range(work.metadata) : u.to \in MetadataPaths(Coming.docs, Coming.byHash)
  BY <1>1 DEF TidyInv
<1>4. AllLocations(idx) \cup DOMAIN pending \cup MetadataPaths(Coming.docs, Coming.byHash) \subseteq Expected
  BY DEF Expected, InVain, Accounted
<1>5. CASE CopyOne
  <2>1. PICK c \in work.copies : StorePut(c.to, store[c.from]) /\ work'.copies = work.copies \ {c}
    BY <1>2, <1>5, CopyOneFields
  <2>2. work'.uploads = work.uploads /\ work'.metadata = work.metadata /\ work'.gc = work.gc
    BY <1>2, <1>5, CopyOneFields
  <2>3. DOMAIN store' = DOMAIN store \cup {c.to} /\ Doomed' = Doomed
    BY <2>1, <2>2, PutFacts DEF Doomed
  <2> QED BY <1>3, <1>4, <2>1, <2>2, <2>3, StepTidy
<1>6. CASE UploadOne
  <2>1. PICK u \in work.uploads : StorePut(u.to, u.data) /\ work'.uploads = work.uploads \ {u}
    BY <1>2, <1>6, UploadOneFields
  <2>2. work'.copies = work.copies /\ work'.metadata = work.metadata /\ work'.gc = work.gc
    BY <1>2, <1>6, UploadOneFields
  <2>3. DOMAIN store' = DOMAIN store \cup {u.to} /\ Doomed' = Doomed
    BY <2>1, <2>2, PutFacts DEF Doomed
  <2> QED BY <1>3, <1>4, <2>1, <2>2, <2>3, StepTidy
<1>7. CASE WriteMetadata
  <2> DEFINE u == Head(work.metadata)
  <2>1. u \in Range(work.metadata) /\ StorePut(u.to, u.data)
    BY <1>2, <1>7, WriteMetadataFields
  <2>2. /\ work'.copies = work.copies /\ work'.uploads = work.uploads /\ work'.gc = work.gc
        /\ Range(work'.metadata) \subseteq Range(work.metadata)
    BY <1>2, <1>7, WriteMetadataFields
  <2> HIDE DEF u
  <2>3. DOMAIN store' = DOMAIN store \cup {u.to} /\ Doomed' = Doomed
    BY <2>1, <2>2, PutFacts DEF Doomed
  <2> QED BY <1>3, <1>4, <2>1, <2>2, <2>3, StepTidy
<1>8. CASE SwapOne
  <2> DEFINE f == Head(work.swap)
  <2>1. f \in Swappable(opt.suite) /\ StorePut(f.to, f.data)
    BY <1>2, <1>8, SwapOneFields
  <2>2. work'.copies = work.copies /\ work'.uploads = work.uploads /\ work'.metadata = work.metadata
        /\ work'.gc = work.gc
    BY <1>2, <1>8, SwapOneFields DEF SwapOne, Shape
  <2> HIDE DEF f
  <2>3. f.to \in Fronts
    BY <1>2, <2>1, SwappableFronts
  <2>4. DOMAIN store' = DOMAIN store \cup {f.to} /\ Doomed' = Doomed
    BY <2>1, <2>2, PutFacts DEF Doomed
  <2> QED BY <2>2, <2>3, <2>4, StepTidy
<1>9. CASE RetractOne
  <2>1. PICK h : StoreDelete(h)
    BY <1>2, <1>9, RetractOneFields
  <2>2. work'.copies = work.copies /\ work'.uploads = work.uploads /\ work'.metadata = work.metadata
        /\ work'.gc = work.gc
    BY <1>2, <1>9, RetractOneFields DEF RetractOne, Shape
  <2>3. DOMAIN store' \subseteq DOMAIN store /\ Doomed' = Doomed
    BY <2>1, <2>2, DeleteFacts DEF Doomed
  <2> QED BY <2>2, <2>3, StepTidy
<1>10. CASE CollectOne
  <2>1. /\ work.swap = <<>> /\ work.retract = <<>>
        /\ \/ UNCHANGED store /\ Doomed \subseteq Doomed'
           \/ \E p \in Doomed : StoreDelete(p) /\ Doomed \subseteq {p} \cup Doomed'
    BY <1>2, <1>10, CollectOneFields DEF Doomed
  <2>2. work'.copies = work.copies /\ work'.uploads = work.uploads /\ work'.metadata = work.metadata
    BY <1>2, <1>10 DEF CollectOne, Shape
  <2>3. DOMAIN store' \subseteq DOMAIN store /\ \A p \in Doomed \cap DOMAIN store' : p \in Doomed'
    BY <2>1, DeleteFacts
  <2>4. Root(opt.suite)' = Coming
    <3>1. Root(opt.suite) = Coming /\ opt' = opt
      BY <1>1, <2>1, EndedFronts DEF Publishing, session
    <3>2. \A s \in Suites : Root(s)' = Root(s) \/ (s = opt.suite /\ Root(s)' = Coming)
      BY StepFronts
    <3> QED BY <1>2, <3>1, <3>2
  <2> QED BY <2>2, <2>3, <2>4, StepTidy
<1> QED BY <1>1, <1>5, <1>6, <1>7, <1>8, <1>9, <1>10 DEF Step

LEMMA FinishTidy ==
  ASSUME AptFiles, AptInv, TidyInv, Finish
  PROVE  /\ Adrift' \subseteq Adrift
         /\ opt.unreferenced /\ opt.stale =>
              \A p \in Leftovers : IsPool(p) \/ IsSuite(p, opt.suite) => p \in InVain
<1>1. mode = "publishing" /\ work = NoSteps /\ store' = store /\ work' = work
  BY DEF Finish
<1>2. Doomed = {} /\ work.swap = <<>> /\ work.retract = <<>>
  BY <1>1, IdleWork DEF NoSteps
<1>3. Root(opt.suite) = Coming /\ opt.suite \in Suites
  BY <1>1, <1>2, EndedFronts, ComingFacts
<1>4. Accounted(Coming) \subseteq Named
  BY <1>3 DEF Named
<1>5. Leftovers' = Leftovers
  BY <1>1 DEF Leftovers, Named, Root, ReleaseIn
<1>6. Adrift = Leftovers
  BY <1>1, <1>2, <1>4 DEF Adrift, Awaited, Leftovers
<1>7. ASSUME opt.unreferenced, opt.stale, NEW p \in Leftovers, IsPool(p) \/ IsSuite(p, opt.suite)
      PROVE  p \in InVain
  <2>1. p \in DOMAIN store /\ p \notin Fronts /\ p \notin Accounted(Coming)
    BY <1>4, <1>7 DEF Leftovers, AptFiles
  <2>2. p \in Fronts \cup Expected \cup Doomed
    BY <1>1, <1>7, <2>1 DEF TidyInv
  <2> QED BY <1>2, <2>1, <2>2 DEF Expected
<1> QED BY <1>5, <1>6, <1>7 DEF Adrift

LEMMA TidyStep ==
  ASSUME AptFiles
  PROVE  /\ Init => TidyInv
         /\ AptInv /\ TidyInv /\ [Next]_aptVars =>
              /\ TidyInv'
              /\ stops' = stops =>
                   Adrift' \subseteq Adrift \cup (IF mode' = "publishing" THEN InVain' ELSE {})
<1>1. ASSUME Init PROVE TidyInv
  BY <1>1, PlaceAssumption DEF Init, TidyInv, Root
<1>2. ASSUME AptInv, TidyInv, [Next]_aptVars
      PROVE  /\ TidyInv'
             /\ stops' = stops =>
                  Adrift' \subseteq Adrift \cup (IF mode' = "publishing" THEN InVain' ELSE {})
  <2>1. CASE Open \/ Mutate \/ Abandon
    <3>1. /\ mode # "publishing" /\ mode' # "publishing" /\ store' = store /\ work' = work /\ stops' = stops
      BY <2>1 DEF Open, Mutate, Add, RemoveID, PruneOlderVersions, RelocateAll, Refresh, Call, Abandon, Forget
    <3>2. \A s : Root(s)' = Root(s)
      BY <3>1 DEF Root, ReleaseIn
    <3>3. TidyInv'
      BY <1>2, <3>1, <3>2 DEF TidyInv
    <3>4. Adrift' = Adrift
      BY <3>1, <3>2 DEF Adrift, Leftovers, Named, Awaited, Doomed
    <3> QED BY <3>3, <3>4
  <2>2. CASE Finish \/ CutShort
    <3>1. mode' # "publishing" /\ \A s \in Suites : Root(s)' = Root(s)
      BY <1>2, <2>2, RootElsewhere DEF Finish, CutShort, Forget
    <3>2. stops \in Nat /\ \A s \in Suites : DOMAIN Root(s).pool = AllLocations(Ingested(Root(s)))
      BY <1>2 DEF TidyInv
    <3>3. stops' \in Nat /\ (stops' = stops => Finish)
      BY <2>2, <3>2 DEF Finish, CutShort
    <3>4. \A s \in Suites : DOMAIN Root(s)'.pool = AllLocations(Ingested(Root(s)'))
      BY <3>1, <3>2
    <3>5. TidyInv'
      BY <3>1, <3>3, <3>4 DEF TidyInv
    <3> QED BY <1>2, <3>3, <3>5, FinishTidy
  <2>3. CASE Commit
    BY <1>2, <2>3, CommitTidy
  <2>4. CASE Publishing
    <3>1. mode' = "publishing"
      BY <2>4 DEF Publishing
    <3> QED BY <1>2, <2>4, <3>1, PublishingTidy
  <2>5. CASE UNCHANGED aptVars
    <3>1. UNCHANGED <<store, work, mode, idx, pending, opt, stops>>
      BY <2>5 DEF aptVars, session
    <3>2. Coming' = Coming /\ \A s : Root(s)' = Root(s)
      BY <3>1 DEF Coming, Root, ReleaseIn
    <3>3. InVain' = InVain /\ Expected' = Expected /\ Doomed' = Doomed
      BY <3>1, <3>2 DEF InVain, Expected, Doomed
    <3>4. TidyInv'
      BY <1>2, <3>1, <3>2, <3>3 DEF TidyInv
    <3>5. Adrift' = Adrift
      BY <3>1, <3>2, <3>3 DEF Adrift, Leftovers, Named, Awaited
    <3> QED BY <3>4, <3>5
  <2> QED BY <1>2, <2>1, <2>2, <2>3, <2>4, <2>5 DEF Next
<1> QED BY <1>1, <1>2

\* A publish that is not cut short leaves no file behind that no Release accounts
\* for, unless it was published in vain, and with the clean-up options no other
\* either: for every set of packages and suites, and whatever was cut short
\* before, where a package is listed at one place.
THEOREM AptEndsTidy ==
  ASSUME AptFiles
  PROVE  Spec => EndsTidy
<1>1. AptInv /\ TidyInv /\ [Next]_aptVars =>
        [use.copies = 0 =>
           /\ stops' = stops => Adrift' \subseteq Adrift \cup (IF mode' = "publishing" THEN InVain' ELSE {})
           /\ Finish /\ opt.unreferenced /\ opt.stale =>
                \A p \in Leftovers : IsPool(p) \/ IsSuite(p, opt.suite) => p \in InVain]_aptVars
  BY TidyStep, FinishTidy
<1> QED BY <1>1, TidyStep, SpecInv, PTL DEF Spec, EndsTidy

----------------------------------------------------------------------------
(* Copies.  A rebuilding copy is a session that writes files before it     *)
(* publishes; an exact copy writes what the source's suite has, Release    *)
(* and all.                                                                *)

\* Every set of paths has a first.
Ordered == \A P : P # {} => First(P) \in P

Copying == {"exact", "endExact", "rebuild", "endRebuild"}

SourceRoot(v) == SourceAt[v][Release(SourceSuite)]
Sigs          == {InRelease(SourceSuite), ReleaseGPG(SourceSuite)}

\* What is running, and since which version of the source.
CopyTyped ==
  /\ use \in Uses /\ version \in DOMAIN SourceAt /\ copies \in Nat
  /\ job = NoJob \/ job.doing \in Copying
  /\ job # NoJob => use.copies # 0 /\ \E v \in 1 .. version : job.root = SourceRoot(v)
  /\ use.copies # 0 => /\ mode \in {"closed", "open", "publishing"}
                       /\ mode # "closed" <=> job.doing = "rebuild"

\* What an exact copy has been through is there, and it comes to the Release after
\* the files, to the signatures after the Release.
Transferring(left) ==
  /\ job.known = DOMAIN Vouched(job.root)
  /\ job.known \cup {Release(SourceSuite)} \subseteq DOMAIN job.seen
  /\ \A p \in job.known : job.seen[p] = Vouched(job.root)[p]
  /\ \A p \in DOMAIN job.seen \ job.known : ~IsPool(p) /\ \A t : IsSuite(p, t) => t = SourceSuite
  /\ left \subseteq DOMAIN job.seen
  /\ \A p \in job.known \ left : p \in DOMAIN store /\ store[p] = job.seen[p]
  /\ Release(SourceSuite) \notin left =>
       /\ left \subseteq Sigs
       /\ Release(SourceSuite) \in DOMAIN store
       /\ SourceStill => store[Release(SourceSuite)] = job.root
  /\ SourceStill /\ InRelease(SourceSuite) \in DOMAIN job.seen \ left =>
       InRelease(SourceSuite) \in DOMAIN store /\ store[InRelease(SourceSuite)].inline = job.root

\* The last writes of an exact copy: two signatures, if it makes its own, and the
\* configuration.
ConfigFile == [to |-> Config, data |-> CopiedFrom(Here)]

Ending(rel) ==
  \/ job.sign /\ job.todo = <<DetachedFile(rel), InlineFile(rel), ConfigFile>>
  \/ /\ job.sign /\ job.todo = <<InlineFile(rel), ConfigFile>>
     /\ ReleaseGPG(SourceSuite) \in DOMAIN store /\ store[ReleaseGPG(SourceSuite)] = [signs |-> rel]
  \/ /\ job.todo = <<ConfigFile>>
     /\ job.sign =>
          /\ ReleaseGPG(SourceSuite) \in DOMAIN store /\ store[ReleaseGPG(SourceSuite)] = [signs |-> rel]
          /\ InRelease(SourceSuite) \in DOMAIN store /\ store[InRelease(SourceSuite)] = [inline |-> rel]

ExactInv ==
  /\ job.doing = "exact" => Transferring(job.todo)
  /\ job.doing = "endExact" =>
       /\ Transferring({})
       /\ \E rel : IsRelease(SourceSuite, rel) /\ (SourceStill => rel = job.root) /\ Ending(rel)
       /\ job.prune /\ SourceStill /\ InRelease(SourceSuite) \in DOMAIN store =>
            store[InRelease(SourceSuite)].inline = job.root
  /\ job.doing = "endRebuild" => job.todo = <<ConfigFile>>

CopyInv ==
  /\ CopyTyped
  /\ use.copies # 0 => ExactInv

----------------------------------------------------------------------------
(* The source, and what a Release vouches for.                             *)

LEMMA SourceFacts ==
  ASSUME NEW v \in DOMAIN SourceAt
  PROVE  LET src == SourceAt[v]
             rel == SourceRoot(v)
         IN /\ SourceSuite \in Suites
            /\ Release(SourceSuite) \in DOMAIN src /\ src[Release(SourceSuite)] = rel
            /\ IsRelease(SourceSuite, rel)
            /\ InRelease(SourceSuite) \in DOMAIN src => src[InRelease(SourceSuite)] = [inline |-> rel]
            /\ ReleaseGPG(SourceSuite) \in DOMAIN src => src[ReleaseGPG(SourceSuite)] = [signs |-> rel]
            /\ ReleaseIn(src, SourceSuite) = rel
            /\ rel.pool = FileExpectations(Ingested(rel))
            /\ \A d, x \in rel.docs : Plain(d) = Plain(x) => d = x
            /\ \A d \in DOMAIN src : d \in Index(SourceSuite) => src[d] = d
            /\ \A w \in DOMAIN SourceAt : SourceRoot(w) = rel => w = v
<1>1. [inline |-> SourceRoot(v)].inline = SourceRoot(v)
  OBVIOUS
<1>2. ReleaseIn(SourceAt[v], SourceSuite) = SourceRoot(v)
  BY <1>1, SourceAssumption DEF ReleaseIn, SourceRoot
<1> QED BY <1>2, SourceAssumption DEF SourceRoot

LEMMA Versions ==
  /\ Len(SourceAt) \in Nat /\ Len(SourceAt) # 0 /\ DOMAIN SourceAt = 1 .. Len(SourceAt)
BY SourceAssumption

LEMMA JobFacts ==
  ASSUME CopyTyped, job # NoJob
  PROVE  /\ use.copies # 0 /\ job.doing \in Copying
         /\ version \in DOMAIN SourceAt /\ Source = SourceAt[version] /\ From = SourceRoot(version)
         /\ \E v \in DOMAIN SourceAt : v <= version /\ job.root = SourceRoot(v)
         /\ SourceStill <=> SourceRoot(version) = job.root
<1>1. version \in DOMAIN SourceAt /\ Source = SourceAt[version] /\ From = SourceRoot(version)
  BY SourceFacts DEF CopyTyped, Source, From
<1>2. PICK v \in 1 .. version : job.root = SourceRoot(v)
  BY DEF CopyTyped
<1>3. v \in DOMAIN SourceAt /\ v <= version
  BY <1>1, <1>2, Versions
<1> QED BY <1>1, <1>2, <1>3 DEF CopyTyped, SourceStill

LEMMA Busy ==
  /\ NoJob.doing = "nothing"
  /\ \A j : j.doing \in Copying => j # NoJob
<1>1. NoJob.doing = "nothing"
  BY DEF NoJob
<1> QED BY <1>1 DEF Copying

LEMMA ConfigKinds ==
  /\ Config \notin Fronts /\ ~IsPool(Config) /\ \A s : ~IsSuite(Config, s)
  /\ \A s : \A d \in Index(s) : Config # d /\ Config # Plain(d)
  /\ Config \notin Places
<1>1. DOMAIN Config = {"file"}
  BY DEF Config
<1>2. ~IsPool(Config) /\ \A s : ~IsSuite(Config, s)
  BY <1>1 DEF IsPool, IsSuite
<1>3. Config \notin Fronts
  BY <1>1 DEF Fronts, Release, ReleaseGPG, InRelease
<1> QED BY <1>2, <1>3, IndexKinds, PlaceKinds

\* What a Release of the source vouches for is all that clients are told of, and
\* each document under both its names.
LEMMA VouchedFacts ==
  ASSUME NEW v \in DOMAIN SourceAt
  PROVE  LET rel == SourceRoot(v) IN
         /\ DOMAIN Vouched(rel) = MetadataPaths(rel.docs, rel.byHash) \cup DOMAIN rel.pool
         /\ \A p \in DOMAIN NamedBy(rel) : p \in DOMAIN Vouched(rel) /\ Vouched(rel)[p] = NamedBy(rel)[p]
         /\ \A p \in DOMAIN Vouched(rel) :
              \/ p \in Places /\ p \in DOMAIN rel.pool
              \/ p \in rel.docs /\ p \in Index(SourceSuite) /\ Vouched(rel)[p] = p
              \/ \E d \in rel.docs : p = Plain(d)
         /\ \A p \in DOMAIN Vouched(rel) : p \notin Fronts
<1> DEFINE rel  == SourceRoot(v)
           pool == FileExpectations(Ingested(rel))
           meta == MetadataPaths(rel.docs, rel.byHash)
           holds(p) == {d \in rel.docs : p \in {d, Plain(d)}}
<1>1. /\ SourceSuite \in Suites /\ IsRelease(SourceSuite, rel) /\ pool = rel.pool
      /\ \A d, x \in rel.docs : Plain(d) = Plain(x) => d = x
  BY SourceFacts
<1>2. /\ rel.docs \subseteq Index(SourceSuite) /\ DOMAIN rel.pool \subseteq Places
  BY <1>1, ReleaseFields
<1>3. /\ DOMAIN Vouched(rel) = meta \cup DOMAIN pool
      /\ \A p \in DOMAIN pool : Vouched(rel)[p] = pool[p]
      /\ \A p \in meta \ DOMAIN pool : Vouched(rel)[p] = CHOOSE d \in rel.docs : p \in {d, Plain(d)}
  BY DEF Vouched
<1>4. /\ DOMAIN NamedBy(rel) = {IndexPath(rel, d) : d \in rel.docs} \cup DOMAIN rel.pool
      /\ \A p \in DOMAIN rel.pool : NamedBy(rel)[p] = rel.pool[p]
      /\ \A p \in DOMAIN NamedBy(rel) \ DOMAIN rel.pool :
           NamedBy(rel)[p] \in rel.docs /\ IndexPath(rel, NamedBy(rel)[p]) = p
  BY <1>1, NamedByFacts
<1> HIDE DEF rel, pool
<1>5. ASSUME NEW d \in rel.docs, NEW p \in {d, Plain(d)}, p \in meta
      PROVE  p \notin DOMAIN pool /\ Vouched(rel)[p] = d
  <2>1. p \notin DOMAIN pool
    BY <1>1, <1>2, <1>5, IndexKinds
  <2>2. \A x \in rel.docs : p \in {x, Plain(x)} => x = d
    BY <1>1, <1>2, <1>5, IndexKinds
  <2>3. (CHOOSE x \in rel.docs : p \in {x, Plain(x)}) = d
    BY <1>5, <2>2
  <2>4. Vouched(rel)[p] = CHOOSE x \in rel.docs : p \in {x, Plain(x)}
    BY <1>3, <1>5, <2>1, Zenon
  <2> QED BY <2>1, <2>3, <2>4
<1>6. \A d \in rel.docs : Plain(d) \in meta /\ (rel.byHash => d \in meta) /\ IndexPath(rel, d) \in meta
  BY DEF MetadataPaths, IndexPath
<1>7. ASSUME NEW p \in DOMAIN NamedBy(rel)
      PROVE  p \in DOMAIN Vouched(rel) /\ Vouched(rel)[p] = NamedBy(rel)[p]
  <2>1. CASE p \in DOMAIN rel.pool
    BY <1>1, <1>3, <1>4, <2>1
  <2>2. CASE p \notin DOMAIN rel.pool
    <3>1. NamedBy(rel)[p] \in rel.docs /\ IndexPath(rel, NamedBy(rel)[p]) = p
      BY <1>4, <2>2
    <3>2. p \in {NamedBy(rel)[p], Plain(NamedBy(rel)[p])} /\ p \in meta
      BY <1>6, <3>1 DEF IndexPath
    <3> QED BY <1>3, <1>5, <3>1, <3>2
  <2> QED BY <2>1, <2>2
<1>8. ASSUME NEW p \in DOMAIN Vouched(rel)
      PROVE  /\ \/ p \in Places /\ p \in DOMAIN rel.pool
                \/ p \in rel.docs /\ p \in Index(SourceSuite) /\ Vouched(rel)[p] = p
                \/ \E d \in rel.docs : p = Plain(d)
             /\ p \notin Fronts
  <2>1. CASE p \in DOMAIN pool
    BY <1>1, <1>2, <2>1, PlaceKinds
  <2>2. CASE p \in meta
    <3>1. p \in rel.docs \/ \E d \in rel.docs : p = Plain(d)
      BY <2>2 DEF MetadataPaths
    <3> QED BY <1>2, <1>5, <2>2, <3>1, IndexKinds
  <2> QED BY <1>3, <2>1, <2>2
<1> QED BY <1>1, <1>3, <1>7, <1>8 DEF rel, pool

----------------------------------------------------------------------------
(* The steps of a copy.                                                    *)

LEMMA BeginFacts ==
  ASSUME CopyTyped, NEW how, NEW s, Begin(how, s)
  PROVE  job = NoJob /\ use.copies # 0 /\ copies' \in Nat
BY DEF Begin, CopyTyped

\* A republished source has a Release that it never had before.
LEMMA AptVersionKept ==
  ASSUME CopyTyped, UNCHANGED <<job, copies, mode, use>>, SourcePublishes \/ version' = version
  PROVE  CopyTyped' /\ (job # NoJob => (SourceStill' => SourceStill))
<1>1. CASE version' = version
  BY <1>1 DEF CopyTyped, SourceStill, From, Source
<1>2. CASE SourcePublishes
  <2>1. version' = version + 1 /\ version' \in DOMAIN SourceAt /\ version \in Nat
    BY <1>2, Versions DEF SourcePublishes, CopyTyped
  <2>2. CopyTyped'
    <3>1. \A v \in 1 .. version : v \in 1 .. version'
      BY <2>1
    <3> QED BY <2>1, <3>1 DEF CopyTyped
  <2>3. ASSUME job # NoJob PROVE ~SourceStill'
    <3>1. PICK v \in 1 .. version : job.root = SourceRoot(v)
      BY <2>3 DEF CopyTyped
    <3>2. v \in DOMAIN SourceAt /\ v # version'
      BY <2>1, Versions
    <3>3. SourceRoot(version') # job.root
      BY <2>1, <3>1, <3>2, SourceFacts
    <3>4. From' = SourceRoot(version')
      BY <2>1, <2>2, SourceFacts DEF From, Source
    <3> QED BY <2>3, <3>3, <3>4 DEF SourceStill
  <2> QED BY <2>2, <2>3
<1> QED BY <1>1, <1>2

\* A copy that goes on, of the same source.
LEMMA JobGoesOn ==
  ASSUME CopyTyped, job # NoJob, NEW j, job' = j, j.root = job.root, j.doing \in Copying,
         mode' \in {"closed", "open", "publishing"}, mode' # "closed" <=> j.doing = "rebuild",
         UNCHANGED <<version, copies, use>>
  PROVE  CopyTyped' /\ (SourceStill' <=> SourceStill)
<1>1. j # NoJob
  BY Busy
<1>2. CopyTyped'
  BY <1>1 DEF CopyTyped
<1>3. SourceStill' <=> SourceStill
  BY <1>1 DEF SourceStill, From, Source
<1> QED BY <1>2, <1>3

LEMMA SourceNow ==
  ASSUME CopyTyped
  PROVE  /\ version \in DOMAIN SourceAt /\ version \in 1 .. version /\ Source = SourceAt[version]
         /\ Release(SourceSuite) \in DOMAIN Source /\ Source[Release(SourceSuite)] = From
         /\ From = SourceRoot(version)
<1>1. version \in DOMAIN SourceAt /\ Source = SourceAt[version]
  BY DEF CopyTyped, Source
<1>2. version \in 1 .. version
  BY <1>1, Versions
<1>3. From = SourceRoot(version)
  BY <1>1, SourceFacts DEF From
<1> QED BY <1>1, <1>2, <1>3, SourceFacts

LEMMA StartExactInv ==
  ASSUME CopyInv, NEW how, StartExact(how)
  PROVE  CopyInv'
<1>1. /\ mode = "closed" /\ Begin(how, SourceSuite)
      /\ UNCHANGED <<aptVars, version>>
  BY DEF StartExact
<1>2. PICK f \in Flags :
        job' = [doing |-> "exact", again |-> f.again, sign |-> f.sign,
                prune |-> how = "overwrite" /\ SuiteExists(SourceSuite), root |-> From,
                known |-> DOMAIN Vouched(From), listed |-> f.listed,
                seen  |-> Seen(f.listed), todo |-> DOMAIN Seen(f.listed)]
  BY DEF StartExact
<1>3. /\ job'.doing = "exact" /\ job'.root = From /\ job'.known = DOMAIN Vouched(From)
      /\ job'.seen = Seen(f.listed) /\ job'.todo = DOMAIN Seen(f.listed)
  BY <1>2
<1>4. /\ version \in DOMAIN SourceAt /\ Source = SourceAt[version] /\ version \in 1 .. version
      /\ Release(SourceSuite) \in DOMAIN Source /\ From = SourceRoot(version)
  BY SourceNow DEF CopyInv
<1>5. Release(SourceSuite) \in Unvouched(f.listed)
  BY <1>4 DEF Unvouched, IsPool, IsSuite, Release
<1>6. \A p \in Unvouched(f.listed) : ~IsPool(p) /\ \A t : IsSuite(p, t) => t = SourceSuite
  BY ConfigKinds DEF Unvouched, IsPool, IsSuite, Release, InRelease, ReleaseGPG
<1>7. /\ DOMAIN Vouched(From) \cup {Release(SourceSuite)} \subseteq DOMAIN Seen(f.listed)
      /\ \A p \in DOMAIN Vouched(From) : Seen(f.listed)[p] = Vouched(From)[p]
      /\ \A p \in DOMAIN Seen(f.listed) \ DOMAIN Vouched(From) :
           ~IsPool(p) /\ \A t : IsSuite(p, t) => t = SourceSuite
  BY <1>5, <1>6 DEF Seen
<1>8. CopyTyped'
  BY <1>1, <1>3, <1>4, BeginFacts DEF CopyInv, CopyTyped, Copying, aptVars, session
<1>9. ExactInv'
  BY <1>3, <1>7 DEF ExactInv, Transferring
<1> QED BY <1>8, <1>9 DEF CopyInv

LEMMA StartRebuildingInv ==
  ASSUME CopyInv, NEW how, StartRebuilding(how)
  PROVE  CopyInv'
<1>1. /\ Begin(how, opt'.suite) /\ mode' = "open" /\ use' = use /\ version' = version
      /\ job'.doing = "rebuild" /\ job'.root = From
  BY DEF StartRebuilding
<1>2. /\ version \in DOMAIN SourceAt /\ version \in 1 .. version /\ From = SourceRoot(version)
  BY SourceNow DEF CopyInv
<1>3. CopyTyped'
  BY <1>1, <1>2, BeginFacts DEF CopyInv, CopyTyped, Copying
<1> QED BY <1>1, <1>3 DEF CopyInv, ExactInv

LEMMA SourcePublishesInv ==
  ASSUME CopyInv, SourcePublishes \/ UNCHANGED copyVars
  PROVE  CopyInv'
<1>1. /\ UNCHANGED <<aptVars, job, copies>>
      /\ SourcePublishes \/ version' = version
  BY DEF SourcePublishes, copyVars
<1>2. CopyTyped' /\ (job # NoJob => (SourceStill' => SourceStill))
  BY <1>1, AptVersionKept DEF CopyInv, aptVars, session
<1>3. ExactInv' \/ use.copies = 0
  <2>1. store' = store /\ job' = job
    BY <1>1 DEF aptVars
  <2>2. job.doing \in {"exact", "endExact"} => (SourceStill' => SourceStill)
    BY <1>2, Busy DEF Copying
  <2>3. ASSUME NEW left, job.doing \in {"exact", "endExact"}, Transferring(left)
        PROVE  Transferring(left)'
    BY <2>1, <2>2, <2>3 DEF Transferring
  <2>4. \A rel : Ending(rel) => Ending(rel)'
    BY <2>1 DEF Ending
  <2>5. job.doing = "endExact" /\ ExactInv =>
          /\ Transferring({})'
          /\ (\E rel : IsRelease(SourceSuite, rel) /\ (SourceStill => rel = job.root) /\ Ending(rel))'
          /\ (job.prune /\ SourceStill /\ InRelease(SourceSuite) \in DOMAIN store =>
               store[InRelease(SourceSuite)].inline = job.root)'
    BY <2>1, <2>2, <2>3, <2>4 DEF ExactInv
  <2>6. job.doing = "exact" /\ ExactInv => Transferring(job.todo)'
    BY <2>1, <2>2, <2>3 DEF ExactInv
  <2> QED BY <2>1, <2>5, <2>6 DEF CopyInv, ExactInv
<1> QED BY <1>1, <1>2, <1>3 DEF CopyInv, aptVars, session

\* The object that is next, and what the rank says of it.
LEMMA NextObject ==
  ASSUME Ordered, job.todo # {}, NEW p, p = First(Ranked(job.todo))
  PROVE  LET root == Release(SourceSuite) IN
         /\ p \in job.todo
         /\ p = root => job.todo \subseteq {root} \cup Sigs
         /\ p \in Sigs => job.todo \subseteq Sigs
<1> DEFINE root  == Release(SourceSuite)
           files == job.todo \ {root, InRelease(SourceSuite), ReleaseGPG(SourceSuite)}
<1>1. root # InRelease(SourceSuite) /\ root # ReleaseGPG(SourceSuite)
  BY FrontKinds
<1>2. /\ Ranked(job.todo) \subseteq job.todo /\ Ranked(job.todo) # {}
      /\ root \in Ranked(job.todo) => job.todo \subseteq {root} \cup Sigs
      /\ Ranked(job.todo) \cap Sigs # {} => job.todo \subseteq Sigs
  <2>1. CASE files # {}
    <3>1. Ranked(job.todo) = files
      BY <2>1 DEF Ranked
    <3> QED BY <2>1, <3>1 DEF Sigs
  <2>2. CASE files = {} /\ root \in job.todo
    <3>1. Ranked(job.todo) = {root}
      BY <2>2 DEF Ranked
    <3> QED BY <1>1, <2>2, <3>1 DEF Sigs
  <2>3. CASE files = {} /\ root \notin job.todo
    <3>1. Ranked(job.todo) = job.todo
      BY <2>3 DEF Ranked
    <3> QED BY <2>3, <3>1 DEF Sigs
  <2> QED BY <2>1, <2>2, <2>3
<1>3. p \in Ranked(job.todo)
  BY <1>2, Zenon DEF Ordered
<1> QED BY <1>2, <1>3

\* What a Release vouches for are not the files clients start from.
LEMMA KnownApart ==
  ASSUME CopyTyped, job # NoJob, NEW left, Transferring(left)
  PROVE  /\ job.known \cap ({Release(SourceSuite), Config} \cup Sigs) = {}
         /\ {Release(SourceSuite)} \cup Sigs \subseteq Fronts
<1>1. PICK v \in DOMAIN SourceAt : job.root = SourceRoot(v)
  BY JobFacts
<1>2. SourceSuite \in Suites
  BY SourceAssumption
<1>3. {Release(SourceSuite)} \cup Sigs \subseteq Fronts
  BY <1>2 DEF Sigs, Fronts
<1>4. job.known = DOMAIN Vouched(SourceRoot(v))
  BY <1>1 DEF Transferring
<1>5. \A d \in SourceRoot(v).docs : d \in Index(SourceSuite)
  BY <1>2, SourceFacts, ReleaseFields
<1>6. ASSUME NEW p \in job.known PROVE p # Config /\ p \notin Fronts
  <2>1. /\ p \notin Fronts
        /\ \/ p \in Places
           \/ p \in Index(SourceSuite)
           \/ \E d \in SourceRoot(v).docs : p = Plain(d)
    BY <1>4, <1>6, VouchedFacts
  <2> QED BY <1>5, <2>1, ConfigKinds
<1> QED BY <1>3, <1>6

\* What one object leaves in the store.
LEMMA ObjectFacts ==
  ASSUME CanHash, Ordered, CopyTyped, CopyObject, Transferring(job.todo),
         NEW p, p = First(Ranked(job.todo))
  PROVE  /\ job' = [job EXCEPT !.todo = @ \ {p}] /\ p \in DOMAIN store'
         /\ \A q : q # p => (q \in DOMAIN store' <=> q \in DOMAIN store)
         /\ \A q \in DOMAIN store : q # p => store'[q] = store[q]
         /\ p \in job.known => store'[p] = job.seen[p]
         /\ \/ p \in DOMAIN store /\ store' = store /\ p \notin {Release(SourceSuite)} \cup Sigs
            \/ p \in DOMAIN Source /\ StorePut(p, Source[p]) /\ store'[p] = Source[p]
<1> DEFINE c == job.seen[p]
           vouched == p \in job.known
<1>1. /\ job.doing = "exact" /\ job.todo # {}
      /\ job' = [job EXCEPT !.todo = @ \ {p}]
      /\ IF SameThere(p, c, vouched) /\ ~job.again
         THEN UNCHANGED store
         ELSE Obtainable(p, c, vouched) /\ StorePut(p, Source[p])
  BY DEF CopyObject
<1>2. vouched => p \notin {Release(SourceSuite)} \cup Sigs
  <2>1. job # NoJob
    BY <1>1, Busy DEF Copying
  <2> QED BY <2>1, KnownApart
<1>3. CASE SameThere(p, c, vouched) /\ ~job.again
  <2>1. store' = store /\ p \in DOMAIN store
    BY <1>1, <1>3 DEF SameThere
  <2>2. IF vouched THEN store[p] = c ELSE ~Volatile(p)
    BY <1>3 DEF SameThere
  <2>3. p \notin {Release(SourceSuite)} \cup Sigs
    BY <1>2, <2>2 DEF Volatile, Sigs
  <2> QED BY <1>1, <2>1, <2>2, <2>3
<1>4. CASE ~(SameThere(p, c, vouched) /\ ~job.again)
  <2>1. Obtainable(p, c, vouched) /\ StorePut(p, Source[p])
    BY <1>1, <1>4
  <2>2. p \in DOMAIN Source /\ (vouched => Source[p] = c)
    BY <2>1 DEF Obtainable
  <2>3. /\ DOMAIN store' = DOMAIN store \cup {p} /\ store'[p] = Source[p]
        /\ \A q \in DOMAIN store : q # p => store'[q] = store[q]
    BY <2>1, PutFacts
  <2> QED BY <1>1, <2>1, <2>2, <2>3
<1> QED BY <1>3, <1>4

LEMMA CopyObjectInv ==
  ASSUME CanHash, Ordered, CopyInv, CopyObject
  PROVE  CopyInv'
<1> DEFINE root == Release(SourceSuite)
           in   == InRelease(SourceSuite)
<1>1. /\ job.doing = "exact" /\ job.todo # {}
      /\ UNCHANGED <<mode, version, copies, use>>
  BY DEF CopyObject, repoVars, session, copying
<1>2. PICK p : p = First(Ranked(job.todo))
  OBVIOUS
<1>3. job # NoJob /\ use.copies # 0 /\ mode = "closed" /\ Transferring(job.todo)
  BY <1>1, Busy DEF CopyInv, CopyTyped, ExactInv, Copying
<1>4. /\ job' = [job EXCEPT !.todo = @ \ {p}] /\ p \in DOMAIN store'
      /\ \A q : q # p => (q \in DOMAIN store' <=> q \in DOMAIN store)
      /\ \A q \in DOMAIN store : q # p => store'[q] = store[q]
      /\ p \in job.known => store'[p] = job.seen[p]
      /\ \/ p \in DOMAIN store /\ store' = store /\ p \notin {root} \cup Sigs
         \/ p \in DOMAIN Source /\ StorePut(p, Source[p]) /\ store'[p] = Source[p]
  BY <1>2, <1>3, ObjectFacts DEF CopyInv
<1>5. /\ p \in job.todo
      /\ p = root => job.todo \subseteq {root} \cup Sigs
      /\ p \in Sigs => job.todo \subseteq Sigs
  BY <1>1, <1>2, NextObject
<1>6. /\ job'.doing = "exact" /\ job'.root = job.root /\ job'.seen = job.seen
      /\ job'.known = job.known /\ job'.todo = job.todo \ {p}
  BY <1>1, <1>4
<1>7. CopyTyped' /\ (SourceStill' <=> SourceStill)
  <2>1. PICK j : j = job'
    OBVIOUS
  <2> QED BY <1>1, <1>3, <1>6, <2>1, JobGoesOn DEF CopyInv, Copying
<1>8. /\ version \in DOMAIN SourceAt /\ Source = SourceAt[version]
      /\ SourceStill => Source[root] = job.root
  BY <1>3, SourceNow DEF CopyInv, SourceStill
<1>9. root \notin Sigs
  BY FrontKinds DEF Sigs
<1>10. Transferring(job.todo)'
  <2>1. \A q \in job.known \ (job.todo \ {p}) : q \in DOMAIN store' /\ store'[q] = job.seen[q]
    <3> TAKE q \in job.known \ (job.todo \ {p})
    <3>1. CASE q = p
      BY <1>4, <3>1
    <3>2. CASE q # p
      BY <1>3, <1>4, <3>2 DEF Transferring
    <3> QED BY <3>1, <3>2
  <2>2. root \notin job.todo \ {p} =>
          /\ job.todo \ {p} \subseteq Sigs
          /\ root \in DOMAIN store'
          /\ SourceStill => store'[root] = job.root
    <3>1. CASE p = root
      BY <1>4, <1>5, <1>8, <3>1
    <3>2. CASE p # root
      BY <1>3, <1>4, <3>2 DEF Transferring
    <3> QED BY <3>1, <3>2
  <2>3. SourceStill /\ in \in DOMAIN job.seen \ (job.todo \ {p}) =>
          in \in DOMAIN store' /\ store'[in].inline = job.root
    <3>1. CASE p = in
      <4>1. p \in Sigs
        BY <3>1 DEF Sigs
      <4>2. p \in DOMAIN Source /\ store'[p] = Source[p] /\ p \in DOMAIN store'
        BY <1>4, <4>1
      <4>3. Source[in] = [inline |-> Source[root]]
        BY <1>8, <3>1, <4>2, SourceFacts
      <4>4. Source[in].inline = Source[root]
        BY <4>3
      <4> QED BY <1>8, <3>1, <4>2, <4>4
    <3>2. CASE p # in
      BY <1>3, <1>4, <3>2 DEF Transferring
    <3> QED BY <3>1, <3>2
  <2>4. /\ job.known = DOMAIN Vouched(job.root)
        /\ job.known \cup {root} \subseteq DOMAIN job.seen
        /\ \A q \in job.known : job.seen[q] = Vouched(job.root)[q]
        /\ \A q \in DOMAIN job.seen \ job.known : ~IsPool(q) /\ \A t : IsSuite(q, t) => t = SourceSuite
        /\ job.todo \ {p} \subseteq DOMAIN job.seen
    BY <1>3 DEF Transferring
  <2> QED BY <1>6, <1>7, <2>1, <2>2, <2>3, <2>4 DEF Transferring
<1> QED BY <1>6, <1>7, <1>10 DEF CopyInv, ExactInv

LEMMA PruneObjectInv ==
  ASSUME Ordered, CopyInv, PruneObject
  PROVE  CopyInv'
<1>1. /\ job.doing = "exact" /\ job.todo = {} /\ Extraneous # {} /\ StoreDelete(First(Extraneous))
      /\ UNCHANGED <<mode, version, copies, use, job>>
  BY DEF PruneObject, repoVars, session, copying
<1>2. PICK p : p = First(Extraneous)
  OBVIOUS
<1>3. p \in DOMAIN store \ DOMAIN job.seen
  <2>1. p \in Extraneous
    BY <1>1, <1>2, Zenon DEF Ordered
  <2> QED BY <2>1 DEF Extraneous
<1>4. job # NoJob /\ use.copies # 0 /\ mode = "closed" /\ Transferring({})
  BY <1>1, Busy DEF CopyInv, CopyTyped, ExactInv, Copying
<1>5. DOMAIN store' = DOMAIN store \ {p} /\ \A q \in DOMAIN store' : store'[q] = store[q]
  BY <1>1, <1>2, DeleteFacts
<1>6. CopyTyped' /\ (SourceStill' <=> SourceStill)
  <2>1. PICK j : j = job
    OBVIOUS
  <2> QED BY <1>1, <1>4, <2>1, JobGoesOn DEF CopyInv, Copying
<1>7. Transferring({})'
  BY <1>1, <1>3, <1>4, <1>5, <1>6 DEF Transferring
<1> QED BY <1>1, <1>6, <1>7 DEF CopyInv, ExactInv

LEMMA JoinTwo == ASSUME NEW a, NEW b, NEW c PROVE <<a, b>> \o <<c>> = <<a, b, c>>
<1> DEFINE s == <<a, b>> \o <<c>>
<1>1. /\ <<a, b>> \in Seq({a, b, c}) /\ <<c>> \in Seq({a, b, c})
      /\ Len(<<a, b>>) = 2 /\ Len(<<c>>) = 1
  OBVIOUS
<1>2. s \in Seq({a, b, c}) /\ Len(s) = 3 /\ s[1] = a /\ s[2] = b /\ s[3] = c
  BY <1>1
<1> HIDE DEF s
<1>3. \A x \in Seq({a, b, c}) : Len(x) = 3 /\ x[1] = a /\ x[2] = b /\ x[3] = c => x = <<a, b, c>>
  OBVIOUS
<1> QED BY <1>2, <1>3 DEF s

LEMMA EndTransfersInv ==
  ASSUME CopyInv, EndTransfers
  PROVE  CopyInv'
<1>1. /\ job.doing = "exact" /\ job.todo = {} /\ Extraneous = {}
      /\ UNCHANGED <<mode, version, copies, use, store>>
  BY DEF EndTransfers, repoVars, session, copying
<1>2. PICK rel : rel = Source[Release(SourceSuite)]
  OBVIOUS
<1>3. job # NoJob /\ use.copies # 0 /\ mode = "closed" /\ Transferring({})
  BY <1>1, Busy DEF CopyInv, CopyTyped, ExactInv, Copying
<1>4. /\ version \in DOMAIN SourceAt /\ Source = SourceAt[version] /\ From = rel
      /\ IsRelease(SourceSuite, rel) /\ rel.suite = SourceSuite
      /\ SourceStill => rel = job.root
  <2>1. version \in DOMAIN SourceAt /\ Source = SourceAt[version] /\ From = rel
    BY <1>2, SourceNow DEF CopyInv
  <2>2. SourceSuite \in Suites /\ IsRelease(SourceSuite, rel)
    BY <1>2, <2>1, SourceFacts
  <2> QED BY <1>3, <2>1, <2>2, ReleaseFields DEF SourceStill
<1>5. job' = [job EXCEPT !.doing = "endExact", !.todo =
                (IF job.sign THEN <<DetachedFile(rel), InlineFile(rel)>> ELSE <<>>) \o <<ConfigFile>>]
  BY <1>2, <1>4 DEF EndTransfers, DetachedFile, InlineFile, ConfigFile
<1>6. /\ job'.doing = "endExact" /\ job'.root = job.root /\ job'.seen = job.seen
      /\ job'.known = job.known /\ job'.sign = job.sign /\ job'.prune = job.prune
      /\ job'.todo = (IF job.sign THEN <<DetachedFile(rel), InlineFile(rel)>> ELSE <<>>) \o <<ConfigFile>>
  BY <1>5
<1>7. CopyTyped' /\ (SourceStill' <=> SourceStill)
  <2>1. PICK j : j = job'
    OBVIOUS
  <2> QED BY <1>1, <1>3, <1>6, <2>1, JobGoesOn DEF CopyInv, Copying
<1>8. Transferring({})'
  BY <1>1, <1>3, <1>6, <1>7 DEF Transferring
<1>9. Ending(rel)'
  <2>1. <<DetachedFile(rel), InlineFile(rel)>> \o <<ConfigFile>>
          = <<DetachedFile(rel), InlineFile(rel), ConfigFile>>
    BY JoinTwo
  <2>2. <<>> \o <<ConfigFile>> = <<ConfigFile>>
    OBVIOUS
  <2>3. CASE job.sign
    BY <1>6, <2>1, <2>3 DEF Ending
  <2>4. CASE ~job.sign
    BY <1>6, <2>2, <2>4 DEF Ending
  <2> QED BY <2>3, <2>4
<1>10. (job.prune /\ SourceStill /\ InRelease(SourceSuite) \in DOMAIN store =>
         store[InRelease(SourceSuite)].inline = job.root)'
  <2>1. job.prune => DOMAIN store \subseteq DOMAIN job.seen
    BY <1>1 DEF Extraneous
  <2> QED BY <1>1, <1>3, <1>6, <1>7, <2>1 DEF Transferring
<1>11. (\E r : IsRelease(SourceSuite, r) /\ (SourceStill => r = job.root) /\ Ending(r))'
  BY <1>4, <1>6, <1>7, <1>9
<1> QED BY <1>1, <1>3, <1>6, <1>7, <1>8, <1>10, <1>11 DEF CopyInv, ExactInv

\* Writing a signature or the configuration after the transfers.
LEMMA PutAfterTransfers ==
  ASSUME CopyTyped, job # NoJob, Transferring({}), NEW p \in Sigs \cup {Config}, NEW c,
         StorePut(p, c), SourceStill /\ p = InRelease(SourceSuite) => c.inline = job.root,
         SourceStill' <=> SourceStill, NEW j, job' = j,
         j.known = job.known, j.seen = job.seen, j.root = job.root
  PROVE  Transferring({})'
<1>1. /\ DOMAIN store' = DOMAIN store \cup {p} /\ store'[p] = c
      /\ \A q \in DOMAIN store : q # p => store'[q] = store[q]
  BY PutFacts
<1>2. p \notin job.known /\ p # Release(SourceSuite)
  BY KnownApart, FrontKinds, ConfigKinds DEF Sigs
<1>3. \A q \in job.known : q \in DOMAIN store' /\ store'[q] = job.seen[q]
  BY <1>1, <1>2 DEF Transferring
<1>4. /\ Release(SourceSuite) \in DOMAIN store'
      /\ SourceStill => store'[Release(SourceSuite)] = job.root
  BY <1>1, <1>2 DEF Transferring
<1>5. SourceStill /\ InRelease(SourceSuite) \in DOMAIN job.seen =>
        InRelease(SourceSuite) \in DOMAIN store' /\ store'[InRelease(SourceSuite)].inline = job.root
  BY <1>1 DEF Transferring
<1>6. /\ job.known = DOMAIN Vouched(job.root)
      /\ job.known \cup {Release(SourceSuite)} \subseteq DOMAIN job.seen
      /\ \A q \in job.known : job.seen[q] = Vouched(job.root)[q]
      /\ \A q \in DOMAIN job.seen \ job.known : ~IsPool(q) /\ \A t : IsSuite(q, t) => t = SourceSuite
  BY DEF Transferring
<1> QED BY <1>3, <1>4, <1>5, <1>6 DEF Transferring

LEMMA WriteEndInv ==
  ASSUME CopyInv, WriteEnd
  PROVE  CopyInv'
<1>1. /\ job.doing \in {"endExact", "endRebuild"}
      /\ StorePut(Head(job.todo).to, Head(job.todo).data)
      /\ UNCHANGED <<mode, version, copies, use>>
  BY DEF WriteEnd, repoVars, session, copying
<1>2. job # NoJob /\ use.copies # 0 /\ mode = "closed" /\ ExactInv
  BY <1>1, Busy DEF CopyInv, CopyTyped, Copying
<1>3. CASE Len(job.todo) = 1
  <2>1. job' = NoJob
    BY <1>3 DEF WriteEnd
  <2>2. CopyTyped'
    BY <1>1, <1>2, <2>1, Busy DEF CopyInv, CopyTyped
  <2> QED BY <2>1, <2>2, Busy DEF CopyInv, ExactInv
<1>4. CASE Len(job.todo) # 1
  <2>1. job' = [job EXCEPT !.todo = Tail(job.todo)]
    BY <1>4 DEF WriteEnd
  <2>2. job.doing = "endExact"
    <3>1. Len(<<ConfigFile>>) = 1
      OBVIOUS
    <3> QED BY <1>1, <1>2, <1>4, <3>1 DEF ExactInv
  <2>3. PICK rel : IsRelease(SourceSuite, rel) /\ (SourceStill => rel = job.root) /\ Ending(rel)
    BY <1>2, <2>2 DEF ExactInv
  <2>4. rel.suite = SourceSuite
    <3>1. SourceSuite \in Suites
      BY SourceAssumption
    <3> QED BY <2>3, <3>1, ReleaseFields
  <2>5. /\ job'.doing = "endExact" /\ job'.root = job.root /\ job'.seen = job.seen
        /\ job'.known = job.known /\ job'.sign = job.sign /\ job'.prune = job.prune
        /\ job'.todo = Tail(job.todo)
    BY <2>1, <2>2
  <2>6. CopyTyped' /\ (SourceStill' <=> SourceStill)
    <3>1. PICK j : j = job'
      OBVIOUS
    <3> QED BY <1>1, <1>2, <2>5, <3>1, JobGoesOn DEF CopyInv, Copying
  <2>7. Transferring({})
    BY <1>2, <2>2 DEF ExactInv
  <2>8. /\ InRelease(SourceSuite) # ReleaseGPG(SourceSuite)
        /\ InRelease(SourceSuite) \in Sigs /\ ReleaseGPG(SourceSuite) \in Sigs
        /\ [inline |-> rel].inline = rel
    BY FrontKinds DEF Sigs
  <2>9. job.prune /\ SourceStill /\ InRelease(SourceSuite) \in DOMAIN store =>
          store[InRelease(SourceSuite)].inline = job.root
    BY <1>2, <2>2 DEF ExactInv
  <2>10. CASE job.sign /\ job.todo = <<DetachedFile(rel), InlineFile(rel), ConfigFile>>
    <3>1. Head(job.todo) = DetachedFile(rel) /\ Tail(job.todo) = <<InlineFile(rel), ConfigFile>>
      BY <2>10
    <3>2. StorePut(ReleaseGPG(SourceSuite), [signs |-> rel])
      BY <1>1, <2>4, <3>1 DEF DetachedFile
    <3>3. /\ DOMAIN store' = DOMAIN store \cup {ReleaseGPG(SourceSuite)}
          /\ store'[ReleaseGPG(SourceSuite)] = [signs |-> rel]
          /\ \A q \in DOMAIN store : q # ReleaseGPG(SourceSuite) => store'[q] = store[q]
      BY <3>2, PutFacts
    <3>4. Transferring({})'
      BY <1>2, <2>5, <2>6, <2>7, <2>8, <3>2, PutAfterTransfers DEF CopyInv
    <3>5. Ending(rel)'
      BY <2>5, <2>10, <3>1, <3>3 DEF Ending
    <3> QED BY <2>3, <2>5, <2>6, <2>8, <2>9, <3>3, <3>4, <3>5 DEF CopyInv, ExactInv
  <2>11. CASE /\ job.sign /\ job.todo = <<InlineFile(rel), ConfigFile>>
              /\ ReleaseGPG(SourceSuite) \in DOMAIN store
              /\ store[ReleaseGPG(SourceSuite)] = [signs |-> rel]
    <3>1. Head(job.todo) = InlineFile(rel) /\ Tail(job.todo) = <<ConfigFile>>
      BY <2>11
    <3>2. StorePut(InRelease(SourceSuite), [inline |-> rel])
      BY <1>1, <2>4, <3>1 DEF InlineFile
    <3>3. /\ DOMAIN store' = DOMAIN store \cup {InRelease(SourceSuite)}
          /\ store'[InRelease(SourceSuite)] = [inline |-> rel]
          /\ \A q \in DOMAIN store : q # InRelease(SourceSuite) => store'[q] = store[q]
      BY <3>2, PutFacts
    <3>4. Transferring({})'
      BY <1>2, <2>3, <2>5, <2>6, <2>7, <2>8, <3>2, PutAfterTransfers DEF CopyInv
    <3>5. Ending(rel)'
      BY <2>5, <2>8, <2>11, <3>1, <3>3 DEF Ending
    <3> QED BY <2>3, <2>5, <2>6, <2>8, <3>3, <3>4, <3>5 DEF CopyInv, ExactInv
  <2>12. job.todo # <<ConfigFile>>
    <3>1. Len(<<ConfigFile>>) = 1
      OBVIOUS
    <3> QED BY <1>4, <3>1
  <2> QED BY <2>3, <2>10, <2>11, <2>12 DEF Ending
<1> QED BY <1>3, <1>4

LEMMA CutCopyInv ==
  ASSUME CopyInv, CutCopy
  PROVE  CopyInv'
<1>1. job' = NoJob /\ mode' = "closed" /\ use' = use /\ version' = version /\ copies' = copies
  BY DEF CutCopy, Forget, copying
<1>2. CopyTyped'
  BY <1>1, Busy DEF CopyInv, CopyTyped
<1> QED BY <1>1, <1>2, Busy DEF CopyInv, ExactInv

\* A rebuilding copy is a session of its own: it leaves what exact copies are
\* about to others.
LEMMA RebuildingInv ==
  ASSUME CopyInv,
         \/ \E e \in Entries : PlaceCopy(e)
         \/ job.doing = "rebuild" /\ \E m \in job.moves : CopyFile(m)
         \/ PruneCopied \/ CommitCopied \/ PublishCopied \/ EndRebuilding
  PROVE  CopyInv'
<1>1. UNCHANGED <<version, copies, use>>
  BY DEF PlaceCopy, CopyFile, PruneCopied, CommitCopied, PublishCopied, EndRebuilding, copying,
         PruneOlderVersions, Call, Commit, Publishing, Finish, Forget, session
<1>2. job.doing = "rebuild" /\ job # NoJob /\ use.copies # 0
  <2>1. PublishCopied => job.doing = "rebuild"
    BY DEF PublishCopied, Publishing, CopyInv, CopyTyped
  <2>2. job.doing = "rebuild"
    BY <2>1 DEF PlaceCopy, CopyFile, PruneCopied, CommitCopied, EndRebuilding, Transferred
  <2> QED BY <2>2, Busy DEF CopyInv, CopyTyped, Copying
<1>3. CASE EndRebuilding
  <2>1. /\ mode' = "closed"
        /\ job' = [doing |-> "endRebuild", root |-> job.root,
                   todo |-> <<[to |-> Config, data |-> CopiedFrom(Here)]>>]
    BY <1>3 DEF EndRebuilding, Finish, Forget
  <2>2. job'.doing = "endRebuild" /\ job'.root = job.root /\ job'.todo = <<ConfigFile>>
    BY <2>1 DEF ConfigFile
  <2>3. CopyTyped'
    <3>1. PICK j : j = job'
      OBVIOUS
    <3> QED BY <1>1, <1>2, <2>1, <2>2, <3>1, JobGoesOn DEF CopyInv, Copying
  <2> QED BY <2>2, <2>3 DEF CopyInv, ExactInv
<1>4. CASE ~EndRebuilding
  <2>1. job'.doing = "rebuild" /\ job'.root = job.root
    <3>1. ASSUME NEW e \in Entries, PlaceCopy(e) PROVE job'.doing = "rebuild" /\ job'.root = job.root
      <4>1. \E moves : job' = [job EXCEPT !.todo = @ \ {e}, !.moves = moves]
        BY <3>1 DEF PlaceCopy
      <4> QED BY <1>2, <4>1
    <3>2. ASSUME NEW m, CopyFile(m) PROVE job'.doing = "rebuild" /\ job'.root = job.root
      <4>1. job' = [job EXCEPT !.moves = @ \ {m}]
        BY <3>2 DEF CopyFile
      <4> QED BY <1>2, <4>1
    <3>3. PruneCopied \/ CommitCopied \/ PublishCopied => job' = job
      BY DEF PruneCopied, CommitCopied, PublishCopied
    <3> QED BY <1>2, <1>4, <3>1, <3>2, <3>3
  <2>2. mode' \in {"open", "publishing"}
    <3>1. mode \in {"open", "publishing"}
      BY <1>2 DEF CopyInv, CopyTyped
    <3> QED BY <1>4, <3>1 DEF PlaceCopy, CopyFile, PruneCopied, CommitCopied, PublishCopied,
                              PruneOlderVersions, Call, Commit, Publishing
  <2>3. CopyTyped'
    <3>1. PICK j : j = job'
      OBVIOUS
    <3> QED BY <1>1, <1>2, <2>1, <2>2, <3>1, JobGoesOn DEF CopyInv, Copying
  <2> QED BY <2>1, <2>3 DEF CopyInv, ExactInv
<1> QED BY <1>3, <1>4

\* Where nothing is copied the repository is worked on as ever.
LEMMA NoCopyInv ==
  ASSUME CopyInv, use.copies = 0, Next, UNCHANGED <<job, copying>>
  PROVE  CopyInv'
<1>1. use' = use
  BY DEF Next, Open, Mutate, Add, RemoveID, PruneOlderVersions, RelocateAll, Refresh, Call, Commit,
         Abandon, Publishing, Finish, CutShort, Forget, session
<1>2. CopyTyped'
  BY <1>1 DEF CopyInv, CopyTyped, copying
<1> QED BY <1>1, <1>2 DEF CopyInv

LEMMA CopyInitInv == CopyInit => CopyInv
<1> SUFFICES ASSUME CopyInit PROVE CopyInv
  OBVIOUS
<1>1. use \in Uses /\ version = 1 /\ job = NoJob /\ copies = 0 /\ mode = "closed"
  BY DEF CopyInit, Init
<1>2. version \in DOMAIN SourceAt
  BY <1>1, Versions
<1> QED BY <1>1, <1>2, Busy DEF CopyInv, CopyTyped, ExactInv

LEMMA CopyNextInv ==
  CanHash /\ Ordered /\ CopyInv /\ [CopyNext]_copyVars => CopyInv'
<1> SUFFICES ASSUME CanHash, Ordered, CopyInv, [CopyNext]_copyVars PROVE CopyInv'
  OBVIOUS
<1> QED
  BY StartExactInv, StartRebuildingInv, CopyObjectInv, PruneObjectInv, EndTransfersInv, WriteEndInv,
     CutCopyInv, RebuildingInv, SourcePublishesInv, NoCopyInv DEF CopyNext

LEMMA CopySpecInv == ASSUME CanHash, Ordered PROVE CopySpec => []CopyInv
BY CopyInitInv, CopyNextInv, PTL DEF CopySpec

\* ReplicaMade: an exact copy whose source stays as it is leaves all of it, and
\* signatures of its Release, however often it was taken up again (copy.go).
THEOREM AptReplicaMade ==
  ASSUME CanHash, Ordered
  PROVE  CopySpec => ReplicaMade
<1>1. ASSUME CopyInv, WriteEnd, job.doing = "endExact", job' = NoJob, SourceStill
      PROVE  /\ store[Release(SourceSuite)] = job.root
             /\ \A p \in job.known : p \in DOMAIN store /\ store[p] = job.seen[p]
             /\ InRelease(SourceSuite) \in DOMAIN store
                  /\ (job.sign \/ job.prune \/ InRelease(SourceSuite) \in DOMAIN job.seen) =>
                  store[InRelease(SourceSuite)].inline = job.root
             /\ job.sign => store[ReleaseGPG(SourceSuite)].signs = job.root
  <2>1. job # NoJob /\ Transferring({})
    BY <1>1, Busy DEF CopyInv, CopyTyped, ExactInv, Copying
  <2>2. /\ store[Release(SourceSuite)] = job.root
        /\ \A p \in job.known : p \in DOMAIN store /\ store[p] = job.seen[p]
        /\ InRelease(SourceSuite) \in DOMAIN job.seen => store[InRelease(SourceSuite)].inline = job.root
    BY <1>1, <2>1 DEF Transferring
  <2>3. Len(job.todo) = 1
    <3>1. ASSUME Len(job.todo) # 1 PROVE FALSE
      <4>1. job' = [job EXCEPT !.todo = Tail(job.todo)]
        BY <1>1, <3>1 DEF WriteEnd
      <4>2. job'.doing = "endExact"
        BY <1>1, <4>1
      <4> QED BY <1>1, <4>2, Busy
    <3> QED BY <3>1
  <2>4. PICK rel : (SourceStill => rel = job.root) /\ Ending(rel)
    BY <1>1, <2>1 DEF CopyInv, CopyTyped, ExactInv
  <2>5. job.todo = <<ConfigFile>>
    BY <2>3, <2>4 DEF Ending
  <2>6. [inline |-> rel].inline = rel /\ [signs |-> rel].signs = rel
    OBVIOUS
  <2>7. job.sign => /\ store[InRelease(SourceSuite)].inline = job.root
                    /\ store[ReleaseGPG(SourceSuite)].signs = job.root
    BY <1>1, <2>4, <2>5, <2>6 DEF Ending
  <2>8. job.prune /\ InRelease(SourceSuite) \in DOMAIN store =>
          store[InRelease(SourceSuite)].inline = job.root
    BY <1>1, <2>1 DEF CopyInv, CopyTyped, ExactInv
  <2> QED BY <2>2, <2>7, <2>8
<1> QED BY <1>1, CopySpecInv, PTL DEF ReplicaMade, CopySpec

----------------------------------------------------------------------------
(* What copies leave where clients read.                                   *)

\* What a rebuilding copy has in memory: it stages nothing.
RebuildInv ==
  /\ clock \in Nat
  /\ mode # "closed" =>
       /\ opt \in Options /\ TypedIndex(idx) /\ pending = <<>>
       /\ old = NoRelease \/ IsRelease(opt.suite, old)
       /\ original = Locations(Ingested(old))
       /\ mode = "open" => old = Root(opt.suite)
  /\ job.doing = "rebuild" =>
       /\ job.todo \subseteq job.chosen /\ job.chosen \subseteq DOMAIN Ingested(job.root)
       /\ \A m \in job.moves : m.to \in Places
       /\ mode = "publishing" => job.todo = {} /\ job.moves = {}

\* A publish of a copy: the Release to come is of the index, its indexes are in
\* place or about to be, and so are its files, unless the plan passed over them.
DescribedInv ==
  \A d \in Coming.docs : LET p == IndexPath(Coming, d) IN
    /\ \A u \in Range(work.metadata) : u.to = p => u.data = d
    /\ (\E u \in Range(work.metadata) : u.to = p) \/ (p \in DOMAIN store /\ store[p] = d)

PlacedInv ==
  /\ DOMAIN Coming.pool \subseteq AllLocations(idx)
  /\ \A p \in DOMAIN Coming.pool : \A c :
       (\A e \in Owners(idx, p) : Files(e)[p.base] = c) => Coming.pool[p] = c
  /\ \A p \in AllLocations(idx) :
       p \in DOMAIN store \cup DOMAIN original \cup copied \/ \E c \in work.copies : c.to = p

SwappingInv == LET s == opt.suite IN
  /\ \/ work.swap = <<ReleaseFile(Coming), DetachedFile(Coming), InlineFile(Coming)>>
     \/ work.swap = <<ReleaseFile(Coming)>>
     \/ /\ Release(s) \in DOMAIN store /\ Coming = store[Release(s)]
        /\ \/ work.swap = <<DetachedFile(Coming), InlineFile(Coming)>>
           \/ work.swap = <<InlineFile(Coming)>>
           \/ work.swap = <<>>
  /\ InRelease(s) \in DOMAIN store => \/ InlineFile(Coming) \in Range(work.swap)
                                      \/ InRelease(s) \in Range(work.retract)
                                      \/ store[InRelease(s)].inline = Coming

CollectingInv == \A p \in Doomed :
  /\ p \notin Fronts /\ p \notin DOMAIN NamedBy(Coming) /\ p \notin AllLocations(idx)
  /\ \/ IsSuite(p, opt.suite) /\ p \notin Places
     \/ opt.unreferenced /\ IsPool(p)
     \/ IsPool(p) /\ p \in DOMAIN original

PublishInv ==
  IF mode = "publishing"
  THEN /\ work \in AptShape(opt.suite, Doomed)
       /\ IsRelease(opt.suite, Coming)
       /\ work.uploads = {}
       /\ DescribedInv /\ PlacedInv /\ SwappingInv /\ CollectingInv
  ELSE work = NoSteps

\* Of a repository that is copied into.
IntoInv == use.copies # 0 => FrontsInv /\ RebuildInv /\ PublishInv

\* A file where clients start is of one suite.
LEMMA FrontsApart ==
  ASSUME NEW s, NEW p \in FrontsOf(s)
  PROVE  /\ s \in Suites => p \in Fronts
         /\ p.suite = s /\ IsSuite(p, s) /\ ~IsPool(p)
         /\ \A t : IsSuite(p, t) => t = s
         /\ \A t : p \in FrontsOf(t) => t = s
<1>1. p.suite = s /\ DOMAIN p = {"suite", "file"}
  BY DEF FrontsOf, Release, InRelease, ReleaseGPG
<1>2. \A t : p \in FrontsOf(t) => p.suite = t
  BY DEF FrontsOf, Release, InRelease, ReleaseGPG
<1>3. s \in Suites => p \in Fronts
  BY DEF FrontsOf, Fronts
<1> QED BY <1>1, <1>2, <1>3 DEF IsSuite, IsPool

LEMMA FrontsAll ==
  \A p : p \in Fronts <=> \E s \in Suites : p \in FrontsOf(s)
BY DEF Fronts, FrontsOf

\* A step that puts what fits where clients start, or leaves that alone.
LEMMA PutFronts ==
  ASSUME FrontsInv, NEW p, NEW c, StorePut(p, c),
         \A s \in Suites : p \in FrontsOf(s) => FrontContent(s, p, c)
  PROVE  FrontsInv'
<1>1. /\ DOMAIN store' = DOMAIN store \cup {p} /\ store'[p] = c
      /\ \A q \in DOMAIN store : q # p => store'[q] = store[q]
  BY PutFacts
<1>2. ASSUME NEW s \in Suites, NEW q \in FrontsOf(s) \cap DOMAIN store'
      PROVE  FrontContent(s, q, store'[q])
  <2>1. CASE q = p
    BY <1>1, <1>2, <2>1
  <2>2. CASE q # p
    BY <1>1, <1>2, <2>2 DEF FrontsInv
  <2> QED BY <2>1, <2>2
<1> QED BY <1>2 DEF FrontsInv, FrontContent

LEMMA KeepFronts ==
  ASSUME FrontsInv, \A q \in DOMAIN store' : q \in DOMAIN store /\ store'[q] = store[q]
  PROVE  FrontsInv'
<1>1. ASSUME NEW s \in Suites, NEW q \in FrontsOf(s) \cap DOMAIN store'
      PROVE  FrontContent(s, q, store'[q])
  BY <1>1 DEF FrontsInv
<1> QED BY <1>1 DEF FrontsInv, FrontContent

LEMMA RootFronts ==
  ASSUME FrontsInv, NEW s \in Suites
  PROVE  Root(s) = NoRelease \/ IsRelease(s, Root(s))
BY DEF FrontsInv, FrontsOf, FrontContent, Root, ReleaseIn

\* The Release to come, read off what is left to swap.
LEMMA SwapRest ==
  ASSUME NEW s, NEW rel, rel.suite = s, NEW swap
  PROVE  LET rest == {f \in Range(swap) : f.to = Release(s)} IN
         /\ swap \in {<<ReleaseFile(rel), DetachedFile(rel), InlineFile(rel)>>, <<ReleaseFile(rel)>>} =>
              rest = {ReleaseFile(rel)} /\ ReleaseFile(rel).data = rel
         /\ swap \in {<<DetachedFile(rel), InlineFile(rel)>>, <<InlineFile(rel)>>, <<>>} => rest = {}
<1>1. \A a, b, c : /\ Range(<<a, b, c>>) = {a, b, c} /\ Range(<<a, b>>) = {a, b}
                   /\ Range(<<a>>) = {a}
  BY DEF Range
<1>2. Range(<<>>) = {}
  BY DEF Range
<1>3. /\ ReleaseFile(rel).to = Release(s) /\ ReleaseFile(rel).data = rel
      /\ DetachedFile(rel).to # Release(s) /\ InlineFile(rel).to # Release(s)
  BY FrontKinds DEF ReleaseFile, DetachedFile, InlineFile
<1>4. CASE swap = <<ReleaseFile(rel), DetachedFile(rel), InlineFile(rel)>>
  <2>1. Range(swap) = {ReleaseFile(rel), DetachedFile(rel), InlineFile(rel)}
    BY <1>1, <1>4
  <2>2. swap # <<DetachedFile(rel), InlineFile(rel)>> /\ swap # <<InlineFile(rel)>> /\ swap # <<>>
    BY <1>4
  <2> QED BY <1>3, <2>1, <2>2
<1>5. CASE swap = <<ReleaseFile(rel)>>
  <2>1. Range(swap) = {ReleaseFile(rel)}
    BY <1>1, <1>5
  <2>2. swap # <<DetachedFile(rel), InlineFile(rel)>> /\ swap # <<>>
    BY <1>5
  <2>3. swap # <<InlineFile(rel)>>
    BY <1>1, <1>3, <2>1
  <2> QED BY <1>3, <2>1, <2>2, <2>3
<1>6. CASE swap \in {<<DetachedFile(rel), InlineFile(rel)>>, <<InlineFile(rel)>>, <<>>}
           /\ swap # <<ReleaseFile(rel), DetachedFile(rel), InlineFile(rel)>> /\ swap # <<ReleaseFile(rel)>>
  <2>1. Range(swap) \subseteq {DetachedFile(rel), InlineFile(rel)}
    BY <1>1, <1>2, <1>6
  <2> QED BY <1>3, <1>6, <2>1
<1> QED BY <1>4, <1>5, <1>6

----------------------------------------------------------------------------
(* The steps of copies, and what they leave there.                         *)

LEMMA IntoClosed ==
  ASSUME FrontsInv', clock' \in Nat, mode' = "closed", job'.doing # "rebuild", work' = NoSteps
  PROVE  IntoInv'
BY DEF IntoInv, RebuildInv, PublishInv

LEMMA IntoInit == CopyInit => IntoInv
<1> SUFFICES ASSUME CopyInit PROVE IntoInv
  OBVIOUS
<1>1. mode = "closed" /\ work = NoSteps /\ clock \in Nat /\ job = NoJob /\ use \in Uses /\ store = use.store
  BY DEF CopyInit, Init
<1>2. FrontsInv
  <2> SUFFICES ASSUME NEW s \in Suites, NEW p \in FrontsOf(s) \cap DOMAIN store
               PROVE  FrontContent(s, p, store[p])
    BY DEF FrontsInv
  <2>1. /\ Release(s) \in DOMAIN store => IsRelease(s, store[Release(s)])
        /\ InRelease(s) \in DOMAIN store =>
             /\ store[InRelease(s)] = [inline |-> store[InRelease(s)].inline]
             /\ IsRelease(s, store[InRelease(s)].inline)
        /\ ReleaseGPG(s) \in DOMAIN store =>
             store[ReleaseGPG(s)] = [signs |-> store[ReleaseGPG(s)].signs]
    BY <1>1, UseAssumption
  <2> QED BY <2>1 DEF FrontContent
<1> QED BY <1>1, <1>2, Busy DEF IntoInv, RebuildInv, PublishInv

\* What an exact copy reads of the files that clients start from is the source's own.
LEMMA ObjectFront ==
  ASSUME CopyTyped, job # NoJob, NEW left, Transferring(left),
         NEW p \in DOMAIN job.seen \cap DOMAIN Source, NEW s \in Suites, p \in FrontsOf(s)
  PROVE  /\ s = SourceSuite /\ FrontContent(s, p, Source[p])
         /\ p = Release(s) => Source[p] = From
         /\ p = InRelease(s) => Source[p] = [inline |-> From]
         /\ p = ReleaseGPG(s) => Source[p] = [signs |-> From]
<1>1. p \notin job.known
  <2>1. PICK v \in DOMAIN SourceAt : job.root = SourceRoot(v)
    BY JobFacts
  <2>2. \A q \in DOMAIN Vouched(SourceRoot(v)) : q \notin Fronts
    BY VouchedFacts
  <2>3. p \in Fronts
    BY FrontsApart
  <2> QED BY <2>1, <2>2, <2>3 DEF Transferring
<1>2. s = SourceSuite
  <2>1. IsSuite(p, s)
    BY FrontsApart
  <2> QED BY <1>1, <2>1 DEF Transferring
<1>3. PICK rel : rel = SourceRoot(version)
  OBVIOUS
<1>4. /\ IsRelease(SourceSuite, rel) /\ From = rel
      /\ p = Release(SourceSuite) => Source[p] = rel
      /\ p = InRelease(SourceSuite) => Source[p] = [inline |-> rel]
      /\ p = ReleaseGPG(SourceSuite) => Source[p] = [signs |-> rel]
  BY <1>3, SourceNow, SourceFacts
<1>5. [inline |-> rel].inline = rel /\ [signs |-> rel].signs = rel
  OBVIOUS
<1> QED BY <1>2, <1>4, <1>5, FrontKinds DEF FrontContent

\* The last writes of a copy: the configuration, or a signature.
LEMMA EndFile ==
  ASSUME CopyInv, WriteEnd, NEW f, f = Head(job.todo)
  PROVE  /\ \/ f = ConfigFile
            \/ /\ job.doing = "endExact"
               /\ \E rel : /\ IsRelease(SourceSuite, rel) /\ (SourceStill => rel = job.root)
                          /\ f \in {DetachedFile(rel), InlineFile(rel)}
         /\ \A s \in Suites : f.to \in FrontsOf(s) => FrontContent(s, f.to, f.data)
<1>1. job.doing \in {"endExact", "endRebuild"}
  BY DEF WriteEnd
<1>2. ExactInv
  BY <1>1, Busy DEF CopyInv, CopyTyped, Copying
<1>3. \/ f = ConfigFile
      \/ /\ job.doing = "endExact"
         /\ \E rel : /\ IsRelease(SourceSuite, rel) /\ (SourceStill => rel = job.root)
                    /\ f \in {DetachedFile(rel), InlineFile(rel)}
  <2>1. CASE job.doing = "endRebuild"
    <3>1. job.todo = <<ConfigFile>>
      BY <1>2, <2>1 DEF ExactInv
    <3> QED BY <3>1
  <2>2. CASE job.doing = "endExact"
    <3>1. PICK rel : IsRelease(SourceSuite, rel) /\ (SourceStill => rel = job.root) /\ Ending(rel)
      BY <1>2, <2>2 DEF ExactInv
    <3>2. job.todo \in {<<DetachedFile(rel), InlineFile(rel), ConfigFile>>,
                        <<InlineFile(rel), ConfigFile>>, <<ConfigFile>>}
      BY <3>1 DEF Ending
    <3>3. f \in {DetachedFile(rel), InlineFile(rel), ConfigFile}
      BY <3>2
    <3> QED BY <2>2, <3>1, <3>3
  <2> QED BY <1>1, <2>1, <2>2
<1>4. ASSUME NEW s \in Suites, f.to \in FrontsOf(s)
      PROVE  FrontContent(s, f.to, f.data)
  <2>1. CASE f = ConfigFile
    <3>1. f.to = Config
      BY <2>1 DEF ConfigFile
    <3> QED BY <1>4, <3>1, ConfigKinds, FrontsApart
  <2>2. ASSUME NEW rel, IsRelease(SourceSuite, rel), f \in {DetachedFile(rel), InlineFile(rel)}
        PROVE  FrontContent(s, f.to, f.data)
    <3>1. rel.suite = SourceSuite
      BY <2>2, SourceAssumption, ReleaseFields
    <3>2. /\ f.to = ReleaseGPG(SourceSuite) => f.data = [signs |-> rel]
          /\ f.to = InRelease(SourceSuite) => f.data = [inline |-> rel]
          /\ f.to \in {ReleaseGPG(SourceSuite), InRelease(SourceSuite)}
          /\ f.to \in FrontsOf(SourceSuite)
      BY <2>2, <3>1, FrontKinds DEF DetachedFile, InlineFile, FrontsOf
    <3>3. s = SourceSuite
      BY <1>4, <3>2, FrontsApart
    <3>4. [inline |-> rel].inline = rel /\ [signs |-> rel].signs = rel
      OBVIOUS
    <3> QED BY <2>2, <3>2, <3>3, <3>4, FrontKinds DEF FrontContent
  <2> QED BY <1>3, <2>1, <2>2
<1> QED BY <1>3, <1>4

\* Steps of an exact copy, and of the source.
LEMMA IntoExact ==
  ASSUME CanHash, Ordered, CopyInv, IntoInv, use.copies # 0,
         \/ \E how : StartExact(how)
         \/ CopyObject \/ PruneObject \/ EndTransfers \/ WriteEnd \/ CutCopy
  PROVE  IntoInv'
<1>1. FrontsInv /\ RebuildInv /\ PublishInv /\ clock \in Nat
  BY DEF IntoInv, RebuildInv
<1>2. ASSUME NEW how, StartExact(how) PROVE IntoInv'
  <2>1. mode = "closed" /\ UNCHANGED aptVars /\ job'.doing = "exact"
    BY <1>2 DEF StartExact
  <2>2. mode' = "closed" /\ store' = store /\ work' = work /\ clock' = clock
    BY <2>1 DEF aptVars
  <2>3. work = NoSteps
    BY <1>1, <2>1 DEF PublishInv
  <2> QED BY <1>1, <2>1, <2>2, <2>3, KeepFronts, IntoClosed
<1>3. CASE CopyObject
  <2>1. job.doing = "exact" /\ job.todo # {} /\ UNCHANGED <<mode, work, clock>>
    BY <1>3 DEF CopyObject, repoVars
  <2>2. PICK p : p = First(Ranked(job.todo))
    OBVIOUS
  <2>3. job # NoJob /\ mode = "closed" /\ Transferring(job.todo)
    BY <2>1, Busy DEF CopyInv, CopyTyped, ExactInv, Copying
  <2>4. /\ job' = [job EXCEPT !.todo = @ \ {p}]
        /\ store' = store \/ (p \in DOMAIN Source /\ StorePut(p, Source[p]))
    BY <1>3, <2>2, <2>3, ObjectFacts DEF CopyInv
  <2>5. job'.doing = "exact"
    BY <2>1, <2>4
  <2>6. p \in DOMAIN job.seen
    BY <2>1, <2>2, <2>3, NextObject DEF Transferring
  <2>8. \A s \in Suites : p \in FrontsOf(s) /\ p \in DOMAIN Source => FrontContent(s, p, Source[p])
    BY <2>3, <2>6, ObjectFront DEF CopyInv
  <2>9. FrontsInv'
    <3>1. CASE store' = store
      BY <1>1, <3>1, KeepFronts
    <3>2. CASE p \in DOMAIN Source /\ StorePut(p, Source[p])
      <4>1. PICK c : c = Source[p]
        OBVIOUS
      <4> QED BY <1>1, <2>8, <3>2, <4>1, PutFronts
    <3> QED BY <2>4, <3>1, <3>2
  <2>10. work = NoSteps
    BY <1>1, <2>3 DEF PublishInv
  <2> QED BY <1>1, <2>1, <2>3, <2>5, <2>9, <2>10, IntoClosed
<1>4. CASE PruneObject
  <2>1. /\ job.doing = "exact" /\ StoreDelete(First(Extraneous))
        /\ UNCHANGED <<mode, work, clock, job>>
    BY <1>4 DEF PruneObject, repoVars
  <2>2. mode = "closed"
    BY <2>1 DEF CopyInv, CopyTyped
  <2>3. FrontsInv'
    BY <1>1, <2>1, DeleteFacts, KeepFronts
  <2>4. work = NoSteps
    BY <1>1, <2>2 DEF PublishInv
  <2> QED BY <1>1, <2>1, <2>2, <2>3, <2>4, IntoClosed
<1>5. CASE EndTransfers
  <2>1. job.doing = "exact" /\ UNCHANGED <<mode, work, clock, store>>
    BY <1>5 DEF EndTransfers, repoVars
  <2>2. \E todo : job' = [job EXCEPT !.doing = "endExact", !.todo = todo]
    BY <1>5 DEF EndTransfers
  <2>3. job'.doing = "endExact"
    BY <2>1, <2>2
  <2>4. mode = "closed"
    BY <2>1 DEF CopyInv, CopyTyped
  <2>5. FrontsInv' /\ work = NoSteps
    BY <1>1, <2>1, <2>4, KeepFronts DEF PublishInv
  <2> QED BY <1>1, <2>1, <2>3, <2>4, <2>5, IntoClosed
<1>6. CASE WriteEnd
  <2>1. /\ job.doing \in {"endExact", "endRebuild"}
        /\ StorePut(Head(job.todo).to, Head(job.todo).data)
        /\ UNCHANGED <<mode, work, clock>>
    BY <1>6 DEF WriteEnd, repoVars
  <2>2. job # NoJob /\ mode = "closed" /\ ExactInv
    BY <2>1, Busy DEF CopyInv, CopyTyped, Copying
  <2>3. job'.doing # "rebuild"
    <3>1. job' = NoJob \/ job' = [job EXCEPT !.todo = Tail(@)]
      BY <1>6 DEF WriteEnd
    <3>2. ASSUME job' = [job EXCEPT !.todo = Tail(@)] PROVE job'.doing = job.doing
      BY <2>1, <3>2
    <3> QED BY <2>1, <3>1, <3>2, Busy
  <2>4. PICK f : f = Head(job.todo)
    OBVIOUS
  <2>6. \A s \in Suites : f.to \in FrontsOf(s) => FrontContent(s, f.to, f.data)
    BY <1>6, <2>4, EndFile
  <2>7. FrontsInv'
    <3>1. PICK p, c : p = f.to /\ c = f.data
      OBVIOUS
    <3> QED BY <1>1, <2>1, <2>4, <2>6, <3>1, PutFronts
  <2>8. work = NoSteps
    BY <1>1, <2>2 DEF PublishInv
  <2> QED BY <1>1, <2>1, <2>2, <2>3, <2>7, <2>8, IntoClosed
<1>7. CASE CutCopy
  <2>1. job' = NoJob /\ mode' = "closed" /\ work' = NoSteps /\ store' = store /\ clock' = clock
    BY <1>7 DEF CutCopy, Forget
  <2> QED BY <1>1, <2>1, KeepFronts, IntoClosed, Busy
<1> QED BY <1>2, <1>3, <1>4, <1>5, <1>6, <1>7

LEMMA IntoSource ==
  ASSUME IntoInv, SourcePublishes \/ UNCHANGED copyVars
  PROVE  IntoInv'
<1>1. UNCHANGED aptVars /\ job' = job
  BY DEF SourcePublishes, copyVars
<1>2. store' = store /\ work' = work /\ mode' = mode /\ session' = session /\ clock' = clock
  BY <1>1 DEF aptVars
<1>3. /\ idx' = idx /\ old' = old /\ original' = original /\ pending' = pending
      /\ copied' = copied /\ opt' = opt /\ use' = use
  BY <1>2 DEF session
<1>4. Coming' = Coming /\ Doomed' = Doomed
  BY <1>2, <1>3 DEF Coming, Doomed
<1>5. FrontsInv => FrontsInv'
  BY <1>2, KeepFronts
<1>6. RebuildInv => RebuildInv'
  BY <1>1, <1>2, <1>3 DEF RebuildInv, Root
<1>7. PublishInv => PublishInv'
  <2>1. DescribedInv => DescribedInv'
    BY <1>2, <1>4 DEF DescribedInv
  <2>2. PlacedInv => PlacedInv'
    BY <1>2, <1>3, <1>4 DEF PlacedInv
  <2>3. SwappingInv => SwappingInv'
    BY <1>2, <1>3, <1>4 DEF SwappingInv
  <2>4. CollectingInv => CollectingInv'
    BY <1>3, <1>4 DEF CollectingInv
  <2> QED BY <1>2, <1>3, <1>4, <2>1, <2>2, <2>3, <2>4 DEF PublishInv
<1> QED BY <1>3, <1>5, <1>6, <1>7 DEF IntoInv

\* A rebuilding copy that is not yet publishing.
LEMMA RebuildFacts ==
  ASSUME CopyInv, IntoInv, job.doing = "rebuild"
  PROVE  /\ use.copies # 0 /\ job # NoJob /\ FrontsInv /\ RebuildInv /\ PublishInv
         /\ mode \in {"open", "publishing"}
         /\ mode = "publishing" => job.todo = {} /\ job.moves = {}
         /\ mode = "open" => Opened /\ work = NoSteps
         /\ opt \in Options /\ opt.suite \in Suites /\ TypedIndex(idx)
         /\ TypedIndex(Ingested(job.root))
         /\ \E v \in DOMAIN SourceAt : v <= version /\ job.root = SourceRoot(v)
<1>1. use.copies # 0 /\ job # NoJob /\ mode \in {"open", "publishing"}
  BY Busy DEF CopyInv, CopyTyped, Copying
<1>2. FrontsInv /\ RebuildInv /\ PublishInv
  BY <1>1 DEF IntoInv
<1>3. opt \in Options /\ TypedIndex(idx) /\ pending = <<>> /\ clock \in Nat
  BY <1>1, <1>2 DEF RebuildInv
<1>4. opt.suite \in Suites
  BY <1>3 DEF Options
<1>5. mode = "open" => Opened /\ work = NoSteps
  BY <1>1, <1>2, <1>3, NoneYet DEF Opened, RebuildInv, PublishInv
<1>6. PICK v \in DOMAIN SourceAt : v <= version /\ job.root = SourceRoot(v)
  BY <1>1, JobFacts DEF CopyInv
<1>7. TypedIndex(Ingested(job.root))
  <2>1. PICK rel : rel = job.root
    OBVIOUS
  <2>2. SourceSuite \in Suites /\ IsRelease(SourceSuite, rel)
    BY <1>6, <2>1, SourceFacts
  <2> QED BY <2>1, <2>2, IngestedFacts
<1> QED BY <1>1, <1>2, <1>3, <1>4, <1>5, <1>6, <1>7 DEF RebuildInv

\* Files of the pool are not what a suite is loaded from.
LEMMA PutPlace ==
  ASSUME FrontsInv, NEW p \in Places, NEW c, StorePut(p, c)
  PROVE  FrontsInv' /\ \A s \in Suites : ReleaseIn(store', s) = ReleaseIn(store, s)
<1>1. p \notin Fronts
  BY PlaceKinds
<1>2. \A s \in Suites : p \notin FrontsOf(s)
  BY <1>1, FrontsAll
<1>3. FrontsInv'
  BY <1>2, PutFronts
<1>4. ASSUME NEW s \in Suites PROVE ReleaseIn(store', s) = ReleaseIn(store, s)
  BY <1>2, PutFacts DEF ReleaseIn, FrontsOf
<1> QED BY <1>3, <1>4

LEMMA IntoStart ==
  ASSUME CopyInv, IntoInv, NEW how, StartRebuilding(how)
  PROVE  IntoInv'
<1>1. /\ mode = "closed" /\ mode' = "open" /\ use' = use /\ store' = store /\ work' = work
      /\ clock' = clock /\ opt' \in use.options
      /\ old' = Root(opt'.suite) /\ original' = Locations(Ingested(old'))
      /\ idx' = (IF how = "overwrite" THEN <<>> ELSE Ingested(old'))
      /\ pending' = <<>>
      /\ Begin(how, opt'.suite)
  BY DEF StartRebuilding
<1>2. use \in Uses /\ use.copies # 0
  BY <1>1, BeginFacts DEF CopyInv, CopyTyped
<1>3. FrontsInv /\ RebuildInv /\ PublishInv
  BY <1>2 DEF IntoInv
<1>4. opt' \in Options /\ opt'.suite \in Suites
  BY <1>1, <1>2, UseAssumption DEF Options
<1>5. old' = NoRelease \/ IsRelease(opt'.suite, old')
  BY <1>1, <1>3, <1>4, RootFronts
<1>6. TypedIndex(idx')
  <2>1. TypedIndex(Ingested(old'))
    BY <1>4, <1>5, IngestedFacts
  <2> QED BY <1>1, <2>1, NoneYet
<1>7. Root(opt.suite)' = old'
  BY <1>1 DEF Root
<1>8. FrontsInv'
  BY <1>1, <1>3, KeepFronts
<1>9. RebuildInv'
  <2>1. \E chosen \in SUBSET DOMAIN Ingested(From) \ {{}}, f \in Flags :
          job' = [doing |-> "rebuild", again |-> f.again, relocate |-> f.relocate,
                  base |-> DOMAIN idx', root |-> From, chosen |-> chosen, todo |-> chosen, moves |-> {}]
    BY DEF StartRebuilding
  <2>2. /\ job'.root = From /\ job'.todo = job'.chosen /\ job'.moves = {}
        /\ job'.chosen \subseteq DOMAIN Ingested(From)
    BY <2>1
  <2> QED BY <1>1, <1>3, <1>4, <1>5, <1>6, <1>7, <2>2 DEF RebuildInv
<1>10. PublishInv'
  BY <1>1, <1>3 DEF PublishInv
<1> QED BY <1>8, <1>9, <1>10 DEF IntoInv

LEMMA IntoPlaceCopy ==
  ASSUME CopyInv, IntoInv, NEW e \in Entries, PlaceCopy(e)
  PROVE  IntoInv'
<1> DEFINE dir == IF job.relocate THEN opt.dir ELSE Ingested(job.root)[e]
           to  == [x \in (DOMAIN idx \ Superseded(e)) \cup {e} |-> IF x = e THEN dir ELSE idx[x]]
           moves == {[from |-> Location(Ingested(job.root)[e], b), to |-> Location(dir, b),
                      data |-> Files(e)[b]] : b \in DOMAIN Files(e)}
<1>1. /\ job.doing = "rebuild" /\ job.moves = {} /\ e \in job.todo
      /\ idx' = to
      /\ job' = [job EXCEPT !.todo = @ \ {e}, !.moves = moves]
      /\ UNCHANGED <<store, work, mode, old, original, pending, copied, opt, use, clock>>
  BY DEF PlaceCopy
<1>2. /\ FrontsInv /\ RebuildInv /\ PublishInv /\ mode = "open" /\ opt \in Options
      /\ TypedIndex(idx) /\ TypedIndex(Ingested(job.root))
  BY <1>1, RebuildFacts
<1>3. e \in DOMAIN Ingested(job.root) /\ job.todo \subseteq job.chosen
      /\ job.chosen \subseteq DOMAIN Ingested(job.root)
  BY <1>1, <1>2 DEF RebuildInv
<1>4. dir \in Dirs
  BY <1>2, <1>3 DEF TypedIndex, Options
<1>5. \A m \in moves : m.to \in Places
  BY <1>4, FilesTyped
<1> HIDE DEF dir, moves
<1>6. TypedIndex(to)
  BY <1>2, <1>4 DEF TypedIndex
<1>7. /\ job'.doing = "rebuild" /\ job'.root = job.root /\ job'.chosen = job.chosen
      /\ job'.todo = job.todo \ {e} /\ job'.moves = moves
  BY <1>1
<1> HIDE DEF to
<1>8. RebuildInv'
  BY <1>1, <1>2, <1>3, <1>5, <1>6, <1>7 DEF RebuildInv, Root
<1>9. FrontsInv' /\ PublishInv'
  BY <1>1, <1>2, KeepFronts DEF PublishInv
<1> QED BY <1>8, <1>9 DEF IntoInv

LEMMA IntoCopyFile ==
  ASSUME CopyInv, IntoInv, NEW m, CopyFile(m)
  PROVE  /\ IntoInv'
         /\ store' = store \/ StorePut(m.to, m.data)
         /\ m.to \in Places
<1>1. /\ job.doing = "rebuild" /\ m \in job.moves
      /\ store' = store \/ StorePut(m.to, m.data)
      /\ job' = [job EXCEPT !.moves = @ \ {m}]
      /\ UNCHANGED <<work, mode, idx, old, original, pending, opt, use, clock>>
  BY DEF CopyFile
<1>2. /\ FrontsInv /\ RebuildInv /\ PublishInv /\ mode = "open" /\ opt.suite \in Suites
  BY <1>1, RebuildFacts
<1>3. m.to \in Places
  BY <1>1, <1>2 DEF RebuildInv
<1>4. FrontsInv' /\ Root(opt.suite)' = Root(opt.suite)
  <2>1. CASE store' = store
    BY <1>1, <1>2, <2>1, KeepFronts DEF Root
  <2>2. CASE StorePut(m.to, m.data)
    <3>1. PICK p, c : p = m.to /\ c = m.data
      OBVIOUS
    <3> QED BY <1>1, <1>2, <1>3, <2>2, <3>1, PutPlace DEF Root
  <2> QED BY <1>1, <2>1, <2>2
<1>5. /\ job'.doing = "rebuild" /\ job'.root = job.root /\ job'.chosen = job.chosen
      /\ job'.todo = job.todo /\ job'.moves = job.moves \ {m}
  BY <1>1
<1>6. RebuildInv'
  BY <1>1, <1>2, <1>4, <1>5 DEF RebuildInv
<1>7. PublishInv'
  BY <1>1, <1>2 DEF PublishInv
<1> QED BY <1>1, <1>3, <1>4, <1>6, <1>7 DEF IntoInv

LEMMA IntoPruneCopied ==
  ASSUME CopyInv, IntoInv, PruneCopied
  PROVE  IntoInv'
<1>1. /\ job.doing = "rebuild" /\ job' = job /\ PruneOlderVersions /\ mode = "open"
      /\ \E gone : idx' = Without(idx, gone)
      /\ UNCHANGED <<store, work, mode, old, original, pending, opt, use, clock>>
  BY DEF PruneCopied, Transferred, PruneOlderVersions, Call
<1>2. FrontsInv /\ RebuildInv /\ PublishInv /\ TypedIndex(idx)
  BY <1>1, RebuildFacts
<1>3. TypedIndex(idx')
  BY <1>1, <1>2 DEF TypedIndex, Without
<1>4. RebuildInv'
  BY <1>1, <1>2, <1>3 DEF RebuildInv, Root
<1>5. FrontsInv' /\ PublishInv'
  BY <1>1, <1>2, KeepFronts DEF PublishInv
<1> QED BY <1>4, <1>5 DEF IntoInv

LEMMA IntoEnd ==
  ASSUME CopyInv, IntoInv, EndRebuilding
  PROVE  IntoInv'
<1>1. /\ job.doing = "rebuild" /\ work = NoSteps /\ mode' = "closed"
      /\ UNCHANGED <<store, work, clock>>
      /\ job' = [doing |-> "endRebuild", root |-> job.root,
                 todo |-> <<[to |-> Config, data |-> CopiedFrom(Here)]>>]
  BY DEF EndRebuilding, Finish, Forget
<1>2. FrontsInv /\ clock \in Nat
  BY <1>1, RebuildFacts DEF RebuildInv
<1>3. job'.doing = "endRebuild"
  BY <1>1
<1> QED BY <1>1, <1>2, <1>3, KeepFronts, IntoClosed

LEMMA IntoCommit ==
  ASSUME CopyInv, IntoInv, CommitCopied
  PROVE  IntoInv'
<1> DEFINE s    == opt.suite
           plan == PlanFiles(store, PlanState)
<1>1. /\ job.doing = "rebuild" /\ job.todo = {} /\ job.moves = {} /\ job' = job
      /\ Commit /\ mode = "open" /\ mode' = "publishing" /\ ~Refuses(store, PlanState)
      /\ clock' = clock + 1 /\ work' = CommitSteps /\ store' = store /\ session' = session
  BY DEF CommitCopied, Transferred, Commit
<1>2. /\ idx' = idx /\ old' = old /\ original' = original /\ pending' = pending
      /\ copied' = copied /\ opt' = opt /\ use' = use
  BY <1>1 DEF session
<1>3. /\ FrontsInv /\ RebuildInv /\ PublishInv /\ Opened /\ s \in Suites /\ TypedIndex(idx)
      /\ use.copies # 0
  BY <1>1, RebuildFacts
<1>4. /\ clock \in Nat /\ pending = <<>> /\ DOMAIN pending = {}
  BY <1>1, <1>3, NoneYet DEF RebuildInv
<1>5. FrontsInv'
  BY <1>1, <1>3, KeepFronts
<1>6. RebuildInv'
  BY <1>1, <1>2, <1>3 DEF RebuildInv
<1>7. Coming' = NewRelease
  BY <1>1, <1>3, CommitComing
<1>8. Doomed' = UNION Range(CommitSteps.gc)
  BY <1>1 DEF Doomed
<1> DEFINE rel == NewRelease
<1>9. /\ IsRelease(s, rel) /\ rel.suite = s /\ rel.byHash = opt.byHash /\ rel.docs = Range(Documents)
      /\ DOMAIN rel.pool \subseteq AllLocations(idx)
      /\ \A p \in DOMAIN rel.pool : \A c :
           (\A e \in Owners(idx, p) : Files(e)[p.base] = c) => rel.pool[p] = c
  BY <1>3, NewReleaseFacts
<1>10. /\ CommitSteps.swap = IF opt.signed THEN <<ReleaseFile(rel), DetachedFile(rel), InlineFile(rel)>>
                                          ELSE <<ReleaseFile(rel)>>
       /\ CommitSteps.retract = Retracted /\ CommitSteps.metadata = MetadataFiles(Documents)
       /\ CommitSteps.copies = plan.copies /\ CommitSteps.uploads = plan.uploads
  BY <1>9, SwappedFacts DEF CommitSteps
<1>11. CommitSteps \in AptShape(s, UNION Range(CommitSteps.gc))
  BY <1>3, CommitShape
<1>12. plan.uploads = {}
  BY <1>3, <1>4, UploadFacts
<1>13. DescribedInv'
  <2>1. /\ Documents \in Seq(Index(s)) /\ Range(Documents) \subseteq Index(s)
    BY <1>3, DocumentsFacts
  <2>2. Range(MetadataFiles(Documents)) = {PlainFile(d) : d \in Range(Documents)} \cup
          (IF opt.byHash THEN {IndexFile(d) : d \in Range(Documents)} ELSE {})
    BY <1>3, <2>1, MetadataFacts
  <2>3. ASSUME NEW d \in Range(Documents), NEW p, p = IndexPath(rel, d)
        PROVE  /\ \A u \in Range(MetadataFiles(Documents)) : u.to = p => u.data = d
               /\ \E u \in Range(MetadataFiles(Documents)) : u.to = p
    <3>1. p = IF opt.byHash THEN d ELSE Plain(d)
      BY <1>9, <2>3 DEF IndexPath
    <3>2. \A x \in Range(Documents) : Plain(x) # d /\ (Plain(x) = Plain(d) => x = d)
      BY <1>3, <2>1, IndexKinds, DocumentsAlike
    <3>3. \A x : /\ PlainFile(x).to = Plain(x) /\ PlainFile(x).data = x
                 /\ IndexFile(x).to = x /\ IndexFile(x).data = x
      BY DEF PlainFile, IndexFile
    <3> QED BY <2>2, <3>1, <3>2, <3>3
  <2> HIDE DEF rel
  <2> QED BY <1>1, <1>7, <1>9, <1>10, <2>3 DEF DescribedInv, rel
<1>14. PlacedInv'
  <2>1. ASSUME NEW p \in AllLocations(idx), p \notin DOMAIN store, p \notin DOMAIN original, p \notin copied
        PROVE  \E c \in plan.copies : c.to = p
    <3> DEFINE q == PlanState
    <3>1. /\ q.referenced = FileExpectations(idx) /\ q.original = original
          /\ q.pending = pending /\ q.copied = copied
      BY DEF PlanState
    <3>2. DOMAIN FileExpectations(idx) = AllLocations(idx)
      BY <1>3, RecordFacts
    <3> HIDE DEF q
    <3>3. p \in Unstaged(q) \ DOMAIN store
      BY <1>4, <2>1, <3>1, <3>2 DEF Unstaged, Staged
    <3>4. p \in Moves(store, q)
      BY <1>1, <3>3 DEF Refuses, Unplaceable, Moves, q
    <3>5. Relocation(q, p) \in plan.copies /\ Relocation(q, p).to = p
      BY <3>4 DEF PlanFiles, Relocation, q
    <3> QED BY <3>5
  <2> HIDE DEF plan, rel
  <2> QED BY <1>1, <1>2, <1>7, <1>9, <1>10, <2>1 DEF PlacedInv, rel
<1>15. SwappingInv'
  <2>1. \A a, b, c : c \in Range(<<a, b, c>>) /\ \A x, y : x \in Range(<<x, y>>)
    BY DEF Range
  <2>2. ASSUME InRelease(s) \in DOMAIN store, ~opt.signed
        PROVE  InRelease(s) \in Range(Retracted)
    <3>1. old = store[InRelease(s)].inline
      BY <1>3, <2>2 DEF Opened, Root, ReleaseIn
    <3>2. IsRelease(s, old)
      BY <1>3, <2>2, <3>1, FrontKinds DEF FrontsInv, FrontsOf, FrontContent
    <3>3. old # NoRelease
      BY <1>3, <3>2, ReleaseFields
    <3>4. Retracted = <<InRelease(s), ReleaseGPG(s)>>
      BY <2>2, <3>3 DEF Retracted
    <3> QED BY <2>1, <3>4
  <2> HIDE DEF rel
  <2>3. opt.signed => InlineFile(rel) \in Range(CommitSteps.swap)
    BY <1>10, <2>1
  <2>4. work'.swap \in {<<ReleaseFile(rel), DetachedFile(rel), InlineFile(rel)>>, <<ReleaseFile(rel)>>}
    BY <1>1, <1>10
  <2> QED BY <1>1, <1>2, <1>7, <1>10, <2>2, <2>3, <2>4 DEF SwappingInv, rel
<1>16. CollectingInv'
  BY <1>2, <1>3, <1>7, <1>8, CollectFacts DEF CollectingInv
<1>17. PublishInv'
  BY <1>1, <1>2, <1>7, <1>8, <1>9, <1>10, <1>11, <1>12, <1>13, <1>14, <1>15, <1>16 DEF PublishInv
<1> QED BY <1>2, <1>5, <1>6, <1>17 DEF IntoInv

\* A step that leaves alone where clients start.
LEMMA FrontsStand ==
  ASSUME FrontsInv, SwappingInv, opt.suite \in Suites, IsRelease(opt.suite, Coming), opt' = opt,
         work'.swap = work.swap, work'.retract = work.retract,
         \A q \in Fronts : /\ q \in DOMAIN store' <=> q \in DOMAIN store
                           /\ q \in DOMAIN store => store'[q] = store[q]
  PROVE  Coming' = Coming /\ FrontsInv' /\ SwappingInv'
<1>1. \A t \in Suites : \A q \in FrontsOf(t) :
        (q \in DOMAIN store' <=> q \in DOMAIN store) /\ (q \in DOMAIN store => store'[q] = store[q])
  BY FrontsApart
<1>2. FrontsInv'
  <2>1. ASSUME NEW t \in Suites, NEW q \in FrontsOf(t) \cap DOMAIN store'
        PROVE  FrontContent(t, q, store'[q])
    BY <1>1, <2>1 DEF FrontsInv
  <2> QED BY <2>1 DEF FrontsInv, FrontContent
<1>3. {Release(opt.suite), InRelease(opt.suite)} \subseteq FrontsOf(opt.suite)
  BY DEF FrontsOf
<1>4. Coming' = Coming
  <2> DEFINE rest == {f \in Range(work.swap) : f.to = Release(opt.suite)}
  <2>1. /\ Coming  = IF rest # {} THEN (CHOOSE f \in rest : TRUE).data ELSE store[Release(opt.suite)]
        /\ Coming' = IF rest # {} THEN (CHOOSE f \in rest : TRUE).data ELSE store'[Release(opt.suite)]
    BY DEF Coming
  <2>2. rest # {} \/ Release(opt.suite) \in DOMAIN store
    <3>1. PICK rel : rel = Coming
      OBVIOUS
    <3>2. rel.suite = opt.suite
      BY <3>1, ReleaseFields
    <3>3. work.swap \in {<<ReleaseFile(rel), DetachedFile(rel), InlineFile(rel)>>, <<ReleaseFile(rel)>>}
            => rest = {ReleaseFile(rel)}
      BY <3>2, SwapRest
    <3> QED BY <3>1, <3>3 DEF SwappingInv
  <2> HIDE DEF rest
  <2> QED BY <1>1, <1>3, <2>1, <2>2
<1>5. SwappingInv'
  BY <1>1, <1>3, <1>4 DEF SwappingInv
<1> QED BY <1>2, <1>4, <1>5

\* A step that writes or deletes one file, elsewhere.
LEMMA PutStands ==
  ASSUME FrontsInv, SwappingInv, opt.suite \in Suites, IsRelease(opt.suite, Coming), opt' = opt,
         work'.swap = work.swap, work'.retract = work.retract,
         NEW p, p \notin Fronts, (\E c : StorePut(p, c)) \/ StoreDelete(p)
  PROVE  Coming' = Coming /\ FrontsInv' /\ SwappingInv'
BY FrontsStand, PutFacts, DeleteFacts

\* The first file that clients start from is swapped.
LEMMA SwapStands ==
  ASSUME FrontsInv, SwappingInv, opt.suite \in Suites, IsRelease(opt.suite, Coming), opt' = opt,
         work.swap # <<>>, work'.swap = Tail(work.swap), work'.retract = work.retract,
         StorePut(Head(work.swap).to, Head(work.swap).data)
  PROVE  /\ Coming' = Coming /\ FrontsInv' /\ SwappingInv'
         /\ Head(work.swap) \in {ReleaseFile(Coming), DetachedFile(Coming), InlineFile(Coming)}
<1> DEFINE s == opt.suite
<1>1. PICK rel : rel = Coming
  OBVIOUS
<1>2. /\ IsRelease(s, rel) /\ rel.suite = s
  BY <1>1, ReleaseFields
<1>3. PICK f : f = Head(work.swap)
  OBVIOUS
<1>4. /\ DOMAIN store' = DOMAIN store \cup {f.to} /\ store'[f.to] = f.data
      /\ \A q \in DOMAIN store : q # f.to => store'[q] = store[q]
  <2>1. PICK p, c : p = f.to /\ c = f.data
    OBVIOUS
  <2> QED BY <1>3, <2>1, PutFacts
<1>5. /\ ReleaseFile(rel).to = Release(s) /\ ReleaseFile(rel).data = rel
      /\ DetachedFile(rel).to = ReleaseGPG(s) /\ DetachedFile(rel).data = [signs |-> rel]
      /\ InlineFile(rel).to = InRelease(s) /\ InlineFile(rel).data = [inline |-> rel]
  BY <1>2 DEF ReleaseFile, DetachedFile, InlineFile
<1>6. [inline |-> rel].inline = rel /\ [signs |-> rel].signs = rel
  OBVIOUS
<1>7. /\ \A a, b : Range(<<a, b>>) = {a, b}
      /\ \A a : Range(<<a>>) = {a}
  BY DEF Range
<1>8. /\ Release(s) # ReleaseGPG(s) /\ Release(s) # InRelease(s) /\ ReleaseGPG(s) # InRelease(s)
  BY FrontKinds
<1>9. /\ InRelease(s) \in DOMAIN store => \/ InlineFile(rel) \in Range(work.swap)
                                          \/ InRelease(s) \in Range(work.retract)
                                          \/ store[InRelease(s)].inline = rel
  BY <1>1 DEF SwappingInv
<1>10. f \in {ReleaseFile(rel), DetachedFile(rel), InlineFile(rel)} => FrontsInv'
  <2> SUFFICES ASSUME f \in {ReleaseFile(rel), DetachedFile(rel), InlineFile(rel)},
                      NEW t \in Suites, f.to \in FrontsOf(t)
               PROVE  FrontContent(t, f.to, f.data)
    <3>1. PICK p, c : p = f.to /\ c = f.data
      OBVIOUS
    <3> QED BY <1>3, <3>1, PutFronts
  <2>1. f.to \in FrontsOf(s)
    BY <1>5 DEF FrontsOf
  <2>2. t = s
    BY <2>1, FrontsApart
  <2> QED BY <1>2, <1>5, <1>6, <1>8, <2>2 DEF FrontContent
<1>11. CASE work.swap = <<ReleaseFile(rel), DetachedFile(rel), InlineFile(rel)>>
  <2>1. f = ReleaseFile(rel) /\ work'.swap = <<DetachedFile(rel), InlineFile(rel)>>
    BY <1>3, <1>11
  <2>2. Release(s) \in DOMAIN store' /\ store'[Release(s)] = rel
    BY <1>4, <1>5, <2>1
  <2>3. Coming' = rel
    <3>1. {g \in Range(work'.swap) : g.to = Release(s)} = {}
      BY <1>2, <2>1, SwapRest
    <3> QED BY <2>2, <3>1 DEF Coming
  <2>4. Range(work'.swap) = {DetachedFile(rel), InlineFile(rel)}
    BY <1>7, <2>1, Zenon
  <2>5. SwappingInv'
    BY <2>1, <2>2, <2>3, <2>4 DEF SwappingInv
  <2> QED BY <1>1, <1>3, <1>10, <2>1, <2>3, <2>5
<1>12. CASE work.swap = <<ReleaseFile(rel)>>
  <2>1. f = ReleaseFile(rel) /\ work'.swap = <<>>
    BY <1>3, <1>12
  <2>2. Release(s) \in DOMAIN store' /\ store'[Release(s)] = rel
    BY <1>4, <1>5, <2>1
  <2>3. Coming' = rel
    <3>1. {g \in Range(work'.swap) : g.to = Release(s)} = {}
      BY <1>2, <2>1, SwapRest
    <3> QED BY <2>2, <3>1 DEF Coming
  <2>4. InlineFile(rel) \notin Range(work.swap)
    BY <1>5, <1>7, <1>8, <1>12
  <2>5. InRelease(s) \in DOMAIN store' => \/ InRelease(s) \in Range(work'.retract)
                                          \/ store'[InRelease(s)].inline = rel
    BY <1>4, <1>5, <1>8, <1>9, <2>1, <2>4
  <2>6. SwappingInv'
    BY <2>1, <2>2, <2>3, <2>5 DEF SwappingInv
  <2> QED BY <1>1, <1>3, <1>10, <2>1, <2>3, <2>6
<1>13. CASE work.swap = <<DetachedFile(rel), InlineFile(rel)>> /\ Release(s) \in DOMAIN store
            /\ rel = store[Release(s)]
  <2>1. f = DetachedFile(rel) /\ work'.swap = <<InlineFile(rel)>>
    BY <1>3, <1>13
  <2>2. Release(s) \in DOMAIN store' /\ store'[Release(s)] = rel
    BY <1>4, <1>5, <1>8, <1>13, <2>1
  <2>3. Coming' = rel
    <3>1. {g \in Range(work'.swap) : g.to = Release(s)} = {}
      BY <1>2, <2>1, SwapRest
    <3> QED BY <2>2, <3>1 DEF Coming
  <2>4. Range(work'.swap) = {InlineFile(rel)}
    BY <1>7, <2>1, Zenon
  <2>5. SwappingInv'
    BY <2>1, <2>2, <2>3, <2>4 DEF SwappingInv
  <2> QED BY <1>1, <1>3, <1>10, <2>1, <2>3, <2>5
<1>14. CASE work.swap = <<InlineFile(rel)>> /\ Release(s) \in DOMAIN store
            /\ rel = store[Release(s)]
  <2>1. f = InlineFile(rel) /\ work'.swap = <<>>
    BY <1>3, <1>14
  <2>2. Release(s) \in DOMAIN store' /\ store'[Release(s)] = rel
    BY <1>4, <1>5, <1>8, <1>14, <2>1
  <2>3. Coming' = rel
    <3>1. {g \in Range(work'.swap) : g.to = Release(s)} = {}
      BY <1>2, <2>1, SwapRest
    <3> QED BY <2>2, <3>1 DEF Coming
  <2>4. store'[InRelease(s)].inline = rel
    BY <1>4, <1>5, <1>6, <2>1
  <2>5. SwappingInv'
    BY <2>1, <2>2, <2>3, <2>4 DEF SwappingInv
  <2> QED BY <1>1, <1>3, <1>10, <2>1, <2>3, <2>5
<1> QED BY <1>1, <1>11, <1>12, <1>13, <1>14 DEF SwappingInv

\* A signature is taken away.
LEMMA RetractStands ==
  ASSUME FrontsInv, SwappingInv, opt.suite \in Suites, IsRelease(opt.suite, Coming), opt' = opt,
         work.swap = <<>>, work'.swap = <<>>,
         NEW h \in {InRelease(opt.suite), ReleaseGPG(opt.suite)}, StoreDelete(h),
         Range(work.retract) \subseteq {h} \cup Range(work'.retract)
  PROVE  Coming' = Coming /\ FrontsInv' /\ SwappingInv'
<1> DEFINE s == opt.suite
<1>1. PICK rel : rel = Coming
  OBVIOUS
<1>2. rel.suite = s
  BY <1>1, ReleaseFields
<1>3. DOMAIN store' = DOMAIN store \ {h} /\ \A q \in DOMAIN store' : store'[q] = store[q]
  BY DeleteFacts
<1>4. /\ Release(s) # ReleaseGPG(s) /\ Release(s) # InRelease(s)
  BY FrontKinds
<1>5. Range(work.swap) = {}
  BY DEF Range
<1>6. /\ Release(s) \in DOMAIN store /\ rel = store[Release(s)]
      /\ InRelease(s) \in DOMAIN store => \/ InRelease(s) \in Range(work.retract)
                                          \/ store[InRelease(s)].inline = rel
  BY <1>1, <1>5 DEF SwappingInv
<1>7. Release(s) \in DOMAIN store' /\ store'[Release(s)] = rel
  BY <1>3, <1>4, <1>6
<1>8. Coming' = rel
  <2>1. {g \in Range(work'.swap) : g.to = Release(s)} = {}
    BY <1>5
  <2> QED BY <1>7, <2>1 DEF Coming
<1>9. SwappingInv'
  BY <1>3, <1>6, <1>7, <1>8 DEF SwappingInv
<1>10. FrontsInv'
  BY <1>3, KeepFronts
<1> QED BY <1>1, <1>8, <1>9, <1>10

\* What a step of a publish leaves of the files that are on their way.
LEMMA StepGoing ==
  ASSUME DescribedInv, PlacedInv, CollectingInv, work \in AptShape(opt.suite, Doomed), work.uploads = {},
         opt.suite \in Suites, IsRelease(opt.suite, Coming), TypedIndex(idx), Step,
         Coming' = Coming, UNCHANGED <<idx, original, copied>>,
         SwapOne => Head(work.swap).to \in Fronts
  PROVE  DescribedInv' /\ PlacedInv' /\ work'.uploads = {}
<1> DEFINE s == opt.suite
<1>1. work \in Shape(Movable, Uploadable, Describable, Swappable(s), {InRelease(s), ReleaseGPG(s)}, Doomed)
  BY DEF AptShape
<1>2. ASSUME NEW d \in Coming.docs
      PROVE  /\ IndexPath(Coming, d) \notin Fronts /\ IndexPath(Coming, d) \notin Places
             /\ IndexPath(Coming, d) \in DOMAIN NamedBy(Coming)
  <2>1. PICK rel : rel = Coming
    OBVIOUS
  <2>2. IsRelease(s, rel) /\ d \in Index(s) /\ d \in rel.docs
    BY <1>2, <2>1, ReleaseFields
  <2>3. IndexPath(rel, d) \in {d, Plain(d)}
    BY DEF IndexPath
  <2>4. IndexPath(rel, d) \in DOMAIN NamedBy(rel)
    <3>1. DOMAIN NamedBy(rel) = {IndexPath(rel, x) : x \in rel.docs} \cup DOMAIN rel.pool
      BY <2>2, NamedByFacts
    <3> QED BY <2>2, <3>1
  <2> QED BY <2>1, <2>2, <2>3, <2>4, IndexKinds
<1>3. AllLocations(idx) \subseteq Places /\ \A p \in Places : p \notin Fronts
  BY IndexFacts, PlaceKinds
\* What a step has to show.
<1>4. ASSUME Range(work'.metadata) \subseteq Range(work.metadata),
             \A d \in Coming.docs : LET p == IndexPath(Coming, d) IN
               \/ \E u \in Range(work'.metadata) : u.to = p
               \/ p \in DOMAIN store' /\ store'[p] = d
      PROVE  DescribedInv'
  BY <1>4 DEF DescribedInv
<1>5. ASSUME \A p \in AllLocations(idx) : p \in DOMAIN store => p \in DOMAIN store',
             \A c \in work.copies : c \in work'.copies \/ c.to \in DOMAIN store'
      PROVE  PlacedInv'
  BY <1>5 DEF PlacedInv
<1>6. CASE CopyOne
  <2>1. PICK c \in work.copies : /\ c \in Movable /\ StorePut(c.to, store[c.from])
                                 /\ work'.copies = work.copies \ {c}
    BY <1>1, <1>6, CopyOneFields
  <2>2. work'.metadata = work.metadata /\ work'.uploads = work.uploads
    BY <1>1, <1>6, CopyOneFields
  <2>3. /\ DOMAIN store' = DOMAIN store \cup {c.to} /\ c.to \in Places
        /\ \A q \in DOMAIN store : q # c.to => store'[q] = store[q]
    BY <2>1, PutFacts DEF Movable
  <2>4. DescribedInv'
    BY <1>2, <1>4, <2>2, <2>3 DEF DescribedInv
  <2> QED BY <1>5, <2>1, <2>2, <2>3, <2>4
<1>7. CASE WriteMetadata
  <2>1. PICK u : u = Head(work.metadata)
    OBVIOUS
  <2>2. /\ u \in Range(work.metadata) /\ StorePut(u.to, u.data)
        /\ Range(work'.metadata) \subseteq Range(work.metadata)
        /\ Range(work.metadata) \subseteq {u} \cup Range(work'.metadata)
        /\ work.copies = {} /\ work'.copies = {} /\ work'.uploads = {}
    BY <1>1, <1>7, <2>1, WriteMetadataFields
  <2>3. /\ DOMAIN store' = DOMAIN store \cup {u.to} /\ store'[u.to] = u.data
        /\ \A q \in DOMAIN store : q # u.to => store'[q] = store[q]
    <3>1. PICK p, c : p = u.to /\ c = u.data
      OBVIOUS
    <3> QED BY <2>2, <3>1, PutFacts
  <2>4. DescribedInv'
    BY <1>4, <2>2, <2>3 DEF DescribedInv
  <2> QED BY <1>5, <2>2, <2>3, <2>4
<1>8. CASE SwapOne
  <2>1. PICK f : f = Head(work.swap)
    OBVIOUS
  <2>2. /\ StorePut(f.to, f.data) /\ work.copies = {} /\ work'.copies = {}
        /\ Puts(work) = {} /\ Puts(work') = {} /\ f.to \in Fronts
    BY <1>1, <1>8, <2>1, SwapOneFields
  <2>3. /\ DOMAIN store' = DOMAIN store \cup {f.to}
        /\ \A q \in DOMAIN store : q # f.to => store'[q] = store[q]
    <3>1. PICK p, c : p = f.to /\ c = f.data
      OBVIOUS
    <3> QED BY <2>2, <3>1, PutFacts
  <2>4. Range(work'.metadata) = {} /\ Range(work.metadata) = {} /\ work'.uploads = {}
    BY <2>2 DEF Puts
  <2>5. DescribedInv'
    BY <1>2, <1>4, <2>2, <2>3, <2>4 DEF DescribedInv
  <2> QED BY <1>5, <2>2, <2>3, <2>4, <2>5
<1>9. CASE RetractOne
  <2>1. PICK h \in {InRelease(s), ReleaseGPG(s)} : StoreDelete(h)
    BY <1>1, <1>9, RetractOneFields
  <2>2. work.copies = {} /\ work'.copies = {} /\ Puts(work) = {} /\ Puts(work') = {}
    BY <1>1, <1>9, RetractOneFields
  <2>3. DOMAIN store' = DOMAIN store \ {h} /\ \A q \in DOMAIN store' : store'[q] = store[q]
    BY <2>1, DeleteFacts
  <2>4. Range(work'.metadata) = {} /\ Range(work.metadata) = {} /\ work'.uploads = {}
    BY <2>2 DEF Puts
  <2>5. h \in Fronts
    BY DEF Fronts
  <2>6. DescribedInv'
    BY <1>2, <1>4, <2>3, <2>4, <2>5 DEF DescribedInv
  <2> QED BY <1>3, <1>5, <2>2, <2>3, <2>4, <2>5, <2>6
<1>10. CASE CollectOne
  <2>1. /\ work.copies = {} /\ work'.copies = {} /\ Puts(work) = {} /\ Puts(work') = {}
        /\ UNCHANGED store \/ \E p \in Doomed : StoreDelete(p)
    BY <1>1, <1>10, CollectOneFields DEF Doomed
  <2>2. Range(work'.metadata) = {} /\ Range(work.metadata) = {} /\ work'.uploads = {}
    BY <2>1 DEF Puts
  <2>3. \A p \in DOMAIN NamedBy(Coming) \cup AllLocations(idx) :
          p \in DOMAIN store => p \in DOMAIN store' /\ store'[p] = store[p]
    <3>1. CASE UNCHANGED store
      BY <3>1
    <3>2. CASE \E p \in Doomed : StoreDelete(p)
      <4>1. PICK p \in Doomed : StoreDelete(p)
        BY <3>2
      <4>2. p \notin DOMAIN NamedBy(Coming) \cup AllLocations(idx)
        BY DEF CollectingInv
      <4> QED BY <4>1, <4>2, DeleteFacts
    <3> QED BY <2>1, <3>1, <3>2
  <2>4. DescribedInv'
    BY <1>2, <1>4, <2>2, <2>3 DEF DescribedInv
  <2> QED BY <1>5, <2>1, <2>2, <2>3, <2>4
<1>11. ~UploadOne
  BY DEF UploadOne, Uploading
<1> QED BY <1>6, <1>7, <1>8, <1>9, <1>10, <1>11 DEF Step

LEMMA IntoPublish ==
  ASSUME CopyInv, IntoInv, job # NoJob, Publishing, UNCHANGED <<job, version, copies>>
  PROVE  IntoInv' /\ Coming' = Coming
<1> DEFINE s == opt.suite
<1>1. /\ mode = "publishing" /\ mode' = mode /\ Step /\ clock' = clock
      /\ idx' = idx /\ old' = old /\ original' = original /\ pending' = pending
      /\ copied' = copied /\ opt' = opt /\ use' = use /\ job' = job
  BY DEF Publishing, session
<1>2. job.doing = "rebuild"
  BY <1>1 DEF CopyInv, CopyTyped
<1>3. /\ FrontsInv /\ RebuildInv /\ s \in Suites /\ TypedIndex(idx)
      /\ work \in AptShape(s, Doomed) /\ IsRelease(s, Coming) /\ work.uploads = {}
      /\ DescribedInv /\ PlacedInv /\ SwappingInv /\ CollectingInv
  BY <1>1, <1>2, RebuildFacts DEF PublishInv
<1>4. work \in Shape(Movable, Uploadable, Describable, Swappable(s), {InRelease(s), ReleaseGPG(s)}, Doomed)
  BY <1>3 DEF AptShape
<1>5. work' \in AptShape(s, Doomed') /\ Doomed' \subseteq Doomed
  BY <1>1, <1>3, ShapeStep
<1>6. /\ Coming' = Coming /\ FrontsInv' /\ SwappingInv'
      /\ SwapOne => Head(work.swap).to \in Fronts
  <2>1. CASE CopyOne
    <3>1. PICK c \in work.copies : c \in Movable /\ StorePut(c.to, store[c.from])
      BY <1>4, <2>1, CopyOneFields
    <3>2. PICK p, b : p = c.to /\ b = store[c.from]
      OBVIOUS
    <3>3. p \notin Fronts /\ StorePut(p, b)
      BY <3>1, <3>2, PlaceKinds DEF Movable
    <3>4. work'.swap = work.swap /\ work'.retract = work.retract
      BY <1>4, <2>1, CopyOneFields
    <3>5. ~SwapOne
      BY <2>1 DEF SwapOne, Swapping, Placed, Packaged, CopyOne, Placing
    <3> QED BY <1>1, <1>3, <3>3, <3>4, <3>5, PutStands
  <2>2. CASE WriteMetadata
    <3>1. PICK u : u = Head(work.metadata)
      OBVIOUS
    <3>2. u \in Describable /\ StorePut(u.to, u.data)
          /\ work'.swap = work.swap /\ work'.retract = work.retract
      BY <1>4, <2>2, <3>1, WriteMetadataFields
    <3>3. PICK p, b : p = u.to /\ b = u.data
      OBVIOUS
    <3>4. p \notin Fronts /\ StorePut(p, b)
      BY <3>2, <3>3, DescribableFacts
    <3>5. ~SwapOne
      BY <2>2 DEF SwapOne, Swapping, Placed, WriteMetadata, Describing
    <3> QED BY <1>1, <1>3, <3>2, <3>4, <3>5, PutStands
  <2>3. CASE SwapOne
    <3>1. /\ StorePut(Head(work.swap).to, Head(work.swap).data)
          /\ work.swap # <<>> /\ work'.swap = Tail(work.swap) /\ work'.retract = work.retract
      BY <1>4, <2>3, SwapOneFields
    <3>2. /\ Coming' = Coming /\ FrontsInv' /\ SwappingInv'
          /\ Head(work.swap) \in {ReleaseFile(Coming), DetachedFile(Coming), InlineFile(Coming)}
      BY <1>1, <1>3, <3>1, SwapStands
    <3>3. Coming.suite = s
      BY <1>3, ReleaseFields
    <3>4. \A f \in {ReleaseFile(Coming), DetachedFile(Coming), InlineFile(Coming)} : f.to \in FrontsOf(s)
      BY <3>3 DEF ReleaseFile, DetachedFile, InlineFile, FrontsOf
    <3>5. Head(work.swap).to \in FrontsOf(s)
      BY <3>2, <3>4
    <3> QED BY <1>3, <3>2, <3>5, FrontsApart
  <2>4. CASE RetractOne
    <3>1. PICK h : h = Head(work.retract)
      OBVIOUS
    <3>2. /\ h \in {InRelease(s), ReleaseGPG(s)} /\ StoreDelete(h)
          /\ work.swap = <<>> /\ work'.swap = <<>>
          /\ Range(work.retract) \subseteq {h} \cup Range(work'.retract)
      BY <1>4, <2>4, <3>1, RetractOneFields
    <3>3. ~SwapOne
      BY <3>2 DEF SwapOne, Swapping
    <3> QED BY <1>1, <1>3, <3>2, <3>3, RetractStands
  <2>5. CASE CollectOne
    <3>1. /\ work'.swap = work.swap /\ work'.retract = work.retract /\ work.swap = <<>>
          /\ UNCHANGED store \/ \E p \in Doomed : StoreDelete(p)
      BY <1>4, <2>5, CollectOneFields DEF Doomed
    <3>2. \A q \in Fronts : /\ q \in DOMAIN store' <=> q \in DOMAIN store
                            /\ q \in DOMAIN store => store'[q] = store[q]
      BY <1>3, <3>1, DeleteFacts DEF CollectingInv
    <3>3. ~SwapOne
      BY <3>1 DEF SwapOne, Swapping
    <3> QED BY <1>1, <1>3, <3>1, <3>2, <3>3, FrontsStand
  <2>6. ~UploadOne
    BY <1>3 DEF UploadOne, Uploading
  <2> QED BY <1>1, <2>1, <2>2, <2>3, <2>4, <2>5, <2>6 DEF Step
<1>7. DescribedInv' /\ PlacedInv' /\ work'.uploads = {}
  BY <1>1, <1>3, <1>6, StepGoing
<1>8. CollectingInv'
  BY <1>1, <1>3, <1>5, <1>6 DEF CollectingInv
<1>9. RebuildInv'
  BY <1>1, <1>3 DEF RebuildInv
<1>10. PublishInv'
  BY <1>1, <1>3, <1>5, <1>6, <1>7, <1>8 DEF PublishInv
<1> QED BY <1>1, <1>6, <1>9, <1>10 DEF IntoInv

LEMMA IntoNext ==
  ASSUME CanHash, Ordered, CopyInv, IntoInv, [CopyNext]_copyVars
  PROVE  IntoInv'
<1>1. CASE use.copies = 0 /\ Next /\ UNCHANGED <<job, copying>>
  <2>1. use' = use
    BY <1>1 DEF Next, Open, Mutate, Add, RemoveID, PruneOlderVersions, RelocateAll, Refresh, Call,
                Commit, Abandon, Publishing, Finish, CutShort, Forget, session
  <2> QED BY <1>1, <2>1 DEF IntoInv
<1>2. ASSUME NEW how, StartExact(how) \/ StartRebuilding(how) PROVE IntoInv'
  <2>1. CASE StartExact(how)
    <3>1. use.copies # 0
      BY <2>1, BeginFacts DEF StartExact, CopyInv
    <3> QED BY <2>1, <3>1, IntoExact
  <2> QED BY <1>2, <2>1, IntoStart
<1>3. CASE CopyObject \/ PruneObject \/ EndTransfers \/ WriteEnd \/ CutCopy
  <2>1. job # NoJob
    BY <1>3, Busy DEF CopyObject, PruneObject, EndTransfers, WriteEnd, CutCopy, Copying
  <2>2. use.copies # 0
    BY <2>1 DEF CopyInv, CopyTyped
  <2> QED BY <1>3, <2>2, IntoExact
<1>4. CASE PublishCopied
  <2>1. job # NoJob /\ Publishing /\ UNCHANGED <<job, version, copies>>
    BY <1>4 DEF PublishCopied, copying
  <2> QED BY <2>1, IntoPublish
<1> QED
  BY <1>1, <1>2, <1>3, <1>4, IntoPlaceCopy, IntoCopyFile, IntoPruneCopied, IntoCommit, IntoEnd,
     IntoSource DEF CopyNext

LEMMA IntoSpecInv == ASSUME CanHash, Ordered PROVE CopySpec => [](CopyInv /\ IntoInv)
<1>1. CopyInit => CopyInv /\ IntoInv
  BY CopyInitInv, IntoInit
<1>2. CopyInv /\ IntoInv /\ [CopyNext]_copyVars => (CopyInv /\ IntoInv)'
  BY CopyNextInv, IntoNext
<1> QED BY <1>1, <1>2, PTL DEF CopySpec

----------------------------------------------------------------------------
(* What those steps do to clients that read by hash.                       *)

\* A suite's Release and signatures come before what else is in its directory,
\* and every suite before the pool: "InRelease" < "main", "dists" < "pool".
PathOrder == \A P : P # {} =>
  /\ IsPool(First(P)) => P \cap Fronts = {}
  /\ \A s \in Suites : IsSuite(First(P), s) /\ First(P) \notin Fronts => P \cap FrontsOf(s) = {}

LEMMA SameWhole ==
  ASSUME Whole, store' = store
  PROVE  Whole'
BY DEF Whole, Live, Complete

LEMMA FrontNeeds ==
  ASSUME AptFiles, NEW s \in Suites, NEW p \in FrontsOf(s), NEW c, FrontContent(s, p, c)
  PROVE  DOMAIN Needs(c) \cap Fronts = {}
<1>1. CASE p = Release(s)
  BY <1>1, NeedsFacts, NamedByFacts DEF FrontContent
<1>2. CASE p = InRelease(s)
  <2>1. PICK rel : rel = c.inline
    OBVIOUS
  <2>2. c = [inline |-> rel] /\ IsRelease(s, rel)
    BY <1>2, <2>1 DEF FrontContent
  <2> QED BY <2>2, NeedsFacts, NamedByFacts
<1>3. CASE p = ReleaseGPG(s)
  <2>1. c = [signs |-> c.signs]
    BY <1>3 DEF FrontContent
  <2> QED BY <2>1, NeedsOfSignature
<1> QED BY <1>1, <1>2, <1>3 DEF FrontsOf

\* A file where clients start whose needs are met, one of the pool that takes the
\* place of none, an index at its own path, or one that clients are not told of.
LEMMA PutWhole ==
  ASSUME AptFiles, FrontsInv, Whole, ByHashOnly, NEW p, NEW c, StorePut(p, c),
         \A s \in Suites : p \in FrontsOf(s) => FrontContent(s, p, c) /\ Complete(c),
         p \in Places \cap DOMAIN store => store[p] = c,
         \A s \in Suites : p \in Index(s) => c = p
  PROVE  Whole'
<1>1. /\ DOMAIN store' = DOMAIN store \cup {p} /\ store'[p] = c
      /\ \A q \in DOMAIN store : q # p => store'[q] = store[q]
  BY PutFacts
<1>2. ASSUME NEW q, q \in IndexPaths, q \in DOMAIN store', NEW k \in DOMAIN Needs(store'[q])
      PROVE  k \in DOMAIN store' /\ store'[k] = Needs(store'[q])[k]
  <2>1. CASE q = p
    <3>1. PICK s \in Suites : p \in FrontsOf(s)
      BY <1>2, <2>1, FrontsAll DEF AptFiles
    <3>2. k \in DOMAIN Needs(c) /\ k \notin Fronts /\ k # p
      BY <1>1, <1>2, <2>1, <3>1, FrontNeeds, FrontsAll
    <3>3. k \in DOMAIN store /\ store[k] = Needs(c)[k]
      BY <3>1, <3>2 DEF Complete
    <3> QED BY <1>1, <2>1, <3>2, <3>3
  <2>2. CASE q # p
    <3>1. q \in Live /\ store'[q] = store[q]
      BY <1>1, <1>2, <2>2 DEF Live
    <3>2. k \in DOMAIN store /\ store[k] = Needs(store[q])[k]
      BY <1>2, <3>1 DEF Whole, Complete
    <3>3. ASSUME k = p PROVE Needs(store[q])[k] = c
      <4>1. k \in DOMAIN Needs(store[q])
        BY <1>2, <3>1
      <4>2. \E s \in Suites : k \in Places \/ (k \in Index(s) /\ Needs(store[q])[k] = k)
        BY <3>1, <4>1, LiveNeeds
      <4> QED BY <3>2, <3>3, <4>2
    <3> QED BY <1>1, <3>1, <3>2, <3>3
  <2> QED BY <2>1, <2>2
<1> QED BY <1>2 DEF Whole, Live, Complete

\* A file that no other names.
LEMMA DeleteWhole ==
  ASSUME Whole, NEW p, StoreDelete(p),
         \A q \in Live : q # p => p \notin DOMAIN Needs(store[q])
  PROVE  Whole'
<1>1. DOMAIN store' = DOMAIN store \ {p} /\ \A q \in DOMAIN store' : store'[q] = store[q]
  BY DeleteFacts
<1>2. ASSUME NEW q, q \in IndexPaths, q \in DOMAIN store', NEW k \in DOMAIN Needs(store'[q])
      PROVE  k \in DOMAIN store' /\ store'[k] = Needs(store'[q])[k]
  <2>1. q \in Live /\ store'[q] = store[q] /\ q # p
    BY <1>1, <1>2 DEF Live
  <2>2. k \in DOMAIN store /\ store[k] = Needs(store[q])[k]
    BY <1>2, <2>1 DEF Whole, Complete
  <2>3. k # p
    BY <1>2, <2>1
  <2> QED BY <1>1, <2>1, <2>2, <2>3
<1> QED BY <1>2 DEF Whole, Live, Complete

\* Once an exact copy has been through what the Release vouches for, all that a
\* client is told of is there.
LEMMA KnownComplete ==
  ASSUME AptFiles, CopyTyped, job # NoJob, NEW left, Transferring(left), left \cap job.known = {}
  PROVE  /\ DOMAIN Needs(job.root) \subseteq job.known
         /\ DOMAIN Needs([inline |-> job.root]) \subseteq job.known
         /\ Complete(job.root) /\ Complete([inline |-> job.root])
<1>1. PICK v \in DOMAIN SourceAt : job.root = SourceRoot(v)
  BY JobFacts
<1>2. PICK rel : rel = SourceRoot(v)
  OBVIOUS
<1>3. Needs(rel) = NamedBy(rel) /\ Needs([inline |-> rel]) = NamedBy(rel)
  BY <1>2, SourceFacts, NeedsFacts
<1>4. \A p \in DOMAIN NamedBy(rel) : p \in DOMAIN Vouched(rel) /\ Vouched(rel)[p] = NamedBy(rel)[p]
  BY <1>2, VouchedFacts
<1>5. /\ job.known = DOMAIN Vouched(rel)
      /\ \A p \in job.known : p \in DOMAIN store /\ store[p] = Vouched(rel)[p]
  BY <1>1, <1>2 DEF Transferring
<1> QED BY <1>1, <1>2, <1>3, <1>4, <1>5 DEF Complete

\* An object of an exact copy: what the Release names is there before it is.
LEMMA CopyObjectWhole ==
  ASSUME AptFiles, CanHash, Ordered, CopyInv, IntoInv, ByHashOnly, Whole,
         ~ReplacesFile, SourceStill, CopyObject
  PROVE  Whole'
<1>1. job.doing = "exact" /\ job.todo # {}
  BY DEF CopyObject
<1>2. job # NoJob /\ use.copies # 0 /\ Transferring(job.todo) /\ CopyTyped /\ FrontsInv
  BY <1>1, Busy DEF CopyInv, CopyTyped, ExactInv, Copying, IntoInv
<1>3. PICK p : p = First(Ranked(job.todo))
  OBVIOUS
<1>4. /\ p \in job.known => store'[p] = job.seen[p]
      /\ \/ store' = store
         \/ p \in DOMAIN Source /\ StorePut(p, Source[p]) /\ store'[p] = Source[p]
  BY <1>2, <1>3, ObjectFacts
<1>5. /\ p \in DOMAIN job.seen
      /\ p = Release(SourceSuite) => job.todo \subseteq {Release(SourceSuite)} \cup Sigs
      /\ p \in Sigs => job.todo \subseteq Sigs
  BY <1>1, <1>2, <1>3, NextObject DEF Transferring
<1>6. CASE store' = store
  BY <1>6, SameWhole
<1>7. CASE p \in DOMAIN Source /\ StorePut(p, Source[p]) /\ store'[p] = Source[p]
  <2>1. PICK c : c = Source[p]
    OBVIOUS
  <2>2. ASSUME NEW s \in Suites, p \in FrontsOf(s)
        PROVE  FrontContent(s, p, c) /\ Complete(c)
    <3>1. /\ s = SourceSuite /\ FrontContent(s, p, c) /\ From = job.root
          /\ p = Release(s) => c = From
          /\ p = InRelease(s) => c = [inline |-> From]
          /\ p = ReleaseGPG(s) => c = [signs |-> From]
      BY <1>2, <1>5, <1>7, <2>1, <2>2, ObjectFront DEF SourceStill
    <3>2. CASE p = ReleaseGPG(s)
      BY <3>1, <3>2, NeedsOfSignature DEF Complete
    <3>3. CASE p \in {Release(s), InRelease(s)}
      <4>1. job.todo \cap job.known = {}
        BY <1>2, <1>5, <3>1, <3>3, KnownApart DEF Sigs
      <4> QED BY <1>2, <3>1, <3>3, <4>1, KnownComplete
    <3> QED BY <2>2, <3>1, <3>2, <3>3 DEF FrontsOf
  <2>3. ASSUME p \in Places \cap DOMAIN store PROVE store[p] = c
    <3>1. IsPool(p) /\ p \in DOMAIN store'
      BY <1>7, <2>3, PutFacts, PlaceKinds
    <3> QED BY <1>7, <2>1, <2>3, <3>1 DEF ReplacesFile
  <2>4. ASSUME NEW s \in Suites, p \in Index(s) PROVE c = p
    <3>1. CASE p \in job.known
      <4>1. PICK v \in DOMAIN SourceAt : job.root = SourceRoot(v)
        BY <1>2, JobFacts
      <4>2. /\ p \in DOMAIN Vouched(SourceRoot(v)) /\ c = Vouched(SourceRoot(v))[p]
            /\ SourceRoot(v).docs \subseteq Index(SourceSuite)
        <5>1. SourceRoot(v).docs \subseteq Index(SourceSuite)
          BY SourceFacts, ReleaseFields
        <5> QED BY <1>2, <1>4, <1>7, <2>1, <3>1, <4>1, <5>1 DEF Transferring
      <4>3. p \notin Places /\ \A d \in Index(SourceSuite) : p # Plain(d)
        BY <2>4, IndexKinds
      <4> QED BY <4>2, <4>3, VouchedFacts
    <3>2. CASE p \notin job.known
      <4>1. s = SourceSuite
        BY <1>2, <1>5, <2>4, <3>2, IndexKinds DEF Transferring
      <4> QED BY <1>2, <1>7, <2>1, <2>4, <4>1, SourceNow, SourceFacts
    <3> QED BY <3>1, <3>2
  <2> QED BY <1>2, <1>7, <2>1, <2>2, <2>3, <2>4, PutWhole
<1> QED BY <1>4, <1>6, <1>7

\* A file that is pruned: what is left where clients start came with the copy, or
\* is of another suite than the file.
LEMMA PruneObjectWhole ==
  ASSUME AptFiles, Ordered, PathOrder, CopyInv, IntoInv, ByHashOnly, Whole, SourceStill, PruneObject
  PROVE  Whole'
<1>1. job.doing = "exact" /\ job.todo = {} /\ Extraneous # {} /\ StoreDelete(First(Extraneous))
  BY DEF PruneObject
<1>2. job # NoJob /\ use.copies # 0 /\ Transferring({}) /\ CopyTyped /\ FrontsInv
  BY <1>1, Busy DEF CopyInv, CopyTyped, ExactInv, Copying, IntoInv
<1>3. PICK p : p = First(Extraneous)
  OBVIOUS
<1>4. p \in DOMAIN store \ DOMAIN job.seen /\ job.prune
  <2>1. p \in Extraneous
    BY <1>1, <1>3, Zenon DEF Ordered
  <2> QED BY <2>1 DEF Extraneous
<1>5. /\ IsPool(p) => Extraneous \cap Fronts = {}
      /\ \A s \in Suites : IsSuite(p, s) /\ p \notin Fronts => Extraneous \cap FrontsOf(s) = {}
  BY <1>1, <1>3, Zenon DEF PathOrder
<1>6. ASSUME NEW q \in Live, p \in DOMAIN Needs(store[q]) PROVE FALSE
  <2>1. PICK s \in Suites : \E c :
           /\ IsRelease(s, c) /\ Needs(store[q]) = NamedBy(c) /\ q.suite = s
           /\ \/ q = Release(s) /\ store[q] = c
              \/ q = InRelease(s) /\ store[q] = [inline |-> c]
           /\ \/ p \in Places
              \/ p \in Index(s) /\ Needs(store[q])[p] = p
    BY <1>2, <1>6, LiveNeeds
  <2>2. q \in FrontsOf(s) /\ q \in Fronts /\ q \in DOMAIN store /\ IsSuite(q, s)
    BY <2>1, FrontsApart DEF FrontsOf, Live
  <2>3. q \notin Extraneous
    <3>1. CASE p \in Places
      BY <1>5, <2>2, <3>1, PlaceKinds
    <3>2. CASE p \in Index(s)
      BY <1>5, <2>2, <3>2, IndexKinds
    <3> QED BY <2>1, <3>1, <3>2
  <2>4. q \in DOMAIN job.seen
    BY <1>4, <2>2, <2>3 DEF Extraneous
  <2>5. q \notin job.known
    <3>1. PICK v \in DOMAIN SourceAt : job.root = SourceRoot(v)
      BY <1>2, JobFacts
    <3> QED BY <1>2, <2>2, <3>1, VouchedFacts DEF Transferring
  <2>6. s = SourceSuite
    BY <1>2, <2>2, <2>4, <2>5 DEF Transferring
  <2>7. store[q] \in {job.root, [inline |-> job.root]}
    BY <1>2, <2>1, <2>4, <2>6 DEF Transferring
  <2>8. DOMAIN Needs(store[q]) \subseteq job.known
    BY <1>2, <2>7, KnownComplete
  <2> QED BY <1>2, <1>4, <1>6, <2>8 DEF Transferring
<1> QED BY <1>1, <1>3, <1>6, DeleteWhole

LEMMA WriteEndWhole ==
  ASSUME AptFiles, CopyInv, IntoInv, ByHashOnly, Whole, SourceStill, WriteEnd
  PROVE  Whole'
<1>1. job.doing \in {"endExact", "endRebuild"}
      /\ StorePut(Head(job.todo).to, Head(job.todo).data)
  BY DEF WriteEnd
<1>2. /\ job # NoJob /\ use.copies # 0 /\ CopyTyped /\ FrontsInv
      /\ job.doing = "endExact" => Transferring({})
  BY <1>1, Busy DEF CopyInv, CopyTyped, ExactInv, Copying, IntoInv
<1>3. PICK f : f = Head(job.todo)
  OBVIOUS
<1>4. PICK p, c : p = f.to /\ c = f.data
  OBVIOUS
<1>5. /\ \/ f = ConfigFile
         \/ /\ job.doing = "endExact"
            /\ \E rel : /\ IsRelease(SourceSuite, rel) /\ (SourceStill => rel = job.root)
                       /\ f \in {DetachedFile(rel), InlineFile(rel)}
      /\ \A s \in Suites : p \in FrontsOf(s) => FrontContent(s, p, c)
  BY <1>3, <1>4, EndFile
<1>6. CASE f = ConfigFile
  <2>1. p = Config
    BY <1>4, <1>6 DEF ConfigFile
  <2>2. \A s \in Suites : p \notin FrontsOf(s) /\ p \notin Index(s)
    BY <2>1, ConfigKinds, FrontsApart
  <2> QED BY <1>1, <1>2, <1>3, <1>4, <2>1, <2>2, ConfigKinds, PutWhole
<1>7. CASE f # ConfigFile
  <2>1. PICK rel : /\ IsRelease(SourceSuite, rel) /\ rel = job.root
                   /\ f \in {DetachedFile(rel), InlineFile(rel)}
    BY <1>5, <1>7
  <2>2. rel.suite = SourceSuite /\ SourceSuite \in Suites
    BY <2>1, SourceAssumption, ReleaseFields
  <2>3. p \in FrontsOf(SourceSuite) /\ c \in {[signs |-> rel], [inline |-> rel]}
    BY <1>4, <2>1, <2>2 DEF DetachedFile, InlineFile, FrontsOf
  <2>4. Complete(c)
    <3>1. CASE c = [signs |-> rel]
      BY <3>1, NeedsOfSignature DEF Complete
    <3>2. CASE c = [inline |-> rel]
      BY <1>2, <1>5, <1>7, <2>1, <3>2, KnownComplete
    <3> QED BY <2>3, <3>1, <3>2
  <2>5. p \notin Places /\ \A s \in Suites : p \notin Index(s)
    BY <2>2, <2>3, FrontsApart, PlaceKinds, IndexKinds
  <2> QED BY <1>1, <1>2, <1>3, <1>4, <1>5, <2>4, <2>5, PutWhole
<1> QED BY <1>6, <1>7

LEMMA PlaceApart ==
  ASSUME NEW p \in Places
  PROVE  \A s \in Suites : p \notin FrontsOf(s) /\ p \notin Index(s)
BY PlaceKinds, IndexKinds, FrontsAll

LEMMA CopyFileWhole ==
  ASSUME AptFiles, CopyInv, IntoInv, ByHashOnly, Whole, ~ReplacesFile, NEW m, CopyFile(m)
  PROVE  Whole'
<1>1. (store' = store \/ StorePut(m.to, m.data)) /\ m.to \in Places
  BY IntoCopyFile
<1>2. FrontsInv
  BY RebuildFacts DEF CopyFile
<1>3. PICK p, c : p = m.to /\ c = m.data
  OBVIOUS
<1>4. ASSUME StorePut(p, c) PROVE Whole'
  <2>1. p \in DOMAIN store' /\ store'[p] = c
    BY <1>4, PutFacts
  <2>2. p \in Places \cap DOMAIN store => store[p] = c
    BY <2>1, PlaceKinds DEF ReplacesFile
  <2>3. \A s \in Suites : p \notin FrontsOf(s) /\ p \notin Index(s)
    BY <1>1, <1>3, PlaceApart
  <2> QED BY <1>2, <1>4, <2>2, <2>3, PutWhole
<1> QED BY <1>1, <1>3, <1>4, SameWhole

\* When nothing is left to move or to describe, the Release to come is complete.
LEMMA ComingComplete ==
  ASSUME AptFiles, opt.suite \in Suites, IsRelease(opt.suite, Coming), TypedIndex(idx), pending = <<>>,
         DescribedInv, PlacedInv, TrustJustified, work.copies = {}, Range(work.metadata) = {}
  PROVE  /\ Complete(Coming) /\ Complete([inline |-> Coming]) /\ Complete([signs |-> Coming])
         /\ DOMAIN Needs(Coming) = DOMAIN NamedBy(Coming)
<1>1. PICK rel : rel = Coming
  OBVIOUS
<1>2. IsRelease(opt.suite, rel)
  BY <1>1
<1>3. Needs(rel) = NamedBy(rel) /\ Needs([inline |-> rel]) = NamedBy(rel)
  BY <1>2, NeedsFacts
<1>4. ASSUME NEW p \in AllLocations(idx), NEW e \in Owners(idx, p)
      PROVE  p \in DOMAIN store /\ store[p] = Files(e)[p.base]
  <2>1. /\ e \in DOMAIN idx /\ p = Location(idx[e], p.base) /\ p.base \in DOMAIN Files(e)
        /\ DOMAIN FileExpectations(idx) = AllLocations(idx)
    BY <1>4, IndexFacts, RecordFacts
  <2>2. p \in DOMAIN store \cup DOMAIN original \cup copied
    BY DEF PlacedInv
  <2>3. p \in Unread(store, PlanState) \cup copied
    <3>1. /\ PlanState.referenced = FileExpectations(idx) /\ PlanState.original = original
          /\ PlanState.pending = pending /\ PlanState.copied = copied
      BY DEF PlanState
    <3>2. Staged(PlanState) = {}
      BY <3>1, NoneYet DEF Staged
    <3> QED BY <2>1, <2>2, <3>1, <3>2 DEF Unread, PassedOver, Trusted, Unstaged
  <2> QED BY <2>1, <2>3 DEF TrustJustified
<1>5. ASSUME NEW p \in DOMAIN NamedBy(rel)
      PROVE  p \in DOMAIN store /\ store[p] = NamedBy(rel)[p]
  <2>1. CASE p \in DOMAIN rel.pool
    <3>1. p \in AllLocations(idx) /\ NamedBy(rel)[p] = rel.pool[p]
      BY <1>1, <1>2, <2>1, NamedByFacts DEF PlacedInv
    <3>2. PICK e \in Owners(idx, p) : TRUE
      BY <3>1, IndexFacts
    <3>3. p \in DOMAIN store /\ \A x \in Owners(idx, p) : Files(x)[p.base] = store[p]
      BY <1>4, <3>1, <3>2
    <3>4. rel.pool[p] = store[p]
      BY <1>1, <2>1, <3>3 DEF PlacedInv
    <3> QED BY <3>1, <3>3, <3>4
  <2>2. CASE p \notin DOMAIN rel.pool
    <3>1. PICK d \in rel.docs : d = NamedBy(rel)[p] /\ IndexPath(rel, d) = p
      BY <1>2, <1>5, <2>2, NamedByFacts
    <3>2. IndexPath(rel, d) \in DOMAIN store /\ store[IndexPath(rel, d)] = d
      BY <1>1, <3>1 DEF DescribedInv
    <3> QED BY <3>1, <3>2
  <2> QED BY <2>1, <2>2
<1>6. Complete([signs |-> rel])
  BY NeedsOfSignature DEF Complete
<1> QED BY <1>1, <1>3, <1>5, <1>6 DEF Complete

LEMMA SwapHead ==
  ASSUME SwappingInv, work.swap # <<>>
  PROVE  Head(work.swap) \in {ReleaseFile(Coming), DetachedFile(Coming), InlineFile(Coming)}
BY DEF SwappingInv

\* A step of the publish that ends a rebuilding copy.
LEMMA PublishCopiedWhole ==
  ASSUME AptFiles, CopyInv, IntoInv, ByHashOnly, Whole, TrustJustified, ~PoolShared, ~ReplacesFile,
         job # NoJob, Publishing
  PROVE  Whole'
<1> DEFINE s == opt.suite
<1>1. mode = "publishing" /\ Step /\ job.doing = "rebuild"
  BY DEF Publishing, CopyInv, CopyTyped
<1>2. /\ FrontsInv /\ RebuildInv /\ s \in Suites /\ TypedIndex(idx) /\ pending = <<>>
      /\ work \in AptShape(s, Doomed) /\ IsRelease(s, Coming) /\ work.uploads = {}
      /\ DescribedInv /\ PlacedInv /\ SwappingInv /\ CollectingInv
  BY <1>1, RebuildFacts DEF PublishInv, RebuildInv
<1>3. work \in Shape(Movable, Uploadable, Describable, Swappable(s), {InRelease(s), ReleaseGPG(s)}, Doomed)
  BY <1>2 DEF AptShape
<1>4. CASE CopyOne
  <2>1. PICK m \in work.copies : m \in Movable /\ StorePut(m.to, store[m.from])
    BY <1>3, <1>4, CopyOneFields
  <2>2. PICK p, c : p = m.to /\ c = store[m.from]
    OBVIOUS
  <2>3. p \in Places
    BY <2>1, <2>2 DEF Movable
  <2>4. StorePut(p, c) /\ p \in DOMAIN store' /\ store'[p] = c
    <3>1. StorePut(p, c)
      BY <2>1, <2>2
    <3> QED BY <3>1 DEF StorePut
  <2>5. p \in Places \cap DOMAIN store => store[p] = c
    BY <2>3, <2>4, PlaceKinds DEF ReplacesFile
  <2>6. \A t \in Suites : p \notin FrontsOf(t) /\ p \notin Index(t)
    BY <2>3, PlaceApart
  <2> QED BY <1>2, <2>4, <2>5, <2>6, PutWhole
<1>5. CASE WriteMetadata
  <2>1. PICK u : u = Head(work.metadata)
    OBVIOUS
  <2>2. u \in Describable /\ StorePut(u.to, u.data)
    BY <1>3, <1>5, <2>1, WriteMetadataFields
  <2>3. PICK p, c : p = u.to /\ c = u.data
    OBVIOUS
  <2>4. p \notin Fronts /\ p \notin Places /\ StorePut(p, c)
    BY <2>2, <2>3, DescribableFacts
  <2>5. ASSUME NEW t \in Suites, p \in Index(t) PROVE c = p
    <3>1. PICK r \in Suites : \E d \in Index(r) : u \in {IndexFile(d), PlainFile(d)}
      BY <2>2 DEF Describable
    <3>2. PICK d \in Index(r) : u \in {IndexFile(d), PlainFile(d)}
      BY <3>1
    <3>3. Plain(d) # p
      BY <2>5, IndexKinds
    <3> QED BY <2>3, <3>2, <3>3 DEF IndexFile, PlainFile
  <2>6. \A t \in Suites : p \notin FrontsOf(t)
    BY <2>4, FrontsAll
  <2> QED BY <1>2, <2>4, <2>5, <2>6, PutWhole
<1>6. CASE SwapOne
  <2>1. PICK f : f = Head(work.swap)
    OBVIOUS
  <2>2. /\ StorePut(f.to, f.data) /\ work.copies = {} /\ Puts(work) = {}
        /\ work.swap # <<>> /\ work'.swap = Tail(work.swap) /\ work'.retract = work.retract
    BY <1>3, <1>6, <2>1, SwapOneFields
  <2>3. f \in {ReleaseFile(Coming), DetachedFile(Coming), InlineFile(Coming)}
    BY <1>2, <2>1, <2>2, SwapHead
  <2>4. PICK rel : rel = Coming
    OBVIOUS
  <2>5. PICK p, c : p = f.to /\ c = f.data
    OBVIOUS
  <2>6. rel.suite = s /\ IsRelease(s, rel)
    BY <1>2, <2>4, ReleaseFields
  <2>7. /\ p \in FrontsOf(s) /\ c \in {rel, [signs |-> rel], [inline |-> rel]}
        /\ FrontContent(s, p, c)
    <3>1. /\ p = Release(s) => c = rel
          /\ p = ReleaseGPG(s) => c = [signs |-> rel]
          /\ p = InRelease(s) => c = [inline |-> rel]
          /\ p \in FrontsOf(s) /\ c \in {rel, [signs |-> rel], [inline |-> rel]}
      BY <2>3, <2>4, <2>5, <2>6, FrontKinds DEF ReleaseFile, DetachedFile, InlineFile, FrontsOf
    <3>2. [inline |-> rel].inline = rel /\ [signs |-> rel].signs = rel
      OBVIOUS
    <3> QED BY <2>6, <3>1, <3>2 DEF FrontContent
  <2>8. Complete(c)
    BY <1>2, <2>2, <2>4, <2>7, ComingComplete DEF Puts
  <2>9. /\ \A t \in Suites : p \in FrontsOf(t) => FrontContent(t, p, c)
        /\ p \notin Places /\ \A t \in Suites : p \notin Index(t)
    BY <1>2, <2>7, FrontsApart, PlaceKinds, IndexKinds
  <2> QED BY <1>2, <2>2, <2>5, <2>8, <2>9, PutWhole
<1>7. CASE RetractOne
  <2>1. PICK h \in {InRelease(s), ReleaseGPG(s)} : StoreDelete(h)
    BY <1>3, <1>7, RetractOneFields
  <2>2. h \in Fronts
    BY <1>2 DEF Fronts
  <2>3. ASSUME NEW q \in Live PROVE h \notin DOMAIN Needs(store[q])
    <3>1. DOMAIN Needs(store[q]) = {} \/ \E t \in Suites : \E c :
            IsRelease(t, c) /\ Needs(store[q]) = NamedBy(c)
      BY <1>2, LiveFacts
    <3> QED BY <2>2, <3>1, NamedByFacts
  <2> QED BY <2>1, <2>3, DeleteWhole
<1>8. CASE CollectOne
  <2>1. /\ work.swap = <<>> /\ work.retract = <<>>
        /\ UNCHANGED store \/ \E p \in Doomed : StoreDelete(p)
    BY <1>3, <1>8, CollectOneFields DEF Doomed, CollectOne, Collecting
  <2>2. CASE UNCHANGED store
    BY <2>2, SameWhole
  <2>3. ASSUME NEW p \in Doomed, StoreDelete(p) PROVE Whole'
    <3>1. ASSUME NEW q \in Live, p \in DOMAIN Needs(store[q]) PROVE FALSE
      <4>1. PICK t \in Suites : \E c :
               /\ IsRelease(t, c) /\ Needs(store[q]) = NamedBy(c) /\ q.suite = t
               /\ \/ q = Release(t) /\ store[q] = c
                  \/ q = InRelease(t) /\ store[q] = [inline |-> c]
               /\ \/ p \in Places
                  \/ p \in Index(t) /\ Needs(store[q])[p] = p
        BY <1>2, <3>1, LiveNeeds
      <4>2. CASE t = s
        <5>1. PICK c : /\ Needs(store[q]) = NamedBy(c)
                       /\ \/ q = Release(t) /\ store[q] = c
                          \/ q = InRelease(t) /\ store[q] = [inline |-> c]
          BY <4>1
        <5>2. c = Coming
          <6>1. [inline |-> c].inline = c
            OBVIOUS
          <6>2. Range(work.swap) = {} /\ Range(work.retract) = {}
            BY <2>1 DEF Range
          <6>3. Coming = store[Release(s)]
            BY <6>2 DEF Coming
          <6> QED BY <1>2, <3>1, <4>2, <5>1, <6>1, <6>2, <6>3 DEF SwappingInv, Live
        <5> QED BY <1>2, <3>1, <5>1, <5>2 DEF CollectingInv
      <4>3. CASE t # s
        <5>1. ~(IsSuite(p, s) /\ p \notin Places)
          <6>1. ASSUME p \notin Places PROVE IsSuite(p, t)
            BY <4>1, <6>1, IndexKinds
          <6> QED BY <4>3, <6>1 DEF IsSuite
        <5>2. IsPool(p) /\ (opt.unreferenced \/ p \in DOMAIN original)
          BY <1>2, <2>3, <5>1 DEF CollectingInv
        <5>3. q.suite # opt.suite
          BY <4>1, <4>3
        <5> QED BY <3>1, <5>2, <5>3 DEF PoolShared
      <4> QED BY <4>2, <4>3
    <3> QED BY <2>3, <3>1, DeleteWhole
  <2> QED BY <2>1, <2>2, <2>3
<1>9. ~UploadOne
  BY <1>2 DEF UploadOne, Uploading
<1> QED BY <1>1, <1>4, <1>5, <1>6, <1>7, <1>8, <1>9 DEF Step

LEMMA IntoUndisturbed ==
  ASSUME AptFiles, CanHash, Ordered, PathOrder, CopyInv, IntoInv, [CopyNext]_copyVars,
         use.copies > 0, ByHashOnly, Whole, TrustJustified, ~PoolShared, ~ReplacesFile, SourceStill
  PROVE  Whole'
<1>1. ASSUME store' = store PROVE Whole'
  BY <1>1, SameWhole
<1>2. use.copies # 0
  OBVIOUS
<1>3. ASSUME NEW how, StartExact(how) \/ StartRebuilding(how) PROVE Whole'
  BY <1>1, <1>3 DEF StartExact, StartRebuilding, aptVars
<1>4. CASE \/ EndTransfers \/ PruneCopied \/ CommitCopied \/ EndRebuilding \/ CutCopy
           \/ SourcePublishes \/ UNCHANGED copyVars \/ \E e \in Entries : PlaceCopy(e)
  BY <1>1, <1>4 DEF EndTransfers, PruneCopied, PruneOlderVersions, Call, CommitCopied, Commit,
                    EndRebuilding, Finish, CutCopy, SourcePublishes, copyVars, aptVars, PlaceCopy
<1>5. CASE PublishCopied
  BY <1>5, PublishCopiedWhole DEF PublishCopied
<1> QED
  BY <1>2, <1>3, <1>4, <1>5, CopyObjectWhole, PruneObjectWhole, WriteEndWhole, CopyFileWhole
  DEF CopyNext

\* ByHashUndisturbed: wherever a copy is cut short, a client of any suite that is
\* read by hash finds all it is told of (docs/createapt-go.md:50-54).
THEOREM AptCopyUndisturbed ==
  ASSUME AptFiles, CanHash, Ordered, PathOrder
  PROVE  CopySpec => ByHashUndisturbed
<1>1. CopyInv /\ IntoInv /\ [CopyNext]_copyVars =>
        [use.copies > 0 /\ ByHashOnly /\ Whole =>
           Whole' \/ ~TrustJustified \/ PoolShared \/ ReplacesFile \/ ~SourceStill]_copyVars
  BY IntoUndisturbed
<1> QED BY <1>1, IntoSpecInv, PTL DEF CopySpec, ByHashUndisturbed

----------------------------------------------------------------------------
(* What a rebuilding copy publishes of what was chosen.                    *)

\* No version of the source lists two builds of a package, or two files of one
\* name.
SingleBuilds == \A v \in DOMAIN SourceAt : \A e, x \in DOMAIN Ingested(SourceRoot(v)) :
  Key(e) = Key(x) /\ EVR(e) = EVR(x) => e = x

OneContent == \A v \in DOMAIN SourceAt : \A e, x \in DOMAIN Ingested(SourceRoot(v)) :
  \A b \in DOMAIN Files(e) \cap DOMAIN Files(x) : Files(e)[b] = Files(x)[b]

\* Every package is for an architecture there is, and a copy is not asked for some
\* of them only.
AllIndexed ==
  /\ "all" \in Arches /\ \A e \in Entries : ArchOf(e) \in Arches
  /\ \A u \in Uses : u.copies # 0 => \A o \in u.options : o.arches = {}

\* What is in the index so far, of what was and what was chosen; and of the
\* latter each file is in place, out of the way of the publish, or still to be copied.
ListedInv ==
  LET placed == job.chosen \ job.todo IN
  /\ DOMAIN idx \subseteq job.base \cup placed
  /\ ~opt.pruneOlder =>
       DOMAIN idx = placed \cup
         {x \in job.base : \A e \in placed : Key(x) # Key(e) \/ EVR(x) # EVR(e)}

MovesInv == \A m \in job.moves : \E e \in DOMAIN Ingested(job.root) :
  m.to.base \in DOMAIN Files(e) /\ m.data = Files(e)[m.to.base]

InPlaceInv == \A e \in (job.chosen \ job.todo) \cap DOMAIN idx : \A b \in DOMAIN Files(e) :
  LET p == Location(idx[e], b) IN
  \/ p \in DOMAIN store /\ store[p] = Files(e)[b] /\ \A c \in work.copies : c.to # p
  \/ \E m \in job.moves : m.to = p

ChosenInv ==
  job.doing = "rebuild" =>
    /\ opt.arches = {}
    /\ ListedInv /\ MovesInv /\ InPlaceInv
    /\ mode = "publishing" => Ingested(Coming) = idx

\* Every entry is in an index of the new Release, and is loaded from it as it is.
LEMMA EveryEntryIndexed ==
  ASSUME AllIndexed, Opened, opt.arches = {}, NEW e \in DOMAIN idx
  PROVE  \E a \in Documented : e \in Selected(a)
<1>1. e \in Entries /\ ArchOf(e) \in Arches /\ "all" \in Arches
  BY OpenFacts DEF TypedIndex, AllIndexed
<1>2. CASE ArchOf(e) = "source"
  <2>1. e \in Selected("source")
    BY <1>2 DEF Selected
  <2>2. "source" \in Documented
    BY <1>1, <1>2, <2>1 DEF Documented
  <2> QED BY <2>1, <2>2
<1>3. CASE ArchOf(e) # "source"
  <2> DEFINE seen == ({ArchOf(x) : x \in DOMAIN idx} \ {"all", "source"}) \cup ArchesOf(old)
  <2>1. Architectures = IF seen = {} THEN {"all"}
                        ELSE IF Cardinality(seen) > 1 THEN seen \ {"all"} ELSE seen
    BY DEF Architectures
  <2>2. CASE ArchOf(e) # "all"
    <3>1. ArchOf(e) \in seen /\ ArchOf(e) # "all"
      BY <1>3, <2>2
    <3>2. ArchOf(e) \in Architectures
      BY <2>1, <3>1
    <3> QED BY <1>1, <3>2 DEF Documented, Selected
  <2>3. CASE ArchOf(e) = "all"
    <3>1. \E a \in Architectures : a # "source" /\ a \in Arches
      <4>1. "source" \notin seen /\ seen \subseteq Arches
        <5>1. \A d \in old.docs : d.arch \in Arches
          BY OpenFacts DEF Index
        <5>2. \A x \in DOMAIN idx : ArchOf(x) \in Arches
          BY OpenFacts DEF AllIndexed, TypedIndex
        <5> QED BY <5>1, <5>2 DEF ArchesOf
      <4>2. CASE seen = {}
        BY <1>1, <2>1, <4>2
      <4>3. CASE seen # {} /\ Cardinality(seen) > 1
        <5>1. seen # {"all"}
          BY <4>3, FS_Singleton
        <5>2. PICK a \in seen : a # "all"
          BY <4>3, <5>1
        <5> QED BY <2>1, <4>1, <4>3, <5>2
      <4>4. CASE seen # {} /\ ~(Cardinality(seen) > 1)
        BY <2>1, <4>1, <4>4
      <4> QED BY <4>2, <4>3, <4>4
    <3> QED BY <1>1, <2>3, <3>1 DEF Documented, Selected
  <2> QED BY <2>2, <2>3
<1> QED BY <1>2, <1>3

LEMMA IngestedNew ==
  ASSUME AllIndexed, Opened, opt.arches = {}
  PROVE  Ingested(NewRelease) = idx
<1> DEFINE stanzas == UNION {d.of : d \in NewRelease.docs}
<1>1. TypedIndex(idx) /\ idx = [e \in DOMAIN idx |-> idx[e]]
  BY OpenFacts DEF TypedIndex
<1>2. /\ NewRelease.docs = {Document(a) : a \in Documented}
      /\ \A d \in NewRelease.docs : \A x \in d.of : x.entry \in DOMAIN idx /\ x.dir = idx[x.entry]
  BY <1>1, NewReleaseFacts, DocumentsFacts
<1>3. \A x \in stanzas : x.entry \in DOMAIN idx /\ x.dir = idx[x.entry]
  BY <1>2
<1>4. ASSUME NEW e \in DOMAIN idx PROVE \E x \in stanzas : x.entry = e
  <2>1. PICK a \in Documented : e \in Selected(a)
    BY EveryEntryIndexed
  <2>2. [entry |-> e, dir |-> idx[e]] \in Document(a).of
    BY <2>1 DEF Document
  <2> QED BY <1>2, <2>1, <2>2
<1>5. Ingested(NewRelease) = [e \in {x.entry : x \in stanzas} |-> (CHOOSE x \in stanzas : x.entry = e).dir]
  BY DEF Ingested
<1> HIDE DEF stanzas
<1>6. {x.entry : x \in stanzas} = DOMAIN idx
  BY <1>3, <1>4
<1>7. \A e \in DOMAIN idx : (CHOOSE x \in stanzas : x.entry = e).dir = idx[e]
  <2> TAKE e \in DOMAIN idx
  <2>1. (CHOOSE x \in stanzas : x.entry = e) \in stanzas /\ (CHOOSE x \in stanzas : x.entry = e).entry = e
    BY <1>4
  <2> QED BY <1>3, <2>1
<1> QED BY <1>1, <1>5, <1>6, <1>7

LEMMA ChosenStart ==
  ASSUME AllIndexed, CopyInv, NEW how, StartRebuilding(how)
  PROVE  ChosenInv'
<1>1. /\ mode' = "open" /\ opt' \in use.options /\ Begin(how, opt'.suite)
      /\ \E chosen \in SUBSET DOMAIN Ingested(From) \ {{}}, f \in Flags :
           job' = [doing |-> "rebuild", again |-> f.again, relocate |-> f.relocate,
                   base |-> DOMAIN idx', root |-> From, chosen |-> chosen, todo |-> chosen, moves |-> {}]
  BY DEF StartRebuilding
<1>2. job'.base = DOMAIN idx' /\ job'.todo = job'.chosen /\ job'.moves = {}
  BY <1>1
<1>3. opt'.arches = {}
  BY <1>1, BeginFacts DEF CopyInv, CopyTyped, AllIndexed
<1>4. ListedInv' /\ MovesInv' /\ InPlaceInv'
  BY <1>2 DEF ListedInv, MovesInv, InPlaceInv
<1> QED BY <1>1, <1>3, <1>4 DEF ChosenInv

LEMMA ChosenPlace ==
  ASSUME SingleBuilds, CopyInv, IntoInv, ChosenInv, NEW e \in Entries, PlaceCopy(e)
  PROVE  ChosenInv'
<1> DEFINE dir   == IF job.relocate THEN opt.dir ELSE Ingested(job.root)[e]
           moves == {[from |-> Location(Ingested(job.root)[e], b), to |-> Location(dir, b),
                      data |-> Files(e)[b]] : b \in DOMAIN Files(e)}
           placed == job.chosen \ job.todo
<1>1. /\ job.doing = "rebuild" /\ job.moves = {} /\ e \in job.todo
      /\ idx' = [x \in (DOMAIN idx \ SameVersion(e)) \cup {e} |-> IF x = e THEN dir ELSE idx[x]]
      /\ job' = [job EXCEPT !.todo = @ \ {e}, !.moves = moves]
      /\ UNCHANGED <<store, work, mode, opt>>
  BY DEF PlaceCopy, Superseded
<1>2. /\ RebuildInv /\ mode = "open" /\ e \in job.chosen /\ job.todo \subseteq job.chosen
      /\ job.chosen \subseteq DOMAIN Ingested(job.root)
  BY <1>1, RebuildFacts DEF RebuildInv
<1>3. PICK v \in DOMAIN SourceAt : job.root = SourceRoot(v)
  BY <1>1, RebuildFacts
<1>4. /\ job'.chosen = job.chosen /\ job'.todo = job.todo \ {e} /\ job'.moves = moves
      /\ job'.root = job.root /\ job'.base = job.base /\ job'.doing = "rebuild"
  BY <1>1
<1>5. /\ opt.arches = {} /\ ListedInv /\ InPlaceInv
  BY <1>1 DEF ChosenInv
<1>6. job'.chosen \ job'.todo = placed \cup {e} /\ e \notin placed
  BY <1>1, <1>2, <1>4
<1>7. /\ DOMAIN idx' = (DOMAIN idx \ SameVersion(e)) \cup {e} /\ idx'[e] = dir
      /\ \A x \in DOMAIN idx' : x # e => x \in DOMAIN idx /\ idx'[x] = idx[x]
  BY <1>1
<1> HIDE DEF dir
<1>8. ListedInv'
  <2>1. DOMAIN idx' \subseteq job.base \cup placed \cup {e}
    BY <1>5, <1>7 DEF ListedInv
  <2>2. ASSUME ~opt.pruneOlder
        PROVE  DOMAIN idx' = (placed \cup {e}) \cup
                 {x \in job.base : \A y \in placed \cup {e} : Key(x) # Key(y) \/ EVR(x) # EVR(y)}
    <3>1. DOMAIN idx = placed \cup {x \in job.base : \A y \in placed : Key(x) # Key(y) \/ EVR(x) # EVR(y)}
      BY <1>5, <2>2 DEF ListedInv
    <3>2. \A y \in placed : Key(y) # Key(e) \/ EVR(y) # EVR(e)
      BY <1>2, <1>3, <1>6 DEF SingleBuilds
    <3> HIDE DEF placed
    <3> QED BY <1>7, <3>1, <3>2 DEF SameVersion
  <2> QED BY <1>1, <1>4, <1>6, <2>1, <2>2 DEF ListedInv
<1>9. MovesInv'
  <2>1. ASSUME NEW m \in moves
        PROVE  m.to.base \in DOMAIN Files(e) /\ m.data = Files(e)[m.to.base]
    BY DEF Location
  <2> HIDE DEF moves
  <2> QED BY <1>2, <1>4, <2>1 DEF MovesInv
<1>10. InPlaceInv'
  <2>1. ASSUME NEW x \in (placed \cup {e}) \cap DOMAIN idx', NEW b \in DOMAIN Files(x),
               NEW p, p = Location(idx'[x], b)
        PROVE  \/ p \in DOMAIN store /\ store[p] = Files(x)[b] /\ \A c \in work.copies : c.to # p
               \/ \E m \in moves : m.to = p
    <3>1. CASE x = e
      <4>1. p = Location(dir, b) /\ b \in DOMAIN Files(e)
        BY <1>7, <2>1, <3>1
      <4>2. \E m \in moves : m.to = Location(dir, b)
        <5>1. PICK a, q : a = Location(Ingested(job.root)[e], b) /\ q = Location(dir, b)
          OBVIOUS
        <5>2. [from |-> a, to |-> q, data |-> Files(e)[b]] \in moves
          BY <4>1, <5>1
        <5>3. [from |-> a, to |-> q, data |-> Files(e)[b]].to = q
          OBVIOUS
        <5> QED BY <5>1, <5>2, <5>3
      <4> QED BY <4>1, <4>2
    <3>2. CASE x # e
      <4>1. x \in placed \cap DOMAIN idx /\ p = Location(idx[x], b)
        BY <1>7, <2>1, <3>2
      <4>2. ~ \E m \in job.moves : m.to = p
        BY <1>1
      <4> HIDE DEF moves
      <4> QED BY <1>5, <4>1, <4>2 DEF InPlaceInv
    <3> QED BY <3>1, <3>2
  <2> HIDE DEF moves, placed
  <2>2. job'.moves = moves /\ job'.chosen \ job'.todo = placed \cup {e}
    BY <1>4, <1>6 DEF placed
  <2>3. store' = store /\ work' = work
    BY <1>1
  <2> QED BY <2>1, <2>2, <2>3 DEF InPlaceInv
<1> QED BY <1>1, <1>2, <1>5, <1>8, <1>9, <1>10 DEF ChosenInv

LEMMA ChosenFile ==
  ASSUME CanHash, OneContent, CopyInv, IntoInv, ChosenInv, NEW m, CopyFile(m)
  PROVE  ChosenInv'
<1>1. /\ job.doing = "rebuild" /\ m \in job.moves
      /\ \/ store' = store /\ m.to \in DOMAIN store /\ store[m.to] = m.data
         \/ StorePut(m.to, m.data)
      /\ job' = [job EXCEPT !.moves = @ \ {m}]
      /\ UNCHANGED <<work, mode, idx, opt>>
  BY DEF CopyFile, SameThere
<1>2. /\ RebuildInv /\ mode = "open" /\ job.chosen \subseteq DOMAIN Ingested(job.root)
      /\ work.copies = {}
  BY <1>1, RebuildFacts DEF RebuildInv, NoSteps
<1>3. PICK v \in DOMAIN SourceAt : job.root = SourceRoot(v)
  BY <1>1, RebuildFacts
<1>4. /\ job'.chosen = job.chosen /\ job'.todo = job.todo /\ job'.moves = job.moves \ {m}
      /\ job'.root = job.root /\ job'.base = job.base
  BY <1>1
<1>5. /\ opt.arches = {} /\ ListedInv /\ MovesInv /\ InPlaceInv
  BY <1>1 DEF ChosenInv
<1>6. /\ m.to \in DOMAIN store' /\ store'[m.to] = m.data
      /\ \A q \in DOMAIN store : q # m.to => q \in DOMAIN store' /\ store'[q] = store[q]
  <2>1. PICK p, c : p = m.to /\ c = m.data
    OBVIOUS
  <2>2. CASE StorePut(p, c)
    BY <2>1, <2>2 DEF StorePut
  <2>3. CASE ~StorePut(p, c)
    BY <1>1, <2>1, <2>3
  <2> QED BY <2>2, <2>3
<1>7. ListedInv' /\ MovesInv'
  BY <1>1, <1>4, <1>5 DEF ListedInv, MovesInv
<1>8. InPlaceInv'
  <2>1. ASSUME NEW x \in (job.chosen \ job.todo) \cap DOMAIN idx, NEW b \in DOMAIN Files(x),
               NEW p, p = Location(idx[x], b)
        PROVE  \/ p \in DOMAIN store' /\ store'[p] = Files(x)[b]
               \/ \E n \in job.moves \ {m} : n.to = p
    <3>1. CASE p = m.to
      <4>1. m.to.base = b
        BY <2>1, <3>1 DEF Location
      <4>2. PICK y \in DOMAIN Ingested(job.root) : b \in DOMAIN Files(y) /\ m.data = Files(y)[b]
        BY <1>1, <1>5, <4>1 DEF MovesInv
      <4>3. Files(y)[b] = Files(x)[b]
        BY <1>2, <1>3, <2>1, <4>2 DEF OneContent
      <4> QED BY <1>6, <3>1, <4>2, <4>3
    <3>2. CASE p # m.to
      <4>1. \/ p \in DOMAIN store /\ store[p] = Files(x)[b]
            \/ \E n \in job.moves : n.to = p
        BY <1>5, <2>1 DEF InPlaceInv
      <4> QED BY <1>6, <3>2, <4>1
    <3> QED BY <3>1, <3>2
  <2> QED BY <1>1, <1>2, <1>4, <2>1 DEF InPlaceInv
<1> QED BY <1>1, <1>2, <1>5, <1>7, <1>8 DEF ChosenInv

LEMMA ChosenPrune ==
  ASSUME CopyInv, IntoInv, ChosenInv, PruneCopied
  PROVE  ChosenInv'
<1>1. /\ job.doing = "rebuild" /\ job' = job /\ opt.pruneOlder
      /\ PruneOlderVersions /\ UNCHANGED <<store, work, mode, opt>>
  BY DEF PruneCopied, Transferred, PruneOlderVersions, Call
<1>2. \E gone : idx' = Without(idx, gone)
  BY <1>1 DEF PruneOlderVersions
<1>3. DOMAIN idx' \subseteq DOMAIN idx /\ \A x \in DOMAIN idx' : idx'[x] = idx[x]
  BY <1>2 DEF Without
<1>4. mode = "open"
  BY <1>1 DEF PruneOlderVersions, Call
<1>5. opt.arches = {} /\ ListedInv /\ MovesInv /\ InPlaceInv
  BY <1>1 DEF ChosenInv
<1>6. ListedInv' /\ MovesInv' /\ InPlaceInv'
  BY <1>1, <1>3, <1>5 DEF ListedInv, MovesInv, InPlaceInv
<1> QED BY <1>1, <1>4, <1>5, <1>6 DEF ChosenInv

LEMMA ChosenCommit ==
  ASSUME AllIndexed, CopyInv, IntoInv, ChosenInv, CommitCopied
  PROVE  ChosenInv'
<1>1. /\ job.doing = "rebuild" /\ job.moves = {} /\ job' = job
      /\ Commit /\ mode = "open" /\ work' = CommitSteps /\ store' = store
      /\ idx' = idx /\ opt' = opt
  BY DEF CommitCopied, Transferred, Commit, session
<1>2. Opened
  BY <1>1, RebuildFacts
<1>3. opt.arches = {} /\ ListedInv /\ MovesInv /\ InPlaceInv
  BY <1>1 DEF ChosenInv
<1>4. Ingested(Coming)' = idx'
  BY <1>1, <1>2, <1>3, CommitComing, IngestedNew
<1>5. work'.copies = PlanFiles(store, PlanState).copies
  BY <1>1 DEF CommitSteps
<1>6. \A c \in work'.copies : c.to \notin DOMAIN store
  BY <1>2, <1>5, MoveFacts
<1>7. ListedInv' /\ MovesInv'
  BY <1>1, <1>3 DEF ListedInv, MovesInv
<1>8. InPlaceInv'
  BY <1>1, <1>3, <1>6 DEF InPlaceInv
<1> QED BY <1>1, <1>3, <1>4, <1>7, <1>8 DEF ChosenInv

\* A step of a publish leaves the files that are in place, and that no move of its
\* own writes, where the index has them.
LEMMA ChosenPublish ==
  ASSUME CopyInv, IntoInv, ChosenInv, PublishCopied
  PROVE  ChosenInv'
<1> DEFINE s == opt.suite
<1>1. /\ mode = "publishing" /\ mode' = mode /\ Step
      /\ idx' = idx /\ opt' = opt /\ job' = job /\ job # NoJob
  BY DEF PublishCopied, Publishing, session
<1>2. job.doing = "rebuild"
  BY <1>1 DEF CopyInv, CopyTyped
<1>3. /\ RebuildInv /\ s \in Suites /\ TypedIndex(idx) /\ job.moves = {}
      /\ work \in AptShape(s, Doomed) /\ IsRelease(s, Coming) /\ work.uploads = {}
      /\ SwappingInv /\ CollectingInv
  BY <1>1, <1>2, RebuildFacts DEF PublishInv
<1>4. work \in Shape(Movable, Uploadable, Describable, Swappable(s), {InRelease(s), ReleaseGPG(s)}, Doomed)
  BY <1>3 DEF AptShape
<1>5. Coming' = Coming
  BY <1>1, IntoPublish DEF PublishCopied, copying
<1>6. opt.arches = {} /\ ListedInv /\ MovesInv /\ InPlaceInv /\ Ingested(Coming) = idx
  BY <1>1, <1>2 DEF ChosenInv
<1>7. AllLocations(idx) \subseteq Places /\ \A p \in Places : p \notin Fronts
  BY <1>3, IndexFacts, PlaceKinds
<1>8. ASSUME NEW p \in AllLocations(idx), p \in DOMAIN store, \A c \in work.copies : c.to # p
      PROVE  p \in DOMAIN store' /\ store'[p] = store[p] /\ \A c \in work'.copies : c.to # p
  <2>1. CASE CopyOne
    <3>1. PICK c \in work.copies : StorePut(c.to, store[c.from]) /\ work'.copies = work.copies \ {c}
      BY <1>4, <2>1, CopyOneFields
    <3>2. c.to # p
      BY <1>8
    <3>3. PICK q, d : q = c.to /\ d = store[c.from]
      OBVIOUS
    <3> QED BY <1>8, <3>1, <3>2, <3>3 DEF StorePut
  <2>2. CASE WriteMetadata
    <3>1. PICK u : u = Head(work.metadata)
      OBVIOUS
    <3>2. u \in Describable /\ StorePut(u.to, u.data) /\ work'.copies = {}
      BY <1>4, <2>2, <3>1, WriteMetadataFields
    <3>3. u.to \notin Places
      BY <3>2, DescribableFacts
    <3>4. PICK q, d : q = u.to /\ d = u.data
      OBVIOUS
    <3> QED BY <1>7, <1>8, <3>2, <3>3, <3>4 DEF StorePut
  <2>3. CASE SwapOne
    <3>1. PICK f : f = Head(work.swap)
      OBVIOUS
    <3>2. StorePut(f.to, f.data) /\ work.swap # <<>> /\ work'.copies = {}
      BY <1>4, <2>3, <3>1, SwapOneFields
    <3>3. f \in {ReleaseFile(Coming), DetachedFile(Coming), InlineFile(Coming)}
      BY <1>3, <3>1, <3>2, SwapHead
    <3>4. Coming.suite = s
      BY <1>3, ReleaseFields
    <3>5. f.to \in {Release(s), ReleaseGPG(s), InRelease(s)}
      BY <3>3, <3>4 DEF ReleaseFile, DetachedFile, InlineFile
    <3>6. f.to \in Fronts
      BY <1>3, <3>5 DEF Fronts
    <3>7. PICK q, d : q = f.to /\ d = f.data
      OBVIOUS
    <3> QED BY <1>7, <1>8, <3>2, <3>6, <3>7 DEF StorePut
  <2>4. CASE RetractOne
    <3>1. PICK h \in {InRelease(s), ReleaseGPG(s)} : StoreDelete(h) /\ work'.copies = {}
      BY <1>4, <2>4, RetractOneFields
    <3>2. h \in Fronts
      BY <1>3 DEF Fronts
    <3> QED BY <1>7, <1>8, <3>1, <3>2 DEF StoreDelete
  <2>5. CASE CollectOne
    <3>1. (UNCHANGED store \/ \E q \in Doomed : StoreDelete(q)) /\ work'.copies = {}
      BY <1>4, <2>5, CollectOneFields DEF Doomed
    <3>2. \A q \in Doomed : q # p
      BY <1>3, <1>8 DEF CollectingInv
    <3> QED BY <1>8, <3>1, <3>2 DEF StoreDelete
  <2>6. ~UploadOne
    BY <1>3 DEF UploadOne, Uploading
  <2> QED BY <1>1, <2>1, <2>2, <2>3, <2>4, <2>5, <2>6 DEF Step
<1>9. InPlaceInv'
  <2>1. ASSUME NEW e \in (job.chosen \ job.todo) \cap DOMAIN idx, NEW b \in DOMAIN Files(e),
               NEW p, p = Location(idx[e], b)
        PROVE  p \in DOMAIN store' /\ store'[p] = Files(e)[b] /\ \A c \in work'.copies : c.to # p
    <3>1. p \in DOMAIN store /\ store[p] = Files(e)[b] /\ \A c \in work.copies : c.to # p
      BY <1>3, <1>6, <2>1 DEF InPlaceInv
    <3>2. p \in AllLocations(idx)
      BY <1>3, <2>1, IndexFacts
    <3> QED BY <1>8, <3>1, <3>2
  <2> QED BY <1>1, <2>1 DEF InPlaceInv
<1>10. ListedInv' /\ MovesInv'
  BY <1>1, <1>6 DEF ListedInv, MovesInv
<1> QED BY <1>1, <1>5, <1>6, <1>9, <1>10 DEF ChosenInv

LEMMA ChosenNext ==
  ASSUME CanHash, SingleBuilds, OneContent, AllIndexed, CopyInv, IntoInv, ChosenInv, [CopyNext]_copyVars
  PROVE  ChosenInv'
<1>1. ASSUME job' = NoJob \/ job'.doing \in {"exact", "endExact", "endRebuild"} PROVE ChosenInv'
  BY <1>1, Busy DEF ChosenInv
<1>2. ASSUME job' = job, UNCHANGED <<aptVars>> PROVE ChosenInv'
  BY <1>2 DEF ChosenInv, ListedInv, MovesInv, InPlaceInv, Coming, aptVars, session
<1>3. CASE use.copies = 0 /\ Next /\ UNCHANGED <<job, copying>>
  BY <1>1, <1>3 DEF CopyInv, CopyTyped
<1>4. ASSUME NEW how, StartExact(how) PROVE ChosenInv'
  <2>1. job'.doing = "exact"
    BY <1>4 DEF StartExact
  <2> QED BY <1>1, <2>1
<1>5. CASE CopyObject \/ PruneObject \/ EndTransfers \/ CutCopy \/ WriteEnd
  <2>1. ASSUME CopyObject \/ PruneObject PROVE job'.doing = "exact"
    <3>1. CASE CopyObject
      <4>1. job.doing = "exact" /\ \E p : job' = [job EXCEPT !.todo = @ \ {p}]
        BY <3>1 DEF CopyObject
      <4> QED BY <4>1
    <3> QED BY <2>1, <3>1 DEF PruneObject
  <2>2. ASSUME EndTransfers PROVE job'.doing = "endExact"
    <3>1. job.doing = "exact" /\ \E t : job' = [job EXCEPT !.doing = "endExact", !.todo = t]
      BY <2>2 DEF EndTransfers
    <3> QED BY <3>1
  <2>3. ASSUME WriteEnd PROVE job' = NoJob \/ job'.doing \in {"endExact", "endRebuild"}
    <3>1. /\ job.doing \in {"endExact", "endRebuild"}
          /\ job' = NoJob \/ \E t : job' = [job EXCEPT !.todo = t]
      BY <2>3 DEF WriteEnd
    <3>2. ASSUME NEW t, job' = [job EXCEPT !.todo = t] PROVE job'.doing = job.doing
      BY <3>1, <3>2
    <3> QED BY <3>1, <3>2
  <2>4. CutCopy => job' = NoJob
    BY DEF CutCopy
  <2> QED BY <1>1, <1>5, <2>1, <2>2, <2>3, <2>4
<1>6. CASE EndRebuilding
  <2>1. job' = [doing |-> "endRebuild", root |-> job.root,
                todo |-> <<[to |-> Config, data |-> CopiedFrom(Here)]>>]
    BY <1>6 DEF EndRebuilding
  <2>2. job'.doing = "endRebuild"
    BY <2>1
  <2> QED BY <1>1, <2>2
<1>7. CASE SourcePublishes \/ UNCHANGED copyVars
  BY <1>2, <1>7 DEF SourcePublishes, copyVars
<1> QED
  BY <1>3, <1>4, <1>5, <1>6, <1>7, ChosenStart, ChosenPlace, ChosenFile, ChosenPrune, ChosenCommit,
     ChosenPublish DEF CopyNext

\* ChosenPublished: a rebuilding copy that ends publishes every package that was
\* chosen, each with its files where the index says they are, beside what was
\* there, whatever was in their place before and however often the copy was cut
\* short and taken up again (copy.go): from a source with one build of a version
\* and one file of a name, and of all architectures.
THEOREM AptChosenPublished ==
  ASSUME CanHash, Ordered, SingleBuilds, OneContent, AllIndexed
  PROVE  CopySpec => ChosenPublished
<1>1. ASSUME CopyInv, IntoInv, ChosenInv, EndRebuilding
      PROVE  LET rel == store[Release(opt.suite)]
                 now == DOMAIN Ingested(rel)
             IN /\ now \subseteq job.base \cup job.chosen
                /\ ~opt.pruneOlder =>
                     now = job.chosen \cup
                           {x \in job.base : \A e \in job.chosen : Key(x) # Key(e) \/ EVR(x) # EVR(e)}
                /\ \A e \in now \cap job.chosen : \A b \in DOMAIN Files(e) :
                     LET p == Location(Ingested(rel)[e], b) IN p \in DOMAIN store /\ store[p] = Files(e)[b]
  <2>1. job.doing = "rebuild" /\ mode = "publishing" /\ work = NoSteps
    BY <1>1 DEF EndRebuilding, Finish
  <2>2. job.todo = {} /\ job.moves = {}
    BY <1>1, <2>1, RebuildFacts
  <2>3. ListedInv /\ InPlaceInv /\ Ingested(Coming) = idx
    BY <1>1, <2>1 DEF ChosenInv
  <2>4. Coming = store[Release(opt.suite)]
    BY <2>1 DEF Coming, NoSteps, Range
  <2>5. job.chosen \ job.todo = job.chosen
    BY <2>2
  <2>6. Ingested(store[Release(opt.suite)]) = idx
    BY <2>3, <2>4
  <2>7. /\ DOMAIN idx \subseteq job.base \cup job.chosen
        /\ ~opt.pruneOlder =>
             DOMAIN idx = job.chosen \cup
               {x \in job.base : \A e \in job.chosen : Key(x) # Key(e) \/ EVR(x) # EVR(e)}
    BY <2>3, <2>5 DEF ListedInv
  <2>8. \A e \in DOMAIN idx \cap job.chosen : \A b \in DOMAIN Files(e) :
          Location(idx[e], b) \in DOMAIN store /\ store[Location(idx[e], b)] = Files(e)[b]
    BY <2>2, <2>3, <2>5 DEF InPlaceInv
  <2> QED BY <2>6, <2>7, <2>8
<1>2. CopyInit => ChosenInv
  BY Busy DEF CopyInit, ChosenInv
<1>3. CopyInv /\ IntoInv /\ ChosenInv /\ [CopyNext]_copyVars => ChosenInv'
  BY ChosenNext
<1> QED BY <1>1, <1>2, <1>3, IntoSpecInv, PTL DEF CopySpec, ChosenPublished
=============================================================================
