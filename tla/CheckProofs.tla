----------------------------- MODULE CheckProofs -----------------------------
(***************************************************************************)
(* For every input, every world and any number of storage calls that fail: *)
(* what a check reports is what is wrong.  A target's report is followed   *)
(* layer by layer: while no call has failed, or no more than was said, its *)
(* failures so far are the faults of the layers it has been through.       *)
(***************************************************************************)
EXTENDS Check, TLAPS, WellFoundedInduction

----------------------------------------------------------------------------
(* The inductive invariant.                                                *)

Busy == phase \in {"root", "documents", "files"}

Stored(t) == Repository(t).stored

\* What holds however many calls fail.
Kept ==
  /\ \E c \in Checks : input = c.input /\ world = c.world
  /\ targets \subseteq Targets(input)
  /\ errors \in Nat
  /\ phase \in {"targets", "root", "documents", "files", "over"}
  /\ phase = "over" => targets = {}
  /\ Busy => /\ target \in Targets(input) \ targets
             /\ ~Refused(target) /\ Repository(target) # Closed
  /\ \A x \in results : x.target \in Targets(input) \ targets
  /\ phase = "root" => \A x \in results : x.target # target
  /\ phase \in {"documents", "files"} => Root(Repository(target)) = "good"
  /\ phase = "documents" => done \in 0..Len(Docs)
  /\ phase = "files" => input.level # "metadata"

\* Nothing failed, or nothing was said of t but that it is right.
Clean(t) == errors = 0 \/ \A x \in results : x.target = t => x.status = "OK"

\* A call that fails may hide a recorded checksum, and nothing else.
Hidden(t, what) ==
  /\ Rpm /\ input.level = "head" /\ errors > 0
  /\ what \in DOMAIN Stored(t) /\ Mislabelled(Stored(t)[what])

Told(t, faults) == Fails(t) \subseteq faults /\ \A what \in faults \ Fails(t) : Hidden(t, what)

Settled(t) == Clean(t) => Told(t, Faulty(t))

\* The documents that are in scope among the first k.
DocsUpTo(k) == {Docs[n] : n \in {i \in 1..k : WantsComponent(Docs[i])}}

DocFaults(k) == {x \in {"expiry"} : Repository(target).expired} \cup
                {d.name : d \in {x \in DocsUpTo(k) : Useless(target, x)}}

GoodIndex(d) == d.type = "index" /\ d.state = "good"

\* What was read of the first k documents: the primary, or one form of an index.
RpmBody(k) == body = {d \in DocsUpTo(k) : d.type = "primary" /\ RpmReadable(d)}
AptBody(k) == /\ parsed = {Index(d) : d \in body}
              /\ body \subseteq {d \in DocsUpTo(k) : GoodIndex(d)}
              /\ \A d \in DocsUpTo(k) : GoodIndex(d) => \E b \in body : Alike(b, d)

DocumentsTold ==
  phase = "documents" /\ Clean(target) =>
    /\ IF Rpm THEN RpmBody(done) ELSE AptBody(done)
    /\ Fails(target) = DocFaults(done)

PackageFaults == {x \in {"packages"} : Rpm /\ \E d \in Primary(target) : d.state = "garbled"} \cup
                 {p \in Repository(target).unmet : Rpm /\ \E d \in Primary(target) : d.state # "garbled"}

WantedFiles(t) == FilesOf(Wanted(t))

FileFaults(t, F) == {f.file : f \in {g \in F : BadFile(g, Stored(t)[g.file])}}

FilesTold ==
  phase = "files" /\ Clean(target) =>
    /\ todo \subseteq WantedFiles(target)
    /\ Told(target, DocFaults(Len(Docs)) \cup PackageFaults \cup FileFaults(target, WantedFiles(target) \ todo))

\* A target that has been through, and the one that is being checked.
TargetsTold == \A t \in Targets(input) \ targets : (Busy => t # target) => Settled(t)

CheckInv == Kept /\ TargetsTold /\ DocumentsTold /\ FilesTold

----------------------------------------------------------------------------
(* The repositories of an input.                                           *)

LEMMA LevelGiven ==
  ASSUME Kept
  PROVE  input.level \in {"metadata", "head", "fetch"}
BY ChecksAssumption DEF Kept

LEMMA RepositoryGiven ==
  ASSUME Kept, NEW t \in Targets(input), Repository(t) # Closed
  PROVE  IsRepository(Repository(t), Rpm)
BY ChecksAssumption DEF Kept, Repository, Rpm

LEMMA RpmUnrestricted ==
  ASSUME Rpm, NEW t \in Targets(input)
  PROVE  t.components = {}
<1>1. t \in RpmTargets(input)
  BY DEF Rpm, Targets
<1>2. PICK s : t \in SectionTargets(input, s)
  BY <1>1 DEF RpmTargets
<1>3. QED
  BY <1>2 DEF SectionTargets

LEMMA DocsGiven ==
  ASSUME Kept, Busy
  PROVE  /\ Len(Docs) \in Nat /\ DOMAIN Docs = 1..Len(Docs)
         /\ \A n \in 1..Len(Docs) : Docs[n].place = n /\ Docs[n].state \in DocStates
<1>1. IsRepository(Repository(target), Rpm)
  BY RepositoryGiven DEF Kept
<1>2. Docs \in Seq({Docs[n] : n \in DOMAIN Docs})
  BY <1>1 DEF IsRepository, Docs
<1>3. Len(Docs) \in Nat /\ DOMAIN Docs = 1..Len(Docs)
  BY <1>2
<1>4. QED
  BY <1>1, <1>3 DEF IsRepository, Docs

LEMMA DocsOfTarget ==
  ASSUME Kept, Busy
  PROVE  DocsOf(target) = DocsUpTo(Len(Docs))
BY DocsGiven DEF DocsOf, DocsUpTo, Docs, WantsComponent

LEMMA DocsUpToNext ==
  ASSUME Kept, Busy, NEW k \in Nat, k < Len(Docs)
  PROVE  DocsUpTo(k + 1) = DocsUpTo(k) \cup {d \in {Docs[k + 1]} : WantsComponent(d)}
<1>1. 1..(k + 1) = (1..k) \cup {k + 1}
  OBVIOUS
<1>2. QED
  BY <1>1, Zenon DEF DocsUpTo

LEMMA DocsUpToOf ==
  ASSUME Kept, Busy, NEW k \in 0..Len(Docs)
  PROVE  /\ DocsUpTo(k) \subseteq DocsOf(target)
         /\ \A d \in DocsUpTo(k) : d.place \in 1..k /\ d.state \in DocStates
<1>1. DocsUpTo(k) \subseteq DocsUpTo(Len(Docs))
  BY DocsGiven DEF DocsUpTo
<1>2. \A n \in 1..k : Docs[n].place \in 1..k /\ Docs[n].state \in DocStates
  BY DocsGiven
<1>3. QED
  BY <1>1, <1>2, DocsOfTarget DEF DocsUpTo

----------------------------------------------------------------------------
(* What is selected, and what is wrong with a file.                        *)

LEMMA WantedIsInScope ==
  ASSUME NEW e
  PROVE  WantsArch(e.arch) /\ Allows(input.names, e.name) <=> InScope(e)
<1>1. Allows(input.arches, e.arch) <=> input.arches = {} \/ e.arch \in input.arches
  BY DEF Allows
<1>2. CASE Rpm
  <2>1. WantsArch(e.arch) <=> input.arches = {} \/ e.arch \in input.arches \/ e.arch = "noarch"
    BY <1>1, <1>2 DEF WantsArch
  <2>2. QED
    BY <1>2, <2>1 DEF Allows, InScope, ForAll, Installable
<1>3. CASE ~Rpm
  <2>1. input.arches \ {"source"} # {} <=> input.arches # {"source"} /\ input.arches # {}
    OBVIOUS
  <2>2. WantsArch(e.arch) <=> \/ input.arches = {} \/ e.arch \in input.arches
                              \/ "any" \in input.arches
                              \/ e.arch = "all" /\ input.arches # {"source"}
    BY <1>1, <1>3 DEF WantsArch
  <2>3. QED
    BY <1>3, <2>1, <2>2 DEF Allows, InScope, ForAll, Installable
<1>4. QED
  BY <1>2, <1>3

\* Of the stanzas with one ID one is the first.
LEMMA FirstOfID ==
  ASSUME NEW E, \A e \in E : e.nth \in Nat, NEW x \in E
  PROVE  \E y \in E : y.id = x.id /\ y.nth <= x.nth /\ \A z \in E : z.id = y.id => y.nth <= z.nth
<1> DEFINE before == {ss \in Nat \X Nat : ss[1] < ss[2]}
           nths   == {e.nth : e \in {z \in E : z.id = x.id}}
<1>1. IsWellFoundedOn(before, Nat)
  BY NatLessThanWellFounded DEF OpToRel
<1>2. \A m, n \in Nat : m < n => <<m, n>> \in before
  OBVIOUS
<1>3. nths \subseteq Nat /\ nths # {} /\ x.nth \in nths
  OBVIOUS
<1> HIDE DEF before
<1>4. PICK n \in nths : \A m \in nths : <<m, n>> \notin before
  BY <1>1, <1>3, WFMin
<1>5. ASSUME NEW m \in nths PROVE n <= m
  <2>1. ~(m < n)
    BY <1>2, <1>3, <1>4
  <2>2. QED
    BY <1>3, <2>1
<1>6. PICK y \in E : y.id = x.id /\ y.nth = n
  OBVIOUS
<1>7. QED
  BY <1>3, <1>5, <1>6

LEMMA SelectedWanted ==
  ASSUME NEW t, NEW E, E = Listed(t),
         \A e \in E : e.version \in Int /\ e.nth \in Nat,
         ~Rpm => \A e, f \in E : e.id = f.id =>
                   e.name = f.name /\ e.arch = f.arch /\ e.version = f.version
  PROVE  Selected(E) = Wanted(t)
<1> DEFINE W == {e \in E : InScope(e)}
<1>1. W = {e \in E : WantsArch(e.arch) /\ Allows(input.names, e.name)}
  BY WantedIsInScope
<1>2. Selected(E) = IF input.latest THEN Newest(Distinct(W)) ELSE Distinct(W)
  BY <1>1 DEF Selected
<1>3. Wanted(t) = {e \in W : ~\E x \in W : StandsFor(x, e)}
  BY DEF Wanted
<1>4. W \subseteq E
  OBVIOUS
<1> HIDE DEF W
<1>5. Distinct(W) = {e \in W : ~\E x \in W : ~Rpm /\ x.id = e.id /\ x.nth < e.nth}
  BY <1>4 DEF Distinct
<1>6. CASE ~input.latest
  BY <1>2, <1>3, <1>5, <1>6 DEF StandsFor
<1>7. CASE input.latest
  <2>1. ASSUME NEW e \in Newest(Distinct(W)) PROVE e \in Wanted(t)
    <3>1. e \in Distinct(W) /\ e \in W
      BY <2>1 DEF Newest, Distinct
    <3>2. SUFFICES ASSUME NEW x \in W, StandsFor(x, e) PROVE FALSE
      BY <1>3, <3>1
    <3>3. /\ x.name = e.name /\ x.arch = e.arch
          /\ x.version > e.version \/ (x.version = e.version /\ x.nth < e.nth)
      BY <1>5, <3>1, <3>2 DEF StandsFor
    <3>4. PICK y \in Distinct(W) : /\ y \in W /\ y.nth <= x.nth
                                   /\ y.name = x.name /\ y.arch = x.arch /\ y.version = x.version
      <4>1. CASE Rpm
        BY <1>4, <4>1 DEF Distinct
      <4>2. CASE ~Rpm
        <5>1. PICK y \in W : /\ y.id = x.id /\ y.nth <= x.nth
                             /\ \A z \in W : z.id = y.id => y.nth <= z.nth
          BY <1>4, FirstOfID
        <5>2. y \in Distinct(W)
          BY <5>1 DEF Distinct
        <5>3. QED
          BY <1>4, <4>2, <5>1, <5>2
      <4>3. QED
        BY <4>1, <4>2
    <3>5. e.version < y.version => FALSE
      BY <1>4, <2>1, <3>1, <3>3, <3>4 DEF Newest
    <3>6. e.version = y.version /\ y.nth < e.nth => FALSE
      BY <1>4, <2>1, <3>1, <3>3, <3>4 DEF Newest
    <3>7. QED
      BY <1>4, <3>1, <3>3, <3>4, <3>5, <3>6
  <2>2. ASSUME NEW e \in Wanted(t) PROVE e \in Newest(Distinct(W))
    <3>1. e \in W /\ \A x \in W : ~StandsFor(x, e)
      BY <1>3, <2>2
    <3>2. e \in Distinct(W)
      BY <1>5, <3>1 DEF StandsFor
    <3>3. ASSUME NEW x \in Distinct(W), x.name = e.name, x.arch = e.arch
          PROVE  x.version < e.version \/ (x.version = e.version /\ e.nth <= x.nth)
      <4>1. x \in W /\ ~StandsFor(x, e)
        BY <3>1, <3>3 DEF Distinct
      <4>2. QED
        BY <1>4, <1>7, <3>1, <3>3, <4>1 DEF StandsFor
    <3>4. QED
      BY <3>2, <3>3 DEF Newest
  <2>3. QED
    BY <1>2, <1>7, <2>1, <2>2
<1>8. QED
  BY <1>6, <1>7

LEMMA HeadCheckTrue ==
  ASSUME NEW s \in Founds \cup {Absent}, NEW f, input.level = "head"
  PROVE  HeadCheck(s) = "FAIL" <=> BadFile(f, s)
BY DEF HeadCheck, BadFile, Mislabelled, Founds

LEMMA FetchCheckTrue ==
  ASSUME NEW s \in Founds \cup {Absent}, NEW f, input.level = "fetch"
  PROVE  /\ FetchCheck(f, s) = "FAIL" <=> BadFile(f, s)
         /\ FetchCheck(f, s) \in {"OK", "FAIL"}
BY DEF FetchCheck, BadFile, Mislabelled, Founds

----------------------------------------------------------------------------
(* One result after another.                                               *)

LEMMA Reported ==
  ASSUME NEW R, Add(R), \A x \in R : x.target = target, NEW t
  PROVE  Fails(t)' = Fails(t) \cup {x.what : x \in {y \in R : t = target /\ y.status = "FAIL"}}
<1>1. {y \in results : y.target = t /\ y.status = "FAIL"}' =
        {y \in results : y.target = t /\ y.status = "FAIL"} \cup {y \in R : t = target /\ y.status = "FAIL"}
  BY DEF Add
<1>2. QED
  BY <1>1, Zenon DEF Fails

LEMMA CleanBefore ==
  ASSUME NEW t, errors \in Nat, errors' \in Nat, errors' >= errors, results \subseteq results', Clean(t)'
  PROVE  Clean(t)
BY DEF Clean

LEMMA FaultyStays ==
  ASSUME UNCHANGED <<input, world>>, NEW t
  PROVE  Faulty(t)' = Faulty(t)
BY DEF Faulty, Repository, Refused, Rooted, Rpm, DocsOf, Useless, Primary, Listed, Wanted, StandsFor,
       InScope, ForAll, Installable, FilesOf, BadFile

LEMMA SettledStays ==
  ASSUME Kept, errors' \in Nat, errors' >= errors, UNCHANGED <<input, world>>,
         results \subseteq results', NEW t, \A x \in results' \ results : x.target # t, Settled(t)
  PROVE  Settled(t)'
<1>1. Fails(t)' = Fails(t)
  <2>1. {y \in results : y.target = t /\ y.status = "FAIL"}' = {y \in results : y.target = t /\ y.status = "FAIL"}
    OBVIOUS
  <2>2. QED
    BY <2>1, Zenon DEF Fails
<1>2. Faulty(t)' = Faulty(t)
  BY FaultyStays
<1>3. \A w : Hidden(t, w) => Hidden(t, w)'
  BY DEF Hidden, Rpm, Stored, Repository, Mislabelled, Kept
<1>4. Clean(t)' => Clean(t)
  BY CleanBefore DEF Kept
<1>5. QED
  BY <1>1, <1>2, <1>3, <1>4 DEF Settled, Told

----------------------------------------------------------------------------
(* One document.                                                           *)

LEMMA NextFaults ==
  ASSUME Kept, Busy, NEW k \in Nat, k < Len(Docs)
  PROVE  DocFaults(k + 1) = DocFaults(k) \cup
           {d.name : d \in {x \in {Docs[k + 1]} : WantsComponent(x) /\ Useless(target, x)}}
<1>1. {d \in DocsUpTo(k + 1) : Useless(target, d)} =
        {d \in DocsUpTo(k) : Useless(target, d)} \cup
        {x \in {Docs[k + 1]} : WantsComponent(x) /\ Useless(target, x)}
  BY DocsUpToNext
<1>2. QED
  BY <1>1, Zenon DEF DocFaults

LEMMA OnePrimary ==
  ASSUME Kept, Busy, Rpm, NEW m \in 1..Len(Docs), NEW n \in 1..Len(Docs),
         Docs[m].type = "primary", Docs[n].type = "primary"
  PROVE  m = n
<1>1. IsRepository(Repository(target), Rpm)
  BY RepositoryGiven DEF Kept
<1>2. QED
  BY <1>1, DocsGiven DEF IsRepository, Docs

LEMMA RpmDocumentTrue ==
  ASSUME Kept, phase = "documents", done < Len(Docs), Rpm, RpmBody(done)
  PROVE  LET d == Docs[done + 1] IN
         /\ WantsComponent(d)
         /\ RpmDocument(d) = "FAIL" <=> Useless(target, d)
         /\ RpmRead(d) = {x \in DocsUpTo(done + 1) : x.type = "primary" /\ RpmReadable(x)}
<1> DEFINE d == Docs[done + 1]
<1>1. Busy /\ done \in Nat /\ Len(Docs) \in Nat /\ done + 1 \in 1..Len(Docs) /\ target \in Targets(input)
  BY DocsGiven DEF Busy, Kept
<1>2. WantsComponent(d)
  BY <1>1, RpmUnrestricted DEF WantsComponent, Allows
<1>3. d.state \in DocStates
  BY <1>1, DocsGiven
<1>4. RpmDocument(d) = "FAIL" <=> Useless(target, d)
  BY <1>3 DEF RpmDocument, Useless, DocStates
<1>5. DocsUpTo(done + 1) = DocsUpTo(done) \cup {d}
  BY <1>1, <1>2, DocsUpToNext
<1>6. d.type = "primary" => \A x \in DocsUpTo(done) : x.type # "primary"
  BY <1>1, OnePrimary DEF DocsUpTo
<1>7. RpmRead(d) = {x \in DocsUpTo(done + 1) : x.type = "primary" /\ RpmReadable(x)}
  <2>1. CASE d.type = "primary" /\ RpmReadable(d)
    BY <1>5, <1>6, <2>1 DEF RpmRead
  <2>2. CASE ~(d.type = "primary" /\ RpmReadable(d))
    BY <1>5, <2>2 DEF RpmRead, RpmBody
  <2>3. QED
    BY <2>1, <2>2
<1>8. QED
  BY <1>2, <1>4, <1>7

LEMMA AptDocumentTrue ==
  ASSUME Kept, phase = "documents", done < Len(Docs), ~Rpm, AptBody(done),
         WantsComponent(Docs[done + 1])
  PROVE  LET d == Docs[done + 1] IN AptDocument(d) = "FAIL" <=> Useless(target, d)
<1> DEFINE d == Docs[done + 1]
<1>1. Busy /\ done \in Nat /\ done \in 0..Len(Docs) /\ Len(Docs) \in Nat /\ done + 1 \in 1..Len(Docs)
  BY DocsGiven DEF Busy, Kept
<1>2. d.state \in DocStates /\ d.place = done + 1
  BY <1>1, DocsGiven
<1>3. AptParses(d) => \A e \in DocsOf(target) : Alike(d, e) /\ e.state = "good" => e.place >= done + 1
  <2> SUFFICES ASSUME AptParses(d), NEW e \in DocsOf(target), Alike(d, e), e.state = "good",
                      ~(e.place >= done + 1)
               PROVE  FALSE
    OBVIOUS
  <2>1. PICK n \in 1..Len(Docs) : e = Docs[n] /\ WantsComponent(e)
    BY <1>1, DocsOfTarget DEF DocsUpTo
  <2>2. n <= done
    BY <1>1, <2>1, DocsGiven
  <2>3. e \in DocsUpTo(done)
    BY <1>1, <2>1, <2>2 DEF DocsUpTo
  <2>4. PICK b \in body : Alike(b, e)
    BY <2>3 DEF AptBody, GoodIndex, Alike
  <2>5. Index(d) = Index(b)
    BY <2>4 DEF Alike
  <2>6. QED
    BY <2>4, <2>5 DEF AptParses, AptBody
<1>4. d.type = "index" /\ ~AptParses(d) =>
        \E e \in DocsOf(target) : Alike(d, e) /\ e.state = "good" /\ e.place <= done
  <2> SUFFICES ASSUME d.type = "index", ~AptParses(d)
               PROVE  \E e \in DocsOf(target) : Alike(d, e) /\ e.state = "good" /\ e.place <= done
    OBVIOUS
  <2>1. PICK b \in body : Index(d) = Index(b)
    BY DEF AptParses, AptBody
  <2>2. b \in DocsUpTo(done) /\ GoodIndex(b)
    BY DEF AptBody
  <2>3. b \in DocsOf(target) /\ b.place \in 1..done
    BY <1>1, <2>2, DocsUpToOf
  <2>4. QED
    BY <1>1, <2>1, <2>2, <2>3 DEF Alike, GoodIndex
<1>5. CASE d.state = "garbled"
  <2>1. \A e \in DocsOf(target) : e.state = "good" /\ e.place >= done + 1 => d.place < e.place
    <3> SUFFICES ASSUME NEW e \in DocsOf(target), e.state = "good", e.place >= done + 1
                 PROVE  d.place < e.place
      OBVIOUS
    <3>1. PICK n \in 1..Len(Docs) : e = Docs[n]
      BY <1>1, DocsOfTarget DEF DocsUpTo
    <3>2. e.place = n /\ n # done + 1
      BY <1>1, <1>5, <3>1, DocsGiven
    <3>3. QED
      BY <1>1, <1>2, <3>2
  <2>2. Useless(target, d) <=> d.type = "index" /\ \A e \in DocsOf(target) :
                                  Alike(d, e) /\ e.state = "good" => d.place < e.place
    BY <1>5 DEF Useless
  <2>3. \A e \in DocsOf(target) : e.place \in Int
    BY <1>1, DocsOfTarget, DocsGiven DEF DocsUpTo
  <2>4. AptParses(d) => Useless(target, d)
    BY <1>3, <2>1, <2>2 DEF AptParses
  <2>5. ~AptParses(d) => ~Useless(target, d)
    BY <1>1, <1>2, <1>4, <2>2, <2>3
  <2>6. QED
    BY <1>5, <2>4, <2>5 DEF AptDocument
<1>6. CASE d.state # "garbled"
  BY <1>2, <1>6 DEF AptDocument, Useless, DocStates
<1>7. QED
  BY <1>5, <1>6

LEMMA AptReadTrue ==
  ASSUME Kept, phase = "documents", done < Len(Docs), ~Rpm, AptBody(done),
         WantsComponent(Docs[done + 1])
  PROVE  LET d == Docs[done + 1] IN
         /\ AptRead(d) \subseteq {x \in DocsUpTo(done + 1) : GoodIndex(x)}
         /\ \A x \in DocsUpTo(done + 1) : GoodIndex(x) => \E b \in AptRead(d) : Alike(b, x)
<1> DEFINE d == Docs[done + 1]
<1>1. Busy /\ done \in Nat
  BY DEF Busy, Kept
<1>2. DocsUpTo(done + 1) = DocsUpTo(done) \cup {d}
  BY <1>1, DocsUpToNext
<1>3. CASE AptParses(d) /\ d.state = "good"
  <2>1. Alike(d, d) /\ GoodIndex(d)
    BY <1>3 DEF AptParses, Alike, GoodIndex
  <2>2. QED
    BY <1>2, <1>3, <2>1 DEF AptRead, AptBody
<1>4. CASE ~(AptParses(d) /\ d.state = "good")
  <2>1. GoodIndex(d) => \E b \in body : Alike(b, d)
    <3> SUFFICES ASSUME GoodIndex(d)
                 PROVE  \E b \in body : Alike(b, d)
      OBVIOUS
    <3>1. PICK b \in body : Index(b) = Index(d)
      BY <1>4 DEF AptParses, AptBody, GoodIndex
    <3>2. QED
      BY <3>1 DEF AptBody, Alike, GoodIndex
  <2>2. AptRead(d) = body
    BY <1>4 DEF AptRead
  <2>3. QED
    BY <1>2, <2>1, <2>2 DEF AptBody
<1>5. QED
  BY <1>3, <1>4

----------------------------------------------------------------------------
(* All the documents: what is listed, and what the faults of a target are. *)

LEMMA FaultyTarget ==
  ASSUME Kept, Busy, Root(Repository(target)) = "good"
  PROVE  Faulty(target) = DocFaults(Len(Docs)) \cup
           IF input.level = "metadata" THEN {}
           ELSE FileFaults(target, WantedFiles(target)) \cup PackageFaults
<1>1. ~Refused(target) /\ Repository(target) # Closed
  BY DEF Kept
<1>2. Rooted(Repository(target))
  BY DEF Rooted, Root
<1>3. DocsOf(target) = DocsUpTo(Len(Docs))
  BY DocsOfTarget
<1>4. Faulty(target) = {x \in {"expiry"} : Repository(target).expired} \cup
         {d.name : d \in {x \in DocsOf(target) : Useless(target, x)}} \cup
         (IF input.level = "metadata" THEN {}
          ELSE FileFaults(target, WantedFiles(target)) \cup
             {x \in {"packages"} : Rpm /\ \E d \in Primary(target) : d.state = "garbled"} \cup
             {p \in Repository(target).unmet : Rpm /\ \E d \in Primary(target) : d.state # "garbled"})
  BY <1>1, <1>2, Zenon DEF Faulty, FileFaults, WantedFiles, Stored
<1>5. DocFaults(Len(Docs)) = {x \in {"expiry"} : Repository(target).expired} \cup
         {d.name : d \in {x \in DocsOf(target) : Useless(target, x)}}
  BY <1>3 DEF DocFaults
<1>6. QED
  BY <1>4, <1>5 DEF PackageFaults

LEMMA ListedIsListed ==
  ASSUME Kept, Busy, NEW e \in Listed(target)
  PROVE  /\ e.version \in Int /\ e.nth \in Nat
         /\ \A f \in e.files : f \in DOMAIN Stored(target) /\ Stored(target)[f] \in Founds \cup {Absent}
<1>1. PICK d \in DocsOf(target) : e \in d.lists
  BY DEF Listed, Primary
<1>2. PICK n \in DOMAIN Docs : d = Docs[n]
  BY <1>1, DocsOfTarget, DocsGiven DEF DocsUpTo
<1>3. IsRepository(Repository(target), Rpm)
  BY RepositoryGiven DEF Kept
<1>4. QED
  BY <1>1, <1>2, <1>3 DEF IsRepository, Docs, Stored

LEMMA OneIDOnePackage ==
  ASSUME Kept, Busy, ~Rpm, NEW e \in Listed(target), NEW f \in Listed(target), e.id = f.id
  PROVE  e.name = f.name /\ e.arch = f.arch /\ e.version = f.version
<1> DEFINE ds == Repository(target).docs
           listed == UNION {ds[n].lists : n \in DOMAIN ds}
<1>1. IsRepository(Repository(target), Rpm)
  BY RepositoryGiven DEF Kept
<1>2. ASSUME NEW x \in Listed(target) PROVE x \in listed
  <2>1. PICK d \in DocsOf(target) : x \in d.lists
    BY <1>2 DEF Listed, Primary
  <2>2. PICK n \in DOMAIN Docs : d = Docs[n]
    BY <2>1, DocsOfTarget, DocsGiven DEF DocsUpTo
  <2>3. QED
    BY <2>1, <2>2 DEF Docs
<1>3. \A x, y \in listed :
        ~Rpm /\ x.id = y.id => x.name = y.name /\ x.arch = y.arch /\ x.version = y.version
  BY <1>1 DEF IsRepository
<1>4. QED
  BY <1>2, <1>3

LEMMA WantedFilesStored ==
  ASSUME Kept, Busy, NEW f \in WantedFiles(target)
  PROVE  f.file \in DOMAIN Stored(target) /\ Stored(target)[f.file] \in Founds \cup {Absent}
<1>1. PICK e \in Wanted(target) : \E x \in e.files : f.file = x
  BY DEF WantedFiles, FilesOf
<1>2. e \in Listed(target)
  BY DEF Wanted
<1>3. QED
  BY <1>1, <1>2, ListedIsListed

LEMMA ReadSelected ==
  ASSUME Kept, Busy, Read = Listed(target)
  PROVE  Selected(Read) = Wanted(target) /\ FilesOf(Selected(Read)) = WantedFiles(target)
<1>1. \A e \in Listed(target) : e.version \in Int /\ e.nth \in Nat
  BY ListedIsListed
<1>2. ~Rpm => \A e, f \in Listed(target) : e.id = f.id =>
                e.name = f.name /\ e.arch = f.arch /\ e.version = f.version
  BY OneIDOnePackage
<1>3. Selected(Read) = Wanted(target)
  BY <1>1, <1>2, SelectedWanted
<1>4. QED
  BY <1>3 DEF WantedFiles

LEMMA RpmBodyPrimary ==
  ASSUME Kept, Busy, Rpm, RpmBody(Len(Docs))
  PROVE  /\ body = Primary(target)
         /\ \A d, e \in body : d = e
<1>1. body = Primary(target)
  BY DocsOfTarget DEF RpmBody, Primary
<1>2. \A d, e \in body : d = e
  BY OnePrimary DEF RpmBody, DocsUpTo
<1>3. QED
  BY <1>1, <1>2

LEMMA RpmListed ==
  ASSUME Kept, Busy, Rpm, RpmBody(Len(Docs))
  PROVE  /\ (\A d \in body : d.state # "garbled") => Read = Listed(target)
         /\ body = {} \/ (\E d \in body : d.state = "garbled") => WantedFiles(target) = {}
<1>1. body = Primary(target) /\ \A d, e \in body : d = e
  BY RpmBodyPrimary
<1>2. Listed(target) = UNION {d.lists : d \in {p \in body : p.state # "garbled"}}
  BY <1>1 DEF Listed
<1>3. ASSUME \A d \in body : d.state # "garbled"
      PROVE  Read = Listed(target)
  <2>1. {p \in body : p.state # "garbled"} = body
    BY <1>3
  <2>2. QED
    BY <1>2, <2>1 DEF Read
<1>4. ASSUME body = {} \/ \E d \in body : d.state = "garbled"
      PROVE  WantedFiles(target) = {}
  <2>1. {p \in body : p.state # "garbled"} = {}
    BY <1>1, <1>4
  <2>2. Listed(target) = {}
    BY <1>2, <2>1
  <2>3. QED
    BY <2>2 DEF WantedFiles, Wanted, FilesOf
<1>5. QED
  BY <1>3, <1>4

LEMMA AptListed ==
  ASSUME Kept, Busy, ~Rpm, AptBody(Len(Docs))
  PROVE  Read = Listed(target)
<1> DEFINE good == {d \in DocsOf(target) : d.type = "index" /\ d.state = "good"}
<1>1. Listed(target) = UNION {d.lists : d \in good}
  BY DEF Listed
<1>2. body \subseteq good /\ \A d \in good : \E b \in body : Alike(b, d)
  BY DocsOfTarget DEF AptBody, GoodIndex
<1>3. \A d, e \in good : Alike(d, e) => d.lists = e.lists
  <2>1. IsRepository(Repository(target), Rpm)
    BY RepositoryGiven DEF Kept
  <2>2. \A d \in good : \E n \in DOMAIN Docs : d = Docs[n]
    BY DocsOfTarget, DocsGiven DEF DocsUpTo
  <2>3. QED
    BY <2>1, <2>2 DEF IsRepository, Docs
<1>4. QED
  BY <1>1, <1>2, <1>3 DEF Read

LEMMA PackageFaultsOf ==
  /\ ~Rpm => PackageFaults = {}
  /\ Primary(target) = {} => PackageFaults = {}
  /\ Rpm /\ Primary(target) # {} /\ (\A d \in Primary(target) : d.state = "garbled") =>
       PackageFaults = {"packages"}
  /\ Rpm /\ Primary(target) # {} /\ (\A d \in Primary(target) : d.state # "garbled") =>
       PackageFaults = Repository(target).unmet
BY DEF PackageFaults

----------------------------------------------------------------------------
(* Steps.                                                                  *)

LEMMA SameTarget ==
  ASSUME UNCHANGED <<input, world, target>>
  PROVE  /\ Docs' = Docs /\ PackageFaults' = PackageFaults
         /\ \A k : DocsUpTo(k)' = DocsUpTo(k) /\ DocFaults(k)' = DocFaults(k)
         /\ WantedFiles(target)' = WantedFiles(target)
         /\ \A F : FileFaults(target, F)' = FileFaults(target, F)
         /\ Repository(target)' = Repository(target)
         /\ Root(Repository(target))' = Root(Repository(target))
         /\ Rpm' = Rpm
         /\ Faulty(target)' = Faulty(target)
BY DEF Docs, PackageFaults, DocsUpTo, DocFaults, WantedFiles, FileFaults, Repository, Root, Rpm,
       WantsComponent, Useless, Primary, DocsOf, Wanted, Listed, InScope, ForAll, Installable,
       BadFile, Stored, Faulty, Refused, Rooted, FilesOf, Mislabelled, Alike, RpmReadable, Allows,
       StandsFor

\* A step that reports nothing of any other target leaves what was told of them.
LEMMA OthersTold ==
  ASSUME CheckInv, UNCHANGED <<input, world>>, errors' \in Nat, errors' >= errors,
         results \subseteq results', \A x \in results' \ results : x.target = target',
         targets \subseteq targets' \cup {target'}, target' # target => ~Busy,
         Busy' => target' \in Targets(input),
         NEW t \in Targets(input) \ targets', t # target'
  PROVE  Settled(t)'
<1>1. t \in Targets(input) \ targets /\ (Busy => t # target)
  OBVIOUS
<1>2. Settled(t)
  BY <1>1 DEF CheckInv, TargetsTold
<1>3. QED
  BY <1>2, SettledStays DEF CheckInv

\* A step within one target.
LEMMA TargetTold ==
  ASSUME CheckInv, Busy, UNCHANGED <<input, world, targets, target>>,
         errors' \in Nat, errors' >= errors, results \subseteq results',
         \A x \in results' \ results : x.target = target,
         ~Busy' => Settled(target)'
  PROVE  TargetsTold'
<1>1. target \in Targets(input)
  BY DEF CheckInv, Kept
<1>2. \A t \in Targets(input) \ targets : t # target => Settled(t)'
  BY <1>1, OthersTold
<1>3. QED
  BY <1>2 DEF TargetsTold

LEMMA ReportedHere ==
  ASSUME NEW R, Add(R), UNCHANGED target, \A x \in R : x.target = target
  PROVE  /\ Fails(target)' = Fails(target) \cup {x.what : x \in {y \in R : y.status = "FAIL"}}
         /\ results \subseteq results' /\ \A x \in results' \ results : x.target = target
<1>1. Fails(target)' = Fails(target) \cup {x.what : x \in {y \in R : target = target /\ y.status = "FAIL"}}
  BY Reported
<1>2. QED
  BY <1>1, Zenon DEF Add

LEMMA ReportedOne ==
  ASSUME NEW what, NEW status, Add({Result(what, status)}), UNCHANGED target
  PROVE  /\ Fails(target)' = Fails(target) \cup {x \in {what} : status = "FAIL"}
         /\ results \subseteq results' /\ \A x \in results' \ results : x.target = target
         /\ status # "OK" /\ errors' # 0 => ~Clean(target)'
<1> DEFINE r == Result(what, status)
<1>1. r.target = target /\ r.what = what /\ r.status = status
  BY DEF Result
<1>2. {x.what : x \in {y \in {r} : y.status = "FAIL"}} = {x \in {what} : status = "FAIL"}
  BY <1>1
<1>3. r \in results'
  BY DEF Add
<1>4. QED
  BY <1>1, <1>2, <1>3, ReportedHere DEF Clean

LEMMA Untold ==
  ASSUME \A x \in results : x.target # target
  PROVE  Fails(target) = {}
BY DEF Fails

LEMMA NextTargetKeeps ==
  ASSUME CheckInv, NextTarget
  PROVE  CheckInv'
<1>1. PICK t \in targets :
         /\ targets' = targets \ {t} /\ target' = t
         /\ IF Refused(t) \/ Repository(t) = Closed
            THEN /\ results' = results \cup
                      {[target |-> t, what |-> "repository", status |-> "FAIL"]}
                 /\ UNCHANGED phase
            ELSE phase' = "root" /\ UNCHANGED results
  BY DEF NextTarget
<1>2. phase = "targets" /\ ~Busy /\ UNCHANGED <<input, world, done, body, parsed, todo, errors>>
  BY DEF NextTarget, Busy
<1>3. t \in Targets(input) /\ \A x \in results : x.target # t
  BY DEF CheckInv, Kept
<1>4. errors \in Nat /\ results \subseteq results' /\ \A x \in results' \ results : x.target = target'
  BY <1>1 DEF CheckInv, Kept
<1>5. Refused(t)' = Refused(t) /\ Repository(t)' = Repository(t)
  BY <1>2 DEF Refused, Repository
<1>6. Kept'
  BY <1>1, <1>2, <1>3, <1>5 DEF CheckInv, Kept, Busy
<1>7. ~Busy' => Settled(t)'
  <2> SUFFICES ASSUME ~Busy'
               PROVE  Settled(t)'
    OBVIOUS
  <2>1. Refused(t) \/ Repository(t) = Closed
    BY <1>1 DEF Busy
  <2>2. Faulty(t)' = {"repository"}
    BY <1>5, <2>1 DEF Faulty
  <2>3. {y \in results : y.target = t /\ y.status = "FAIL"}' =
          {[target |-> t, what |-> "repository", status |-> "FAIL"]}
    BY <1>1, <1>3, <2>1
  <2>4. Fails(t)' = {"repository"}
    BY <2>3, \A r : r = [target |-> t, what |-> "repository", status |-> "FAIL"] => r.what = "repository" DEF Fails
  <2>5. QED
    BY <2>2, <2>4 DEF Settled, Told
<1>8. TargetsTold'
  <2>1. ASSUME NEW u \in Targets(input) \ targets', u # t
        PROVE  Settled(u)'
    BY <1>1, <1>2, <1>3, <1>4, <2>1, OthersTold
  <2>2. QED
    BY <1>1, <1>2, <1>7, <2>1 DEF TargetsTold
<1>9. phase' # "documents" /\ phase' # "files"
  BY <1>1, <1>2
<1>10. QED
  BY <1>6, <1>8, <1>9 DEF CheckInv, DocumentsTold, FilesTold

LEMMA FinishKeeps ==
  ASSUME CheckInv, Finish
  PROVE  CheckInv'
<1>1. ~Busy /\ ~Busy' /\ UNCHANGED <<input, world, targets, target, done, results, errors>>
  BY DEF Finish, Busy
<1>2. Kept'
  BY <1>1 DEF Finish, CheckInv, Kept, Busy
<1>3. TargetsTold'
  <2>1. ASSUME NEW t \in Targets(input) \ targets
        PROVE  Settled(t)'
    <3>1. Settled(t)
      BY <1>1 DEF CheckInv, TargetsTold
    <3>2. QED
      BY <1>1, <3>1, SettledStays DEF CheckInv, Kept
  <2>2. QED
    BY <1>1, <2>1 DEF TargetsTold
<1>4. QED
  BY <1>2, <1>3 DEF Finish, CheckInv, DocumentsTold, FilesTold

LEMMA StutterKeeps ==
  ASSUME CheckInv, UNCHANGED vars
  PROVE  CheckInv'
<1>1. UNCHANGED <<input, world, target>>
  BY DEF vars
<1>2. Kept'
  BY DEF vars, CheckInv, Kept, Busy, Refused, Repository, Root, Rpm, Docs
<1>3. TargetsTold'
  <2>1. ASSUME NEW t \in Targets(input) \ targets, Settled(t)
        PROVE  Settled(t)'
    BY <2>1, SettledStays DEF CheckInv, Kept, vars
  <2>2. QED
    BY <2>1 DEF CheckInv, TargetsTold, vars, Busy
<1>4. Fails(target)' = Fails(target) /\ Clean(target)' = Clean(target)
  BY DEF vars, Fails, Clean
<1>5. DocumentsTold'
  BY <1>1, <1>4, SameTarget DEF vars, CheckInv, DocumentsTold, RpmBody, AptBody
<1>6. FilesTold'
  <2> DEFINE faults == DocFaults(Len(Docs)) \cup PackageFaults \cup FileFaults(target, WantedFiles(target) \ todo)
  <2>1. faults' = faults
    BY <1>1, SameTarget DEF vars
  <2>2. \A what : Hidden(target, what)' = Hidden(target, what)
    BY <1>1 DEF vars, Hidden, Rpm, Stored, Repository, Mislabelled
  <2>3. Told(target, faults)' = Told(target, faults)
    BY <1>4, <2>1, <2>2 DEF Told
  <2>4. QED
    BY <1>1, <1>4, <2>3, SameTarget DEF vars, CheckInv, FilesTold
<1>7. QED
  BY <1>2, <1>3, <1>5, <1>6 DEF CheckInv

LEMMA CheckRootKeeps ==
  ASSUME CheckInv, CheckRoot
  PROVE  CheckInv'
<1>1. /\ phase = "root" /\ Busy /\ UNCHANGED <<input, world, targets, target>>
      /\ done' = 0 /\ body' = {} /\ parsed' = {}
  BY DEF CheckRoot, Busy
<1>2. /\ errors \in Nat /\ target \in Targets(input) \ targets /\ Fails(target) = {}
      /\ ~Refused(target) /\ Repository(target) # Closed
  BY <1>1, Untold DEF CheckInv, Kept
<1>3. Faulty(target)' = Faulty(target) /\ Root(Repository(target))' = Root(Repository(target))
      /\ Refused(target)' = Refused(target) /\ Repository(target)' = Repository(target) /\ Docs' = Docs
  BY <1>1, SameTarget DEF Refused
<1>4. CASE Add({Result("root", "FAIL")}) /\ phase' = "targets" /\ (UNCHANGED errors \/ Error)
  <2>1. errors' \in Nat /\ errors' >= errors
    BY <1>2, <1>4 DEF Error
  <2>2. /\ Fails(target)' = {"root"} /\ (errors' # 0 => ~Clean(target)')
        /\ results \subseteq results' /\ \A x \in results' \ results : x.target = target
    BY <1>1, <1>2, <1>4, ReportedOne
  <2>3. Kept'
    BY <1>1, <1>2, <1>4, <2>1, <2>2 DEF CheckInv, Kept, Busy
  <2>4. ASSUME Root(Repository(target)) \in {"absent", "garbled"}
        PROVE  Settled(target)'
    <3>1. Faulty(target) = {"root"}
      BY <1>2, <2>4 DEF Faulty, Rooted, Root
    <3>2. QED
      BY <1>3, <2>2, <3>1 DEF Settled, Told
  <2>5. ASSUME Error
        PROVE  Settled(target)'
    BY <1>2, <2>2, <2>5 DEF Error, Settled
  <2>6. Settled(target)'
    BY <1>4, <2>4, <2>5 DEF CheckRoot
  <2>7. TargetsTold'
    BY <1>1, <2>1, <2>2, <2>6, TargetTold
  <2>8. QED
    BY <1>4, <2>3, <2>7 DEF CheckInv, DocumentsTold, FilesTold
<1>5. CASE /\ Root(Repository(target)) = "good" /\ phase' = "documents" /\ UNCHANGED errors
           /\ Add({Result("root", "OK")} \cup
                  {Result(x, "FAIL") : x \in {y \in {"expiry"} : Repository(target).expired}})
  <2> DEFINE expiry == {y \in {"expiry"} : Repository(target).expired}
             R      == {Result("root", "OK")} \cup {Result(x, "FAIL") : x \in expiry}
  <2>1. \A x \in R : x.target = target
    BY DEF Result
  <2>2. {x.what : x \in {y \in R : y.status = "FAIL"}} = expiry
    <3>1. {y \in R : y.status = "FAIL"} = {Result(x, "FAIL") : x \in expiry}
      BY DEF Result
    <3>2. \A x : Result(x, "FAIL").what = x
      BY DEF Result
    <3>3. QED
      BY <3>1, <3>2
  <2>3. /\ Fails(target)' = expiry
        /\ results \subseteq results' /\ \A x \in results' \ results : x.target = target
    BY <1>1, <1>2, <1>5, <2>1, <2>2, ReportedHere
  <2>4. Len(Docs) \in Nat
    BY <1>1, DocsGiven DEF CheckInv
  <2>5. Kept'
    BY <1>1, <1>2, <1>3, <1>5, <2>3, <2>4 DEF CheckInv, Kept, Busy
  <2>6. DocsUpTo(0)' = {}
    BY DEF DocsUpTo
  <2>7. DocFaults(0)' = expiry
    BY <1>3, <2>6 DEF DocFaults
  <2>8. DocumentsTold'
    BY <1>1, <2>3, <2>6, <2>7 DEF DocumentsTold, RpmBody, AptBody
  <2>9. TargetsTold'
    BY <1>1, <1>2, <1>5, <2>3, TargetTold DEF Busy
  <2>10. QED
    BY <1>5, <2>5, <2>8, <2>9 DEF CheckInv, FilesTold
<1>6. QED
  BY <1>4, <1>5 DEF CheckRoot

LEMMA CheckDocumentKeeps ==
  ASSUME CheckInv, CheckDocument
  PROVE  CheckInv'
<1> DEFINE d == Docs[done + 1]
<1>1. /\ phase = "documents" /\ Busy /\ done < Len(Docs) /\ done' = done + 1
      /\ UNCHANGED <<input, world, targets, target, phase, todo>>
  BY DEF CheckDocument, Busy
<1>2. errors \in Nat /\ done \in Nat /\ Len(Docs) \in Nat /\ Kept /\ Rpm' = Rpm
  BY <1>1, DocsGiven DEF CheckInv, Kept, Rpm
<1>3. \/ /\ Rpm /\ Add({Result(d.name, RpmDocument(d))})
         /\ body' = RpmRead(d) /\ UNCHANGED errors
      \/ /\ ~Rpm /\ WantsComponent(d) /\ Add({Result(d.name, AptDocument(d))})
         /\ body' = AptRead(d) /\ parsed' = {Index(x) : x \in body'} /\ UNCHANGED errors
      \/ ~Rpm /\ ~WantsComponent(d) /\ UNCHANGED <<results, body, parsed, errors>>
      \/ Error /\ Add({Result(d.name, "FAIL")})
  BY DEF CheckDocument
<1>4. errors' \in Nat /\ errors' >= errors
  BY <1>2, <1>3 DEF Error
<1>5. results \subseteq results' /\ \A x \in results' \ results : x.target = target
  <2>1. CASE UNCHANGED results
    BY <2>1
  <2>2. QED
    BY <1>1, <1>3, <2>1, ReportedOne
<1>6. Kept'
  <2>1. Refused(target)' = Refused(target) /\ Repository(target)' = Repository(target)
        /\ Root(Repository(target))' = Root(Repository(target)) /\ Docs' = Docs
    BY <1>1, SameTarget DEF Refused
  <2>2. QED
    BY <1>1, <1>2, <1>4, <1>5, <2>1 DEF Kept, Busy
<1>7. TargetsTold'
  BY <1>1, <1>4, <1>5, TargetTold DEF Busy
<1>8. DocsUpTo(done)' = DocsUpTo(done + 1)
  BY <1>1 DEF DocsUpTo, Docs, Repository, WantsComponent
<1>9. DocumentsTold'
  <2> SUFFICES ASSUME Clean(target)'
               PROVE  /\ IF Rpm THEN RpmBody(done)' ELSE AptBody(done)'
                      /\ Fails(target)' = DocFaults(done + 1)
    <3>1. DocFaults(done)' = DocFaults(done + 1)
      <4>1. \A x : Useless(target, x)' <=> Useless(target, x)
        BY <1>1 DEF Useless, Repository, Rpm, DocsOf, Alike
      <4>2. {x \in DocsUpTo(done) : Useless(target, x)}' = {x \in DocsUpTo(done + 1) : Useless(target, x)}
        BY <1>8, <4>1
      <4>3. Repository(target)' = Repository(target)
        BY <1>1, SameTarget
      <4>4. QED
        BY <4>2, <4>3, Zenon DEF DocFaults
    <3>2. QED
      BY <1>2, <3>1 DEF DocumentsTold
  <2>1. Clean(target)
    BY <1>1, <1>2, <1>4, <1>5, CleanBefore
  <2>2. (IF Rpm THEN RpmBody(done) ELSE AptBody(done)) /\ Fails(target) = DocFaults(done)
    BY <1>1, <2>1 DEF CheckInv, DocumentsTold
  <2>3. DocFaults(done + 1) = DocFaults(done) \cup
          {x.name : x \in {y \in {d} : WantsComponent(y) /\ Useless(target, y)}}
    BY <1>1, <1>2, NextFaults
  <2>4. ASSUME NEW st, WantsComponent(d), st = "FAIL" <=> Useless(target, d), Add({Result(d.name, st)})
        PROVE  Fails(target)' = DocFaults(done + 1)
    <3>1. Fails(target)' = Fails(target) \cup {x \in {d.name} : st = "FAIL"}
      BY <1>1, <2>4, ReportedOne
    <3>2. {x.name : x \in {y \in {d} : WantsComponent(y) /\ Useless(target, y)}} =
            {x \in {d.name} : st = "FAIL"}
      BY <2>4
    <3>3. QED
      BY <2>2, <2>3, <3>1, <3>2
  <2>5. CASE Rpm /\ Add({Result(d.name, RpmDocument(d))}) /\ body' = RpmRead(d) /\ UNCHANGED errors
    <3>1. /\ WantsComponent(d)
          /\ RpmDocument(d) = "FAIL" <=> Useless(target, d)
          /\ RpmRead(d) = {x \in DocsUpTo(done + 1) : x.type = "primary" /\ RpmReadable(x)}
      BY <1>1, <1>2, <2>2, <2>5, RpmDocumentTrue
    <3>2. RpmBody(done)'
      BY <1>8, <2>5, <3>1 DEF RpmBody, RpmReadable
    <3>3. QED
      BY <2>4, <2>5, <3>1, <3>2
  <2>6. CASE /\ ~Rpm /\ WantsComponent(d) /\ Add({Result(d.name, AptDocument(d))})
             /\ body' = AptRead(d) /\ parsed' = {Index(x) : x \in body'}
    <3>1. AptDocument(d) = "FAIL" <=> Useless(target, d)
      BY <1>1, <1>2, <2>2, <2>6, AptDocumentTrue
    <3>2. /\ AptRead(d) \subseteq {x \in DocsUpTo(done + 1) : GoodIndex(x)}
          /\ \A x \in DocsUpTo(done + 1) : GoodIndex(x) => \E b \in AptRead(d) : Alike(b, x)
      BY <1>1, <1>2, <2>2, <2>6, AptReadTrue
    <3>3. AptBody(done)'
      BY <1>8, <2>6, <3>2 DEF AptBody
    <3>4. QED
      BY <2>4, <2>6, <3>1, <3>3
  <2>7. CASE ~Rpm /\ ~WantsComponent(d) /\ UNCHANGED <<results, body, parsed, errors>>
    <3>1. DocsUpTo(done + 1) = DocsUpTo(done)
      BY <1>1, <1>2, <2>7, DocsUpToNext
    <3>2. AptBody(done)'
      BY <1>8, <2>2, <2>7, <3>1 DEF AptBody
    <3>3. Fails(target)' = Fails(target)
      BY <1>1, <2>7 DEF Fails
    <3>4. QED
      BY <2>2, <2>3, <2>7, <3>2, <3>3
  <2>8. CASE Error /\ Add({Result(d.name, "FAIL")})
    BY <1>1, <1>2, <2>8, ReportedOne DEF Error
  <2>9. QED
    BY <1>3, <2>5, <2>6, <2>7, <2>8
<1>10. QED
  BY <1>1, <1>6, <1>7, <1>9 DEF CheckInv, FilesTold

LEMMA SelectKeeps ==
  ASSUME CheckInv, Select
  PROVE  CheckInv'
<1>1. /\ phase = "documents" /\ Busy /\ done = Len(Docs)
      /\ UNCHANGED <<input, world, targets, target, done, body, parsed, errors>>
  BY DEF Select, Busy
<1>2. Kept /\ errors \in Nat /\ Root(Repository(target)) = "good" /\ Rpm' = Rpm
  BY <1>1 DEF CheckInv, Kept, Rpm
<1>3. \/ input.level = "metadata" /\ phase' = "targets" /\ UNCHANGED results
      \/ /\ input.level # "metadata" /\ phase' = "targets"
         /\ \/ Rpm /\ body = {} /\ Add({Result("packages", "WARN")})
            \/ Rpm /\ (\E d \in body : d.state = "garbled") /\ Add({Result("packages", "FAIL")})
            \/ ~Rpm /\ Selected(Read) = {} /\ Add({Result("packages", "WARN")})
      \/ /\ input.level # "metadata" /\ phase' = "files"
         /\ IF Rpm THEN body # {} /\ \A d \in body : d.state # "garbled" ELSE Selected(Read) # {}
         /\ Add(Dependencies) /\ todo' = FilesOf(Selected(Read))
  BY Zenon DEF Select
<1>4. \A x \in Dependencies : x.target = target
  BY DEF Dependencies, Result
<1>5. results \subseteq results' /\ \A x \in results' \ results : x.target = target
  <2>1. CASE UNCHANGED results
    BY <2>1
  <2>2. CASE Add(Dependencies)
    BY <1>1, <1>4, <2>2, ReportedHere
  <2>3. QED
    BY <1>1, <1>3, <2>1, <2>2, ReportedOne
<1>6. Kept'
  <2>1. Refused(target)' = Refused(target) /\ Repository(target)' = Repository(target)
        /\ Root(Repository(target))' = Root(Repository(target))
    BY <1>1, SameTarget DEF Refused
  <2>2. QED
    BY <1>1, <1>2, <1>3, <1>5, <2>1 DEF Kept, Busy
<1>7. Clean(target)' => Clean(target)
  BY <1>1, <1>2, <1>5, CleanBefore
<1>8. ASSUME Clean(target)
      PROVE  /\ Fails(target) = DocFaults(Len(Docs))
             /\ Rpm => RpmBody(Len(Docs))
             /\ ~Rpm => AptBody(Len(Docs))
  BY <1>1, <1>8 DEF CheckInv, DocumentsTold
<1>9. Faulty(target)' = Faulty(target)
  BY <1>1, SameTarget
<1>10. ASSUME phase' = "targets"
       PROVE  Settled(target)'
  <2> SUFFICES ASSUME Clean(target)'
               PROVE  Fails(target)' = Faulty(target)
    BY <1>9 DEF Settled, Told
  <2>1. /\ Fails(target) = DocFaults(Len(Docs))
        /\ Rpm => RpmBody(Len(Docs))
        /\ ~Rpm => AptBody(Len(Docs))
    BY <1>7, <1>8
  <2>2. CASE input.level = "metadata" /\ UNCHANGED results
    <3>1. Fails(target)' = Fails(target)
      BY <1>1, <2>2 DEF Fails
    <3>2. QED
      BY <1>1, <1>2, <2>1, <2>2, <3>1, FaultyTarget
  <2>3. ASSUME input.level # "metadata", WantedFiles(target) = {}, NEW st, Add({Result("packages", st)}),
               PackageFaults = {x \in {"packages"} : st = "FAIL"}
        PROVE  Fails(target)' = Faulty(target)
    <3>1. Fails(target)' = DocFaults(Len(Docs)) \cup PackageFaults
      BY <1>1, <2>1, <2>3, ReportedOne
    <3>2. FileFaults(target, WantedFiles(target)) = {}
      BY <2>3 DEF FileFaults
    <3>3. QED
      BY <1>1, <1>2, <2>3, <3>1, <3>2, FaultyTarget
  <2>4. CASE input.level # "metadata" /\ Rpm /\ body = {} /\ Add({Result("packages", "WARN")})
    <3>1. Primary(target) = {} /\ WantedFiles(target) = {}
      BY <1>1, <1>2, <2>1, <2>4, RpmBodyPrimary, RpmListed
    <3>2. QED
      BY <2>3, <2>4, <3>1, PackageFaultsOf
  <2>5. CASE /\ input.level # "metadata" /\ Rpm /\ (\E d \in body : d.state = "garbled")
             /\ Add({Result("packages", "FAIL")})
    <3>1. /\ Primary(target) # {} /\ (\A d \in Primary(target) : d.state = "garbled")
          /\ WantedFiles(target) = {}
      BY <1>1, <1>2, <2>1, <2>5, RpmBodyPrimary, RpmListed
    <3>2. PackageFaults = {"packages"}
      BY <2>5, <3>1, PackageFaultsOf
    <3>3. QED
      BY <2>3, <2>5, <3>1, <3>2
  <2>6. CASE /\ input.level # "metadata" /\ ~Rpm /\ Selected(Read) = {}
             /\ Add({Result("packages", "WARN")})
    <3>1. Wanted(target) = {}
      BY <1>1, <1>2, <2>1, <2>6, AptListed, ReadSelected
    <3>2. WantedFiles(target) = {}
      BY <3>1 DEF WantedFiles, FilesOf
    <3>3. QED
      BY <2>3, <2>6, <3>2, PackageFaultsOf
  <2>7. QED
    BY <1>3, <1>10, <2>2, <2>4, <2>5, <2>6
<1>11. TargetsTold'
  <2>1. ~Busy' => phase' = "targets"
    BY <1>3 DEF Busy
  <2>2. QED
    BY <1>1, <1>2, <1>5, <1>10, <2>1, TargetTold
<1>12. FilesTold'
  <2> SUFFICES ASSUME phase' = "files", Clean(target)'
               PROVE  /\ todo' \subseteq WantedFiles(target)'
                      /\ Told(target, DocFaults(Len(Docs)) \cup PackageFaults \cup
                                        FileFaults(target, WantedFiles(target) \ todo))'
    BY DEF FilesTold
  <2>1. /\ Fails(target) = DocFaults(Len(Docs))
        /\ Rpm => RpmBody(Len(Docs))
        /\ ~Rpm => AptBody(Len(Docs))
    BY <1>7, <1>8
  <2>2. /\ Rpm => body # {} /\ \A d \in body : d.state # "garbled"
        /\ Add(Dependencies) /\ todo' = FilesOf(Selected(Read))
    BY <1>3
  <2>3. Read = Listed(target)
    BY <1>1, <1>2, <2>1, <2>2, RpmListed, AptListed
  <2>4. todo' = WantedFiles(target) /\ WantedFiles(target)' = WantedFiles(target)
    BY <1>1, <1>2, <2>2, <2>3, ReadSelected, SameTarget
  <2>5. Dependencies = {Result(p, "FAIL") : p \in PackageFaults}
    <3>1. CASE Rpm
      <4>1. PackageFaults = Repository(target).unmet
        BY <1>1, <1>2, <2>1, <2>2, <3>1, RpmBodyPrimary, PackageFaultsOf
      <4>2. QED
        BY <3>1, <4>1 DEF Dependencies
    <3>2. CASE ~Rpm
      BY <3>2, PackageFaultsOf DEF Dependencies
    <3>3. QED
      BY <3>1, <3>2
  <2>6. {x.what : x \in {y \in Dependencies : y.status = "FAIL"}} = PackageFaults
    <3>1. \A p : Result(p, "FAIL").what = p /\ Result(p, "FAIL").status = "FAIL"
      BY DEF Result
    <3>2. QED
      BY <2>5, <3>1
  <2>7. Fails(target)' = DocFaults(Len(Docs)) \cup PackageFaults
    BY <1>1, <1>4, <2>1, <2>2, <2>6, ReportedHere
  <2>8. FileFaults(target, WantedFiles(target) \ todo)' = {}
    BY <2>4 DEF FileFaults
  <2>9. DocFaults(Len(Docs))' = DocFaults(Len(Docs)) /\ PackageFaults' = PackageFaults
    <3>1. Len(Docs)' = Len(Docs)
      BY <1>1, SameTarget
    <3>2. QED
      BY <1>1, <3>1, SameTarget
  <2>10. QED
    BY <2>4, <2>7, <2>8, <2>9 DEF Told
<1>13. QED
  BY <1>3, <1>6, <1>11, <1>12 DEF CheckInv, DocumentsTold

LEMMA CheckFileKeeps ==
  ASSUME CheckInv, CheckFile
  PROVE  CheckInv'
<1>1. PICK f \in todo :
         /\ todo' = todo \ {f}
         /\ LET stored == Repository(target).stored[f.file] IN
            \/ /\ Add({Result(f.file, IF input.level = "head" THEN HeadCheck(stored)
                                       ELSE FetchCheck(f, stored))})
               /\ UNCHANGED errors
            \/ Error /\ Add({Result(f.file, "FAIL")})
            \/ /\ input.level = "head" /\ stored # Absent /\ stored.size = "right"
               /\ stored.noted # ""
               /\ Error /\ Add({Result(f.file, IF Rpm THEN "OK" ELSE "WARN")})
  BY DEF CheckFile
<1>2. phase = "files" /\ Busy /\ UNCHANGED <<input, world, targets, target, phase, done, body, parsed>>
  BY DEF CheckFile, Busy
<1>3. /\ errors \in Nat /\ Kept /\ input.level \in {"head", "fetch"}
  BY <1>2, LevelGiven DEF CheckInv, Kept
<1>4. errors' \in Nat /\ errors' >= errors
  <2>1. UNCHANGED errors \/ Error
    BY <1>1, Zenon
  <2>2. QED
    BY <1>3, <2>1 DEF Error
<1>5. results \subseteq results' /\ \A x \in results' \ results : x.target = target
  BY <1>1, <1>2, ReportedOne
<1>6. Kept'
  <2>1. Refused(target)' = Refused(target) /\ Repository(target)' = Repository(target)
        /\ Root(Repository(target))' = Root(Repository(target))
    BY <1>2, SameTarget DEF Refused
  <2>2. QED
    BY <1>2, <1>3, <1>4, <1>5, <2>1 DEF Kept, Busy
<1>7. TargetsTold'
  BY <1>2, <1>4, <1>5, TargetTold DEF Busy
<1>8. FilesTold'
  <2> DEFINE s      == Stored(target)[f.file]
             layers == DocFaults(Len(Docs)) \cup PackageFaults
             wanted == WantedFiles(target)
  <2> SUFFICES ASSUME Clean(target)'
               PROVE  /\ todo' \subseteq wanted
                      /\ Told(target, layers \cup FileFaults(target, wanted \ todo))'
    BY <1>2, SameTarget DEF FilesTold
  <2>1. /\ todo \subseteq wanted
        /\ Told(target, layers \cup FileFaults(target, wanted \ todo))
    BY <1>2, <1>3, <1>4, <1>5, CleanBefore DEF CheckInv, FilesTold
  <2>2. f.file \in DOMAIN Stored(target) /\ s \in Founds \cup {Absent}
    BY <1>2, <1>3, <2>1, WantedFilesStored
  <2>3. (layers \cup FileFaults(target, wanted \ todo))' =
          layers \cup FileFaults(target, wanted \ todo) \cup {x \in {f.file} : BadFile(f, s)}
    <3>1. Len(Docs)' = Len(Docs)
      BY <1>2, SameTarget
    <3>2. layers' = layers /\ wanted' = wanted
      BY <1>2, <3>1, SameTarget
    <3>3. FileFaults(target, wanted \ todo)' = FileFaults(target, wanted \ todo')
      BY <1>2, <3>2 DEF FileFaults, BadFile, Stored, Repository, Rpm, Mislabelled
    <3>4. wanted \ todo' = (wanted \ todo) \cup {f}
      BY <1>1, <2>1
    <3>5. FileFaults(target, wanted \ todo') = FileFaults(target, wanted \ todo) \cup {x \in {f.file} : BadFile(f, s)}
      BY <3>4 DEF FileFaults
    <3>6. QED
      BY <3>2, <3>3, <3>5
  <2>4. \A what : Hidden(target, what) => Hidden(target, what)'
    BY <1>2, <1>3, <1>4 DEF Hidden, Rpm, Stored, Repository, Mislabelled
  <2>5. ASSUME NEW st, Add({Result(f.file, st)}),
               st = "FAIL" => BadFile(f, s),
               BadFile(f, s) => st = "FAIL" \/ Hidden(target, f.file)'
        PROVE  /\ todo' \subseteq wanted
               /\ Told(target, layers \cup FileFaults(target, wanted \ todo))'
    <3>1. Fails(target)' = Fails(target) \cup {x \in {f.file} : st = "FAIL"}
      BY <1>2, <2>5, ReportedOne
    <3>2. QED
      BY <1>1, <2>1, <2>3, <2>4, <2>5, <3>1 DEF Told
  <2>6. CASE Add({Result(f.file, IF input.level = "head" THEN HeadCheck(s) ELSE FetchCheck(f, s))})
    <3> DEFINE st == IF input.level = "head" THEN HeadCheck(s) ELSE FetchCheck(f, s)
    <3>1. st = "FAIL" <=> BadFile(f, s)
      BY <1>3, <2>2, HeadCheckTrue, FetchCheckTrue
    <3>2. Add({Result(f.file, st)})
      BY <2>6
    <3> HIDE DEF st
    <3>3. QED
      BY <2>5, <3>1, <3>2
  <2>7. CASE Error /\ Add({Result(f.file, "FAIL")})
    BY <1>2, <1>3, <2>7, ReportedOne DEF Error
  <2>8. CASE /\ input.level = "head" /\ s # Absent /\ s.size = "right" /\ s.noted # ""
             /\ Error /\ Add({Result(f.file, IF Rpm THEN "OK" ELSE "WARN")})
    <3>1. errors' > 0
      <4>1. Error
        BY <2>8, Zenon
      <4>2. QED
        BY <1>3, <4>1 DEF Error
    <3>2. Rpm
      <4> SUFFICES ASSUME ~Rpm
                   PROVE  FALSE
        OBVIOUS
      <4>1. Add({Result(f.file, "WARN")})
        BY <2>8, Zenon
      <4>2. QED
        BY <1>2, <3>1, <4>1, ReportedOne
    <3>3. BadFile(f, s) => Mislabelled(s)
      BY <2>8 DEF BadFile
    <3>4. BadFile(f, s) => Hidden(target, f.file)'
      BY <1>2, <1>3, <2>2, <2>8, <3>1, <3>2, <3>3 DEF Hidden, Rpm, Stored, Repository, Mislabelled
    <3>5. QED
      BY <2>5, <2>8, <3>2, <3>4
  <2>9. QED
    BY <1>1, <2>6, <2>7, <2>8 DEF Stored
<1>9. QED
  BY <1>2, <1>6, <1>7, <1>8 DEF CheckInv, DocumentsTold

LEMMA FilesDoneKeeps ==
  ASSUME CheckInv, FilesDone
  PROVE  CheckInv'
<1>1. /\ phase = "files" /\ Busy /\ ~Busy' /\ todo = {} /\ phase' = "targets"
      /\ UNCHANGED <<input, world, targets, target, results, errors>>
  BY DEF FilesDone, Busy
<1>2. Kept /\ errors \in Nat /\ Root(Repository(target)) = "good" /\ input.level # "metadata"
  BY <1>1 DEF CheckInv, Kept
<1>3. Kept'
  BY <1>1, <1>2 DEF Kept
<1>4. Settled(target)
  <2> SUFFICES ASSUME Clean(target)
               PROVE  Told(target, Faulty(target))
    BY DEF Settled
  <2> DEFINE wanted == WantedFiles(target)
  <2>1. Told(target, DocFaults(Len(Docs)) \cup PackageFaults \cup FileFaults(target, wanted \ todo))
    BY <1>1 DEF CheckInv, FilesTold
  <2>2. wanted \ todo = wanted
    BY <1>1
  <2>3. Faulty(target) = DocFaults(Len(Docs)) \cup PackageFaults \cup FileFaults(target, wanted)
    BY <1>1, <1>2, FaultyTarget
  <2>4. QED
    BY <2>1, <2>2, <2>3
<1>5. Settled(target)'
  BY <1>1, <1>2, <1>4, SettledStays
<1>6. TargetsTold'
  BY <1>1, <1>2, <1>5, TargetTold
<1>7. QED
  BY <1>1, <1>3, <1>6 DEF CheckInv, DocumentsTold, FilesTold

LEMMA CheckInit == Init => CheckInv
<1> SUFFICES ASSUME Init
             PROVE  CheckInv
  OBVIOUS
<1>1. Kept
  BY DEF Init, Kept, Busy
<1>2. targets = Targets(input) /\ phase = "targets"
  BY DEF Init
<1>3. QED
  BY <1>1, <1>2 DEF CheckInv, TargetsTold, DocumentsTold, FilesTold

LEMMA CheckStep == CheckInv /\ [Next]_vars => CheckInv'
<1> SUFFICES ASSUME CheckInv, [Next]_vars
             PROVE  CheckInv'
  OBVIOUS
<1>1. CASE NextTarget
  BY <1>1, NextTargetKeeps
<1>2. CASE Finish
  BY <1>2, FinishKeeps
<1>3. CASE CheckRoot
  BY <1>3, CheckRootKeeps
<1>4. CASE CheckDocument
  BY <1>4, CheckDocumentKeeps
<1>5. CASE Select
  BY <1>5, SelectKeeps
<1>6. CASE CheckFile
  BY <1>6, CheckFileKeeps
<1>7. CASE FilesDone
  BY <1>7, FilesDoneKeeps
<1>8. CASE UNCHANGED vars
  BY <1>8, StutterKeeps
<1>9. QED
  BY <1>1, <1>2, <1>3, <1>4, <1>5, <1>6, <1>7, <1>8 DEF Next

LEMMA CheckAlways == Spec => []CheckInv
BY CheckInit, CheckStep, PTL DEF Spec

\* What a finished check says of each repository the input came to.
LEMMA AllSettled ==
  ASSUME CheckInv, phase = "over", NEW t \in Targets(input)
  PROVE  Settled(t)
BY DEF CheckInv, Kept, TargetsTold, Busy

\* A check no storage call of which fails reports what is wrong with each
\* repository, at its level and in its scope, and nothing else.
THEOREM CheckReportExact == Spec => []CheckExact
<1>1. CheckInv => CheckExact
  <2> SUFFICES ASSUME CheckInv, phase = "over", errors = 0, NEW t \in Targets(input)
               PROVE  Fails(t) = Faulty(t)
    BY DEF CheckExact
  <2>1. Told(t, Faulty(t))
    BY AllSettled DEF Settled, Clean
  <2>2. \A what : ~Hidden(t, what)
    BY DEF Hidden
  <2>3. QED
    BY <2>1, <2>2 DEF Told
<1>2. QED
  BY <1>1, CheckAlways, PTL

\* However many storage calls fail, a check that passes without a warning was of
\* sound repositories: nothing but a recorded checksum the rpm tool could not
\* read is hidden.
THEOREM CheckPassMeansSound == Spec => []PassMeansSound
<1>1. CheckInv => PassMeansSound
  <2> SUFFICES ASSUME CheckInv, phase = "over", \A x \in results : x.status = "OK",
                      NEW t \in Targets(input), NEW what \in Faulty(t)
               PROVE  /\ Rpm /\ input.level = "head" /\ errors > 0
                      /\ what \in DOMAIN Repository(t).stored /\ Mislabelled(Repository(t).stored[what])
    BY DEF PassMeansSound
  <2>1. Told(t, Faulty(t))
    BY AllSettled DEF Settled, Clean
  <2>2. what \notin Fails(t)
    BY DEF Fails
  <2>3. QED
    BY <2>1, <2>2 DEF Told, Hidden, Stored
<1>2. QED
  BY <1>1, CheckAlways, PTL
=============================================================================
