------------------------------- MODULE Check -------------------------------
(***************************************************************************)
(* check: pkg/rpm/repocheck and pkg/apt/repocheck.  Each repository that   *)
(* the input comes to is checked layer by layer, down to the level that    *)
(* was asked for: its root, the documents the root names, and the files of *)
(* the packages that are selected from them.  The files are checked        *)
(* several at a time, in no order (module Each); a check only reads, so    *)
(* what it finds of a file is one step here.                               *)
(***************************************************************************)
EXTENDS Integers, Sequences, FiniteSets

CONSTANTS
  Checks,      \* [input, world]: what the command is given, and what there is,
               \* <<url, at>> |-> a repository or Closed
  Closed,      \* a location that cannot be opened
  Absent,      \* a file that is not there
  IsHTTP(_),   \* IsHTTP(url)
  MaxErrors    \* bound: storage calls that fail

VARIABLES
  input,     \* [tool, entries, remote, rels, suites, components, arches, names,
             \*  level, latest, opener]; a set that is empty restricts nothing
  world,
  targets,   \* repositories still to be checked
  target,    \* the one being checked
  phase,     \* "targets", "root", "documents", "files" or "over"
  done,      \* documents its root names that have been checked
  body,      \* packages read so far; for rpm what was last read as primary
  parsed,    \* apt: the indexes one form of which was parsed
  todo,      \* files still to be checked: [file, isPackage]
  results,   \* the Collector's
  errors     \* storage calls that failed so far

vars == <<input, world, targets, target, phase, done, body, parsed, todo, results, errors>>

Rpm == input.tool = "rpm"

----------------------------------------------------------------------------
(* The repositories an input comes to: [url, at, components].              *)

Allows(restriction, x) == restriction = {} \/ x \in restriction

\* expandTargets: the cross product, for the variables a baseurl refers to.
Values(section, name, given) == IF name \in section.refers THEN given ELSE {""}

SectionTargets(in, s) ==
  {[url |-> s.url, at |-> <<r, a>>, components |-> {}] :
     r \in Values(s, "releasever", in.rels), a \in Values(s, "basearch", in.arches)}

RpmTargets(in) == UNION {SectionTargets(in, s) : s \in {x \in in.entries : x.enabled /\ x.url # ""}}

\* hasBinaryEntryFor
Covered(entries, e) ==
  e.source /\ \E b \in entries : ~b.source /\ b.url = e.url /\ b.at = e.at

MergeComponents(own, requested) ==
  IF requested = {} THEN own ELSE IF own = {} THEN requested ELSE own \cap requested

AptTargets(in) ==
  {[url |-> e.url, at |-> e.at, components |-> MergeComponents(e.components, in.components)] :
     e \in {x \in in.entries : ~Covered(in.entries, x) /\ Allows(in.suites, x.at)}}

\* loadRepoInput, resolveTargets: a bare location is an input of one entry for
\* each suite, with no components and nothing to substitute.
Targets(in) == IF in.tool = "rpm" THEN RpmTargets(in) ELSE AptTargets(in)

Repository(t) == world[<<t.url, t.at>>]

\* CheckTargetScheme: what was fetched over HTTP may name HTTP only.
Refused(t) == input.remote /\ ~IsHTTP(t.url)

----------------------------------------------------------------------------
(* What the commands may be given.                                         *)

\* A document: as its root says, or in what way not.
DocStates == {"good", "unsummed", "sealed", "garbled", "swollen", "missing", "short", "altered", "torn"}

\* A file that is there: its size as far as it is known and its bytes, against
\* what the metadata records; the checksum the backend can tell of; whether it
\* opens as a package.
Founds == [size : {"right", "wrong", "unknown"}, sum : {"good", "bad"},
           noted : {"good", "bad", ""}, opens : BOOLEAN]

Index(d) == <<d.component, d.arch>>

\* Two forms of one index.
Alike(d, e) == d.type = "index" /\ e.type = "index" /\ Index(d) = Index(e)

\* A repository's root names each document at its place, and one primary; the
\* forms of an index decode to the same stanzas (apt/repocheck/check.go:190).
\* nth is the place of a stanza among all of them; what has one ID, the checksum
\* of a .deb or .dsc, is one package.
IsRepository(repo, rpm) ==
  LET ds == repo.docs
      listed == UNION {ds[n].lists : n \in DOMAIN ds}
  IN
  /\ ds \in Seq({ds[n] : n \in DOMAIN ds})
  /\ \A n \in DOMAIN ds :
       /\ ds[n].place = n /\ ds[n].state \in DocStates
       /\ \A e \in ds[n].lists : /\ e.version \in Int /\ e.nth \in Nat
                                 /\ e.files \subseteq DOMAIN repo.stored
  /\ \A m, n \in DOMAIN ds :
       /\ rpm /\ ds[m].type = "primary" /\ ds[n].type = "primary" => m = n
       /\ Alike(ds[m], ds[n]) /\ ds[m].state = "good" /\ ds[n].state = "good" =>
            ds[m].lists = ds[n].lists
       /\ m < n /\ ~Alike(ds[m], ds[n]) =>
            \A e \in ds[m].lists, f \in ds[n].lists : e.nth < f.nth
  /\ \A e, f \in listed :
       /\ e.nth = f.nth => e = f
       /\ ~rpm /\ e.id = f.id => e.name = f.name /\ e.arch = f.arch /\ e.version = f.version
  /\ \A f \in DOMAIN repo.stored : repo.stored[f] \in Founds \cup {Absent}

ASSUME ChecksAssumption ==
  \A c \in Checks :
    /\ c.input.level \in {"metadata", "head", "fetch"}
    /\ \A t \in Targets(c.input) : <<t.url, t.at>> \in DOMAIN c.world
    /\ \A at \in DOMAIN c.world :
         c.world[at] = Closed \/ IsRepository(c.world[at], c.input.tool = "rpm")

----------------------------------------------------------------------------
(* What a check of one thing comes to.                                     *)

\* The first root there is.
Root(repo) == IF Rpm THEN repo.roots["repomd.xml"]
              ELSE IF repo.roots["InRelease"] # "absent" THEN repo.roots["InRelease"]
              ELSE repo.roots["Release"]

\* checkMetadataFile: what is read despite a wrong open checksum is used, and a
\* checksum the metadata does not give is not missed.
RpmDocument(d) == CASE d.state = "sealed"                            -> "WARN"
                    [] d.state \in {"good", "unsummed", "garbled"}   -> "OK"
                    [] OTHER                                         -> "FAIL"

RpmReadable(d) == d.state \in {"good", "unsummed", "garbled", "swollen"}

\* checkIndexes: of the forms of an index, the first that parses is parsed.
AptParses(d) == d.type = "index" /\ Index(d) \notin parsed

AptDocument(d) == IF d.state = "good" \/ (d.state = "garbled" /\ ~AptParses(d))
                  THEN "OK" ELSE "FAIL"

WantsComponent(d) == d.component = "" \/ Allows(target.components, d.component)

\* Mutant: a package for every architecture is not in scope with one of them.
WantsArchOnly(arch) == Allows(input.arches, arch)

\* wantsArch, and the same filter in selectPackages.
WantsArch(arch) ==
  \/ Allows(input.arches, arch)
  \/ Rpm /\ arch = "noarch"
  \/ ~Rpm /\ ("any" \in input.arches \/ (arch = "all" /\ input.arches # {"source"}))

\* addUnique: of the stanzas with one ID, the first; the rpm tool takes them all.
Distinct(E) == {e \in E : Rpm \/ \A x \in E : x.id = e.id => e.nth <= x.nth}

\* Of each name and architecture the newest, and the first of equal ones.
Newest(E) == {e \in E : \A x \in E : x.name = e.name /\ x.arch = e.arch =>
                 x.version < e.version \/ (x.version = e.version /\ e.nth <= x.nth)}

\* selectPackages, selectEntries.
Selected(E) ==
  LET kept == Distinct({e \in E : WantsArch(e.arch) /\ Allows(input.names, e.name)})
  IN IF input.latest THEN Newest(kept) ELSE kept

\* entryFiles, with isDeb: the files of a source are no packages.
FilesOf(E) ==
  UNION {{[file |-> f, isPackage |-> Rpm \/ e.arch # "source"] : f \in e.files} : e \in E}

\* headCheck: the size, and the checksum the backend can tell of.
HeadCheck(s) ==
  IF s = Absent \/ s.size = "wrong" THEN "FAIL"
  ELSE IF s.size = "unknown" THEN IF Rpm THEN "WARN" ELSE "FAIL"
  ELSE IF s.noted = "bad" THEN "FAIL" ELSE "OK"

\* Mutant: a package whose bytes are right is not opened.
FetchCheckClosed(f, s) == IF s # Absent /\ s.size # "wrong" /\ s.sum = "good" THEN "OK" ELSE "FAIL"

\* fetchCheck, fetchAndVerify: the bytes, and what opening a package says.
FetchCheck(f, s) ==
  IF /\ s # Absent /\ s.size # "wrong" /\ s.sum = "good"
     /\ f.isPackage /\ input.opener => s.opens
  THEN "OK" ELSE "FAIL"

----------------------------------------------------------------------------
Result(what, status) == [target |-> target, what |-> what, status |-> status]

Add(R) == results' = results \cup R

\* A storage call fails, or runs out of time.
Error == /\ errors < MaxErrors
         /\ errors' = errors + 1

NextTarget ==
  /\ phase = "targets"
  /\ \E t \in targets :
       /\ targets' = targets \ {t} /\ target' = t
       /\ IF Refused(t) \/ Repository(t) = Closed
          THEN /\ results' = results \cup
                    {[target |-> t, what |-> "repository", status |-> "FAIL"]}
               /\ UNCHANGED phase
          ELSE phase' = "root" /\ UNCHANGED results
  /\ UNCHANGED <<input, world, done, body, parsed, todo, errors>>

Finish == /\ phase = "targets" /\ targets = {}
          /\ phase' = "over"
          /\ UNCHANGED <<input, world, targets, target, done, body, parsed, todo, results, errors>>

\* checkTarget and checkRelease: the first root there is must parse; an expired
\* one does not keep the rest from being checked.
CheckRoot ==
  LET repo == Repository(target) IN
  /\ phase = "root"
  /\ \/ /\ Root(repo) \in {"absent", "garbled"}
        /\ Add({Result("root", "FAIL")})
        /\ phase' = "targets" /\ UNCHANGED errors
     \/ /\ Error /\ Add({Result("root", "FAIL")})
        /\ phase' = "targets"
     \/ /\ Root(repo) = "good"
        /\ Add({Result("root", "OK")} \cup {Result(x, "FAIL") : x \in {y \in {"expiry"} : repo.expired}})
        /\ phase' = "documents" /\ UNCHANGED errors
  /\ done' = 0 /\ body' = {} /\ parsed' = {}
  /\ UNCHANGED <<input, world, targets, target, todo>>

\* What a document that can be read adds to what has been read.
RpmRead(d) == IF d.type = "primary" /\ RpmReadable(d) THEN {d} ELSE body
AptRead(d) == IF AptParses(d) /\ d.state = "good" THEN body \cup {d} ELSE body

Docs == Repository(target).docs

CheckDocument ==
  /\ phase = "documents" /\ done < Len(Docs)
  /\ done' = done + 1
  /\ LET d == Docs[done + 1] IN
     \/ /\ Rpm
        /\ Add({Result(d.name, RpmDocument(d))})
        /\ body' = RpmRead(d) /\ UNCHANGED <<parsed, errors>>
     \/ /\ ~Rpm /\ WantsComponent(d)
        /\ Add({Result(d.name, AptDocument(d))})
        /\ body' = AptRead(d)
        /\ parsed' = {Index(x) : x \in body'} /\ UNCHANGED errors
     \/ /\ ~Rpm /\ ~WantsComponent(d)
        /\ UNCHANGED <<results, body, parsed, errors>>
     \/ /\ Rpm \/ WantsComponent(d)
        /\ Error /\ Add({Result(d.name, "FAIL")})
        /\ UNCHANGED <<body, parsed>>
  /\ UNCHANGED <<input, world, targets, target, phase, todo>>

Read == UNION {d.lists : d \in body}

\* The dependencies of the whole package set, which only the rpm tool checks.
Dependencies == IF Rpm THEN {Result(p, "FAIL") : p \in Repository(target).unmet} ELSE {}

Select ==
  /\ phase = "documents" /\ done = Len(Docs)
  /\ \/ /\ input.level = "metadata"
        /\ phase' = "targets" /\ UNCHANGED <<todo, results>>
     \/ /\ input.level # "metadata"
        /\ \/ /\ Rpm /\ body = {}
              /\ Add({Result("packages", "WARN")})
              /\ phase' = "targets" /\ UNCHANGED todo
           \/ /\ Rpm /\ \E d \in body : d.state = "garbled"
              /\ Add({Result("packages", "FAIL")})
              /\ phase' = "targets" /\ UNCHANGED todo
           \/ /\ ~Rpm /\ Selected(Read) = {}
              /\ Add({Result("packages", "WARN")})
              /\ phase' = "targets" /\ UNCHANGED todo
           \/ /\ IF Rpm THEN body # {} /\ \A d \in body : d.state # "garbled"
                        ELSE Selected(Read) # {}
              /\ Add(Dependencies)
              /\ todo' = FilesOf(Selected(Read))
              /\ phase' = "files"
  /\ UNCHANGED <<input, world, targets, target, done, body, parsed, errors>>

\* checkPackage, checkEntry: any file of any package that was selected.  At the
\* head level a call that fails is a failure if it was for the file itself, and
\* no more than a checksum that was not looked at if it was for its checksum.
CheckFile ==
  /\ phase = "files"
  /\ \E f \in todo :
       LET stored == Repository(target).stored[f.file] IN
       /\ todo' = todo \ {f}
       /\ \/ /\ Add({Result(f.file, IF input.level = "head" THEN HeadCheck(stored)
                                   ELSE FetchCheck(f, stored))})
             /\ UNCHANGED errors
          \/ Error /\ Add({Result(f.file, "FAIL")})
          \/ /\ input.level = "head" /\ stored # Absent /\ stored.size = "right"
             /\ stored.noted # ""
             /\ Error /\ Add({Result(f.file, IF Rpm THEN "OK" ELSE "WARN")})
  /\ UNCHANGED <<input, world, targets, target, phase, done, body, parsed>>

FilesDone == /\ phase = "files" /\ todo = {}
             /\ phase' = "targets"
             /\ UNCHANGED <<input, world, targets, target, done, body, parsed, todo, results, errors>>

Init == /\ \E c \in Checks : input = c.input /\ world = c.world
        /\ targets = Targets(input)
        /\ target = Closed
        /\ phase = "targets"
        /\ done = 0 /\ body = {} /\ parsed = {} /\ todo = {}
        /\ results = {} /\ errors = 0

Next == NextTarget \/ Finish \/ CheckRoot \/ CheckDocument \/ Select \/ CheckFile \/ FilesDone

Spec == Init /\ [][Next]_vars

----------------------------------------------------------------------------
(* What a client would find, and the check should.                         *)

Rooted(r) ==
  IF Rpm THEN r.roots["repomd.xml"] = "good"
  ELSE \/ r.roots["InRelease"] = "good"
       \/ r.roots["InRelease"] = "absent" /\ r.roots["Release"] = "good"

DocsOf(t) == LET ds == Repository(t).docs IN
  {ds[n] : n \in {k \in DOMAIN ds : ds[k].component = "" \/ Allows(t.components, ds[k].component)}}

\* A document no client can use.  That an index does not parse shows only where
\* no form before it did.
Useless(t, d) ==
  \/ d.state \in {"missing", "short", "altered", "torn", "swollen"}
  \/ ~Rpm /\ d.state \in {"unsummed", "sealed"}
  \/ ~Rpm /\ d.state = "garbled" /\ d.type = "index" /\ \A e \in DocsOf(t) :
       Alike(d, e) /\ e.state = "good" => d.place < e.place

\* The packages that are listed where a client can read it.
Primary(t) == {d \in DocsOf(t) : d.type = "primary" /\ RpmReadable(d)}

Listed(t) ==
  UNION {d.lists : d \in IF Rpm THEN {p \in Primary(t) : p.state # "garbled"}
                                 ELSE {d \in DocsOf(t) : d.type = "index" /\ d.state = "good"}}

\* An architecture's packages are its own and those for all; sources are of
\* none, and the apt tool knows an architecture that is any.
ForAll == IF Rpm THEN "noarch" ELSE "all"

Installable == IF Rpm THEN input.arches ELSE input.arches \ {"source"}

InScope(e) ==
  /\ input.names = {} \/ e.name \in input.names
  /\ \/ input.arches = {} \/ e.arch \in input.arches
     \/ e.arch = ForAll /\ Installable # {}
     \/ ~Rpm /\ "any" \in input.arches

\* The stanza x stands for e: one of a package that is listed before, or, where
\* only the latest is asked for, a newer version, or one as new listed before.
StandsFor(x, e) ==
  \/ ~Rpm /\ x.id = e.id /\ x.nth < e.nth
  \/ /\ input.latest /\ x.name = e.name /\ x.arch = e.arch
     /\ x.version > e.version \/ (x.version = e.version /\ x.nth < e.nth)

Wanted(t) == {e \in Listed(t) : InScope(e) /\ ~\E x \in Listed(t) : InScope(x) /\ StandsFor(x, e)}

\* Faults that show without the file, and those that show with it.
Mislabelled(s) == s # Absent /\ s.size = "right" /\ s.noted = "bad"

BadFile(f, s) ==
  \/ s = Absent \/ s.size = "wrong"
  \/ input.level = "head" /\ (Mislabelled(s) \/ (~Rpm /\ s.size = "unknown"))
  \/ input.level = "fetch" /\ (s.sum = "bad" \/ (f.isPackage /\ input.opener /\ ~s.opens))

Faulty(t) ==
  LET r == Repository(t) IN
  IF Refused(t) \/ r = Closed THEN {"repository"}
  ELSE IF ~Rooted(r) THEN {"root"}
  ELSE {x \in {"expiry"} : r.expired} \cup {d.name : d \in {x \in DocsOf(t) : Useless(t, x)}} \cup
       (IF input.level = "metadata" THEN {}
        ELSE {f.file : f \in {g \in FilesOf(Wanted(t)) : BadFile(g, r.stored[g.file])}} \cup
             {x \in {"packages"} : Rpm /\ \E d \in Primary(t) : d.state = "garbled"} \cup
             {p \in r.unmet : Rpm /\ \E d \in Primary(t) : d.state # "garbled"})

Fails(t)  == {x.what : x \in {y \in results : y.target = t /\ y.status = "FAIL"}}

\* A check no storage call of which fails reports as failed all that is wrong,
\* at its level, with what it was asked about, and nothing else.  A package that
\* is listed at a second location is looked at where it is listed first, and a
\* source's files are not opened (apt/repocheck/check.go:345-396, 572).
CheckExact == phase = "over" /\ errors = 0 => \A t \in Targets(input) : Fails(t) = Faulty(t)

\* Whatever fails while it runs, a check that reports neither a failure nor a
\* warning was of sound repositories; only a recorded checksum that the rpm tool
\* could not read may hide that it is wrong (check.go:364-382).
PassMeansSound ==
  phase = "over" /\ (\A x \in results : x.status = "OK") =>
    \A t \in Targets(input) : \A what \in Faulty(t) :
      /\ Rpm /\ input.level = "head" /\ errors > 0
      /\ what \in DOMAIN Repository(t).stored /\ Mislabelled(Repository(t).stored[what])
=============================================================================
