------------------------------- MODULE Verify -------------------------------
(***************************************************************************)
(* verify: every file the metadata names is checked for its presence, its  *)
(* size and its checksum, several at a time, by the cheapest means that    *)
(* proves what was asked for (pkg/integrity), and a progress bar keeps the *)
(* count (pkg/progress).  rpm packages have one file each, which is on the *)
(* bar only if it is downloaded; apt entries have several, all on the bar. *)
(* Each rpm is also read, as little of it as will do, and checked against  *)
(* itself; when all are done, the signatures are judged as a whole.        *)
(***************************************************************************)
EXTENDS Each, FiniteSetsExt, Trust

CONSTANTS
  Size(_),      \* the size the metadata records
  NoChecksum,   \* files the metadata records no sha256 of
  Absent,
  Cases,        \* what the storage may hold, and what verify is asked to do with it
  RepomdAsc,    \* the path of repomd.xml's signatures
  Repomd,       \* what repomd.xml holds
  MaxErrors     \* bound: storage calls that fail

IsSignature(s) == /\ s.by \in Keys
                  /\ s.form \in {"ok", "malformed", "unsupported", "forged"}

IsFile(f) == /\ f.sum \in {"good", "bad"}
             /\ f.noted \in {"good", "bad", ""}
             /\ \A s \in f.rpm.sigs : IsSignature(s)

\* Only an rpm, which is one file, is looked into; a repository records none of
\* its key's subkeys; and a package that was read is told from one that was not.
ASSUME CasesAssumption == \A c \in Cases :
  /\ c.job.tool \in {"rpm", "apt"}
  /\ c.job.mode \in {"content", "cheap"}
  /\ c.job.backend \in {"local", "ssh", "hashless", "records", "plain"}
  /\ c.job.opt.target \in {"", "rhel8", "rhel9", "rhel10"}
  /\ c.job.files = [i \in Items |-> c.job.files[i]]
  /\ c.job.contents => c.job.tool = "rpm" /\ \A i \in Items : Cardinality(c.job.files[i]) = 1
  /\ \A k \in c.job.opt.recorded : k \in Keys /\ Primary(k) = k
  /\ c.stored[RepomdAsc] = Absent \/ \A s \in c.stored[RepomdAsc] : IsSignature(s)
  /\ \A i \in Items :
       /\ IsFiniteSet(c.job.files[i])
       /\ \A f \in c.job.files[i] :
            c.stored[f] = Absent \/
            /\ IsFile(c.stored[f])
            /\ \A whole \in BOOLEAN :
                 CheckPackage(c.stored[f].rpm, TrustedKeys(c.job.opt), PolicyFor(c.job.opt.target), whole) # Absent

VARIABLES
  stored,   \* the storage: file -> [size, sum, noted, rpm] or Absent; RepomdAsc -> signatures
  job,      \* [tool, mode, backend, files, contents, opt, unmet]: what this verify was asked for
  left,     \* per item: files not yet come to
  file,     \* per item: the file being checked
  at,       \* per item: the step of that check
  sized,    \* per item: bytes read of the file being downloaded
  verdict,  \* per item: what its call found so far
  inspected, \* per item: the Result of reading it, or Absent
  ended,    \* "no", "reported" or "failed"
  res,      \* VerifyResult, under its mutex
  bar,      \* the Tracker's counters, under its mutex
  errors    \* storage calls that failed so far

work == <<left, file, at, sized, verdict>>
vars == <<eachVars, stored, job, work, inspected, ended, res, bar, errors>>

AllFiles == UNION {job.files[i] : i \in Items}

\* Tally.
Nothing == [problems |-> {}, warnings |-> {}, verified |-> {}, recorded |-> {}, unconfirmed |-> {}]

Joined(a, b) == [part \in DOMAIN a |-> a[part] \cup b[part]]

Problem(f, kind) == [file |-> f, kind |-> kind]

----------------------------------------------------------------------------
(* The Tracker: each method is one step under its mutex.                   *)

Closed == [begun |-> FALSE, totalItems |-> 0, doneItems |-> 0, totalBytes |-> 0, doneBytes |-> 0]

Opened(items, bytes) ==
  IF items <= 0 THEN Closed
  ELSE [Closed EXCEPT !.begun = TRUE, !.totalItems = items, !.totalBytes = bytes]

\* Skip never takes the totals below what is done.
Skipped(b, bytes) ==
  IF ~b.begun THEN b
  ELSE [b EXCEPT !.totalItems = Max({@ - 1, b.doneItems}),
                 !.totalBytes = Max({@ - bytes, b.doneBytes})]

Added(b, n)  == IF b.begun THEN [b EXCEPT !.doneBytes = @ + n] ELSE b
ItemDone(b) == IF b.begun THEN [b EXCEPT !.doneItems = @ + 1] ELSE b

----------------------------------------------------------------------------
(* What the backend can do.                                                *)

HashesContentAny == job.backend # "plain"  \* mutant: a recorded checksum passes for a content hash

HashesContent == job.backend \in {"local", "ssh", "hashless"}
IsHasher      == job.backend # "plain"

\* Hash: "" where the backend cannot tell.
Hash(f) == CASE job.backend \in {"local", "ssh"} -> stored[f].sum
             [] job.backend = "records" -> stored[f].noted
             [] OTHER                   -> ""

\* Every file of every entry: one that two entries own is checked twice.
Owned == {p \in Items \X AllFiles : p[2] \in job.files[p[1]]}

TotalBytes == MapThenSumSet(LAMBDA p : Size(p[2]), Owned)

Downloads == job.mode = "content" /\ ~HashesContent

\* Verify begins: rpm only opens the bar for downloads, apt always does.
Begin ==
  IF job.tool = "rpm"
  THEN IF Downloads THEN Opened(Cardinality(Owned), TotalBytes) ELSE Closed
  ELSE Opened(Cardinality(Owned), IF Downloads THEN TotalBytes ELSE 0)

----------------------------------------------------------------------------
(* One file: CheckInspect.                                                 *)

Goto(i, step) == at' = [at EXCEPT ![i] = step]

\* What step i's check finds goes into its verdict.
Finds(i, part, what) == verdict' = [verdict EXCEPT ![i][part] = @ \cup {what}]

Fails(i, kind) == Finds(i, "problems", Problem(file[i], kind))

At(i, step) == call[i] = "running" /\ at[i] = step

NextFile(i) ==
  /\ At(i, "next")
  /\ \E f \in left[i] : /\ file' = [file EXCEPT ![i] = f]
                        /\ left' = [left EXCEPT ![i] = @ \ {f}]
  /\ sized' = [sized EXCEPT ![i] = 0]
  /\ Goto(i, "stat")
  /\ UNCHANGED <<eachVars, stored, job, verdict, inspected, ended, res, bar, errors>>

\* A storage call fails, with anything but ErrNotExist: a problem of its own.
Error(i) == /\ errors < MaxErrors
            /\ errors' = errors + 1
            /\ Fails(i, "unreadable")

Stat(i) ==
  /\ At(i, "stat")
  /\ LET f == file[i] IN
     \/ /\ stored[f] = Absent
        /\ Fails(i, "missing") /\ Goto(i, "settle")
        /\ UNCHANGED errors
     \/ /\ stored[f] # Absent
        /\ IF stored[f].size # Size(f) THEN Fails(i, "size") ELSE UNCHANGED verdict
        /\ Goto(i, IF f \in NoChecksum THEN "unsummed" ELSE "hash")
        /\ UNCHANGED errors
     \/ Error(i) /\ Goto(i, "settle")
  /\ UNCHANGED <<eachVars, stored, job, left, file, sized, inspected, ended, res, bar>>

Unsummed(i) ==
  /\ At(i, "unsummed")
  /\ Finds(i, "unconfirmed", file[i]) /\ Goto(i, "settle")
  /\ UNCHANGED <<eachVars, stored, job, left, file, sized, inspected, ended, res, bar, errors>>

Compared(i, sum, part) == IF sum = "good" THEN Finds(i, part, file[i]) ELSE Fails(i, "checksum")

\* The backend's own hash, when it is made of the stored bytes.
HashContent(i) ==
  /\ At(i, "hash")
  /\ LET sum == Hash(file[i]) IN
     \/ /\ ~HashesContent \/ sum = ""
        /\ Goto(i, IF job.mode = "content" THEN "read" ELSE "recorded")
        /\ UNCHANGED <<verdict, errors>>
     \/ /\ HashesContent /\ sum # ""
        /\ Compared(i, sum, "verified") /\ Goto(i, "settle")
        /\ UNCHANGED errors
     \/ HashesContent /\ Error(i) /\ Goto(i, "settle")
  /\ UNCHANGED <<eachVars, stored, job, left, file, sized, inspected, ended, res, bar>>

\* Cheap mode: a recorded checksum will do, and none will do too.
HashRecorded(i) ==
  /\ At(i, "recorded")
  /\ LET sum == IF IsHasher THEN Hash(file[i]) ELSE "" IN
     \/ /\ IF sum = "" THEN Finds(i, "unconfirmed", file[i]) ELSE Compared(i, sum, "recorded")
        /\ UNCHANGED errors
     \/ IsHasher /\ Error(i)
  /\ Goto(i, "settle")
  /\ UNCHANGED <<eachVars, stored, job, left, file, sized, inspected, ended, res, bar>>

\* pkgcheck.Check of what is read, if packages are looked into at all.
Inspected(i, wanted, whole) ==
  inspected' = IF ~wanted THEN inspected
               ELSE [inspected EXCEPT ![i] = CheckPackage(stored[file[i]].rpm, TrustedKeys(job.opt),
                                                          PolicyFor(job.opt.target), whole)]

\* Content mode, and nobody to hash for us: the file is read.
Read(i) ==
  /\ At(i, "read")
  /\ sized[i] < stored[file[i]].size
  /\ sized' = [sized EXCEPT ![i] = @ + 1]
  /\ bar' = Added(bar, 1)
  /\ UNCHANGED <<eachVars, stored, job, left, file, at, verdict, inspected, ended, res, errors>>

\* The item is done whether the download went well or not.
ReadEnd(i) ==
  /\ At(i, "read")
  /\ \/ /\ sized[i] = stored[file[i]].size
        /\ Compared(i, stored[file[i]].sum, "verified")
        /\ Inspected(i, job.contents, TRUE)
        /\ UNCHANGED errors
     \/ Error(i) /\ UNCHANGED inspected
  /\ bar' = ItemDone(bar)
  /\ Goto(i, "downloaded")
  /\ UNCHANGED <<eachVars, stored, job, left, file, sized, ended, res>>

SettledTwice(i) ==  \* mutant: a file that was downloaded comes off the totals too
  IF job.tool = "rpm" THEN Skipped(bar, Size(file[i]))
  ELSE IF at[i] = "settle" THEN ItemDone(bar) ELSE bar

\* An rpm package that was not downloaded comes off the totals; an apt file is
\* done, if it is not yet.
Settled(i) ==
  IF at[i] = "downloaded" THEN bar
  ELSE IF job.tool = "rpm" THEN Skipped(bar, Size(file[i])) ELSE ItemDone(bar)

Settle(i) ==
  /\ At(i, "settle") \/ At(i, "downloaded")
  /\ bar' = Settled(i)
  /\ Goto(i, IF job.contents /\ inspected[i] = Absent THEN "inspect" ELSE "next")
  /\ UNCHANGED <<eachVars, stored, job, left, file, sized, verdict, inspected, ended, res, errors>>

\* readPackage: a local file is read whole, any other to the end of its
\* header.  One that is missing was reported as that.
Inspect(i) ==
  /\ At(i, "inspect")
  /\ \/ /\ Inspected(i, stored[file[i]] # Absent, job.backend = "local")
        /\ UNCHANGED <<verdict, errors>>
     \/ Error(i) /\ UNCHANGED inspected
  /\ Goto(i, "next")
  /\ UNCHANGED <<eachVars, stored, job, left, file, sized, ended, res, bar>>

\* What reading the package found.
ContentProblems(i) ==
  IF inspected[i] = Absent THEN {}
  ELSE {Problem(file[i], "damaged") : p \in inspected[i].problems} \cup
       {Problem(file[i], "signature") : s \in inspected[i].bad}

\* Every file of the item is checked: its verdict joins the result.
Merge(i) ==
  /\ At(i, "next") /\ left[i] = {}
  /\ Over(i)
  /\ res' = Joined(res, [verdict[i] EXCEPT !.problems = @ \cup ContentProblems(i)])
  /\ UNCHANGED <<stored, job, work, inspected, ended, bar, errors>>

Check(i) == \/ NextFile(i) \/ Stat(i) \/ Unsummed(i) \/ HashContent(i) \/ HashRecorded(i)
            \/ Read(i) \/ ReadEnd(i) \/ Settle(i) \/ Inspect(i) \/ Merge(i)

----------------------------------------------------------------------------
(* All packages are checked: the signatures as a whole, and what the       *)
(* packages need of each other (RpmDeps, AptDeps).                         *)

Checked == [i \in {k \in Items : inspected[k] # Absent} |-> inspected[i]]

\* Whom a problem of the whole repository is put to.
About(problems) == {Problem(file[p.package], p.kind) : p \in problems}

MetadataSigs == DetachedSignatures(stored[RepomdAsc], <<Repomd>>, TrustedKeys(job.opt))

MetadataProblems ==
  LET asc   == stored[RepomdAsc]
      kinds == CASE asc = Absent -> IF job.opt.signedMetadata THEN {"unsigned"} ELSE {}
                 [] asc = {}     -> {"unusable"}
                 [] OTHER        -> {"metadata" : s \in MetadataComplaints(MetadataSigs, job.opt)}
  IN {Problem(RepomdAsc, kind) : kind \in kinds}

MetadataWarnings ==
  IF stored[RepomdAsc] = Absent \/ ~Incomplete(job.opt) THEN {}
  ELSE {Problem(RepomdAsc, "unexpected") :
          s \in {x \in MetadataSigs : x.status \in Intacts /\ Unexpected(x, job.opt)}}

Judged(order) ==
  [Nothing EXCEPT
     !.problems = {Problem(f, "dependency") : f \in job.unmet} \cup
                  IF job.tool = "apt" THEN {}
                  ELSE MetadataProblems \cup
                       IF job.contents THEN About(SignerProblems(order, Checked, job.opt)) ELSE {},
     !.warnings = IF job.tool = "apt" THEN {}
                  ELSE MetadataWarnings \cup
                       IF job.contents THEN About(SignerWarnings(Checked, job.opt)) ELSE {}]

\* A repomd.xml.asc that cannot be read fails the whole verify.
Judge ==
  /\ caller = "returned" /\ ended = "no"
  /\ \/ /\ \E order \in SetToSeqs(SignerIds(Checked)) : res' = Joined(res, Judged(order))
        /\ ended' = "reported" /\ UNCHANGED errors
     \/ /\ job.tool = "rpm" /\ errors < MaxErrors
        /\ errors' = errors + 1
        /\ ended' = "failed" /\ UNCHANGED res
  /\ UNCHANGED <<eachVars, stored, job, work, inspected, bar>>

Init == /\ EachInit
        /\ \E c \in Cases : stored = c.stored /\ job = c.job
        /\ ~Refused(job.opt)
        /\ inspected = [i \in Items |-> Absent]
        /\ ended = "no"
        /\ left = job.files
        /\ file = [i \in Items |-> Absent]
        /\ at = [i \in Items |-> "next"]
        /\ sized = [i \in Items |-> 0]
        /\ verdict = [i \in Items |-> Nothing]
        /\ res = Nothing
        /\ bar = Begin
        /\ errors = 0

rest == <<stored, job, work, inspected, ended, res, bar, errors>>

Next == \/ Calling /\ UNCHANGED rest
        \/ Judge
        \/ \E i \in Items : Check(i) \/ (Leaving(i) /\ UNCHANGED rest)

\* Go runs every goroutine that can run, and a storage call returns.
Fairness == /\ WF_vars(Calling /\ UNCHANGED rest) /\ WF_vars(Judge)
            /\ \A i \in Items : WF_vars(Check(i)) /\ WF_vars(Leaving(i) /\ UNCHANGED rest)

Spec == Init /\ [][Next]_vars /\ Fairness

----------------------------------------------------------------------------
Reported == ended = "reported"

FilesOf(kind) == {p.file : p \in {q \in res.problems : q.kind = kind}}

\* What the checks of a file should come to, in the order of their strength.
Present   == {f \in AllFiles : stored[f] # Absent}
Summed    == Present \ NoChecksum
ByContent == {f \in Summed : job.mode = "content" \/ job.backend \in {"local", "ssh"}}
ByRecord  == {f \in Summed \ ByContent : job.backend = "records" /\ stored[f].noted # ""}
ReadWhole == {f \in Present : job.backend = "local" \/ (f \in ByContent /\ job.backend # "ssh")}

Damaged(p, whole) == \/ p.broken
                     \/ p.headerSums # {p.header}
                     \/ whole /\ p.payloadSums # {p.payload}

\* Where no storage call fails, the report is what the storage holds, whatever
\* order the checks ran in: content mode tells every file that is not what the
\* metadata says, cheap mode every one whose recorded checksum says so
\* (integrity.go:24-38), a package that is not what its own digests say is told
\* as far as it is read (verify.go:254-257), and nothing else is reported.
ReportExact == Reported /\ errors = 0 =>
  /\ FilesOf("missing") = AllFiles \ Present
  /\ FilesOf("size") = {f \in Present : stored[f].size # Size(f)}
  /\ FilesOf("checksum") = {f \in ByContent : stored[f].sum # "good"} \cup
                           {f \in ByRecord : stored[f].noted # "good"}
  /\ FilesOf("unreadable") = {}
  /\ res.verified = {f \in ByContent : stored[f].sum = "good"}
  /\ res.recorded = {f \in ByRecord : stored[f].noted = "good"}
  /\ res.unconfirmed = Present \ (ByContent \cup ByRecord)
  /\ job.contents =>
       FilesOf("damaged") = {f \in Present : Damaged(stored[f].rpm, f \in ReadWhole)}

Unsettled == {p \in Owned : \/ p[2] \in left[p[1]]
                            \/ p[2] = file[p[1]] /\ at[p[1]] \notin {"next", "downloaded", "inspect"}}

\* What the bar has still to count is what is still to be checked, so that it
\* is full when verify returns and never before (progress.go:170-173).
BarTrue == bar.begun =>
  bar.totalItems - bar.doneItems = Cardinality(Unsettled)

\* Signatures of data that are really by a key in the set: what a clean verify
\* vouches for.
Made(sigs, data, by) ==
  {s \in sigs : s.form = "ok" /\ s.over = data /\ s.by \notin Lapsed /\ Primary(s.by) \in by}

SealedBy(p, by) == Made(p.sigs, <<p.header>>, by) \cup Made(p.sigs, <<p.header, p.payload>>, by) # {}

\* A verify that finds no problem vouches for what it was asked for: packages
\* that must be signed are, by one signer; where only trusted keys will do, by
\* trusted keys, and where the repository records a key that is at hand, by
\* that key; repomd.xml likewise (verify.go:70-98).
PassIsTrust == Reported /\ job.contents /\ res.problems = {} =>
  LET opt   == job.opt
      keys  == TrustedKeys(opt)
      rpms  == {stored[f].rpm : f \in AllFiles}
      meta  == stored[RepomdAsc]
      asked == IF opt.recorded \subseteq keys /\ opt.recorded # {} THEN opt.recorded ELSE keys
  IN /\ \A i, k \in Items : SignerId(inspected[i]) = SignerId(inspected[k])
     /\ opt.signed => \A p \in rpms : \E s \in p.sigs :
          s.hash # "MD5" /\ (s.tag = "OPENPGP" => opt.target \notin {"rhel8", "rhel9"})
     /\ opt.trusted /\ opt.signed => \A p \in rpms : SealedBy(p, asked)
     /\ opt.signedMetadata => meta # Absent
     /\ opt.trusted /\ meta # Absent => meta = Made(meta, <<Repomd>>, asked) /\ meta # {}

\* Whichever order the signers are come to in, the packages that are told to
\* be signed by another key than most are those not signed by the recorded key,
\* if any is, or else by the commonest, or else by the first by name
\* (verify.go:398-412).
BlameSettled == Reported /\ job.tool = "rpm" /\ job.contents =>
  LET ids    == SignerIds(Checked)
      known  == {id \in ids : id \cap Expected(job.opt) # {}}
      held   == IF known # {} THEN known ELSE ids
      common == {id \in held : \A o \in held : HowMany(Checked, o) <= HowMany(Checked, id)}
      first  == {id \in common : \A o \in common \ {id} : Before(id, o)}
  IN FilesOf("odd") = {file[i] : i \in {k \in DOMAIN Checked :
       /\ ids # {}
       /\ SignerId(Checked[k]) \notin first
       /\ SignerId(Checked[k]) = {} => ~job.opt.signed}}

\* Verify ends.
Returns == <>(ended # "no")
=============================================================================
