------------------------------ MODULE Backends ------------------------------
(***************************************************************************)
(* pkg/backend: how Put, Copy, Delete and Stat come about on a local       *)
(* directory, over SFTP (with the posix-rename extension or without), on   *)
(* S3 and on GCS, one system call or request at a time, several calls at   *)
(* once.  Any step may be refused, the connection or the process may go    *)
(* at any moment, before or after the step has had its effect, and the     *)
(* host of a local repository may lose power.                              *)
(*                                                                         *)
(* ObjectStore is what the callers rely on; StoreCallsAtomic says which    *)
(* steps keep to it and names those that do not.                           *)
(***************************************************************************)
EXTENDS Naturals, Sequences

CONSTANTS
  Kinds,          \* of "local", "posix", "plain" (SFTP with and without posix-rename), "s3", "gcs"
  Calls,          \* the calls, each made once at most
  Requests,       \* what a call may ask: [op, path, src, data]
  Paths, Contents,
  Partial,        \* a file that is not written to its end
  Absent, None,
  InitialData,    \* path |-> content or Absent
  Regions, Home,  \* AWS regions, and the one the bucket is in
  MaxCuts         \* bound: power cuts

\* sum is the checksum recorded beside the object; synced, whether its data is
\* on the disk; by, the call that made the file.
Ops == {"put", "copy", "delete", "stat"}
Data == Contents \cup {Partial, None}
Files == [data : Data, sum : Data, synced : BOOLEAN, by : Calls \cup {None}]

Object(data, sum, synced, by) == [data |-> data, sum |-> sum, synced |-> synced, by |-> by]

ASSUME RequestAssumption ==
  /\ Home \in Regions /\ Requests # {} /\ Absent \notin Files
  /\ InitialData \in [Paths -> Contents \cup {Absent}]
  /\ Requests \subseteq [op : Ops, path : Paths, src : Paths, data : Contents \cup {None}]
  /\ \A r \in Requests : /\ r.op = "put" => r.data \in Contents
                         /\ r.op # "put" => r.data = None
                         /\ r.op = "stat" => r.src = r.path

ASSUME KindAssumption == Kinds \subseteq {"local", "posix", "plain", "s3", "gcs"}

ASSUME DataAssumption == Absent \notin Data /\ None \notin Contents \cup {Partial}

VARIABLES
  kind,      \* the backend that is open
  objects,   \* path |-> the object clients read there, or Absent
  temp,      \* call |-> the temporary file it writes, or Absent
  aside,     \* call |-> the file it moved away from its destination, or Absent
  call,      \* call |-> where it is and what it asks
  region,    \* s3Backend.region, shared by the calls
  cuts

vars == <<kind, objects, temp, aside, call, region, cuts>>

\* "littered": failed, and its temporary file could not be removed.
Ended == {"ok", "failed", "missing", "misdirected", "littered"}

\* Where a call can be.
Places == Ended \cup
  {"idle", "open", "create", "write", "sync", "rename", "move aside", "take its place",
   "restore", "remove old", "clear", "remove", "stat", "copy", "copying", "copying alone",
   "send", "sent", "redirected", "resend", "resent"}

Init ==
  /\ kind \in Kinds
  /\ objects = [p \in Paths |-> IF InitialData[p] = Absent THEN Absent
                ELSE Object(InitialData[p],
                            IF kind \in {"s3", "gcs"} THEN InitialData[p] ELSE None, TRUE, None)]
  /\ temp = [c \in Calls |-> Absent]
  /\ aside = [c \in Calls |-> Absent]
  /\ call = [c \in Calls |-> [pc |-> "idle", ask |-> CHOOSE r \in Requests : TRUE,
                               data |-> None, todo |-> <<>>,
                               at |-> Home, body |-> "whole", cut |-> FALSE]]
  \* detectRegion may have learnt nothing.
  /\ region \in (IF kind = "s3" THEN Regions ELSE {Home})
  /\ cuts = 0

----------------------------------------------------------------------------
Pc(c)  == call[c].pc
Ask(c) == call[c].ask
Dst(c) == Ask(c).path
Src(c) == Ask(c).src

OnFiles   == kind \in {"local", "posix", "plain"}
OnBuckets == kind \in {"s3", "gcs"}
Running(c) == Pc(c) \notin Ended \cup {"idle", "copying alone"}

Go(c, l) == call' = [call EXCEPT ![c].pc = l]

\* The same, or the connection or the process goes before the answer is there.
Then(c, l) == \/ Go(c, l)
              \/ call' = [call EXCEPT ![c] = [@ EXCEPT !.pc = "failed", !.cut = TRUE]]

\* Where each call starts.
Entry(r) == IF OnBuckets THEN "send"
            ELSE CASE r.op = "put"    -> "create"
                   [] r.op = "delete" -> "remove"
                   [] r.op = "stat"   -> "stat"
                   [] r.op = "copy"   -> IF kind = "local" THEN "open" ELSE "stat"

\* The requests a call on a bucket consists of.
Parts(r) == IF r.op = "copy" THEN <<"stat", "copy">> ELSE <<r.op>>

\* The copies of one publish have different destinations.
Begin(c) ==
  /\ Pc(c) = "idle"
  /\ \E r \in Requests :
       /\ r.op = "copy" => \A d \in Calls \ {c} :
            ~(Pc(d) \notin {"idle"} /\ Ask(d).op = "copy" /\ Dst(d) = r.path)
       /\ call' = [call EXCEPT ![c] = [@ EXCEPT !.pc = Entry(r), !.ask = r, !.data = r.data,
                                                !.todo = Parts(r)]]
  /\ UNCHANGED <<kind, objects, temp, aside, region, cuts>>

Keep == UNCHANGED <<kind, region, cuts>>

----------------------------------------------------------------------------
(* Files: local.go and sftp.go.                                            *)

\* local.Copy opens its source, and has its content whatever happens to it.
OpenSource(c) ==
  /\ Pc(c) = "open"
  /\ IF objects[Src(c)] = Absent THEN Go(c, "missing")
     ELSE call' = [call EXCEPT ![c] = [@ EXCEPT !.pc = "create", !.data = objects[Src(c)].data]]
  /\ UNCHANGED <<objects, temp, aside>> /\ Keep

Create(c) ==
  /\ Pc(c) = "create"
  /\ temp' = [temp EXCEPT ![c] = Object(Partial, None, FALSE, c)]
  /\ Go(c, "write")
  /\ UNCHANGED <<objects, aside>> /\ Keep

\* Mutant: the file takes its name before its data is on the disk.
WriteUnsynced(c) ==
  /\ Pc(c) = "write"
  /\ temp' = [temp EXCEPT ![c].data = call[c].data]
  /\ Go(c, "rename")
  /\ UNCHANGED <<objects, aside>> /\ Keep

Write(c) ==
  /\ Pc(c) = "write"
  /\ temp' = [temp EXCEPT ![c].data = call[c].data]
  /\ Go(c, IF kind = "local" THEN "sync" ELSE "rename")
  /\ UNCHANGED <<objects, aside>> /\ Keep

Sync(c) ==
  /\ Pc(c) = "sync"
  /\ temp' = [temp EXCEPT ![c].synced = TRUE]
  /\ Go(c, "rename")
  /\ UNCHANGED <<objects, aside>> /\ Keep

Place(c) == /\ objects' = [objects EXCEPT ![Dst(c)] = temp[c]]
            /\ temp' = [temp EXCEPT ![c] = Absent]

\* os.Rename, or posix-rename: over whatever is there.
RenameOver(c) ==
  /\ Pc(c) = "rename" /\ kind \in {"local", "posix"}
  /\ Place(c)
  /\ Then(c, "ok")
  /\ UNCHANGED aside /\ Keep

\* replaceFile on plain SFTP, whose rename refuses to overwrite.
RenameNew(c) ==
  /\ Pc(c) = "rename" /\ kind = "plain"
  /\ IF objects[Dst(c)] = Absent THEN Place(c) /\ Then(c, "ok")
     ELSE Go(c, "move aside") /\ UNCHANGED <<objects, temp>>
  /\ UNCHANGED aside /\ Keep

\* Mutant: the fallback this one replaced, which deleted the destination.
MoveAsideDeleting(c) ==
  /\ Pc(c) = "move aside" /\ objects[Dst(c)] # Absent
  /\ objects' = [objects EXCEPT ![Dst(c)] = Absent]
  /\ Then(c, "take its place")
  /\ UNCHANGED <<temp, aside>> /\ Keep

MoveAside(c) ==
  /\ Pc(c) = "move aside" /\ objects[Dst(c)] # Absent
  /\ aside' = [aside EXCEPT ![c] = objects[Dst(c)]]
  /\ objects' = [objects EXCEPT ![Dst(c)] = Absent]
  /\ Then(c, "take its place")
  /\ UNCHANGED temp /\ Keep

\* Another call has taken the destination away meanwhile.
NothingToMove(c) ==
  /\ Pc(c) = "move aside" /\ objects[Dst(c)] = Absent
  /\ Go(c, "clear")
  /\ UNCHANGED <<objects, temp, aside>> /\ Keep

TakePlace(c) ==
  /\ Pc(c) = "take its place"
  /\ IF objects[Dst(c)] = Absent THEN Place(c) /\ Then(c, "remove old")
     ELSE Go(c, "restore") /\ UNCHANGED <<objects, temp>>
  /\ UNCHANGED aside /\ Keep

Restore(c) ==
  /\ Pc(c) = "restore"
  /\ IF objects[Dst(c)] = Absent
     THEN /\ objects' = [objects EXCEPT ![Dst(c)] = aside[c]]
          /\ aside' = [aside EXCEPT ![c] = Absent]
     ELSE UNCHANGED <<objects, aside>>
  /\ Then(c, "clear")
  /\ UNCHANGED temp /\ Keep

RemoveOld(c) ==
  /\ Pc(c) = "remove old"
  /\ aside' = [aside EXCEPT ![c] = Absent]
  /\ Go(c, "ok")
  /\ UNCHANGED <<objects, temp>> /\ Keep

\* The deferred os.Remove, and sftp's client.Remove(tmp) on its error paths.
Clear(c) ==
  /\ Pc(c) = "clear"
  /\ temp' = [temp EXCEPT ![c] = Absent]
  /\ Go(c, "failed")
  /\ UNCHANGED <<objects, aside>> /\ Keep

Remove(c) ==
  /\ Pc(c) = "remove"
  /\ objects' = [objects EXCEPT ![Dst(c)] = Absent]
  /\ Then(c, "ok")
  /\ UNCHANGED <<temp, aside>> /\ Keep

\* Stat of a file, and the one with which sftp's Copy begins.
StatFile(c) ==
  /\ Pc(c) = "stat"
  /\ Go(c, IF objects[Src(c)] = Absent THEN "missing"
           ELSE IF Ask(c).op = "copy" THEN "copy" ELSE "ok")
  /\ UNCHANGED <<objects, temp, aside>> /\ Keep

\* cp -f truncates its destination and writes into it.
CopyInPlace(c) ==
  /\ Pc(c) = "copy" /\ objects[Src(c)] # Absent
  /\ objects' = [objects EXCEPT ![Dst(c)] = Object(Partial, None, TRUE, c)]
  /\ call' = [call EXCEPT ![c] = [@ EXCEPT !.pc = "copying", !.data = objects[Src(c)].data]]
  /\ UNCHANGED <<temp, aside>> /\ Keep

\* cp has read its source to the end.  A destination that was renamed over or
\* removed meanwhile is another file than the one it writes.
Overtaken(c) == objects[Dst(c)] = Absent \/ objects[Dst(c)].by # c

CopyRest(c) ==
  objects' = IF Overtaken(c) THEN objects
             ELSE [objects EXCEPT ![Dst(c)].data = call[c].data]

CopyFinish(c) ==
  /\ Pc(c) = "copying"
  /\ CopyRest(c)
  /\ Then(c, "ok")
  /\ UNCHANGED <<temp, aside>> /\ Keep

\* The session is gone; cp goes on without it.
CopyLeft(c) ==
  /\ Pc(c) = "copying"
  /\ call' = [call EXCEPT ![c] = [@ EXCEPT !.pc = "copying alone", !.cut = TRUE]]
  /\ UNCHANGED <<objects, temp, aside>> /\ Keep

CopyAlone(c) ==
  /\ Pc(c) = "copying alone"
  /\ CopyRest(c)
  /\ Go(c, "failed")
  /\ UNCHANGED <<temp, aside>> /\ Keep

----------------------------------------------------------------------------
(* Buckets: s3.go and gcs.go.                                              *)

\* Mutant: the body is not rewound for the second attempt.
SendRest(c) ==
  /\ Pc(c) \in {"send", "resend"}
  /\ call' = [call EXCEPT ![c] = [@ EXCEPT !.pc = IF Pc(c) = "send" THEN "sent" ELSE "resent",
                                           !.at = region]]
  /\ UNCHANGED <<objects, temp, aside>> /\ Keep

\* s3do: an attempt with the client of the moment.  Put rewinds its body first.
Send(c) ==
  /\ Pc(c) \in {"send", "resend"}
  /\ call' = [call EXCEPT ![c] = [@ EXCEPT !.pc = IF Pc(c) = "send" THEN "sent" ELSE "resent",
                                           !.at = region, !.body = "whole"]]
  /\ UNCHANGED <<objects, temp, aside>> /\ Keep

\* The bucket is elsewhere: the answer names its region, and the body is spent.
Redirected(c) ==
  /\ Pc(c) \in {"sent", "resent"} /\ call[c].at # Home
  /\ call' = [call EXCEPT ![c] = [@ EXCEPT !.pc = IF Pc(c) = "sent" THEN "redirected" ELSE "misdirected",
                                           !.body = "spent"]]
  /\ UNCHANGED <<objects, temp, aside>> /\ Keep

\* useRegion says whether it changed the region; only then is the call repeated.
UseRegion(c) ==
  /\ Pc(c) = "redirected"
  /\ Go(c, IF region = Home THEN "misdirected" ELSE "resend")
  /\ region' = Home
  /\ UNCHANGED <<kind, objects, temp, aside, cuts>>

Arrived(c, part) == /\ Pc(c) \in {"sent", "resent"} /\ call[c].at = Home
                    /\ Head(call[c].todo) = part

\* The request with which a call ends, or the next one.
Answered(c) == IF Len(call[c].todo) = 1 THEN Then(c, "ok")
               ELSE call' = [call EXCEPT ![c] = [@ EXCEPT !.pc = "send", !.todo = Tail(call[c].todo)]]

\* seekableWithSum has hashed the whole content before it is sent.
PutObject(c) ==
  /\ Arrived(c, "put")
  /\ objects' = [objects EXCEPT ![Dst(c)] =
       Object(IF call[c].body = "whole" THEN call[c].data ELSE Partial, call[c].data, TRUE, c)]
  /\ Answered(c)
  /\ UNCHANGED <<temp, aside>> /\ Keep

\* gcsBackend.Put closes its writer when reading the body fails, and closing
\* it makes an object of what was read.
CommitTruncated(c) ==
  /\ Arrived(c, "put") /\ kind = "gcs"
  /\ objects' = [objects EXCEPT ![Dst(c)] = Object(Partial, call[c].data, TRUE, c)]
  /\ Go(c, "failed")
  /\ UNCHANGED <<temp, aside>> /\ Keep

DeleteObject(c) ==
  /\ Arrived(c, "delete")
  /\ objects' = [objects EXCEPT ![Dst(c)] = Absent]
  /\ Answered(c)
  /\ UNCHANGED <<temp, aside>> /\ Keep

HeadObject(c) ==
  /\ Arrived(c, "stat")
  /\ IF objects[Src(c)] = Absent THEN Go(c, "missing") ELSE Answered(c)
  /\ UNCHANGED <<objects, temp, aside>> /\ Keep

\* A server-side copy takes the recorded checksum along.
CopyObject(c) ==
  /\ Arrived(c, "copy")
  /\ IF objects[Src(c)] = Absent
     THEN Go(c, IF kind = "s3" THEN "missing" ELSE "failed") /\ UNCHANGED objects
     ELSE /\ objects' = [objects EXCEPT ![Dst(c)] = [objects[Src(c)] EXCEPT !.by = c]]
          /\ Answered(c)
  /\ UNCHANGED <<temp, aside>> /\ Keep

----------------------------------------------------------------------------
(* Failures.                                                               *)

\* Where an error leads.
OnErrorLeaving(c) ==                                   \* mutant
  CASE Pc(c) = "rename"                          -> IF kind = "plain" THEN "move aside" ELSE "clear"
    [] Pc(c) = "take its place"                  -> "restore"
    [] Pc(c) = "remove old"                      -> "ok"
    [] Pc(c) \in {"write", "sync", "move aside"} -> "clear"
    [] Pc(c) = "clear"                           -> "littered"
    [] OTHER                                     -> "failed"

OnError(c) ==
  CASE Pc(c) = "rename"                                     -> IF kind = "plain" THEN "move aside" ELSE "clear"
    [] Pc(c) = "take its place"                             -> "restore"
    [] Pc(c) = "remove old"                                 -> "ok"
    [] Pc(c) \in {"write", "sync", "move aside", "restore"} -> "clear"
    [] Pc(c) = "clear"                                      -> "littered"
    [] OTHER                                                -> "failed"

\* The step a call is at is answered with an error, and did nothing.
Refuse(c) ==
  /\ Running(c) /\ Pc(c) \notin {"redirected", "send", "resend"}
  /\ Go(c, OnError(c))
  /\ UNCHANGED <<objects, temp, aside>> /\ Keep

\* The connection or the process goes before the step.  A file that was
\* replaced already stays replaced.
Cut(c) ==
  /\ Running(c)
  /\ call' = [call EXCEPT ![c] = [@ EXCEPT !.pc = IF Pc(c) = "remove old" THEN "ok" ELSE "failed",
                                           !.cut = TRUE]]
  /\ UNCHANGED <<objects, temp, aside>> /\ Keep

AfterCut(f) == IF f # Absent /\ ~f.synced THEN [f EXCEPT !.data = Partial] ELSE f

\* The host of a local repository stops: what was not synced is lost.
PowerCut ==
  /\ kind = "local" /\ cuts < MaxCuts
  /\ cuts' = cuts + 1
  /\ objects' = [p \in Paths |-> AfterCut(objects[p])]
  /\ temp' = [c \in Calls |-> AfterCut(temp[c])]
  /\ call' = [c \in Calls |-> IF Running(c) THEN [call[c] EXCEPT !.pc = "failed", !.cut = TRUE]
                              ELSE call[c]]
  /\ UNCHANGED <<kind, aside, region>>

AllEnded == (\A c \in Calls : Pc(c) \in Ended) /\ UNCHANGED vars

FileStep(c) ==
  \/ OpenSource(c) \/ Create(c) \/ Write(c) \/ Sync(c) \/ RenameOver(c)
  \/ RenameNew(c) \/ MoveAside(c) \/ NothingToMove(c) \/ TakePlace(c) \/ Restore(c)
  \/ RemoveOld(c) \/ Clear(c) \/ Remove(c) \/ StatFile(c)
  \/ CopyInPlace(c) \/ CopyFinish(c) \/ CopyLeft(c) \/ CopyAlone(c)

BucketStep(c) ==
  \/ Send(c) \/ Redirected(c) \/ UseRegion(c)
  \/ PutObject(c) \/ CommitTruncated(c) \/ DeleteObject(c) \/ HeadObject(c) \/ CopyObject(c)

Next == \/ \E c \in Calls : Begin(c) \/ FileStep(c) \/ BucketStep(c) \/ Refuse(c) \/ Cut(c)
        \/ PowerCut
        \/ AllEnded

Spec == Init /\ [][Next]_vars

----------------------------------------------------------------------------
BackendTypeOK ==
  /\ kind \in Kinds /\ region \in Regions /\ cuts \in Nat
  /\ objects \in [Paths -> Files \cup {Absent}]
  /\ temp \in [Calls -> Files \cup {Absent}]
  /\ aside \in [Calls -> Files \cup {Absent}]
  /\ call \in [Calls -> [pc : Places, ask : Requests, data : Data, todo : Seq(Ops),
                         at : Regions, body : {"whole", "spent"}, cut : BOOLEAN]]

Status(c) == CASE Pc(c) \in {"idle", "ok", "missing"}               -> Pc(c)
               [] Pc(c) = "remove old"                              -> "ok"
               [] Pc(c) \in {"failed", "misdirected", "littered", "copying alone"} -> "failed"
               [] OTHER                                             -> "pending"

Store == INSTANCE ObjectStore WITH
  objects <- [p \in Paths |-> IF objects[p] = Absent THEN Absent ELSE objects[p].data],
  status  <- [c \in Calls |-> Status(c)],
  request <- [c \in Calls |-> [op |-> Ask(c).op, path |-> Dst(c), src |-> Src(c),
                               data |-> IF Pc(c) = "idle" THEN Ask(c).data ELSE call[c].data]]

\* The steps after which a client reads what no call asked for: cp writing in
\* place, the two renames of plain SFTP, and the object GCS makes of what was
\* read when reading fails.
Departs(c) == \/ CopyInPlace(c) \/ CopyAlone(c) \/ (CopyFinish(c) /\ Overtaken(c))
              \/ MoveAside(c) \/ Restore(c)
              \/ CommitTruncated(c)

\* Every call on every backend takes effect in one step or not at all, whatever
\* runs beside it and wherever it is cut short, except by the steps Departs
\* names (local.go:84, sftp.go:180, local.go:130; Execute relies on it).
StoreCallsAtomic ==
  Store!Init /\ [][(\E c \in Calls : Departs(c)) \/ Store!Next]_(Store!absVars)

\* A file no call wrote whole: of a Put that GCS closed before its end, and
\* failed, or of a copy of it; of a cp over SFTP.
Torn(f) ==
  /\ f.data = Partial
  /\ \/ kind = "gcs" /\ (Ask(f.by).op = "put" => Pc(f.by) = "failed")
     \/ kind \in {"posix", "plain"} /\ Ask(f.by).op = "copy"

\* What p may hold: the file it had at first, or the one a Put or a copy onto it
\* made.
Rightful(p, f) ==
  \/ f.by = None /\ f.data = InitialData[p]
  \/ /\ f.by \in Calls /\ Dst(f.by) = p
     /\ \/ Ask(f.by).op = "put" /\ f.data = Ask(f.by).data
        \/ Ask(f.by).op = "copy" /\ f.data \in Contents
        \/ Torn(f)

\* The files that can still be had of p, in place or moved aside.
FilesOf(p) == ({objects[p]} \cup {aside[c] : c \in {d \in Calls : Dst(d) = p}}) \ {Absent}

\* A Delete that was carried out, or whose answer was lost.
Deleted(p) == \E c \in Calls : Ask(c).op = "delete" /\ Dst(c) = p /\ (Pc(c) = "ok" \/ call[c].cut)

\* However a Put fails, the old file or the new one can be had, in place or moved
\* aside, unless a Delete took it; and what can be had is whole, but for what
\* Torn names (sftp.go:348-355, local.go:84).
PreviousKept ==
  \A p \in Paths : /\ InitialData[p] # Absent => FilesOf(p) # {} \/ Deleted(p)
                   /\ \A f \in FilesOf(p) : Rightful(p, f)

\* A call that came to its own end leaves no temporary file beside the packages,
\* unless the removal of it was itself refused: that error is ignored
\* (local.go:90, sftp.go:194-202).
TempsCleared == \A c \in Calls : Pc(c) \in Ended \ {"littered"} /\ ~call[c].cut => temp[c] = Absent

\* The checksum recorded beside an object is that of its content, but for the
\* objects CommitTruncated made and the copies of them: Hash plays it back
\* (s3.go:390-393, gcs.go:132-134).
RecordedTrue ==
  \A p \in Paths : objects[p] # Absent /\ objects[p].sum # None =>
    objects[p].data \in {objects[p].sum} \cup (IF kind = "gcs" THEN {Partial} ELSE {})
=============================================================================
