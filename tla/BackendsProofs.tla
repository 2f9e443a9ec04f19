--------------------------- MODULE BackendsProofs ---------------------------
(***************************************************************************)
(* Proofs about Backends, for any number of calls, paths and contents:     *)
(* BackendTypeOK is an invariant; the old file of a path or a new one can  *)
(* be had whatever fails, and whole but for what Torn names; what ends     *)
(* leaves no temporary file that it was let remove; a recorded checksum is *)
(* true; and every step of every backend is a step of ObjectStore, or one  *)
(* of those that Departs names.                                            *)
(***************************************************************************)
EXTENDS Backends, TLAPS

Call == [pc : Places, ask : Requests, data : Data, todo : Seq(Ops),
         at : Regions, body : {"whole", "spent"}, cut : BOOLEAN]

\* How a step of c moves it: c comes to be at l with the same request, and the
\* other calls stay as they are.
Moves(c, l) == /\ call' \in [Calls -> Call]
               /\ call'[c].pc = l /\ call'[c].ask = call[c].ask
               /\ call[c].cut => call'[c].cut
               /\ \A d \in Calls \ {c} : call'[d] = call[d]

LEMMA CallTyped ==
  ASSUME BackendTypeOK, NEW c \in Calls
  PROVE  /\ call[c] \in Call /\ call[c].data \in Data /\ call[c].todo \in Seq(Ops)
         /\ Ask(c) \in Requests /\ Ask(c).op \in Ops
         /\ Dst(c) \in Paths /\ Src(c) \in Paths
<1>1. call[c] \in Call
  BY DEF BackendTypeOK, Call
<1>2. call[c].data \in Data /\ call[c].todo \in Seq(Ops) /\ Ask(c) \in Requests
  BY <1>1 DEF Call, Ask
<1>3. Ask(c) \in [op : Ops, path : Paths, src : Paths, data : Contents \cup {None}]
  BY <1>2, RequestAssumption
<1>4. QED
  BY <1>1, <1>2, <1>3 DEF Dst, Src

\* Go and Then, the two ways most steps end, are moves.
LEMMA GoMoves ==
  ASSUME BackendTypeOK, NEW c \in Calls, NEW l \in Places, Go(c, l)
  PROVE  Moves(c, l) /\ call'[c].todo = call[c].todo
BY DEF BackendTypeOK, Go, Moves, Call

LEMMA SetMoves ==
  ASSUME BackendTypeOK, NEW c \in Calls, NEW r \in Call, r.ask = call[c].ask,
         call[c].cut => r.cut, call' = [call EXCEPT ![c] = r]
  PROVE  Moves(c, r.pc) /\ call'[c] = r
BY DEF BackendTypeOK, Moves, Call

LEMMA ThenMoves ==
  ASSUME BackendTypeOK, NEW c \in Calls, NEW l \in Places, Then(c, l)
  PROVE  /\ Moves(c, l) \/ (Moves(c, "failed") /\ call'[c].cut)
         /\ call'[c].todo = call[c].todo
<1>1. CASE Go(c, l)
  BY <1>1, GoMoves
<1>2. CASE call' = [call EXCEPT ![c].pc = "failed", ![c].cut = TRUE]
  <2>1. DEFINE r == [call[c] EXCEPT !.pc = "failed", !.cut = TRUE]
  <2>2. r \in Call /\ r.ask = call[c].ask /\ r.pc = "failed" /\ r.todo = call[c].todo /\ r.cut
    BY DEF BackendTypeOK, Call, Places, Ended
  <2>3. call' = [call EXCEPT ![c] = r]
    BY <1>2
  <2>4. QED
    BY <2>2, <2>3, SetMoves
<1>3. QED
  BY <1>1, <1>2 DEF Then

\* An answer ends the call, or is that of the first of two requests.
LEMMA AnsweredMoves ==
  ASSUME BackendTypeOK, NEW c \in Calls, call[c].todo # <<>>, Answered(c)
  PROVE  \/ /\ Moves(c, "ok") \/ (Moves(c, "failed") /\ call'[c].cut)
            /\ call'[c].todo = call[c].todo
         \/ /\ Moves(c, "send") /\ Len(call[c].todo) # 1
            /\ call'[c].todo = Tail(call[c].todo)
<1>1. CASE Len(call[c].todo) = 1
  <2>1. Then(c, "ok")
    BY <1>1 DEF Answered
  <2>2. "ok" \in Places
    BY DEF Places, Ended
  <2>3. QED
    BY <2>1, <2>2, ThenMoves
<1>2. CASE Len(call[c].todo) # 1
  <2>1. DEFINE r == [call[c] EXCEPT !.pc = "send", !.todo = Tail(call[c].todo)]
  <2>2. call[c] \in Call /\ call[c].todo \in Seq(Ops)
    BY DEF BackendTypeOK, Call
  <2>3. Tail(call[c].todo) \in Seq(Ops)
    BY <2>2
  <2>4. /\ r \in Call /\ r.ask = call[c].ask /\ r.pc = "send"
        /\ r.todo = Tail(call[c].todo) /\ r.cut = call[c].cut
    BY <2>2, <2>3 DEF Call, Places, Ended
  <2>5. call' = [call EXCEPT ![c] = r]
    BY <1>2 DEF Answered
  <2>6. QED
    BY <1>2, <2>4, <2>5, SetMoves
<1>3. QED
  BY <1>1, <1>2

----------------------------------------------------------------------------
\* Where a call has a temporary file, and where it holds a file it moved aside.
Writing   == {"write", "sync", "rename", "move aside", "take its place"}
Replacing == {"take its place", "restore"}
OnServer  == {"send", "sent", "redirected", "resend", "resent"}

TempThere  == \A c \in Calls : Pc(c) \in Writing => temp[c] # Absent
AsideThere == \A c \in Calls : Pc(c) \in Replacing => aside[c] # Absent
IdleEmpty  == \A c \in Calls : Pc(c) = "idle" => aside[c] = Absent /\ ~call[c].cut
Removing   == \A c \in Calls : Pc(c) = "remove" => Ask(c).op = "delete"
TodoOK     == \A c \in Calls : Pc(c) # "idle" => call[c].todo \in {Parts(Ask(c)), <<"copy">>}

\* A file of p is in place, or deleted, or held by a call that has not put
\* another one in its place: a call about to remove the old file does not count.
Held(p)    == \E c \in Calls : /\ aside[c] # Absent /\ Dst(c) = p
                               /\ Pc(c) \notin {"idle", "remove old"}
Kept == \A p \in Paths : InitialData[p] # Absent => objects[p] # Absent \/ Deleted(p) \/ Held(p)

KInv == BackendTypeOK /\ TempThere /\ AsideThere /\ IdleEmpty /\ Removing /\ TodoOK /\ Kept

\* What one step of c has to show for KInv to hold after it.
LEMMA StepKeeps ==
  ASSUME KInv, NEW c \in Calls, NEW l \in Places, Moves(c, l),
         Pc(c) \notin {"idle", "ok"}, l \notin {"idle", "remove"},
         call'[c].todo \in {Parts(Ask(c)), <<"copy">>},
         objects' \in [Paths -> Files \cup {Absent}],
         temp' \in [Calls -> Files \cup {Absent}],
         aside' \in [Calls -> Files \cup {Absent}],
         kind' = kind, region' \in Regions, cuts' = cuts,
         \A d \in Calls \ {c} : temp'[d] = temp[d] /\ aside'[d] = aside[d],
         l \in Writing => temp'[c] # Absent,
         l \in Replacing => aside'[c] # Absent,
         \A p \in Paths : objects[p] # Absent /\ objects'[p] = Absent =>
           /\ p = Dst(c)
           /\ \/ Ask(c).op = "delete" /\ (l = "ok" \/ call'[c].cut)
              \/ aside'[c] # Absent /\ l # "remove old",
         aside[c] # Absent /\ Pc(c) # "remove old" =>
           (aside'[c] # Absent /\ l # "remove old") \/ objects'[Dst(c)] # Absent
  PROVE  KInv'
<1>1. BackendTypeOK'
  BY DEF KInv, BackendTypeOK, Moves, Call
<1>2. TempThere'
  BY DEF KInv, TempThere, Moves, Pc
<1>3. AsideThere'
  BY DEF KInv, AsideThere, Moves, Pc
<1>4. IdleEmpty'
  BY DEF KInv, IdleEmpty, Moves, Pc
<1>5. Removing'
  BY DEF KInv, Removing, Moves, Pc, Ask
<1>6. TodoOK'
  <2>1. call'[c].todo \in {Parts(Ask(c)'), <<"copy">>}
    BY DEF Moves, Ask
  <2>2. \A d \in Calls \ {c} : call'[d] = call[d]
    BY DEF Moves
  <2>3. QED
    BY <2>1, <2>2 DEF KInv, TodoOK, Pc, Ask, Parts
<1>7. Kept'
  <2> SUFFICES ASSUME NEW p \in Paths, InitialData[p] # Absent, objects'[p] = Absent
               PROVE  Deleted(p)' \/ Held(p)'
    BY DEF Kept
  <2>1. \A d \in Calls : /\ Ask(d)' = Ask(d) /\ Dst(d)' = Dst(d)
                         /\ d # c => Pc(d)' = Pc(d)
    BY DEF Moves, Ask, Dst, Pc
  <2>2. Pc(c)' = l
    BY DEF Moves, Pc
  <2>3. ASSUME Deleted(p) PROVE Deleted(p)'
    <3>1. PICK d \in Calls : /\ Ask(d).op = "delete" /\ Dst(d) = p
                             /\ Pc(d) = "ok" \/ call[d].cut
      BY <2>3 DEF Deleted
    <3>2. Pc(d)' = "ok" \/ call'[d].cut
      BY <3>1, <2>1, <2>2 DEF Moves
    <3>3. QED
      BY <3>1, <3>2, <2>1 DEF Deleted
  <2>4. ASSUME Held(p) PROVE Held(p)'
    <3>1. PICK d \in Calls : /\ aside[d] # Absent /\ Dst(d) = p
                             /\ Pc(d) \notin {"idle", "remove old"}
      BY <2>4 DEF Held
    <3>2. aside'[d] # Absent /\ Pc(d)' \notin {"idle", "remove old"}
      BY <3>1, <2>1, <2>2
    <3>3. QED
      BY <3>1, <3>2, <2>1 DEF Held
  <2>5. CASE objects[p] # Absent
    <3>1. p = Dst(c)
      BY <2>5
    <3>2. CASE Ask(c).op = "delete" /\ (l = "ok" \/ call'[c].cut)
      BY <3>1, <3>2, <2>1, <2>2 DEF Deleted
    <3>3. CASE aside'[c] # Absent /\ l # "remove old"
      BY <3>1, <3>3, <2>1, <2>2 DEF Held
    <3>4. QED
      BY <2>5, <3>2, <3>3
  <2>6. CASE objects[p] = Absent
    BY <2>3, <2>4, <2>6 DEF KInv, Kept
  <2>7. QED
    BY <2>5, <2>6
<1>8. QED
  BY <1>1, <1>2, <1>3, <1>4, <1>5, <1>6, <1>7 DEF KInv

\* A step that changes neither an object nor a file moved aside.
LEMMA QuietKeeps ==
  ASSUME KInv, NEW c \in Calls, NEW l \in Places, Moves(c, l),
         call'[c].todo = call[c].todo, Pc(c) \notin {"idle", "ok"}, l \notin {"idle", "remove"},
         objects' = objects, aside' = aside, kind' = kind, region' \in Regions, cuts' = cuts,
         temp' \in [Calls -> Files \cup {Absent}],
         \A d \in Calls \ {c} : temp'[d] = temp[d],
         l \in Writing => temp'[c] # Absent,
         l \in Replacing => Pc(c) \in Replacing,
         l = "remove old" => Pc(c) = "remove old"
  PROVE  KInv'
<1>1. /\ objects' \in [Paths -> Files \cup {Absent}]
      /\ aside' \in [Calls -> Files \cup {Absent}]
  BY DEF KInv, BackendTypeOK
<1>2. call'[c].todo \in {Parts(Ask(c)), <<"copy">>}
  BY DEF KInv, TodoOK
<1>3. l \in Replacing => aside'[c] # Absent
  BY DEF KInv, AsideThere
<1>4. QED
  BY <1>1, <1>2, <1>3, StepKeeps

\* The same of a step that leaves the temporary files alone too.
LEMMA StillKeeps ==
  ASSUME KInv, NEW c \in Calls, NEW l \in Places, Moves(c, l),
         call'[c].todo = call[c].todo, Pc(c) \notin {"idle", "ok"}, l \notin {"idle", "remove"},
         UNCHANGED <<objects, temp, aside>>, Keep,
         l \in Writing => Pc(c) \in Writing,
         l \in Replacing => Pc(c) \in Replacing,
         l = "remove old" => Pc(c) = "remove old"
  PROVE  KInv'
<1>1. temp' \in [Calls -> Files \cup {Absent}] /\ region' \in Regions
  BY DEF KInv, BackendTypeOK, Keep
<1>2. l \in Writing => temp'[c] # Absent
  BY DEF KInv, TempThere
<1>3. QED
  BY <1>1, <1>2, QuietKeeps DEF Keep

LEMMA InitKInv == Init => KInv
<1> SUFFICES ASSUME Init PROVE KInv
  OBVIOUS
<1>1. (CHOOSE r \in Requests : TRUE) \in Requests
  BY RequestAssumption
<1>2. objects \in [Paths -> Files \cup {Absent}]
  BY RequestAssumption DEF Init, Files, Data, Object
<1>3. BackendTypeOK
  <2>1. \A c \in Calls : call[c] \in [pc : Places, ask : Requests, data : Data, todo : Seq(Ops),
                                      at : Regions, body : {"whole", "spent"}, cut : BOOLEAN]
    BY <1>1, RequestAssumption DEF Init, Places, Ended, Data
  <2>2. kind \in Kinds /\ region \in Regions /\ cuts \in Nat
    BY RequestAssumption DEF Init
  <2>3. QED
    BY <1>2, <2>1, <2>2 DEF Init, BackendTypeOK
<1>4. \A c \in Calls : Pc(c) = "idle" /\ aside[c] = Absent /\ ~call[c].cut
  BY DEF Init, Pc
<1>5. \A p \in Paths : InitialData[p] # Absent => objects[p] # Absent
  <2> SUFFICES ASSUME NEW p \in Paths, InitialData[p] # Absent PROVE objects[p] # Absent
    OBVIOUS
  <2>1. objects[p] \in Files
    BY RequestAssumption DEF Init, Files, Data, Object
  <2>2. QED
    BY <2>1, RequestAssumption
<1>6. QED
  BY <1>3, <1>4, <1>5 DEF KInv, TempThere, AsideThere, IdleEmpty, Removing, TodoOK, Kept,
     Writing, Replacing

\* A call that begins holds nothing, so no file is lost with what it asked before.
LEMMA BeginKeeps == ASSUME KInv, NEW c \in Calls, Begin(c) PROVE KInv'
<1>1. PICK r \in Requests :
        call' = [call EXCEPT ![c] = [@ EXCEPT !.pc = Entry(r), !.ask = r, !.data = r.data,
                                              !.todo = Parts(r)]]
  BY DEF Begin
<1>2. r.op \in Ops /\ r.data \in Data
  BY RequestAssumption DEF Data
<1>3. /\ Entry(r) \in Places \ (Writing \cup Replacing \cup {"idle", "remove old"})
      /\ Entry(r) = "remove" => r.op = "delete"
  BY <1>2 DEF Entry, Places, Ended, Writing, Replacing, Ops
<1>4. Parts(r) \in Seq(Ops)
  <2>1. <<"stat", "copy">> \in Seq(Ops)
    BY DEF Ops
  <2>2. <<r.op>> \in Seq(Ops)
    BY <1>2
  <2>3. QED
    BY <2>1, <2>2 DEF Parts
<1>5. DEFINE n == [call[c] EXCEPT !.pc = Entry(r), !.ask = r, !.data = r.data, !.todo = Parts(r)]
<1>6. /\ n \in Call
      /\ n.pc = Entry(r) /\ n.ask = r /\ n.todo = Parts(r)
  BY <1>2, <1>3, <1>4 DEF KInv, BackendTypeOK, Call
<1>7. call' = [call EXCEPT ![c] = n]
  BY <1>1
<1>8. /\ call' \in [Calls -> Call] /\ call'[c] = n
      /\ \A d \in Calls \ {c} : call'[d] = call[d]
  BY <1>6, <1>7 DEF KInv, BackendTypeOK, Call
<1> HIDE DEF n
<1>9. UNCHANGED <<kind, objects, temp, aside, region, cuts>> /\ Pc(c) = "idle"
  BY DEF Begin
<1>10. BackendTypeOK'
  BY <1>8, <1>9 DEF KInv, BackendTypeOK, Call
<1>11. TempThere' /\ AsideThere' /\ IdleEmpty'
  BY <1>3, <1>6, <1>8, <1>9 DEF KInv, TempThere, AsideThere, IdleEmpty, Pc
<1>12. Removing' /\ TodoOK'
  BY <1>3, <1>6, <1>8, <1>9 DEF KInv, Removing, TodoOK, Pc, Ask, Parts
<1>13. Kept'
  <2> SUFFICES ASSUME NEW p \in Paths, InitialData[p] # Absent, objects'[p] = Absent
               PROVE  Deleted(p)' \/ Held(p)'
    BY DEF Kept
  <2>1. Deleted(p) \/ Held(p)
    BY <1>9 DEF KInv, Kept
  <2>2. \A d \in Calls : Pc(d) # "idle" => call'[d] = call[d] /\ aside'[d] = aside[d]
    BY <1>8, <1>9
  <2>3. \A d \in Calls : call[d].cut => Pc(d) # "idle"
    BY DEF KInv, IdleEmpty
  <2>4. QED
    BY <2>1, <2>2, <2>3 DEF Deleted, Held, Ask, Dst, Pc
<1>14. QED
  BY <1>10, <1>11, <1>12, <1>13 DEF KInv

----------------------------------------------------------------------------
(* Files.                                                                  *)

LEMMA OpenSourceKeeps == ASSUME KInv, NEW c \in Calls, OpenSource(c) PROVE KInv'
<1>1. Pc(c) = "open" /\ UNCHANGED <<objects, temp, aside>> /\ Keep
  BY DEF OpenSource
<1>2. CASE Go(c, "missing")
  <2>1. "missing" \in Places
    BY DEF Places, Ended
  <2>2. Moves(c, "missing") /\ call'[c].todo = call[c].todo
    BY <1>2, <2>1, GoMoves DEF KInv
  <2>3. QED
    BY <1>1, <2>1, <2>2, StillKeeps DEF Writing, Replacing
<1>3. CASE objects[Src(c)] # Absent
  <2>1. DEFINE r == [call[c] EXCEPT !.pc = "create", !.data = objects[Src(c)].data]
  <2>2. call[c] \in Call /\ Src(c) \in Paths
    BY RequestAssumption DEF KInv, BackendTypeOK, Call, Src, Ask
  <2>3. objects[Src(c)].data \in Data
    BY <1>3, <2>2 DEF KInv, BackendTypeOK, Files
  <2>4. r \in Call /\ r.ask = call[c].ask /\ r.pc = "create" /\ r.todo = call[c].todo /\ (call[c].cut => r.cut)
    BY <2>2, <2>3 DEF Call, Places, Ended
  <2>5. call' = [call EXCEPT ![c] = r]
    BY <1>3 DEF OpenSource
  <2>6. Moves(c, "create") /\ call'[c].todo = call[c].todo
    BY <2>4, <2>5, SetMoves DEF KInv
  <2>7. "create" \in Places
    BY DEF Places
  <2>8. QED
    BY <1>1, <2>6, <2>7, StillKeeps DEF Writing, Replacing
<1>4. QED
  BY <1>2, <1>3 DEF OpenSource

\* Create, Write and Sync: the temporary file of c is a file afterwards.
LEMMA WritesKeep ==
  ASSUME KInv, NEW c \in Calls, Create(c) \/ Write(c) \/ Sync(c)
  PROVE  KInv'
<1>1. call[c] \in Call /\ temp[c] \in Files \cup {Absent}
  BY DEF KInv, BackendTypeOK, Call
<1>2. /\ Pc(c) \in {"create", "write", "sync"}
      /\ UNCHANGED <<objects, aside>> /\ Keep
  BY DEF Create, Write, Sync
<1>3. PICK l \in {"write", "sync", "rename"} : Go(c, l)
  BY DEF Create, Write, Sync
<1>4. l \in Places
  BY DEF Places
<1>5. Moves(c, l) /\ call'[c].todo = call[c].todo
  BY <1>3, <1>4, GoMoves DEF KInv
<1>6. \E f \in Files : temp' = [temp EXCEPT ![c] = f]
  <2>1. CASE Create(c)
    <3>1. Object(Partial, None, FALSE, c) \in Files
      BY DEF Object, Files, Data
    <3>2. QED
      BY <2>1, <3>1 DEF Create
  <2>2. CASE Write(c)
    <3>1. temp[c] \in Files /\ call[c].data \in Data
      BY <1>1, <2>2 DEF KInv, TempThere, Writing, Write, Call
    <3>2. [temp[c] EXCEPT !.data = call[c].data] \in Files
      BY <3>1 DEF Files
    <3>3. temp' = [temp EXCEPT ![c] = [temp[c] EXCEPT !.data = call[c].data]]
      BY <2>2 DEF Write
    <3>4. QED
      BY <3>2, <3>3
  <2>3. CASE Sync(c)
    <3>1. temp[c] \in Files
      BY <1>1, <2>3 DEF KInv, TempThere, Writing, Sync
    <3>2. [temp[c] EXCEPT !.synced = TRUE] \in Files
      BY <3>1 DEF Files
    <3>3. temp' = [temp EXCEPT ![c] = [temp[c] EXCEPT !.synced = TRUE]]
      BY <2>3 DEF Sync
    <3>4. QED
      BY <3>2, <3>3
  <2>4. QED
    BY <2>1, <2>2, <2>3
<1>7. /\ temp' \in [Calls -> Files \cup {Absent}]
      /\ temp'[c] # Absent
      /\ \A d \in Calls \ {c} : temp'[d] = temp[d]
  BY <1>6, RequestAssumption DEF KInv, BackendTypeOK
<1>8. region' \in Regions
  BY <1>2 DEF KInv, BackendTypeOK, Keep
<1>9. QED
  BY <1>2, <1>4, <1>5, <1>7, <1>8, QuietKeeps DEF Keep, Replacing

\* The renames that put the temporary file in place.
LEMMA PlacesKeep ==
  ASSUME KInv, NEW c \in Calls, NEW m \in {"ok", "remove old"},
         Pc(c) \in {"rename", "take its place"}, Place(c), Then(c, m), UNCHANGED aside, Keep,
         Pc(c) = "take its place" \/ m = "ok"
  PROVE  KInv'
<1>1. m \in Places /\ "failed" \in Places
  BY DEF Places, Ended
<1>2. PICK l \in {m, "failed"} : Moves(c, l)
  BY <1>1, ThenMoves DEF KInv
<1>3. call'[c].todo \in {Parts(Ask(c)), <<"copy">>}
  BY <1>1, ThenMoves DEF KInv, TodoOK
<1>4. temp[c] \in Files /\ Dst(c) \in Paths
  BY CallTyped DEF KInv, TempThere, Writing, BackendTypeOK
<1>5. /\ objects' \in [Paths -> Files \cup {Absent}]
      /\ objects'[Dst(c)] # Absent
      /\ \A p \in Paths \ {Dst(c)} : objects'[p] = objects[p]
  BY <1>4, RequestAssumption DEF Place, KInv, BackendTypeOK
<1>6. /\ temp' \in [Calls -> Files \cup {Absent}]
      /\ \A d \in Calls \ {c} : temp'[d] = temp[d]
  BY DEF Place, KInv, BackendTypeOK
<1>7. aside' \in [Calls -> Files \cup {Absent}] /\ region' \in Regions
  BY DEF KInv, BackendTypeOK, Keep
<1>8. l \notin Writing /\ l \notin Replacing /\ l \notin {"idle", "remove"} /\ l \in Places
  BY <1>1 DEF Writing, Replacing
<1>9. QED
  BY <1>2, <1>3, <1>4, <1>5, <1>6, <1>7, <1>8, StepKeeps DEF Keep

LEMMA RenameOverKeeps == ASSUME KInv, NEW c \in Calls, RenameOver(c) PROVE KInv'
BY PlacesKeep DEF RenameOver

LEMMA RenameNewKeeps == ASSUME KInv, NEW c \in Calls, RenameNew(c) PROVE KInv'
<1>1. CASE objects[Dst(c)] = Absent
  BY <1>1, PlacesKeep DEF RenameNew
<1>2. CASE objects[Dst(c)] # Absent
  <2>1. "move aside" \in Places
    BY DEF Places
  <2>2. Go(c, "move aside") /\ UNCHANGED <<objects, temp, aside>> /\ Keep /\ Pc(c) = "rename"
    BY <1>2 DEF RenameNew
  <2>3. Moves(c, "move aside") /\ call'[c].todo = call[c].todo
    BY <2>1, <2>2, GoMoves DEF KInv
  <2>4. QED
    BY <2>1, <2>2, <2>3, StillKeeps DEF Writing, Replacing
<1>3. QED
  BY <1>1, <1>2

LEMMA TakePlaceKeeps == ASSUME KInv, NEW c \in Calls, TakePlace(c) PROVE KInv'
<1>1. CASE objects[Dst(c)] = Absent
  BY <1>1, PlacesKeep DEF TakePlace
<1>2. CASE objects[Dst(c)] # Absent
  <2>1. "restore" \in Places
    BY DEF Places
  <2>2. Go(c, "restore") /\ UNCHANGED <<objects, temp, aside>> /\ Keep /\ Pc(c) = "take its place"
    BY <1>2 DEF TakePlace
  <2>3. Moves(c, "restore") /\ call'[c].todo = call[c].todo
    BY <2>1, <2>2, GoMoves DEF KInv
  <2>4. QED
    BY <2>1, <2>2, <2>3, StillKeeps DEF Writing, Replacing
<1>3. QED
  BY <1>1, <1>2

LEMMA MoveAsideKeeps == ASSUME KInv, NEW c \in Calls, MoveAside(c) PROVE KInv'
<1>1. "take its place" \in Places /\ "failed" \in Places
  BY DEF Places, Ended
<1>2. PICK l \in {"take its place", "failed"} : Moves(c, l)
  BY <1>1, ThenMoves DEF KInv, MoveAside
<1>3. call'[c].todo \in {Parts(Ask(c)), <<"copy">>}
  BY <1>1, ThenMoves DEF KInv, TodoOK, MoveAside
<1>4. Dst(c) \in Paths
  BY CallTyped DEF KInv
<1>5. /\ objects' \in [Paths -> Files \cup {Absent}]
      /\ \A p \in Paths \ {Dst(c)} : objects'[p] = objects[p]
  BY <1>4 DEF MoveAside, KInv, BackendTypeOK
<1>6. /\ aside' \in [Calls -> Files \cup {Absent}]
      /\ aside'[c] # Absent
      /\ \A d \in Calls \ {c} : aside'[d] = aside[d]
  BY <1>4 DEF MoveAside, KInv, BackendTypeOK
<1>7. /\ temp' \in [Calls -> Files \cup {Absent}] /\ region' \in Regions
      /\ temp' = temp /\ Keep /\ Pc(c) = "move aside"
  BY DEF KInv, BackendTypeOK, Keep, MoveAside
<1>8. l \in Writing => temp'[c] # Absent
  BY <1>7 DEF KInv, TempThere, Writing
<1>9. l \in Places /\ l \notin {"idle", "remove", "remove old"}
  BY <1>1
<1>10. \A p \in Paths : objects[p] # Absent /\ objects'[p] = Absent => p = Dst(c)
  BY <1>5
<1>11. Pc(c) \notin {"idle", "ok"} /\ kind' = kind /\ cuts' = cuts
  BY <1>7 DEF Keep
<1>12. QED
  BY <1>2, <1>3, <1>5, <1>6, <1>7, <1>8, <1>9, <1>10, <1>11, StepKeeps

LEMMA RestoreKeeps == ASSUME KInv, NEW c \in Calls, Restore(c) PROVE KInv'
<1>1. "clear" \in Places /\ "failed" \in Places
  BY DEF Places, Ended
<1>2. PICK l \in {"clear", "failed"} : Moves(c, l)
  BY <1>1, ThenMoves DEF KInv, Restore
<1>3. call'[c].todo \in {Parts(Ask(c)), <<"copy">>}
  BY <1>1, ThenMoves DEF KInv, TodoOK, Restore
<1>4. Dst(c) \in Paths
  BY CallTyped DEF KInv
<1>5. aside[c] \in Files
  BY DEF KInv, AsideThere, Replacing, Restore, BackendTypeOK
<1>6. /\ objects' \in [Paths -> Files \cup {Absent}]
      /\ objects'[Dst(c)] # Absent
      /\ \A p \in Paths \ {Dst(c)} : objects'[p] = objects[p]
  BY <1>4, <1>5, RequestAssumption DEF Restore, KInv, BackendTypeOK
<1>7. /\ aside' \in [Calls -> Files \cup {Absent}]
      /\ \A d \in Calls \ {c} : aside'[d] = aside[d]
  BY DEF Restore, KInv, BackendTypeOK
<1>8. /\ temp' \in [Calls -> Files \cup {Absent}] /\ region' \in Regions
      /\ temp' = temp /\ Keep /\ Pc(c) = "restore"
  BY DEF KInv, BackendTypeOK, Keep, Restore
<1>9. l \notin Writing /\ l \notin Replacing /\ l \in Places /\ l \notin {"idle", "remove"}
  BY <1>1 DEF Writing, Replacing
<1>10. \A p \in Paths : objects[p] # Absent => objects'[p] # Absent
  BY <1>6
<1>11. QED
  BY <1>2, <1>3, <1>6, <1>7, <1>8, <1>9, <1>10, StepKeeps DEF Keep

\* The old file goes when the new one is in place: it is not the one Kept counts.
LEMMA RemoveOldKeeps == ASSUME KInv, NEW c \in Calls, RemoveOld(c) PROVE KInv'
<1>1. "ok" \in Places
  BY DEF Places, Ended
<1>2. Moves(c, "ok") /\ call'[c].todo = call[c].todo
  BY <1>1, GoMoves DEF KInv, RemoveOld
<1>3. call'[c].todo \in {Parts(Ask(c)), <<"copy">>}
  BY <1>2 DEF KInv, TodoOK, RemoveOld
<1>4. /\ aside' \in [Calls -> Files \cup {Absent}]
      /\ \A d \in Calls \ {c} : aside'[d] = aside[d]
  BY DEF RemoveOld, KInv, BackendTypeOK
<1>5. /\ temp' \in [Calls -> Files \cup {Absent}] /\ objects' \in [Paths -> Files \cup {Absent}]
      /\ region' \in Regions
      /\ UNCHANGED <<objects, temp>> /\ Keep /\ Pc(c) = "remove old"
  BY DEF KInv, BackendTypeOK, Keep, RemoveOld
<1>6. QED
  BY <1>1, <1>2, <1>3, <1>4, <1>5, StepKeeps DEF Keep, Writing, Replacing

LEMMA ClearKeeps == ASSUME KInv, NEW c \in Calls, Clear(c) PROVE KInv'
<1>1. "failed" \in Places
  BY DEF Places, Ended
<1>2. Moves(c, "failed") /\ call'[c].todo = call[c].todo
  BY <1>1, GoMoves DEF KInv, Clear
<1>3. /\ temp' \in [Calls -> Files \cup {Absent}]
      /\ \A d \in Calls \ {c} : temp'[d] = temp[d]
  BY DEF Clear, KInv, BackendTypeOK
<1>4. UNCHANGED <<objects, aside>> /\ Keep /\ region' \in Regions /\ Pc(c) = "clear"
  BY DEF KInv, BackendTypeOK, Keep, Clear
<1>5. QED
  BY <1>1, <1>2, <1>3, <1>4, QuietKeeps DEF Keep, Writing, Replacing

\* A deletion takes away only what its call asked it to.
LEMMA DeletesKeep ==
  ASSUME KInv, NEW c \in Calls, NEW l \in {"ok", "failed"}, Moves(c, l),
         call'[c].todo = call[c].todo, Pc(c) \notin {"idle", "ok", "remove old"},
         Ask(c).op = "delete", l = "ok" \/ call'[c].cut,
         objects' = [objects EXCEPT ![Dst(c)] = Absent],
         UNCHANGED <<temp, aside>>, Keep
  PROVE  KInv'
<1>1. l \in Places
  BY DEF Places, Ended
<1>2. call'[c].todo \in {Parts(Ask(c)), <<"copy">>}
  BY DEF KInv, TodoOK
<1>3. /\ objects' \in [Paths -> Files \cup {Absent}]
      /\ \A p \in Paths \ {Dst(c)} : objects'[p] = objects[p]
  BY CallTyped DEF KInv, BackendTypeOK
<1>4. /\ temp' \in [Calls -> Files \cup {Absent}] /\ aside' \in [Calls -> Files \cup {Absent}]
      /\ region' \in Regions
  BY DEF KInv, BackendTypeOK, Keep
<1>5. QED
  BY <1>1, <1>2, <1>3, <1>4, StepKeeps DEF Keep, Writing, Replacing

LEMMA RemoveKeeps == ASSUME KInv, NEW c \in Calls, Remove(c) PROVE KInv'
<1>1. "ok" \in Places /\ Pc(c) = "remove" /\ Ask(c).op = "delete"
  BY DEF Places, Ended, Remove, KInv, Removing
<1>2. /\ Moves(c, "ok") \/ (Moves(c, "failed") /\ call'[c].cut)
      /\ call'[c].todo = call[c].todo
  BY <1>1, ThenMoves DEF KInv, Remove
<1>3. QED
  BY <1>1, <1>2, DeletesKeep DEF Remove

\* A step that takes no object away, outside the renames.
LEMMA WritesInPlaceKeep ==
  ASSUME KInv, NEW c \in Calls, NEW l \in Places, Moves(c, l), Pc(c) \notin {"idle", "ok"},
         l \notin Writing \cup Replacing \cup {"idle", "remove", "remove old"},
         call'[c].todo \in {Parts(Ask(c)), <<"copy">>},
         objects' \in [Paths -> Files \cup {Absent}],
         \A p \in Paths : objects[p] # Absent => objects'[p] # Absent,
         UNCHANGED <<temp, aside, kind, cuts>>, region' \in Regions
  PROVE  KInv'
<1>1. temp' \in [Calls -> Files \cup {Absent}] /\ aside' \in [Calls -> Files \cup {Absent}]
  BY DEF KInv, BackendTypeOK
<1>2. QED
  BY <1>1, StepKeeps

LEMMA NothingToMoveKeeps == ASSUME KInv, NEW c \in Calls, NothingToMove(c) PROVE KInv'
<1>1. "clear" \in Places
  BY DEF Places
<1>2. Moves(c, "clear") /\ call'[c].todo = call[c].todo
  BY <1>1, GoMoves DEF KInv, NothingToMove
<1>3. QED
  BY <1>1, <1>2, StillKeeps DEF NothingToMove, Writing, Replacing

LEMMA StatFileKeeps == ASSUME KInv, NEW c \in Calls, StatFile(c) PROVE KInv'
<1>1. PICK l \in {"missing", "copy", "ok"} : Go(c, l)
  BY DEF StatFile
<1>2. l \in Places
  BY DEF Places, Ended
<1>3. Moves(c, l) /\ call'[c].todo = call[c].todo
  BY <1>1, <1>2, GoMoves DEF KInv
<1>4. QED
  BY <1>2, <1>3, StillKeeps DEF StatFile, Writing, Replacing

LEMMA CopyInPlaceKeeps == ASSUME KInv, NEW c \in Calls, CopyInPlace(c) PROVE KInv'
<1>1. DEFINE r == [call[c] EXCEPT !.pc = "copying", !.data = objects[Src(c)].data]
<1>2. call[c] \in Call /\ Src(c) \in Paths /\ Dst(c) \in Paths
  BY CallTyped DEF KInv
<1>3. objects[Src(c)].data \in Data
  BY <1>2 DEF KInv, BackendTypeOK, Files, CopyInPlace
<1>4. r \in Call /\ r.ask = call[c].ask /\ r.pc = "copying" /\ r.todo = call[c].todo /\ (call[c].cut => r.cut)
  BY <1>2, <1>3 DEF Call, Places, Ended
<1>5. call' = [call EXCEPT ![c] = r]
  BY DEF CopyInPlace
<1>6. Moves(c, "copying") /\ call'[c].todo = call[c].todo
  BY <1>4, <1>5, SetMoves DEF KInv
<1> HIDE DEF r
<1>7. Object(Partial, None, TRUE, c) \in Files
  BY DEF Object, Files, Data
<1>8. /\ objects' \in [Paths -> Files \cup {Absent}]
      /\ \A p \in Paths : objects[p] # Absent => objects'[p] # Absent
  BY <1>2, <1>7, RequestAssumption DEF CopyInPlace, KInv, BackendTypeOK
<1>9. Pc(c) \notin {"idle", "ok"} /\ call'[c].todo \in {Parts(Ask(c)), <<"copy">>}
  BY <1>6 DEF KInv, TodoOK, CopyInPlace
<1>10. UNCHANGED <<temp, aside, kind, cuts>> /\ region' \in Regions
  BY DEF CopyInPlace, Keep, KInv, BackendTypeOK
<1>11. /\ "copying" \in Places
       /\ "copying" \notin Writing \cup Replacing \cup {"idle", "remove", "remove old"}
  BY DEF Places, Writing, Replacing
<1>12. QED
  BY <1>6, <1>8, <1>9, <1>10, <1>11, WritesInPlaceKeep

\* The rest of what cp writes goes into a file that is there, or nowhere.
LEMMA CopyRestKeeps ==
  ASSUME KInv, NEW c \in Calls, NEW l \in {"ok", "failed"}, Moves(c, l),
         call'[c].todo = call[c].todo, Pc(c) \in {"copying", "copying alone"},
         CopyRest(c), UNCHANGED <<temp, aside>>, Keep
  PROVE  KInv'
<1>1. Dst(c) \in Paths /\ call[c].data \in Data
  BY CallTyped DEF KInv
<1>2. /\ objects' \in [Paths -> Files \cup {Absent}]
      /\ \A p \in Paths : objects[p] # Absent => objects'[p] # Absent
  <2>1. CASE Overtaken(c)
    BY <2>1 DEF CopyRest, KInv, BackendTypeOK
  <2>2. CASE ~Overtaken(c)
    <3>1. objects[Dst(c)] \in Files
      BY <1>1, <2>2 DEF Overtaken, KInv, BackendTypeOK
    <3>2. [objects[Dst(c)] EXCEPT !.data = call[c].data] \in Files
      BY <1>1, <3>1 DEF Files
    <3>3. objects' = [objects EXCEPT ![Dst(c)] = [objects[Dst(c)] EXCEPT !.data = call[c].data]]
      BY <2>2 DEF CopyRest
    <3>4. QED
      BY <1>1, <3>2, <3>3, RequestAssumption DEF KInv, BackendTypeOK
  <2>3. QED
    BY <2>1, <2>2
<1>3. Pc(c) \notin {"idle", "ok"} /\ call'[c].todo \in {Parts(Ask(c)), <<"copy">>}
  BY DEF KInv, TodoOK
<1>4. l \in Places /\ l \notin Writing \cup Replacing \cup {"idle", "remove", "remove old"}
  BY DEF Places, Ended, Writing, Replacing
<1>5. UNCHANGED <<temp, aside, kind, cuts>> /\ region' \in Regions
  BY DEF Keep, KInv, BackendTypeOK
<1>6. QED
  BY <1>2, <1>3, <1>4, <1>5, WritesInPlaceKeep

LEMMA CopyFinishKeeps == ASSUME KInv, NEW c \in Calls, CopyFinish(c) PROVE KInv'
<1>1. "ok" \in Places
  BY DEF Places, Ended
<1>2. (Moves(c, "ok") \/ Moves(c, "failed")) /\ call'[c].todo = call[c].todo
  BY <1>1, ThenMoves DEF KInv, CopyFinish
<1>3. QED
  BY <1>2, CopyRestKeeps DEF CopyFinish

LEMMA CopyAloneKeeps == ASSUME KInv, NEW c \in Calls, CopyAlone(c) PROVE KInv'
<1>1. "failed" \in Places
  BY DEF Places, Ended
<1>2. Moves(c, "failed") /\ call'[c].todo = call[c].todo
  BY <1>1, GoMoves DEF KInv, CopyAlone
<1>3. QED
  BY <1>2, CopyRestKeeps DEF CopyAlone

\* The steps that only set where a call is and that it was cut short.
LEMMA SetKeeps ==
  ASSUME KInv, NEW c \in Calls, NEW l \in Places, NEW r \in Call,
         call' = [call EXCEPT ![c] = r], r.pc = l, r.ask = call[c].ask,
         r.todo = call[c].todo, call[c].cut => r.cut, Pc(c) \notin {"idle", "ok"},
         l \notin Writing \cup Replacing \cup {"idle", "remove", "remove old"},
         UNCHANGED <<objects, temp, aside, kind, cuts>>, region' \in Regions
  PROVE  KInv'
<1>1. Moves(c, l) /\ call'[c].todo = call[c].todo
  BY SetMoves DEF KInv
<1>2. call'[c].todo \in {Parts(Ask(c)), <<"copy">>}
  BY <1>1 DEF KInv, TodoOK
<1>3. /\ objects' \in [Paths -> Files \cup {Absent}]
      /\ \A p \in Paths : objects[p] # Absent => objects'[p] # Absent
  BY DEF KInv, BackendTypeOK
<1>4. QED
  BY <1>1, <1>2, <1>3, WritesInPlaceKeep

LEMMA CopyLeftKeeps == ASSUME KInv, NEW c \in Calls, CopyLeft(c) PROVE KInv'
<1>1. DEFINE r == [call[c] EXCEPT !.pc = "copying alone", !.cut = TRUE]
<1>2. call[c] \in Call
  BY CallTyped DEF KInv
<1>3. /\ r \in Call /\ r.ask = call[c].ask /\ r.pc = "copying alone" /\ r.todo = call[c].todo /\ (call[c].cut => r.cut)
      /\ "copying alone" \in Places
  BY <1>2 DEF Call, Places
<1>4. call' = [call EXCEPT ![c] = r]
  BY DEF CopyLeft
<1> HIDE DEF r
<1>5. UNCHANGED <<objects, temp, aside, kind, cuts>> /\ region' \in Regions /\ Pc(c) \notin {"idle", "ok"}
  BY DEF CopyLeft, Keep, KInv, BackendTypeOK
<1>6. QED
  BY <1>3, <1>4, <1>5, SetKeeps DEF Writing, Replacing

----------------------------------------------------------------------------
(* Buckets.                                                                *)

LEMMA SendKeeps == ASSUME KInv, NEW c \in Calls, Send(c) PROVE KInv'
<1>1. DEFINE l == IF Pc(c) = "send" THEN "sent" ELSE "resent"
             r == [call[c] EXCEPT !.pc = l, !.at = region, !.body = "whole"]
<1>2. call[c] \in Call /\ region \in Regions /\ l \in {"sent", "resent"} /\ l \in Places
  BY CallTyped DEF KInv, BackendTypeOK, Places
<1>3. r \in Call /\ r.ask = call[c].ask /\ r.pc = l /\ r.todo = call[c].todo /\ (call[c].cut => r.cut)
  BY <1>2 DEF Call
<1>4. call' = [call EXCEPT ![c] = r]
  BY DEF Send
<1> HIDE DEF r, l
<1>5. UNCHANGED <<objects, temp, aside, kind, cuts>> /\ region' \in Regions /\ Pc(c) \notin {"idle", "ok"}
  BY DEF Send, Keep, KInv, BackendTypeOK
<1>6. l \notin Writing \cup Replacing \cup {"idle", "remove", "remove old"}
  BY <1>2 DEF Writing, Replacing
<1>7. QED
  BY <1>2, <1>3, <1>4, <1>5, <1>6, SetKeeps

LEMMA RedirectedKeeps == ASSUME KInv, NEW c \in Calls, Redirected(c) PROVE KInv'
<1>1. DEFINE l == IF Pc(c) = "sent" THEN "redirected" ELSE "misdirected"
             r == [call[c] EXCEPT !.pc = l, !.body = "spent"]
<1>2. call[c] \in Call /\ l \in {"redirected", "misdirected"} /\ l \in Places
  BY CallTyped DEF KInv, Places, Ended
<1>3. r \in Call /\ r.ask = call[c].ask /\ r.pc = l /\ r.todo = call[c].todo /\ (call[c].cut => r.cut)
  BY <1>2 DEF Call
<1>4. call' = [call EXCEPT ![c] = r]
  BY DEF Redirected
<1> HIDE DEF r, l
<1>5. UNCHANGED <<objects, temp, aside, kind, cuts>> /\ region' \in Regions /\ Pc(c) \notin {"idle", "ok"}
  BY DEF Redirected, Keep, KInv, BackendTypeOK
<1>6. l \notin Writing \cup Replacing \cup {"idle", "remove", "remove old"}
  BY <1>2 DEF Writing, Replacing
<1>7. QED
  BY <1>2, <1>3, <1>4, <1>5, <1>6, SetKeeps

LEMMA UseRegionKeeps == ASSUME KInv, NEW c \in Calls, UseRegion(c) PROVE KInv'
<1>1. PICK l \in {"misdirected", "resend"} : Go(c, l)
  BY DEF UseRegion
<1>2. l \in Places /\ l \notin Writing \cup Replacing \cup {"idle", "remove", "remove old"}
  BY DEF Places, Ended, Writing, Replacing
<1>3. Moves(c, l) /\ call'[c].todo = call[c].todo
  BY <1>1, <1>2, GoMoves DEF KInv
<1>4. UNCHANGED <<objects, temp, aside, kind, cuts>> /\ region' \in Regions /\ Pc(c) \notin {"idle", "ok"}
  BY RequestAssumption DEF UseRegion
<1>5. temp' \in [Calls -> Files \cup {Absent}]
  BY <1>4 DEF KInv, BackendTypeOK
<1>6. QED
  BY <1>2, <1>3, <1>4, <1>5, QuietKeeps

\* What an answer to the request at the head of todo moves c to.
LEMMA ArrivedAnswer ==
  ASSUME KInv, NEW c \in Calls, NEW part \in Ops, Arrived(c, part), Answered(c)
  PROVE  /\ \E l \in {"ok", "failed", "send"} : Moves(c, l)
         /\ part = "delete" => \E l \in {"ok", "failed"} :
              Moves(c, l) /\ call'[c].todo = call[c].todo /\ (l = "ok" \/ call'[c].cut)
         /\ call'[c].todo \in {Parts(Ask(c)), <<"copy">>}
         /\ part = "delete" => Ask(c).op = "delete"
<1>1. /\ call[c].todo \in {Parts(Ask(c)), <<"copy">>}
      /\ Ask(c).op \in Ops
  BY CallTyped DEF Arrived, KInv, TodoOK
<1>2. /\ <<"copy">> # <<>> /\ Len(<<"copy">>) = 1 /\ Head(<<"copy">>) = "copy"
      /\ Len(<<"stat", "copy">>) = 2 /\ Head(<<"stat", "copy">>) = "stat"
      /\ Tail(<<"stat", "copy">>) = <<"copy">>
      /\ \A o \in Ops : Len(<<o>>) = 1 /\ Head(<<o>>) = o
  OBVIOUS
<1>3. CASE call[c].todo = <<"stat", "copy">>
  <2>1. Len(call[c].todo) # 1 /\ call[c].todo # <<>> /\ part = "stat"
    BY <1>2, <1>3 DEF Arrived
  <2>2. \/ (Moves(c, "ok") \/ Moves(c, "failed")) /\ call'[c].todo = call[c].todo
        \/ Moves(c, "send") /\ call'[c].todo = <<"copy">>
    BY <1>2, <1>3, <2>1, AnsweredMoves DEF KInv
  <2>3. QED
    BY <1>1, <2>1, <2>2
<1>4. CASE call[c].todo = <<"copy">> \/ (call[c].todo = <<Ask(c).op>> /\ Ask(c).op # "copy")
  <2>1. Len(call[c].todo) = 1 /\ call[c].todo # <<>> /\ part = Head(call[c].todo)
    BY <1>1, <1>2, <1>4 DEF Arrived
  <2>2. /\ Moves(c, "ok") \/ (Moves(c, "failed") /\ call'[c].cut)
        /\ call'[c].todo = call[c].todo
    BY <2>1, AnsweredMoves DEF KInv
  <2>3. part = "delete" => Ask(c).op = "delete"
    BY <1>1, <1>2, <1>4, <2>1
  <2>4. QED
    BY <1>1, <2>2, <2>3
<1>5. QED
  BY <1>1, <1>3, <1>4 DEF Parts

\* The requests that put an object in place.
LEMMA ServerPutKeeps ==
  ASSUME KInv, NEW c \in Calls, NEW l \in {"ok", "failed", "send", "missing"}, Moves(c, l),
         Pc(c) \notin {"idle", "ok"}, call'[c].todo \in {Parts(Ask(c)), <<"copy">>},
         NEW f \in Files, objects' = [objects EXCEPT ![Dst(c)] = f] \/ objects' = objects,
         UNCHANGED <<temp, aside>>, Keep
  PROVE  KInv'
<1>1. Dst(c) \in Paths
  BY CallTyped DEF KInv
<1>2. /\ objects' \in [Paths -> Files \cup {Absent}]
      /\ \A p \in Paths : objects[p] # Absent => objects'[p] # Absent
  BY <1>1, RequestAssumption DEF KInv, BackendTypeOK
<1>3. l \in Places /\ l \notin Writing \cup Replacing \cup {"idle", "remove", "remove old"}
  BY DEF Places, Ended, Writing, Replacing
<1>4. UNCHANGED <<temp, aside, kind, cuts>> /\ region' \in Regions
  BY DEF Keep, KInv, BackendTypeOK
<1>5. QED
  BY <1>2, <1>3, <1>4, WritesInPlaceKeep

LEMMA PutObjectKeeps == ASSUME KInv, NEW c \in Calls, PutObject(c) PROVE KInv'
<1>1. PICK l \in {"ok", "failed", "send"} : Moves(c, l)
  BY ArrivedAnswer DEF PutObject, Ops
<1>2. call'[c].todo \in {Parts(Ask(c)), <<"copy">>} /\ Pc(c) \notin {"idle", "ok"}
  BY ArrivedAnswer DEF PutObject, Ops, Arrived
<1>3. DEFINE f == Object(IF call[c].body = "whole" THEN call[c].data ELSE Partial,
                         call[c].data, TRUE, c)
<1>4. f \in Files
  BY CallTyped DEF KInv, Object, Files, Data
<1>5. objects' = [objects EXCEPT ![Dst(c)] = f] /\ UNCHANGED <<temp, aside>> /\ Keep
  BY DEF PutObject
<1> HIDE DEF f
<1>6. QED
  BY <1>1, <1>2, <1>4, <1>5, ServerPutKeeps

LEMMA CommitTruncatedKeeps == ASSUME KInv, NEW c \in Calls, CommitTruncated(c) PROVE KInv'
<1>1. "failed" \in Places
  BY DEF Places, Ended
<1>2. Moves(c, "failed") /\ call'[c].todo = call[c].todo /\ Pc(c) \notin {"idle", "ok"}
  BY <1>1, GoMoves DEF KInv, CommitTruncated, Arrived
<1>3. call'[c].todo \in {Parts(Ask(c)), <<"copy">>}
  BY <1>2 DEF KInv, TodoOK
<1>4. DEFINE f == Object(Partial, call[c].data, TRUE, c)
<1>5. f \in Files
  BY CallTyped DEF KInv, Object, Files, Data
<1>6. objects' = [objects EXCEPT ![Dst(c)] = f] /\ UNCHANGED <<temp, aside>> /\ Keep
  BY DEF CommitTruncated
<1> HIDE DEF f
<1>7. QED
  BY <1>2, <1>3, <1>5, <1>6, ServerPutKeeps

LEMMA DeleteObjectKeeps == ASSUME KInv, NEW c \in Calls, DeleteObject(c) PROVE KInv'
<1>1. PICK l \in {"ok", "failed"} :
        /\ Moves(c, l) /\ call'[c].todo = call[c].todo
        /\ l = "ok" \/ call'[c].cut
  BY ArrivedAnswer DEF DeleteObject, Ops
<1>2. Ask(c).op = "delete"
  BY ArrivedAnswer DEF DeleteObject, Ops
<1>3. Pc(c) \notin {"idle", "ok", "remove old"}
  BY DEF DeleteObject, Arrived
<1>4. objects' = [objects EXCEPT ![Dst(c)] = Absent] /\ UNCHANGED <<temp, aside>> /\ Keep
  BY DEF DeleteObject
<1>5. QED
  BY <1>1, <1>2, <1>3, <1>4, DeletesKeep

LEMMA HeadObjectKeeps == ASSUME KInv, NEW c \in Calls, HeadObject(c) PROVE KInv'
<1>1. Object(Partial, None, TRUE, c) \in Files
  BY DEF Object, Files, Data
<1>2. UNCHANGED <<objects, temp, aside>> /\ Keep /\ Pc(c) \notin {"idle", "ok"} /\ Arrived(c, "stat")
  BY DEF HeadObject, Arrived
<1>3. CASE Go(c, "missing")
  <2>1. "missing" \in Places
    BY DEF Places, Ended
  <2>2. Moves(c, "missing") /\ call'[c].todo = call[c].todo
    BY <1>3, <2>1, GoMoves DEF KInv
  <2>3. call'[c].todo \in {Parts(Ask(c)), <<"copy">>}
    BY <1>2, <2>2 DEF KInv, TodoOK
  <2>4. QED
    BY <1>1, <1>2, <2>2, <2>3, ServerPutKeeps
<1>4. CASE Answered(c)
  <2>1. /\ \E l \in {"ok", "failed", "send"} : Moves(c, l)
        /\ call'[c].todo \in {Parts(Ask(c)), <<"copy">>}
    BY <1>2, <1>4, ArrivedAnswer DEF Ops
  <2>2. QED
    BY <1>1, <1>2, <2>1, ServerPutKeeps
<1>5. QED
  BY <1>3, <1>4 DEF HeadObject

LEMMA CopyObjectKeeps == ASSUME KInv, NEW c \in Calls, CopyObject(c) PROVE KInv'
<1>1. UNCHANGED <<temp, aside>> /\ Keep /\ Pc(c) \notin {"idle", "ok"} /\ Arrived(c, "copy")
  BY DEF CopyObject, Arrived
<1>2. CASE objects[Src(c)] = Absent
  <2>1. PICK l \in {"missing", "failed"} : Go(c, l) /\ UNCHANGED objects
    BY <1>2 DEF CopyObject
  <2>2. l \in Places
    BY DEF Places, Ended
  <2>3. Moves(c, l) /\ call'[c].todo = call[c].todo
    BY <2>1, <2>2, GoMoves DEF KInv
  <2>4. call'[c].todo \in {Parts(Ask(c)), <<"copy">>}
    BY <1>1, <2>3 DEF KInv, TodoOK
  <2>5. Object(Partial, None, TRUE, c) \in Files
    BY DEF Object, Files, Data
  <2>6. QED
    BY <1>1, <2>1, <2>3, <2>4, <2>5, ServerPutKeeps
<1>3. CASE objects[Src(c)] # Absent
  <2>1. /\ \E l \in {"ok", "failed", "send"} : Moves(c, l)
        /\ call'[c].todo \in {Parts(Ask(c)), <<"copy">>}
    BY <1>1, <1>3, ArrivedAnswer DEF CopyObject, Ops
  <2>2. objects[Src(c)] \in Files
    BY <1>3, CallTyped DEF KInv, BackendTypeOK
  <2>3. DEFINE f == [objects[Src(c)] EXCEPT !.by = c]
  <2>4. f \in Files
    BY <2>2 DEF Files
  <2>5. objects' = [objects EXCEPT ![Dst(c)] = f]
    BY <1>3 DEF CopyObject
  <2> HIDE DEF f
  <2>6. QED
    BY <1>1, <2>1, <2>4, <2>5, ServerPutKeeps
<1>4. QED
  BY <1>2, <1>3

----------------------------------------------------------------------------
(* Failures.                                                               *)

LEMMA RefuseKeeps == ASSUME KInv, NEW c \in Calls, Refuse(c) PROVE KInv'
<1>1. PICK l \in {"move aside", "restore", "ok", "clear", "littered", "failed"} :
        /\ Go(c, l)
        /\ l = "move aside" => Pc(c) = "rename"
        /\ l = "restore" => Pc(c) = "take its place"
  BY DEF Refuse, OnError
<1>2. l \in Places
  BY DEF Places, Ended
<1>3. Moves(c, l) /\ call'[c].todo = call[c].todo
  BY <1>1, <1>2, GoMoves DEF KInv
<1>4. Pc(c) \notin {"idle", "ok"} /\ UNCHANGED <<objects, temp, aside>> /\ Keep
  BY DEF Refuse, Running, Ended
<1>5. QED
  BY <1>1, <1>2, <1>3, <1>4, StillKeeps DEF Writing, Replacing

LEMMA CutKeeps == ASSUME KInv, NEW c \in Calls, Cut(c) PROVE KInv'
<1>1. DEFINE l == IF Pc(c) = "remove old" THEN "ok" ELSE "failed"
             r == [call[c] EXCEPT !.pc = l, !.cut = TRUE]
<1>2. call[c] \in Call /\ l \in {"ok", "failed"} /\ l \in Places
  BY CallTyped DEF KInv, Places, Ended
<1>3. r \in Call /\ r.ask = call[c].ask /\ r.pc = l /\ r.todo = call[c].todo /\ (call[c].cut => r.cut)
  BY <1>2 DEF Call
<1>4. call' = [call EXCEPT ![c] = r]
  BY DEF Cut
<1> HIDE DEF r, l
<1>5. UNCHANGED <<objects, temp, aside, kind, cuts>> /\ region' \in Regions /\ Pc(c) \notin {"idle", "ok"}
  BY DEF Cut, Keep, Running, Ended, KInv, BackendTypeOK
<1>6. l \notin Writing \cup Replacing \cup {"idle", "remove", "remove old"}
  BY <1>2 DEF Writing, Replacing
<1>7. QED
  BY <1>2, <1>3, <1>4, <1>5, <1>6, SetKeeps

LEMMA AfterCutTyped ==
  ASSUME NEW f \in Files \cup {Absent}
  PROVE  AfterCut(f) \in Files \cup {Absent} /\ (f # Absent => AfterCut(f) # Absent)
<1>1. f \in Files => [f EXCEPT !.data = Partial] \in Files
  BY DEF Files, Data
<1>2. QED
  BY <1>1, RequestAssumption DEF AfterCut

LEMMA PowerCutKeeps == ASSUME KInv, PowerCut PROVE KInv'
<1>1. /\ objects' \in [Paths -> Files \cup {Absent}]
      /\ \A p \in Paths : objects[p] # Absent => objects'[p] # Absent
      /\ temp' \in [Calls -> Files \cup {Absent}]
  BY AfterCutTyped DEF PowerCut, KInv, BackendTypeOK
<1>2. UNCHANGED <<kind, aside, region>> /\ cuts' \in Nat
  <2>1. cuts \in Nat /\ cuts' = cuts + 1 /\ UNCHANGED <<kind, aside, region>>
    BY DEF PowerCut, KInv, BackendTypeOK
  <2>2. QED
    BY <2>1
<1>3. \A c \in Calls : [call[c] EXCEPT !.pc = "failed", !.cut = TRUE] \in Call
  BY CallTyped DEF KInv, Call, Places, Ended
<1>4. call' \in [Calls -> Call]
  BY <1>3, CallTyped DEF PowerCut, KInv
<1>5. \A c \in Calls : /\ call'[c].ask = call[c].ask /\ call'[c].todo = call[c].todo
                       /\ call'[c].pc \in {call[c].pc, "failed"}
                       /\ call'[c].pc = "idle" <=> call[c].pc = "idle"
                       /\ call'[c] = call[c] \/ (call'[c].cut /\ call[c].pc \notin {"idle", "ok"})
                       /\ call'[c].pc # "failed" => call'[c].pc \in Ended \cup {"idle", "copying alone"}
  <2> SUFFICES ASSUME NEW c \in Calls
               PROVE  /\ call'[c].ask = call[c].ask /\ call'[c].todo = call[c].todo
                      /\ call'[c].pc \in {call[c].pc, "failed"}
                      /\ call'[c].pc = "idle" <=> call[c].pc = "idle"
                      /\ call'[c] = call[c] \/ (call'[c].cut /\ call[c].pc \notin {"idle", "ok"})
                      /\ call'[c].pc # "failed" =>
                           call'[c].pc \in Ended \cup {"idle", "copying alone"}
    OBVIOUS
  <2>1. CASE Running(c)
    <3>1. call'[c] = [call[c] EXCEPT !.pc = "failed", !.cut = TRUE]
      BY <2>1 DEF PowerCut
    <3>2. call[c] \in Call
      BY CallTyped DEF KInv
    <3>3. /\ call'[c].ask = call[c].ask /\ call'[c].todo = call[c].todo
          /\ call'[c].pc = "failed" /\ call'[c].cut
      BY <3>1, <3>2 DEF Call
    <3>4. QED
      BY <2>1, <3>3 DEF Running, Ended, Pc
  <2>2. CASE ~Running(c)
    <3>1. call'[c] = call[c]
      BY <2>2 DEF PowerCut
    <3>2. QED
      BY <2>2, <3>1 DEF Running, Pc
  <2>3. QED
    BY <2>1, <2>2
<1>6. BackendTypeOK'
  BY <1>1, <1>2, <1>4 DEF KInv, BackendTypeOK, Call
<1>7. TempThere' /\ AsideThere' /\ Removing'
  BY <1>5 DEF TempThere, AsideThere, Removing, Pc, Writing, Replacing, Ended
<1>8. IdleEmpty' /\ TodoOK'
  BY <1>2, <1>5 DEF KInv, IdleEmpty, TodoOK, Pc, Ask, Parts
<1>9. Kept'
  <2> SUFFICES ASSUME NEW p \in Paths, InitialData[p] # Absent, objects'[p] = Absent
               PROVE  Deleted(p)' \/ Held(p)'
    BY DEF Kept
  <2>1. Deleted(p) \/ Held(p)
    BY <1>1 DEF KInv, Kept
  <2>2. ASSUME Deleted(p) PROVE Deleted(p)'
    BY <1>5, <2>2 DEF Deleted, Ask, Dst, Pc
  <2>3. ASSUME Held(p) PROVE Held(p)'
    BY <1>2, <1>5, <2>3 DEF Held, Ask, Dst, Pc
  <2>4. QED
    BY <2>1, <2>2, <2>3
<1>10. QED
  BY <1>6, <1>7, <1>8, <1>9 DEF KInv

----------------------------------------------------------------------------
LEMMA NextKeeps == KInv /\ [Next]_vars => KInv'
<1> SUFFICES ASSUME KInv, [Next]_vars PROVE KInv'
  OBVIOUS
<1>1. CASE UNCHANGED vars
  <2>1. UNCHANGED <<kind, objects, temp, aside, call, region, cuts>>
    BY <1>1 DEF vars
  <2>2. BackendTypeOK'
    BY <2>1 DEF KInv, BackendTypeOK
  <2>3. TempThere' /\ AsideThere' /\ IdleEmpty'
    BY <2>1 DEF KInv, TempThere, AsideThere, IdleEmpty, Pc
  <2>4. Removing' /\ TodoOK'
    BY <2>1 DEF KInv, Removing, TodoOK, Pc, Ask, Parts
  <2>5. Kept'
    BY <2>1 DEF KInv, Kept, Deleted, Held, Pc, Ask, Dst
  <2>6. QED
    BY <2>2, <2>3, <2>4, <2>5 DEF KInv
<1>2. ASSUME NEW c \in Calls, Begin(c) PROVE KInv'
  BY <1>2, BeginKeeps
<1>3. ASSUME NEW c \in Calls, FileStep(c) PROVE KInv'
  BY <1>3, OpenSourceKeeps, WritesKeep, RenameOverKeeps, RenameNewKeeps, MoveAsideKeeps,
     NothingToMoveKeeps, TakePlaceKeeps, RestoreKeeps, RemoveOldKeeps, ClearKeeps, RemoveKeeps,
     StatFileKeeps, CopyInPlaceKeeps, CopyFinishKeeps, CopyLeftKeeps, CopyAloneKeeps
     DEF FileStep
<1>4. ASSUME NEW c \in Calls, BucketStep(c) PROVE KInv'
  BY <1>4, SendKeeps, RedirectedKeeps, UseRegionKeeps, PutObjectKeeps, CommitTruncatedKeeps,
     DeleteObjectKeeps, HeadObjectKeeps, CopyObjectKeeps DEF BucketStep
<1>5. ASSUME NEW c \in Calls, Refuse(c) \/ Cut(c) PROVE KInv'
  BY <1>5, RefuseKeeps, CutKeeps
<1>6. CASE PowerCut
  BY <1>6, PowerCutKeeps
<1>7. CASE AllEnded
  BY <1>1, <1>7 DEF AllEnded
<1>8. QED
  BY <1>1, <1>2, <1>3, <1>4, <1>5, <1>6, <1>7 DEF Next

\* The states of every backend are typed, for any calls, paths and contents.
THEOREM BackendsTyped == Spec => []BackendTypeOK
<1>1. KInv => BackendTypeOK
  BY DEF KInv
<1>2. QED
  BY InitKInv, NextKeeps, <1>1, PTL DEF Spec

----------------------------------------------------------------------------
(* Steps of one call.                                                      *)

\* What a step of c leaves alone that goes no further than its place.
Steady(c) == /\ call'[c].ask = call[c].ask /\ call'[c].data = call[c].data
             /\ call'[c].todo = call[c].todo /\ call'[c].at = call[c].at
             /\ call'[c].body = call[c].body
             /\ \A d \in Calls \ {c} : call'[d] = call[d]

LEMMA GoSets ==
  ASSUME BackendTypeOK, NEW c \in Calls, NEW l, Go(c, l)
  PROVE  Steady(c) /\ call'[c].pc = l /\ call'[c].cut = call[c].cut
<1>1. call[c] \in Call /\ call'[c] = [call[c] EXCEPT !.pc = l]
  BY DEF BackendTypeOK, Call, Go
<1>2. QED
  BY <1>1 DEF BackendTypeOK, Call, Go, Steady

LEMMA ThenSets ==
  ASSUME BackendTypeOK, NEW c \in Calls, NEW l, Then(c, l)
  PROVE  /\ Steady(c)
         /\ \/ call'[c].pc = l /\ call'[c].cut = call[c].cut
            \/ call'[c].pc = "failed" /\ call'[c].cut = TRUE
<1>1. CASE Go(c, l)
  BY <1>1, GoSets
<1>2. CASE call' = [call EXCEPT ![c] = [@ EXCEPT !.pc = "failed", !.cut = TRUE]]
  <2>1. call[c] \in Call /\ call'[c] = [call[c] EXCEPT !.pc = "failed", !.cut = TRUE]
    BY <1>2 DEF BackendTypeOK, Call
  <2>2. QED
    BY <1>2, <2>1 DEF BackendTypeOK, Call, Steady
<1>3. QED
  BY <1>1, <1>2 DEF Then

----------------------------------------------------------------------------
(* Temporary files.                                                        *)

\* Only a call has one that is still writing, that could not remove it, or whose
\* way was cut.
HasTemp == Writing \cup {"restore", "clear", "littered"}
TempsHeld == \A c \in Calls : temp[c] # Absent => Pc(c) \in HasTemp \/ call[c].cut

LEMMA OneCall ==
  ASSUME TempsHeld, NEW c \in Calls,
         \A d \in Calls \ {c} : call'[d] = call[d] /\ temp'[d] = temp[d],
         temp'[c] # Absent => call'[c].pc \in HasTemp \/ call'[c].cut
  PROVE  TempsHeld'
BY DEF TempsHeld, Pc

LEMMA GoHolds ==
  ASSUME BackendTypeOK, TempsHeld, NEW c \in Calls, NEW l, Go(c, l) \/ Then(c, l),
         \A d \in Calls \ {c} : temp'[d] = temp[d],
         temp'[c] # Absent => l \in HasTemp \/ call[c].cut
  PROVE  TempsHeld'
<1>1. \A d \in Calls \ {c} : call'[d] = call[d]
  BY GoSets, ThenSets DEF Steady
<1>2. temp'[c] # Absent => call'[c].pc \in HasTemp \/ call'[c].cut
  BY GoSets, ThenSets
<1>3. QED
  BY <1>1, <1>2, OneCall

\* A step that does not touch temporary files, and of a call that has none.
LEMMA PlainHolds ==
  ASSUME BackendTypeOK, TempsHeld, NEW c \in Calls, NEW l, Go(c, l) \/ Then(c, l),
         UNCHANGED temp, Pc(c) \notin HasTemp \/ l \in HasTemp
  PROVE  TempsHeld'
<1>1. temp'[c] # Absent => l \in HasTemp \/ call[c].cut
  BY DEF TempsHeld
<1>2. QED
  BY <1>1, GoHolds

\* The same of a step that sets more of the call than its place.
LEMMA SetHolds ==
  ASSUME BackendTypeOK, TempsHeld, NEW c \in Calls, NEW r, r.cut = call[c].cut \/ r.cut = TRUE,
         call' = [call EXCEPT ![c] = r], UNCHANGED temp, Pc(c) \notin HasTemp \/ r.cut = TRUE
  PROVE  TempsHeld'
<1>1. call'[c] = r /\ \A d \in Calls \ {c} : call'[d] = call[d]
  BY DEF BackendTypeOK
<1>2. temp'[c] # Absent => call'[c].cut
  BY <1>1 DEF TempsHeld
<1>3. QED
  BY <1>1, <1>2, OneCall

LEMMA FileHolds == ASSUME BackendTypeOK, TempsHeld, NEW c \in Calls, FileStep(c) PROVE TempsHeld'
<1>0. call[c] \in Call /\ temp \in [Calls -> Files \cup {Absent}]
  BY CallTyped DEF BackendTypeOK
<1>1. CASE OpenSource(c)
  <2>1. CASE Go(c, "missing")
    BY <1>1, <2>1, PlainHolds DEF OpenSource, HasTemp, Writing
  <2>2. CASE ~Go(c, "missing")
    <3>1. DEFINE r == [call[c] EXCEPT !.pc = "create", !.data = objects[Src(c)].data]
    <3>2. call' = [call EXCEPT ![c] = r] /\ UNCHANGED temp /\ Pc(c) \notin HasTemp
      BY <1>1, <2>2 DEF OpenSource, HasTemp, Writing
    <3>3. r.cut = call[c].cut
      BY <1>0 DEF Call
    <3>4. QED
      BY <3>2, <3>3, SetHolds
  <2>3. QED
    BY <2>1, <2>2
<1>2. CASE Create(c)
  BY <1>0, <1>2, GoHolds DEF Create, HasTemp, Writing
<1>3. CASE Write(c)
  BY <1>0, <1>3, GoHolds DEF Write, HasTemp, Writing
<1>4. CASE Sync(c)
  BY <1>0, <1>4, GoHolds DEF Sync, HasTemp, Writing
<1>5. CASE RenameOver(c)
  BY <1>0, <1>5, GoHolds DEF RenameOver, Place
<1>6. CASE RenameNew(c)
  <2>1. CASE Place(c) /\ Then(c, "ok")
    BY <1>0, <2>1, GoHolds DEF Place
  <2>2. CASE Go(c, "move aside") /\ UNCHANGED temp
    BY <2>2, PlainHolds DEF HasTemp, Writing
  <2>3. QED
    BY <1>6, <2>1, <2>2 DEF RenameNew
<1>7. CASE MoveAside(c)
  BY <1>7, PlainHolds DEF MoveAside, HasTemp, Writing
<1>8. CASE NothingToMove(c)
  BY <1>8, PlainHolds DEF NothingToMove, HasTemp, Writing
<1>9. CASE TakePlace(c)
  <2>1. CASE Place(c) /\ Then(c, "remove old")
    BY <1>0, <2>1, GoHolds DEF Place
  <2>2. CASE Go(c, "restore") /\ UNCHANGED temp
    BY <2>2, PlainHolds DEF HasTemp, Writing
  <2>3. QED
    BY <1>9, <2>1, <2>2 DEF TakePlace
<1>10. CASE Restore(c)
  BY <1>10, PlainHolds DEF Restore, HasTemp, Writing
<1>11. CASE RemoveOld(c)
  BY <1>11, PlainHolds DEF RemoveOld, HasTemp, Writing
<1>12. CASE Clear(c)
  BY <1>0, <1>12, GoHolds DEF Clear
<1>13. CASE Remove(c)
  BY <1>13, PlainHolds DEF Remove, HasTemp, Writing
<1>14. CASE StatFile(c)
  BY <1>14, PlainHolds DEF StatFile, HasTemp, Writing
<1>15. CASE CopyInPlace(c)
  <2>1. DEFINE r == [call[c] EXCEPT !.pc = "copying", !.data = objects[Src(c)].data]
  <2>2. call' = [call EXCEPT ![c] = r] /\ UNCHANGED temp /\ Pc(c) \notin HasTemp
    BY <1>15 DEF CopyInPlace, HasTemp, Writing
  <2>3. r.cut = call[c].cut
    BY <1>0 DEF Call
  <2>4. QED
    BY <2>2, <2>3, SetHolds
<1>16. CASE CopyFinish(c)
  BY <1>16, PlainHolds DEF CopyFinish, HasTemp, Writing
<1>17. CASE CopyLeft(c)
  <2>1. DEFINE r == [call[c] EXCEPT !.pc = "copying alone", !.cut = TRUE]
  <2>2. call' = [call EXCEPT ![c] = r] /\ UNCHANGED temp
    BY <1>17 DEF CopyLeft
  <2>3. r.cut = TRUE
    BY <1>0 DEF Call
  <2>4. QED
    BY <2>2, <2>3, SetHolds
<1>18. CASE CopyAlone(c)
  BY <1>18, PlainHolds DEF CopyAlone, HasTemp, Writing
<1>19. QED
  BY <1>1, <1>2, <1>3, <1>4, <1>5, <1>6, <1>7, <1>8, <1>9, <1>10, <1>11, <1>12, <1>13, <1>14,
     <1>15, <1>16, <1>17, <1>18 DEF FileStep

LEMMA BucketHolds == ASSUME BackendTypeOK, TempsHeld, NEW c \in Calls, BucketStep(c) PROVE TempsHeld'
<1>1. call[c] \in Call /\ UNCHANGED temp
  BY CallTyped DEF BucketStep, Send, Redirected, UseRegion, PutObject, CommitTruncated,
     DeleteObject, HeadObject, CopyObject
<1>2. Pc(c) \notin HasTemp
  BY DEF BucketStep, Send, Redirected, UseRegion, PutObject, CommitTruncated, DeleteObject,
     HeadObject, CopyObject, Arrived, HasTemp, Writing
<1>3. ASSUME NEW l, Go(c, l) \/ Then(c, l) PROVE TempsHeld'
  BY <1>1, <1>2, <1>3, PlainHolds
<1>4. ASSUME Answered(c) PROVE TempsHeld'
  <2>1. DEFINE r == [call[c] EXCEPT !.pc = "send", !.todo = Tail(call[c].todo)]
  <2>2. r.cut = call[c].cut
    BY <1>1 DEF Call
  <2>3. Then(c, "ok") \/ call' = [call EXCEPT ![c] = r]
    BY <1>4 DEF Answered
  <2> HIDE DEF r
  <2>4. QED
    BY <1>1, <1>2, <1>3, <2>2, <2>3, SetHolds
<1>5. CASE Send(c)
  <2>1. DEFINE r == [call[c] EXCEPT !.pc = IF Pc(c) = "send" THEN "sent" ELSE "resent",
                                    !.at = region, !.body = "whole"]
  <2>2. r.cut = call[c].cut
    BY <1>1 DEF Call
  <2>3. call' = [call EXCEPT ![c] = r]
    BY <1>5 DEF Send
  <2> HIDE DEF r
  <2>4. QED
    BY <1>1, <1>2, <2>2, <2>3, SetHolds
<1>6. CASE Redirected(c)
  <2>1. DEFINE r == [call[c] EXCEPT !.pc = IF Pc(c) = "sent" THEN "redirected" ELSE "misdirected",
                                    !.body = "spent"]
  <2>2. r.cut = call[c].cut
    BY <1>1 DEF Call
  <2>3. call' = [call EXCEPT ![c] = r]
    BY <1>6 DEF Redirected
  <2> HIDE DEF r
  <2>4. QED
    BY <1>1, <1>2, <2>2, <2>3, SetHolds
<1>7. CASE UseRegion(c) \/ CommitTruncated(c)
  BY <1>3, <1>7 DEF UseRegion, CommitTruncated
<1>8. CASE PutObject(c) \/ DeleteObject(c)
  BY <1>4, <1>8 DEF PutObject, DeleteObject
<1>9. CASE HeadObject(c) \/ CopyObject(c)
  BY <1>3, <1>4, <1>9 DEF HeadObject, CopyObject
<1>10. QED
  BY <1>5, <1>6, <1>7, <1>8, <1>9 DEF BucketStep

LEMMA NextHolds == BackendTypeOK /\ TempsHeld /\ [Next]_vars => TempsHeld'
<1> SUFFICES ASSUME BackendTypeOK, TempsHeld, [Next]_vars PROVE TempsHeld'
  OBVIOUS
<1>1. CASE UNCHANGED vars
  BY <1>1 DEF vars, TempsHeld, Pc
<1>2. ASSUME NEW c \in Calls, Begin(c) PROVE TempsHeld'
  <2>1. PICK q \in Requests :
          call' = [call EXCEPT ![c] = [@ EXCEPT !.pc = Entry(q), !.ask = q, !.data = q.data,
                                                !.todo = Parts(q)]]
    BY <1>2 DEF Begin
  <2>2. DEFINE r == [call[c] EXCEPT !.pc = Entry(q), !.ask = q, !.data = q.data, !.todo = Parts(q)]
  <2>3. r.cut = call[c].cut
    BY CallTyped DEF Call
  <2>4. call' = [call EXCEPT ![c] = r]
    BY <2>1
  <2>5. UNCHANGED temp /\ Pc(c) \notin HasTemp
    BY <1>2 DEF Begin, HasTemp, Writing
  <2> HIDE DEF r
  <2>6. QED
    BY <2>3, <2>4, <2>5, SetHolds
<1>3. ASSUME NEW c \in Calls, Refuse(c) PROVE TempsHeld'
  <2> DEFINE l == OnError(c)
  <2>1. Go(c, l) /\ (Pc(c) \in HasTemp => l \in HasTemp)
    <3>1. Go(c, l) /\ Pc(c) # "littered"
      BY <1>3 DEF Refuse, Running, Ended
    <3>2. Pc(c) \in HasTemp \ {"littered"} => l \in HasTemp
      BY DEF OnError, HasTemp, Writing
    <3>3. QED
      BY <3>1, <3>2
  <2> HIDE DEF l
  <2>2. UNCHANGED temp
    BY <1>3 DEF Refuse
  <2>3. QED
    BY <2>1, <2>2, PlainHolds
<1>4. ASSUME NEW c \in Calls, Cut(c) PROVE TempsHeld'
  <2>1. DEFINE r == [call[c] EXCEPT !.pc = IF Pc(c) = "remove old" THEN "ok" ELSE "failed",
                                    !.cut = TRUE]
  <2>2. r.cut = TRUE
    BY CallTyped DEF Call
  <2>3. call' = [call EXCEPT ![c] = r] /\ UNCHANGED temp
    BY <1>4 DEF Cut
  <2> HIDE DEF r
  <2>4. QED
    BY <2>2, <2>3, SetHolds
<1>5. CASE PowerCut
  <2> SUFFICES ASSUME NEW c \in Calls, temp'[c] # Absent
               PROVE  call'[c].pc \in HasTemp \/ call'[c].cut
    BY DEF TempsHeld, Pc
  <2>1. temp[c] # Absent
    BY <1>5 DEF PowerCut, AfterCut
  <2>2. CASE Running(c)
    BY <1>5, <2>2, CallTyped DEF PowerCut, Call
  <2>3. CASE ~Running(c)
    BY <1>5, <2>1, <2>3 DEF PowerCut, TempsHeld, Pc
  <2>4. QED
    BY <2>2, <2>3
<1>6. QED
  BY <1>1, <1>2, <1>3, <1>4, <1>5, FileHolds, BucketHolds DEF Next, AllEnded

\* Whatever fails, and whichever way it takes from there, a call that comes to
\* its own end has renamed or removed its temporary file, unless that removal
\* was refused and the error ignored (local.go:90, sftp.go:194-202).
THEOREM NoTempLeft == Spec => []TempsCleared
<1>1. Init => TempsHeld
  BY DEF Init, TempsHeld
<1>2. TempsHeld => TempsCleared
  BY DEF TempsHeld, TempsCleared, HasTemp, Writing, Ended, Pc
<1>3. QED
  BY <1>1, <1>2, NextHolds, BackendsTyped, PTL DEF Spec

----------------------------------------------------------------------------
(* What a call holds, and what is in the store.                            *)

Buckets == {"s3", "gcs"}

\* Where calls never are on a local directory.
Awry == {"copy", "copying", "copying alone", "move aside", "take its place", "restore",
         "remove old"}

ObjOK(k, f) == f # Absent => /\ f.data # None
                             /\ k \notin Buckets => f.sum = None
                             /\ k = "local" => f.synced
                             /\ f.sum # None => \/ f.data = f.sum
                                                \/ k = "gcs" /\ f.data = Partial

\* Of a call that is at r, with temporary file t and file a moved aside.
PlaceOK(k, r) ==
  /\ r.pc \in OnServer => k \in Buckets
  /\ k \in Buckets => r.pc \in OnServer \cup Ended \cup {"idle"}
  /\ k \in Buckets /\ r.pc # "idle" => r.data = r.ask.data
  /\ r.pc # "idle" => \/ r.todo = Parts(r.ask)
                      \/ r.todo = <<"copy">> /\ r.ask.op = "copy"
  /\ k = "local" => r.pc \notin Awry /\ (r.pc = "stat" => r.ask.op = "stat")
  /\ r.pc = "stat" => r.ask.op \in {"copy", "stat"}
  /\ r.pc = "open" => r.ask.op = "copy"
  /\ r.pc \in {"create", "restore", "clear"} \cup Writing =>
       r.ask.op \in {"put", "copy"} /\ r.data # None
  /\ r.pc \in {"copy", "copying", "copying alone"} => r.ask.op = "copy"
  /\ r.pc \in {"copying", "copying alone"} => r.data # None
  /\ r.pc \in {"sent", "resent"} /\ r.at = Home => r.body = "whole"

TempOK(k, r, t) ==
  /\ t # Absent => t.data # None /\ t.sum = None
  /\ r.pc \in Writing \ {"write"} => t.data = r.data
  /\ r.pc = "rename" /\ k = "local" => t.synced

CallOK(k, r, t, a) == PlaceOK(k, r) /\ TempOK(k, r, t) /\ ObjOK(k, a)

SInv == /\ \A p \in Paths : ObjOK(kind, objects[p])
        /\ \A c \in Calls : CallOK(kind, call[c], temp[c], aside[c])

\* The invariant speaks of one object or one call at a time, so a step of c
\* has to show it of c and of the objects it changes.
LEMMA OneStep ==
  ASSUME SInv, NEW c \in Calls, kind' = kind,
         \A d \in Calls \ {c} :
           call'[d] = call[d] /\ temp'[d] = temp[d] /\ aside'[d] = aside[d],
         CallOK(kind, call'[c], temp'[c], aside'[c]),
         \A p \in Paths : ObjOK(kind, objects'[p])
  PROVE  SInv'
BY DEF SInv

\* The step with which a call ends, and clears up after itself or does not.
LEMMA Ends ==
  ASSUME BackendTypeOK, SInv, NEW c \in Calls, NEW l \in Ended, Go(c, l) \/ Then(c, l), Keep,
         temp' \in {temp, [temp EXCEPT ![c] = Absent]},
         aside' \in {aside, [aside EXCEPT ![c] = Absent]},
         Pc(c) # "idle",
         \A p \in Paths : ObjOK(kind, objects'[p])
  PROVE  SInv'
<1>1. /\ Steady(c) /\ call'[c].pc \in Ended /\ kind' = kind
      /\ temp'[c] \in {temp[c], Absent} /\ aside'[c] \in {aside[c], Absent}
      /\ \A d \in Calls \ {c} : temp'[d] = temp[d] /\ aside'[d] = aside[d]
  BY GoSets, ThenSets DEF Keep, BackendTypeOK, Ended
<1>2. PlaceOK(kind, call'[c])
  BY <1>1 DEF SInv, CallOK, PlaceOK, Steady, Pc, Ended, OnServer, Awry, Writing
<1>3. TempOK(kind, call'[c], temp'[c]) /\ ObjOK(kind, aside'[c])
  BY <1>1 DEF SInv, CallOK, TempOK, ObjOK, Ended, Writing
<1>4. QED
  BY <1>1, <1>2, <1>3, OneStep DEF CallOK, Steady

\* A step to another place, with the temporary file as it was.
LEMMA GoesOn ==
  ASSUME BackendTypeOK, SInv, NEW c \in Calls, NEW l, Go(c, l) \/ Then(c, l), Keep,
         UNCHANGED temp, l \in Writing \ {"write"} => Pc(c) \in Writing \ {"write"},
         l \notin {"rename", "sent", "resent"}, Pc(c) # "idle",
         PlaceOK(kind, [call[c] EXCEPT !.pc = l]),
         \A d \in Calls \ {c} : aside'[d] = aside[d],
         ObjOK(kind, aside'[c]),
         \A p \in Paths : ObjOK(kind, objects'[p])
  PROVE  SInv'
<1>1. call[c] \in Call
  BY CallTyped
<1>2. Steady(c) /\ call'[c].pc \in {l, "failed"} /\ kind' = kind
  BY GoSets, ThenSets DEF Keep
<1>3. PlaceOK(kind, call'[c])
  <2>1. CASE call'[c].pc = l
    BY <1>1, <1>2, <2>1 DEF PlaceOK, Steady, Call
  <2>2. CASE call'[c].pc = "failed"
    BY <1>2, <2>2 DEF SInv, CallOK, PlaceOK, Steady, Pc, Ended, OnServer, Awry, Writing
  <2>3. QED
    BY <1>2, <2>1, <2>2
<1>4. TempOK(kind, call'[c], temp'[c])
  BY <1>2 DEF SInv, CallOK, TempOK, Steady, Pc, Writing
<1>5. QED
  BY <1>2, <1>3, <1>4, OneStep DEF CallOK, Steady

Told(c) == CallOK(kind, call[c], temp[c], aside[c])

LEMMA FileActs ==
  ASSUME KInv, SInv, NEW c \in Calls
  PROVE  /\ Told(c) /\ PlaceOK(kind, call[c]) /\ TempOK(kind, call[c], temp[c])
         /\ ObjOK(kind, aside[c]) /\ BackendTypeOK /\ call[c] \in Call
         /\ temp \in [Calls -> Files \cup {Absent}] /\ aside \in [Calls -> Files \cup {Absent}]
         /\ objects \in [Paths -> Files \cup {Absent}] /\ Dst(c) \in Paths /\ Src(c) \in Paths
         /\ \A p \in Paths : ObjOK(kind, objects[p])
BY CallTyped DEF KInv, BackendTypeOK, SInv, Told, CallOK

LEMMA OpenSourceSound == ASSUME KInv, SInv, NEW c \in Calls, OpenSource(c) PROVE SInv'
<1>1. Pc(c) = "open" /\ UNCHANGED <<objects, temp, aside>> /\ Keep
  BY DEF OpenSource
<1>2. CASE objects[Src(c)] = Absent
  BY <1>1, <1>2, FileActs, Ends DEF OpenSource, Ended
<1>3. CASE objects[Src(c)] # Absent
  <2>1. DEFINE r == [call[c] EXCEPT !.pc = "create", !.data = objects[Src(c)].data]
  <2>2. call'[c] = r /\ \A d \in Calls \ {c} : call'[d] = call[d]
    BY <1>3 DEF OpenSource, KInv, BackendTypeOK
  <2>3. /\ r.pc = "create" /\ r.data = objects[Src(c)].data
        /\ r.ask = call[c].ask /\ r.todo = call[c].todo /\ (call[c].cut => r.cut)
    BY FileActs DEF Call
  <2>4. objects[Src(c)].data # None
    BY <1>3, FileActs DEF ObjOK
  <2> HIDE DEF r
  <2>5. PlaceOK(kind, r)
    BY <1>1, <2>3, <2>4, FileActs DEF PlaceOK, Pc, Ended, OnServer, Awry, Writing
  <2>6. TempOK(kind, r, temp[c])
    BY <2>3, FileActs DEF TempOK, Writing
  <2>7. QED
    BY <1>1, <2>2, <2>5, <2>6, FileActs, OneStep DEF CallOK, Keep
<1>4. QED
  BY <1>2, <1>3

LEMMA WritesSound ==
  ASSUME KInv, SInv, NEW c \in Calls, Create(c) \/ Write(c) \/ Sync(c)
  PROVE  SInv'
<1>1. /\ UNCHANGED <<objects, aside>> /\ Keep
      /\ Pc(c) \in {"create", "write", "sync"}
      /\ Pc(c) # "create" => temp[c] \in Files
  BY FileActs DEF Create, Write, Sync, KInv, TempThere, Writing
<1>2. PICK l \in {"write", "sync", "rename"} : /\ Go(c, l)
        /\ \/ Pc(c) = "create" /\ l = "write"
           \/ Pc(c) = "write" /\ (l = "rename" => kind # "local")
           \/ Pc(c) = "sync" /\ l = "rename"
  BY DEF Create, Write, Sync
<1>3. Steady(c) /\ call'[c].pc = l /\ kind' = kind
  <2>1. BackendTypeOK
    BY DEF KInv
  <2>2. QED
    BY <1>1, <1>2, <2>1, GoSets DEF Keep
<1>4. PlaceOK(kind, call'[c])
  BY <1>1, <1>3, FileActs DEF PlaceOK, Steady, Pc, Ended, OnServer, Awry, Writing
<1>5. \A d \in Calls \ {c} : temp'[d] = temp[d]
  BY FileActs DEF Create, Write, Sync
<1>6. TempOK(kind, call'[c], temp'[c])
  <2>1. CASE Create(c)
    <3>1. temp'[c] = Object(Partial, None, FALSE, c)
      BY <2>1, FileActs DEF Create
    <3>2. l = "write"
      BY <1>2, <2>1 DEF Create
    <3>3. QED
      BY <1>3, <3>1, <3>2, DataAssumption DEF TempOK, Object, Writing
  <2>2. CASE Write(c)
    <3>1. temp'[c] = [temp[c] EXCEPT !.data = call[c].data]
      BY <2>2, FileActs DEF Write
    <3>2. /\ temp'[c].data = call[c].data /\ temp'[c].sum = temp[c].sum
          /\ temp[c] # Absent /\ call[c].data # None
      BY <2>2, <3>1, <1>1, FileActs DEF Write, Files, PlaceOK, Pc, Writing, KInv, TempThere
    <3>3. l = "rename" => kind # "local"
      BY <1>2, <2>2 DEF Write
    <3>4. QED
      BY <1>3, <3>2, <3>3, FileActs DEF TempOK, Steady
  <2>3. CASE Sync(c)
    <3>1. temp'[c] = [temp[c] EXCEPT !.synced = TRUE]
      BY <2>3, FileActs DEF Sync
    <3>2. /\ temp'[c].data = temp[c].data /\ temp'[c].sum = temp[c].sum /\ temp'[c].synced
          /\ temp[c] # Absent
      BY <2>3, <3>1, <1>1 DEF Sync, Files, KInv, TempThere, Writing, Pc
    <3>3. temp[c].data = call[c].data /\ call[c].data # None /\ temp[c].sum = None
      BY <2>3, <3>2, FileActs DEF Sync, TempOK, PlaceOK, Pc, Writing
    <3>4. QED
      BY <1>3, <3>2, <3>3 DEF TempOK, Steady
  <2>4. QED
    BY <2>1, <2>2, <2>3
<1>7. QED
  BY <1>1, <1>3, <1>4, <1>5, <1>6, FileActs, OneStep DEF CallOK, Steady

\* The temporary file takes its destination.
LEMMA PlaceSound ==
  ASSUME KInv, SInv, NEW c \in Calls, Place(c), Pc(c) \in {"rename", "take its place"}
  PROVE  /\ \A p \in Paths : ObjOK(kind, objects'[p])
         /\ temp' = [temp EXCEPT ![c] = Absent] /\ temp[c] \in Files
         /\ temp[c].data = call[c].data
<1>1. temp[c] \in Files /\ temp[c] # Absent
  BY FileActs DEF KInv, TempThere, Writing
<1>2. temp[c].data = call[c].data /\ ObjOK(kind, temp[c])
  BY <1>1, FileActs DEF TempOK, ObjOK, PlaceOK, Pc, Writing, Awry
<1>3. QED
  BY <1>1, <1>2, FileActs DEF Place

LEMMA RenamesSound ==
  ASSUME KInv, SInv, NEW c \in Calls, RenameOver(c) \/ RenameNew(c) PROVE SInv'
<1>1. Pc(c) = "rename" /\ UNCHANGED aside /\ Keep
  BY DEF RenameOver, RenameNew
<1>2. CASE Place(c) /\ Then(c, "ok")
  BY <1>1, <1>2, PlaceSound, FileActs, Ends DEF Ended
<1>3. CASE Go(c, "move aside") /\ UNCHANGED <<objects, temp>> /\ kind = "plain"
  <2>1. PlaceOK(kind, [call[c] EXCEPT !.pc = "move aside"])
    BY <1>1, <1>3, FileActs DEF PlaceOK, Pc, Call, Ended, OnServer, Writing, Buckets
  <2>2. QED
    BY <1>1, <1>3, <2>1, FileActs, GoesOn DEF Writing
<1>4. QED
  BY <1>2, <1>3 DEF RenameOver, RenameNew

LEMMA MovesAsideSound ==
  ASSUME KInv, SInv, NEW c \in Calls, MoveAside(c) \/ NothingToMove(c) PROVE SInv'
<1>1. Pc(c) = "move aside" /\ UNCHANGED temp /\ Keep /\ kind # "local"
  BY FileActs DEF MoveAside, NothingToMove, PlaceOK, Pc, Awry
<1>2. CASE MoveAside(c)
  <2>1. ObjOK(kind, aside'[c]) /\ \A d \in Calls \ {c} : aside'[d] = aside[d]
    BY <1>2, FileActs DEF MoveAside
  <2>2. \A p \in Paths : ObjOK(kind, objects'[p])
    BY <1>2, FileActs DEF MoveAside, ObjOK
  <2>3. PlaceOK(kind, [call[c] EXCEPT !.pc = "take its place"])
    BY <1>1, FileActs DEF PlaceOK, Pc, Call, Ended, OnServer, Writing, Buckets
  <2>4. Then(c, "take its place")
    BY <1>2 DEF MoveAside
  <2>5. QED
    BY <1>1, <2>1, <2>2, <2>3, <2>4, FileActs, GoesOn DEF Writing
<1>3. CASE NothingToMove(c)
  <2>1. PlaceOK(kind, [call[c] EXCEPT !.pc = "clear"])
    BY <1>1, FileActs DEF PlaceOK, Pc, Call, Ended, OnServer, Writing, Buckets, Awry
  <2>2. Go(c, "clear") /\ UNCHANGED <<objects, aside>>
    BY <1>3 DEF NothingToMove
  <2>3. QED
    BY <1>1, <2>1, <2>2, FileActs, GoesOn DEF Writing
<1>4. QED
  BY <1>2, <1>3

LEMMA TakePlaceSound == ASSUME KInv, SInv, NEW c \in Calls, TakePlace(c) PROVE SInv'
<1>1. Pc(c) = "take its place" /\ UNCHANGED aside /\ Keep /\ kind # "local"
  BY FileActs DEF TakePlace, PlaceOK, Pc, Awry
<1>2. CASE Place(c) /\ Then(c, "remove old")
  <2>1. Steady(c) /\ call'[c].pc \in {"remove old", "failed"}
    BY <1>2, FileActs, ThenSets
  <2>2. /\ \A p \in Paths : ObjOK(kind, objects'[p])
        /\ temp'[c] = Absent /\ \A d \in Calls \ {c} : temp'[d] = temp[d]
    BY <1>1, <1>2, PlaceSound, FileActs
  <2>3. PlaceOK(kind, call'[c])
    BY <1>1, <2>1, FileActs DEF PlaceOK, Steady, Pc, Ended, OnServer, Awry, Writing
  <2>4. TempOK(kind, call'[c], temp'[c])
    BY <2>1, <2>2 DEF TempOK, Writing
  <2>5. CallOK(kind, call'[c], temp'[c], aside'[c])
    BY <1>1, <2>3, <2>4, FileActs DEF CallOK
  <2>6. /\ kind' = kind
        /\ \A d \in Calls \ {c} :
             call'[d] = call[d] /\ temp'[d] = temp[d] /\ aside'[d] = aside[d]
    BY <1>1, <2>1, <2>2 DEF Steady, Keep
  <2>7. QED
    BY <2>2, <2>5, <2>6, OneStep
<1>3. CASE Go(c, "restore") /\ UNCHANGED <<objects, temp>>
  <2>1. PlaceOK(kind, [call[c] EXCEPT !.pc = "restore"])
    BY <1>1, FileActs DEF PlaceOK, Pc, Call, Ended, OnServer, Writing, Buckets
  <2>2. QED
    BY <1>1, <1>3, <2>1, FileActs, GoesOn DEF Writing
<1>4. QED
  BY <1>2, <1>3 DEF TakePlace

LEMMA RestoreSound == ASSUME KInv, SInv, NEW c \in Calls, Restore(c) PROVE SInv'
<1>1. Pc(c) = "restore" /\ UNCHANGED temp /\ Keep /\ Then(c, "clear")
  BY DEF Restore
<1>2. /\ ObjOK(kind, aside'[c]) /\ \A d \in Calls \ {c} : aside'[d] = aside[d]
      /\ \A p \in Paths : ObjOK(kind, objects'[p])
  <2>1. CASE objects[Dst(c)] = Absent
    BY <2>1, FileActs DEF Restore, ObjOK
  <2>2. CASE UNCHANGED <<objects, aside>>
    BY <2>2, FileActs
  <2>3. QED
    BY <2>1, <2>2 DEF Restore
<1>3. PlaceOK(kind, [call[c] EXCEPT !.pc = "clear"])
  BY <1>1, FileActs DEF PlaceOK, Pc, Call, Ended, OnServer, Writing, Buckets, Awry
<1>4. QED
  BY <1>1, <1>2, <1>3, FileActs, GoesOn DEF Writing

LEMMA EndingsSound ==
  ASSUME KInv, SInv, NEW c \in Calls, RemoveOld(c) \/ Clear(c) \/ Remove(c) PROVE SInv'
<1>1. /\ Keep /\ Pc(c) # "idle"
      /\ temp' \in {temp, [temp EXCEPT ![c] = Absent]}
      /\ aside' \in {aside, [aside EXCEPT ![c] = Absent]}
  BY DEF RemoveOld, Clear, Remove
<1>2. \A p \in Paths : ObjOK(kind, objects'[p])
  BY FileActs DEF RemoveOld, Clear, Remove, ObjOK
<1>3. PICK l \in Ended : Go(c, l) \/ Then(c, l)
  BY DEF RemoveOld, Clear, Remove, Ended
<1>4. QED
  BY <1>1, <1>2, <1>3, FileActs, Ends

LEMMA StatFileSound == ASSUME KInv, SInv, NEW c \in Calls, StatFile(c) PROVE SInv'
<1>1. Pc(c) = "stat" /\ UNCHANGED <<objects, temp, aside>> /\ Keep
  BY DEF StatFile
<1>2. CASE Go(c, "copy") /\ Ask(c).op = "copy"
  <2>1. PlaceOK(kind, [call[c] EXCEPT !.pc = "copy"])
    BY <1>1, <1>2, FileActs DEF PlaceOK, Pc, Ask, Call, Ended, OnServer, Writing, Buckets
  <2>2. QED
    BY <1>1, <1>2, <2>1, FileActs, GoesOn DEF Writing
<1>3. CASE \E l \in {"missing", "ok"} : Go(c, l)
  BY <1>1, <1>3, FileActs, Ends DEF Ended
<1>4. QED
  BY <1>2, <1>3 DEF StatFile

\* The copies cp makes: the file has no recorded checksum whoever made it.
LEMMA CopyRestSound ==
  ASSUME KInv, SInv, NEW c \in Calls, CopyRest(c), Pc(c) \in {"copying", "copying alone"}
  PROVE  \A p \in Paths : ObjOK(kind, objects'[p])
<1>1. CASE objects' = objects
  BY <1>1, FileActs
<1>2. CASE ~Overtaken(c)
  <2>1. DEFINE f == [objects[Dst(c)] EXCEPT !.data = call[c].data]
  <2>2. objects' = [objects EXCEPT ![Dst(c)] = f]
    BY <1>2 DEF CopyRest
  <2>3. /\ objects[Dst(c)] \in Files /\ ObjOK(kind, objects[Dst(c)])
        /\ objects[Dst(c)] # Absent
    BY <1>2, FileActs DEF Overtaken
  <2>4. call[c].data # None /\ kind # "local" /\ kind \notin Buckets
    BY FileActs DEF PlaceOK, Pc, Awry, OnServer, Ended
  <2>5. ObjOK(kind, f)
    BY <2>3, <2>4 DEF ObjOK, Files
  <2> HIDE DEF f
  <2>6. QED
    BY <2>2, <2>5, FileActs
<1>3. QED
  BY <1>1, <1>2 DEF CopyRest

LEMMA CopiesSound ==
  ASSUME KInv, SInv, NEW c \in Calls, CopyFinish(c) \/ CopyAlone(c) PROVE SInv'
<1>1. /\ UNCHANGED <<temp, aside>> /\ Keep /\ Pc(c) \in {"copying", "copying alone"}
      /\ CopyRest(c) /\ \E l \in Ended : Go(c, l) \/ Then(c, l)
  BY DEF CopyFinish, CopyAlone, Ended
<1>2. QED
  BY <1>1, FileActs, CopyRestSound, Ends

LEMMA CopyStartsSound ==
  ASSUME KInv, SInv, NEW c \in Calls, CopyInPlace(c) \/ CopyLeft(c) PROVE SInv'
<1>1. UNCHANGED <<temp, aside>> /\ Keep /\ Pc(c) \in {"copy", "copying"}
  BY DEF CopyInPlace, CopyLeft
<1>2. PICK r : /\ call' = [call EXCEPT ![c] = r] /\ r.data # None
               /\ r.pc \in {"copying", "copying alone"}
               /\ r.ask = call[c].ask /\ r.todo = call[c].todo /\ (call[c].cut => r.cut)
  <2>1. CASE CopyInPlace(c)
    <3>1. DEFINE r == [call[c] EXCEPT !.pc = "copying", !.data = objects[Src(c)].data]
    <3>2. call' = [call EXCEPT ![c] = r] /\ objects[Src(c)].data # None
      BY <2>1, FileActs DEF CopyInPlace, ObjOK
    <3>3. /\ r.pc = "copying" /\ r.ask = call[c].ask /\ r.todo = call[c].todo /\ (call[c].cut => r.cut)
          /\ r.data = objects[Src(c)].data
      BY FileActs DEF Call
    <3> HIDE DEF r
    <3>4. QED
      BY <3>2, <3>3
  <2>2. CASE CopyLeft(c)
    <3>1. DEFINE r == [call[c] EXCEPT !.pc = "copying alone", !.cut = TRUE]
    <3>2. call' = [call EXCEPT ![c] = r] /\ Pc(c) = "copying"
      BY <2>2 DEF CopyLeft
    <3>3. /\ r.pc = "copying alone" /\ r.ask = call[c].ask /\ r.todo = call[c].todo /\ (call[c].cut => r.cut)
          /\ r.data = call[c].data
      BY FileActs DEF Call
    <3>4. call[c].data # None
      BY <3>2, FileActs DEF PlaceOK, Pc
    <3> HIDE DEF r
    <3>5. QED
      BY <3>2, <3>3, <3>4
  <2>3. QED
    BY <2>1, <2>2
<1>3. kind # "local" /\ kind \notin Buckets
  BY <1>1, FileActs DEF PlaceOK, Pc, Awry, OnServer, Ended
<1>4. \A p \in Paths : ObjOK(kind, objects'[p])
  <2>1. CASE CopyInPlace(c)
    <3>1. DEFINE f == Object(Partial, None, TRUE, c)
    <3>2. ObjOK(kind, f)
      BY DataAssumption DEF ObjOK, Object
    <3>3. objects' = [objects EXCEPT ![Dst(c)] = f]
      BY <2>1 DEF CopyInPlace
    <3> HIDE DEF f
    <3>4. QED
      BY <3>2, <3>3, FileActs
  <2>2. CASE CopyLeft(c)
    BY <2>2, FileActs DEF CopyLeft
  <2>3. QED
    BY <2>1, <2>2
<1>5. call'[c] = r /\ \A d \in Calls \ {c} : call'[d] = call[d]
  BY <1>2 DEF KInv, BackendTypeOK
<1>6. PlaceOK(kind, r)
  BY <1>1, <1>2, <1>3, FileActs DEF PlaceOK, Pc, Ended, OnServer, Awry, Writing
<1>7. TempOK(kind, r, temp[c])
  BY <1>2, FileActs DEF TempOK, Writing
<1>8. QED
  BY <1>1, <1>4, <1>5, <1>6, <1>7, FileActs, OneStep DEF CallOK, Keep

----------------------------------------------------------------------------
\* A request of a call goes to a bucket, and asks what the call has still to do.
LEMMA BucketCall ==
  ASSUME KInv, SInv, NEW c \in Calls, Pc(c) \in OnServer
  PROVE  /\ kind \in Buckets /\ kind # "local" /\ call[c].data = Ask(c).data
         /\ Ask(c).op # "copy" => call[c].todo = <<Ask(c).op>>
         /\ Ask(c).op = "copy" => call[c].todo \in {<<"stat", "copy">>, <<"copy">>}
BY FileActs DEF PlaceOK, Pc, Ask, Parts, OnServer, Buckets

LEMMA ArrivedAsks ==
  ASSUME KInv, SInv, NEW c \in Calls, NEW part, Arrived(c, part)
  PROVE  /\ Pc(c) \in OnServer /\ kind \in Buckets /\ call[c].data = Ask(c).data
         /\ call[c].body = "whole"
         /\ part = "copy" => Ask(c).op = "copy" /\ Len(call[c].todo) = 1
         /\ Len(call[c].todo) = 1 => Ask(c).op = part
         /\ Len(call[c].todo) # 1 => /\ part = "stat" /\ Ask(c).op = "copy"
                                     /\ Tail(call[c].todo) = <<"copy">>
<1>1. Pc(c) \in OnServer /\ call[c].body = "whole"
  BY FileActs DEF Arrived, OnServer, PlaceOK, Pc
<1>2. /\ Head(<<"stat", "copy">>) = "stat" /\ Len(<<"stat", "copy">>) = 2
      /\ Tail(<<"stat", "copy">>) = <<"copy">>
      /\ Head(<<"copy">>) = "copy" /\ Len(<<"copy">>) = 1
      /\ Head(<<Ask(c).op>>) = Ask(c).op /\ Len(<<Ask(c).op>>) = 1
  OBVIOUS
<1>3. Head(call[c].todo) = part
  BY DEF Arrived
<1>4. kind \in Buckets /\ call[c].data = Ask(c).data
  BY <1>1, BucketCall
<1>5. CASE Ask(c).op = "copy" /\ call[c].todo = <<"stat", "copy">>
  <2>1. Len(call[c].todo) # 1 /\ part = "stat" /\ Tail(call[c].todo) = <<"copy">>
    BY <1>2, <1>3, <1>5
  <2>2. QED
    BY <1>1, <1>4, <1>5, <2>1
<1>6. CASE call[c].todo = <<Ask(c).op>>
  <2>1. Len(call[c].todo) = 1 /\ part = Ask(c).op
    BY <1>2, <1>3, <1>6
  <2>2. QED
    BY <1>1, <1>4, <2>1
<1>7. QED
  BY <1>1, <1>5, <1>6, BucketCall

\* A step of a call on a bucket that only goes elsewhere there.
LEMMA ServerStep ==
  ASSUME KInv, SInv, NEW c \in Calls, NEW r, call' = [call EXCEPT ![c] = r],
         Pc(c) \in OnServer, r.pc \in OnServer \cup Ended,
         r.ask = call[c].ask, r.data = call[c].data,
         r.todo = call[c].todo \/ (r.todo = <<"copy">> /\ Ask(c).op = "copy"),
         r.pc \in {"sent", "resent"} => r.body = "whole",
         UNCHANGED <<temp, aside, kind>>,
         \A p \in Paths : ObjOK(kind, objects'[p])
  PROVE  SInv'
<1>1. call'[c] = r /\ \A d \in Calls \ {c} : call'[d] = call[d]
  BY DEF KInv, BackendTypeOK
<1>2. PlaceOK(kind, r)
  BY BucketCall, FileActs DEF PlaceOK, Pc, Ask, Ended, OnServer, Awry, Writing
<1>3. TempOK(kind, r, temp[c])
  BY FileActs DEF TempOK, Writing, OnServer, Ended
<1>4. QED
  BY <1>1, <1>2, <1>3, FileActs, OneStep DEF CallOK

LEMMA AnsweredSound ==
  ASSUME KInv, SInv, NEW c \in Calls, NEW part, Arrived(c, part), Answered(c),
         UNCHANGED <<temp, aside>>, Keep,
         \A p \in Paths : ObjOK(kind, objects'[p])
  PROVE  SInv'
<1>1. CASE Then(c, "ok")
  BY <1>1, FileActs, Ends DEF Arrived, Ended
<1>2. CASE Len(call[c].todo) # 1
  <2>1. DEFINE r == [call[c] EXCEPT !.pc = "send", !.todo = Tail(call[c].todo)]
  <2>2. call' = [call EXCEPT ![c] = r]
    BY <1>2 DEF Answered
  <2>3. /\ r.pc = "send" /\ r.ask = call[c].ask /\ r.data = call[c].data
        /\ r.todo = Tail(call[c].todo)
    BY FileActs DEF Call
  <2> HIDE DEF r
  <2>4. QED
    BY <1>2, <2>2, <2>3, ArrivedAsks, ServerStep DEF OnServer, Keep
<1>3. QED
  BY <1>1, <1>2 DEF Answered

LEMMA BucketSound == ASSUME KInv, SInv, NEW c \in Calls, BucketStep(c) PROVE SInv'
<1>1. UNCHANGED <<temp, aside, kind>> /\ Pc(c) \in OnServer
  BY DEF BucketStep, Send, Redirected, UseRegion, PutObject, CommitTruncated, DeleteObject,
     HeadObject, CopyObject, Keep, Arrived, OnServer
<1>2. CASE Send(c) \/ Redirected(c)
  <2>1. PICK r : /\ call' = [call EXCEPT ![c] = r] /\ r.pc \in OnServer \cup Ended
                 /\ r.ask = call[c].ask /\ r.data = call[c].data /\ r.todo = call[c].todo /\ (call[c].cut => r.cut)
                 /\ r.pc \in {"sent", "resent"} => r.body = "whole"
    <3>1. CASE Send(c)
      <4>1. DEFINE r == [call[c] EXCEPT !.pc = IF Pc(c) = "send" THEN "sent" ELSE "resent",
                                        !.at = region, !.body = "whole"]
      <4>2. call' = [call EXCEPT ![c] = r]
        BY <3>1 DEF Send
      <4>3. /\ r.pc \in {"sent", "resent"} /\ r.body = "whole" /\ r.ask = call[c].ask
            /\ r.data = call[c].data /\ r.todo = call[c].todo /\ (call[c].cut => r.cut)
        BY FileActs DEF Call
      <4> HIDE DEF r
      <4>4. QED
        BY <4>2, <4>3 DEF OnServer
    <3>2. CASE Redirected(c)
      <4>1. DEFINE r == [call[c] EXCEPT
                           !.pc = IF Pc(c) = "sent" THEN "redirected" ELSE "misdirected",
                           !.body = "spent"]
      <4>2. call' = [call EXCEPT ![c] = r]
        BY <3>2 DEF Redirected
      <4>3. /\ r.pc \in {"redirected", "misdirected"} /\ r.ask = call[c].ask
            /\ r.data = call[c].data /\ r.todo = call[c].todo /\ (call[c].cut => r.cut)
        BY FileActs DEF Call
      <4> HIDE DEF r
      <4>4. QED
        BY <4>2, <4>3 DEF OnServer, Ended
    <3>3. QED
      BY <1>2, <3>1, <3>2
  <2>2. objects' = objects
    BY <1>2 DEF Send, Redirected
  <2>3. \A p \in Paths : ObjOK(kind, objects'[p])
    BY <2>2, FileActs
  <2>4. QED
    BY <1>1, <2>1, <2>3, ServerStep
<1>3. CASE UseRegion(c)
  <2>1. PICK l \in {"misdirected", "resend"} : Go(c, l)
    BY <1>3 DEF UseRegion
  <2>2. DEFINE r == [call[c] EXCEPT !.pc = l]
  <2>3. call' = [call EXCEPT ![c] = r]
    BY <2>1 DEF Go
  <2>4. /\ r.pc = l /\ r.ask = call[c].ask /\ r.data = call[c].data /\ r.todo = call[c].todo /\ (call[c].cut => r.cut)
    BY FileActs DEF Call
  <2> HIDE DEF r
  <2>5. \A p \in Paths : ObjOK(kind, objects'[p])
    BY <1>3, FileActs DEF UseRegion
  <2>6. QED
    BY <1>1, <2>1, <2>3, <2>4, <2>5, ServerStep DEF OnServer, Ended
<1>4. CASE PutObject(c)
  <2>1. DEFINE f == Object(call[c].data, call[c].data, TRUE, c)
  <2>2. Arrived(c, "put") /\ Answered(c) /\ Keep
    BY <1>4 DEF PutObject
  <2>3. call[c].body = "whole" /\ Ask(c).data \in Contents /\ call[c].data = Ask(c).data
    <3>1. Ask(c).op = "put" /\ call[c].body = "whole" /\ call[c].data = Ask(c).data
      BY <2>2, ArrivedAsks
    <3>2. Ask(c) \in Requests
      BY FileActs, CallTyped
    <3>3. QED
      BY <3>1, <3>2, RequestAssumption
  <2>4. objects' = [objects EXCEPT ![Dst(c)] = f]
    BY <1>4, <2>3 DEF PutObject
  <2>5. ObjOK(kind, f)
    BY <1>1, <2>3, BucketCall, DataAssumption DEF ObjOK, Object
  <2> HIDE DEF f
  <2>6. \A p \in Paths : ObjOK(kind, objects'[p])
    BY <2>4, <2>5, FileActs
  <2>7. QED
    BY <1>1, <2>2, <2>6, AnsweredSound
<1>5. CASE CommitTruncated(c)
  <2>1. DEFINE f == Object(Partial, call[c].data, TRUE, c)
  <2>2. objects' = [objects EXCEPT ![Dst(c)] = f] /\ kind = "gcs" /\ Keep /\ Go(c, "failed")
    BY <1>5 DEF CommitTruncated
  <2>3. ObjOK(kind, f)
    BY <2>2, DataAssumption DEF ObjOK, Object, Buckets
  <2> HIDE DEF f
  <2>4. \A p \in Paths : ObjOK(kind, objects'[p])
    BY <2>2, <2>3, FileActs
  <2>5. QED
    BY <1>1, <2>2, <2>4, FileActs, Ends DEF Ended, OnServer
<1>6. CASE DeleteObject(c)
  <2>1. \A p \in Paths : ObjOK(kind, objects'[p])
    BY <1>6, FileActs DEF DeleteObject, ObjOK
  <2>2. QED
    BY <1>1, <1>6, <2>1, AnsweredSound DEF DeleteObject
<1>7. CASE HeadObject(c)
  <2>1. Keep /\ Arrived(c, "stat") /\ \A p \in Paths : ObjOK(kind, objects'[p])
    BY <1>7, FileActs DEF HeadObject
  <2>2. CASE Go(c, "missing")
    BY <1>1, <2>1, <2>2, FileActs, Ends DEF Ended, OnServer
  <2>3. CASE Answered(c)
    BY <1>1, <2>1, <2>3, AnsweredSound
  <2>4. QED
    BY <1>7, <2>2, <2>3 DEF HeadObject
<1>8. CASE CopyObject(c)
  <2>1. Keep /\ Arrived(c, "copy")
    BY <1>8 DEF CopyObject
  <2>2. CASE objects[Src(c)] = Absent
    <3>1. PICK l \in {"missing", "failed"} : Go(c, l) /\ UNCHANGED objects
      BY <1>8, <2>2 DEF CopyObject
    <3>2. \A p \in Paths : ObjOK(kind, objects'[p])
      BY <3>1, FileActs
    <3>3. QED
      BY <1>1, <2>1, <3>1, <3>2, FileActs, Ends DEF Ended, OnServer
  <2>3. CASE objects[Src(c)] # Absent
    <3>1. DEFINE f == [objects[Src(c)] EXCEPT !.by = c]
    <3>2. objects' = [objects EXCEPT ![Dst(c)] = f] /\ Answered(c)
      BY <1>8, <2>3 DEF CopyObject
    <3>3. objects[Src(c)] \in Files /\ ObjOK(kind, objects[Src(c)])
      BY <2>3, FileActs
    <3>4. ObjOK(kind, f)
      BY <2>3, <3>3 DEF ObjOK, Files
    <3> HIDE DEF f
    <3>5. \A p \in Paths : ObjOK(kind, objects'[p])
      BY <3>2, <3>4, FileActs
    <3>6. QED
      BY <1>1, <2>1, <3>2, <3>5, AnsweredSound
  <2>4. QED
    BY <2>2, <2>3
<1>9. QED
  BY <1>2, <1>3, <1>4, <1>5, <1>6, <1>7, <1>8 DEF BucketStep

----------------------------------------------------------------------------
LEMMA BeginSound == ASSUME KInv, SInv, NEW c \in Calls, Begin(c) PROVE SInv'
<1>1. PICK q \in Requests :
        call' = [call EXCEPT ![c] = [@ EXCEPT !.pc = Entry(q), !.ask = q, !.data = q.data,
                                              !.todo = Parts(q)]]
  BY DEF Begin
<1>2. DEFINE r == [call[c] EXCEPT !.pc = Entry(q), !.ask = q, !.data = q.data, !.todo = Parts(q)]
<1>3. call'[c] = r /\ \A d \in Calls \ {c} : call'[d] = call[d]
  BY <1>1 DEF KInv, BackendTypeOK
<1>4. r.pc = Entry(q) /\ r.ask = q /\ r.data = q.data /\ r.todo = Parts(q)
  BY FileActs DEF Call
<1>5. q.op \in Ops /\ (q.op = "put" => q.data \in Contents)
  BY RequestAssumption
<1>6. UNCHANGED <<kind, objects, temp, aside>>
  BY DEF Begin
<1>7. \/ kind \in Buckets /\ Entry(q) = "send"
      \/ kind \notin Buckets /\ q.op = "put" /\ Entry(q) = "create"
      \/ kind \notin Buckets /\ Entry(q) = "remove"
      \/ kind \notin Buckets /\ q.op = "stat" /\ Entry(q) = "stat"
      \/ kind = "local" /\ q.op = "copy" /\ Entry(q) = "open"
      \/ kind \notin Buckets \cup {"local"} /\ q.op = "copy" /\ Entry(q) = "stat"
  BY <1>5 DEF Entry, OnBuckets, Buckets, Ops
<1> HIDE DEF r
<1>8. PlaceOK(kind, r)
  BY <1>4, <1>5, <1>7, DataAssumption
     DEF PlaceOK, Ended, OnServer, Awry, Writing, Buckets, Ops
<1>9. TempOK(kind, r, temp[c])
  BY <1>4, <1>7, FileActs DEF TempOK, Writing
<1>10. CallOK(kind, call'[c], temp'[c], aside'[c])
  BY <1>3, <1>6, <1>8, <1>9, FileActs DEF CallOK
<1>11. QED
  BY <1>3, <1>6, <1>10, FileActs, OneStep

LEMMA RefuseSound == ASSUME KInv, SInv, NEW c \in Calls, Refuse(c) PROVE SInv'
<1>1. UNCHANGED <<objects, temp, aside>> /\ Keep /\ Running(c) /\ Pc(c) # "idle"
  BY DEF Refuse, Running
<1> DEFINE l == OnError(c)
<1>2. /\ Go(c, l)
      /\ \/ l = "move aside" /\ Pc(c) = "rename" /\ kind = "plain"
         \/ l = "restore" /\ Pc(c) = "take its place"
         \/ l = "clear" /\ Pc(c) \in {"write", "sync", "rename", "move aside", "restore"}
         \/ l \in {"ok", "failed", "littered"}
  <2>1. Go(c, l)
    BY DEF Refuse
  <2>2. \/ l = "move aside" /\ Pc(c) = "rename" /\ kind = "plain"
        \/ l = "restore" /\ Pc(c) = "take its place"
        \/ l = "clear" /\ Pc(c) \in {"write", "sync", "rename", "move aside", "restore"}
        \/ l \in {"ok", "failed", "littered"}
    BY DEF OnError
  <2>3. QED
    BY <2>1, <2>2
<1> HIDE DEF l
<1>3. CASE l \in {"ok", "failed", "littered"}
  BY <1>1, <1>2, <1>3, FileActs, Ends DEF Ended
<1>4. CASE l \in {"move aside", "restore", "clear"}
  <2>1. PlaceOK(kind, [call[c] EXCEPT !.pc = l])
    BY <1>2, <1>4, FileActs DEF PlaceOK, Pc, Call, Ended, OnServer, Writing, Buckets, Awry
  <2>2. l \in Writing \ {"write"} => Pc(c) \in Writing \ {"write"}
    BY <1>2, <1>4 DEF Writing
  <2>3. QED
    BY <1>1, <1>2, <1>4, <2>1, <2>2, FileActs, GoesOn
<1>5. QED
  BY <1>2, <1>3, <1>4

\* Where a call is after its end was brought about from outside.
LEMMA EndOK ==
  ASSUME KInv, SInv, NEW c \in Calls, Pc(c) # "idle", NEW l \in Ended,
         NEW t \in {temp[c], AfterCut(temp[c])}
  PROVE  CallOK(kind, [call[c] EXCEPT !.pc = l, !.cut = TRUE], t, aside[c])
<1>1. DEFINE r == [call[c] EXCEPT !.pc = l, !.cut = TRUE]
<1>2. /\ r.pc = l /\ r.ask = call[c].ask /\ r.data = call[c].data /\ r.todo = call[c].todo /\ (call[c].cut => r.cut)
      /\ r.at = call[c].at /\ r.body = call[c].body
  BY FileActs DEF Call
<1> HIDE DEF r
<1>3. PlaceOK(kind, r)
  BY <1>2, FileActs DEF PlaceOK, Pc, Ended, OnServer, Awry, Writing
<1>4. t # Absent => t.data # None /\ t.sum = None
  BY FileActs, DataAssumption DEF TempOK, AfterCut, Files
<1>5. TempOK(kind, r, t)
  BY <1>2, <1>4 DEF TempOK, Ended, Writing
<1>6. QED
  BY <1>3, <1>5, FileActs DEF CallOK, r

LEMMA CutSound == ASSUME KInv, SInv, NEW c \in Calls, Cut(c) PROVE SInv'
<1>1. DEFINE l == IF Pc(c) = "remove old" THEN "ok" ELSE "failed"
<1>2. l \in Ended /\ Pc(c) # "idle" /\ UNCHANGED <<objects, temp, aside, kind>>
  BY DEF Cut, Keep, Running, Ended
<1>3. call' = [call EXCEPT ![c] = [call[c] EXCEPT !.pc = l, !.cut = TRUE]]
  BY DEF Cut
<1>4. /\ call'[c] = [call[c] EXCEPT !.pc = l, !.cut = TRUE]
      /\ \A d \in Calls \ {c} : call'[d] = call[d]
  BY <1>3 DEF KInv, BackendTypeOK
<1> HIDE DEF l
<1>5. CallOK(kind, call'[c], temp'[c], aside'[c])
  BY <1>2, <1>4, EndOK
<1>6. QED
  BY <1>2, <1>4, <1>5, FileActs, OneStep

\* A local directory holds only what was synced, so the power takes no object.
LEMMA PowerKeeps ==
  ASSUME KInv, SInv, PowerCut
  PROVE  objects' = objects
<1>1. objects \in [Paths -> Files \cup {Absent}] /\ kind = "local"
  BY DEF KInv, BackendTypeOK, PowerCut
<1>2. ASSUME NEW p \in Paths PROVE AfterCut(objects[p]) = objects[p]
  BY <1>1 DEF SInv, ObjOK, AfterCut
<1>3. objects' = [p \in Paths |-> AfterCut(objects[p])]
  BY DEF PowerCut
<1>4. QED
  BY <1>1, <1>2, <1>3

LEMMA PowerCutSound == ASSUME KInv, SInv, PowerCut PROVE SInv'
<1>1. objects' = objects /\ kind' = kind /\ aside' = aside
  BY PowerKeeps DEF PowerCut
<1>2. ASSUME NEW c \in Calls PROVE CallOK(kind, call'[c], temp'[c], aside'[c])
  <2>1. temp'[c] = AfterCut(temp[c])
    BY DEF PowerCut
  <2>2. CASE Running(c)
    <3>1. call'[c] = [call[c] EXCEPT !.pc = "failed", !.cut = TRUE]
      BY <2>2 DEF PowerCut
    <3>2. Pc(c) # "idle" /\ "failed" \in Ended
      BY <2>2 DEF Running, Ended
    <3>3. QED
      BY <1>1, <2>1, <3>1, <3>2, EndOK
  <2>3. CASE ~Running(c)
    <3>1. call'[c] = call[c] /\ Pc(c) \in Ended \cup {"idle", "copying alone"}
      BY <2>3 DEF PowerCut, Running
    <3>2. temp'[c] # Absent => temp'[c].data # None /\ temp'[c].sum = None
      BY <2>1, FileActs, DataAssumption DEF TempOK, AfterCut, Files
    <3>3. TempOK(kind, call'[c], temp'[c])
      BY <3>1, <3>2 DEF TempOK, Writing, Ended, Pc
    <3>4. QED
      BY <1>1, <3>1, <3>3, FileActs DEF CallOK
  <2>4. QED
    BY <2>2, <2>3
<1>3. QED
  BY <1>1, <1>2 DEF SInv

LEMMA InitSound == Init => SInv
<1> SUFFICES ASSUME Init PROVE SInv
  OBVIOUS
<1>1. ASSUME NEW p \in Paths PROVE ObjOK(kind, objects[p])
  BY <1>1, RequestAssumption, DataAssumption DEF Init, ObjOK, Object, Buckets
<1>2. ASSUME NEW c \in Calls PROVE CallOK(kind, call[c], temp[c], aside[c])
  <2>1. temp[c] = Absent /\ aside[c] = Absent /\ call[c].pc = "idle"
    BY DEF Init
  <2>2. QED
    BY <2>1 DEF CallOK, PlaceOK, TempOK, ObjOK, OnServer, Ended, Awry, Writing
<1>3. QED
  BY <1>1, <1>2 DEF SInv

LEMMA NextSound == KInv /\ SInv /\ [Next]_vars => SInv'
<1> SUFFICES ASSUME KInv, SInv, [Next]_vars PROVE SInv'
  OBVIOUS
<1>1. CASE UNCHANGED vars
  BY <1>1 DEF vars, SInv
<1>2. ASSUME NEW c \in Calls, FileStep(c) PROVE SInv'
  BY <1>2, OpenSourceSound, WritesSound, RenamesSound, MovesAsideSound, TakePlaceSound,
     RestoreSound, EndingsSound, StatFileSound, CopiesSound, CopyStartsSound DEF FileStep
<1>3. QED
  BY <1>1, <1>2, BeginSound, BucketSound, RefuseSound, CutSound, PowerCutSound DEF Next, AllEnded

LEMMA StoreInv == Spec => [](KInv /\ SInv)
<1>1. Init => KInv /\ SInv
  BY InitKInv, InitSound
<1>2. KInv /\ SInv /\ [Next]_vars => (KInv /\ SInv)'
  BY NextKeeps, NextSound
<1>3. QED
  BY <1>1, <1>2, PTL DEF Spec

\* On every backend, and for every content, the checksum recorded beside an
\* object is that of what it holds, but for the truncated objects GCS makes
\* (s3.go:390-393, gcs.go:132-134).
THEOREM SumsTrue == Spec => []RecordedTrue
<1>1. SInv => RecordedTrue
  BY DEF SInv, ObjOK, RecordedTrue
<1>2. QED
  BY <1>1, StoreInv, PTL

----------------------------------------------------------------------------
(* What a path can hold.                                                   *)

\* What the call at r may leave in the file f it makes.
Sort(k, r, f) ==
  \/ r.ask.op = "put" /\ f.data = r.ask.data
  \/ r.ask.op = "copy" /\ f.data \in Contents
  \/ /\ f.data = Partial
     /\ \/ k = "gcs" /\ (r.ask.op = "put" => r.pc = "failed")
        \/ k \in {"posix", "plain"} /\ r.ask.op = "copy"

\* With the calls at m: f is a file p had at first, or one a call onto p made.
Fit(k, m, p, f) ==
  f # Absent => \/ f.by = None /\ f.data = InitialData[p]
                \/ /\ f.by \in Calls /\ m[f.by].pc # "idle" /\ m[f.by].ask.path = p
                   /\ Sort(k, m[f.by], f)

\* A call that has a file to write has all of it in hand.
Ready(k, r) ==
  /\ r.pc = "open" => k = "local"
  /\ r.pc \in {"create"} \cup Writing =>
       \/ r.ask.op = "put" /\ r.data = r.ask.data
       \/ r.ask.op = "copy" /\ r.data \in Contents

FInv == /\ \A p \in Paths : Fit(kind, call, p, objects[p])
        /\ \A c \in Calls : /\ Fit(kind, call, Dst(c), aside[c])
                            /\ Ready(kind, call[c])
                            /\ temp[c] # Absent => temp[c].by = c

\* No call takes back what it has asked, and one that has failed has ended.
LEMMA FitStays ==
  ASSUME NEW k, NEW m, NEW n, NEW p, NEW f, Fit(k, m, p, f),
         \A d \in Calls : m[d].pc # "idle" =>
           /\ n[d].ask = m[d].ask /\ n[d].pc # "idle"
           /\ m[d].pc = "failed" => n[d].pc = "failed"
  PROVE  Fit(k, n, p, f)
<1> SUFFICES ASSUME f # Absent, f.by \in Calls, m[f.by].pc # "idle", m[f.by].ask.path = p,
                    Sort(k, m[f.by], f)
             PROVE  /\ n[f.by].pc # "idle" /\ n[f.by].ask.path = p
                    /\ Sort(k, n[f.by], f)
  BY DEF Fit
<1>1. /\ n[f.by].ask = m[f.by].ask /\ n[f.by].pc # "idle"
      /\ m[f.by].pc = "failed" => n[f.by].pc = "failed"
  OBVIOUS
<1>2. QED
  BY <1>1 DEF Sort

\* A step of c may take a file of its destination aside or back, and put one of
\* its own there.
LEMMA FitsOn ==
  ASSUME KInv, SInv, FInv, NEW c \in Calls, kind' = kind, Pc(c) \notin {"idle", "failed"},
         call'[c].ask = call[c].ask, call'[c].pc # "idle", Ready(kind, call'[c]),
         \A d \in Calls \ {c} :
           call'[d] = call[d] /\ temp'[d] = temp[d] /\ aside'[d] = aside[d],
         temp'[c] # Absent => temp'[c].by = c,
         aside'[c] \in {aside[c], Absent, objects[Dst(c)]},
         \A p \in Paths :
           \/ objects'[p] \in {objects[p], Absent}
           \/ p = Dst(c) /\ objects'[p] = aside[c]
           \/ p = Dst(c) /\ objects'[p].by = c /\ Sort(kind, call'[c], objects'[p])
  PROVE  FInv'
<1>1. \A d \in Calls : call[d].pc # "idle" =>
        /\ call'[d].ask = call[d].ask /\ call'[d].pc # "idle"
        /\ call[d].pc = "failed" => call'[d].pc = "failed"
  BY DEF Pc
<1>2. ASSUME NEW p \in Paths PROVE Fit(kind, call', p, objects[p])
  <2>1. Fit(kind, call, p, objects[p])
    BY DEF FInv
  <2>2. QED
    BY <1>1, <2>1, FitStays
<1>3. ASSUME NEW d \in Calls PROVE Fit(kind, call', Dst(d), aside[d])
  <2>1. Fit(kind, call, Dst(d), aside[d])
    BY DEF FInv
  <2>2. QED
    BY <1>1, <2>1, FitStays
<1>4. ASSUME NEW d \in Calls PROVE Dst(d)' = Dst(d) /\ Dst(d) \in Paths
  <2>1. call'[d].ask = call[d].ask
    OBVIOUS
  <2>2. QED
    BY <2>1, FileActs DEF Dst, Ask
<1>5. ASSUME NEW p \in Paths PROVE Fit(kind, call', p, objects'[p])
  <2>1. CASE objects'[p] \in {objects[p], Absent}
    <3>1. Fit(kind, call', p, Absent)
      BY DEF Fit
    <3>2. QED
      BY <2>1, <1>2, <3>1
  <2>2. CASE p = Dst(c) /\ objects'[p] = aside[c]
    BY <2>2, <1>3
  <2>3. CASE p = Dst(c) /\ objects'[p].by = c /\ Sort(kind, call'[c], objects'[p])
    <3>1. call'[c].ask.path = p /\ call'[c].pc # "idle"
      BY <2>3 DEF Dst, Ask
    <3>2. QED
      BY <2>3, <3>1 DEF Fit
  <2>4. QED
    BY <2>1, <2>2, <2>3
<1>6. ASSUME NEW d \in Calls PROVE Fit(kind, call', Dst(d)', aside'[d])
  <2>1. CASE d # c
    BY <2>1, <1>3, <1>4
  <2>2. CASE d = c
    <3>1. Fit(kind, call', Dst(c), Absent)
      BY DEF Fit
    <3>2. Fit(kind, call', Dst(c), objects[Dst(c)])
      BY <1>2, <1>4
    <3>3. Fit(kind, call', Dst(c), aside'[c])
      BY <1>3, <3>1, <3>2
    <3>4. QED
      BY <2>2, <1>4, <3>3
  <2>3. QED
    BY <2>1, <2>2
<1>7. ASSUME NEW d \in Calls PROVE Ready(kind, call'[d])
  BY <1>7 DEF FInv
<1>8. ASSUME NEW d \in Calls PROVE temp'[d] # Absent => temp'[d].by = d
  BY <1>8 DEF FInv
<1>9. QED
  BY <1>5, <1>6, <1>7, <1>8 DEF FInv

\* A call that keeps its data stays ready, wherever it goes on to write.
LEMMA StaysReady ==
  ASSUME FInv, NEW c \in Calls, Steady(c), call'[c].pc # "open",
         call'[c].pc \in {"create"} \cup Writing => Pc(c) \in {"create"} \cup Writing
  PROVE  Ready(kind, call'[c])
BY DEF FInv, Steady, Ready, Pc

\* The steps that write no object.
LEMMA FitsQuietly ==
  ASSUME KInv, SInv, FInv, NEW c \in Calls, kind' = kind, Pc(c) \notin {"idle", "failed"},
         call'[c].ask = call[c].ask, call'[c].pc # "idle", Ready(kind, call'[c]),
         \A d \in Calls \ {c} : call'[d] = call[d],
         temp' \in [Calls -> Files \cup {Absent}],
         \A d \in Calls \ {c} : temp'[d] = temp[d],
         temp'[c] # Absent => temp'[c].by = c,
         aside' \in {aside, [aside EXCEPT ![c] = Absent]},
         \A p \in Paths : objects'[p] \in {objects[p], Absent}
  PROVE  FInv'
<1>1. /\ aside'[c] \in {aside[c], Absent, objects[Dst(c)]}
      /\ \A d \in Calls \ {c} : aside'[d] = aside[d]
  BY FileActs
<1>2. QED
  BY <1>1, FitsOn

\* The same of a step that only goes to another place.
LEMMA FitsGoing ==
  ASSUME KInv, SInv, FInv, NEW c \in Calls, Pc(c) \notin {"idle", "failed"}, NEW l,
         Go(c, l) \/ Then(c, l), kind' = kind, l \notin {"idle", "open"},
         l \in {"create"} \cup Writing => Pc(c) \in {"create"} \cup Writing,
         temp' \in {temp, [temp EXCEPT ![c] = Absent]},
         aside' \in {aside, [aside EXCEPT ![c] = Absent]},
         \A p \in Paths : objects'[p] \in {objects[p], Absent}
  PROVE  FInv'
<1>1. Steady(c) /\ call'[c].pc \in {l, "failed"}
  BY FileActs, GoSets, ThenSets
<1>2. Ready(kind, call'[c])
  BY <1>1, StaysReady DEF Writing
<1>3. /\ temp' \in [Calls -> Files \cup {Absent}]
      /\ \A d \in Calls \ {c} : temp'[d] = temp[d]
      /\ temp'[c] \in {temp[c], Absent}
  BY FileActs
<1>4. temp'[c] # Absent => temp'[c].by = c
  BY <1>3 DEF FInv
<1>5. QED
  BY <1>1, <1>2, <1>3, <1>4, FitsQuietly DEF Steady

\* What may be copied elsewhere is whole, but on GCS.
LEMMA HeldWhole ==
  ASSUME KInv, SInv, FInv, NEW p \in Paths, objects[p] # Absent, kind \in {"local", "s3", "gcs"}
  PROVE  objects[p].data \in Contents \/ (kind = "gcs" /\ objects[p].data = Partial)
<1>1. Fit(kind, call, p, objects[p]) /\ objects[p] \in Files
  BY DEF FInv, KInv, BackendTypeOK
<1>2. CASE objects[p].data = InitialData[p]
  <2>1. objects[p].data # Absent
    BY <1>1, DataAssumption DEF Files
  <2>2. QED
    BY <1>2, <2>1, RequestAssumption
<1>3. CASE objects[p].by \in Calls /\ Sort(kind, call[objects[p].by], objects[p])
  <2>1. PICK d \in Calls : Sort(kind, call[d], objects[p])
    BY <1>3
  <2>2. Ask(d) \in Requests
    BY CallTyped DEF KInv
  <2>3. Ask(d).op = "put" => Ask(d).data \in Contents
    BY <2>2, RequestAssumption
  <2>4. QED
    BY <2>1, <2>3 DEF Sort, Ask
<1>4. QED
  BY <1>1, <1>2, <1>3 DEF Fit

LEMMA OpenSourceFits == ASSUME KInv, SInv, FInv, NEW c \in Calls, OpenSource(c) PROVE FInv'
<1>1. Pc(c) = "open" /\ UNCHANGED <<objects, temp, aside>> /\ Keep /\ kind = "local"
  BY DEF OpenSource, FInv, Ready, Pc
<1>2. CASE Go(c, "missing")
  <2>1. /\ temp' \in {temp, [temp EXCEPT ![c] = Absent]} /\ kind' = kind
        /\ aside' \in {aside, [aside EXCEPT ![c] = Absent]}
        /\ \A p \in Paths : objects'[p] \in {objects[p], Absent}
    BY <1>1, <1>2 DEF Keep
  <2>2. /\ "missing" \notin {"idle", "open"}
        /\ "missing" \in {"create"} \cup Writing => "open" \in {"create"} \cup Writing
    BY DEF Writing
  <2>3. QED
    BY <1>1, <1>2, <2>1, <2>2, FitsGoing
<1>3. CASE objects[Src(c)] # Absent
  <2>1. DEFINE r == [call[c] EXCEPT !.pc = "create", !.data = objects[Src(c)].data]
  <2>2. call'[c] = r /\ \A d \in Calls \ {c} : call'[d] = call[d]
    BY <1>3 DEF OpenSource, KInv, BackendTypeOK
  <2>3. r.pc = "create" /\ r.data = objects[Src(c)].data /\ r.ask = call[c].ask
    BY FileActs DEF Call
  <2>4. r.ask.op = "copy"
    BY <1>1, <2>3, FileActs DEF PlaceOK, Pc
  <2>5. r.data \in Contents
    BY <1>1, <1>3, <2>3, FileActs, HeldWhole
  <2> HIDE DEF r
  <2>6. Ready(kind, call'[c])
    BY <2>2, <2>3, <2>4, <2>5 DEF Ready
  <2>7. /\ temp' \in [Calls -> Files \cup {Absent}]
        /\ temp'[c] # Absent => temp'[c].by = c
    BY <1>1, FileActs DEF FInv
  <2>8. QED
    BY <1>1, <2>2, <2>3, <2>6, <2>7, FitsQuietly DEF Keep
<1>4. QED
  BY <1>2, <1>3 DEF OpenSource

LEMMA WritesFit ==
  ASSUME KInv, SInv, FInv, NEW c \in Calls, Create(c) \/ Write(c) \/ Sync(c)
  PROVE  FInv'
<1>1. /\ UNCHANGED <<objects, aside>> /\ Keep
      /\ Pc(c) \in {"create", "write", "sync"}
      /\ Pc(c) # "create" => temp[c] \in Files
  BY FileActs DEF Create, Write, Sync, KInv, TempThere, Writing
<1>2. PICK l \in {"write", "sync", "rename"} : Go(c, l)
  BY DEF Create, Write, Sync
<1>3. Steady(c) /\ call'[c].pc = l
  BY <1>2, FileActs, GoSets
<1>4. Ready(kind, call'[c])
  BY <1>1, <1>3, StaysReady DEF Writing
<1>5. \A d \in Calls \ {c} : temp'[d] = temp[d]
  BY FileActs DEF Create, Write, Sync
<1>6. temp'[c] \in Files /\ temp'[c].by = c
  <2>1. CASE Create(c)
    <3>1. temp'[c] = Object(Partial, None, FALSE, c)
      BY <2>1, FileActs DEF Create
    <3>2. QED
      BY <3>1 DEF Object, Files, Data
  <2>2. CASE Write(c)
    <3>1. temp'[c] = [temp[c] EXCEPT !.data = call[c].data]
      BY <2>2, FileActs DEF Write
    <3>2. temp[c] \in Files /\ temp[c].by = c /\ call[c].data \in Data
      BY <2>2, <1>1, FileActs, CallTyped, RequestAssumption DEF Write, FInv
    <3>3. QED
      BY <3>1, <3>2 DEF Files
  <2>3. CASE Sync(c)
    <3>1. temp'[c] = [temp[c] EXCEPT !.synced = TRUE]
      BY <2>3, FileActs DEF Sync
    <3>2. temp[c] \in Files /\ temp[c].by = c
      BY <2>3, <1>1, RequestAssumption DEF Sync, FInv
    <3>3. QED
      BY <3>1, <3>2 DEF Files
  <2>4. QED
    BY <2>1, <2>2, <2>3
<1>7. temp' \in [Calls -> Files \cup {Absent}]
  BY <1>5, <1>6, FileActs DEF Create, Write, Sync
<1>8. QED
  BY <1>1, <1>3, <1>4, <1>5, <1>6, <1>7, FitsQuietly DEF Steady, Keep

\* The file that takes its place is the one the call was to write.
LEMMA PlaceFits ==
  ASSUME KInv, SInv, FInv, NEW c \in Calls, Place(c), Pc(c) \in {"rename", "take its place"},
         NEW l, Then(c, l), l \notin {"idle", "open", "create"} \cup Writing, Keep, UNCHANGED aside
  PROVE  FInv'
<1>1. Steady(c) /\ call'[c].pc \in {l, "failed"} /\ kind' = kind
  BY FileActs, ThenSets DEF Keep
<1>2. Ready(kind, call'[c])
  BY <1>1, StaysReady DEF Writing
<1>3. /\ temp' = [temp EXCEPT ![c] = Absent] /\ temp[c] \in Files
      /\ temp[c].data = call[c].data
  BY PlaceSound
<1>4. temp[c].by = c
  BY <1>3, RequestAssumption DEF FInv
<1>5. Ready(kind, call[c])
  BY DEF FInv
<1>6. Sort(kind, call'[c], temp[c])
  BY <1>1, <1>3, <1>5 DEF Ready, Sort, Steady, Pc, Writing
<1>7. /\ objects' = [objects EXCEPT ![Dst(c)] = temp[c]]
      /\ temp'[c] = Absent /\ \A d \in Calls \ {c} : temp'[d] = temp[d]
  BY <1>3, FileActs DEF Place
<1>8. ASSUME NEW p \in Paths
      PROVE  \/ objects'[p] \in {objects[p], Absent}
             \/ p = Dst(c) /\ objects'[p].by = c /\ Sort(kind, call'[c], objects'[p])
  BY <1>4, <1>6, <1>7, FileActs
<1>9. QED
  BY <1>1, <1>2, <1>7, <1>8, FitsOn DEF Steady

LEMMA RenamesFit ==
  ASSUME KInv, SInv, FInv, NEW c \in Calls, RenameOver(c) \/ RenameNew(c) PROVE FInv'
<1>1. Pc(c) = "rename" /\ UNCHANGED aside /\ Keep
  BY DEF RenameOver, RenameNew
<1>2. CASE Place(c) /\ Then(c, "ok")
  BY <1>1, <1>2, PlaceFits DEF Writing
<1>3. CASE Go(c, "move aside") /\ UNCHANGED <<objects, temp>>
  <2>1. /\ temp' \in {temp, [temp EXCEPT ![c] = Absent]} /\ kind' = kind
        /\ aside' \in {aside, [aside EXCEPT ![c] = Absent]}
        /\ \A p \in Paths : objects'[p] \in {objects[p], Absent}
    BY <1>1, <1>3 DEF Keep
  <2>2. /\ "move aside" \notin {"idle", "open"}
        /\ "move aside" \in {"create"} \cup Writing => "rename" \in {"create"} \cup Writing
    BY DEF Writing
  <2>3. QED
    BY <1>1, <1>3, <2>1, <2>2, FitsGoing
<1>4. QED
  BY <1>2, <1>3 DEF RenameOver, RenameNew

LEMMA TakePlaceFits ==
  ASSUME KInv, SInv, FInv, NEW c \in Calls, TakePlace(c) PROVE FInv'
<1>1. Pc(c) = "take its place" /\ UNCHANGED aside /\ Keep
  BY DEF TakePlace
<1>2. CASE Place(c) /\ Then(c, "remove old")
  BY <1>1, <1>2, PlaceFits DEF Writing
<1>3. CASE Go(c, "restore") /\ UNCHANGED <<objects, temp>>
  <2>1. /\ temp' \in {temp, [temp EXCEPT ![c] = Absent]} /\ kind' = kind
        /\ aside' \in {aside, [aside EXCEPT ![c] = Absent]}
        /\ \A p \in Paths : objects'[p] \in {objects[p], Absent}
    BY <1>1, <1>3 DEF Keep
  <2>2. /\ "restore" \notin {"idle", "open"}
        /\ "restore" \in {"create"} \cup Writing => "take its place" \in {"create"} \cup Writing
    BY DEF Writing
  <2>3. QED
    BY <1>1, <1>3, <2>1, <2>2, FitsGoing
<1>4. QED
  BY <1>2, <1>3 DEF TakePlace

LEMMA MoveAsideFits ==
  ASSUME KInv, SInv, FInv, NEW c \in Calls, MoveAside(c) PROVE FInv'
<1>1. Pc(c) = "move aside" /\ UNCHANGED temp /\ Keep
  BY DEF MoveAside
<1>2. Steady(c) /\ call'[c].pc \in {"take its place", "failed"}
  BY FileActs, ThenSets DEF MoveAside
<1>3. Ready(kind, call'[c])
  BY <1>1, <1>2, StaysReady DEF Writing
<1>4. /\ aside'[c] = objects[Dst(c)] /\ \A d \in Calls \ {c} : aside'[d] = aside[d]
      /\ \A p \in Paths : objects'[p] \in {objects[p], Absent}
  BY FileActs DEF MoveAside
<1>5. temp'[c] # Absent => temp'[c].by = c
  BY <1>1 DEF FInv
<1>6. QED
  BY <1>1, <1>2, <1>3, <1>4, <1>5, FitsOn DEF Steady, Keep

LEMMA RestoreFits ==
  ASSUME KInv, SInv, FInv, NEW c \in Calls, Restore(c) PROVE FInv'
<1>1. Pc(c) = "restore" /\ UNCHANGED temp /\ Keep /\ Then(c, "clear")
  BY DEF Restore
<1>2. Steady(c) /\ call'[c].pc \in {"clear", "failed"}
  BY <1>1, FileActs, ThenSets
<1>3. Ready(kind, call'[c])
  BY <1>1, <1>2, StaysReady DEF Writing
<1>4. /\ aside'[c] \in {aside[c], Absent} /\ \A d \in Calls \ {c} : aside'[d] = aside[d]
      /\ \A p \in Paths : \/ objects'[p] \in {objects[p], Absent}
                          \/ p = Dst(c) /\ objects'[p] = aside[c]
  <2>1. CASE UNCHANGED <<objects, aside>>
    BY <2>1
  <2>2. CASE /\ objects' = [objects EXCEPT ![Dst(c)] = aside[c]]
             /\ aside' = [aside EXCEPT ![c] = Absent]
    BY <2>2, FileActs
  <2>3. QED
    BY <2>1, <2>2 DEF Restore
<1>5. temp'[c] # Absent => temp'[c].by = c
  BY <1>1 DEF FInv
<1>6. QED
  BY <1>1, <1>2, <1>3, <1>4, <1>5, FitsOn DEF Steady, Keep

LEMMA EndingsFit ==
  ASSUME KInv, SInv, FInv, NEW c \in Calls,
         NothingToMove(c) \/ RemoveOld(c) \/ Clear(c) \/ Remove(c) \/ StatFile(c)
  PROVE  FInv'
<1>1. /\ Keep /\ Pc(c) \notin {"idle", "failed"}
      /\ temp' \in {temp, [temp EXCEPT ![c] = Absent]}
      /\ aside' \in {aside, [aside EXCEPT ![c] = Absent]}
  BY DEF NothingToMove, RemoveOld, Clear, Remove, StatFile
<1>2. \A p \in Paths : objects'[p] \in {objects[p], Absent}
  BY FileActs DEF NothingToMove, RemoveOld, Clear, Remove, StatFile
<1>3. PICK l \in {"clear", "ok", "failed", "missing", "copy"} : Go(c, l) \/ Then(c, l)
  BY DEF NothingToMove, RemoveOld, Clear, Remove, StatFile
<1>4. l \notin {"idle", "open", "create"} \cup Writing
  BY <1>3 DEF Writing
<1>5. QED
  BY <1>1, <1>2, <1>3, <1>4, FitsGoing DEF Keep

\* Only cp over SFTP copies in place.
LEMMA CopyingKind ==
  ASSUME KInv, SInv, NEW c \in Calls, Pc(c) \in {"copy", "copying", "copying alone"}
  PROVE  kind \in {"posix", "plain"} /\ Ask(c).op = "copy"
<1>1. kind \notin {"local", "s3", "gcs"} /\ Ask(c).op = "copy"
  BY FileActs DEF PlaceOK, Pc, Ask, Awry, OnServer, Ended, Buckets
<1>2. kind \in {"local", "posix", "plain", "s3", "gcs"}
  BY FileActs, KindAssumption DEF BackendTypeOK
<1>3. QED
  BY <1>1, <1>2

LEMMA CopyInPlaceFits ==
  ASSUME KInv, SInv, FInv, NEW c \in Calls, CopyInPlace(c) PROVE FInv'
<1>1. /\ Pc(c) = "copy" /\ UNCHANGED <<temp, aside>> /\ Keep
      /\ objects' = [objects EXCEPT ![Dst(c)] = Object(Partial, None, TRUE, c)]
  BY DEF CopyInPlace
<1>2. DEFINE r == [call[c] EXCEPT !.pc = "copying", !.data = objects[Src(c)].data]
<1>3. call' = [call EXCEPT ![c] = r]
  BY DEF CopyInPlace
<1>4. call'[c] = r /\ \A d \in Calls \ {c} : call'[d] = call[d]
  BY <1>3 DEF KInv, BackendTypeOK
<1>5. r.pc = "copying" /\ r.ask = call[c].ask
  BY FileActs DEF Call
<1> HIDE DEF r
<1>6. kind \in {"posix", "plain"} /\ Ask(c).op = "copy"
  BY <1>1, CopyingKind
<1>7. DEFINE f == Object(Partial, None, TRUE, c)
<1>8. f.by = c /\ f.data = Partial
  BY DEF Object
<1> HIDE DEF f
<1>9. Sort(kind, call'[c], f)
  BY <1>4, <1>5, <1>6, <1>8 DEF Sort, Ask
<1>10. \A p \in Paths : \/ objects'[p] \in {objects[p], Absent}
                        \/ p = Dst(c) /\ objects'[p].by = c /\ Sort(kind, call'[c], objects'[p])
  <2>1. objects' = [objects EXCEPT ![Dst(c)] = f]
    BY <1>1 DEF f
  <2>2. QED
    BY <2>1, <1>8, <1>9, FileActs
<1>11. Ready(kind, call'[c])
  BY <1>4, <1>5 DEF Ready, Writing
<1>12. temp'[c] # Absent => temp'[c].by = c
  BY <1>1 DEF FInv
<1>13. QED
  BY <1>1, <1>4, <1>5, <1>10, <1>11, <1>12, FitsOn DEF Keep

LEMMA CopyLeftFits ==
  ASSUME KInv, SInv, FInv, NEW c \in Calls, CopyLeft(c) PROVE FInv'
<1>1. Pc(c) = "copying" /\ UNCHANGED <<objects, temp, aside>> /\ Keep
  BY DEF CopyLeft
<1>2. DEFINE r == [call[c] EXCEPT !.pc = "copying alone", !.cut = TRUE]
<1>3. call' = [call EXCEPT ![c] = r]
  BY DEF CopyLeft
<1>4. call'[c] = r /\ \A d \in Calls \ {c} : call'[d] = call[d]
  BY <1>3 DEF KInv, BackendTypeOK
<1>5. r.pc = "copying alone" /\ r.ask = call[c].ask
  BY FileActs DEF Call
<1> HIDE DEF r
<1>6. Ready(kind, call'[c])
  BY <1>4, <1>5 DEF Ready, Writing
<1>7. temp'[c] # Absent => temp'[c].by = c
  BY <1>1 DEF FInv
<1>8. temp' \in [Calls -> Files \cup {Absent}]
  BY <1>1, FileActs
<1>9. QED
  BY <1>1, <1>4, <1>5, <1>6, <1>7, <1>8, FitsQuietly DEF Keep

LEMMA CopiesFit ==
  ASSUME KInv, SInv, FInv, NEW c \in Calls, CopyFinish(c) \/ CopyAlone(c) PROVE FInv'
<1>1. /\ UNCHANGED <<temp, aside>> /\ Keep /\ Pc(c) \in {"copying", "copying alone"}
      /\ CopyRest(c)
  BY DEF CopyFinish, CopyAlone
<1>2. PICK l \in {"ok", "failed"} : Go(c, l) \/ Then(c, l)
  BY DEF CopyFinish, CopyAlone
<1>3. Steady(c) /\ call'[c].pc \in {"ok", "failed"}
  BY <1>2, FileActs, GoSets, ThenSets
<1>4. kind \in {"posix", "plain"} /\ Ask(c).op = "copy"
  BY <1>1, CopyingKind
<1>5. call[c].data \in Contents \cup {Partial}
  BY <1>1, FileActs, CallTyped DEF PlaceOK, Pc, Data
<1>6. ASSUME NEW p \in Paths
      PROVE  \/ objects'[p] \in {objects[p], Absent}
             \/ p = Dst(c) /\ objects'[p].by = c /\ Sort(kind, call'[c], objects'[p])
  <2>1. CASE objects' = objects
    BY <2>1
  <2>2. CASE ~Overtaken(c)
    <3>1. DEFINE f == [objects[Dst(c)] EXCEPT !.data = call[c].data]
    <3>2. objects' = [objects EXCEPT ![Dst(c)] = f]
      BY <1>1, <2>2 DEF CopyRest
    <3>3. objects[Dst(c)] \in Files /\ objects[Dst(c)].by = c
      BY <2>2, FileActs DEF Overtaken
    <3>4. f.by = c /\ f.data = call[c].data
      BY <3>3 DEF Files
    <3> HIDE DEF f
    <3>5. Sort(kind, call'[c], f)
      BY <1>3, <1>4, <1>5, <3>4 DEF Sort, Steady, Ask
    <3>6. QED
      BY <3>2, <3>4, <3>5, FileActs
  <2>3. QED
    BY <1>1, <2>1, <2>2 DEF CopyRest
<1>7. Ready(kind, call'[c])
  BY <1>3 DEF Ready, Writing
<1>8. temp'[c] # Absent => temp'[c].by = c
  BY <1>1 DEF FInv
<1>9. QED
  BY <1>1, <1>3, <1>6, <1>7, <1>8, FitsOn DEF Steady, Keep

----------------------------------------------------------------------------
\* A request on a bucket, answered or not: only the object may be another.
LEMMA ServerFits ==
  ASSUME KInv, SInv, FInv, NEW c \in Calls, Pc(c) \in OnServer,
         call'[c].ask = call[c].ask, call'[c].pc \in OnServer \cup Ended,
         \A d \in Calls \ {c} : call'[d] = call[d],
         UNCHANGED <<temp, aside, kind>>,
         \A p \in Paths :
           \/ objects'[p] \in {objects[p], Absent}
           \/ p = Dst(c) /\ objects'[p].by = c /\ Sort(kind, call'[c], objects'[p])
  PROVE  FInv'
<1>1. Ready(kind, call'[c]) /\ call'[c].pc # "idle" /\ Pc(c) \notin {"idle", "failed"}
  BY DEF Ready, Writing, OnServer, Ended
<1>2. temp'[c] # Absent => temp'[c].by = c
  BY DEF FInv
<1>3. QED
  BY <1>1, <1>2, FitsOn

LEMMA AnsweredSets ==
  ASSUME KInv, SInv, NEW c \in Calls, Answered(c)
  PROVE  /\ call'[c].ask = call[c].ask /\ call'[c].pc \in OnServer \cup Ended
         /\ \A d \in Calls \ {c} : call'[d] = call[d]
<1>1. CASE Then(c, "ok")
  BY <1>1, FileActs, ThenSets DEF Steady, Ended
<1>2. CASE Len(call[c].todo) # 1
  <2>1. DEFINE r == [call[c] EXCEPT !.pc = "send", !.todo = Tail(call[c].todo)]
  <2>2. call' = [call EXCEPT ![c] = r]
    BY <1>2 DEF Answered
  <2>3. call'[c] = r /\ \A d \in Calls \ {c} : call'[d] = call[d]
    BY <2>2 DEF KInv, BackendTypeOK
  <2>4. r.pc = "send" /\ r.ask = call[c].ask
    BY FileActs DEF Call
  <2> HIDE DEF r
  <2>5. QED
    BY <2>3, <2>4 DEF OnServer
<1>3. QED
  BY <1>1, <1>2 DEF Answered

LEMMA SendsFit ==
  ASSUME KInv, SInv, FInv, NEW c \in Calls, Send(c) \/ Redirected(c) \/ UseRegion(c)
  PROVE  FInv'
<1>1. UNCHANGED <<objects, temp, aside, kind>> /\ Pc(c) \in OnServer
  BY DEF Send, Redirected, UseRegion, Keep, OnServer
<1>2. /\ call'[c].ask = call[c].ask /\ call'[c].pc \in OnServer \cup Ended
      /\ \A d \in Calls \ {c} : call'[d] = call[d]
  <2>1. CASE Send(c)
    <3>1. DEFINE l == IF Pc(c) = "send" THEN "sent" ELSE "resent"
    <3>2. DEFINE r == [call[c] EXCEPT !.pc = l, !.at = region, !.body = "whole"]
    <3>3. call' = [call EXCEPT ![c] = r]
      BY <2>1 DEF Send
    <3>4. call'[c] = r /\ \A d \in Calls \ {c} : call'[d] = call[d]
      BY <3>3 DEF KInv, BackendTypeOK
    <3>5. r.pc = l /\ r.ask = call[c].ask /\ l \in OnServer
      BY FileActs DEF Call, OnServer
    <3> HIDE DEF r, l
    <3>6. QED
      BY <3>4, <3>5
  <2>2. CASE Redirected(c)
    <3>1. DEFINE l == IF Pc(c) = "sent" THEN "redirected" ELSE "misdirected"
    <3>2. DEFINE r == [call[c] EXCEPT !.pc = l, !.body = "spent"]
    <3>3. call' = [call EXCEPT ![c] = r]
      BY <2>2 DEF Redirected
    <3>4. call'[c] = r /\ \A d \in Calls \ {c} : call'[d] = call[d]
      BY <3>3 DEF KInv, BackendTypeOK
    <3>5. r.pc = l /\ r.ask = call[c].ask /\ l \in OnServer \cup Ended
      BY FileActs DEF Call, OnServer, Ended
    <3> HIDE DEF r, l
    <3>6. QED
      BY <3>4, <3>5
  <2>3. CASE UseRegion(c)
    <3>1. PICK l \in {"misdirected", "resend"} : Go(c, l)
      BY <2>3 DEF UseRegion
    <3>2. QED
      BY <3>1, FileActs, GoSets DEF Steady, OnServer, Ended
  <2>4. QED
    BY <2>1, <2>2, <2>3
<1>3. QED
  BY <1>1, <1>2, ServerFits

\* What is sent is the whole content, but for the object GCS makes of a part.
LEMMA PutsFit ==
  ASSUME KInv, SInv, FInv, NEW c \in Calls, PutObject(c) \/ CommitTruncated(c) PROVE FInv'
<1>1. /\ UNCHANGED <<temp, aside, kind>> /\ Arrived(c, "put")
      /\ Pc(c) \in OnServer /\ call[c].data = Ask(c).data /\ call[c].body = "whole"
  BY ArrivedAsks DEF PutObject, CommitTruncated, Keep
<1>2. Ask(c).op = "put"
  BY <1>1, ArrivedAsks
<1>3. /\ call'[c].ask = call[c].ask /\ call'[c].pc \in OnServer \cup Ended
      /\ CommitTruncated(c) => call'[c].pc = "failed"
      /\ \A d \in Calls \ {c} : call'[d] = call[d]
  <2>1. CASE PutObject(c)
    <3>1. CASE CommitTruncated(c)
      BY <3>1, FileActs, GoSets DEF CommitTruncated, Steady, Ended
    <3>2. CASE ~CommitTruncated(c)
      BY <2>1, <3>2, AnsweredSets DEF PutObject
    <3>3. QED
      BY <3>1, <3>2
  <2>2. CASE CommitTruncated(c)
    BY <2>2, FileActs, GoSets DEF CommitTruncated, Steady, Ended
  <2>3. QED
    BY <2>1, <2>2
<1>4. PICK x \in {call[c].data, Partial} :
        /\ objects' = [objects EXCEPT ![Dst(c)] = Object(x, call[c].data, TRUE, c)]
        /\ x = call[c].data \/ (kind = "gcs" /\ CommitTruncated(c))
  <2>1. CASE PutObject(c)
    BY <1>1, <2>1 DEF PutObject
  <2>2. CASE CommitTruncated(c)
    BY <2>2 DEF CommitTruncated
  <2>3. QED
    BY <2>1, <2>2
<1>5. DEFINE f == Object(x, call[c].data, TRUE, c)
<1>6. f.by = c /\ f.data = x
  BY DEF Object
<1> HIDE DEF f
<1>7. Sort(kind, call'[c], f)
  BY <1>1, <1>2, <1>3, <1>4, <1>6 DEF Sort, Ask
<1>8. \A p \in Paths : \/ objects'[p] \in {objects[p], Absent}
                       \/ p = Dst(c) /\ objects'[p].by = c /\ Sort(kind, call'[c], objects'[p])
  <2>1. objects' = [objects EXCEPT ![Dst(c)] = f]
    BY <1>4 DEF f
  <2>2. QED
    BY <2>1, <1>6, <1>7, FileActs
<1>9. QED
  BY <1>1, <1>3, <1>8, ServerFits

LEMMA LooksFit ==
  ASSUME KInv, SInv, FInv, NEW c \in Calls, DeleteObject(c) \/ HeadObject(c) PROVE FInv'
<1>1. UNCHANGED <<temp, aside, kind>> /\ Pc(c) \in OnServer
  BY DEF DeleteObject, HeadObject, Keep, Arrived, OnServer
<1>2. /\ call'[c].ask = call[c].ask /\ call'[c].pc \in OnServer \cup Ended
      /\ \A d \in Calls \ {c} : call'[d] = call[d]
  <2>1. CASE Answered(c)
    BY <2>1, AnsweredSets
  <2>2. CASE Go(c, "missing")
    BY <2>2, FileActs, GoSets DEF Steady, Ended
  <2>3. QED
    BY <2>1, <2>2 DEF DeleteObject, HeadObject
<1>3. \A p \in Paths : objects'[p] \in {objects[p], Absent}
  BY FileActs DEF DeleteObject, HeadObject
<1>4. QED
  BY <1>1, <1>2, <1>3, ServerFits

\* A copy has the content of its source, whole but on GCS.
LEMMA CopyObjectFits ==
  ASSUME KInv, SInv, FInv, NEW c \in Calls, CopyObject(c) PROVE FInv'
<1>1. /\ UNCHANGED <<temp, aside, kind>> /\ Arrived(c, "copy") /\ Pc(c) \in OnServer
      /\ kind \in Buckets
  BY ArrivedAsks DEF CopyObject, Keep
<1>2. Ask(c).op = "copy"
  BY <1>1, ArrivedAsks
<1>3. /\ call'[c].ask = call[c].ask /\ call'[c].pc \in OnServer \cup Ended
      /\ \A d \in Calls \ {c} : call'[d] = call[d]
  <2>1. CASE Answered(c)
    BY <2>1, AnsweredSets
  <2>2. CASE Go(c, "missing") \/ Go(c, "failed")
    BY <2>2, FileActs, GoSets DEF Steady, Ended
  <2>3. QED
    BY <2>1, <2>2 DEF CopyObject
<1>4. CASE objects' = objects
  BY <1>1, <1>3, <1>4, ServerFits
<1>5. CASE /\ objects[Src(c)] # Absent
           /\ objects' = [objects EXCEPT ![Dst(c)] = [objects[Src(c)] EXCEPT !.by = c]]
  <2>1. DEFINE f == [objects[Src(c)] EXCEPT !.by = c]
  <2>2. f.by = c /\ f.data = objects[Src(c)].data
    BY <1>5, FileActs DEF Files
  <2>3. objects' = [objects EXCEPT ![Dst(c)] = f]
    BY <1>5
  <2> HIDE DEF f
  <2>4. f.data \in Contents \/ (kind = "gcs" /\ f.data = Partial)
    BY <1>1, <1>5, <2>2, FileActs, HeldWhole DEF Buckets
  <2>5. Sort(kind, call'[c], f)
    BY <1>2, <1>3, <2>4 DEF Sort, Ask
  <2>6. \A p \in Paths : \/ objects'[p] \in {objects[p], Absent}
                         \/ p = Dst(c) /\ objects'[p].by = c /\ Sort(kind, call'[c], objects'[p])
    BY <2>2, <2>3, <2>5, FileActs
  <2>7. QED
    BY <1>1, <1>3, <2>6, ServerFits
<1>6. QED
  BY <1>4, <1>5 DEF CopyObject

----------------------------------------------------------------------------
LEMMA BeginFits == ASSUME KInv, SInv, FInv, NEW c \in Calls, Begin(c) PROVE FInv'
<1>1. PICK q \in Requests :
        call' = [call EXCEPT ![c] = [@ EXCEPT !.pc = Entry(q), !.ask = q, !.data = q.data,
                                              !.todo = Parts(q)]]
  BY DEF Begin
<1>2. DEFINE r == [call[c] EXCEPT !.pc = Entry(q), !.ask = q, !.data = q.data, !.todo = Parts(q)]
<1>3. call'[c] = r /\ \A d \in Calls \ {c} : call'[d] = call[d]
  BY <1>1 DEF KInv, BackendTypeOK
<1>4. r.pc = Entry(q) /\ r.ask = q /\ r.data = q.data
  BY FileActs DEF Call
<1>5. UNCHANGED <<kind, objects, temp, aside>> /\ Pc(c) = "idle"
  BY DEF Begin
<1>6. /\ Entry(q) # "idle" /\ Entry(q) \notin Writing
      /\ Entry(q) = "create" => q.op = "put"
      /\ Entry(q) = "open" => kind = "local"
  <2>1. q.op \in Ops
    BY RequestAssumption
  <2>2. QED
    BY <2>1 DEF Entry, Writing, Ops
<1> HIDE DEF r
<1>7. \A d \in Calls : call[d].pc # "idle" =>
        /\ call'[d].ask = call[d].ask /\ call'[d].pc # "idle"
        /\ call[d].pc = "failed" => call'[d].pc = "failed"
  BY <1>3, <1>5 DEF Pc
<1>8. ASSUME NEW p \in Paths PROVE Fit(kind, call', p, objects'[p])
  <2>1. Fit(kind, call, p, objects[p])
    BY DEF FInv
  <2>2. QED
    BY <1>5, <1>7, <2>1, FitStays
<1>9. ASSUME NEW d \in Calls PROVE Fit(kind, call', Dst(d)', aside'[d])
  <2>1. CASE d = c
    <3>1. aside'[d] = Absent
      BY <2>1, <1>5 DEF KInv, IdleEmpty
    <3>2. QED
      BY <3>1 DEF Fit
  <2>2. CASE d # c
    <3>1. Fit(kind, call, Dst(d), aside[d])
      BY DEF FInv
    <3>2. Dst(d)' = Dst(d)
      BY <2>2, <1>3 DEF Dst, Ask
    <3>3. QED
      BY <1>5, <1>7, <3>1, <3>2, FitStays
  <2>3. QED
    BY <2>1, <2>2
<1>10. Ready(kind, r)
  BY <1>4, <1>6 DEF Ready
<1>11. ASSUME NEW d \in Calls
       PROVE  Ready(kind, call'[d]) /\ (temp'[d] # Absent => temp'[d].by = d)
  BY <1>3, <1>5, <1>10 DEF FInv
<1>12. QED
  BY <1>5, <1>8, <1>9, <1>11 DEF FInv

LEMMA RefuseFits == ASSUME KInv, SInv, FInv, NEW c \in Calls, Refuse(c) PROVE FInv'
<1> DEFINE l == OnError(c)
<1>1. UNCHANGED <<objects, temp, aside>> /\ Keep /\ Pc(c) \notin {"idle", "failed"} /\ Go(c, l)
  BY DEF Refuse, Running, Ended
<1>2. l \in {"move aside", "clear", "restore", "ok", "littered", "failed"}
  BY DEF OnError
<1> HIDE DEF l
<1>3. l # "idle" /\ l # "open" /\ l # "create"
  BY <1>2
<1>4. l \in Writing => Pc(c) \in Writing
  BY DEF l, OnError, Writing
<1>5. QED
  BY <1>1, <1>3, <1>4, FitsGoing DEF Keep

LEMMA CutFits == ASSUME KInv, SInv, FInv, NEW c \in Calls, Cut(c) PROVE FInv'
<1>1. DEFINE l == IF Pc(c) = "remove old" THEN "ok" ELSE "failed"
<1>2. UNCHANGED <<objects, temp, aside>> /\ Keep /\ Pc(c) \notin {"idle", "failed"}
  BY DEF Cut, Running, Ended
<1>3. call' = [call EXCEPT ![c] = [call[c] EXCEPT !.pc = l, !.cut = TRUE]]
  BY DEF Cut
<1>4. DEFINE r == [call[c] EXCEPT !.pc = l, !.cut = TRUE]
<1>5. call'[c] = r /\ \A d \in Calls \ {c} : call'[d] = call[d]
  BY <1>3 DEF KInv, BackendTypeOK
<1>6. r.pc \in {"ok", "failed"} /\ r.ask = call[c].ask
  BY FileActs DEF Call
<1> HIDE DEF r
<1>7. Ready(kind, call'[c])
  BY <1>5, <1>6 DEF Ready, Writing
<1>8. temp' \in [Calls -> Files \cup {Absent}] /\ (temp'[c] # Absent => temp'[c].by = c)
  BY <1>2, FileActs DEF FInv
<1>9. QED
  BY <1>2, <1>5, <1>6, <1>7, <1>8, FitsQuietly DEF Keep

LEMMA PowerCutFits == ASSUME KInv, SInv, FInv, PowerCut PROVE FInv'
<1>1. objects' = objects /\ kind' = kind /\ aside' = aside
  BY PowerKeeps DEF PowerCut
<1>2. ASSUME NEW d \in Calls
      PROVE  /\ call'[d].ask = call[d].ask
             /\ call'[d] = call[d] \/ (Running(d) /\ call'[d].pc = "failed")
  <2>1. CASE Running(d)
    <3>1. call'[d] = [call[d] EXCEPT !.pc = "failed", !.cut = TRUE]
      BY <2>1 DEF PowerCut
    <3>2. QED
      BY <2>1, <3>1, FileActs DEF Call
  <2>2. CASE ~Running(d)
    BY <2>2 DEF PowerCut
  <2>3. QED
    BY <2>1, <2>2
<1>3. \A d \in Calls : call[d].pc # "idle" =>
        /\ call'[d].ask = call[d].ask /\ call'[d].pc # "idle"
        /\ call[d].pc = "failed" => call'[d].pc = "failed"
  BY <1>2
<1>4. ASSUME NEW p \in Paths PROVE Fit(kind, call', p, objects'[p])
  <2>1. Fit(kind, call, p, objects[p])
    BY DEF FInv
  <2>2. QED
    BY <1>1, <1>3, <2>1, FitStays
<1>5. ASSUME NEW d \in Calls PROVE Fit(kind, call', Dst(d)', aside'[d])
  <2>1. Fit(kind, call, Dst(d), aside[d])
    BY DEF FInv
  <2>2. Dst(d)' = Dst(d)
    BY <1>2 DEF Dst, Ask
  <2>3. QED
    BY <1>1, <1>3, <2>1, <2>2, FitStays
<1>6. ASSUME NEW d \in Calls PROVE Ready(kind, call'[d])
  BY <1>2 DEF FInv, Ready, Writing
<1>7. ASSUME NEW d \in Calls PROVE temp'[d] # Absent => temp'[d].by = d
  <2>1. temp'[d] = AfterCut(temp[d])
    BY DEF PowerCut
  <2>2. temp[d] # Absent => temp[d] \in Files /\ temp[d].by = d
    BY FileActs DEF FInv
  <2>3. QED
    BY <2>1, <2>2 DEF AfterCut, Files
<1>8. QED
  BY <1>1, <1>4, <1>5, <1>6, <1>7 DEF FInv

LEMMA InitFits == Init => FInv
<1> SUFFICES ASSUME Init PROVE FInv
  OBVIOUS
<1>1. ASSUME NEW p \in Paths PROVE Fit(kind, call, p, objects[p])
  BY <1>1 DEF Init, Fit, Object
<1>2. ASSUME NEW c \in Calls
      PROVE  /\ Fit(kind, call, Dst(c), aside[c]) /\ Ready(kind, call[c])
             /\ temp[c] # Absent => temp[c].by = c
  <2>1. temp[c] = Absent /\ aside[c] = Absent /\ call[c].pc = "idle"
    BY DEF Init
  <2>2. QED
    BY <2>1 DEF Fit, Ready, Writing
<1>3. QED
  BY <1>1, <1>2 DEF FInv

LEMMA NextFits == KInv /\ SInv /\ FInv /\ [Next]_vars => FInv'
<1> SUFFICES ASSUME KInv, SInv, FInv, [Next]_vars PROVE FInv'
  OBVIOUS
<1>1. CASE UNCHANGED vars
  BY <1>1 DEF vars, FInv, Dst, Ask
<1>2. ASSUME NEW c \in Calls, FileStep(c) PROVE FInv'
  BY <1>2, OpenSourceFits, WritesFit, RenamesFit, TakePlaceFits, MoveAsideFits, RestoreFits,
     EndingsFit, CopyInPlaceFits, CopyLeftFits, CopiesFit DEF FileStep
<1>3. ASSUME NEW c \in Calls, BucketStep(c) PROVE FInv'
  BY <1>3, SendsFit, PutsFit, LooksFit, CopyObjectFits DEF BucketStep
<1>4. QED
  BY <1>1, <1>2, <1>3, BeginFits, RefuseFits, CutFits, PowerCutFits DEF Next, AllEnded

\* Whatever fails, wherever a call is cut short and however many run at once, a
\* path that had a file has one, or a call that replaces it holds one aside,
\* until a Delete takes it; and what it has, or is held, is the file of the
\* beginning or one that a Put or a copy onto this path wrote whole, but for what
\* GCS makes of a Put that fails and for what cp writes in place
\* (sftp.go:349-379, local.go:84-125).
THEOREM NothingLost == Spec => []PreviousKept
<1>1. ASSUME NEW p, NEW f, f # Absent, Fit(kind, call, p, f)
      PROVE  Rightful(p, f)
  BY <1>1 DEF Fit, Sort, Rightful, Torn, Ask, Dst, Pc
<1>2. ASSUME KInv, FInv PROVE PreviousKept
  <2>1. ASSUME NEW p \in Paths, InitialData[p] # Absent PROVE FilesOf(p) # {} \/ Deleted(p)
    <3>1. objects[p] # Absent \/ Deleted(p) \/ \E c \in Calls : aside[c] # Absent /\ Dst(c) = p
      BY <1>2, <2>1 DEF KInv, Kept, Held
    <3>2. objects[p] # Absent => objects[p] \in FilesOf(p)
      BY DEF FilesOf
    <3>3. ASSUME NEW c \in Calls, aside[c] # Absent, Dst(c) = p PROVE aside[c] \in FilesOf(p)
      BY <3>3 DEF FilesOf
    <3>4. QED
      BY <3>1, <3>2, <3>3
  <2>2. ASSUME NEW p \in Paths, NEW f \in FilesOf(p) PROVE Rightful(p, f)
    <3>1. /\ f # Absent
          /\ f = objects[p] \/ \E c \in Calls : Dst(c) = p /\ f = aside[c]
      BY DEF FilesOf
    <3>2. Fit(kind, call, p, f)
      BY <1>2, <3>1 DEF FInv
    <3>3. QED
      BY <1>1, <3>1, <3>2
  <2>3. QED
    BY <2>1, <2>2 DEF PreviousKept
<1>3. Spec => []FInv
  BY InitFits, NextFits, StoreInv, PTL DEF Spec
<1>4. QED
  BY <1>2, <1>3, StoreInv, PTL

----------------------------------------------------------------------------
(* The refinement of ObjectStore.                                          *)


\* What ObjectStore sees.
SeenObjects == [p \in Paths |-> IF objects[p] = Absent THEN Absent ELSE objects[p].data]
SeenStatus  == [c \in Calls |-> Status(c)]
SeenRequest == [c \in Calls |-> [op |-> Ask(c).op, path |-> Dst(c), src |-> Src(c),
                                 data |-> IF Pc(c) = "idle" THEN Ask(c).data ELSE call[c].data]]
Seen == <<SeenObjects, SeenStatus, SeenRequest>>

\* The steps of ObjectStore, in terms of what is seen.
LEMMA SeenFail ==
  ASSUME NEW S \in SUBSET {c \in Calls : Status(c) = "pending"},
         UNCHANGED <<SeenObjects, SeenRequest>>,
         SeenStatus' = [c \in Calls |-> IF c \in S THEN "failed" ELSE SeenStatus[c]]
  PROVE  Store!Next
<1>1. Store!Fail
  BY DEF Store!Fail, SeenObjects, SeenStatus, SeenRequest
<1>2. QED
  BY <1>1 DEF Store!Next

LEMMA SeenMissing ==
  ASSUME NEW c \in Calls, Status(c) = "pending", Ask(c).op \in {"copy", "stat"},
         Src(c) \in Paths, objects[Src(c)] = Absent,
         SeenStatus' = [SeenStatus EXCEPT ![c] = "missing"],
         UNCHANGED <<SeenObjects, SeenRequest>>
  PROVE  Store!Next
<1>1. Store!Missing(c)
  BY DEF Store!Missing, Store!Source, SeenObjects, SeenStatus, SeenRequest
<1>2. QED
  BY <1>1 DEF Store!Next

LEMMA SeenStat ==
  ASSUME NEW c \in Calls, Status(c) = "pending", Ask(c).op = "stat",
         NEW s \in {"ok", "failed"}, SeenStatus' = [SeenStatus EXCEPT ![c] = s],
         UNCHANGED <<SeenObjects, SeenRequest>>
  PROVE  Store!Next
<1>1. Store!Apply(c)
  BY DEF Store!Apply, Store!Effect, SeenObjects, SeenStatus, SeenRequest
<1>2. QED
  BY <1>1 DEF Store!Next

LEMMA SeenDelete ==
  ASSUME NEW c \in Calls, Status(c) = "pending", Ask(c).op = "delete",
         NEW s \in {"ok", "failed"}, SeenStatus' = [SeenStatus EXCEPT ![c] = s],
         SeenObjects' = [SeenObjects EXCEPT ![Dst(c)] = Absent],
         UNCHANGED SeenRequest
  PROVE  Store!Next
<1>1. Store!Apply(c)
  BY DEF Store!Apply, Store!Effect, SeenObjects, SeenStatus, SeenRequest
<1>2. QED
  BY <1>1 DEF Store!Next

LEMMA SeenWrite ==
  ASSUME NEW c \in Calls, Status(c) = "pending", Pc(c) # "idle", Ask(c).op \in {"put", "copy"},
         NEW w, w # Absent, Src(c) \in Paths,
         w = IF Ask(c).op = "copy" /\ call[c].data = None THEN SeenObjects[Src(c)]
             ELSE call[c].data,
         NEW s \in {"ok", "failed"}, SeenStatus' = [SeenStatus EXCEPT ![c] = s],
         SeenObjects' = [SeenObjects EXCEPT ![Dst(c)] = w],
         UNCHANGED SeenRequest
  PROVE  Store!Next
<1>1. SeenRequest[c] = [op |-> Ask(c).op, path |-> Dst(c), src |-> Src(c), data |-> call[c].data]
  BY DEF SeenRequest
<1>2. Store!Written(c) = w
  BY <1>1 DEF Store!Written, Store!Source, SeenObjects, SeenRequest
<1>3. Store!Effect(c)
  BY <1>1, <1>2 DEF Store!Effect, SeenObjects, SeenRequest
<1>4. Store!Apply(c)
  BY <1>3 DEF Store!Apply, SeenStatus, SeenRequest
<1>5. QED
  BY <1>4 DEF Store!Next

LEMMA SeenRead ==
  ASSUME NEW c \in Calls, Status(c) = "pending", Ask(c).op = "copy",
         Src(c) \in Paths, SeenObjects[Src(c)] # Absent,
         SeenRequest' = [SeenRequest EXCEPT ![c].data = SeenObjects[Src(c)]],
         UNCHANGED <<SeenObjects, SeenStatus>>
  PROVE  Store!Next
<1>1. Store!Read(c)
  BY DEF Store!Read, Store!Source, SeenObjects, SeenStatus, SeenRequest
<1>2. QED
  BY <1>1 DEF Store!Next

LEMMA SeenBegin ==
  ASSUME NEW c \in Calls, Status(c) = "idle", NEW r \in Requests,
         SeenStatus' = [SeenStatus EXCEPT ![c] = "pending"],
         SeenRequest' = [SeenRequest EXCEPT ![c] = r],
         UNCHANGED SeenObjects
  PROVE  Store!Next
<1>1. Store!Begin(c)
  BY DEF Store!Begin, SeenObjects, SeenStatus, SeenRequest
<1>2. QED
  BY <1>1 DEF Store!Next

----------------------------------------------------------------------------
Abides == (\E c \in Calls : Departs(c)) \/ Store!Next \/ UNCHANGED Seen

\* What a step of c leaves alone that ObjectStore sees.
Asks(c) == /\ call'[c].ask = call[c].ask /\ call'[c].data = call[c].data
           /\ \A d \in Calls \ {c} : call'[d] = call[d]

Rest == {"idle", "ok", "missing", "remove old", "failed", "misdirected", "littered",
         "copying alone"}

LEMMA StatusOf ==
  ASSUME NEW c \in Calls
  PROVE  /\ Pc(c) \notin Rest => Status(c) = "pending"
         /\ Pc(c) \in {"idle", "ok", "missing"} => Status(c) = Pc(c)
         /\ Pc(c) = "remove old" => Status(c) = "ok"
         /\ Pc(c) \in {"failed", "misdirected", "littered", "copying alone"} => Status(c) = "failed"
BY DEF Status, Rest

\* The same of where the call comes to be.
LEMMA StatusNext ==
  ASSUME NEW c \in Calls
  PROVE  /\ call'[c].pc \notin Rest => Status(c)' = "pending"
         /\ call'[c].pc \in {"idle", "ok", "missing"} => Status(c)' = call'[c].pc
         /\ call'[c].pc = "remove old" => Status(c)' = "ok"
         /\ call'[c].pc \in {"failed", "misdirected", "littered", "copying alone"} =>
              Status(c)' = "failed"
BY DEF Status, Rest, Pc

LEMMA SeenMove ==
  ASSUME NEW c \in Calls, Asks(c), Pc(c) # "idle", call'[c].pc # "idle"
  PROVE  /\ SeenStatus' = [SeenStatus EXCEPT ![c] = Status(c)']
         /\ SeenRequest' = SeenRequest
<1>1. ASSUME NEW d \in Calls, d # c PROVE Status(d)' = Status(d)
  BY <1>1 DEF Asks, Status, Pc
<1>2. SeenStatus' = [SeenStatus EXCEPT ![c] = Status(c)']
  BY <1>1 DEF SeenStatus
<1>3. SeenRequest' = SeenRequest
  BY DEF SeenRequest, Asks, Ask, Dst, Src, Pc
<1>4. QED
  BY <1>2, <1>3

LEMMA SeenPut ==
  ASSUME NEW p \in Paths, NEW f, objects \in [Paths -> Files \cup {Absent}],
         objects' = [objects EXCEPT ![p] = f]
  PROVE  SeenObjects' = [SeenObjects EXCEPT ![p] = IF f = Absent THEN Absent ELSE f.data]
BY DEF SeenObjects

LEMMA StaysQuiet ==
  ASSUME NEW c \in Calls, Asks(c), Pc(c) # "idle", call'[c].pc # "idle",
         Status(c)' = Status(c), objects' = objects
  PROVE  Abides
<1>1. SeenStatus' = SeenStatus /\ SeenRequest' = SeenRequest
  BY SeenMove DEF SeenStatus
<1>2. SeenObjects' = SeenObjects
  BY DEF SeenObjects
<1>3. QED
  BY <1>1, <1>2 DEF Abides, Seen

LEMMA JustFails ==
  ASSUME NEW c \in Calls, Asks(c), Pc(c) \notin Rest, Status(c)' = "failed",
         call'[c].pc # "idle", objects' = objects
  PROVE  Abides
<1>1. Status(c) = "pending" /\ Pc(c) # "idle"
  BY StatusOf DEF Rest
<1>2. SeenStatus' = [SeenStatus EXCEPT ![c] = "failed"] /\ SeenRequest' = SeenRequest
  BY <1>1, SeenMove
<1>3. SeenStatus' = [d \in Calls |-> IF d \in {c} THEN "failed" ELSE SeenStatus[d]]
  BY <1>2 DEF SeenStatus
<1>4. SeenObjects' = SeenObjects
  BY DEF SeenObjects
<1>5. {c} \in SUBSET {d \in Calls : Status(d) = "pending"}
  BY <1>1
<1>6. QED
  BY <1>2, <1>3, <1>4, <1>5, SeenFail DEF Abides

\* What a call has to have written when it ends well.
LEMMA JustWrites ==
  ASSUME KInv, NEW c \in Calls, Asks(c), Pc(c) \notin Rest, Status(c)' \in {"ok", "failed"},
         call'[c].pc # "idle", Ask(c).op \in {"put", "copy"}, NEW f \in Files,
         objects' = [objects EXCEPT ![Dst(c)] = f],
         f.data = IF Ask(c).op = "copy" /\ call[c].data = None THEN SeenObjects[Src(c)]
                  ELSE call[c].data
  PROVE  Abides
<1>1. Status(c) = "pending" /\ Pc(c) # "idle"
  BY StatusOf DEF Rest
<1>2. SeenStatus' = [SeenStatus EXCEPT ![c] = Status(c)'] /\ SeenRequest' = SeenRequest
  BY <1>1, SeenMove
<1>3. /\ Dst(c) \in Paths /\ Src(c) \in Paths /\ f # Absent /\ f.data # Absent
      /\ objects \in [Paths -> Files \cup {Absent}]
  BY CallTyped, RequestAssumption, DataAssumption DEF KInv, BackendTypeOK, Files
<1>4. SeenObjects' = [SeenObjects EXCEPT ![Dst(c)] = f.data]
  BY <1>3, SeenPut
<1>5. QED
  BY <1>1, <1>2, <1>3, <1>4, SeenWrite DEF Abides

LEMMA JustDeletes ==
  ASSUME KInv, NEW c \in Calls, Asks(c), Pc(c) \notin Rest, Status(c)' \in {"ok", "failed"},
         call'[c].pc # "idle", Ask(c).op = "delete",
         objects' = [objects EXCEPT ![Dst(c)] = Absent]
  PROVE  Abides
<1>1. Status(c) = "pending" /\ Pc(c) # "idle"
  BY StatusOf DEF Rest
<1>2. SeenStatus' = [SeenStatus EXCEPT ![c] = Status(c)'] /\ SeenRequest' = SeenRequest
  BY <1>1, SeenMove
<1>3. Dst(c) \in Paths /\ objects \in [Paths -> Files \cup {Absent}]
  BY CallTyped DEF KInv, BackendTypeOK
<1>4. SeenObjects' = [SeenObjects EXCEPT ![Dst(c)] = Absent]
  BY <1>3, SeenPut
<1>5. QED
  BY <1>1, <1>2, <1>4, SeenDelete DEF Abides

LEMMA JustMissing ==
  ASSUME KInv, NEW c \in Calls, Asks(c), Pc(c) \notin Rest, call'[c].pc = "missing",
         Ask(c).op \in {"copy", "stat"}, objects[Src(c)] = Absent, objects' = objects
  PROVE  Abides
<1>1. Status(c) = "pending" /\ Pc(c) # "idle" /\ Status(c)' = "missing"
  BY StatusOf, StatusNext DEF Rest
<1>2. SeenStatus' = [SeenStatus EXCEPT ![c] = "missing"] /\ SeenRequest' = SeenRequest
  BY <1>1, SeenMove
<1>3. Src(c) \in Paths /\ SeenObjects' = SeenObjects
  BY CallTyped DEF KInv, SeenObjects
<1>4. QED
  BY <1>1, <1>2, <1>3, SeenMissing DEF Abides

LEMMA JustLooks ==
  ASSUME NEW c \in Calls, Asks(c), Pc(c) \notin Rest, Status(c)' \in {"ok", "failed"},
         call'[c].pc # "idle", Ask(c).op = "stat", objects' = objects
  PROVE  Abides
<1>1. Status(c) = "pending" /\ Pc(c) # "idle"
  BY StatusOf DEF Rest
<1>2. SeenStatus' = [SeenStatus EXCEPT ![c] = Status(c)'] /\ SeenRequest' = SeenRequest
  BY <1>1, SeenMove
<1>3. SeenObjects' = SeenObjects
  BY DEF SeenObjects
<1>4. QED
  BY <1>1, <1>2, <1>3, SeenStat DEF Abides

----------------------------------------------------------------------------
LEMMA GoAsks ==
  ASSUME KInv, NEW c \in Calls, NEW l, Go(c, l)
  PROVE  Asks(c) /\ call'[c].pc = l
BY GoSets DEF KInv, Asks, Steady

LEMMA ThenAsks ==
  ASSUME KInv, NEW c \in Calls, NEW l, Then(c, l)
  PROVE  Asks(c) /\ call'[c].pc \in {l, "failed"}
BY ThenSets DEF KInv, Asks, Steady

\* A call that writes goes on, or ends in failure.
LEMMA GoesQuietly ==
  ASSUME KInv, NEW c \in Calls, NEW l, Go(c, l), Pc(c) \notin Rest, l \notin Rest,
         objects' = objects
  PROVE  Abides
<1>1. Asks(c) /\ call'[c].pc = l
  BY GoAsks
<1>2. Status(c) = "pending"
  BY StatusOf
<1>3. Status(c)' = "pending"
  BY <1>1, StatusNext
<1>4. Pc(c) # "idle" /\ l # "idle"
  BY DEF Rest
<1>5. QED
  BY <1>1, <1>2, <1>3, <1>4, StaysQuiet

LEMMA OpenSourceAbides == ASSUME KInv, SInv, NEW c \in Calls, OpenSource(c) PROVE Abides
<1>1. Pc(c) = "open" /\ objects' = objects /\ Ask(c).op = "copy" /\ Src(c) \in Paths
  BY FileActs DEF OpenSource, PlaceOK, Pc, Ask
<1>2. CASE objects[Src(c)] = Absent
  <2>1. Go(c, "missing")
    BY <1>2 DEF OpenSource
  <2>2. QED
    BY <1>1, <1>2, <2>1, GoAsks, JustMissing DEF Rest
<1>3. CASE objects[Src(c)] # Absent
  <2>1. DEFINE r == [call[c] EXCEPT !.pc = "create", !.data = objects[Src(c)].data]
  <2>2. call'[c] = r /\ \A d \in Calls \ {c} : call'[d] = call[d]
    BY <1>3 DEF OpenSource, KInv, BackendTypeOK
  <2>3. r.pc = "create" /\ r.data = objects[Src(c)].data /\ r.ask = call[c].ask
    BY FileActs DEF Call
  <2> HIDE DEF r
  <2>4. /\ SeenObjects[Src(c)] = objects[Src(c)].data /\ SeenObjects[Src(c)] # Absent
        /\ SeenObjects' = SeenObjects
    BY <1>1, <1>3, FileActs, DataAssumption DEF SeenObjects, Files
  <2>5. Status(c) = "pending" /\ Status(c)' = "pending"
    BY <1>1, <2>2, <2>3, StatusOf, StatusNext DEF Rest
  <2>6. SeenStatus' = SeenStatus
    BY <2>2, <2>5 DEF SeenStatus, Status, Pc
  <2>7. SeenRequest' = [SeenRequest EXCEPT ![c].data = SeenObjects[Src(c)]]
    BY <1>1, <2>2, <2>3, <2>4 DEF SeenRequest, Ask, Dst, Src, Pc
  <2>8. QED
    BY <1>1, <2>4, <2>5, <2>6, <2>7, SeenRead DEF Abides
<1>4. QED
  BY <1>2, <1>3

\* What takes its place is the content the call was to write, whole.
LEMMA PlaceAbides ==
  ASSUME KInv, SInv, NEW c \in Calls, Pc(c) \in {"rename", "take its place"}, Place(c),
         NEW l \in {"ok", "remove old"}, Then(c, l)
  PROVE  Abides
<1>1. /\ temp[c] \in Files /\ temp[c].data = call[c].data
      /\ objects' = [objects EXCEPT ![Dst(c)] = temp[c]]
  BY PlaceSound DEF Place
<1>2. Ask(c).op \in {"put", "copy"} /\ call[c].data # None
  BY FileActs DEF PlaceOK, Pc, Ask, Writing
<1>3. Asks(c) /\ call'[c].pc \in {l, "failed"}
  BY ThenAsks
<1>4. Status(c)' \in {"ok", "failed"} /\ call'[c].pc # "idle"
  BY <1>3, StatusNext
<1>5. QED
  BY <1>1, <1>2, <1>3, <1>4, JustWrites DEF Rest

LEMMA PutsAbide ==
  ASSUME KInv, SInv, NEW c \in Calls,
         Create(c) \/ Write(c) \/ Sync(c) \/ RenameOver(c) \/ RenameNew(c) \/ NothingToMove(c)
         \/ TakePlace(c) \/ RemoveOld(c) \/ Clear(c)
  PROVE  Abides
<1>1. CASE Create(c) \/ Write(c) \/ Sync(c) \/ NothingToMove(c)
  <2>1. PICK l \in {"write", "sync", "rename", "clear"} : Go(c, l)
    BY <1>1 DEF Create, Write, Sync, NothingToMove
  <2>2. Pc(c) \in {"create", "write", "sync", "move aside"} /\ objects' = objects
    BY <1>1 DEF Create, Write, Sync, NothingToMove
  <2>3. QED
    BY <2>1, <2>2, GoesQuietly DEF Rest
<1>2. CASE RenameOver(c)
  BY <1>2, PlaceAbides DEF RenameOver
<1>3. CASE RenameNew(c)
  <2>1. CASE Place(c) /\ Then(c, "ok")
    BY <1>3, <2>1, PlaceAbides DEF RenameNew
  <2>2. CASE Go(c, "move aside") /\ objects' = objects
    BY <1>3, <2>2, GoesQuietly DEF RenameNew, Rest
  <2>3. QED
    BY <1>3, <2>1, <2>2 DEF RenameNew
<1>4. CASE TakePlace(c)
  <2>1. CASE Place(c) /\ Then(c, "remove old")
    BY <1>4, <2>1, PlaceAbides DEF TakePlace
  <2>2. CASE Go(c, "restore") /\ objects' = objects
    BY <1>4, <2>2, GoesQuietly DEF TakePlace, Rest
  <2>3. QED
    BY <1>4, <2>1, <2>2 DEF TakePlace
<1>5. CASE RemoveOld(c)
  <2>1. Asks(c) /\ call'[c].pc = "ok" /\ Pc(c) = "remove old" /\ objects' = objects
    BY <1>5, GoAsks DEF RemoveOld
  <2>2. Status(c) = "ok" /\ Status(c)' = "ok"
    BY <2>1, StatusOf, StatusNext
  <2>3. QED
    BY <2>1, <2>2, StaysQuiet
<1>6. CASE Clear(c)
  <2>1. Asks(c) /\ call'[c].pc = "failed" /\ Pc(c) = "clear" /\ objects' = objects
    BY <1>6, GoAsks DEF Clear
  <2>2. Status(c)' = "failed"
    BY <2>1, StatusNext
  <2>3. QED
    BY <2>1, <2>2, JustFails DEF Rest
<1>7. QED
  BY <1>1, <1>2, <1>3, <1>4, <1>5, <1>6

LEMMA RemoveAbides == ASSUME KInv, SInv, NEW c \in Calls, Remove(c) PROVE Abides
<1>1. Pc(c) = "remove" /\ Ask(c).op = "delete" /\ objects' = [objects EXCEPT ![Dst(c)] = Absent]
  BY DEF Remove, KInv, Removing
<1>2. Asks(c) /\ call'[c].pc \in {"ok", "failed"}
  BY ThenAsks DEF Remove
<1>3. Status(c)' \in {"ok", "failed"}
  BY <1>2, StatusNext
<1>4. QED
  BY <1>1, <1>2, <1>3, JustDeletes DEF Rest

LEMMA StatFileAbides == ASSUME KInv, SInv, NEW c \in Calls, StatFile(c) PROVE Abides
<1>1. Pc(c) = "stat" /\ objects' = objects /\ Ask(c).op \in {"copy", "stat"}
  BY FileActs DEF StatFile, PlaceOK, Pc, Ask
<1>2. CASE objects[Src(c)] = Absent
  <2>1. Asks(c) /\ call'[c].pc = "missing"
    BY <1>2, GoAsks DEF StatFile
  <2>2. QED
    BY <1>1, <1>2, <2>1, JustMissing DEF Rest
<1>3. CASE objects[Src(c)] # Absent /\ Ask(c).op = "copy"
  BY <1>1, <1>3, GoesQuietly DEF StatFile, Rest
<1>4. CASE objects[Src(c)] # Absent /\ Ask(c).op = "stat"
  <2>1. Asks(c) /\ call'[c].pc = "ok"
    BY <1>4, GoAsks DEF StatFile
  <2>2. Status(c)' = "ok"
    BY <2>1, StatusNext
  <2>3. QED
    BY <1>1, <1>4, <2>1, <2>2, JustLooks DEF Rest
<1>5. QED
  BY <1>1, <1>2, <1>3, <1>4

LEMMA CopiesAbide ==
  ASSUME KInv, SInv, NEW c \in Calls, CopyFinish(c) \/ CopyLeft(c)
  PROVE  Abides
<1>1. Pc(c) = "copying" /\ Ask(c).op = "copy" /\ call[c].data # None
  BY FileActs DEF CopyFinish, CopyLeft, PlaceOK, Pc, Ask
<1>2. CASE CopyFinish(c) /\ Overtaken(c)
  BY <1>2 DEF Abides, Departs
<1>3. CASE CopyFinish(c) /\ ~Overtaken(c)
  <2>1. DEFINE f == [objects[Dst(c)] EXCEPT !.data = call[c].data]
  <2>2. objects' = [objects EXCEPT ![Dst(c)] = f]
    BY <1>3 DEF CopyFinish, CopyRest
  <2>3. objects[Dst(c)] \in Files /\ call[c].data \in Data
    BY <1>3, FileActs, CallTyped DEF Overtaken
  <2>4. f \in Files /\ f.data = call[c].data
    BY <2>3 DEF Files
  <2> HIDE DEF f
  <2>5. Asks(c) /\ call'[c].pc \in {"ok", "failed"}
    BY <1>3, ThenAsks DEF CopyFinish
  <2>6. Status(c)' \in {"ok", "failed"}
    BY <2>5, StatusNext
  <2>7. QED
    BY <1>1, <2>2, <2>4, <2>5, <2>6, JustWrites DEF Rest
<1>4. CASE CopyLeft(c)
  <2>1. DEFINE r == [call[c] EXCEPT !.pc = "copying alone", !.cut = TRUE]
  <2>2. call'[c] = r /\ \A d \in Calls \ {c} : call'[d] = call[d]
    BY <1>4 DEF CopyLeft, KInv, BackendTypeOK
  <2>3. r.pc = "copying alone" /\ r.ask = call[c].ask /\ r.data = call[c].data
    BY FileActs DEF Call
  <2> HIDE DEF r
  <2>4. Asks(c) /\ call'[c].pc = "copying alone"
    BY <2>2, <2>3 DEF Asks
  <2>5. Status(c)' = "failed" /\ objects' = objects
    BY <1>4, <2>4, StatusNext DEF CopyLeft
  <2>6. QED
    BY <1>1, <2>4, <2>5, JustFails DEF Rest
<1>5. QED
  BY <1>2, <1>3, <1>4

LEMMA FileAbides == ASSUME KInv, SInv, NEW c \in Calls, FileStep(c) PROVE Abides
<1>1. CASE MoveAside(c) \/ Restore(c) \/ CopyInPlace(c) \/ CopyAlone(c)
  BY <1>1 DEF Abides, Departs
<1>2. QED
  BY <1>1, OpenSourceAbides, PutsAbide, RemoveAbides, StatFileAbides, CopiesAbide DEF FileStep

----------------------------------------------------------------------------
\* Another place on the same bucket, with the same question.
LEMMA ServerQuiet ==
  ASSUME KInv, NEW c \in Calls, NEW r, call' = [call EXCEPT ![c] = r], Pc(c) \in OnServer,
         r.pc \in OnServer \cup {"misdirected"}, r.ask = call[c].ask, r.data = call[c].data,
         objects' = objects
  PROVE  Abides
<1>1. call'[c] = r /\ \A d \in Calls \ {c} : call'[d] = call[d]
  BY DEF KInv, BackendTypeOK
<1>2. Asks(c) /\ Pc(c) \notin Rest
  BY <1>1 DEF Asks, OnServer, Rest
<1>3. CASE r.pc = "misdirected"
  <2>1. Status(c)' = "failed" /\ call'[c].pc # "idle"
    BY <1>1, <1>3, StatusNext
  <2>2. QED
    BY <1>2, <2>1, JustFails
<1>4. CASE r.pc \in OnServer
  <2>1. Status(c) = "pending"
    BY <1>2, StatusOf
  <2>2. Status(c)' = "pending"
    BY <1>1, <1>4, StatusNext DEF OnServer, Rest
  <2>3. Pc(c) # "idle" /\ call'[c].pc # "idle"
    BY <1>1, <1>4 DEF OnServer
  <2>4. QED
    BY <1>2, <2>1, <2>2, <2>3, StaysQuiet
<1>5. QED
  BY <1>3, <1>4

LEMMA AnsweredAsks ==
  ASSUME KInv, SInv, NEW c \in Calls, NEW part, Arrived(c, part), Answered(c)
  PROVE  \/ /\ Len(call[c].todo) = 1 /\ Ask(c).op = part /\ Asks(c)
            /\ Status(c)' \in {"ok", "failed"} /\ call'[c].pc # "idle"
         \/ /\ part = "stat"
            /\ \E r : /\ call' = [call EXCEPT ![c] = r] /\ r.pc = "send"
                      /\ r.ask = call[c].ask /\ r.data = call[c].data
<1>1. CASE Len(call[c].todo) = 1
  <2>1. Asks(c) /\ call'[c].pc \in {"ok", "failed"}
    BY <1>1, ThenAsks DEF Answered
  <2>2. Status(c)' \in {"ok", "failed"}
    BY <2>1, StatusNext
  <2>3. Ask(c).op = part
    BY <1>1, ArrivedAsks
  <2>4. QED
    BY <1>1, <2>1, <2>2, <2>3
<1>2. CASE Len(call[c].todo) # 1
  <2>1. DEFINE r == [call[c] EXCEPT !.pc = "send", !.todo = Tail(call[c].todo)]
  <2>2. call' = [call EXCEPT ![c] = r]
    BY <1>2 DEF Answered
  <2>3. r.pc = "send" /\ r.ask = call[c].ask /\ r.data = call[c].data
    BY FileActs DEF Call
  <2> HIDE DEF r
  <2>4. part = "stat"
    BY <1>2, ArrivedAsks
  <2>5. QED
    BY <2>2, <2>3, <2>4
<1>3. QED
  BY <1>1, <1>2

LEMMA SendsAbide ==
  ASSUME KInv, SInv, NEW c \in Calls, Send(c) \/ Redirected(c) \/ UseRegion(c) PROVE Abides
<1>1. Pc(c) \in OnServer /\ objects' = objects
  BY DEF Send, Redirected, UseRegion, OnServer
<1>2. CASE Send(c)
  <2>1. DEFINE r == [call[c] EXCEPT !.pc = IF Pc(c) = "send" THEN "sent" ELSE "resent",
                                    !.at = region, !.body = "whole"]
  <2>2. call' = [call EXCEPT ![c] = r]
    BY <1>2 DEF Send
  <2>3. r.pc \in {"sent", "resent"} /\ r.ask = call[c].ask /\ r.data = call[c].data
    BY FileActs DEF Call
  <2> HIDE DEF r
  <2>4. QED
    BY <1>1, <2>2, <2>3, ServerQuiet DEF OnServer
<1>3. CASE Redirected(c)
  <2>1. DEFINE r == [call[c] EXCEPT !.pc = IF Pc(c) = "sent" THEN "redirected" ELSE "misdirected",
                                    !.body = "spent"]
  <2>2. call' = [call EXCEPT ![c] = r]
    BY <1>3 DEF Redirected
  <2>3. r.pc \in {"redirected", "misdirected"} /\ r.ask = call[c].ask /\ r.data = call[c].data
    BY FileActs DEF Call
  <2> HIDE DEF r
  <2>4. QED
    BY <1>1, <2>2, <2>3, ServerQuiet DEF OnServer
<1>4. CASE UseRegion(c)
  <2>1. PICK l \in {"misdirected", "resend"} : Go(c, l)
    BY <1>4 DEF UseRegion
  <2>2. DEFINE r == [call[c] EXCEPT !.pc = l]
  <2>3. call' = [call EXCEPT ![c] = r]
    BY <2>1 DEF Go
  <2>4. r.pc = l /\ r.ask = call[c].ask /\ r.data = call[c].data
    BY FileActs DEF Call
  <2> HIDE DEF r
  <2>5. QED
    BY <1>1, <2>1, <2>3, <2>4, ServerQuiet DEF OnServer
<1>5. QED
  BY <1>2, <1>3, <1>4

LEMMA RequestsAbide ==
  ASSUME KInv, SInv, NEW c \in Calls,
         PutObject(c) \/ DeleteObject(c) \/ HeadObject(c) \/ CopyObject(c)
  PROVE  Abides
<1>1. Pc(c) \in OnServer /\ Pc(c) \notin Rest
  BY DEF PutObject, DeleteObject, HeadObject, CopyObject, Arrived, OnServer, Rest
<1>2. CASE PutObject(c)
  <2>1. DEFINE f == Object(call[c].data, call[c].data, TRUE, c)
  <2>2. Arrived(c, "put") /\ Answered(c)
    BY <1>2 DEF PutObject
  <2>3. call[c].body = "whole"
    BY <2>2, ArrivedAsks
  <2>4. objects' = [objects EXCEPT ![Dst(c)] = f]
    BY <1>2, <2>3 DEF PutObject
  <2>5. f \in Files /\ f.data = call[c].data
    BY CallTyped DEF KInv, Object, Files
  <2> HIDE DEF f
  <2>6. Ask(c).op = "put" /\ Asks(c) /\ Status(c)' \in {"ok", "failed"} /\ call'[c].pc # "idle"
    BY <2>2, AnsweredAsks
  <2>7. QED
    BY <1>1, <2>4, <2>5, <2>6, JustWrites
<1>3. CASE DeleteObject(c)
  <2>1. /\ Ask(c).op = "delete" /\ Asks(c) /\ Status(c)' \in {"ok", "failed"}
        /\ call'[c].pc # "idle"
    BY <1>3, AnsweredAsks DEF DeleteObject
  <2>2. QED
    BY <1>1, <1>3, <2>1, JustDeletes DEF DeleteObject
<1>4. CASE HeadObject(c)
  <2>1. Arrived(c, "stat") /\ objects' = objects
    BY <1>4 DEF HeadObject
  <2>2. CASE objects[Src(c)] = Absent
    <3>1. Asks(c) /\ call'[c].pc = "missing"
      BY <1>4, <2>2, GoAsks DEF HeadObject
    <3>2. Ask(c).op \in {"copy", "stat"}
      BY <2>1, ArrivedAsks
    <3>3. QED
      BY <1>1, <2>1, <2>2, <3>1, <3>2, JustMissing
  <2>3. CASE Answered(c)
    <3>1. CASE /\ Ask(c).op = "stat" /\ Asks(c)
               /\ Status(c)' \in {"ok", "failed"} /\ call'[c].pc # "idle"
      BY <1>1, <2>1, <3>1, JustLooks
    <3>2. CASE \E r : /\ call' = [call EXCEPT ![c] = r] /\ r.pc = "send"
                      /\ r.ask = call[c].ask /\ r.data = call[c].data
      BY <1>1, <2>1, <3>2, ServerQuiet DEF OnServer
    <3>3. QED
      BY <2>1, <2>3, <3>1, <3>2, AnsweredAsks
  <2>4. QED
    BY <1>4, <2>2, <2>3 DEF HeadObject
<1>5. CASE CopyObject(c)
  <2>1. Arrived(c, "copy") /\ Ask(c).op = "copy" /\ call[c].data = None
    <3>1. Arrived(c, "copy")
      BY <1>5 DEF CopyObject
    <3>2. Ask(c).op = "copy" /\ call[c].data = Ask(c).data
      BY <3>1, ArrivedAsks
    <3>3. Ask(c) \in Requests
      BY CallTyped DEF KInv
    <3>4. QED
      BY <3>1, <3>2, <3>3, RequestAssumption
  <2>2. CASE objects[Src(c)] = Absent
    <3>1. PICK l \in {"missing", "failed"} : Go(c, l) /\ objects' = objects
      BY <1>5, <2>2 DEF CopyObject
    <3>2. Asks(c) /\ call'[c].pc = l
      BY <3>1, GoAsks
    <3>3. CASE l = "missing"
      BY <1>1, <2>1, <2>2, <3>1, <3>2, <3>3, JustMissing
    <3>4. CASE l = "failed"
      <4>1. Status(c)' = "failed"
        BY <3>2, <3>4, StatusNext
      <4>2. QED
        BY <1>1, <3>1, <3>2, <3>4, <4>1, JustFails
    <3>5. QED
      BY <3>3, <3>4
  <2>3. CASE objects[Src(c)] # Absent
    <3>1. DEFINE f == [objects[Src(c)] EXCEPT !.by = c]
    <3>2. objects' = [objects EXCEPT ![Dst(c)] = f] /\ Answered(c)
      BY <1>5, <2>3 DEF CopyObject
    <3>3. objects[Src(c)] \in Files /\ Src(c) \in Paths
      BY <2>3, FileActs
    <3>4. f \in Files /\ f.data = SeenObjects[Src(c)]
      BY <2>3, <3>3 DEF Files, SeenObjects
    <3> HIDE DEF f
    <3>5. Asks(c) /\ Status(c)' \in {"ok", "failed"} /\ call'[c].pc # "idle"
      BY <2>1, <3>2, AnsweredAsks
    <3>6. QED
      BY <1>1, <2>1, <3>2, <3>4, <3>5, JustWrites
  <2>4. QED
    BY <2>2, <2>3
<1>6. QED
  BY <1>2, <1>3, <1>4, <1>5

LEMMA BucketAbides == ASSUME KInv, SInv, NEW c \in Calls, BucketStep(c) PROVE Abides
<1>1. CASE CommitTruncated(c)
  BY <1>1 DEF Abides, Departs
<1>2. QED
  BY <1>1, SendsAbide, RequestsAbide DEF BucketStep

----------------------------------------------------------------------------
LEMMA BeginAbides == ASSUME KInv, SInv, NEW c \in Calls, Begin(c) PROVE Abides
<1>1. PICK q \in Requests :
        call' = [call EXCEPT ![c] = [@ EXCEPT !.pc = Entry(q), !.ask = q, !.data = q.data,
                                              !.todo = Parts(q)]]
  BY DEF Begin
<1>2. DEFINE r == [call[c] EXCEPT !.pc = Entry(q), !.ask = q, !.data = q.data, !.todo = Parts(q)]
<1>3. call'[c] = r /\ \A d \in Calls \ {c} : call'[d] = call[d]
  BY <1>1 DEF KInv, BackendTypeOK
<1>4. r.pc = Entry(q) /\ r.ask = q /\ r.data = q.data
  BY FileActs DEF Call
<1> HIDE DEF r
<1>5. q \in [op : Ops, path : Paths, src : Paths, data : Contents \cup {None}]
  BY RequestAssumption
<1>6. Entry(q) \in {"send", "create", "remove", "stat", "open"}
  BY <1>5 DEF Entry, Ops
<1>7. Pc(c) = "idle" /\ SeenObjects' = SeenObjects
  BY DEF Begin, SeenObjects
<1>8. Status(c) = "idle" /\ Status(c)' = "pending"
  <2>1. Entry(q) \notin Rest
    BY <1>6 DEF Rest
  <2>2. QED
    BY <1>3, <1>4, <1>7, <2>1, StatusOf, StatusNext
<1>9. ASSUME NEW d \in Calls, d # c PROVE Status(d)' = Status(d)
  BY <1>3, <1>9 DEF Status, Pc
<1>10. SeenStatus' = [SeenStatus EXCEPT ![c] = "pending"]
  BY <1>8, <1>9 DEF SeenStatus
<1>11. q = [op |-> q.op, path |-> q.path, src |-> q.src, data |-> q.data]
  BY <1>5
<1>12. Entry(q) # "idle"
  BY <1>6
<1>13. SeenRequest' = [SeenRequest EXCEPT ![c] = q]
  BY <1>3, <1>4, <1>11, <1>12 DEF SeenRequest, Ask, Dst, Src, Pc
<1>14. QED
  BY <1>7, <1>8, <1>10, <1>13, SeenBegin DEF Abides

LEMMA RefuseAbides == ASSUME KInv, SInv, NEW c \in Calls, Refuse(c) PROVE Abides
<1>1. objects' = objects /\ Running(c)
  BY DEF Refuse
<1> DEFINE l == OnError(c)
<1>2. /\ Go(c, l)
      /\ \/ l \in {"move aside", "restore", "clear", "failed", "littered"} /\ Pc(c) # "remove old"
         \/ l = "ok" /\ Pc(c) = "remove old"
  <2>1. Go(c, l)
    BY DEF Refuse
  <2>2. CASE Pc(c) = "remove old"
    BY <2>1, <2>2 DEF OnError
  <2>3. CASE Pc(c) # "remove old"
    <3>1. OnError(c) \in {"move aside", "restore", "clear", "failed", "littered"}
      BY <2>3 DEF OnError
    <3>2. QED
      BY <2>1, <2>3, <3>1
  <2>4. QED
    BY <2>2, <2>3
<1> HIDE DEF l
<1>3. Asks(c) /\ call'[c].pc = l
  BY <1>2, GoAsks
<1>4. CASE l = "ok" /\ Pc(c) = "remove old"
  <2>1. Status(c) = "ok" /\ Status(c)' = "ok"
    BY <1>3, <1>4, StatusOf, StatusNext
  <2>2. QED
    BY <1>1, <1>3, <1>4, <2>1, StaysQuiet
<1>5. CASE l # "ok"
  <2>1. Pc(c) \notin Rest
    BY <1>1, <1>2, <1>5 DEF Running, Rest, Ended
  <2>2. CASE l \in {"failed", "littered"}
    <3>1. Status(c)' = "failed"
      BY <1>3, <2>2, StatusNext
    <3>2. QED
      BY <1>1, <1>3, <2>1, <2>2, <3>1, JustFails
  <2>3. CASE l \in {"move aside", "restore", "clear"}
    BY <1>1, <1>2, <2>1, <2>3, GoesQuietly DEF Rest
  <2>4. QED
    BY <1>2, <1>5, <2>2, <2>3
<1>6. QED
  BY <1>2, <1>4, <1>5

LEMMA CutAbides == ASSUME KInv, SInv, NEW c \in Calls, Cut(c) PROVE Abides
<1>1. DEFINE l == IF Pc(c) = "remove old" THEN "ok" ELSE "failed"
             r == [call[c] EXCEPT !.pc = l, !.cut = TRUE]
<1>2. call'[c] = r /\ \A d \in Calls \ {c} : call'[d] = call[d]
  BY DEF Cut, KInv, BackendTypeOK
<1>3. r.pc = l /\ r.ask = call[c].ask /\ r.data = call[c].data
  BY FileActs DEF Call
<1> HIDE DEF r
<1>4. Asks(c) /\ call'[c].pc = l /\ objects' = objects /\ Running(c)
  BY <1>2, <1>3 DEF Asks, Cut
<1>5. CASE Pc(c) = "remove old"
  <2>1. Status(c) = "ok" /\ Status(c)' = "ok"
    BY <1>4, <1>5, StatusOf, StatusNext
  <2>2. QED
    BY <1>4, <1>5, <2>1, StaysQuiet
<1>6. CASE Pc(c) # "remove old"
  <2>1. Pc(c) \notin Rest
    BY <1>4, <1>6 DEF Running, Rest, Ended
  <2>2. Status(c)' = "failed"
    BY <1>4, <1>6, StatusNext
  <2>3. QED
    BY <1>4, <1>6, <2>1, <2>2, JustFails
<1>7. QED
  BY <1>5, <1>6

\* All calls fail at once, and no object is lost with them.
LEMMA PowerCutAbides == ASSUME KInv, SInv, PowerCut PROVE Abides
<1>1. objects' = objects /\ kind = "local"
  BY PowerKeeps DEF PowerCut
<1>2. DEFINE S == {c \in Calls : Running(c)}
<1>3. ASSUME NEW c \in Calls, Running(c) PROVE Pc(c) \notin Rest
  <2>1. Pc(c) # "remove old"
    BY <1>1, FileActs DEF PlaceOK, Awry, Pc
  <2>2. QED
    BY <1>3, <2>1 DEF Running, Rest, Ended
<1>4. S \in SUBSET {c \in Calls : Status(c) = "pending"}
  BY <1>3, StatusOf
<1>5. ASSUME NEW c \in Calls
      PROVE  /\ call'[c].ask = call[c].ask /\ call'[c].data = call[c].data
             /\ Pc(c)' = "idle" <=> Pc(c) = "idle"
             /\ Status(c)' = IF c \in S THEN "failed" ELSE Status(c)
  <2>1. CASE Running(c)
    <3>1. call'[c] = [call[c] EXCEPT !.pc = "failed", !.cut = TRUE]
      BY <2>1 DEF PowerCut
    <3>2. /\ call'[c].pc = "failed" /\ call'[c].ask = call[c].ask
          /\ call'[c].data = call[c].data
      BY <3>1, FileActs DEF Call
    <3>3. Pc(c) # "idle"
      BY <2>1 DEF Running
    <3>4. Status(c)' = "failed"
      BY <3>2, StatusNext
    <3>5. QED
      BY <2>1, <3>2, <3>3, <3>4 DEF Pc
  <2>2. CASE ~Running(c)
    <3>1. call'[c] = call[c]
      BY <2>2 DEF PowerCut
    <3>2. Status(c)' = Status(c)
      BY <3>1 DEF Status, Pc
    <3>3. QED
      BY <2>2, <3>1, <3>2 DEF Pc
  <2>3. QED
    BY <2>1, <2>2
<1> HIDE DEF S
<1>6. SeenStatus' = [c \in Calls |-> IF c \in S THEN "failed" ELSE SeenStatus[c]]
  BY <1>5 DEF SeenStatus
<1>7. SeenRequest' = SeenRequest
  BY <1>5 DEF SeenRequest, Ask, Dst, Src
<1>8. SeenObjects' = SeenObjects
  BY <1>1 DEF SeenObjects
<1>9. QED
  BY <1>4, <1>6, <1>7, <1>8, SeenFail DEF Abides

LEMMA NextAbides == KInv /\ SInv /\ [Next]_vars => Abides
<1> SUFFICES ASSUME KInv, SInv, [Next]_vars PROVE Abides
  OBVIOUS
<1>1. CASE UNCHANGED vars
  <2>1. UNCHANGED <<objects, call>>
    BY <1>1 DEF vars
  <2>2. SeenObjects' = SeenObjects
    BY <2>1 DEF SeenObjects
  <2>3. SeenStatus' = SeenStatus
    BY <2>1 DEF SeenStatus, Status, Pc
  <2>4. SeenRequest' = SeenRequest
    BY <2>1 DEF SeenRequest, Ask, Dst, Src, Pc
  <2>5. QED
    BY <2>2, <2>3, <2>4 DEF Abides, Seen
<1>2. QED
  BY <1>1, BeginAbides, FileAbides, BucketAbides, RefuseAbides, CutAbides, PowerCutAbides
     DEF Next, AllEnded

LEMMA InitAbides == Init => Store!Init
<1> SUFFICES ASSUME Init PROVE Store!Init
  OBVIOUS
<1>1. (CHOOSE r \in Requests : TRUE) \in Requests
  BY RequestAssumption
<1>2. ASSUME NEW c \in Calls PROVE Ask(c) \in Requests /\ Pc(c) = "idle" /\ Status(c) = "idle"
  BY <1>1, StatusOf DEF Init, Ask, Pc
<1>3. SeenStatus = [c \in Calls |-> "idle"]
  BY <1>2 DEF SeenStatus
<1>4. ASSUME NEW c \in Calls PROVE SeenRequest[c] = Ask(c)
  <2>1. Ask(c) \in [op : Ops, path : Paths, src : Paths, data : Contents \cup {None}]
    BY <1>2, RequestAssumption
  <2>2. Ask(c) = [op |-> Ask(c).op, path |-> Ask(c).path, src |-> Ask(c).src, data |-> Ask(c).data]
    BY <2>1
  <2>3. QED
    BY <1>2, <2>2 DEF SeenRequest, Dst, Src
<1>5. SeenRequest \in [Calls -> Requests]
  BY <1>2, <1>4 DEF SeenRequest
<1>6. QED
  BY <1>3, <1>5 DEF Store!Init, SeenStatus, SeenRequest

\* For any number of calls, whatever fails and wherever the connection, the
\* process or the power goes, every call on every backend takes effect in one
\* step or not at all, except by the steps Departs names (local.go:84,
\* sftp.go:180, local.go:130): Backends implements ObjectStore but for these.
THEOREM StoreAbides == Spec => StoreCallsAtomic
<1>1. KInv /\ SInv /\ [Next]_vars =>
        [(\E c \in Calls : Departs(c)) \/ Store!Next]_(Store!absVars)
  <2>1. UNCHANGED Seen => UNCHANGED (Store!absVars)
    BY DEF Seen, SeenObjects, SeenStatus, SeenRequest, Store!absVars
  <2>2. QED
    BY <2>1, NextAbides DEF Abides
<1>2. QED
  BY <1>1, InitAbides, StoreInv, PTL DEF Spec, StoreCallsAtomic
==============================================================================
