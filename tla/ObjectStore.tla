---------------------------- MODULE ObjectStore ----------------------------
(***************************************************************************)
(* What pkg/publish relies on of a backend (pkg/backend/backend.go): each  *)
(* call takes effect in one step, at most once, while it is under way.  An *)
(* object holds what one call wrote, whole; a call that fails changed      *)
(* nothing, or all of what it asked for when only its answer was lost.     *)
(***************************************************************************)
CONSTANTS Calls, Requests, Absent, None

VARIABLES objects,   \* path |-> content, or Absent
          status,    \* call |-> "idle", "pending", "ok", "failed" or "missing"
          request    \* call |-> [op, path, src, data]: data is None until a copy has read it

absVars == <<objects, status, request>>

Init == /\ status = [c \in Calls |-> "idle"]
        /\ request \in [Calls -> Requests]

Begin(c) == /\ status[c] = "idle"
            /\ status' = [status EXCEPT ![c] = "pending"]
            /\ \E r \in Requests : request' = [request EXCEPT ![c] = r]
            /\ UNCHANGED objects

Source(c) == objects[request[c].src]

\* A copy reads its source; what it writes later is what it read.
Read(c) == /\ status[c] = "pending" /\ request[c].op = "copy"
           /\ Source(c) # Absent
           /\ request' = [request EXCEPT ![c].data = Source(c)]
           /\ UNCHANGED <<objects, status>>

Written(c) == IF request[c].op = "copy" /\ request[c].data = None THEN Source(c)
              ELSE request[c].data

Effect(c) ==
  CASE request[c].op = "stat"   -> UNCHANGED objects
    [] request[c].op = "delete" -> objects' = [objects EXCEPT ![request[c].path] = Absent]
    [] OTHER -> /\ Written(c) # Absent
                /\ objects' = [objects EXCEPT ![request[c].path] = Written(c)]

\* The answer may be lost once the effect is there.
Apply(c) == /\ status[c] = "pending"
            /\ Effect(c)
            /\ \E s \in {"ok", "failed"} : status' = [status EXCEPT ![c] = s]
            /\ UNCHANGED request

Missing(c) == /\ status[c] = "pending" /\ request[c].op \in {"copy", "stat"}
              /\ Source(c) = Absent
              /\ status' = [status EXCEPT ![c] = "missing"]
              /\ UNCHANGED <<objects, request>>

\* One call fails, or all of them at once when the host stops.
Fail == /\ \E S \in SUBSET {c \in Calls : status[c] = "pending"} :
             status' = [c \in Calls |-> IF c \in S THEN "failed" ELSE status[c]]
        /\ UNCHANGED <<objects, request>>

Next == Fail \/ \E c \in Calls : Begin(c) \/ Read(c) \/ Apply(c) \/ Missing(c)

Spec == Init /\ [][Next]_absVars
=============================================================================
