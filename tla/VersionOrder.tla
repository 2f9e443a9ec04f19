---------------------------- MODULE VersionOrder ----------------------------
(***************************************************************************)
(* The order that a version stands for, by the way it is read and not by   *)
(* the way two are compared: each version is a sequence of numbers, and    *)
(* the newer is the one whose sequence, with zeros after its end, comes    *)
(* later in the dictionary.  This is a total order of what versions mean,  *)
(* which prunes and --latest-only rely on.                                 *)
(***************************************************************************)
EXTENDS Versions

RECURSIVE RpmPieces(_), DebPieces(_)

\* '~' before the end, then '^', words, numbers.
RpmPieces(s) ==
  LET x == AfterRun(s, Separators) IN
  CASE x = <<>>                -> <<>>
    [] StartsWith(x, {Tilde})  -> <<-1>> \o RpmPieces(Tail(x))
    [] StartsWith(x, {Caret})  -> <<1>> \o RpmPieces(Tail(x))
    [] StartsWith(x, Letters)  -> <<2>> \o Run(x, Letters) \o <<0>> \o RpmPieces(AfterRun(x, Letters))
    [] StartsWith(x, Digits)   -> <<3, Natural(Run(x, Digits))>> \o RpmPieces(AfterRun(x, Digits))

\* '~' before the end and before a number, then letters, then what else there is.
DebPieces(s) ==
  CASE s = <<>>               -> <<>>
    [] StartsWith(s, Digits)  -> <<0, Natural(Run(s, Digits))>> \o DebPieces(AfterRun(s, Digits))
    [] StartsWith(s, Letters) -> <<s[1]>> \o DebPieces(Tail(s))
    [] StartsWith(s, {Tilde}) -> <<-1>> \o DebPieces(Tail(s))
    [] OTHER                  -> <<256 + s[1]>> \o DebPieces(Tail(s))

At(u, i) == IF i \in DOMAIN u THEN u[i] ELSE 0

\* u comes before v.
Before(u, v) ==
  \E i \in DOMAIN u \cup DOMAIN v :
    At(u, i) < At(v, i) /\ \A j \in 1..i-1 : At(u, j) = At(v, j)

Place(u, v) == IF Before(u, v) THEN -1 ELSE IF Before(v, u) THEN 1 ELSE 0

\* Epochs first, then versions, then releases or revisions.
RpmPlace(p, q) ==
  Tiebreak(Sign(p.epoch - q.epoch),
           Tiebreak(Place(RpmPieces(p.ver), RpmPieces(q.ver)), Place(RpmPieces(p.rel), RpmPieces(q.rel))))

DebPlace(v, w) ==
  Tiebreak(Sign(v.epoch - w.epoch),
           Tiebreak(Place(DebPieces(v.upstream), DebPieces(w.upstream)),
                    Place(DebPieces(v.revision), DebPieces(w.revision))))
=============================================================================
