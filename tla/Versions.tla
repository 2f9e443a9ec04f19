------------------------------ MODULE Versions ------------------------------
(***************************************************************************)
(* pkg/rpm/repodata/vercmp.go and pkg/apt/aptdata/version.go: which of two *)
(* versions is the newer.  A version is the sequence of the codes of its   *)
(* characters, as it is written.  White space around a Debian version, and *)
(* epochs beyond an int, are left out.                                     *)
(***************************************************************************)
EXTENDS Integers, Sequences

LOCAL INSTANCE SequencesExt

Tilde  == 126
Caret  == 94
Colon  == 58
Hyphen == 45
Plus   == 43
Stop   == 46
Zero   == 48

Digits  == 48..57
Letters == 65..90 \cup 97..122

Sign(n) == IF n < 0 THEN -1 ELSE IF n > 0 THEN 1 ELSE 0

StartsWith(s, C) == s # <<>> /\ s[1] \in C

\* Where the run of characters of C at the start of s ends.
RunEnd(s, C) == CHOOSE n \in 0..Len(s) :
  (\A i \in 1..n : s[i] \in C) /\ (n < Len(s) => s[n + 1] \notin C)

Run(s, C)      == SubSeq(s, 1, RunEnd(s, C))
AfterRun(s, C) == SubSeq(s, RunEnd(s, C) + 1, Len(s))

WithoutZeros(s) == AfterRun(s, {Zero})

\* The answer c, and where c tells no difference d.
Tiebreak(c, d) == IF c # 0 THEN c ELSE d

\* compareStr: the order of strings.
Precedes(s, t) == \E n \in 0..Len(s) :
  /\ n < Len(t) /\ SubSeq(s, 1, n) = SubSeq(t, 1, n)
  /\ n = Len(s) \/ s[n + 1] < t[n + 1]

CompareStr(s, t) == IF s = t THEN 0 ELSE IF Precedes(s, t) THEN -1 ELSE 1

\* Of two numbers without zeros in front the longer is the larger.
CompareNumbers(s, t) == Tiebreak(Sign(Len(s) - Len(t)), CompareStr(s, t))

----------------------------------------------------------------------------
(* rpm: rpmvercmp.                                                         *)

RECURSIVE CompareVersions(_, _)

Separators == 0..255 \ (Digits \cup Letters \cup {Tilde, Caret})

\* The run of C at the start of each, by the order By; else what follows.
CompareRuns(x, y, C, By(_, _)) ==
  Tiebreak(By(Run(x, C), Run(y, C)), CompareVersions(AfterRun(x, C), AfterRun(y, C)))

ByNumber(s, t) == CompareNumbers(WithoutZeros(s), WithoutZeros(t))

Both(x, y, C) == StartsWith(x, C) /\ StartsWith(y, C)

\* x and y go on with something that counts, or are at their end: '~' is older than
\* the end; '^' is newer than that and older than any run; numbers are the newest.
ComparePieces(x, y) ==
  IF Both(x, y, {Tilde}) \/ Both(x, y, {Caret}) THEN CompareVersions(Tail(x), Tail(y))
  ELSE IF Both(x, y, Digits)  THEN CompareRuns(x, y, Digits, ByNumber)
  ELSE IF Both(x, y, Letters) THEN CompareRuns(x, y, Letters, CompareStr)
  ELSE IF StartsWith(x, {Tilde}) THEN -1
  ELSE IF StartsWith(y, {Tilde}) THEN 1
  ELSE IF x = <<>> \/ y = <<>>   THEN Sign(Len(x) - Len(y))
  ELSE IF StartsWith(x, {Caret}) THEN -1
  ELSE IF StartsWith(y, {Caret}) THEN 1
  ELSE IF StartsWith(x, Digits)  THEN 1 ELSE -1

\* Mutant: a caret is one more separator.
CompareVersionsNoCaret(a, b) ==
  ComparePieces(AfterRun(a, Separators \cup {Caret}), AfterRun(b, Separators \cup {Caret}))

\* CompareVersions: separators part runs and have no order.
CompareVersions(a, b) == ComparePieces(AfterRun(a, Separators), AfterRun(b, Separators))

\* CompareEVR
CompareEVR(p, q) ==
  Tiebreak(Sign(p.epoch - q.epoch),
           Tiebreak(CompareVersions(p.ver, q.ver), CompareVersions(p.rel, q.rel)))

----------------------------------------------------------------------------
(* apt: dpkg's order.                                                      *)

\* versionOrder, of the next character or of the end.
Order(s) == IF s = <<>> \/ StartsWith(s, Digits) THEN 0
            ELSE IF s[1] \in Letters THEN s[1]
            ELSE IF s[1] = Tilde     THEN -1
            ELSE s[1] + 256

Rest(s) == IF s = <<>> THEN <<>> ELSE Tail(s)

RECURSIVE VerRevCmp(_, _)

DebRuns(x, y) ==
  Tiebreak(CompareNumbers(Run(x, Digits), Run(y, Digits)),
           VerRevCmp(AfterRun(x, Digits), AfterRun(y, Digits)))

\* verrevcmp: what is no digit is compared one by one, digits as a number.
VerRevCmp(a, b) ==
  IF a = <<>> /\ b = <<>> THEN 0
  ELSE IF Order(a) = 0 /\ Order(b) = 0 THEN DebRuns(WithoutZeros(a), WithoutZeros(b))
  ELSE Tiebreak(Sign(Order(a) - Order(b)), VerRevCmp(Rest(a), Rest(b)))

\* strconv.Atoi
IsInt(s) == LET t == IF StartsWith(s, {Plus, Hyphen}) THEN Tail(s) ELSE s
            IN t # <<>> /\ Run(t, Digits) = t

Natural(s) == FoldLeft(LAMBDA n, c : 10 * n + c - Zero, 0, s)

IntValue(s) == IF StartsWith(s, {Hyphen}) THEN -Natural(Tail(s))
               ELSE IF StartsWith(s, {Plus}) THEN Natural(Tail(s)) ELSE Natural(s)

\* A version that does not parse is one upstream version.
Unparsed(s) == [epoch |-> 0, upstream |-> s, revision |-> <<>>]

Valid(v) ==
  /\ v.epoch >= 0
  /\ StartsWith(v.upstream, Digits)
  /\ Range(v.upstream) \subseteq Digits \cup Letters \cup {Stop, Plus, Hyphen, Colon, Tilde}
  /\ Range(v.revision) \subseteq Digits \cup Letters \cup {Stop, Plus, Tilde}

\* What follows the last hyphen is the revision.
Split(epoch, s, hyphen) ==
  IF hyphen = 0 THEN [epoch |-> epoch, upstream |-> s, revision |-> <<>>]
  ELSE [epoch |-> epoch, upstream |-> SubSeq(s, 1, hyphen - 1), revision |-> SubSeq(s, hyphen + 1, Len(s))]

LastHyphen(s) == SelectLastInSeq(s, LAMBDA c : c = Hyphen)

\* An integer before the first colon is the epoch.
WithEpoch(s, prefix) ==
  IF Len(prefix) < Len(s) /\ IsInt(prefix)
  THEN LET raw == SubSeq(s, Len(prefix) + 2, Len(s)) IN Split(IntValue(prefix), raw, LastHyphen(raw))
  ELSE Split(0, s, LastHyphen(s))

\* ParseVersion and MustParseVersion
ParseVersion(s) == WithEpoch(s, Run(s, (0..255) \ {Colon}))

OrUnparsed(v, s) == IF Valid(v) THEN v ELSE Unparsed(s)

MustParseVersion(s) == OrUnparsed(ParseVersion(s), s)

\* Version.Compare
Compare(v, w) ==
  Tiebreak(Sign(v.epoch - w.epoch),
           Tiebreak(VerRevCmp(v.upstream, w.upstream), VerRevCmp(v.revision, w.revision)))

\* CompareVersions of aptdata.
CompareDebVersions(a, b) == Compare(MustParseVersion(a), MustParseVersion(b))
=============================================================================
