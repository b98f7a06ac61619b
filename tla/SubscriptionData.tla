-------------------------- MODULE SubscriptionData --------------------------
(***************************************************************************)
(* The values a merged subscription is made of (internal/app/service.go):  *)
(* the rows of a subscription body and the counters of a                   *)
(* subscription-userinfo header, with the arithmetic Go does on them.      *)
(*                                                                         *)
(* A row is a link or blank; trimming and "\r\n" leave no other trace.  A  *)
(* header is the sequence of its "key=value" parts; a part without "=" is  *)
(* one whose key means nothing.                                            *)
(***************************************************************************)
EXTENDS Integers, SequencesExt

CONSTANTS
  Half,   \* a signed word holds -Half .. Half - 1; 2^63 in the program
  Links,  \* the rows that are no blank ones
  Blank,  \* a row of white space
  Junk    \* a value that is no number

ASSUME WordAssumption == Half \in Nat \ {0}
ASSUME RowAssumption == Blank \notin Links /\ Junk \notin Int

Row == Links \cup {Blank}
HeaderPart == [key : STRING, value : Int \cup {Junk}]

Word == -Half .. (Half - 1)
Traffic == {"upload", "download", "total"}
Fields == Traffic \cup {"expire"}
Userinfo == [Fields -> Word]
Zero == [f \in Fields |-> 0]

----------------------------------------------------------------------------
\* int64 addition wraps around.
Wrap(n) == ((n + Half) % (2 * Half)) - Half

\* What strconv.ParseInt returns for a number out of range.
Clamp(n) == IF n >= Half THEN Half - 1 ELSE IF n < -Half THEN -Half ELSE n

\* Its error is ignored, and its value is then 0.
ParseInt(v) == IF v = Junk THEN 0 ELSE Clamp(v)

\* One turn of the loop over the parts of the header.
NotePart(info, p) ==
  IF p.key \in Fields THEN [info EXCEPT ![p.key] = ParseInt(p.value)] ELSE info

ParseUserinfo(parts) == FoldLeft(NotePart, Zero, parts)

\* Mutant: unbounded addition.
AddExact(a, b) == a + b

\* Mutant: addition that stops at the largest word.
AddClamped(a, b) == Clamp(a + b)

Add(a, b) == Wrap(a + b)

\* One turn of the merging loop: three counters add up, expire grows.
Merged(sum, info) ==
  [f \in Fields |->
     IF f \in Traffic THEN Add(sum[f], info[f])
     ELSE IF info[f] > sum[f] THEN info[f] ELSE sum[f]]

\* One turn of the loop over the rows of a body: blank ones are dropped.
KeepRow(lines, r) == IF r = Blank THEN lines ELSE Append(lines, r)

SplitLines(rows) == FoldLeft(KeepRow, <<>>, rows)
=============================================================================
