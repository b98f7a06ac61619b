------------------------- MODULE Subscription_proofs -------------------------
(***************************************************************************)
(* Proofs about Subscription, for any number of servers, any bodies and    *)
(* headers and words of any size.                                          *)
(***************************************************************************)
EXTENDS Subscription, SubscriptionData_proofs

----------------------------------------------------------------------------
(* The promise speaks of the same values. *)

LEMMA SameValues ==
  /\ Promised!Zero = Zero
  /\ Promised!Fields = Fields
  /\ Promised!Traffic = Traffic
  /\ \A n : Promised!Wrap(n) = Wrap(n)
  /\ \A v : Promised!ParseInt(v) = ParseInt(v)
<1>1. Promised!Traffic = Traffic
  BY DEF Promised!Traffic, Traffic
<1>2. Promised!Fields = Fields
  BY <1>1 DEF Promised!Fields, Fields
<1>3. Promised!Zero = Zero
  BY <1>2 DEF Promised!Zero, Zero
<1>4. \A n : Promised!Wrap(n) = Wrap(n)
  BY DEF Promised!Wrap, Wrap
<1>5. \A v : Promised!ParseInt(v) = ParseInt(v)
  BY DEF Promised!ParseInt, ParseInt, Promised!Clamp, Clamp
<1> QED
  BY <1>1, <1>2, <1>3, <1>4, <1>5

LEMMA SameLines ==
  ASSUME NEW rows
  PROVE  Promised!SplitLines(rows) = SplitLines(rows)
BY DEF Promised!SplitLines, SplitLines, Promised!FoldLeft, FoldLeft,
       Promised!MapThenFoldSet, MapThenFoldSet, Promised!KeepRow, KeepRow,
       Promised!Max, Max

LEMMA SameFlattening ==
  ASSUME NEW seqs
  PROVE  Promised!FlattenSeq(seqs) = FlattenSeq(seqs)
BY DEF Promised!FlattenSeq, FlattenSeq

LEMMA SameMax ==
  ASSUME NEW t
  PROVE  Promised!Max(t) = Max(t)
BY DEF Promised!Max, Max

\* What one header says of a field.
LEMMA ValueIs ==
  ASSUME NEW parts \in Seq(HeaderPart), NEW f \in Fields
  PROVE  /\ Promised!ValueOf(parts, f) = ParseUserinfo(parts)[f]
         /\ Promised!ValueOf(parts, f) \in Word
<1>1. DOMAIN parts = 1..Len(parts)
  OBVIOUS
<1>2. Promised!ValueOf(parts, f) = LastValue(parts, Len(parts), f)
  BY <1>1, SameValues, SameMax DEF Promised!ValueOf, LastValue
<1> QED
  BY <1>2, ParsedValues DEF Userinfo

----------------------------------------------------------------------------
(* The sum over the servers that answered. *)

Answered(s) == {i \in DOMAIN s : s[i].ok}
Values(s, f) == [i \in Answered(s) |-> Promised!ValueOf(s[i].parts, f)]

\* What some of them add up to.
Summing(s, f) ==
  CHOOSE g : g = [t \in SUBSET Answered(s) |->
                    IF t = {} THEN 0
                    ELSE Promised!ValueOf(s[Chosen(t)].parts, f)
                           + g[t \ {Chosen(t)}]]

LEMMA ServedParts ==
  ASSUME NEW r \in Promised!Serving
  PROVE  /\ r.ok \in BOOLEAN /\ r.rows \in Seq(Row)
         /\ r.ok => r.parts \in Headers /\ r.parts \in Seq(HeaderPart)
         /\ ~r.ok => r.rows = <<>>
<1>1. CASE r = Promised!Failed
  <2>1. <<>> \in Seq(Row)
    OBVIOUS
  <2> QED
    BY <1>1, <2>1 DEF Promised!Failed
<1>2. CASE r \in [ok : {TRUE}, rows : Bodies, parts : Headers]
  BY <1>2, ServedAssumption
<1> QED
  BY <1>1, <1>2 DEF Promised!Serving

LEMMA SumOfServed ==
  ASSUME NEW n \in Nat, NEW s \in [1..n -> Promised!Serving],
         NEW f \in Fields
  PROVE  /\ IsFiniteSet(Answered(s))
         /\ Values(s, f) \in [Answered(s) -> Int]
         /\ SumOver(Summing(s, f), Answered(s), Values(s, f))
         /\ Promised!TrueSum(s, f) = Summing(s, f)[Answered(s)]
<1> DEFINE S == Answered(s)
           v == Values(s, f)
           h == Summing(s, f)
           Eq(g) == g = [t \in SUBSET S |->
                           IF t = {} THEN 0
                           ELSE Promised!ValueOf(s[Chosen(t)].parts, f)
                                  + g[t \ {Chosen(t)}]]
<1>1. S \subseteq 1..n /\ IsFiniteSet(S)
  <2>1. S \subseteq 1..n /\ IsFiniteSet(1..n)
    BY FS_Interval DEF Answered
  <2> QED
    BY <2>1, FS_Subset
<1>2. ASSUME NEW i \in S
      PROVE  Promised!ValueOf(s[i].parts, f) \in Int
                /\ v[i] = Promised!ValueOf(s[i].parts, f)
  <2>1. s[i] \in Promised!Serving /\ s[i].ok
    BY <1>1 DEF Answered
  <2>2. Promised!ValueOf(s[i].parts, f) \in Word
    BY <2>1, ServedParts, ValueIs
  <2> QED
    BY <2>2, WordAssumption DEF Values, Word
<1>3. v \in [S -> Int]
  BY <1>2 DEF Values
<1> HIDE DEF S, v
<1>4. PICK g : IsSum(g, S, v)
  BY <1>1, <1>3, SumDefined
<1>5. ASSUME NEW k PROVE IsSum(k, S, v) <=> Eq(k)
  <2>1. ASSUME NEW t \in SUBSET S, t # {}
        PROVE  v[Chosen(t)] = Promised!ValueOf(s[Chosen(t)].parts, f)
    <3>1. Chosen(t) \in S
      BY <2>1, ChosenIn
    <3> QED
      BY <1>2, <3>1
  <2>2. [t \in SUBSET S |->
           IF t = {} THEN 0 ELSE v[Chosen(t)] + k[t \ {Chosen(t)}]]
        = [t \in SUBSET S |->
             IF t = {} THEN 0
             ELSE Promised!ValueOf(s[Chosen(t)].parts, f)
                    + k[t \ {Chosen(t)}]]
    BY <2>1
  <2> QED
    BY <2>2 DEF IsSum
<1>6. h = CHOOSE k : Eq(k)
  BY DEF Summing, S
<1>7. Eq(h)
  <2> HIDE DEF Eq, h
  <2> QED
    BY <1>4, <1>5, <1>6
<1>8. SumOver(h, S, v)
  <2> HIDE DEF Eq, h
  <2> QED
    BY <1>1, <1>3, <1>5, <1>7, SumTyped
<1>9. Promised!TrueSum(s, f) = h[S]
  BY DEF Promised!TrueSum, Promised!MapThenSumSet, Promised!MapThenFoldSet,
         Summing, S, Answered, Chosen
<1> QED
  BY <1>1, <1>3, <1>8, <1>9 DEF S, v

----------------------------------------------------------------------------
(* Types. *)

SlotType ==
  [state : {"pending", "ok", "error"}, rows : Seq(Row), info : Userinfo]
ReplyType ==
  [code : {"none", "ok", "not found", "bad gateway"},
   lines : Seq(Row), info : Userinfo]
MergedType == [count : Nat, lines : Seq(Row), info : Userinfo]

\* TypeOK with the types of the fields it leaves open.
Typed ==
  /\ pc \in {"idle", "asked", "fetch", "merge", "answered"}
  /\ request \in {"none", "blank", "named"}
  /\ table \in [read : BOOLEAN, ok : BOOLEAN, list : Tables \cup {<<>>}]
  /\ results \in [DOMAIN table.list -> SlotType]
  /\ served \in [DOMAIN table.list -> Promised!Serving]
  /\ running \subseteq DOMAIN table.list
  /\ next \in 1..(Len(table.list) + 1)
  /\ merged \in MergedType /\ merged.count < next
  /\ answer \in ReplyType

\* What is where, by where the request is.
Control ==
  /\ pc \in {"idle", "asked"} => table = Unread
  /\ pc \in {"idle", "asked", "fetch"} => next = 1 /\ merged = NothingMerged
  /\ pc # "fetch" => running = {}
  /\ pc = "fetch" => table.ok
  /\ pc = "merge" => table.read
  /\ table.ok => table.read
  /\ ~table.ok => table.list = <<>>
  /\ pc = "idle" <=> request = "none"
  /\ pc \in {"fetch", "merge"} => request = "named"
  /\ pc = "answered" => (request = "named" <=> table.read)
  /\ pc = "answered" <=> answer # Promised!NoAnswer

Shape == Typed /\ Control

LEMMA ConstantTypes ==
  /\ Zero \in Userinfo /\ <<>> \in Seq(Row)
  /\ Pending \in SlotType /\ Error \in SlotType
  /\ NothingMerged \in MergedType
  /\ Promised!NoAnswer \in ReplyType /\ Promised!NotFound \in ReplyType
  /\ Promised!BadGateway \in ReplyType
  /\ Promised!Failed \in Promised!Serving
<1>1. Zero \in Userinfo /\ <<>> \in Seq(Row)
  BY ZeroType
<1>2. Pending \in SlotType /\ Error \in SlotType
  BY <1>1 DEF Pending, Error, Slot, SlotType
<1>3. NothingMerged \in MergedType
  BY <1>1 DEF NothingMerged, MergedType
<1>4. /\ Promised!NoAnswer \in ReplyType /\ Promised!NotFound \in ReplyType
      /\ Promised!BadGateway \in ReplyType
  BY <1>1, SameValues DEF Promised!NoAnswer, Promised!NotFound,
     Promised!BadGateway, Promised!Answer, ReplyType
<1>5. Promised!Failed \in Promised!Serving
  BY DEF Promised!Serving
<1> QED
  BY <1>1, <1>2, <1>3, <1>4, <1>5

LEMMA TablesAre ==
  ASSUME NEW list \in Tables \cup {<<>>}
  PROVE  /\ Len(list) \in 0..MaxServers
         /\ DOMAIN list = 1..Len(list)
<1>1. CASE list = <<>>
  BY <1>1, TableAssumption
<1>2. CASE list \in Tables
  <2>1. PICK n \in 0..MaxServers : list \in [1..n -> Server]
    BY <1>2, TableAssumption DEF SeqOf
  <2>2. n \in Nat /\ list \in Seq(Server) /\ Len(list) = n
    BY <2>1, TableAssumption
  <2> QED
    BY <2>1, <2>2
<1> QED
  BY <1>1, <1>2

LEMMA MergedInfoType ==
  ASSUME NEW a \in Userinfo, NEW b \in Userinfo
  PROVE  Merged(a, b) \in Userinfo
<1>1. ASSUME NEW f \in Fields PROVE Merged(a, b)[f] \in Word
  <2>1. a[f] \in Word /\ b[f] \in Word
    BY DEF Userinfo
  <2>2. a[f] + b[f] \in Int
    BY <2>1, WordAssumption DEF Word
  <2>3. Add(a[f], b[f]) \in Word
    BY <2>2, WrapIs DEF Add
  <2> QED
    BY <2>1, <2>3 DEF Merged
<1> QED
  BY <1>1 DEF Merged, Userinfo

LEMMA AnswersDiffer ==
  /\ Promised!NotFound # Promised!NoAnswer
  /\ Promised!BadGateway # Promised!NoAnswer
  /\ \A lines, info : Promised!Answer("ok", lines, info) # Promised!NoAnswer
BY DEF Promised!NotFound, Promised!NoAnswer, Promised!BadGateway,
       Promised!Answer

LEMMA ShapeInit == Init => Shape
<1> SUFFICES ASSUME Init PROVE Shape
  OBVIOUS
<1>1. DOMAIN table.list = {} /\ Len(table.list) = 0
  BY DEF Init, Unread
<1>2. merged \in MergedType /\ merged.count = 0
  BY ConstantTypes DEF Init, NothingMerged
<1>3. Typed
  BY <1>1, <1>2, ConstantTypes DEF Init, Typed, Unread
<1>4. Control
  BY DEF Init, Control, Unread
<1> QED
  BY <1>3, <1>4 DEF Shape

LEMMA ReplyShape ==
  ASSUME Shape, NEW a \in ReplyType, a # Promised!NoAnswer, Reply(a),
         pc \in {"asked", "merge"}, request = "named" <=> table.read
  PROVE  Shape'
<1>1. Typed'
  BY DEF Shape, Typed, Reply
<1>2. Control'
  BY DEF Shape, Typed, Control, Reply
<1> QED
  BY <1>1, <1>2 DEF Shape

LEMMA ShapeStep == Shape /\ [Next]_vars => Shape'
<1> SUFFICES ASSUME Shape, [Next]_vars PROVE Shape'
  OBVIOUS
<1>0. /\ Len(table.list) \in 0..MaxServers
      /\ DOMAIN table.list = 1..Len(table.list)
      /\ MaxServers \in Nat
  BY TablesAre, TableAssumption DEF Shape, Typed
<1>1. CASE UNCHANGED vars
  BY <1>1 DEF vars, Shape, Typed, Control
<1>2. CASE Arrive
  <2>1. DOMAIN table'.list = {} /\ Len(table'.list) = 0
    BY <1>2 DEF Arrive, Unread
  <2>2. merged' \in MergedType /\ merged'.count = 0
    BY <1>2, ConstantTypes DEF Arrive, NothingMerged
  <2>3. Typed'
    BY <1>2, <2>1, <2>2, ConstantTypes DEF Arrive, Typed, Unread
  <2>4. Control'
    BY <1>2 DEF Arrive, Control, Unread
  <2> QED
    BY <2>3, <2>4 DEF Shape
<1>3. CASE RejectBlank
  <2>1. pc = "asked" /\ request = "blank" /\ Reply(Promised!NotFound)
    BY <1>3 DEF RejectBlank
  <2>2. ~table.read
    BY <2>1 DEF Shape, Control, Unread
  <2> QED
    BY <2>1, <2>2, ReplyShape, ConstantTypes, AnswersDiffer
<1>4. CASE ListServers
  <2>0. /\ table = Unread /\ next = 1 /\ merged = NothingMerged
        /\ running = {} /\ request = "named" /\ pc = "asked"
        /\ next' = next /\ merged' = merged /\ answer' = answer
        /\ request' = request /\ answer = Promised!NoAnswer
    BY <1>4 DEF ListServers, Shape, Control
  <2>1. ASSUME NEW list \in Tables,
               table' = [read |-> TRUE, ok |-> TRUE, list |-> list],
               running' = DOMAIN list,
               results' = [i \in DOMAIN list |-> Pending],
               served' = [i \in DOMAIN list |-> Promised!Failed],
               pc' = "fetch"
        PROVE  Shape'
    <3>1. table'.list = list /\ Len(list) \in 0..MaxServers
      BY <2>1, TablesAre
    <3>2. next' \in 1..(Len(table'.list) + 1)
      BY <2>0, <3>1
    <3>3. merged' \in MergedType /\ merged'.count < next'
      BY <2>0, ConstantTypes DEF NothingMerged
    <3>4. Typed'
      BY <2>0, <2>1, <3>1, <3>2, <3>3, ConstantTypes DEF Shape, Typed
    <3>5. Control'
      BY <2>0, <2>1 DEF Control
    <3> QED
      BY <3>4, <3>5 DEF Shape
  <2>2. ASSUME table' = [read |-> TRUE, ok |-> FALSE, list |-> <<>>],
               pc' = "merge", UNCHANGED <<running, results, served>>
        PROVE  Shape'
    <3>1. table'.list = table.list
      BY <2>0, <2>2 DEF Unread
    <3>2. Typed'
      BY <2>0, <2>2, <3>1 DEF Shape, Typed
    <3>3. Control'
      BY <2>0, <2>2 DEF Control
    <3> QED
      BY <3>2, <3>3 DEF Shape
  <2> QED
    BY <1>4, <2>1, <2>2 DEF ListServers
<1>5. ASSUME NEW i \in 1..MaxServers, NEW slot \in SlotType, Ends(i, slot),
             served' \in [DOMAIN table.list -> Promised!Serving]
      PROVE  Shape'
  <2>1. results' \in [DOMAIN table.list -> SlotType]
    BY <1>5 DEF Ends, SlotOf, Shape, Typed
  <2>2. Typed'
    BY <1>5, <2>1 DEF Ends, Shape, Typed
  <2>3. Control'
    BY <1>5 DEF Ends, Shape, Control
  <2> QED
    BY <2>2, <2>3 DEF Shape
<1>6. ASSUME NEW i \in 1..MaxServers, FetchOne(i) PROVE Shape'
  <2>1. PICK rows \in Bodies, parts \in Headers :
          /\ Ends(i, Slot("ok", rows, ParseUserinfo(parts)))
          /\ served' = [served EXCEPT ![i] =
                          [ok |-> TRUE, rows |-> rows, parts |-> parts]]
    BY <1>6 DEF FetchOne
  <2>2. ParseUserinfo(parts) \in Userinfo /\ rows \in Seq(Row)
    BY ParsedValues, ServedAssumption
  <2>3. Slot("ok", rows, ParseUserinfo(parts)) \in SlotType
    BY <2>2 DEF Slot, SlotType
  <2>4. [ok |-> TRUE, rows |-> rows, parts |-> parts] \in Promised!Serving
    BY DEF Promised!Serving
  <2>5. served' \in [DOMAIN table.list -> Promised!Serving]
    BY <2>1, <2>4 DEF Shape, Typed
  <2> QED
    BY <1>5, <2>1, <2>3, <2>5
<1>7. ASSUME NEW i \in 1..MaxServers, FetchFails(i) PROVE Shape'
  BY <1>5, <1>7, ConstantTypes DEF FetchFails, Shape, Typed
<1>8. CASE Join
  <2>1. Typed'
    BY <1>8 DEF Join, Shape, Typed
  <2>2. Control'
    BY <1>8 DEF Join, AllDone, Shape, Control
  <2> QED
    BY <2>1, <2>2 DEF Shape
<1>9. CASE MergeOne
  <2>1. next \in 1..Len(table.list) /\ results[next] \in SlotType
    BY <1>0, <1>9 DEF MergeOne, Shape, Typed
  <2>2. next' \in 1..(Len(table.list) + 1) /\ next' = next + 1
    BY <1>0, <1>9, <2>1 DEF MergeOne
  <2>3. merged' \in MergedType /\ merged'.count < next'
    <3>1. merged \in MergedType /\ merged.count < next
      BY DEF Shape, Typed
    <3>2. CASE results[next].state = "ok"
      <4> DEFINE r == results[next]
      <4>1. merged' = [count |-> merged.count + 1,
                       lines |-> merged.lines \o SplitLines(r.rows),
                       info |-> Merged(merged.info, r.info)]
        BY <1>9, <3>2 DEF MergeOne
      <4>2. merged.count + 1 \in Nat /\ merged.count + 1 < next + 1
        BY <2>1, <3>1 DEF MergedType
      <4>3. SplitLines(r.rows) \in Seq(Row)
        BY <2>1, SplitType DEF SlotType
      <4>4. merged.lines \o SplitLines(r.rows) \in Seq(Row)
        BY <3>1, <4>3, ConcatProperties DEF MergedType
      <4>5. Merged(merged.info, r.info) \in Userinfo
        BY <2>1, <3>1, MergedInfoType DEF MergedType, SlotType
      <4> QED
        BY <2>2, <4>1, <4>2, <4>4, <4>5 DEF MergedType
    <3>3. CASE results[next].state # "ok"
      <4>1. merged' = merged
        BY <1>9, <3>3 DEF MergeOne
      <4>2. merged.count < next + 1
        BY <2>1, <3>1 DEF MergedType
      <4> QED
        BY <2>2, <3>1, <4>1, <4>2
    <3> QED
      BY <3>2, <3>3
  <2>4. Typed'
    BY <1>9, <2>2, <2>3 DEF MergeOne, Shape, Typed
  <2>5. Control'
    BY <1>9 DEF MergeOne, Shape, Control
  <2> QED
    BY <2>4, <2>5 DEF Shape
<1>10. CASE ReplyMerged
  <2>1. pc = "merge" /\ request = "named" /\ table.read
    BY <1>10 DEF ReplyMerged, Shape, Control
  <2>2. CASE merged.count > 0
    <3> DEFINE a == Promised!Answer("ok", merged.lines, merged.info)
    <3>1. a \in ReplyType
      BY DEF Shape, Typed, MergedType, ReplyType, Promised!Answer
    <3>2. Reply(a) /\ a # Promised!NoAnswer
      BY <1>10, <2>2, AnswersDiffer DEF ReplyMerged
    <3> HIDE DEF a
    <3> QED
      BY <2>1, <3>1, <3>2, ReplyShape
  <2>3. CASE ~(merged.count > 0)
    BY <1>10, <2>1, <2>3, ConstantTypes, AnswersDiffer, ReplyShape
       DEF ReplyMerged
  <2> QED
    BY <2>2, <2>3
<1> QED
  BY <1>1, <1>2, <1>3, <1>4, <1>6, <1>7, <1>8, <1>9, <1>10 DEF Next, Work

LEMMA ShapeHolds == Spec => []Shape
BY ShapeInit, ShapeStep, PTL DEF Spec

\* TypeOK holds of every reachable state, whatever is served and however
\* many servers there are: every slot has its shape, and the counters stay
\* within a word however often they overflow (service.go:436-456).
THEOREM TypeCorrect == Spec => []TypeOK
<1>1. Shape => TypeOK
  <2> SUFFICES ASSUME Shape PROVE TypeOK
    OBVIOUS
  <2>1. /\ Len(table.list) \in 0..MaxServers
        /\ DOMAIN table.list = 1..Len(table.list) /\ MaxServers \in Nat
    BY TablesAre, TableAssumption DEF Shape, Typed
  <2>2. next \in 1..(MaxServers + 1) /\ merged.count \in 0..MaxServers
    BY <2>1 DEF Shape, Typed, MergedType
  <2>3. merged.info \in Userinfo
    BY DEF Shape, Typed, MergedType
  <2>4. answer.code \in {"none", "ok", "not found", "bad gateway"}
    BY DEF Shape, Typed, ReplyType
  <2>5. ASSUME NEW i \in DOMAIN results
        PROVE  /\ results[i].state \in {"pending", "ok", "error"}
               /\ results[i].info \in Userinfo
               /\ served[i] \in Promised!Serving
    BY DEF Shape, Typed, SlotType
  <2> QED
    BY <2>2, <2>3, <2>4, <2>5 DEF Shape, Typed, TypeOK
<1> QED
  BY <1>1, ShapeHolds, PTL

----------------------------------------------------------------------------
(* What the merging loop has at every turn, as a function of what was      *)
(* served.                                                                 *)

Early(s, n) == {i \in Answered(s) : i <= n}
RowsOf(s) == [i \in DOMAIN s |-> s[i].rows]
Expiries(s, n) ==
  {0} \cup {Promised!ValueOf(s[i].parts, "expire") : i \in Early(s, n)}

\* m merges the first n of s.
MergedIs(m, s, n) ==
  /\ m.count > 0 <=> Early(s, n) # {}
  /\ m.lines = SplitLines(FlatUpTo(RowsOf(s), n))
  /\ \A f \in Traffic : m.info[f] = Wrap(Summing(s, f)[Early(s, n)])
  /\ m.info["expire"] \in Expiries(s, n)
  /\ \A x \in Expiries(s, n) : x <= m.info["expire"]

LEMMA WordsAreInts == Word \subseteq Int /\ 0 \in Word
BY WordAssumption DEF Word

LEMMA RowsOfType ==
  ASSUME NEW n \in Nat, NEW s \in [1..n -> Promised!Serving]
  PROVE  /\ RowsOf(s) \in Seq(Seq(Row)) /\ Len(RowsOf(s)) = n
         /\ \A i \in 1..n : RowsOf(s)[i] = s[i].rows
<1>1. \A i \in 1..n : s[i].rows \in Seq(Row)
  BY ServedParts
<1>2. RowsOf(s) \in [1..n -> Seq(Row)]
  BY <1>1 DEF RowsOf
<1>3. RowsOf(s) \in Seq(Seq(Row)) /\ Len(RowsOf(s)) = n
  <2> DEFINE t == RowsOf(s)
  <2> HIDE DEF t
  <2>1. t \in [1..n -> Seq(Row)]
    BY <1>2 DEF t
  <2>2. t \in Seq(Seq(Row)) /\ Len(t) = n
    BY <2>1
  <2> QED
    BY <2>2 DEF t
<1> QED
  BY <1>3 DEF RowsOf

LEMMA ServedValues ==
  ASSUME NEW n \in Nat, NEW s \in [1..n -> Promised!Serving],
         NEW i \in Answered(s), NEW f \in Fields
  PROVE  /\ i \in 1..n
         /\ Promised!ValueOf(s[i].parts, f) = ParseUserinfo(s[i].parts)[f]
         /\ Promised!ValueOf(s[i].parts, f) \in Word
         /\ Values(s, f)[i] = Promised!ValueOf(s[i].parts, f)
<1>1. i \in 1..n /\ s[i].ok /\ s[i] \in Promised!Serving
  BY DEF Answered
<1>2. s[i].parts \in Seq(HeaderPart)
  BY <1>1, ServedParts
<1> QED
  BY <1>1, <1>2, ValueIs DEF Values

LEMMA MergedNone ==
  ASSUME NEW n \in Nat, NEW s \in [1..n -> Promised!Serving]
  PROVE  MergedIs(NothingMerged, s, 0)
<1>1. Early(s, 0) = {}
  BY DEF Early, Answered
<1>2. FlatUpTo(RowsOf(s), 0) = <<>>
  BY DEF FlatUpTo
<1>3. ASSUME NEW f \in Traffic
      PROVE  Zero[f] = Wrap(Summing(s, f)[Early(s, 0)])
  <2>1. f \in Fields
    BY DEF Fields
  <2>2. SumOver(Summing(s, f), Answered(s), Values(s, f))
    BY <2>1, SumOfServed
  <2>3. Summing(s, f)[{}] = 0
    BY <2>2 DEF SumOver, IsSum
  <2>4. Wrap(0) = 0
    BY WordsAreInts, WrapWord
  <2> QED
    BY <1>1, <2>1, <2>3, <2>4 DEF Zero
<1>4. Expiries(s, 0) = {0}
  BY <1>1 DEF Expiries
<1>5. Zero["expire"] = 0
  BY DEF Zero, Fields
<1> QED
  BY <1>1, <1>2, <1>3, <1>4, <1>5, SplitEmpty DEF MergedIs, NothingMerged

LEMMA EarlyTurn ==
  ASSUME NEW n \in Nat, NEW s \in [1..n -> Promised!Serving],
         NEW k \in 0..(n - 1)
  PROVE  /\ k + 1 \in 1..n
         /\ Early(s, k) \in SUBSET Answered(s)
         /\ k + 1 \notin Early(s, k)
         /\ Early(s, k + 1) = IF s[k + 1].ok THEN Early(s, k) \cup {k + 1}
                              ELSE Early(s, k)
         /\ s[k + 1].ok => k + 1 \in Answered(s)
<1>1. k + 1 \in 1..n /\ k \in Nat
  OBVIOUS
<1>2. \A i \in 1..n : i <= k + 1 <=> (i <= k \/ i = k + 1)
  BY <1>1
<1>3. Answered(s) = {i \in 1..n : s[i].ok}
  BY DEF Answered
<1>4. Early(s, k + 1) = IF s[k + 1].ok THEN Early(s, k) \cup {k + 1}
                        ELSE Early(s, k)
  BY <1>1, <1>2, <1>3 DEF Early
<1>5. k + 1 \notin Early(s, k)
  BY <1>1 DEF Early
<1> QED
  BY <1>1, <1>3, <1>4, <1>5 DEF Early

LEMMA LinesTurn ==
  ASSUME NEW n \in Nat, NEW s \in [1..n -> Promised!Serving],
         NEW k \in 0..(n - 1)
  PROVE  SplitLines(FlatUpTo(RowsOf(s), k + 1))
           = SplitLines(FlatUpTo(RowsOf(s), k)) \o SplitLines(s[k + 1].rows)
<1> DEFINE t == RowsOf(s)
<1>1. /\ t \in Seq(Seq(Row)) /\ Len(t) = n /\ k + 1 \in 1..n
      /\ t[k + 1] = s[k + 1].rows
  BY RowsOfType
<1>2. t[k + 1] \in Seq(Row) /\ k \in 0..Len(t)
  BY <1>1
<1> HIDE DEF t
<1>3. FlatUpTo(t, k + 1) = FlatUpTo(t, k) \o t[k + 1]
  BY <1>1, FlatTurns
<1>4. FlatUpTo(t, k) \in Seq(Row)
  BY <1>1, <1>2, FlatType
<1>5. SplitLines(FlatUpTo(t, k) \o t[k + 1])
        = SplitLines(FlatUpTo(t, k)) \o SplitLines(t[k + 1])
  BY <1>2, <1>4, SplitConcat
<1> QED
  BY <1>1, <1>3, <1>5 DEF t

\* A server that failed adds nothing.
LEMMA MergedSkips ==
  ASSUME NEW n \in Nat, NEW s \in [1..n -> Promised!Serving],
         NEW k \in 0..(n - 1), NEW m \in MergedType, MergedIs(m, s, k),
         s[k + 1] = Promised!Failed
  PROVE  MergedIs(m, s, k + 1)
<1>1. ~s[k + 1].ok /\ s[k + 1].rows = <<>>
  BY DEF Promised!Failed
<1>2. Early(s, k + 1) = Early(s, k)
  BY <1>1, EarlyTurn
<1>3. SplitLines(FlatUpTo(RowsOf(s), k + 1))
        = SplitLines(FlatUpTo(RowsOf(s), k))
  <2>1. m.lines \in Seq(Row) /\ m.lines = SplitLines(FlatUpTo(RowsOf(s), k))
    BY DEF MergedType, MergedIs
  <2>2. SplitLines(FlatUpTo(RowsOf(s), k + 1)) = m.lines \o <<>>
    BY <1>1, <2>1, LinesTurn, SplitEmpty
  <2> QED
    BY <2>1, <2>2, ConcatEmptySeq
<1> QED
  BY <1>2, <1>3 DEF MergedIs, Expiries

\* One that succeeded adds its links, its traffic and its expiry.
LEMMA MergedAdds ==
  ASSUME NEW n \in Nat, NEW s \in [1..n -> Promised!Serving],
         NEW k \in 0..(n - 1), NEW m \in MergedType, MergedIs(m, s, k),
         NEW r \in SlotType, s[k + 1].ok,
         r.rows = s[k + 1].rows, r.info = ParseUserinfo(s[k + 1].parts),
         NEW more, more = [count |-> m.count + 1,
                           lines |-> m.lines \o SplitLines(r.rows),
                           info |-> Merged(m.info, r.info)]
  PROVE  MergedIs(more, s, k + 1)
<1>1. /\ k + 1 \in 1..n /\ k + 1 \in Answered(s) \ Early(s, k)
      /\ Early(s, k) \in SUBSET Answered(s)
      /\ Early(s, k + 1) = Early(s, k) \cup {k + 1}
  BY EarlyTurn
<1>2. \A f \in Fields :
        /\ r.info[f] = Promised!ValueOf(s[k + 1].parts, f)
        /\ r.info[f] = Values(s, f)[k + 1]
        /\ r.info[f] \in Int /\ m.info[f] \in Int
  <2> TAKE f \in Fields
  <2>1. r.info[f] \in Int /\ m.info[f] \in Int
    BY WordsAreInts DEF SlotType, MergedType, Userinfo
  <2>2. /\ Promised!ValueOf(s[k + 1].parts, f)
             = ParseUserinfo(s[k + 1].parts)[f]
        /\ Values(s, f)[k + 1] = Promised!ValueOf(s[k + 1].parts, f)
    BY <1>1, ServedValues
  <2> QED
    BY <2>1, <2>2
<1>3. more.count > 0 <=> Early(s, k + 1) # {}
  BY <1>1 DEF MergedType
<1>4. more.lines = SplitLines(FlatUpTo(RowsOf(s), k + 1))
  BY LinesTurn DEF MergedIs
<1>5. ASSUME NEW f \in Traffic
      PROVE  more.info[f] = Wrap(Summing(s, f)[Early(s, k + 1)])
  <2> DEFINE g == Summing(s, f)
             v == Values(s, f)
  <2>1. f \in Fields
    BY DEF Fields
  <2>2. /\ IsFiniteSet(Answered(s)) /\ v \in [Answered(s) -> Int]
        /\ SumOver(g, Answered(s), v)
    BY <2>1, SumOfServed
  <2> HIDE DEF g, v
  <2>3. g[Early(s, k + 1)] = g[Early(s, k)] + v[k + 1]
    BY <1>1, <2>2, SumGrows
  <2>4. g[Early(s, k)] \in Int /\ v[k + 1] \in Int
    BY <1>1, <2>2 DEF SumOver
  <2>5. m.info[f] = Wrap(g[Early(s, k)])
    BY DEF MergedIs, g
  <2>6. more.info[f] = Wrap(m.info[f] + r.info[f])
    BY <2>1 DEF Merged, Add
  <2>7. r.info[f] = v[k + 1]
    BY <1>2, <2>1 DEF v
  <2>8. more.info[f] = Wrap(g[Early(s, k)] + v[k + 1])
    BY <2>4, <2>5, <2>6, <2>7, WrapSum
  <2> QED
    BY <2>3, <2>8 DEF g
<1>6. /\ more.info["expire"] \in Expiries(s, k + 1)
      /\ \A x \in Expiries(s, k + 1) : x <= more.info["expire"]
  <2> DEFINE old == m.info["expire"]
             new == r.info["expire"]
  <2>1. "expire" \in Fields /\ "expire" \notin Traffic
    BY DEF Fields, Traffic
  <2>2. old \in Int /\ new \in Int
    BY <1>2, <2>1
  <2>3. Expiries(s, k + 1) = Expiries(s, k) \cup {new}
    BY <1>1, <1>2, <2>1 DEF Expiries
  <2>4. more.info["expire"] = IF new > old THEN new ELSE old
    BY <2>1 DEF Merged
  <2>5. old \in Expiries(s, k) /\ \A x \in Expiries(s, k) : x <= old
    BY DEF MergedIs
  <2>6. Expiries(s, k) \subseteq Int
    <3>1. ASSUME NEW i \in Early(s, k)
          PROVE  Promised!ValueOf(s[i].parts, "expire") \in Int
      BY <1>1, <2>1, ServedValues, WordsAreInts
    <3> QED
      BY <3>1 DEF Expiries
  <2> HIDE DEF old, new
  <2> QED
    BY <2>2, <2>3, <2>4, <2>5, <2>6
<1> QED
  BY <1>3, <1>4, <1>5, <1>6 DEF MergedIs

\* When all are merged the reply is the promised one.
LEMMA MergedAll ==
  ASSUME NEW n \in Nat, NEW s \in [1..n -> Promised!Serving],
         NEW m \in MergedType, MergedIs(m, s, n),
         NEW out, out.served = s
  PROVE  Promised!Promise("named", out)
           = IF m.count > 0 THEN Promised!Answer("ok", m.lines, m.info)
             ELSE Promised!BadGateway
<1>1. Early(s, n) = Answered(s) /\ DOMAIN s = 1..n
  BY DEF Early, Answered
<1>2. m.count > 0 <=> ~\A i \in DOMAIN s : ~s[i].ok
  BY <1>1 DEF MergedIs, Answered
<1>3. m.lines = Promised!SplitLines(Promised!FlattenSeq(RowsOf(s)))
  <2>1. RowsOf(s) \in Seq(Seq(Row)) /\ Len(RowsOf(s)) = n
    BY RowsOfType
  <2>2. FlattenSeq(RowsOf(s)) = FlatUpTo(RowsOf(s), n)
    BY <2>1, FlatTurns
  <2> QED
    BY <2>2, SameLines, SameFlattening DEF MergedIs
<1>4. ASSUME NEW f \in Traffic
      PROVE  m.info[f] = Promised!Combined(s)[f]
  <2>1. f \in Fields
    BY DEF Fields
  <2>2. Promised!TrueSum(s, f) = Summing(s, f)[Answered(s)]
    BY <2>1, SumOfServed
  <2>3. Promised!Combined(s)[f] = Wrap(Promised!TrueSum(s, f))
    BY <2>1, SameValues DEF Promised!Combined
  <2> QED
    BY <1>1, <2>2, <2>3 DEF MergedIs
<1>5. m.info["expire"] = Promised!Combined(s)["expire"]
  <2>1. "expire" \in Fields /\ "expire" \notin Traffic
    BY DEF Fields, Traffic
  <2>2. Promised!Combined(s)["expire"] = Max(Expiries(s, n))
    BY <1>1, <2>1, SameValues, SameMax
       DEF Promised!Combined, Expiries, Answered
  <2>3. Expiries(s, n) \subseteq Int
    BY <1>1, <2>1, ServedValues, WordsAreInts DEF Expiries
  <2>4. /\ m.info["expire"] \in Expiries(s, n)
        /\ \A x \in Expiries(s, n) : x <= m.info["expire"]
    BY DEF MergedIs
  <2>5. Max(Expiries(s, n)) = m.info["expire"]
    BY <2>3, <2>4, GreatestIs
  <2> QED
    BY <2>2, <2>5
<1>6. m.info = Promised!Combined(s)
  <2>1. m.info = [f \in Fields |-> m.info[f]]
    BY DEF MergedType, Userinfo
  <2>2. Promised!Combined(s) = [f \in Fields |-> Promised!Combined(s)[f]]
    BY SameValues DEF Promised!Combined
  <2>3. \A f \in Fields : m.info[f] = Promised!Combined(s)[f]
    BY <1>4, <1>5 DEF Fields
  <2> QED
    BY <2>1, <2>2, <2>3
<1>7. Promised!Promise("named", out)
        = IF \A i \in DOMAIN s : ~s[i].ok THEN Promised!BadGateway
          ELSE Promised!Answer("ok",
                 Promised!SplitLines(Promised!FlattenSeq(RowsOf(s))),
                 Promised!Combined(s))
  BY DEF Promised!Promise, RowsOf
<1> QED
  BY <1>2, <1>3, <1>6, <1>7

----------------------------------------------------------------------------
(* The inductive invariant. *)

\* A slot is what its server's goroutine has come to.
SlotMatches(i) ==
  IF i \in running
  THEN results[i] = Pending /\ served[i] = Promised!Failed
  ELSE \/ results[i] = Error /\ served[i] = Promised!Failed
       \/ /\ results[i].state = "ok" /\ served[i].ok
          /\ results[i].rows = served[i].rows
          /\ results[i].info = ParseUserinfo(served[i].parts)

Fetched == \A i \in DOMAIN table.list : SlotMatches(i)
Merging == MergedIs(merged, served, next - 1)
Replied == pc = "answered" => answer = Promised!Promise(request, Gathered)

IInv == Shape /\ Fetched /\ Merging /\ Replied

LEMMA ShapeServed ==
  ASSUME Shape
  PROVE  /\ Len(table.list) \in Nat
         /\ DOMAIN table.list = 1..Len(table.list)
         /\ served \in [1..Len(table.list) -> Promised!Serving]
         /\ results \in [1..Len(table.list) -> SlotType]
BY TablesAre, TableAssumption DEF Shape, Typed

LEMMA NothingYet ==
  ASSUME Shape, next = 1, merged = NothingMerged
  PROVE  Merging
<1>1. MergedIs(NothingMerged, served, 0)
  BY ShapeServed, MergedNone
<1> QED
  BY <1>1 DEF Merging

LEMMA IInvInit == Init => IInv
<1> SUFFICES ASSUME Init PROVE IInv
  OBVIOUS
<1>1. Shape
  BY ShapeInit
<1>2. Merging
  BY <1>1, NothingYet DEF Init
<1>3. Fetched /\ Replied
  BY DEF Init, Unread, Fetched, Replied
<1> QED
  BY <1>1, <1>2, <1>3 DEF IInv

\* The goroutines fill their own slots.
LEMMA FetchedStep == IInv /\ [Next]_vars => Fetched'
<1> SUFFICES ASSUME IInv, [Next]_vars PROVE Fetched'
  OBVIOUS
<1> USE DEF IInv
<1>0. /\ DOMAIN table.list = 1..Len(table.list)
      /\ served \in [1..Len(table.list) -> Promised!Serving]
      /\ results \in [1..Len(table.list) -> SlotType]
  BY ShapeServed
<1>1. ASSUME UNCHANGED <<table, running, results, served>> PROVE Fetched'
  BY <1>1 DEF Fetched, SlotMatches
<1>2. CASE Arrive
  BY <1>2 DEF Arrive, Unread, Fetched
<1>3. CASE ListServers
  <2>1. ASSUME NEW list \in Tables,
               table' = [read |-> TRUE, ok |-> TRUE, list |-> list],
               running' = DOMAIN list,
               results' = [i \in DOMAIN list |-> Pending],
               served' = [i \in DOMAIN list |-> Promised!Failed]
        PROVE  Fetched'
    BY <2>1 DEF Fetched, SlotMatches
  <2>2. ASSUME table' = [read |-> TRUE, ok |-> FALSE, list |-> <<>>]
        PROVE  Fetched'
    BY <2>2 DEF Fetched
  <2> QED
    BY <1>3, <2>1, <2>2 DEF ListServers
<1>4. ASSUME NEW i \in 1..MaxServers, FetchOne(i) PROVE Fetched'
  <2>1. PICK rows \in Bodies, parts \in Headers :
          /\ Ends(i, Slot("ok", rows, ParseUserinfo(parts)))
          /\ served' = [served EXCEPT ![i] =
                          [ok |-> TRUE, rows |-> rows, parts |-> parts]]
    BY <1>4 DEF FetchOne
  <2>2. i \in DOMAIN table.list
    BY <2>1 DEF Ends, Shape, Typed
  <2>3. ASSUME NEW j \in DOMAIN table.list, j # i PROVE SlotMatches(j)'
    <3>1. results'[j] = results[j] /\ served'[j] = served[j]
      BY <1>0, <2>1, <2>3 DEF Ends, SlotOf
    <3>2. j \in running' <=> j \in running
      BY <2>1, <2>3 DEF Ends
    <3>3. SlotMatches(j)
      BY DEF Fetched
    <3> QED
      BY <3>1, <3>2, <3>3 DEF SlotMatches
  <2>4. SlotMatches(i)'
    <3>1. /\ results'[i] = Slot("ok", rows, ParseUserinfo(parts))
          /\ served'[i] = [ok |-> TRUE, rows |-> rows, parts |-> parts]
          /\ i \notin running'
      BY <1>0, <2>1, <2>2 DEF Ends, SlotOf
    <3> QED
      BY <3>1 DEF SlotMatches, Slot
  <2>5. table' = table
    BY <2>1 DEF Ends
  <2> QED
    BY <2>3, <2>4, <2>5 DEF Fetched
<1>5. ASSUME NEW i \in 1..MaxServers, FetchFails(i) PROVE Fetched'
  <2>1. Ends(i, Error) /\ served' = served /\ table' = table
    BY <1>5 DEF FetchFails, Ends
  <2>2. i \in DOMAIN table.list /\ i \in running
    BY <2>1 DEF Ends, Shape, Typed
  <2>3. ASSUME NEW j \in DOMAIN table.list, j # i PROVE SlotMatches(j)'
    <3>1. results'[j] = results[j]
      BY <1>0, <2>1, <2>3 DEF Ends, SlotOf
    <3>2. j \in running' <=> j \in running
      BY <2>1, <2>3 DEF Ends
    <3>3. SlotMatches(j)
      BY DEF Fetched
    <3> QED
      BY <2>1, <3>1, <3>2, <3>3 DEF SlotMatches
  <2>4. SlotMatches(i)'
    <3>1. results'[i] = Error /\ i \notin running'
      BY <1>0, <2>1, <2>2 DEF Ends, SlotOf
    <3>2. served[i] = Promised!Failed
      BY <2>2 DEF Fetched, SlotMatches
    <3> QED
      BY <2>1, <3>1, <3>2 DEF SlotMatches
  <2> QED
    BY <2>1, <2>3, <2>4 DEF Fetched
<1>6. ASSUME RejectBlank \/ Join \/ MergeOne \/ ReplyMerged \/ UNCHANGED vars
      PROVE  UNCHANGED <<table, running, results, served>>
  BY <1>6 DEF RejectBlank, Join, MergeOne, ReplyMerged, Reply, vars
<1> QED
  BY <1>1, <1>2, <1>3, <1>4, <1>5, <1>6 DEF Next, Work

\* The loop merges one more server per turn.
LEMMA MergingStep == IInv /\ [Next]_vars => Merging'
<1> SUFFICES ASSUME IInv, [Next]_vars PROVE Merging'
  OBVIOUS
<1>0. Shape'
  BY ShapeStep DEF IInv
<1>1. ASSUME UNCHANGED <<served, next, merged>> PROVE Merging'
  BY <1>1 DEF IInv, Merging
<1>2. ASSUME next' = 1, merged' = NothingMerged PROVE Merging'
  <2>1. /\ Len(table'.list) \in Nat
        /\ served' \in [1..Len(table'.list) -> Promised!Serving]
    BY <1>0, TablesAre, TableAssumption DEF Shape, Typed
  <2>2. MergedIs(NothingMerged, served', 0)
    BY <2>1, MergedNone
  <2>3. next' - 1 = 0
    BY <1>2
  <2> QED
    BY <1>2, <2>2, <2>3 DEF Merging
<1>3. CASE MergeOne
  <2> DEFINE n == Len(table.list)
             k == next - 1
             r == results[next]
  <2>1. /\ n \in Nat /\ served \in [1..n -> Promised!Serving]
        /\ results \in [1..n -> SlotType]
    BY ShapeServed DEF IInv
  <2>2. next \in 1..n /\ k \in 0..(n - 1) /\ k + 1 = next
    BY <1>3, <2>1 DEF MergeOne
  <2>3. next \notin running
    BY <1>3 DEF MergeOne, IInv, Shape, Control
  <2>4. SlotMatches(next)
    <3>1. next \in DOMAIN table.list
      BY <2>2, ShapeServed DEF IInv
    <3> QED
      BY <3>1 DEF IInv, Fetched
  <2>5. MergedIs(merged, served, k) /\ merged \in MergedType
    BY DEF IInv, Merging, Shape, Typed
  <2>6. served' = served /\ next' - 1 = k + 1
    BY <1>3, <2>2 DEF MergeOne
  <2>7. CASE results[next] = Error /\ served[next] = Promised!Failed
    <3>1. merged' = merged
      BY <1>3, <2>7 DEF MergeOne, Error, Slot
    <3>2. MergedIs(merged, served, k + 1)
      <4> HIDE DEF n, k
      <4> QED
        BY <2>1, <2>2, <2>5, <2>7, MergedSkips
    <3> QED
      BY <2>6, <3>1, <3>2 DEF Merging
  <2>8. CASE /\ results[next].state = "ok" /\ served[next].ok
             /\ results[next].rows = served[next].rows
             /\ results[next].info = ParseUserinfo(served[next].parts)
    <3>1. merged' = [count |-> merged.count + 1,
                     lines |-> merged.lines \o SplitLines(r.rows),
                     info |-> Merged(merged.info, r.info)]
      BY <1>3, <2>8 DEF MergeOne
    <3>2. r \in SlotType
      BY <2>1, <2>2
    <3>3. MergedIs(merged', served, k + 1)
      <4>1. /\ served[k + 1].ok /\ r.rows = served[k + 1].rows
            /\ r.info = ParseUserinfo(served[k + 1].parts)
        BY <2>2, <2>8
      <4> HIDE DEF n, k, r
      <4> QED
        BY <2>1, <2>2, <2>5, <3>1, <3>2, <4>1, MergedAdds
    <3> QED
      BY <2>6, <3>3 DEF Merging
  <2> QED
    BY <2>3, <2>4, <2>7, <2>8 DEF SlotMatches
<1>4. ASSUME Arrive PROVE next' = 1 /\ merged' = NothingMerged
  BY <1>4 DEF Arrive
<1>5. ASSUME ListServers PROVE next' = 1 /\ merged' = NothingMerged
  BY <1>5 DEF ListServers, IInv, Shape, Control
<1>6. ASSUME NEW i \in 1..MaxServers, FetchOne(i) \/ FetchFails(i)
      PROVE  next' = 1 /\ merged' = NothingMerged
  BY <1>6 DEF FetchOne, FetchFails, Ends, IInv, Shape, Control
<1>7. ASSUME RejectBlank \/ Join \/ ReplyMerged \/ UNCHANGED vars
      PROVE  UNCHANGED <<served, next, merged>>
  BY <1>7 DEF RejectBlank, Join, ReplyMerged, Reply, vars
<1> QED
  BY <1>1, <1>2, <1>3, <1>4, <1>5, <1>6, <1>7 DEF Next, Work

\* Both replies are the promised ones.
LEMMA BlankReply ==
  ASSUME RejectBlank
  PROVE  answer' = Promised!Promise(request, Gathered)
BY DEF RejectBlank, Reply, Promised!Promise

LEMMA MergedReply ==
  ASSUME IInv, ReplyMerged
  PROVE  /\ answer' = Promised!Promise(request, Gathered)
         /\ request = "named" /\ Gathered.known
<1> DEFINE n == Len(table.list)
<1>1. /\ n \in Nat /\ served \in [1..n -> Promised!Serving]
      /\ results \in [1..n -> SlotType]
  BY ShapeServed DEF IInv
<1>2. pc = "merge" /\ next \in 1..(n + 1) /\ next \notin 1..n
  BY <1>1 DEF ReplyMerged, IInv, Shape, Typed
<1>3. next - 1 = n
  BY <1>1, <1>2
<1>4. MergedIs(merged, served, n) /\ merged \in MergedType
  BY <1>3 DEF IInv, Merging, Shape, Typed
<1>5. Gathered.served = served /\ Gathered.known /\ request = "named"
  BY <1>2 DEF Gathered, IInv, Shape, Control
<1>6. Promised!Promise("named", Gathered)
        = IF merged.count > 0
          THEN Promised!Answer("ok", merged.lines, merged.info)
          ELSE Promised!BadGateway
  <2> HIDE DEF n
  <2> QED
    BY <1>1, <1>4, <1>5, MergedAll
<1> QED
  BY <1>5, <1>6 DEF ReplyMerged, Reply

LEMMA GatheredStays ==
  ASSUME IInv, \E a : Reply(a), pc = "asked" \/ pc = "merge"
  PROVE  Gathered' = Gathered
BY DEF Reply, Gathered, IInv, Shape, Control, Unread

LEMMA RepliedStep == IInv /\ [Next]_vars => Replied'
<1> SUFFICES ASSUME IInv, [Next]_vars PROVE Replied'
  OBVIOUS
<1>1. CASE RejectBlank
  <2>1. Gathered' = Gathered /\ request' = request
    BY <1>1, GatheredStays DEF RejectBlank, Reply
  <2> QED
    BY <1>1, <2>1, BlankReply DEF Replied
<1>2. CASE ReplyMerged
  <2>1. Gathered' = Gathered /\ request' = request
    BY <1>2, GatheredStays DEF ReplyMerged, Reply
  <2> QED
    BY <1>2, <2>1, MergedReply DEF Replied
<1>3. CASE UNCHANGED vars
  BY <1>3 DEF vars, IInv, Replied, Gathered
<1>4. ASSUME Arrive \/ ListServers \/ Join \/ MergeOne
      PROVE  pc' # "answered"
  BY <1>4 DEF Arrive, ListServers, Join, MergeOne
<1>5. ASSUME NEW i \in 1..MaxServers, FetchOne(i) \/ FetchFails(i)
      PROVE  pc' # "answered"
  BY <1>5 DEF FetchOne, FetchFails, Ends
<1> QED
  BY <1>1, <1>2, <1>3, <1>4, <1>5 DEF Next, Work, Replied

LEMMA IInvHolds == Spec => []IInv
<1>1. IInv /\ [Next]_vars => IInv'
  BY ShapeStep, FetchedStep, MergingStep, RepliedStep DEF IInv
<1> QED
  BY <1>1, IInvInit, PTL DEF Spec

----------------------------------------------------------------------------
(* Theorems. *)

\* SumsAreExact holds of every reachable state: a sum of traffic counters
\* that fits an int64 is reported exactly, however often the running sum
\* overflows on the way and however many servers add to it
\* (service.go:447-449).
THEOREM SumsSafe == Spec => []SumsAreExact
<1>1. IInv => SumsAreExact
  <2> SUFFICES ASSUME IInv, answer.code = "ok", NEW f \in Traffic,
                      Promised!TrueSum(served, f) \in Word
               PROVE  answer.info[f] = Promised!TrueSum(served, f)
    BY DEF SumsAreExact
  <2>1. pc = "answered"
    BY DEF IInv, Shape, Control, Promised!NoAnswer, Promised!Answer
  <2>2. answer = Promised!Promise(request, Gathered)
    BY <2>1 DEF IInv, Replied
  <2>3. request = "named"
    <3>1. request \in {"blank", "named"}
      BY <2>1 DEF IInv, Shape, Typed, Control
    <3>2. request # "blank"
      BY <2>2 DEF Promised!Promise, Promised!NotFound, Promised!Answer
    <3> QED
      BY <3>1, <3>2
  <2>4. Gathered.served = served
    BY <2>1, <2>3 DEF Gathered, IInv, Shape, Control
  <2>5. answer.info = Promised!Combined(served)
    BY <2>2, <2>3, <2>4 DEF Promised!Promise, Promised!BadGateway,
       Promised!Answer
  <2>6. Promised!Combined(served)[f] = Wrap(Promised!TrueSum(served, f))
    BY SameValues DEF Promised!Combined, Fields
  <2> QED
    BY <2>5, <2>6, WrapWord
<1> QED
  BY <1>1, IInvHolds, PTL

LEMMA PromiseInit == Init => Promised!Init
BY DEF Init, Promised!Init, Gathered, Promised!Unknown

LEMMA OutcomeKnown ==
  ASSUME NEW t \in [read : BOOLEAN, ok : BOOLEAN, list : Tables \cup {<<>>}],
         ~t.ok => t.list = <<>>,
         NEW s \in [DOMAIN t.list -> Promised!Serving]
  PROVE  [known |-> TRUE, table |-> t.ok, served |-> s]
           \in Promised!Outcome \ {Promised!Unknown}
<1> DEFINE n == Len(t.list)
           out == [known |-> TRUE, table |-> t.ok, served |-> s]
<1>1. n \in 0..MaxServers /\ s \in [1..n -> Promised!Serving]
  BY TablesAre
<1>2. out # Promised!Unknown
  <2>1. out.known # Promised!Unknown.known
    BY DEF Promised!Unknown
  <2> QED
    BY <2>1
<1>3. CASE t.ok = TRUE
  BY <1>1, <1>2, <1>3 DEF Promised!Outcome
<1>4. CASE t.ok = FALSE
  <2>1. t.list = <<>>
    BY <1>4
  <2>2. s = <<>>
    BY <2>1
  <2>3. out = Promised!NoTable
    BY <1>4, <2>2 DEF Promised!NoTable
  <2> QED
    BY <1>2, <2>3 DEF Promised!Outcome
<1> QED
  BY <1>3, <1>4

LEMMA PromiseStep == IInv /\ [Next]_vars => [Promised!Next]_(Promised!vars)
<1> SUFFICES ASSUME IInv, [Next]_vars
             PROVE  [Promised!Next]_(Promised!vars)
  OBVIOUS
<1> USE DEF Promised!vars
<1>1. CASE UNCHANGED vars
  BY <1>1 DEF vars, Gathered
<1>2. CASE Arrive
  <2>1. request = "none" \/ answer # Promised!NoAnswer
    BY <1>2 DEF Arrive, IInv, Shape, Control
  <2>2. Gathered' = Promised!Unknown
    BY <1>2 DEF Arrive, Gathered, Promised!Unknown
  <2> QED
    BY <1>2, <2>1, <2>2 DEF Arrive, Promised!Next, Promised!Ask
<1>3. CASE RejectBlank
  <2>1. Gathered' = Gathered /\ request' = request /\ request = "blank"
    BY <1>3, GatheredStays DEF RejectBlank, Reply
  <2>2. answer = Promised!NoAnswer
    BY <1>3 DEF RejectBlank, IInv, Shape, Control
  <2> QED
    BY <1>3, <2>1, <2>2, BlankReply DEF Promised!Next, Promised!Reply
<1>4. ASSUME pc \in {"asked", "fetch"}, pc' = "merge", request = "named",
             UNCHANGED <<request, answer>>
      PROVE  [Promised!Next]_(Promised!vars)
  <2>1. Gathered = Promised!Unknown
    BY <1>4 DEF Gathered, Promised!Unknown
  <2>2. Gathered' \in Promised!Outcome \ {Promised!Unknown}
    <3>1. Shape'
      BY ShapeStep DEF IInv
    <3>2. [known |-> TRUE, table |-> table'.ok, served |-> served']
            \in Promised!Outcome \ {Promised!Unknown}
      BY <3>1, OutcomeKnown DEF Shape, Typed, Control
    <3> QED
      BY <1>4, <3>2 DEF Gathered
  <2> QED
    BY <1>4, <2>1, <2>2 DEF Promised!Next, Promised!Gather
<1>5. CASE ListServers
  <2>1. pc = "asked" /\ request = "named" /\ UNCHANGED <<request, answer>>
    BY <1>5 DEF ListServers
  <2>2. CASE pc' = "fetch"
    <3>1. Gathered' = Gathered
      BY <2>1, <2>2 DEF Gathered
    <3> QED
      BY <2>1, <3>1
  <2>3. CASE pc' = "merge"
    BY <1>4, <2>1, <2>3
  <2> QED
    BY <1>5, <2>2, <2>3 DEF ListServers
<1>6. ASSUME NEW i \in 1..MaxServers, FetchOne(i) \/ FetchFails(i)
      PROVE  [Promised!Next]_(Promised!vars)
  <2>1. pc = "fetch" /\ pc' = "fetch" /\ UNCHANGED <<request, answer>>
    BY <1>6 DEF FetchOne, FetchFails, Ends
  <2> QED
    BY <2>1 DEF Gathered
<1>7. CASE Join
  <2>1. request = "named"
    BY <1>7 DEF Join, IInv, Shape, Control
  <2> QED
    BY <1>4, <1>7, <2>1 DEF Join
<1>8. CASE MergeOne
  BY <1>8 DEF MergeOne, Gathered
<1>9. CASE ReplyMerged
  <2>1. pc = "merge" /\ \E a : Reply(a)
    BY <1>9 DEF ReplyMerged
  <2>2. Gathered' = Gathered /\ request' = request
    BY <2>1, GatheredStays DEF Reply
  <2>3. answer = Promised!NoAnswer
    BY <2>1 DEF IInv, Shape, Control
  <2> QED
    BY <1>9, <2>2, <2>3, MergedReply DEF Promised!Next, Promised!Reply
<1> QED
  BY <1>1, <1>2, <1>3, <1>5, <1>6, <1>7, <1>8, <1>9 DEF Next, Work

\* The endpoint implements its promise (KeepsPromise): in whatever order the
\* goroutines end, the answer is the one function of what the servers served
\* that SubscriptionSpec states, and a request is answered once
\* (web.go:323-357, service.go:407-463).
THEOREM PromiseKept == Spec => KeepsPromise
<1>1. Spec => Promised!Spec
  BY PromiseInit, PromiseStep, IInvHolds, PTL DEF Spec, Promised!Spec
<1> QED
  BY <1>1 DEF KeepsPromise
=============================================================================
