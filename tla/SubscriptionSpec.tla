-------------------------- MODULE SubscriptionSpec --------------------------
(***************************************************************************)
(* What the public subscription endpoint promises, without goroutines and  *)
(* loops: a request gathers what the upstream servers serve, all at once,  *)
(* and the answer is a function of it.                                     *)
(***************************************************************************)
EXTENDS SubscriptionData, FiniteSetsExt

CONSTANTS
  Bodies,    \* subscription bodies a server may serve
  Headers,   \* subscription-userinfo headers a server may serve
  MaxServers \* bound: servers in the table

Failed == [ok |-> FALSE, rows |-> <<>>, parts |-> <<>>]
Serving == {Failed} \cup [ok : {TRUE}, rows : Bodies, parts : Headers]

\* What came of a request: nothing yet, no servers table, or what each
\* server served, in the order of the table.
Unknown == [known |-> FALSE, table |-> FALSE, served |-> <<>>]
NoTable == [known |-> TRUE, table |-> FALSE, served |-> <<>>]
Outcome ==
  {Unknown, NoTable} \cup
  [known : {TRUE}, table : {TRUE},
   served : UNION {[1..n -> Serving] : n \in 0..MaxServers}]

Answer(code, lines, info) == [code |-> code, lines |-> lines, info |-> info]
NoAnswer == Answer("none", <<>>, Zero)
NotFound == Answer("not found", <<>>, Zero)
BadGateway == Answer("bad gateway", <<>>, Zero)

VARIABLES request, outcome, answer
vars == <<request, outcome, answer>>

----------------------------------------------------------------------------
(* The promise, in terms of what was served.                               *)

\* The value of a field is the one given last, or 0.
ValueOf(parts, f) ==
  LET at == {i \in DOMAIN parts : parts[i].key = f}
  IN IF at = {} THEN 0 ELSE ParseInt(parts[Max(at)].value)

\* The number a field really adds up to.
TrueSum(served, f) ==
  MapThenSumSet(LAMBDA i : ValueOf(served[i].parts, f),
                {i \in DOMAIN served : served[i].ok})

Combined(served) ==
  [f \in Fields |->
     IF f \in Traffic THEN Wrap(TrueSum(served, f))
     ELSE Max({0} \cup {ValueOf(served[i].parts, f) :
                         i \in {j \in DOMAIN served : served[j].ok}})]

Promise(rq, out) ==
  IF rq = "blank" THEN NotFound
  ELSE IF \A i \in DOMAIN out.served : ~out.served[i].ok THEN BadGateway
  ELSE Answer("ok",
              SplitLines(FlattenSeq([i \in DOMAIN out.served |->
                                       out.served[i].rows])),
              Combined(out.served))

----------------------------------------------------------------------------
Init == request = "none" /\ outcome = Unknown /\ answer = NoAnswer

Ask ==
  /\ request = "none" \/ answer # NoAnswer
  /\ request' \in {"blank", "named"}
  /\ outcome' = Unknown
  /\ answer' = NoAnswer

Gather ==
  /\ request = "named" /\ outcome = Unknown
  /\ outcome' \in Outcome \ {Unknown}
  /\ UNCHANGED <<request, answer>>

Reply ==
  /\ request # "none" /\ answer = NoAnswer
  /\ request = "named" => outcome.known
  /\ answer' = Promise(request, outcome)
  /\ UNCHANGED <<request, outcome>>

Next == Ask \/ Gather \/ Reply
Spec == Init /\ [][Next]_vars
=============================================================================
