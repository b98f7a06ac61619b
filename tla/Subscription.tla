---------------------------- MODULE Subscription ----------------------------
(***************************************************************************)
(* The public subscription endpoint: handleSubscription of                 *)
(* internal/app/web.go and SubscriptionBundle of internal/app/service.go.  *)
(* One goroutine per server fetches into the slot of its server; when all  *)
(* are done a loop merges the slots in table order.                        *)
(*                                                                         *)
(* Requests share nothing but the servers table, which each reads once, so *)
(* one request at a time is all there is to see.                           *)
(***************************************************************************)
EXTENDS SubscriptionData

CONSTANTS
  Bodies, Headers, \* what a server may serve
  MaxServers,      \* bound: servers in the table
  Tables           \* contents of the servers table, as List orders them

Server == [url : {"blank", "set"}, active : BOOLEAN]

ASSUME TableAssumption ==
  MaxServers \in Nat /\ Tables \subseteq SeqOf(Server, MaxServers)
ASSUME ServedAssumption ==
  Bodies \subseteq Seq(Row) /\ Headers \subseteq Seq(HeaderPart)

VARIABLES
  pc,      \* where the request is
  request, \* what was asked for: a blank id or a named one
  table,   \* the servers read for this request
  running, \* the wait group: goroutines that have not ended
  results, \* a slot per server
  served,  \* history: per server, what it served
  next,    \* the merging loop's index
  merged,  \* the merging loop's successCount, lines and userinfo
  answer   \* the HTTP answer

vars ==
  <<pc, request, table, running, results, served, next, merged, answer>>

\* What came of the request: it is known once all have been waited for.
Gathered ==
  IF pc = "merge" \/ (pc = "answered" /\ table.read)
  THEN [known |-> TRUE, table |-> table.ok, served |-> served]
  ELSE [known |-> FALSE, table |-> FALSE, served |-> <<>>]

Promised == INSTANCE SubscriptionSpec WITH outcome <- Gathered

Slot(state, rows, info) == [state |-> state, rows |-> rows, info |-> info]
Pending == Slot("pending", <<>>, Zero)
Error == Slot("error", <<>>, Zero)

Unread == [read |-> FALSE, ok |-> FALSE, list |-> <<>>]
NothingMerged == [count |-> 0, lines |-> <<>>, info |-> Zero]

Init ==
  /\ pc = "idle"
  /\ request = "none"
  /\ table = Unread
  /\ running = {} /\ results = <<>> /\ served = <<>>
  /\ next = 1 /\ merged = NothingMerged
  /\ answer = Promised!NoAnswer

----------------------------------------------------------------------------
\* A request comes in.
Arrive ==
  /\ pc \in {"idle", "answered"}
  /\ request' \in {"blank", "named"}
  /\ pc' = "asked"
  /\ table' = Unread
  /\ running' = {} /\ results' = <<>> /\ served' = <<>>
  /\ next' = 1 /\ merged' = NothingMerged
  /\ answer' = Promised!NoAnswer

Reply(a) ==
  /\ pc' = "answered"
  /\ answer' = a
  /\ UNCHANGED <<request, table, running, results, served, next, merged>>

RejectBlank ==
  /\ pc = "asked" /\ request = "blank"
  /\ Reply(Promised!NotFound)

\* servers.List: every server, active or not.  The goroutines start.
ListServers ==
  /\ pc = "asked" /\ request = "named"
  /\ \/ \E list \in Tables :
          /\ table' = [read |-> TRUE, ok |-> TRUE, list |-> list]
          /\ running' = DOMAIN list
          /\ results' = [i \in DOMAIN list |-> Pending]
          /\ served' = [i \in DOMAIN list |-> Promised!Failed]
          /\ pc' = "fetch"
     \/ /\ table' = [read |-> TRUE, ok |-> FALSE, list |-> <<>>]
        /\ pc' = "merge"
        /\ UNCHANGED <<running, results, served>>
  /\ UNCHANGED <<request, next, merged, answer>>

\* Mutant: whoever comes first takes the first slot.
FirstFree(i) ==
  CHOOSE j \in DOMAIN results :
    /\ results[j] = Pending
    /\ \A k \in 1..(j - 1) : results[k] # Pending

\* Each goroutine writes the slot of its own server.
SlotOf(i) == i

\* The goroutine of server i ends with this result.
Ends(i, slot) ==
  /\ pc = "fetch" /\ i \in running
  /\ results' = [results EXCEPT ![SlotOf(i)] = slot]
  /\ running' = running \ {i}
  /\ UNCHANGED <<pc, request, table, next, merged, answer>>

\* fetchServerSubscription succeeds: a good status, a body in base64.
FetchOne(i) ==
  /\ i \in running
  /\ table.list[i].url = "set"
  /\ \E rows \in Bodies, parts \in Headers :
       /\ Ends(i, Slot("ok", rows, ParseUserinfo(parts)))
       /\ served' = [served EXCEPT ![i] =
                       [ok |-> TRUE, rows |-> rows, parts |-> parts]]

\* Or it does not: no URL, connection, timeout, status, encoding.
FetchFails(i) == Ends(i, Error) /\ UNCHANGED served

\* Mutant: the merging waits for servers that answered.
AllAnswered == \A i \in DOMAIN results : results[i].state = "ok"

AllDone == running = {}

\* wg.Wait returns.
Join ==
  /\ pc = "fetch" /\ AllDone
  /\ pc' = "merge"
  /\ UNCHANGED <<request, table, running, results, served, next, merged,
                 answer>>

\* The loop's body: a failed server is passed over.
MergeOne ==
  /\ pc = "merge" /\ next \in DOMAIN results
  /\ next' = next + 1
  /\ LET r == results[next] IN
       merged' = IF r.state = "ok"
                 THEN [count |-> merged.count + 1,
                       lines |-> merged.lines \o SplitLines(r.rows),
                       info |-> Merged(merged.info, r.info)]
                 ELSE merged
  /\ UNCHANGED <<pc, request, table, running, results, served, answer>>

ReplyMerged ==
  /\ pc = "merge" /\ next \notin DOMAIN results
  /\ IF merged.count > 0
     THEN Reply(Promised!Answer("ok", merged.lines, merged.info))
     ELSE Reply(Promised!BadGateway)

Work ==
  \/ RejectBlank \/ ListServers \/ Join \/ MergeOne \/ ReplyMerged
  \/ \E i \in 1..MaxServers : FetchOne(i) \/ FetchFails(i)

Next == Arrive \/ Work
Spec == Init /\ [][Next]_vars

\* RequestTimeout ends every fetch; the loops run on by themselves.
FairSpec == Spec /\ WF_vars(Work)

----------------------------------------------------------------------------
(* Properties. *)

\* Every variable keeps its shape; there is a slot per server of the table,
\* and the counters stay within an int64.
TypeOK ==
  /\ pc \in {"idle", "asked", "fetch", "merge", "answered"}
  /\ request \in {"none", "blank", "named"}
  /\ table \in [read : BOOLEAN, ok : BOOLEAN, list : Tables \cup {<<>>}]
  /\ DOMAIN results = DOMAIN table.list
  /\ DOMAIN served = DOMAIN table.list
  /\ running \subseteq DOMAIN table.list
  /\ \A i \in DOMAIN results :
       /\ results[i].state \in {"pending", "ok", "error"}
       /\ results[i].info \in Userinfo
       /\ served[i] \in Promised!Serving
  /\ next \in 1..(MaxServers + 1)
  /\ merged.count \in 0..MaxServers /\ merged.info \in Userinfo
  /\ answer.code \in {"none", "ok", "not found", "bad gateway"}

\* The endpoint implements its promise: whatever order the goroutines end
\* in, the answer is the one function of what the servers served: links in
\* table order, blank rows gone, the last of repeated header values, sums,
\* the largest expiry, an error exactly when no server succeeded.
KeepsPromise == Promised!Spec

\* Counters that add up to a number an int64 can hold are exact, even when
\* the running sum overflows on the way.
SumsAreExact ==
  answer.code = "ok" =>
    \A f \in Traffic :
      LET sum == Promised!TrueSum(served, f)
      IN sum \in Word => answer.info[f] = sum

\* Every request is answered: a server that fails or says nothing costs the
\* request its timeout, never the answer.
RequestsAnswered == pc = "asked" ~> pc = "answered"

\* "Public subscription endpoint fetches active remote subscriptions": an
\* inactive server contributes nothing.
OnlyActiveServers ==
  \A i \in DOMAIN served : served[i].ok => table.list[i].active
=============================================================================
