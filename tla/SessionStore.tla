---------------------------- MODULE SessionStore ----------------------------
(***************************************************************************)
(* Administrator sessions: internal/security/sessions.go as Login, Session *)
(* and Logout of internal/app/service.go and the cookie handlers of        *)
(* internal/app/web.go use it.                                             *)
(*                                                                         *)
(* The store's lock covers single reads and writes of the map only.  A     *)
(* request that checks its session copies it under the lock, judges the    *)
(* copy without it, and locks again to drop or to touch the session; other *)
(* requests and the clock move in between.                                 *)
(***************************************************************************)
EXTENDS Naturals

CONSTANTS
  Requests,    \* HTTP requests that may be under way together
  IDs,         \* session ids that may be drawn; never drawn twice
  TTL,         \* SESSION_TTL
  RememberTTL, \* REMEMBER_ME_TTL
  Idle,        \* SESSION_IDLE_TIMEOUT; 0 turns the check off
  MaxClock,    \* bound: how long time runs
  NoSession,   \* no entry in the map
  NoID         \* a request without a session id

Session == [created : Nat, seen : Nat, expires : Nat]

\* config.Load refuses an idle timeout above the lifetime.
ASSUME SessionAssumption ==
  /\ TTL \in Nat /\ RememberTTL \in Nat /\ Idle \in Nat /\ MaxClock \in Nat
  /\ Idle <= TTL
  /\ NoSession \notin Session
  /\ NoID \notin IDs

VARIABLES
  clock,    \* the time
  sessions, \* the map
  cookies,  \* ids browsers were given
  pc,       \* where each request is
  id,       \* the session id it carries
  held,     \* the copy of the session it works with
  since,    \* history: when it arrived
  reply     \* what it was last told

vars == <<clock, sessions, cookies, pc, id, held, since, reply>>

Init ==
  /\ clock = 0
  /\ sessions = [i \in IDs |-> NoSession]
  /\ cookies = {}
  /\ pc = [r \in Requests |-> "idle"]
  /\ id = [r \in Requests |-> NoID]
  /\ held = [r \in Requests |-> NoSession]
  /\ since = [r \in Requests |-> 0]
  /\ reply = [r \in Requests |-> "none"]

----------------------------------------------------------------------------
Goto(r, label) == pc' = [pc EXCEPT ![r] = label]

Arrives(r, i, copy, label) ==
  /\ pc[r] = "idle"
  /\ Goto(r, label)
  /\ id' = [id EXCEPT ![r] = i]
  /\ held' = [held EXCEPT ![r] = copy]
  /\ since' = [since EXCEPT ![r] = clock]
  /\ reply' = [reply EXCEPT ![r] = "none"]

\* Mutant: the answer goes out and the request's data stays behind.
AnswerKeeping(r, word) ==
  /\ Goto(r, "idle")
  /\ reply' = [reply EXCEPT ![r] = word]
  /\ UNCHANGED <<id, held, since>>

Answer(r, word) ==
  /\ Goto(r, "idle")
  /\ id' = [id EXCEPT ![r] = NoID]
  /\ held' = [held EXCEPT ![r] = NoSession]
  /\ since' = [since EXCEPT ![r] = 0]
  /\ reply' = [reply EXCEPT ![r] = word]

\* "Remember me" only ever prolongs a session.
Lifetime(remember) ==
  IF remember /\ RememberTTL > TTL THEN RememberTTL ELSE TTL

NewSession(remember) ==
  [created |-> clock, seen |-> clock, expires |-> clock + Lifetime(remember)]

\* Nobody else has drawn this id.
Fresh(i) ==
  /\ i \notin cookies
  /\ \A q \in Requests : pc[q] = "store" => id[q] # i

\* Login with the right credentials: a new id, the session is made up.
Login(r) ==
  /\ \E i \in IDs, remember \in BOOLEAN :
       /\ Fresh(i)
       /\ Arrives(r, i, NewSession(remember), "store")
  /\ UNCHANGED <<clock, sessions, cookies>>

\* Under the lock it enters the map; the browser is given its cookie.
Store(r) ==
  /\ pc[r] = "store"
  /\ sessions' = [sessions EXCEPT ![id[r]] = held[r]]
  /\ cookies' = cookies \cup {id[r]}
  /\ Answer(r, "cookie")
  /\ UNCHANGED clock

\* A page is asked for with a cookie whose signature is good; whether the
\* date in it has passed is not looked at.
Visit(r) ==
  /\ \E i \in cookies : Arrives(r, i, NoSession, "get")
  /\ UNCHANGED <<clock, sessions, cookies>>

\* Get, the part under the read lock.
Get(r) ==
  /\ pc[r] = "get"
  /\ \/ /\ sessions[id[r]] # NoSession
        /\ held' = [held EXCEPT ![r] = sessions[id[r]]]
        /\ Goto(r, "expiry")
        /\ UNCHANGED <<id, since, reply>>
     \/ /\ sessions[id[r]] = NoSession
        /\ Answer(r, "refused")
  /\ UNCHANGED <<clock, sessions, cookies>>

Expired(s) == clock > s.expires

\* Mutant: idle time is not looked at.
NeverIdle(s) == FALSE

IdleTooLong(s) == Idle > 0 /\ clock - s.seen > Idle

\* Get, the first reading of the clock.
CheckExpiry(r) ==
  /\ pc[r] = "expiry"
  /\ Goto(r, IF Expired(held[r]) THEN "drop" ELSE "judge")
  /\ UNCHANGED <<clock, sessions, cookies, id, held, since, reply>>

\* Get, the second.
CheckIdle(r) ==
  /\ pc[r] = "judge"
  /\ Goto(r, IF IdleTooLong(held[r]) THEN "drop" ELSE "touch")
  /\ UNCHANGED <<clock, sessions, cookies, id, held, since, reply>>

\* Get gives up on the session, whatever has become of it meanwhile.
Drop(r) ==
  /\ pc[r] = "drop"
  /\ sessions' = [sessions EXCEPT ![id[r]] = NoSession]
  /\ Answer(r, "refused")
  /\ UNCHANGED <<clock, cookies>>

\* Mutant: the copy goes back into the map.
TouchedCopy(r) == [held[r] EXCEPT !.seen = clock]

\* Mutant: the session is seen when the request came.
TouchedAtArrival(r) ==
  IF sessions[id[r]] = NoSession THEN NoSession
  ELSE [sessions[id[r]] EXCEPT !.seen = since[r]]

\* Touch works on what is in the map now, if anything is.
Touched(r) ==
  IF sessions[id[r]] = NoSession THEN NoSession
  ELSE [sessions[id[r]] EXCEPT !.seen = clock]

\* Touch; the request is served either way.
Touch(r) ==
  /\ pc[r] = "touch"
  /\ sessions' = [sessions EXCEPT ![id[r]] = Touched(r)]
  /\ Goto(r, "served")
  /\ UNCHANGED <<clock, cookies, id, held, since, reply>>

\* The page's own work, with no further look at the session.
Serve(r) ==
  /\ pc[r] = "served"
  /\ Answer(r, "page")
  /\ UNCHANGED <<clock, sessions, cookies>>

\* Logout needs the cookie only.
Logout(r) ==
  /\ \E i \in cookies : Arrives(r, i, NoSession, "logout")
  /\ UNCHANGED <<clock, sessions, cookies>>

Delete(r) ==
  /\ pc[r] = "logout"
  /\ sessions' = [sessions EXCEPT ![id[r]] = NoSession]
  /\ Answer(r, "goodbye")
  /\ UNCHANGED <<clock, cookies>>

Tick ==
  /\ clock < MaxClock
  /\ clock' = clock + 1
  /\ UNCHANGED <<sessions, cookies, pc, id, held, since, reply>>

\* The map is in memory; cookies and the key that signs them remain.
Restart ==
  /\ sessions' = [i \in IDs |-> NoSession]
  /\ pc' = [r \in Requests |-> "idle"]
  /\ id' = [r \in Requests |-> NoID]
  /\ held' = [r \in Requests |-> NoSession]
  /\ since' = [r \in Requests |-> 0]
  /\ reply' = [r \in Requests |-> "none"]
  /\ UNCHANGED <<clock, cookies>>

Handle(r) ==
  \/ Login(r) \/ Store(r)
  \/ Visit(r) \/ Get(r) \/ CheckExpiry(r) \/ CheckIdle(r)
  \/ Drop(r) \/ Touch(r) \/ Serve(r)
  \/ Logout(r) \/ Delete(r)

Next == (\E r \in Requests : Handle(r)) \/ Tick \/ Restart
Spec == Init /\ [][Next]_vars

----------------------------------------------------------------------------
(* Properties. *)

Labels == {"idle", "store", "get", "expiry", "judge", "drop", "touch",
           "served", "logout"}

\* Every variable keeps its shape; a request under way carries an id, and a
\* copy of a session where it needs one; an idle one keeps nothing.
TypeOK ==
  /\ clock \in Nat
  /\ sessions \in [IDs -> Session \cup {NoSession}]
  /\ cookies \subseteq IDs
  /\ pc \in [Requests -> Labels]
  /\ id \in [Requests -> IDs \cup {NoID}]
  /\ held \in [Requests -> Session \cup {NoSession}]
  /\ since \in [Requests -> Nat]
  /\ reply \in [Requests -> {"none", "cookie", "refused", "page", "goodbye"}]
  /\ \A r \in Requests :
       /\ (pc[r] = "idle") <=> (id[r] = NoID)
       /\ pc[r] = "idle" => held[r] = NoSession
       /\ pc[r] \in {"store", "expiry", "judge", "drop", "touch", "served"}
            => held[r] \in Session

\* Nothing about a session lies in the future but its end.
Plausible(s) ==
  /\ s.created <= s.seen /\ s.seen <= clock
  /\ s.created + TTL <= s.expires

SessionsPlausible ==
  /\ \A i \in IDs : sessions[i] # NoSession => Plausible(sessions[i])
  /\ \A r \in Requests : held[r] # NoSession => Plausible(held[r])
  /\ \A r \in Requests : since[r] <= clock

\* Whoever comes after the session's end is not served, even where the
\* clock moves while the copy is judged: the session a request is served by
\* had not expired, and had been in use within the idle time, when the
\* request arrived.
ServedInTime ==
  \A r \in Requests : pc[r] \in {"touch", "served"} =>
    /\ since[r] <= held[r].expires
    /\ Idle > 0 => since[r] <= held[r].seen + Idle

\* A request past a check had passed it when it arrived, ids are unique.
CheckedInTime ==
  \A r \in Requests : pc[r] = "judge" => since[r] <= held[r].expires

StoresFresh ==
  \A r \in Requests : pc[r] = "store" =>
    /\ id[r] \notin cookies
    /\ \A q \in Requests \ {r} : pc[q] = "store" => id[q] # id[r]

VisitsKnown ==
  \A r \in Requests : pc[r] \notin {"idle", "store"} => id[r] \in cookies

Stocked == \A i \in IDs : sessions[i] # NoSession => i \in cookies

\* The inductive invariant.
IInv ==
  /\ TypeOK /\ SessionsPlausible
  /\ CheckedInTime /\ ServedInTime
  /\ StoresFresh /\ VisitsKnown /\ Stocked

\* A session logged out, dropped or lost in a restart never comes back: a
\* request that copied it before and touches it after does not revive it.
RemovedStaysRemoved ==
  [][\A i \in cookies : sessions[i] = NoSession => sessions'[i] = NoSession]_vars

\* Touching moves the time a session was last seen forward only, in
\* whatever order requests get to it, and prolongs nothing else.
TouchOnlyMovesSeen ==
  [][\A i \in IDs : sessions[i] # NoSession /\ sessions'[i] # NoSession =>
       /\ sessions'[i].created = sessions[i].created
       /\ sessions'[i].expires = sessions[i].expires
       /\ sessions'[i].seen >= sessions[i].seen]_vars
=============================================================================
