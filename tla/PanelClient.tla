----------------------------- MODULE PanelClient ----------------------------
(***************************************************************************)
(* The panel client of internal/xui/client.go: doJSON, doForm,             *)
(* ensureLogin, sendJSON and sendForm.  All handlers and goroutines share  *)
(* one client, that is one map of the panels it believes to be logged in   *)
(* to, behind a mutex, and one cookie jar.  The mutex is never held across *)
(* a request.                                                              *)
(*                                                                         *)
(* A login request and its answer are one step: nothing depends on the     *)
(* moment between them.  The request proper and its answer are two.        *)
(***************************************************************************)
EXTENDS Naturals

CONSTANTS
  Callers,    \* goroutines that use the client
  Panels,     \* base URLs
  SiteOf,     \* Panels -> the host and path its cookie belongs to; no port
  Good,       \* panels whose credentials are right as first stored
  Edited,     \* bound: panels whose credentials are ever edited
  Rejecting,  \* panels that turn strangers away with a readable 401; the
              \* others send a page, a redirect or another status
  LoginPaths, \* how many spellings of the login path are tried: 2
  MaxCalls,   \* bound: calls made
  MaxFaults,  \* bound: requests or answers lost or cut short
  MaxExpired, \* bound: sessions ended by a panel
  NoPanel     \* nobody

Sites == {SiteOf[p] : p \in Panels}

ASSUME ClientAssumption ==
  /\ Good \subseteq Panels /\ Rejecting \subseteq Panels
  /\ Edited \subseteq Panels
  /\ LoginPaths \in Nat \ {0}
  /\ MaxCalls \in Nat /\ MaxFaults \in Nat /\ MaxExpired \in Nat
  /\ NoPanel \notin Panels

VARIABLES
  authLoggedIn, \* base URL -> believed to be logged in
  jar,          \* site -> the panel whose cookie is kept
  live,         \* panels that would accept the last cookie they gave out
  creds,        \* panel -> whether the credentials stored for it were right,
                \* over all that ever were
  pc,           \* where each caller is
  target,       \* the panel it calls
  entitled,     \* it was given the right credentials
  try,          \* the login path it tries next
  again,        \* it is sending for the second time
  answer,       \* the answer under way to it
  applied,      \* history: how often its request took effect
  sent,         \* history: requests sent for it
  excused,      \* history: bad luck that justifies an error
  reply,        \* what it was last told
  calls, faults, expired \* counters behind the bounds

shared == <<authLoggedIn, jar, live, creds>>
caller == <<pc, target, entitled, try, again, answer, applied, sent, excused,
            reply>>
budget == <<calls, faults, expired>>
vars == <<shared, caller, budget>>

Init ==
  /\ authLoggedIn = [p \in Panels |-> FALSE]
  /\ jar = [s \in Sites |-> NoPanel]
  /\ live = {}
  /\ creds = [p \in Panels |-> {p \in Good}]
  /\ pc = [c \in Callers |-> "idle"]
  /\ target = [c \in Callers |-> NoPanel]
  /\ entitled = [c \in Callers |-> FALSE]
  /\ try = [c \in Callers |-> 1]
  /\ again = [c \in Callers |-> FALSE]
  /\ answer = [c \in Callers |-> "none"]
  /\ applied = [c \in Callers |-> 0]
  /\ sent = [c \in Callers |-> 0]
  /\ excused = [c \in Callers |-> FALSE]
  /\ reply = [c \in Callers |-> "none"]
  /\ calls = 0 /\ faults = 0 /\ expired = 0

----------------------------------------------------------------------------
Goto(c, label) == pc' = [pc EXCEPT ![c] = label]

\* The panel knows the cookie the client would send.
Authorised(p) == jar[SiteOf[p]] = p /\ p \in live

\* Mutant: the reply goes out and the call's data stays behind.
ReturnKeeping(c, r) ==
  /\ Goto(c, "idle")
  /\ reply' = [reply EXCEPT ![c] = r]
  /\ UNCHANGED <<target, entitled, try, again, answer, applied, sent>>

Return(c, r) ==
  /\ Goto(c, "idle")
  /\ reply' = [reply EXCEPT ![c] = r]
  /\ target' = [target EXCEPT ![c] = NoPanel]
  /\ entitled' = [entitled EXCEPT ![c] = FALSE]
  /\ try' = [try EXCEPT ![c] = 1]
  /\ again' = [again EXCEPT ![c] = FALSE]
  /\ answer' = [answer EXCEPT ![c] = "none"]
  /\ applied' = [applied EXCEPT ![c] = 0]
  /\ sent' = [sent EXCEPT ![c] = 0]

Fault(c) ==
  /\ faults < MaxFaults /\ faults' = faults + 1
  /\ excused' = [excused EXCEPT ![c] = TRUE]

\* Others are calling p while its session ended under them.
Turmoil(p) ==
  \E d \in Callers : pc[d] # "idle" /\ target[d] = p /\ excused[d]

\* ListInbounds, UpsertClient or DeleteClient is called, with credentials
\* of a row that may have been edited since it was read.
Call(c, p) ==
  /\ pc[c] = "idle"
  /\ calls < MaxCalls /\ calls' = calls + 1
  /\ Goto(c, "check")
  /\ target' = [target EXCEPT ![c] = p]
  /\ \E right \in creds[p] : entitled' = [entitled EXCEPT ![c] = right]
  /\ excused' = [excused EXCEPT ![c] = Turmoil(p)]
  /\ reply' = [reply EXCEPT ![c] = "none"]
  /\ UNCHANGED <<shared, try, again, answer, applied, sent, faults, expired>>

\* ensureLogin, under the mutex: believe the map.
CheckLogin(c) ==
  /\ pc[c] = "check"
  /\ Goto(c, IF authLoggedIn[target[c]] THEN "send" ELSE "login")
  /\ try' = [try EXCEPT ![c] = 1]
  /\ UNCHANGED <<shared, target, entitled, again, answer, applied, sent,
                 excused, reply, budget>>

\* Bound: past six requests, with two login paths, the count stands still.
MaxSent == 2 + 2 * LoginPaths
Sends(c) == sent' = [sent EXCEPT ![c] = IF @ > MaxSent THEN @ ELSE @ + 1]

\* The panel opens a session and the jar keeps its cookie.
Admitted(p) ==
  /\ jar' = [jar EXCEPT ![SiteOf[p]] = p]
  /\ live' = live \cup {p}

\* A login that did not work: the next path, or an error.
LoginFails(c) ==
  IF try[c] < LoginPaths
  THEN /\ try' = [try EXCEPT ![c] = @ + 1]
       /\ Sends(c)
       /\ UNCHANGED <<pc, target, entitled, again, answer, applied, reply>>
  ELSE Return(c, "error")

\* One turn of the loop over the login paths.  Lost, answered with an
\* error, or cut short after its headers, with the cookie in the jar.
Login(c) ==
  /\ pc[c] = "login"
  /\ \/ /\ entitled[c]
        /\ Admitted(target[c])
        /\ Goto(c, "mark") /\ Sends(c)
        /\ UNCHANGED <<target, entitled, try, again, answer, applied, excused,
                       reply, faults>>
     \/ /\ ~entitled[c]
        /\ LoginFails(c)
        /\ UNCHANGED <<jar, live, excused, faults>>
     \/ /\ Fault(c)
        /\ LoginFails(c)
        /\ \/ UNCHANGED <<jar, live>>
           \/ entitled[c] /\ Admitted(target[c])
  /\ UNCHANGED <<authLoggedIn, creds, calls, expired>>

Mark(c) ==
  /\ pc[c] = "mark"
  /\ authLoggedIn' = [authLoggedIn EXCEPT ![target[c]] = TRUE]
  /\ Goto(c, "send")
  /\ UNCHANGED <<jar, live, creds, target, entitled, try, again, answer,
                 applied, sent, excused, reply, budget>>

\* The request proper reaches the panel, or is lost.
Send(c) ==
  /\ pc[c] = "send"
  /\ Goto(c, "receive")
  /\ Sends(c)
  /\ \/ /\ Authorised(target[c])
        /\ applied' = [applied EXCEPT ![c] = @ + 1]
        /\ answer' = [answer EXCEPT ![c] = "done"]
        /\ UNCHANGED <<excused, faults>>
     \/ /\ ~Authorised(target[c])
        /\ answer' = [answer EXCEPT ![c] =
                        IF target[c] \in Rejecting THEN "401" ELSE "page"]
        /\ UNCHANGED <<applied, excused, faults>>
     \/ /\ Fault(c)
        /\ answer' = [answer EXCEPT ![c] = "lost"]
        /\ UNCHANGED applied
  /\ UNCHANGED <<shared, target, entitled, try, again, reply, calls, expired>>

\* The answer never comes, or not in time, or cut short.
LoseAnswer(c) ==
  /\ pc[c] = "receive" /\ answer[c] # "lost"
  /\ answer' = [answer EXCEPT ![c] = "lost"]
  /\ Fault(c)
  /\ UNCHANGED <<shared, pc, target, entitled, try, again, applied, sent,
                 reply, calls, expired>>

\* Mutant: what was lost is sent again, too.
ResendLost(c) == answer[c] \in {"401", "lost"} /\ ~again[c]

\* Mutant: every 401 is followed by another login.
ResendForEver(c) == answer[c] = "401"

\* Only a readable 401 to the first request is followed up.
Resend(c) == answer[c] = "401" /\ ~again[c]

\* The answer is decoded before its status is looked at, so that a page is
\* an error like any other.
Receive(c) ==
  /\ pc[c] = "receive"
  /\ \/ /\ Resend(c)
        /\ Goto(c, "clear")
        /\ answer' = [answer EXCEPT ![c] = "none"]
        /\ UNCHANGED <<target, entitled, try, again, applied, sent, excused,
                       reply, faults>>
     \/ /\ ~Resend(c)
        /\ Return(c, IF answer[c] = "done" THEN "ok" ELSE "error")
        /\ UNCHANGED <<excused, faults>>
  /\ UNCHANGED <<shared, calls, expired>>

\* Mutant: the panel is left marked.
MarkLeft(c) == UNCHANGED authLoggedIn

Unmark(c) == authLoggedIn' = [authLoggedIn EXCEPT ![target[c]] = FALSE]

\* delete(c.authLoggedIn, ...), then ensureLogin once more.
Clear(c) ==
  /\ pc[c] = "clear"
  /\ Unmark(c)
  /\ Goto(c, "check")
  /\ again' = [again EXCEPT ![c] = TRUE]
  /\ UNCHANGED <<jar, live, creds, target, entitled, try, answer, applied,
                 sent, excused, reply, budget>>

\* A panel restarts or its sessions run out.  Whoever is calling it may
\* suffer.
Expire(p) ==
  /\ expired < MaxExpired /\ expired' = expired + 1
  /\ p \in live
  /\ live' = live \ {p}
  /\ excused' = [c \in Callers |->
                   excused[c] \/ (pc[c] # "idle" /\ target[c] = p)]
  /\ UNCHANGED <<authLoggedIn, jar, creds, pc, target, entitled, try, again,
                 answer, applied, sent, reply, calls, faults>>

\* UpdateServer stores other credentials, right or wrong; the client is not
\* told.
Reconfigure(p) ==
  /\ p \in Edited
  /\ creds' = [creds EXCEPT ![p] = BOOLEAN]
  /\ UNCHANGED <<authLoggedIn, jar, live, caller, budget>>

\* The calls are used up.
Rest ==
  /\ calls = MaxCalls /\ \A c \in Callers : pc[c] = "idle"
  /\ UNCHANGED vars

Step(c) ==
  \/ CheckLogin(c) \/ Login(c) \/ Mark(c)
  \/ Send(c) \/ Receive(c) \/ Clear(c)

Next ==
  \/ \E c \in Callers : \/ Step(c) \/ LoseAnswer(c)
                        \/ \E p \in Panels : Call(c, p)
  \/ \E p \in Panels : Expire(p) \/ Reconfigure(p)
  \/ Rest

Spec == Init /\ [][Next]_vars

\* Every request ends when RequestTimeout does, and the mutex is held for
\* a few instructions only.
FairSpec == Spec /\ \A c \in Callers : WF_vars(Step(c))

----------------------------------------------------------------------------
(* Properties. *)

SharedOK ==
  /\ authLoggedIn \in [Panels -> BOOLEAN]
  /\ jar \in [Sites -> Panels \cup {NoPanel}]
  /\ live \subseteq Panels
  /\ creds \in [Panels -> SUBSET BOOLEAN]
  /\ calls \in Nat /\ faults \in Nat /\ expired \in Nat

CallersOK ==
  /\ pc \in [Callers -> {"idle", "check", "login", "mark", "send", "receive",
                         "clear"}]
  /\ target \in [Callers -> Panels \cup {NoPanel}]
  /\ entitled \in [Callers -> BOOLEAN]
  /\ try \in [Callers -> 1..LoginPaths]
  /\ again \in [Callers -> BOOLEAN]
  /\ answer \in [Callers -> {"none", "done", "401", "page", "lost"}]
  /\ applied \in [Callers -> Nat] /\ sent \in [Callers -> Nat]
  /\ excused \in [Callers -> BOOLEAN]
  /\ reply \in [Callers -> {"none", "ok", "error"}]

PlacesOK ==
  \A c \in Callers :
    /\ (pc[c] = "idle") <=> (target[c] = NoPanel)
    /\ (pc[c] = "receive") <=> (answer[c] # "none")

\* Every variable keeps its shape; a caller under way has a panel to call,
\* an idle one keeps nothing of its last call but the reply.
TypeOK == SharedOK /\ CallersOK /\ PlacesOK

\* What RemoteCall sees of a call; it knows no second effect.
Stage(place, effects) ==
  IF place = "idle" THEN "idle"
  ELSE IF effects = 0 THEN "called"
  ELSE IF effects = 1 THEN "applied"
  ELSE "applied twice"

CallState == [c \in Callers |-> Stage(pc[c], applied[c])]

Contract == INSTANCE RemoteCall WITH state <- CallState

\* A call takes effect at most once, and is reported "ok" only when it did,
\* however often it logs in again and resends.
KeepsContract == Contract!Spec

\* What a caller's place and the answer on its way say of the effect.
Effects ==
  \A c \in Callers :
    /\ pc[c] # "receive" \/ answer[c] \in {"401", "page"} => applied[c] = 0
    /\ answer[c] = "done" => applied[c] = 1
    /\ applied[c] <= 1

\* What a caller has spent before this round of logins, and in it.
Before(c) == IF again[c] THEN LoginPaths + 1 ELSE 0
Spent ==
  \A c \in Callers :
    /\ pc[c] \in {"idle", "check"} => sent[c] <= Before(c)
    /\ pc[c] = "login" => sent[c] + 1 <= Before(c) + try[c]
    /\ pc[c] \in {"mark", "send"} => sent[c] <= Before(c) + LoginPaths
    /\ pc[c] \in {"receive", "clear"} => sent[c] <= Before(c) + LoginPaths + 1
    /\ pc[c] \in {"idle", "clear"} => ~again[c]

\* The inductive invariant.
IInv == TypeOK /\ Effects /\ Spent

\* A panel with readable refusals and a cookie of its own.
Sound(p) ==
  /\ p \in Rejecting
  /\ \A q \in Panels \ {p} : SiteOf[q] # SiteOf[p]

\* A session that ended while nobody was calling is renewed behind the
\* callers' backs, however many meet the 401 together: a call to a sound
\* panel with the right credentials fails only if one of its own requests or
\* answers was lost, or the session ended during an unbroken run of calls to
\* that panel.  Calls with a password replaced since, or not yet put right,
\* leave nothing behind that would spoil it.
QuietExpiryIsHidden ==
  [][\A c \in Callers :
       pc[c] # "idle" /\ reply'[c] = "error" =>
         excused'[c] \/ ~entitled[c] \/ ~Sound(target[c])]_vars

\* No call costs more than two requests and two rounds of logins, six
\* requests that may each run into RequestTimeout.
SixRequestsAtMost == \A c \in Callers : sent[c] <= MaxSent

\* Every call returns, two panels that keep overwriting each other's cookie
\* included.
CallsReturn == \A c \in Callers : pc[c] # "idle" ~> pc[c] = "idle"
=============================================================================
