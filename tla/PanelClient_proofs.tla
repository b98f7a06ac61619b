------------------------- MODULE PanelClient_proofs -------------------------
(***************************************************************************)
(* Proofs about PanelClient for any number of callers and panels: it       *)
(* implements RemoteCall, no call sends more than a fixed number of        *)
(* requests, and a session that ended while nobody called is renewed       *)
(* behind the callers' backs.                                              *)
(***************************************************************************)
EXTENDS PanelClient, TLAPS

----------------------------------------------------------------------------
(* The pieces of a step.                                                   *)

LEMMA SendsType ==
  ASSUME CallersOK, NEW c \in Callers, Sends(c)
  PROVE  /\ sent' \in [Callers -> Nat]
         /\ sent'[c] <= sent[c] + 1
         /\ \A d \in Callers : d # c => sent'[d] = sent[d]
<1>1. sent[c] \in Nat
  BY DEF CallersOK
<1>2. (IF sent[c] > MaxSent THEN sent[c] ELSE sent[c] + 1) \in Nat
  BY <1>1
<1> QED
  BY <1>1, <1>2 DEF CallersOK, Sends

LEMMA AdmittedType ==
  ASSUME SharedOK, NEW p \in Panels, Admitted(p)
  PROVE  jar' \in [Sites -> Panels \cup {NoPanel}] /\ live' \subseteq Panels
BY DEF SharedOK, Admitted, Sites

LEMMA FaultType ==
  ASSUME SharedOK, CallersOK, NEW c \in Callers, Fault(c)
  PROVE  faults' \in Nat /\ excused' \in [Callers -> BOOLEAN]
BY DEF SharedOK, CallersOK, Fault

LEMMA ReturnType ==
  ASSUME CallersOK, PlacesOK, NEW c \in Callers, NEW r \in {"ok", "error"},
         Return(c, r), excused' \in [Callers -> BOOLEAN]
  PROVE  CallersOK' /\ PlacesOK'
<1>1. 1 \in 1..LoginPaths
  BY ClientAssumption
<1>2. /\ pc' \in [Callers -> {"idle", "check", "login", "mark", "send",
                             "receive", "clear"}]
      /\ target' \in [Callers -> Panels \cup {NoPanel}]
      /\ answer' \in [Callers -> {"none", "done", "401", "page", "lost"}]
      /\ reply' \in [Callers -> {"none", "ok", "error"}]
  BY DEF CallersOK, Return, Goto
<1>3. /\ try' \in [Callers -> 1..LoginPaths]
      /\ applied' \in [Callers -> Nat] /\ sent' \in [Callers -> Nat]
  BY <1>1 DEF CallersOK, Return
<1>4. again' \in [Callers -> BOOLEAN] /\ entitled' \in [Callers -> BOOLEAN]
  BY DEF CallersOK, Return
<1>5. CallersOK'
  BY <1>2, <1>3, <1>4 DEF CallersOK
<1>6. PlacesOK'
  BY DEF CallersOK, PlacesOK, Return, Goto
<1> QED
  BY <1>5, <1>6

LEMMA Underway ==
  ASSUME CallersOK, PlacesOK, NEW c \in Callers, pc[c] # "idle"
  PROVE  target[c] \in Panels
BY DEF CallersOK, PlacesOK

----------------------------------------------------------------------------
(* Type correctness.                                                       *)

LEMMA TypeInit == Init => TypeOK
BY ClientAssumption
DEF Init, TypeOK, SharedOK, CallersOK, PlacesOK, Sites

LEMMA LoginType ==
  ASSUME TypeOK, NEW c \in Callers, Login(c)
  PROVE  TypeOK'
<1> USE ClientAssumption DEF TypeOK
<1>1. target[c] \in Panels /\ pc[c] = "login"
  BY Underway DEF Login
<1>2. UNCHANGED <<authLoggedIn, creds, calls, expired>>
  BY DEF Login
<1>3. CASE /\ Admitted(target[c]) /\ Goto(c, "mark") /\ Sends(c)
           /\ UNCHANGED <<target, entitled, try, again, answer, applied,
                          excused, reply, faults>>
  <2>1. SharedOK'
    BY <1>1, <1>2, <1>3, AdmittedType DEF SharedOK
  <2>2. CallersOK' /\ PlacesOK'
    BY <1>1, <1>3, SendsType DEF CallersOK, PlacesOK, Goto
  <2> QED
    BY <2>1, <2>2
<1>4. ASSUME LoginFails(c), excused' \in [Callers -> BOOLEAN]
      PROVE  CallersOK' /\ PlacesOK'
  <2>1. CASE try[c] < LoginPaths
    <3>1. /\ try' = [try EXCEPT ![c] = try[c] + 1]
          /\ Sends(c)
          /\ UNCHANGED <<pc, target, entitled, again, answer, applied, reply>>
      BY <1>4, <2>1 DEF LoginFails
    <3>2. try[c] + 1 \in 1..LoginPaths
      BY <2>1 DEF CallersOK
    <3>3. try' \in [Callers -> 1..LoginPaths]
      BY <3>1, <3>2 DEF CallersOK
    <3> QED
      BY <1>4, <3>1, <3>3, SendsType DEF CallersOK, PlacesOK
  <2>2. CASE ~(try[c] < LoginPaths)
    BY <1>4, <2>2, ReturnType DEF LoginFails
  <2> QED
    BY <2>1, <2>2
<1>5. CASE LoginFails(c) /\ UNCHANGED <<jar, live, excused, faults>>
  <2>1. SharedOK'
    BY <1>2, <1>5 DEF SharedOK
  <2> QED
    BY <2>1, <1>4, <1>5 DEF CallersOK
<1>6. CASE /\ Fault(c) /\ LoginFails(c)
           /\ \/ UNCHANGED <<jar, live>>
              \/ entitled[c] /\ Admitted(target[c])
  <2>1. faults' \in Nat /\ excused' \in [Callers -> BOOLEAN]
    BY <1>6, FaultType
  <2>2. jar' \in [Sites -> Panels \cup {NoPanel}] /\ live' \subseteq Panels
    BY <1>1, <1>6, AdmittedType DEF SharedOK
  <2>3. SharedOK'
    BY <1>2, <2>1, <2>2 DEF SharedOK
  <2> QED
    BY <2>1, <2>3, <1>4, <1>6
<1> QED
  BY <1>3, <1>5, <1>6 DEF Login

LEMMA SendType ==
  ASSUME TypeOK, NEW c \in Callers, Send(c)
  PROVE  TypeOK'
<1> USE ClientAssumption DEF TypeOK
<1> DEFINE Verdict == IF target[c] \in Rejecting THEN "401" ELSE "page"
<1>1. faults' \in Nat /\ excused' \in [Callers -> BOOLEAN]
  BY FaultType DEF Send, SharedOK, CallersOK
<1>2. SharedOK'
  BY <1>1 DEF Send, SharedOK, shared
<1>3. \E a \in {"done", "401", "page", "lost"} :
        answer' = [answer EXCEPT ![c] = a]
  <2>1. Verdict \in {"401", "page"}
    OBVIOUS
  <2> QED
    BY <2>1 DEF Send
<1>4. applied' \in [Callers -> Nat]
  BY DEF Send, CallersOK
<1>5. /\ pc[c] = "send" /\ pc' = [pc EXCEPT ![c] = "receive"]
      /\ Sends(c) /\ UNCHANGED <<target, entitled, try, again, reply>>
  BY DEF Send, Goto
<1>6. CallersOK'
  BY <1>1, <1>3, <1>4, <1>5, SendsType DEF CallersOK
<1>7. PlacesOK'
  BY <1>3, <1>5 DEF PlacesOK, CallersOK
<1> QED
  BY <1>2, <1>6, <1>7

LEMMA ReceiveType ==
  ASSUME TypeOK, NEW c \in Callers, Receive(c)
  PROVE  TypeOK'
<1> USE DEF TypeOK
<1>1. SharedOK'
  BY DEF Receive, SharedOK, shared
<1>2. CASE Resend(c)
  <2>1. CallersOK' /\ PlacesOK'
    BY <1>2 DEF Receive, Goto, CallersOK, PlacesOK
  <2> QED
    BY <1>1, <2>1
<1>3. CASE ~Resend(c)
  <2>1. PICK r \in {"ok", "error"} : Return(c, r)
    BY <1>3 DEF Receive
  <2>2. UNCHANGED excused
    BY <1>3 DEF Receive
  <2> QED
    BY <1>1, <2>1, <2>2, ReturnType DEF CallersOK
<1> QED
  BY <1>2, <1>3

LEMMA TypeStep ==
  ASSUME TypeOK, [Next]_vars
  PROVE  TypeOK'
<1> USE ClientAssumption DEF TypeOK, SharedOK, CallersOK, PlacesOK
<1>1. ASSUME NEW c \in Callers, CheckLogin(c) PROVE TypeOK'
  BY <1>1 DEF CheckLogin, Goto, shared, budget
<1>2. ASSUME NEW c \in Callers, Mark(c) PROVE TypeOK'
  BY <1>2, Underway DEF Mark, Goto, budget
<1>3. ASSUME NEW c \in Callers, Clear(c) PROVE TypeOK'
  BY <1>3, Underway DEF Clear, Unmark, Goto, budget
<1>4. ASSUME NEW c \in Callers, LoseAnswer(c) PROVE TypeOK'
  BY <1>4 DEF LoseAnswer, Fault, shared
<1>5. ASSUME NEW c \in Callers, NEW p \in Panels, Call(c, p) PROVE TypeOK'
  BY <1>5 DEF Call, Goto, Turmoil, shared
<1>6. ASSUME NEW p \in Panels, Expire(p) PROVE TypeOK'
  BY <1>6 DEF Expire
<1>7. CASE UNCHANGED vars
  BY <1>7 DEF vars, shared, caller, budget
<1>8. ASSUME NEW p \in Panels, Reconfigure(p) PROVE TypeOK'
  BY <1>8 DEF Reconfigure, caller, budget
<1> QED
  BY <1>1, <1>2, <1>3, <1>4, <1>5, <1>6, <1>7, <1>8,
     LoginType, SendType, ReceiveType DEF Next, Step, Rest

\* The model is type correct, for any number of callers and panels.
THEOREM TypeCorrect == Spec => []TypeOK
BY TypeInit, TypeStep, PTL DEF Spec

----------------------------------------------------------------------------
(* The effect of a call follows from its place and its answer.             *)

LEMMA EffectsStep ==
  ASSUME TypeOK, Effects, [Next]_vars
  PROVE  Effects'
<1> USE DEF TypeOK, SharedOK, CallersOK, PlacesOK, Effects
<1>1. ASSUME NEW c \in Callers, CheckLogin(c) PROVE Effects'
  BY <1>1 DEF CheckLogin, Goto
<1>2. ASSUME NEW c \in Callers, Login(c) PROVE Effects'
  <2>1. CASE Return(c, "error")
    BY <2>1 DEF Return, Goto
  <2>2. CASE UNCHANGED <<pc, answer, applied>>
    BY <2>2
  <2>3. CASE Goto(c, "mark") /\ UNCHANGED <<answer, applied>>
    BY <1>2, <2>3 DEF Login, Goto
  <2> QED
    BY <1>2, <2>1, <2>2, <2>3 DEF Login, LoginFails
<1>3. ASSUME NEW c \in Callers, Mark(c) PROVE Effects'
  BY <1>3 DEF Mark, Goto
<1>4. ASSUME NEW c \in Callers, Send(c) PROVE Effects'
  <2>1. applied[c] = 0 /\ pc' = [pc EXCEPT ![c] = "receive"]
    BY <1>4 DEF Send, Goto
  <2>2. CASE /\ applied' = [applied EXCEPT ![c] = applied[c] + 1]
             /\ answer' = [answer EXCEPT ![c] = "done"]
    BY <2>1, <2>2
  <2>3. ASSUME NEW a \in {"401", "page", "lost"}, UNCHANGED applied,
               answer' = [answer EXCEPT ![c] = a]
        PROVE  Effects'
    BY <2>1, <2>3
  <2> QED
    BY <1>4, <2>2, <2>3 DEF Send
<1>5. ASSUME NEW c \in Callers, Receive(c) PROVE Effects'
  <2>1. CASE Resend(c)
    BY <1>5, <2>1 DEF Receive, Resend, Goto
  <2>2. CASE ~Resend(c)
    BY <1>5, <2>2 DEF Receive, Return, Goto
  <2> QED
    BY <2>1, <2>2
<1>6. ASSUME NEW c \in Callers, Clear(c) PROVE Effects'
  BY <1>6 DEF Clear, Goto
<1>7. ASSUME NEW c \in Callers, LoseAnswer(c) PROVE Effects'
  BY <1>7 DEF LoseAnswer
<1>8. ASSUME NEW c \in Callers, NEW p \in Panels, Call(c, p) PROVE Effects'
  BY <1>8 DEF Call, Goto
<1>9. CASE UNCHANGED <<pc, answer, applied>>
  BY <1>9
<1> QED
  BY <1>1, <1>2, <1>3, <1>4, <1>5, <1>6, <1>7, <1>8, <1>9
  DEF Next, Step, Rest, Expire, Reconfigure, vars, caller

----------------------------------------------------------------------------
(* The requests of a call are counted by its place.                        *)

LEMMA SpentStep ==
  ASSUME TypeOK, Spent, [Next]_vars
  PROVE  Spent'
<1> USE ClientAssumption DEF TypeOK, CallersOK, Spent, Before
<1>1. ASSUME NEW c \in Callers, CheckLogin(c) PROVE Spent'
  BY <1>1 DEF CheckLogin, Goto
<1>2. ASSUME NEW c \in Callers, Login(c) PROVE Spent'
  <2>1. CASE Return(c, "error")
    BY <2>1 DEF Return, Goto
  <2>2. CASE /\ try' = [try EXCEPT ![c] = try[c] + 1] /\ Sends(c)
             /\ UNCHANGED <<pc, again>>
    BY <1>2, <2>2, SendsType DEF Login
  <2>3. CASE Goto(c, "mark") /\ Sends(c) /\ UNCHANGED <<try, again>>
    BY <1>2, <2>3, SendsType DEF Login, Goto
  <2> QED
    BY <1>2, <2>1, <2>2, <2>3 DEF Login, LoginFails
<1>3. ASSUME NEW c \in Callers, Mark(c) PROVE Spent'
  BY <1>3 DEF Mark, Goto
<1>4. ASSUME NEW c \in Callers, Send(c) PROVE Spent'
  <2>1. Goto(c, "receive") /\ Sends(c) /\ UNCHANGED <<try, again>>
    BY <1>4 DEF Send
  <2> QED
    BY <1>4, <2>1, SendsType DEF Send, Goto
<1>5. ASSUME NEW c \in Callers, Receive(c) PROVE Spent'
  <2>1. CASE Resend(c)
    BY <1>5, <2>1 DEF Receive, Resend, Goto
  <2>2. CASE ~Resend(c)
    BY <1>5, <2>2 DEF Receive, Return, Goto
  <2> QED
    BY <2>1, <2>2
<1>6. ASSUME NEW c \in Callers, Clear(c) PROVE Spent'
  BY <1>6 DEF Clear, Goto
<1>7. ASSUME NEW c \in Callers, NEW p \in Panels, Call(c, p) PROVE Spent'
  BY <1>7 DEF Call, Goto
<1>8. CASE UNCHANGED <<pc, try, again, sent>>
  BY <1>8
<1> QED
  BY <1>1, <1>2, <1>3, <1>4, <1>5, <1>6, <1>7, <1>8
  DEF Next, Step, Rest, LoseAnswer, Expire, Reconfigure, vars, caller

----------------------------------------------------------------------------
(* The theorems.                                                           *)

\* The inductive invariant holds, for any number of callers and panels.
THEOREM InvariantHolds == Spec => []IInv
<1>1. Init => IInv
  BY TypeInit, ClientAssumption DEF Init, IInv, Effects, Spent, Before
<1>2. IInv /\ [Next]_vars => IInv'
  BY TypeStep, EffectsStep, SpentStep DEF IInv
<1> QED
  BY <1>1, <1>2, PTL DEF Spec

\* No call costs more than two requests and two rounds of logins.
THEOREM RequestsBounded == Spec => []SixRequestsAtMost
<1>1. IInv => SixRequestsAtMost
  <2> SUFFICES ASSUME IInv, NEW c \in Callers PROVE sent[c] <= MaxSent
    BY DEF SixRequestsAtMost
  <2> USE ClientAssumption DEF IInv, TypeOK, CallersOK, Spent, MaxSent
  <2>1. Before(c) \in 0..(LoginPaths + 1) /\ try[c] \in 1..LoginPaths
    BY DEF Before
  <2>2. sent[c] \in Nat /\ sent[c] <= Before(c) + LoginPaths + 1
    BY <2>1
  <2> QED
    BY <2>1, <2>2
<1> QED
  BY <1>1, InvariantHolds, PTL

\* A step of caller c shows as a change of its own stage.
LEMMA StageChange ==
  ASSUME CallersOK, NEW c \in Callers, NEW x,
         \A d \in Callers : d # c => pc'[d] = pc[d] /\ applied'[d] = applied[d],
         Stage(pc'[c], applied'[c]) = x
  PROVE  CallState' = [CallState EXCEPT ![c] = x]
<1> DEFINE St(d) == Stage(pc[d], applied[d])
<1>1. ASSUME NEW d \in Callers PROVE St(d)' = IF d = c THEN x ELSE St(d)
  <2>1. CASE d = c
    BY <2>1
  <2>2. CASE d # c
    BY <2>2
  <2> QED
    BY <2>1, <2>2
<1>2. /\ CallState = [d \in Callers |-> St(d)]
      /\ CallState' = [d \in Callers |-> St(d)']
  BY DEF CallState
<1> HIDE DEF St
<1> QED
  BY <1>1, <1>2

\* The client implements RemoteCall: whatever is lost, expires or is tried
\* again, a call takes effect at most once, and "ok" means it did.
THEOREM ContractKept == Spec => KeepsContract
<1>1. Init => Contract!Init
  BY DEF Init, Contract!Init, CallState, Stage
<1>2. IInv /\ [Next]_vars => [Contract!Next]_(Contract!vars)
  <2> SUFFICES ASSUME IInv, [Next]_vars
               PROVE  Contract!Next \/ UNCHANGED Contract!vars
    OBVIOUS
  <2> USE DEF IInv, TypeOK, CallersOK, PlacesOK, Effects
  <2>0. ASSUME UNCHANGED <<pc, applied, reply>>
        PROVE  UNCHANGED Contract!vars
    BY <2>0 DEF Contract!vars, CallState
  <2>1. ASSUME NEW c \in Callers, NEW label \in {"check", "login", "mark",
                                      "send", "receive", "clear"},
               pc[c] # "idle", Goto(c, label), UNCHANGED <<applied, reply>>
        PROVE  UNCHANGED Contract!vars
    <3>1. ASSUME NEW d \in Callers
          PROVE  Stage(pc[d], applied[d])' = Stage(pc[d], applied[d])
      BY <2>1 DEF Goto, Stage
    <3>2. CallState' = CallState
      BY <3>1 DEF CallState
    <3> QED
      BY <2>1, <3>2 DEF Contract!vars
  <2>2. ASSUME NEW c \in Callers, NEW r \in {"ok", "error"},
               pc[c] # "idle", Return(c, r), r = "ok" => applied[c] = 1
        PROVE  Contract!Return(c)
    <3>1. CallState[c] # "idle" /\ (r = "ok" => CallState[c] = "applied")
      BY <2>2 DEF CallState, Stage
    <3>2. /\ Stage(pc'[c], applied'[c]) = "idle"
          /\ \A d \in Callers : d # c => /\ pc'[d] = pc[d]
                                         /\ applied'[d] = applied[d]
      BY <2>2 DEF Return, Goto, Stage
    <3>3. CallState' = [CallState EXCEPT ![c] = "idle"]
      BY <3>2, StageChange
    <3>4. reply' = [reply EXCEPT ![c] = r]
      BY <2>2 DEF Return
    <3> QED
      BY <3>1, <3>3, <3>4 DEF Contract!Return
  <2>3. ASSUME NEW c \in Callers, NEW p \in Panels, Call(c, p)
        PROVE  Contract!Call(c)
    <3>1. CallState[c] = "idle"
      BY <2>3 DEF Call, CallState, Stage
    <3>2. /\ Stage(pc'[c], applied'[c]) = "called"
          /\ \A d \in Callers : d # c => /\ pc'[d] = pc[d]
                                         /\ applied'[d] = applied[d]
      BY <2>3 DEF Call, Goto, Stage
    <3>3. CallState' = [CallState EXCEPT ![c] = "called"]
      BY <3>2, StageChange
    <3> QED
      BY <2>3, <3>1, <3>3 DEF Call, Contract!Call
  <2>4. ASSUME NEW c \in Callers, Send(c)
        PROVE  Contract!Apply(c) \/ UNCHANGED Contract!vars
    <3>1. CASE UNCHANGED applied
      BY <2>4, <3>1, <2>1 DEF Send
    <3>2. CASE applied' = [applied EXCEPT ![c] = applied[c] + 1]
      <4>1. CallState[c] = "called"
        BY <2>4 DEF Send, CallState, Stage
      <4>2. /\ Stage(pc'[c], applied'[c]) = "applied"
            /\ \A d \in Callers : d # c => /\ pc'[d] = pc[d]
                                           /\ applied'[d] = applied[d]
        BY <2>4, <3>2 DEF Send, Goto, Stage
      <4>3. CallState' = [CallState EXCEPT ![c] = "applied"]
        BY <4>2, StageChange
      <4> QED
        BY <2>4, <4>1, <4>3 DEF Send, Contract!Apply
    <3> QED
      BY <2>4, <3>1, <3>2 DEF Send
  <2>5. ASSUME NEW c \in Callers, Step(c)
        PROVE  Contract!Apply(c) \/ Contract!Return(c)
               \/ UNCHANGED Contract!vars
    <3>1. CASE CheckLogin(c)
      BY <3>1, <2>1 DEF CheckLogin
    <3>2. CASE Login(c)
      BY <3>2, <2>0, <2>1, <2>2 DEF Login, LoginFails
    <3>3. CASE Mark(c) \/ Clear(c)
      BY <3>3, <2>1 DEF Mark, Clear
    <3>4. CASE Receive(c)
      BY <3>4, <2>1, <2>2 DEF Receive
    <3> QED
      BY <2>4, <2>5, <3>1, <3>2, <3>3, <3>4 DEF Step
  <2>6. ASSUME NEW c \in Callers, LoseAnswer(c)
        PROVE  UNCHANGED Contract!vars
    BY <2>6, <2>0 DEF LoseAnswer
  <2>7. ASSUME NEW p \in Panels, Expire(p) \/ Reconfigure(p)
        PROVE  UNCHANGED Contract!vars
    BY <2>7, <2>0 DEF Expire, Reconfigure, caller
  <2>8. CASE UNCHANGED vars
    BY <2>8, <2>0 DEF vars, caller
  <2> QED
    BY <2>3, <2>5, <2>6, <2>7, <2>8 DEF Next, Rest, Contract!Next
<1> QED
  BY <1>1, <1>2, InvariantHolds, PTL DEF Spec, KeepsContract, Contract!Spec
----------------------------------------------------------------------------
(* A quiet expiry is hidden.  A session ends only under excused callers,   *)
(* so that whoever is not excused finds the panel's session alive from the *)
(* moment anybody has logged in for it.                                    *)

\* The replies and the answers on their way.
Excuses ==
  \A c \in Callers :
    /\ pc[c] # "idle" => reply[c] = "none"
    /\ answer[c] = "lost" => excused[c]
    /\ answer[c] = "page" => target[c] \notin Rejecting

\* Nobody overwrites the cookie of a sound panel.
OwnCookie == \A p \in live : Sound(p) => jar[SiteOf[p]] = p

\* Caller c has nothing to blame a failure on.
Blameless(c) ==
  /\ pc[c] # "idle" /\ ~excused[c]
  /\ Sound(target[c])

\* Around caller c: whoever is about to mark its panel has a live session
\* there, and after the caller's own second login the mark is true.
Assured(c) ==
  /\ \A d \in Callers : pc[d] = "mark" /\ target[d] = target[c]
                          => target[c] \in live
  /\ again[c] => /\ authLoggedIn[target[c]] => target[c] \in live
                 /\ pc[c] \in {"mark", "send"} => target[c] \in live
                 /\ answer[c] # "401"

Renewed == \A c \in Callers : Blameless(c) => Assured(c)

QInv == IInv /\ Excuses /\ OwnCookie /\ Renewed

LEMMA ExcusesStep ==
  ASSUME TypeOK, Excuses, [Next]_vars
  PROVE  Excuses'
<1> USE DEF TypeOK, SharedOK, CallersOK, PlacesOK, Excuses
<1>1. ASSUME NEW c \in Callers, NEW r, pc[c] # "idle", Return(c, r),
             excused' = excused \/ Fault(c)
      PROVE  Excuses'
  BY <1>1 DEF Return, Goto, Fault
<1>2. ASSUME NEW c \in Callers, CheckLogin(c) \/ Mark(c) \/ Clear(c)
      PROVE  Excuses'
  BY <1>2 DEF CheckLogin, Mark, Clear, Goto
<1>3. ASSUME NEW c \in Callers, Login(c) PROVE Excuses'
  <2>1. CASE Return(c, "error")
    BY <1>1, <1>3, <2>1 DEF Login
  <2>2. CASE UNCHANGED <<pc, target, answer, reply>>
    BY <1>3, <2>2 DEF Login, Fault
  <2>3. CASE Goto(c, "mark") /\ UNCHANGED <<target, answer, excused, reply>>
    BY <1>3, <2>3 DEF Login, Goto
  <2> QED
    BY <1>3, <2>1, <2>2, <2>3 DEF Login, LoginFails
<1>4. ASSUME NEW c \in Callers, Send(c) PROVE Excuses'
  BY <1>4 DEF Send, Goto, Fault
<1>5. ASSUME NEW c \in Callers, Receive(c) PROVE Excuses'
  <2>1. CASE Resend(c)
    BY <1>5, <2>1 DEF Receive, Goto
  <2>2. CASE ~Resend(c)
    BY <1>1, <1>5, <2>2 DEF Receive
  <2> QED
    BY <2>1, <2>2
<1>6. ASSUME NEW c \in Callers, LoseAnswer(c) PROVE Excuses'
  BY <1>6 DEF LoseAnswer, Fault
<1>7. ASSUME NEW c \in Callers, NEW p \in Panels, Call(c, p) PROVE Excuses'
  BY <1>7 DEF Call, Goto
<1>8. ASSUME NEW p \in Panels, Expire(p) PROVE Excuses'
  BY <1>8 DEF Expire
<1>9. CASE UNCHANGED caller
  BY <1>9 DEF caller
<1> QED
  BY <1>2, <1>3, <1>4, <1>5, <1>6, <1>7, <1>8, <1>9
  DEF Next, Step, Rest, Reconfigure, vars

LEMMA OwnCookieStep ==
  ASSUME TypeOK, OwnCookie, [Next]_vars
  PROVE  OwnCookie'
<1> USE DEF TypeOK, SharedOK, CallersOK, PlacesOK, OwnCookie
<1>1. ASSUME NEW c \in Callers, Login(c) PROVE OwnCookie'
  <2>1. target[c] \in Panels
    BY <1>1, Underway DEF Login
  <2>2. CASE Admitted(target[c])
    BY <2>1, <2>2 DEF Admitted, Sound, Sites
  <2> QED
    BY <1>1, <2>2 DEF Login
<1>2. ASSUME NEW p \in Panels, Expire(p) PROVE OwnCookie'
  BY <1>2 DEF Expire
<1>3. CASE UNCHANGED <<jar, live>>
  BY <1>3
<1> QED
  BY <1>1, <1>2, <1>3
  DEF Next, Step, Rest, Reconfigure, vars, shared, CheckLogin, Mark, Send,
      Receive, Clear, LoseAnswer, Call

LEMMA RenewedStep ==
  ASSUME TypeOK, Spent, Excuses, OwnCookie, Renewed, [Next]_vars
  PROVE  Renewed'
<1> USE DEF TypeOK, SharedOK, CallersOK, PlacesOK, Renewed, Blameless, Assured, shared
<1>1. ASSUME NEW c \in Callers, CheckLogin(c) PROVE Renewed'
  BY <1>1 DEF CheckLogin, Goto
<1>2. ASSUME NEW c \in Callers, Login(c) PROVE Renewed'
  <2>1. target[c] \in Panels /\ live \subseteq live'
    BY <1>2, Underway DEF Login, Admitted
  <2>2. CASE Return(c, "error")
    BY <1>2, <2>1, <2>2 DEF Login, Return, Goto, Fault
  <2>3. CASE UNCHANGED <<pc, target, again, answer>>
    BY <1>2, <2>1, <2>3 DEF Login, Fault
  <2>4. CASE /\ Admitted(target[c]) /\ Goto(c, "mark")
             /\ UNCHANGED <<target, again, answer, excused>>
    BY <1>2, <2>1, <2>4 DEF Login, Goto, Admitted
  <2> QED
    BY <1>2, <2>2, <2>3, <2>4 DEF Login, LoginFails
<1>3. ASSUME NEW c \in Callers, Mark(c) PROVE Renewed'
  BY <1>3, Underway DEF Mark, Goto
<1>4. ASSUME NEW c \in Callers, Send(c) PROVE Renewed'
  BY <1>4, Underway DEF Send, Goto, Fault, OwnCookie, Authorised
<1>5. ASSUME NEW c \in Callers, Receive(c) PROVE Renewed'
  <2>1. CASE Resend(c)
    BY <1>5, <2>1 DEF Receive, Resend, Goto
  <2>2. CASE ~Resend(c)
    BY <1>5, <2>2 DEF Receive, Return, Goto
  <2> QED
    BY <2>1, <2>2
<1>6. ASSUME NEW c \in Callers, Clear(c) PROVE Renewed'
  BY <1>6, Underway DEF Clear, Unmark, Goto
<1>7. ASSUME NEW c \in Callers, LoseAnswer(c) PROVE Renewed'
  <2>1. /\ excused'[c]
        /\ \A d \in Callers : d # c => /\ answer'[d] = answer[d]
                                       /\ excused'[d] = excused[d]
    BY <1>7 DEF LoseAnswer, Fault
  <2>2. UNCHANGED <<authLoggedIn, live, pc, target, again>>
    BY <1>7 DEF LoseAnswer
  <2> QED
    BY <2>1, <2>2
<1>8. ASSUME NEW c \in Callers, NEW p \in Panels, Call(c, p) PROVE Renewed'
  <2>1. ~again[c] /\ pc[c] = "idle"
    BY <1>8 DEF Spent, Call
  <2>2. /\ pc' = [pc EXCEPT ![c] = "check"]
        /\ target' = [target EXCEPT ![c] = p]
        /\ excused' = [excused EXCEPT ![c] = Turmoil(p)]
        /\ UNCHANGED <<authLoggedIn, live, again, answer>>
    BY <1>8 DEF Call, Goto
  <2> SUFFICES ASSUME NEW b \in Callers, Blameless(b)'
               PROVE  Assured(b)'
    OBVIOUS
  <2>3. CASE b = c
    <3>1. ~Turmoil(p) /\ target'[b] = p /\ Sound(p)
      BY <2>2, <2>3
    <3>2. ASSUME NEW d \in Callers, pc'[d] = "mark", target'[d] = p
          PROVE  p \in live
      BY <2>2, <3>1, <3>2 DEF Turmoil
    <3> QED
      BY <2>1, <2>2, <2>3, <3>1, <3>2
  <2>4. CASE b # c
    BY <2>2, <2>4
  <2> QED
    BY <2>3, <2>4
<1>9. ASSUME NEW p \in Panels, Expire(p) PROVE Renewed'
  BY <1>9 DEF Expire
<1>10. CASE UNCHANGED <<authLoggedIn, live, pc, target, again, answer, excused>>
  BY <1>10
<1> QED
  BY <1>1, <1>2, <1>3, <1>4, <1>5, <1>6, <1>7, <1>8, <1>9, <1>10
  DEF Next, Step, Rest, Reconfigure, vars, caller

\* A call to a sound panel with the right credentials fails only if its own
\* request or answer was lost, or the session ended under an unbroken run of
\* calls: for any number of callers, panels, faults and expiries.
THEOREM QuietExpirySafe == Spec => QuietExpiryIsHidden
<1>1. Init => QInv
  BY TypeInit, ClientAssumption
  DEF Init, QInv, IInv, Effects, Spent, Before, Excuses, OwnCookie, Renewed, Blameless,
      Assured
<1>2. QInv /\ [Next]_vars => QInv'
  BY TypeStep, EffectsStep, SpentStep, ExcusesStep, OwnCookieStep, RenewedStep
  DEF QInv, IInv
<1>3. QInv /\ [Next]_vars =>
        [\A c \in Callers :
           pc[c] # "idle" /\ reply'[c] = "error" =>
             excused'[c] \/ ~entitled[c] \/ ~Sound(target[c])]_vars
  <2> SUFFICES ASSUME QInv, Next, NEW c \in Callers,
                      pc[c] # "idle", reply'[c] = "error"
               PROVE  excused'[c] \/ ~entitled[c] \/ ~Sound(target[c])
    OBVIOUS
  <2> USE DEF QInv, IInv, TypeOK, SharedOK, CallersOK, PlacesOK, Excuses
  <2>1. reply[c] # "error"
    OBVIOUS
  <2>2. CASE Login(c)
    BY <2>1, <2>2 DEF Login, Fault
  <2>3. CASE Receive(c)
    <3>1. ~Resend(c) /\ answer[c] # "done" /\ UNCHANGED excused
      BY <2>1, <2>3 DEF Receive, Return
    <3>2. CASE answer[c] = "lost"
      BY <3>1, <3>2
    <3>3. CASE answer[c] = "page"
      BY <3>3 DEF Sound
    <3>4. CASE answer[c] = "401" /\ again[c]
      BY <3>1, <3>4 DEF Renewed, Blameless, Assured
    <3> QED
      BY <2>3, <3>1, <3>2, <3>3, <3>4 DEF Receive, Resend
  <2>4. ASSUME NEW d \in Callers, d # c, Step(d) PROVE reply'[c] = reply[c]
    BY <2>4
    DEF Step, CheckLogin, Login, LoginFails, Mark, Send, Receive, Clear, Return
  <2>5. CASE CheckLogin(c) \/ Mark(c) \/ Send(c) \/ Clear(c)
    BY <2>1, <2>5 DEF CheckLogin, Mark, Send, Clear
  <2>6. ASSUME NEW d \in Callers, NEW p \in Panels, Call(d, p)
        PROVE  reply'[c] # "error"
    BY <2>1, <2>6 DEF Call
  <2> QED
    BY <2>1, <2>2, <2>3, <2>4, <2>5, <2>6
    DEF Next, Step, LoseAnswer, Expire, Reconfigure, Rest, vars, caller
<1> QED
  BY <1>1, <1>2, <1>3, PTL DEF Spec, QuietExpiryIsHidden
=============================================================================
