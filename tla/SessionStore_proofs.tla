------------------------- MODULE SessionStore_proofs -------------------------
(***************************************************************************)
(* Proofs about SessionStore for any number of requests, ids and moments,  *)
(* and any lifetimes: a session is served in its time only, one removed    *)
(* never comes back, and touching prolongs nothing.                        *)
(***************************************************************************)
EXTENDS SessionStore, TLAPS

----------------------------------------------------------------------------
(* Type correctness.  Copies of sessions are sessions.                     *)

LEMMA NewSessionType ==
  ASSUME clock \in Nat, NEW remember \in BOOLEAN
  PROVE  /\ NewSession(remember) \in Session
         /\ Plausible(NewSession(remember))
BY SessionAssumption DEF NewSession, Lifetime, Session, Plausible

LEMMA TouchedType ==
  ASSUME TypeOK, NEW r \in Requests, pc[r] = "touch"
  PROVE  Touched(r) \in Session \cup {NoSession}
BY SessionAssumption DEF TypeOK, Touched, Session

LEMMA TypeInit == Init => TypeOK
BY SessionAssumption DEF Init, TypeOK, Labels

LEMMA TypeStep == TypeOK /\ [Next]_vars => TypeOK'
<1> SUFFICES ASSUME TypeOK, [Next]_vars PROVE TypeOK'
  OBVIOUS
<1> USE SessionAssumption DEF TypeOK, Labels
<1>1. ASSUME NEW r \in Requests, Login(r) PROVE TypeOK'
  BY <1>1, NewSessionType DEF Login, Arrives, Goto, Fresh
<1>2. ASSUME NEW r \in Requests, Store(r) PROVE TypeOK'
  BY <1>2 DEF Store, Answer, Goto
<1>3. ASSUME NEW r \in Requests, Visit(r) PROVE TypeOK'
  BY <1>3 DEF Visit, Arrives, Goto
<1>4. ASSUME NEW r \in Requests, Get(r) PROVE TypeOK'
  BY <1>4 DEF Get, Answer, Goto
<1>5. ASSUME NEW r \in Requests, CheckExpiry(r) PROVE TypeOK'
  BY <1>5 DEF CheckExpiry, Goto, Expired
<1>6. ASSUME NEW r \in Requests, CheckIdle(r) PROVE TypeOK'
  BY <1>6 DEF CheckIdle, Goto, IdleTooLong
<1>7. ASSUME NEW r \in Requests, Drop(r) PROVE TypeOK'
  BY <1>7 DEF Drop, Answer, Goto
<1>8. ASSUME NEW r \in Requests, Touch(r) PROVE TypeOK'
  BY <1>8, TouchedType DEF Touch, Goto
<1>9. ASSUME NEW r \in Requests, Serve(r) PROVE TypeOK'
  BY <1>9 DEF Serve, Answer, Goto
<1>10. ASSUME NEW r \in Requests, Logout(r) PROVE TypeOK'
  BY <1>10 DEF Logout, Arrives, Goto
<1>11. ASSUME NEW r \in Requests, Delete(r) PROVE TypeOK'
  BY <1>11 DEF Delete, Answer, Goto
<1>12. CASE Tick
  BY <1>12 DEF Tick
<1>13. CASE Restart
  BY <1>13 DEF Restart
<1>14. CASE UNCHANGED vars
  BY <1>14 DEF vars
<1> QED
  BY <1>1, <1>2, <1>3, <1>4, <1>5, <1>6, <1>7, <1>8, <1>9, <1>10,
     <1>11, <1>12, <1>13, <1>14
  DEF Next, Handle

\* The model is type correct, for any number of requests and sessions.
THEOREM TypeCorrect == Spec => []TypeOK
BY TypeInit, TypeStep, PTL DEF Spec

----------------------------------------------------------------------------
(* No session lies in the future.                                          *)

LEMMA PlausibleStep ==
  ASSUME TypeOK, SessionsPlausible, [Next]_vars
  PROVE  SessionsPlausible'
<1> USE SessionAssumption
    DEF TypeOK, Labels, SessionsPlausible, Plausible, Session
<1>1. ASSUME NEW r \in Requests, Login(r) PROVE SessionsPlausible'
  BY <1>1, NewSessionType DEF Login, Arrives, Goto
<1>2. ASSUME NEW r \in Requests, Store(r) PROVE SessionsPlausible'
  BY <1>2 DEF Store, Answer, Goto
<1>3. ASSUME NEW r \in Requests, Visit(r) PROVE SessionsPlausible'
  BY <1>3 DEF Visit, Arrives, Goto
<1>4. ASSUME NEW r \in Requests, Get(r) PROVE SessionsPlausible'
  BY <1>4 DEF Get, Answer, Goto
<1>5. ASSUME NEW r \in Requests, CheckExpiry(r) PROVE SessionsPlausible'
  BY <1>5 DEF CheckExpiry, Goto
<1>6. ASSUME NEW r \in Requests, CheckIdle(r) PROVE SessionsPlausible'
  BY <1>6 DEF CheckIdle, Goto
<1>7. ASSUME NEW r \in Requests, Drop(r) PROVE SessionsPlausible'
  BY <1>7 DEF Drop, Answer, Goto
<1>8. ASSUME NEW r \in Requests, Touch(r) PROVE SessionsPlausible'
  BY <1>8, TouchedType DEF Touch, Goto, Touched
<1>9. ASSUME NEW r \in Requests, Serve(r) PROVE SessionsPlausible'
  BY <1>9 DEF Serve, Answer, Goto
<1>10. ASSUME NEW r \in Requests, Logout(r) PROVE SessionsPlausible'
  BY <1>10 DEF Logout, Arrives, Goto
<1>11. ASSUME NEW r \in Requests, Delete(r) PROVE SessionsPlausible'
  BY <1>11 DEF Delete, Answer, Goto
<1>12. CASE Tick
  BY <1>12 DEF Tick
<1>13. CASE Restart
  BY <1>13 DEF Restart
<1>14. CASE UNCHANGED vars
  BY <1>14 DEF vars
<1> QED
  BY <1>1, <1>2, <1>3, <1>4, <1>5, <1>6, <1>7, <1>8, <1>9, <1>10,
     <1>11, <1>12, <1>13, <1>14
  DEF Next, Handle

----------------------------------------------------------------------------
(* What a check found at its moment held when the request arrived.         *)

LEMMA TimeStep ==
  ASSUME TypeOK, SessionsPlausible, CheckedInTime, ServedInTime, [Next]_vars
  PROVE  (CheckedInTime /\ ServedInTime)'
<1> USE SessionAssumption
    DEF TypeOK, Labels, SessionsPlausible, Plausible, Session,
        CheckedInTime, ServedInTime
<1>1. ASSUME NEW r \in Requests, Login(r) PROVE (CheckedInTime /\ ServedInTime)'
  BY <1>1 DEF Login, Arrives, Goto
<1>2. ASSUME NEW r \in Requests, Store(r) PROVE (CheckedInTime /\ ServedInTime)'
  BY <1>2 DEF Store, Answer, Goto
<1>3. ASSUME NEW r \in Requests, Visit(r) PROVE (CheckedInTime /\ ServedInTime)'
  BY <1>3 DEF Visit, Arrives, Goto
<1>4. ASSUME NEW r \in Requests, Get(r) PROVE (CheckedInTime /\ ServedInTime)'
  BY <1>4 DEF Get, Answer, Goto
<1>5. ASSUME NEW r \in Requests, CheckExpiry(r) PROVE (CheckedInTime /\ ServedInTime)'
  BY <1>5 DEF CheckExpiry, Goto, Expired
<1>6. ASSUME NEW r \in Requests, CheckIdle(r) PROVE (CheckedInTime /\ ServedInTime)'
  BY <1>6 DEF CheckIdle, Goto, IdleTooLong
<1>7. ASSUME NEW r \in Requests, Drop(r) PROVE (CheckedInTime /\ ServedInTime)'
  BY <1>7 DEF Drop, Answer, Goto
<1>8. ASSUME NEW r \in Requests, Touch(r) PROVE (CheckedInTime /\ ServedInTime)'
  BY <1>8 DEF Touch, Goto
<1>9. ASSUME NEW r \in Requests, Serve(r) PROVE (CheckedInTime /\ ServedInTime)'
  BY <1>9 DEF Serve, Answer, Goto
<1>10. ASSUME NEW r \in Requests, Logout(r) PROVE (CheckedInTime /\ ServedInTime)'
  BY <1>10 DEF Logout, Arrives, Goto
<1>11. ASSUME NEW r \in Requests, Delete(r) PROVE (CheckedInTime /\ ServedInTime)'
  BY <1>11 DEF Delete, Answer, Goto
<1>12. CASE Tick
  BY <1>12 DEF Tick
<1>13. CASE Restart
  BY <1>13 DEF Restart
<1>14. CASE UNCHANGED vars
  BY <1>14 DEF vars
<1> QED
  BY <1>1, <1>2, <1>3, <1>4, <1>5, <1>6, <1>7, <1>8, <1>9, <1>10,
     <1>11, <1>12, <1>13, <1>14
  DEF Next, Handle

----------------------------------------------------------------------------
(* Ids are drawn once, and only ids given out are presented.               *)

LEMMA IdStep ==
  ASSUME TypeOK, StoresFresh, VisitsKnown, Stocked, [Next]_vars
  PROVE  (StoresFresh /\ VisitsKnown /\ Stocked)'
<1> USE SessionAssumption DEF TypeOK, Labels, StoresFresh, VisitsKnown, Stocked
<1>1. ASSUME NEW r \in Requests, Login(r) PROVE (StoresFresh /\ VisitsKnown /\ Stocked)'
  BY <1>1 DEF Login, Arrives, Goto, Fresh
<1>2. ASSUME NEW r \in Requests, Store(r) PROVE (StoresFresh /\ VisitsKnown /\ Stocked)'
  BY <1>2 DEF Store, Answer, Goto
<1>3. ASSUME NEW r \in Requests, Visit(r) PROVE (StoresFresh /\ VisitsKnown /\ Stocked)'
  BY <1>3 DEF Visit, Arrives, Goto
<1>4. ASSUME NEW r \in Requests, Get(r) PROVE (StoresFresh /\ VisitsKnown /\ Stocked)'
  BY <1>4 DEF Get, Answer, Goto
<1>5. ASSUME NEW r \in Requests, CheckExpiry(r) PROVE (StoresFresh /\ VisitsKnown /\ Stocked)'
  BY <1>5 DEF CheckExpiry, Goto
<1>6. ASSUME NEW r \in Requests, CheckIdle(r) PROVE (StoresFresh /\ VisitsKnown /\ Stocked)'
  BY <1>6 DEF CheckIdle, Goto
<1>7. ASSUME NEW r \in Requests, Drop(r) PROVE (StoresFresh /\ VisitsKnown /\ Stocked)'
  BY <1>7 DEF Drop, Answer, Goto
<1>8. ASSUME NEW r \in Requests, Touch(r) PROVE (StoresFresh /\ VisitsKnown /\ Stocked)'
  BY <1>8 DEF Touch, Goto
<1>9. ASSUME NEW r \in Requests, Serve(r) PROVE (StoresFresh /\ VisitsKnown /\ Stocked)'
  BY <1>9 DEF Serve, Answer, Goto
<1>10. ASSUME NEW r \in Requests, Logout(r) PROVE (StoresFresh /\ VisitsKnown /\ Stocked)'
  BY <1>10 DEF Logout, Arrives, Goto
<1>11. ASSUME NEW r \in Requests, Delete(r) PROVE (StoresFresh /\ VisitsKnown /\ Stocked)'
  BY <1>11 DEF Delete, Answer, Goto
<1>12. CASE Tick
  BY <1>12 DEF Tick
<1>13. CASE Restart
  BY <1>13 DEF Restart
<1>14. CASE UNCHANGED vars
  BY <1>14 DEF vars
<1> QED
  BY <1>1, <1>2, <1>3, <1>4, <1>5, <1>6, <1>7, <1>8, <1>9, <1>10,
     <1>11, <1>12, <1>13, <1>14
  DEF Next, Handle

----------------------------------------------------------------------------
(* The theorems. *)

\* The inductive invariant holds, for any number of requests, sessions and
\* moments.
THEOREM InvariantHolds == Spec => []IInv
<1>1. Init => IInv
  BY TypeInit DEF Init, IInv, SessionsPlausible, CheckedInTime, ServedInTime,
                  StoresFresh, VisitsKnown, Stocked
<1>2. IInv /\ [Next]_vars => IInv'
  BY TypeStep, PlausibleStep, TimeStep, IdStep DEF IInv
<1> QED
  BY <1>1, <1>2, PTL DEF Spec

\* Nobody is served by a session that had expired, or had been idle too
\* long, when the request came.
THEOREM ServedSafe == Spec => []ServedInTime
<1>1. IInv => ServedInTime
  BY DEF IInv
<1> QED
  BY <1>1, InvariantHolds, PTL

\* A session removed from the map stays removed.
THEOREM RemovedSafe == Spec => RemovedStaysRemoved
<1>1. IInv /\ [Next]_vars =>
        [\A i \in cookies : sessions[i] = NoSession
                             => sessions'[i] = NoSession]_vars
  <2> SUFFICES ASSUME IInv, Next, NEW i \in cookies, sessions[i] = NoSession
               PROVE  sessions'[i] = NoSession
    OBVIOUS
  <2> USE DEF IInv, TypeOK, StoresFresh
  <2>1. ASSUME NEW r \in Requests, Handle(r) PROVE sessions'[i] = NoSession
    <3>1. CASE Store(r)
      BY <3>1 DEF Store
    <3>2. CASE Drop(r) \/ Delete(r)
      BY <3>2 DEF Drop, Delete
    <3>3. CASE Touch(r)
      BY <3>3 DEF Touch, Touched
    <3>4. CASE UNCHANGED sessions
      BY <3>4
    <3> QED
      BY <2>1, <3>1, <3>2, <3>3, <3>4
      DEF Handle, Login, Visit, Get, CheckExpiry, CheckIdle, Serve, Logout
  <2>2. CASE Tick
    BY <2>2 DEF Tick
  <2>3. CASE Restart
    BY <2>3 DEF Restart
  <2> QED
    BY <2>1, <2>2, <2>3 DEF Next
<1> QED
  BY <1>1, InvariantHolds, PTL DEF Spec, RemovedStaysRemoved

\* Touching a session moves the time it was last seen forward and changes
\* nothing else.
THEOREM TouchSafe == Spec => TouchOnlyMovesSeen
<1> DEFINE Kept(i) ==
      /\ sessions'[i].created = sessions[i].created
      /\ sessions'[i].expires = sessions[i].expires
      /\ sessions'[i].seen >= sessions[i].seen
<1>1. IInv /\ [Next]_vars =>
        [\A i \in IDs : sessions[i] # NoSession /\ sessions'[i] # NoSession
                         => Kept(i)]_vars
  <2> SUFFICES ASSUME IInv, Next, NEW i \in IDs,
                      sessions[i] # NoSession, sessions'[i] # NoSession
               PROVE  Kept(i)
    OBVIOUS
  <2>0. sessions[i].created \in Nat /\ sessions[i].seen \in Nat
        /\ sessions[i].expires \in Nat /\ sessions[i].seen <= clock
        /\ clock \in Nat
    BY DEF IInv, TypeOK, SessionsPlausible, Plausible, Session
  <2>1. ASSUME sessions'[i] = sessions[i] PROVE Kept(i)
    BY <2>0, <2>1
  <2>2. ASSUME NEW r \in Requests, Handle(r) PROVE Kept(i)
    <3>1. CASE Store(r)
      BY <3>1, <2>0, <2>1 DEF Store, IInv, TypeOK, StoresFresh, Stocked
    <3>2. CASE Drop(r) \/ Delete(r)
      BY <3>2, <2>1 DEF Drop, Delete, IInv, TypeOK
    <3>3. CASE Touch(r)
      BY <3>3, <2>0, <2>1 DEF Touch, Touched, IInv, TypeOK, Session
    <3>4. CASE UNCHANGED sessions
      BY <3>4, <2>1
    <3> QED
      BY <2>2, <3>1, <3>2, <3>3, <3>4
      DEF Handle, Login, Visit, Get, CheckExpiry, CheckIdle, Serve, Logout
  <2>3. CASE Tick
    BY <2>3, <2>1 DEF Tick
  <2>4. CASE Restart
    BY <2>4 DEF Restart
  <2> QED
    BY <2>2, <2>3, <2>4 DEF Next
<1> QED
  BY <1>1, InvariantHolds, PTL DEF Spec, TouchOnlyMovesSeen
=============================================================================
