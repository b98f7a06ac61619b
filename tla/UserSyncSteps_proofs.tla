------------------------ MODULE UserSyncSteps_proofs ------------------------
(***************************************************************************)
(* Proofs about single steps of UserSync, for any number of servers,       *)
(* inbounds, users and faults.  With any number of handlers: deleted rows  *)
(* stay deleted, a client appears only where access was asked for, the     *)
(* conflict dialog comes up for a reason, and an update or delete answered *)
(* "ok" found its row.  With one handler at work: what each of the five    *)
(* operations promises by answering "ok".                                  *)
(***************************************************************************)
EXTENDS UserSync_proofs

----------------------------------------------------------------------------
(* The users table. *)

\* A deleted row stays deleted, and its id is never given out again, whoever
\* read the row before.
THEOREM DeletedSafe == Spec => DeletedRowsStayDeleted
<1>1. TypeOK /\ [Next]_vars =>
        [\A u \in IDs : u <= lastID /\ users[u] = NoUser
                         => users'[u] = NoUser]_vars
  <2> SUFFICES ASSUME TypeOK, Next,
                      NEW u \in IDs, u <= lastID, users[u] = NoUser
               PROVE  users'[u] = NoUser
    OBVIOUS
  <2> USE DEF TypeOK, DataOK, IDs
  <2>1. CASE UNCHANGED users
    BY <2>1
  <2>2. ASSUME NEW w \in Workers, Accepted(w) PROVE users'[u] = NoUser
    <3>1. CASE \E row \in Row : Insert(row)
      BY <3>1, UserAssumption DEF Insert
    <3>2. CASE UNCHANGED database
      BY <3>2 DEF database
    <3> QED
      BY <2>2, <3>1, <3>2
      DEF Accepted, CreateUser, InsertFails, UpdateUser, DeleteUser,
          ToggleUserInbound, RecreateUserInbound, ReadUser
  <2>3. ASSUME NEW w \in Workers, Step(w) PROVE users'[u] = NoUser
    <3>1. CASE CommitUpdate(w)
      BY <3>1 DEF CommitUpdate, Stored
    <3>2. CASE CommitDelete(w)
      BY <3>2 DEF CommitDelete
    <3>3. CASE UNCHANGED database
      BY <3>3 DEF database
    <3> QED
      BY <2>3, <3>1, <3>2, <3>3
      DEF Step, ReadCreated, NextSelection, CreateReturns, ReadServer,
          ListInbounds, ApplyState, Readd, ListServers, Fetch, EvictOne,
          PushOne, PurgeOne, Push, Reload, Refetch, Render, database
  <2>4. CASE Environment
    BY <2>1, <2>4
    DEF Environment, EditServer, ApplyLate, Restart, Rest, vars, database
  <2> QED
    BY <2>2, <2>3, <2>4 DEF Next
<1> QED
  BY <1>1, TypeCorrect, PTL DEF Spec, DeletedRowsStayDeleted

----------------------------------------------------------------------------
(* Whoever evicts is recreating, whoever recreates means to grant, and     *)
(* whoever deletes brings no form.                                         *)

Suited(j) ==
  /\ j.op = "recreate" => j.enabled
  /\ j.op = "delete" => j.form = NoUser

Purposeful ==
  \A w \in Workers :
    /\ pc[w] = "evict" => job[w].op = "recreate"
    /\ Suited(job[w])

\* One handler moves on, perhaps with another job.
LEMMA PurposefulMove ==
  ASSUME TypeOK, Purposeful, NEW w \in Workers, NEW label, NEW j,
         Goto(w, label), job' = [job EXCEPT ![w] = j],
         label = "evict" => j.op = "recreate", Suited(j)
  PROVE  Purposeful'
BY DEF Purposeful, Goto, TypeOK, HandlersOK

LEMMA PurposefulKept ==
  ASSUME Purposeful, UNCHANGED <<pc, job>>
  PROVE  Purposeful'
BY DEF Purposeful

LEMMA PurposefulFinish ==
  ASSUME TypeOK, Purposeful, NEW w \in Workers, NEW r, Finish(w, r)
  PROVE  Purposeful'
<1>1. NoJob.op = "none"
  BY EmptyTypes
<1> QED
  BY <1>1, PurposefulMove DEF Finish, Suited

\* What EndingType says, whatever the result.
LEMMA EndingFields ==
  ASSUME NEW j \in Job, NEW r
  PROVE  /\ Ending(j, r).op = j.op /\ Ending(j, r).enabled = j.enabled
         /\ Ending(j, r).cell = j.cell /\ Ending(j, r).row = j.row
         /\ Ending(j, r).form = j.form /\ Ending(j, r).result = r
<1>1. Ending(j, r).op = j.op /\ Ending(j, r).enabled = j.enabled
  BY DEF Job, Ending
<1>2. Ending(j, r).cell = j.cell /\ Ending(j, r).row = j.row
  BY DEF Job, Ending
<1>3. Ending(j, r).form = j.form /\ Ending(j, r).result = r
  BY DEF Job, Ending
<1> QED
  BY <1>1, <1>2, <1>3

LEMMA PurposefulReturn ==
  ASSUME TypeOK, Purposeful, NEW w \in Workers, NEW r, Return(w, r)
  PROVE  Purposeful'
<1>0. job[w] \in Job
  BY DEF TypeOK, HandlersOK
<1>1. CASE job[w].op = "create" /\ Goto(w, "select")
           /\ job' = [job EXCEPT ![w] = Noting(job[w], r)]
  <2>1. Noting(job[w], r).op = "create"
    BY <1>0, <1>1, NotingType
  <2> QED
    BY <1>1, <2>1, PurposefulMove DEF Suited
<1>2. CASE Goto(w, "reload") /\ job' = [job EXCEPT ![w] = Ending(job[w], r)]
  <2>1. Suited(Ending(job[w], r))
    BY <1>0, EndingFields DEF Purposeful, Suited
  <2> QED
    BY <1>2, <2>1, PurposefulMove
<1> QED
  BY <1>1, <1>2 DEF Return

\* Any operation on a user that is there begins.
LEMMA PurposefulRead ==
  ASSUME TypeOK, Purposeful, NEW w \in Workers, NEW op, NEW u, NEW j, NEW label,
         label # "evict", Suited(j),
         op \in Reloading => j \in Job, ReadUser(w, op, u, j, label)
  PROVE  Purposeful'
<1>1. CASE Begin(w, j, label)
  BY <1>1, PurposefulMove DEF Begin
<1>2. CASE Finish(w, "error")
  BY <1>2, PurposefulFinish
<1>3. CASE op \in Reloading /\ Begin(w, Ending(j, "error"), "reload")
  <2>1. Suited(Ending(j, "error"))
    BY <1>3, EndingFields DEF Suited
  <2> QED
    BY <1>3, <2>1, PurposefulMove DEF Begin
<1> QED
  BY <1>1, <1>2, <1>3 DEF ReadUser, Fail

LEMMA PurposefulAccepted ==
  ASSUME TypeOK, Purposeful, NEW w \in Workers, Accepted(w)
  PROVE  Purposeful'
<1>1. CASE CreateUser(w)
  <2>1. PICK row \in Row, picks \in Selections : CreateUser(w)!(row, picks)
    BY <1>1 DEF CreateUser
  <2> USE DEF InsertFails
  <2> DEFINE j == JobOf("create", lastID + 1, row, NoUser, NoCell, FALSE, picks)
  <2>2. j.op = "create"
    BY DEF JobOf
  <2>3. Begin(w, j, "created") \/ Finish(w, "error")
    BY <2>1
  <2> HIDE DEF j
  <2> QED
    BY <2>2, <2>3, PurposefulMove, PurposefulFinish DEF Begin, Suited
<1>2. ASSUME NEW u \in IDs, NEW op \in AllOps, NEW form, NEW c,
             NEW on \in BOOLEAN, NEW label \in {"server", "servers"},
             op = "recreate" => on, op = "delete" => form = NoUser,
             op \in Reloading => form = NoUser /\ c \in Cells,
             ReadUser(w, op, u, JobOf(op, u, users[u], form, c, on, {}), label)
      PROVE  Purposeful'
  <2> DEFINE j == JobOf(op, u, users[u], form, c, on, {})
  <2>1. Suited(j)
    BY <1>2 DEF JobOf, Suited
  <2>2. ReadUser(w, op, u, j, label)
    BY <1>2
  <2>3. op \in Reloading => j \in Job
    BY <1>2, ShowsType DEF Shows
  <2> HIDE DEF j
  <2> QED
    BY <1>2, <2>1, <2>2, <2>3, PurposefulRead
<1>3. CASE UpdateUser(w)
  BY <1>2, <1>3 DEF UpdateUser, AllOps, Reloading
<1>4. CASE DeleteUser(w)
  BY <1>2, <1>4 DEF DeleteUser, AllOps, Reloading
<1>5. CASE ToggleUserInbound(w)
  BY <1>2, <1>5 DEF ToggleUserInbound, AllOps, PageCells
<1>6. CASE RecreateUserInbound(w)
  BY <1>2, <1>6 DEF RecreateUserInbound, AllOps, PageCells
<1> QED
  BY <1>1, <1>3, <1>4, <1>5, <1>6 DEF Accepted

LEMMA PurposefulStep ==
  ASSUME TypeOK, Purposeful, NEW w \in Workers, Step(w)
  PROVE  Purposeful'
<1>1. CASE NextSelection(w)
  <2>1. PICK c \in job[w].picks :
          job' = [job EXCEPT ![w] = Selecting(job[w], c)]
    BY <1>1 DEF NextSelection
  <2>2. c \in Cells /\ job[w] \in Job
    BY <2>1 DEF TypeOK, HandlersOK, Job
  <2>3. Suited(Selecting(job[w], c))
    BY <2>2 DEF Selecting, Job, Suited, Purposeful
  <2> QED
    BY <1>1, <2>1, <2>3, PurposefulMove DEF NextSelection
<1>2. CASE \E r : Finish(w, r)
  BY <1>2, PurposefulFinish
<1>3. CASE \E r : Return(w, r)
  BY <1>3, PurposefulReturn
<1>4. CASE UNCHANGED <<pc, job>>
  BY <1>4, PurposefulKept
<1>5. ASSUME NEW label, Goto(w, label), UNCHANGED job,
             label = "evict" => job[w].op = "recreate"
      PROVE  Purposeful'
  BY <1>5 DEF Purposeful, Goto, TypeOK, HandlersOK
<1>6. CASE CreateReturns(w) \/ ApplyState(w) \/ Readd(w) \/ CommitUpdate(w)
           \/ CommitDelete(w) \/ Render(w)
  BY <1>2, <1>3, <1>6
  DEF CreateReturns, ApplyState, Readd, CommitUpdate, CommitDelete, Render
<1>7. CASE ReadServer(w) \/ ListInbounds(w) \/ ListServers(w) \/ Reload(w)
  BY <1>2, <1>3, <1>5, <1>7
  DEF ReadServer, ListInbounds, ListServers, Reload
<1>8. CASE \/ \E s \in Servers : Fetch(w, s) \/ Refetch(w, s)
           \/ \E t \in Targets : EvictOne(w, t) \/ PushOne(w, t) \/ PurgeOne(w, t)
  BY <1>2, <1>3, <1>4, <1>8
  DEF Fetch, Refetch, EvictOne, PushOne, PurgeOne, Push
<1>9. CASE ReadCreated(w)
  <2>1. ASSUME Goto(w, "select"),
               job' = [job EXCEPT ![w] = [@ EXCEPT !.row = users[job[w].id]]]
        PROVE  Purposeful'
    <3> DEFINE j == [job[w] EXCEPT !.row = users[job[w].id]]
    <3>1. Suited(j)
      BY DEF TypeOK, HandlersOK, Job, Suited, Purposeful
    <3>2. job' = [job EXCEPT ![w] = j]
      BY <2>1
    <3> HIDE DEF j
    <3> QED
      BY <2>1, <3>1, <3>2, PurposefulMove
  <2> QED
    BY <1>2, <1>9, <2>1 DEF ReadCreated
<1> QED
  BY <1>1, <1>6, <1>7, <1>8, <1>9 DEF Step

LEMMA PurposefulNext ==
  ASSUME TypeOK, Purposeful, [Next]_vars
  PROVE  Purposeful'
<1>1. CASE Restart
  <2>1. NoJob.op = "none"
    BY EmptyTypes
  <2> QED
    BY <1>1, <2>1 DEF Restart, Purposeful, Suited
<1>2. CASE UNCHANGED handler
  BY <1>2, PurposefulKept DEF handler
<1>3. CASE Environment
  BY <1>1, <1>2, <1>3 DEF Environment, EditServer, ApplyLate, Rest, vars
<1> QED
  BY <1>2, <1>3, PurposefulAccepted, PurposefulStep DEF Next, vars

LEMMA PurposefulHolds == Spec => []Purposeful
<1>1. Init => Purposeful
  BY EmptyTypes DEF Init, Purposeful, Suited
<1>2. TypeOK /\ Purposeful /\ [Next]_vars => Purposeful'
  BY PurposefulNext
<1> QED
  BY <1>1, <1>2, TypeCorrect, PTL DEF Spec

----------------------------------------------------------------------------
(* Where clients come from. *)

Fills(t) ==
  /\ panel[t[1]][t[2]][t[3]] = NoClient
  /\ panel'[t[1]][t[2]][t[3]] # NoClient

\* Whoever gets its answer is no longer where it asked.
LEMMA ReturnMoves ==
  ASSUME TypeOK, NEW w \in Workers, pc[w] \in {"apply", "evict"},
         NEW r, Return(w, r)
  PROVE  pc'[w] # pc[w]
BY DEF Return, Goto, TypeOK, HandlersOK

\* A panel call fills a cell only if it is the addClient for that cell.
LEMMA FilledByAdd ==
  ASSUME TypeOK, NEW r \in Request(Servers), NEW out, PanelCall(r, out),
         NEW t \in Targets, Fills(t)
  PROVE  r.kind = "add" /\ t = <<r.server, r.inbound, r.uid>>
<1>1. t = <<r.server, r.inbound, r.uid>> /\ Accepts(panel[r.server], r)
  BY PanelCallEffect DEF TypeOK, Fills
<1>2. panel[r.server][r.inbound][r.uid] = NoClient
  BY <1>1 DEF Fills
<1> QED
  BY <1>1, <1>2 DEF Accepts

\* The call of ToggleUserInbound and CreateUser: an addClient only for a
\* client to be enabled.
LEMMA ApplyStateFills ==
  ASSUME TypeOK, NEW w \in Workers, ApplyState(w), NEW t \in Targets, Fills(t)
  PROVE  Granting(w, t) /\ pc'[w] # pc[w]
<1> DEFINE s == job[w].cell[1]
           i == job[w].cell[2]
           x == job[w].row.uid
           c == ClientOf(job[w].row, job[w].enabled)
           r == UpsertRequest(s, i, snap[w][s], x, c)
<1>0. pc[w] = "apply" /\ job[w].cell \in Cells
  BY DEF ApplyState, TypeOK, JobsOK
<1>1. /\ pc[w] = "apply" /\ job[w].row \in Row /\ job[w].enabled \in BOOLEAN
      /\ x \in UIDs /\ s \in Servers /\ job[w].cell = <<s, i>>
  BY <1>0, UserAssumption DEF TypeOK, JobsOK, HandlersOK, Job, Row, Cells
<1>2. CASE UNCHANGED <<remote, faults>>
  <2>1. panel' = panel
    BY <1>2 DEF remote
  <2> QED
    BY <2>1 DEF Fills
<1>3. ASSUME i \in Inbounds, job[w].enabled \/ snap[w][s][i][x] # NoClient,
             NEW out \in Outcomes, PanelCall(r, out)
      PROVE  Granting(w, t)
  <2>1. snap[w][s] \in Content /\ c \in Client
    BY <1>1, ClientType DEF TypeOK, HandlersOK
  <2> HIDE DEF s, i, c, x
  <2>2. r \in Request(Servers) /\ r.server = s /\ r.inbound = i /\ r.uid = x
    BY <1>1, <1>3, <2>1, UpsertType
  <2>3. r.kind = "add" => snap[w][s][i][x] = NoClient
    BY DEF UpsertRequest
  <2> HIDE DEF r
  <2>4. r.kind = "add" /\ t = <<s, i, x>>
    BY <1>3, <2>2, FilledByAdd
  <2>5. t[1] = s /\ t[2] = i /\ t[3] = x /\ job[w].enabled
    BY <1>3, <2>3, <2>4
  <2> QED
    BY <1>1, <2>5 DEF Granting, s, i, x
<1>4. pc'[w] # pc[w]
  BY <1>0, ReturnMoves DEF ApplyState
<1> QED
  BY <1>2, <1>3, <1>4 DEF ApplyState

\* RecreateUserInbound's call: an addClient only where it evicted for.
LEMMA ReaddFills ==
  ASSUME TypeOK, Purposeful, NEW w \in Workers, Readd(w),
         NEW t \in Targets, Fills(t)
  PROVE  Granting(w, t) /\ pc'[w] # pc[w]
<1> DEFINE s == job[w].cell[1]
           i == job[w].cell[2]
           c == ClientOf(job[w].row, TRUE)
           r(x) == UpsertRequest(s, i, snap[w][s], x, c)
<1>1. /\ pc[w] = "evict" /\ job[w].row \in Row /\ job[w].enabled
      /\ s \in Servers /\ job[w].cell = <<s, i>>
  BY DEF Readd, Purposeful, Suited, TypeOK, JobsOK, HandlersOK, Cells
<1>2. CASE UNCHANGED <<remote, faults>>
  <2>1. panel' = panel
    BY <1>2 DEF remote
  <2> QED
    BY <2>1 DEF Fills
<1>3. ASSUME i \in Inbounds, NEW x \in UIDs, NEW out \in Outcomes,
             Chosen(w, x), PanelCall(r(x), out)
      PROVE  Granting(w, t)
  <2>1. snap[w][s] \in Content /\ c \in Client
    BY <1>1, ClientType DEF TypeOK, HandlersOK
  <2> HIDE DEF s, i, c
  <2>2. /\ r(x) \in Request(Servers)
        /\ r(x).server = s /\ r(x).inbound = i /\ r(x).uid = x
    BY <1>1, <1>3, <2>1, UpsertType
  <2>3. r(x).kind = "add" => snap[w][s][i][x] = NoClient
    BY DEF UpsertRequest
  <2> HIDE DEF r
  <2>4. r(x).kind = "add" /\ t = <<s, i, x>>
    BY <1>3, <2>2, FilledByAdd
  <2>5. x = job[w].row.uid
    BY <1>3, <2>3, <2>4 DEF Chosen, Matches, s, i
  <2>6. t[1] = s /\ t[2] = i /\ t[3] = job[w].row.uid
    BY <2>4, <2>5
  <2> QED
    BY <1>1, <2>6 DEF Granting, s, i
<1>4. pc'[w] # pc[w]
  BY <1>1, ReturnMoves DEF Readd
<1> QED
  BY <1>2, <1>3, <1>4 DEF Readd

\* The loops of updates, deletes and evictions fill nothing.
LEMMA LoopsFillNothing ==
  ASSUME TypeOK, NEW w \in Workers, NEW u \in Targets, NEW t \in Targets,
         EvictOne(w, u) \/ PushOne(w, u) \/ PurgeOne(w, u)
  PROVE  ~Fills(t)
<1> DEFINE d == DeleteRequest(u[1], u[2], u[3])
           listed == snap[w][u[1]]
           r == UpsertRequest(u[1], u[2], listed, u[3],
                    ClientOf(job[w].form, listed[u[2]][u[3]].enable))
<1>1. d \in Request(Servers) /\ d.kind # "add"
  BY DeleteType DEF Targets
<1>2. CASE PushOne(w, u)
  <2>1. r \in Request(Servers) /\ r.kind # "add"
    BY <1>2, PushRequest DEF PushOne
  <2>2. PICK out \in Outcomes : PanelCall(r, out)
    BY <1>2 DEF PushOne, Push
  <2> HIDE DEF r
  <2> QED
    BY <2>1, <2>2, FilledByAdd
<1>3. CASE EvictOne(w, u) \/ PurgeOne(w, u)
  <2>1. PICK out \in Outcomes : PanelCall(d, out)
    BY <1>3 DEF EvictOne, PurgeOne, Push
  <2> HIDE DEF d
  <2> QED
    BY <1>1, <2>1, FilledByAdd
<1> QED
  BY <1>2, <1>3

\* A late request fills a cell only if it is the addClient for that cell.
LEMMA LateFills ==
  ASSUME TypeOK, NEW r \in late, ApplyLate(r), NEW t \in Targets, Fills(t)
  PROVE  /\ r.kind = "add" /\ r \notin late'
         /\ <<r.server, r.inbound, r.uid>> = t
<1>0. r \notin late'
  BY DEF ApplyLate
<1>1. r \in Request(Servers)
  BY DEF TypeOK, RemoteOK
<1>2. CASE ~Accepts(panel[r.server], r)
  BY <1>2 DEF ApplyLate, Fills
<1>3. CASE Accepts(panel[r.server], r)
  <2>1. t = <<r.server, r.inbound, r.uid>>
    BY <1>1, <1>3, ArriveEffect DEF ApplyLate, TypeOK, Fills
  <2>2. panel[r.server][r.inbound][r.uid] = NoClient
    BY <2>1 DEF Fills
  <2> QED
    BY <1>0, <1>3, <2>1, <2>2 DEF Accepts
<1> QED
  BY <1>2, <1>3

\* A client appears on a panel only through a call that asks for access to
\* that inbound: neither an update working from a stale listing nor a switch
\* to off ever creates one.
THEOREM GrantsSafe == Spec => OnlyGrantsCreateClients
<1> DEFINE Granted(t) ==
             \/ \E w \in Workers : Granting(w, t) /\ pc'[w] # pc[w]
             \/ \E r \in late : /\ r.kind = "add" /\ r \notin late'
                                /\ <<r.server, r.inbound, r.uid>> = t
           Explained ==
             \A t \in Targets : /\ panel[t[1]][t[2]][t[3]] = NoClient
                                /\ panel'[t[1]][t[2]][t[3]] # NoClient
                                => Granted(t)
<1>1. TypeOK /\ Purposeful /\ [Next]_vars => [Explained]_vars
  <2> SUFFICES ASSUME TypeOK, Purposeful, Next, NEW t \in Targets, Fills(t)
               PROVE  Granted(t)
    BY DEF Fills
  <2>1. ~UNCHANGED remote
    BY DEF Fills, remote
  <2>2. ASSUME NEW w \in Workers, Step(w) PROVE Granted(t)
    <3>1. CASE ApplyState(w)
      BY <3>1, ApplyStateFills
    <3>2. CASE Readd(w)
      BY <3>2, ReaddFills
    <3>3. CASE \E u \in Targets :
                 EvictOne(w, u) \/ PushOne(w, u) \/ PurgeOne(w, u)
      BY <3>3, LoopsFillNothing
    <3> QED
      BY <2>1, <2>2, <3>1, <3>2, <3>3
      DEF Step, ReadCreated, NextSelection, CreateReturns, ReadServer,
          ListInbounds, ListServers, Fetch, CommitUpdate, CommitDelete,
          Reload, Refetch, Render
  <2>3. ASSUME NEW w \in Workers PROVE ~Accepted(w)
    BY <2>1
    DEF Accepted, CreateUser, InsertFails, UpdateUser, DeleteUser,
        ToggleUserInbound, RecreateUserInbound, ReadUser
  <2>4. CASE Environment
    BY <2>1, <2>4, LateFills DEF Environment, EditServer, Restart, Rest, vars
  <2> QED
    BY <2>2, <2>3, <2>4 DEF Next
<1> QED
  BY <1>1, PurposefulHolds, TypeCorrect, PTL DEF Spec, OnlyGrantsCreateClients

----------------------------------------------------------------------------
(* The conflict dialog. *)

\* The job of handler v changes, and w gets a conflict only if v had one.
LEMMA NoNewConflict ==
  ASSUME TypeOK, NEW w \in Workers, NEW v \in Workers, NEW j,
         job' = [job EXCEPT ![v] = j],
         j.result = "conflict" => job[v].result = "conflict"
  PROVE  ~Conflicts(w)
<1>1. CASE v = w
  <2>1. job'[w] = j
    BY <1>1 DEF TypeOK, HandlersOK
  <2> QED
    BY <1>1, <2>1 DEF Conflicts
<1>2. CASE v # w
  <2>1. job'[w] = job[w]
    BY <1>2 DEF TypeOK, HandlersOK
  <2> QED
    BY <2>1 DEF Conflicts
<1> QED
  BY <1>1, <1>2

LEMMA FinishNoConflict ==
  ASSUME TypeOK, NEW w \in Workers, NEW v \in Workers, NEW r, Finish(v, r)
  PROVE  ~Conflicts(w)
<1>1. NoJob.result = "ok"
  BY DEF NoJob, JobOf
<1> QED
  BY <1>1, NoNewConflict DEF Finish

\* Only a panel's refusal becomes a conflict, and only of a toggle.
LEMMA ReturnConflict ==
  ASSUME TypeOK, NEW w \in Workers, NEW v \in Workers, NEW r, Return(v, r),
         Conflicts(w)
  PROVE  v = w /\ r = "conflict" /\ job[w].op # "create"
<1>0. job[v] \in Job
  BY DEF TypeOK, HandlersOK
<1>1. CASE job[v].op = "create"
  <2>1. Noting(job[v], r).result = "conflict" => job[v].result = "conflict"
    BY <1>0 DEF Noting, Worse, Job
  <2> QED
    BY <1>1, <2>1, NoNewConflict DEF Return
<1>2. CASE job[v].op # "create"
  <2>1. job' = [job EXCEPT ![v] = Ending(job[v], r)]
    BY <1>2 DEF Return
  <2>2. r = "conflict"
    BY <1>0, <2>1, EndingFields, NoNewConflict
  <2>3. v = w
    BY <2>1 DEF Conflicts, TypeOK, HandlersOK
  <2> QED
    BY <1>2, <2>2, <2>3
<1> QED
  BY <1>1, <1>2

\* No operation begins with a conflict.
LEMMA BeginNoConflict ==
  ASSUME TypeOK, NEW w \in Workers, NEW v \in Workers, NEW j, NEW label,
         Begin(v, j, label), j.result # "conflict"
  PROVE  ~Conflicts(w)
BY NoNewConflict DEF Begin

LEMMA AcceptedNoConflict ==
  ASSUME TypeOK, NEW w \in Workers, NEW v \in Workers, Accepted(v)
  PROVE  ~Conflicts(w)
<1>1. ASSUME NEW op \in AllOps, NEW u \in IDs, NEW form, NEW c, NEW on,
             NEW label, op \in Reloading => form = NoUser /\ c \in Cells
                                            /\ on \in BOOLEAN,
             ReadUser(v, op, u, JobOf(op, u, users[u], form, c, on, {}), label)
      PROVE  ~Conflicts(w)
  <2> DEFINE j == JobOf(op, u, users[u], form, c, on, {})
  <2>1. j.result = "ok" /\ ReadUser(v, op, u, j, label)
    BY <1>1 DEF JobOf
  <2>2. op \in Reloading => j \in Job
    BY <1>1, ShowsType DEF Shows
  <2> HIDE DEF j
  <2>3. CASE op \in Reloading /\ Begin(v, Ending(j, "error"), "reload")
    <3>1. Ending(j, "error").result = "error"
      BY <2>2, <2>3, EndingFields
    <3> QED
      BY <2>3, <3>1, BeginNoConflict
  <2> QED
    BY <2>1, <2>3, BeginNoConflict, FinishNoConflict DEF ReadUser, Fail
<1>2. CASE CreateUser(v)
  <2>1. PICK row \in Row, picks \in Selections : CreateUser(v)!(row, picks)
    BY <1>2 DEF CreateUser
  <2> USE DEF InsertFails
  <2> DEFINE j == JobOf("create", lastID + 1, row, NoUser, NoCell, FALSE, picks)
  <2>2. j.result = "ok"
    BY DEF JobOf
  <2>3. Begin(v, j, "created") \/ Finish(v, "error")
    BY <2>1
  <2> HIDE DEF j
  <2> QED
    BY <2>2, <2>3, BeginNoConflict, FinishNoConflict
<1>3. CASE UpdateUser(v)
  BY <1>1, <1>3 DEF UpdateUser, AllOps, Reloading
<1>4. CASE DeleteUser(v)
  BY <1>1, <1>4 DEF DeleteUser, AllOps, Reloading
<1>5. CASE ToggleUserInbound(v)
  BY <1>1, <1>5 DEF ToggleUserInbound, AllOps, PageCells
<1>6. CASE RecreateUserInbound(v)
  BY <1>1, <1>6 DEF RecreateUserInbound, AllOps, PageCells
<1> QED
  BY <1>2, <1>3, <1>4, <1>5, <1>6 DEF Accepted

\* Only the panel call of ToggleUserInbound is refused with a conflict.
LEMMA ConflictByApply ==
  ASSUME TypeOK, Next, NEW w \in Workers, Conflicts(w)
  PROVE  ApplyState(w)
<1>1. ~UNCHANGED job
  BY DEF Conflicts
<1>2. ASSUME NEW v \in Workers, Step(v), ~ApplyState(v) PROVE FALSE
  <2>1. ~CreateReturns(v) /\ ~CommitUpdate(v) /\ ~CommitDelete(v) /\ ~Render(v)
    BY FinishNoConflict DEF CreateReturns, CommitUpdate, CommitDelete, Render
  <2>2. ~Readd(v)
    <3>1. Readd(v) => Return(v, "ok") \/ Return(v, "error")
      BY DEF Readd
    <3> QED
      BY <3>1, ReturnConflict
  <2>3. ~ReadServer(v) /\ ~ListInbounds(v)
    BY <1>1, ReturnConflict DEF ReadServer, ListInbounds
  <2>4. ~ListServers(v) /\ ~Reload(v)
    BY <1>1, FinishNoConflict DEF ListServers, Reload
  <2>5. ~\E s \in Servers : Fetch(v, s) \/ Refetch(v, s)
    BY <1>1 DEF Fetch, Refetch
  <2>6. ~\E t \in Targets : EvictOne(v, t) \/ PushOne(v, t) \/ PurgeOne(v, t)
    BY <1>1, FinishNoConflict, ReturnConflict
    DEF EvictOne, PushOne, PurgeOne, Push
  <2>7. ~NextSelection(v)
    <3>1. ASSUME NEW c \in job[v].picks,
                 job' = [job EXCEPT ![v] = Selecting(job[v], c)]
          PROVE  FALSE
      <4>1. job[v] \in Job
        BY DEF TypeOK, HandlersOK
      <4>2. Selecting(job[v], c).result = job[v].result
        BY <4>1 DEF Selecting, Job
      <4> QED
        BY <3>1, <4>2, NoNewConflict
    <3> QED
      BY <3>1 DEF NextSelection
  <2>8. ~ReadCreated(v)
    <3> DEFINE j == [job[v] EXCEPT !.row = users[job[v].id]]
    <3>1. j.result = job[v].result
      BY DEF TypeOK, HandlersOK, Job
    <3>2. ReadCreated(v) => job' = [job EXCEPT ![v] = j] \/ Finish(v, "error")
      BY DEF ReadCreated
    <3> HIDE DEF j
    <3> QED
      BY <3>1, <3>2, NoNewConflict, FinishNoConflict
  <2> QED
    BY <1>2, <2>1, <2>2, <2>3, <2>4, <2>5, <2>6, <2>7, <2>8 DEF Step
<1>3. ASSUME NEW v \in Workers, ApplyState(v) PROVE v = w
  BY <1>3, ReturnConflict DEF ApplyState
<1>4. ~Environment
  <2>1. NoJob.result = "ok"
    BY DEF NoJob, JobOf
  <2> QED
    BY <1>1, <2>1
    DEF Environment, EditServer, ApplyLate, Restart, Rest, vars, handler,
        Conflicts
<1> QED
  BY <1>2, <1>3, <1>4, AcceptedNoConflict DEF Next

\* The conflict dialog comes up only when some client of that server bears
\* the user's name at that moment, and never for the client the handler
\* itself saw in the cell it asked for, however old the listing was.
THEOREM ConflictSafe == Spec => ConflictExplained
<1> DEFINE Explained(w) ==
             LET s == job[w].cell[1]
             IN \E i \in Inbounds, x \in UIDs :
                  /\ panel[s][i][x] # NoClient
                  /\ panel[s][i][x].email = job[w].row.username
                  /\ <<i, x>> = <<job[w].cell[2], job[w].row.uid>>
                     => snap[w][s][i][x] = NoClient
<1>1. TypeOK /\ [Next]_vars =>
        [\A w \in Workers : Conflicts(w) => Explained(w)]_vars
  <2> SUFFICES ASSUME TypeOK, Next, NEW w \in Workers, Conflicts(w)
               PROVE  Explained(w)
    OBVIOUS
  <2> DEFINE s == job[w].cell[1]
             i == job[w].cell[2]
             y == job[w].row.uid
             r == UpsertRequest(s, i, snap[w][s], y,
                                ClientOf(job[w].row, job[w].enabled))
  <2>1. ApplyState(w)
    BY ConflictByApply
  <2>2. PICK out \in Outcomes : PanelCall(r, out) /\ Return(w, Answer(out))
    <3>1. ~Return(w, "ok") /\ ~Return(w, "error")
      BY ReturnConflict
    <3> QED
      BY <2>1, <3>1 DEF ApplyState
  <2>3. /\ r.server = s /\ r.inbound = i /\ r.uid = y
        /\ r.client.email = job[w].row.username
    BY DEF UpsertRequest, ToAPIClient, ClientOf
  <2>4. r.kind # "update" => snap[w][s][i][y] = NoClient
    BY DEF UpsertRequest
  <2> HIDE DEF r, s, i, y
  <2>5. out = "duplicate"
    BY <2>2, ReturnConflict DEF Answer, Outcomes
  <2>6. EmailTaken(panel[s], r)
    BY <2>2, <2>3, <2>5 DEF PanelCall
  <2>7. PICK k \in Inbounds, x \in UIDs :
          /\ r.kind = "update" => <<k, x>> # <<i, y>>
          /\ panel[s][k][x] # NoClient
          /\ panel[s][k][x].email = job[w].row.username
    BY <2>3, <2>6 DEF EmailTaken
  <2>8. <<k, x>> = <<i, y>> => snap[w][s][k][x] = NoClient
    BY <2>4, <2>7
  <2> QED
    BY <2>7, <2>8 DEF s, i, y
<1> QED
  BY <1>1, TypeCorrect, PTL DEF Spec, ConflictExplained

----------------------------------------------------------------------------
(* Who answers "ok". *)

\* An operation that ends "ok" was answered "ok" by its last step.
LEMMA FinishOk ==
  ASSUME TypeOK, NEW w \in Workers, NEW r, Finish(w, r), reply'[w] = "ok"
  PROVE  r = "ok"
BY DEF Finish, TypeOK, HandlersOK

\* A result handed to a caller ends nothing.
LEMMA ReturnEndsNothing ==
  ASSUME TypeOK, NEW w \in Workers, NEW r, Return(w, r)
  PROVE  pc'[w] # "idle"
BY DEF Return, Goto, TypeOK, HandlersOK

\* A handler moves by its own steps only.
LEMMA OthersStay ==
  ASSUME TypeOK, NEW v \in Workers, NEW w \in Workers, v # w,
         Accepted(v) \/ Step(v)
  PROVE  pc'[w] = pc[w]
<1>1. ASSUME NEW label, Goto(v, label) PROVE pc'[w] = pc[w]
  BY <1>1 DEF Goto, TypeOK, HandlersOK
<1>2. ASSUME NEW r, Finish(v, r) PROVE pc'[w] = pc[w]
  BY <1>1, <1>2 DEF Finish
<1>3. ASSUME NEW r, Return(v, r) PROVE pc'[w] = pc[w]
  BY <1>1, <1>3 DEF Return
<1>4. ASSUME NEW j, NEW label, Begin(v, j, label) PROVE pc'[w] = pc[w]
  BY <1>1, <1>4 DEF Begin
<1>5. CASE Accepted(v)
  BY <1>2, <1>4, <1>5
  DEF Accepted, CreateUser, InsertFails, UpdateUser, DeleteUser,
      ToggleUserInbound, RecreateUserInbound, ReadUser, Fail
<1>6. CASE Step(v)
  BY <1>1, <1>2, <1>3, <1>6
  DEF Step, ReadCreated, NextSelection, CreateReturns, ReadServer,
      ListInbounds, ApplyState, Readd, ListServers, Fetch, EvictOne, PushOne,
      PurgeOne, Push, CommitUpdate, CommitDelete, Reload, Refetch, Render
<1> QED
  BY <1>5, <1>6

\* Which step answers "ok" for which operation.
Winning(w, op) ==
  \/ op = "create" /\ CreateReturns(w)
  \/ op \in Reloading /\ Render(w)
  \/ op = "update" /\ CommitUpdate(w)
  \/ op = "delete" /\ CommitDelete(w)

LEMMA WhoSucceeds ==
  ASSUME TypeOK, Next, NEW w \in Workers, NEW op, Succeeds(w, op)
  PROVE  Winning(w, op)
<1> USE DEF Succeeds
<1>1. CASE Environment
  BY <1>1 DEF Environment, EditServer, ApplyLate, Restart, Rest, vars, handler,
              TypeOK, HandlersOK
<1>2. CASE Accepted(w)
  BY <1>2
  DEF Accepted, CreateUser, InsertFails, UpdateUser, DeleteUser,
      ToggleUserInbound, RecreateUserInbound, Arrives
<1>3. CASE Step(w)
  <2>1. ~Finish(w, "error")
    BY FinishOk
  <2>2. ASSUME NEW r, Return(w, r) PROVE FALSE
    BY <2>2, ReturnEndsNothing
  <2>3. ASSUME NEW label, label # "idle", Goto(w, label) PROVE FALSE
    BY <2>3 DEF Goto, TypeOK, HandlersOK
  <2>4. ~UNCHANGED pc
    OBVIOUS
  <2>5. ~NextSelection(w) /\ ~ReadCreated(w) /\ ~ListServers(w) /\ ~Reload(w)
    BY <2>1, <2>3 DEF NextSelection, ReadCreated, ListServers, Reload
  <2>6. ~\E s \in Servers : Fetch(w, s) \/ Refetch(w, s)
    BY <2>4 DEF Fetch, Refetch
  <2>7. ~\E t \in Targets : EvictOne(w, t) \/ PushOne(w, t) \/ PurgeOne(w, t)
    BY <2>1, <2>2, <2>4 DEF EvictOne, PushOne, PurgeOne, Push
  <2>8. ~ReadServer(w)
    BY <2>2, <2>3 DEF ReadServer
  <2>9. ~ListInbounds(w)
    <3>1. ~Goto(w, "evict") /\ ~Goto(w, "apply")
      BY <2>3
    <3> QED
      BY <2>2, <3>1 DEF ListInbounds
  <2>10. ~ApplyState(w) /\ ~Readd(w)
    BY <2>2 DEF ApplyState, Readd
  <2>11. CASE CreateReturns(w)
    BY <2>11 DEF CreateReturns, Winning, TypeOK, JobsOK
  <2>12. CASE Render(w)
    BY <2>12 DEF Render, Winning, TypeOK, JobsOK
  <2>13. CASE CommitUpdate(w) \/ CommitDelete(w)
    BY <2>13 DEF CommitUpdate, CommitDelete, Winning
  <2> QED
    BY <1>3, <2>5, <2>6, <2>7, <2>8, <2>9, <2>10, <2>11, <2>12, <2>13 DEF Step
<1> QED
  BY <1>1, <1>2, <1>3, OthersStay DEF Next

\* "user updated" and "user deleted" are said of a row that was there and
\* that now is as the operation wants it: for any number of handlers, of
\* which another may have deleted the row since this one read it.
THEOREM AnswersStored == Spec => AnsweredMeansStored
<1>1. TypeOK /\ Purposeful /\ [Next]_vars =>
        [\A w \in Workers : Succeeds(w, "update") \/ Succeeds(w, "delete") =>
           /\ users[job[w].id] # NoUser
           /\ users'[job[w].id] = job[w].form]_vars
  <2> SUFFICES ASSUME TypeOK, Purposeful, Next, NEW w \in Workers,
                      Succeeds(w, "update") \/ Succeeds(w, "delete")
               PROVE  /\ users[job[w].id] # NoUser
                      /\ users'[job[w].id] = job[w].form
    OBVIOUS
  <2> DEFINE u == job[w].id
  <2>1. CommitUpdate(w) \/ CommitDelete(w)
    BY WhoSucceeds DEF Winning, Reloading
  <2>2. u \in IDs
    BY <2>1 DEF CommitUpdate, CommitDelete, Joined, TypeOK, JobsOK
  <2>3. ~Finish(w, "error")
    BY FinishOk DEF Succeeds
  <2>4. users[u] # NoUser
    <3>1. Finish(w, RowsAffected(u))
      BY <2>1, <2>3 DEF CommitUpdate, CommitDelete
    <3>2. RowsAffected(u) = "ok"
      BY <3>1, FinishOk DEF Succeeds
    <3> QED
      BY <3>2 DEF RowsAffected
  <2>5. CASE CommitUpdate(w)
    BY <2>2, <2>3, <2>4, <2>5 DEF CommitUpdate, Stored, TypeOK, DataOK
  <2>6. CASE CommitDelete(w)
    <3>1. job[w].form = NoUser
      BY <2>6 DEF CommitDelete, Purposeful, Suited
    <3> QED
      BY <2>2, <2>3, <2>4, <2>6, <3>1 DEF CommitDelete, TypeOK, DataOK
  <2> QED
    BY <2>1, <2>4, <2>5, <2>6
<1> QED
  BY <1>1, PurposefulHolds, TypeCorrect, PTL DEF Spec, AnsweredMeansStored

----------------------------------------------------------------------------
(* What "ok" promises when nobody else is at work.                         *)

\* One handler, and no request outlives its timeout.
Alone == ~Delays /\ \A v, w \in Workers : v = w

\* Which operation is where, and how far its loop has come.
Places(w) ==
  /\ pc[w] \in {"created", "select"} => job[w].op = "create"
  /\ pc[w] \in {"reload", "refetch"} => job[w].op \in Reloading
  /\ pc[w] = "apply" => job[w].op \in {"create", "toggle"}
  /\ pc[w] = "evict" => job[w].op = "recreate"
  /\ pc[w] \in {"servers", "fetch"} => job[w].op \in {"update", "delete"}
  /\ pc[w] \in {"server", "list"} =>
       job[w].op \in {"create", "toggle", "recreate"}
  /\ pc[w] \in {"idle", "created", "servers", "reload"} =>
       done[w] = {} /\ status[w] = Unlisted
  /\ pc[w] \in {"server", "list"} /\ job[w].op = "recreate" => done[w] = {}

\* The listing a single inbound is judged by is up to date.
Current(w) ==
  pc[w] = "apply" => snap[w][job[w].cell[1]] = panel[job[w].cell[1]]

\* While a server is cleared, its panel is the listing less what was evicted.
Cleared(w) ==
  LET s == job[w].cell[1]
  IN pc[w] = "evict" =>
       \A i \in Inbounds, x \in UIDs :
         panel[s][i][x] = IF <<s, i, x>> \in done[w] THEN NoClient
                          ELSE snap[w][s][i][x]

\* What a loop over all servers leaves in a cell it has visited.
Left(j, listed) ==
  IF j.op = "delete" THEN NoClient ELSE Shown(j.form, listed.enable)

\* The user's clients on the servers that answered are as listed, or as the
\* loop left them; the loop waits for the last listing.
Visited(w) ==
  pc[w] = "fetch" =>
    /\ done[w] \subseteq Listed(w)
    /\ (\E s \in Servers : status[w][s] = "pending") => done[w] = {}
    /\ \A s \in Servers, i \in Inbounds :
         LET x == job[w].row.uid
         IN status[w][s] = "up" =>
              panel[s][i][x] = IF <<s, i, x>> \in done[w]
                               THEN Left(job[w], snap[w][s][i][x])
                               ELSE snap[w][s][i][x]

\* A ticked inbound exists and holds an enabled client for the row.
Holds(content, d, row) ==
  /\ d[2] \in Inbounds
  /\ content[d[1]][d[2]][row.uid] = Shown(row, TRUE)

\* As long as all went well, every ticked inbound but the one in question
\* holds the new user.
Granted(w) ==
  LET j == job[w] IN
  j.op = "create" =>
    /\ users[j.id] = j.row
    /\ pc[w] \in {"created", "select"} => j.cell = NoCell
    /\ pc[w] \notin {"created", "select"} => j.enabled
    /\ j.result = "ok" =>
         \A d \in done[w] :
           <<d[1], d[2]>> # j.cell => Holds(panel, d, j.row)

\* The panel shows what a toggle or a recreation was to achieve.
Toggled(content, j) ==
  LET c == content[j.cell[1]][j.cell[2]][j.row.uid]
  IN \/ c = Shown(j.row, j.enabled)
     \/ c = NoClient /\ ~j.enabled

Recreated(content, j) ==
  LET here == content[j.cell[1]]
  IN /\ \A i \in Inbounds \ {j.cell[2]}, x \in UIDs :
          ~Matches(here[i][x], x, j.row)
     /\ \E x \in UIDs : here[j.cell[2]][x] = Shown(j.row, TRUE)

Achieved(content, j) ==
  /\ j.op = "toggle" => Toggled(content, j)
  /\ j.op = "recreate" => Recreated(content, j)

\* While its page is loaded, what a handler achieved stays so.
Loading(w) ==
  pc[w] \in {"reload", "refetch"} /\ job[w].result = "ok" =>
    Achieved(panel, job[w])

\* The handler's work is as it left it.
Intact(w) ==
  /\ Places(w) /\ Current(w) /\ Cleared(w) /\ Visited(w)
  /\ Granted(w) /\ Loading(w)

Undisturbed == late = {} /\ \A w \in Workers : Intact(w)

LEMMA ShownIsSent ==
  ASSUME NEW row \in Row, NEW on \in BOOLEAN
  PROVE  ToAPIClient(ClientOf(row, on)) = Shown(row, on)
BY DEF ToAPIClient, ClientOf, Shown, Row

\* An accepted request writes its own cell and no other.
LEMMA CallLands ==
  ASSUME RemoteOK, NEW r \in Request(Servers), PanelCall(r, "ok")
  PROVE  \A s \in Servers, i \in Inbounds, x \in UIDs :
           panel'[s][i][x] =
             IF s = r.server /\ i = r.inbound /\ x = r.uid THEN r.client
             ELSE panel[s][i][x]
<1>1. panel' = [panel EXCEPT ![r.server] = Written(panel[r.server], r)]
  BY DEF PanelCall
<1>2. /\ r.server \in Servers /\ r.inbound \in Inbounds /\ r.uid \in UIDs
      /\ panel[r.server] \in Content
  BY RequestFields DEF RemoteOK
<1>3. ASSUME NEW i \in Inbounds, NEW x \in UIDs
      PROVE  Written(panel[r.server], r)[i][x] =
               IF i = r.inbound /\ x = r.uid THEN r.client
               ELSE panel[r.server][i][x]
  BY <1>2 DEF Written, Content
<1>4. ASSUME NEW s \in Servers
      PROVE  panel'[s] = IF s = r.server THEN Written(panel[r.server], r)
                         ELSE panel[s]
  BY <1>1, <1>2 DEF RemoteOK
<1> QED
  BY <1>3, <1>4

LEMMA NothingDelayed ==
  ASSUME ~Delays, NEW r, NEW out, PanelCall(r, out)
  PROVE  late' = late
BY DEF PanelCall

\* An idle handler has nothing left to keep intact.
LEMMA FinishIntact ==
  ASSUME TypeOK, NEW w \in Workers, NEW r, Finish(w, r)
  PROVE  Intact(w)'
<1>1. pc'[w] = "idle" /\ done'[w] = {} /\ job'[w].op = "none"
      /\ status'[w] = Unlisted
  BY EmptyTypes DEF Finish, Goto, TypeOK, HandlersOK
<1> QED
  BY <1>1 DEF Intact, Places, Current, Cleared, Visited, Granted, Loading

LEMMA BeginIntact ==
  ASSUME TypeOK, NEW w \in Workers, Intact(w), pc[w] = "idle",
         NEW j, NEW label, Begin(w, j, label),
         \/ label = "created" /\ j.op = "create" /\ j.cell = NoCell
            /\ users'[j.id] = j.row
         \/ label = "reload" /\ j.op \in Reloading /\ j.result = "error"
         \/ label = "server" /\ j.op \in {"toggle", "recreate"}
         \/ label = "servers" /\ j.op \in {"update", "delete"}
  PROVE  Intact(w)'
<1>1. /\ pc'[w] = label /\ job'[w] = j
      /\ done'[w] = {} /\ status'[w] = Unlisted
  BY DEF Begin, Goto, TypeOK, HandlersOK, Intact, Places
<1> QED
  BY <1>1 DEF Intact, Places, Current, Cleared, Visited, Granted, Loading,
         Reloading

\* What NotingType leaves out.
LEMMA NotingFields ==
  ASSUME NEW j \in Job, NEW r
  PROVE  /\ Noting(j, r).cell = NoCell
         /\ Noting(j, r).result = "ok" => j.result = "ok" /\ r = "ok"
BY DEF Job, Noting, Worse

\* CreateUser notes how the current inbound went and goes on; the others
\* load their page.
LEMMA ReturnIntact ==
  ASSUME TypeOK, NEW w \in Workers, Intact(w), NEW r, Return(w, r),
         UNCHANGED users,
         job[w].op = "create" \/ job[w].op \in Reloading,
         /\ job[w].op = "create" /\ job[w].result = "ok" /\ r = "ok"
         => \A d \in done[w] : Holds(panel', d, job[w].row),
         job[w].op # "create" /\ r = "ok" => Achieved(panel', job[w])
  PROVE  Intact(w)'
<1>0. job[w] \in Job
  BY DEF TypeOK, HandlersOK
<1>1. CASE job[w].op # "create"
  <2> DEFINE j == Ending(job[w], r)
  <2>1. /\ pc'[w] = "reload" /\ job'[w] = j /\ done'[w] = {}
        /\ status'[w] = Unlisted
    BY <1>1 DEF Return, Goto, TypeOK, HandlersOK
  <2>2. /\ j.op = job[w].op /\ j.enabled = job[w].enabled
        /\ j.cell = job[w].cell /\ j.row = job[w].row /\ j.result = r
    BY <1>0, EndingFields
  <2> HIDE DEF j
  <2>3. Loading(w)'
    BY <1>1, <2>1, <2>2 DEF Loading, Achieved, Toggled, Recreated
  <2> QED
    BY <1>1, <2>1, <2>2, <2>3
    DEF Intact, Places, Current, Cleared, Visited, Granted
<1>2. CASE job[w].op = "create"
  <2> DEFINE j == Noting(job[w], r)
  <2>1. /\ pc'[w] = "select" /\ job'[w] = j /\ done'[w] = done[w]
    BY <1>2 DEF Return, Goto, TypeOK, HandlersOK
  <2>2. /\ j.op = "create" /\ j.row = job[w].row /\ j.id = job[w].id
        /\ j.cell = NoCell
        /\ j.result = "ok" => job[w].result = "ok" /\ r = "ok"
    BY <1>0, <1>2, NotingType, NotingFields
  <2> HIDE DEF j
  <2>3. users[job[w].id] = job[w].row
    BY <1>2 DEF Intact, Granted
  <2>4. Granted(w)'
    BY <1>2, <2>1, <2>2, <2>3 DEF Granted, Holds
  <2> QED
    BY <2>1, <2>2, <2>4 DEF Intact, Places, Current, Cleared, Visited, Loading
<1> QED
  BY <1>1, <1>2

LEMMA CreateUserIntact ==
  ASSUME TypeOK, NEW w \in Workers, Intact(w), CreateUser(w)
  PROVE  Intact(w)'
<1>1. PICK row \in Row, picks \in Selections : CreateUser(w)!(row, picks)
  BY DEF CreateUser
<1> USE DEF InsertFails
<1> DEFINE j == JobOf("create", lastID + 1, row, NoUser, NoCell, FALSE, picks)
<1>2. CASE Finish(w, "error")
  BY <1>2, FinishIntact
<1>3. CASE Insert(row) /\ Begin(w, j, "created")
  <2>1. lastID + 1 \in IDs
    BY <1>1, UserAssumption DEF TypeOK, DataOK, IDs
  <2>2. users'[lastID + 1] = row
    BY <1>3, <2>1 DEF Insert, TypeOK, DataOK
  <2>3. j.op = "create" /\ j.cell = NoCell /\ users'[j.id] = j.row
    BY <2>2 DEF JobOf
  <2>4. pc[w] = "idle"
    BY <1>1 DEF Arrives
  <2> HIDE DEF j
  <2> QED
    BY <1>3, <2>3, <2>4, BeginIntact
<1> QED
  BY <1>1, <1>2, <1>3

LEMMA ReadUserIntact ==
  ASSUME TypeOK, NEW w \in Workers, Intact(w), pc[w] = "idle",
         NEW op, NEW u, NEW j, NEW label, ReadUser(w, op, u, j, label),
         op \in Reloading => j \in Job, j.op = op,
         \/ label = "server" /\ op \in {"toggle", "recreate"}
         \/ label = "servers" /\ op \in {"update", "delete"}
  PROVE  Intact(w)'
<1>1. CASE Begin(w, j, label)
  BY <1>1, BeginIntact
<1>2. CASE Finish(w, "error")
  BY <1>2, FinishIntact
<1>3. CASE op \in Reloading /\ Begin(w, Ending(j, "error"), "reload")
  <2>1. Ending(j, "error").op = op /\ Ending(j, "error").result = "error"
    BY <1>3, EndingFields
  <2> QED
    BY <1>3, <2>1, BeginIntact
<1> QED
  BY <1>1, <1>2, <1>3 DEF ReadUser, Fail

LEMMA AcceptedIntact ==
  ASSUME TypeOK, NEW w \in Workers, Intact(w), Accepted(w)
  PROVE  Intact(w)'
<1>1. ASSUME NEW u \in IDs, NEW op, NEW form, NEW c, NEW on, NEW label,
             Arrives(w, op),
             op \in Reloading => form = NoUser /\ c \in Cells /\ on \in BOOLEAN,
             \/ label = "server" /\ op \in {"toggle", "recreate"}
             \/ label = "servers" /\ op \in {"update", "delete"},
             ReadUser(w, op, u, JobOf(op, u, users[u], form, c, on, {}), label)
      PROVE  Intact(w)'
  <2> DEFINE j == JobOf(op, u, users[u], form, c, on, {})
  <2>1. j.op = op /\ pc[w] = "idle" /\ ReadUser(w, op, u, j, label)
    BY <1>1 DEF JobOf, Arrives
  <2>2. op \in Reloading => j \in Job
    BY <1>1, ShowsType DEF Shows
  <2> HIDE DEF j
  <2> QED
    BY <1>1, <2>1, <2>2, ReadUserIntact
<1>2. CASE CreateUser(w)
  BY <1>2, CreateUserIntact
<1>3. CASE UpdateUser(w)
  BY <1>1, <1>3 DEF UpdateUser, Reloading
<1>4. CASE DeleteUser(w)
  BY <1>1, <1>4 DEF DeleteUser, Reloading
<1>5. CASE ToggleUserInbound(w)
  BY <1>1, <1>5 DEF ToggleUserInbound, PageCells
<1>6. CASE RecreateUserInbound(w)
  BY <1>1, <1>6 DEF RecreateUserInbound, PageCells
<1> QED
  BY <1>2, <1>3, <1>4, <1>5, <1>6 DEF Accepted

\* Nobody else could have changed or deleted the row that was inserted.
LEMMA ReadCreatedIntact ==
  ASSUME TypeOK, NEW w \in Workers, Intact(w), ReadCreated(w)
  PROVE  Intact(w)'
<1> DEFINE j == [job[w] EXCEPT !.row = users[job[w].id]]
<1>1. CASE Finish(w, "error")
  BY <1>1, FinishIntact
<1>2. CASE /\ Goto(w, "select") /\ job' = [job EXCEPT ![w] = j]
           /\ UNCHANGED <<status, snap, done, reply>>
  <2>1. pc[w] = "created" /\ UNCHANGED <<users, panel>>
    BY DEF ReadCreated, database, remote
  <2>2. /\ job[w].op = "create" /\ job[w].cell = NoCell /\ done[w] = {}
        /\ users[job[w].id] = job[w].row
    BY <2>1 DEF Intact, Places, Granted
  <2>3. /\ j.op = "create" /\ j.cell = NoCell /\ j.id = job[w].id
        /\ j.row = users[job[w].id]
    BY <2>2 DEF TypeOK, HandlersOK, Job
  <2>4. pc'[w] = "select" /\ job'[w] = j /\ done'[w] = {}
    BY <1>2, <2>2 DEF Goto, TypeOK, HandlersOK
  <2> HIDE DEF j
  <2> QED
    BY <2>1, <2>3, <2>4
    DEF Intact, Places, Current, Cleared, Visited, Granted, Loading
<1> QED
  BY <1>1, <1>2 DEF ReadCreated

\* What SelectingType leaves out.
LEMMA SelectingFields ==
  ASSUME NEW j \in Job, NEW c \in Cells
  PROVE  Selecting(j, c).enabled /\ Selecting(j, c).result = j.result
BY DEF Job, Selecting

LEMMA NextSelectionIntact ==
  ASSUME TypeOK, NEW w \in Workers, Intact(w), NextSelection(w)
  PROVE  Intact(w)'
<1>1. PICK c \in job[w].picks \ Tried(w) :
        /\ job' = [job EXCEPT ![w] = Selecting(@, c)]
        /\ done' = [done EXCEPT ![w] = @ \cup {<<c[1], c[2], job[w].row.uid>>}]
  BY DEF NextSelection
<1> DEFINE k == Selecting(job[w], c)
           e == <<c[1], c[2], job[w].row.uid>>
<1>2. job[w] \in Job /\ c \in Cells /\ pc[w] = "select"
  BY <1>1 DEF NextSelection, TypeOK, HandlersOK, Job
<1>3. /\ k.op = job[w].op /\ k.row = job[w].row /\ k.id = job[w].id
      /\ k.cell = c /\ k.enabled /\ k.result = job[w].result
  BY <1>2, SelectingType, SelectingFields
<1>4. /\ pc'[w] = "server" /\ job'[w] = k /\ done'[w] = done[w] \cup {e}
      /\ UNCHANGED <<users, panel>>
  BY <1>1 DEF NextSelection, Goto, TypeOK, HandlersOK, database, remote
<1>5. job[w].op = "create" /\ job[w].cell = NoCell
  BY <1>2 DEF Intact, Places, Granted
<1>6. <<e[1], e[2]>> = c
  BY <1>2 DEF Cells
<1>7. \A d \in done[w] : <<d[1], d[2]>> # NoCell
  <2>1. ASSUME NEW d \in done[w] PROVE <<d[1], d[2]>> \in Cells
    BY DEF TypeOK, HandlersOK, Cells
  <2> QED
    BY <2>1, UserAssumption
<1> HIDE DEF k, e
<1>8. Granted(w)'
  BY <1>2, <1>3, <1>4, <1>5, <1>6, <1>7 DEF Intact, Granted, Holds
<1> QED
  BY <1>3, <1>4, <1>5, <1>8 DEF Intact, Places, Current, Cleared, Visited, Loading

LEMMA ReadServerIntact ==
  ASSUME TypeOK, NEW w \in Workers, Intact(w), ReadServer(w)
  PROVE  Intact(w)'
<1>0. /\ UNCHANGED <<users, panel>>
      /\ job[w].op = "create" \/ job[w].op \in Reloading
  BY DEF ReadServer, database, remote, TypeOK, JobsOK
<1>1. CASE Return(w, "error")
  BY <1>0, <1>1, ReturnIntact
<1>2. CASE Goto(w, "list") /\ UNCHANGED <<job, status, snap, done, reply>>
  <2>1. pc[w] = "server" /\ pc'[w] = "list"
    BY <1>2 DEF ReadServer, Goto, TypeOK, HandlersOK
  <2>2. Granted(w)'
    BY <1>0, <1>2, <2>1 DEF Intact, Granted, Holds
  <2> QED
    BY <1>2, <2>1, <2>2 DEF Intact, Places, Current, Cleared, Visited, Loading
<1> QED
  BY <1>1, <1>2 DEF ReadServer

LEMMA ListInboundsIntact ==
  ASSUME TypeOK, NEW w \in Workers, Intact(w), ListInbounds(w)
  PROVE  Intact(w)'
<1> DEFINE s == job[w].cell[1]
           label == IF job[w].op = "recreate" THEN "evict" ELSE "apply"
<1>0. /\ UNCHANGED <<users, panel>>
      /\ job[w].op = "create" \/ job[w].op \in Reloading
  BY DEF ListInbounds, database, remote, TypeOK, JobsOK
<1>1. CASE Return(w, "error")
  BY <1>0, <1>1, ReturnIntact
<1>2. CASE /\ snap' = [snap EXCEPT ![w][s] = panel[s]]
           /\ Goto(w, label)
           /\ UNCHANGED <<job, done, reply>>
  <2>1. pc[w] = "list" /\ pc'[w] = label
    BY <1>2 DEF ListInbounds, Goto, TypeOK, HandlersOK
  <2>2. s \in Servers
    BY <2>1 DEF TypeOK, JobsOK, Cells
  <2>3. snap'[w][s] = panel[s]
    BY <1>2, <2>2 DEF TypeOK, HandlersOK
  <2>4. Granted(w)'
    BY <1>0, <1>2, <2>1 DEF Intact, Granted, Holds
  <2>5. Current(w)'
    BY <1>0, <1>2, <2>3 DEF Current
  <2>6. Places(w)'
    BY <1>2, <2>1 DEF Intact, Places
  <2>7. Cleared(w)'
    <3>1. label = "evict" => done[w] = {}
      BY <2>1 DEF Intact, Places
    <3> QED
      BY <1>0, <1>2, <2>1, <2>3, <3>1 DEF Cleared
  <2>8. Visited(w)'
    BY <2>1 DEF Visited
  <2>9. Loading(w)'
    BY <2>1 DEF Loading
  <2> QED
    BY <2>4, <2>5, <2>6, <2>7, <2>8, <2>9 DEF Intact
<1> QED
  BY <1>1, <1>2 DEF ListInbounds

LEMMA ApplyStateIntact ==
  ASSUME TypeOK, NEW w \in Workers, Intact(w), ApplyState(w)
  PROVE  Intact(w)'
<1> DEFINE s == job[w].cell[1]
           i == job[w].cell[2]
           x == job[w].row.uid
           on == job[w].enabled
           r == UpsertRequest(s, i, snap[w][s], x, ClientOf(job[w].row, on))
<1>0. /\ UNCHANGED users /\ pc[w] = "apply"
      /\ job[w].op \in {"create", "toggle"}
      /\ job[w].op = "create" \/ job[w].op \in Reloading
  BY DEF ApplyState, database, Intact, Places, Reloading
<1>1. CASE Return(w, "error")
  BY <1>0, <1>1, ReturnIntact
<1>2. CASE /\ ~on /\ Return(w, "ok")
           /\ snap[w][s][i][x] = NoClient /\ UNCHANGED remote
  <2>1. job[w].op = "toggle"
    BY <1>0, <1>2 DEF Intact, Granted
  <2>2. panel'[s][i][x] = NoClient
    BY <1>0, <1>2 DEF Intact, Current, remote
  <2>3. Achieved(panel', job[w])
    BY <1>2, <2>1, <2>2 DEF Achieved, Toggled
  <2> QED
    BY <1>0, <1>2, <2>1, <2>3, ReturnIntact
<1>3. ASSUME NEW out \in Outcomes, i \in Inbounds, PanelCall(r, out),
             Return(w, Answer(out))
      PROVE  Intact(w)'
  <2>1. CASE out # "ok"
    <3>1. Answer(out) # "ok"
      BY <2>1 DEF Answer
    <3> QED
      BY <1>0, <1>3, <3>1, ReturnIntact
  <2>2. CASE out = "ok"
    <3>1. /\ job[w].row \in Row /\ x \in UIDs /\ on \in BOOLEAN
          /\ s \in Servers /\ job[w].cell = <<s, i>>
      BY <1>0, UserAssumption DEF TypeOK, JobsOK, HandlersOK, Job, Cells, Row
    <3>2. r \in Request(Servers)
      BY <1>0, <1>3, <3>1, ApplyRequest
    <3>3. /\ r.server = s /\ r.inbound = i /\ r.uid = x
          /\ r.client = Shown(job[w].row, on)
      BY <3>1, ShownIsSent DEF UpsertRequest
    <3> HIDE DEF r, s, i, x, on
    <3>4. PanelCall(r, "ok") /\ RemoteOK
      BY <1>3, <2>2 DEF TypeOK
    <3>5. ASSUME NEW q \in Servers, NEW k \in Inbounds, NEW y \in UIDs
          PROVE  panel'[q][k][y] = IF q = s /\ k = i /\ y = x
                                   THEN Shown(job[w].row, on)
                                   ELSE panel[q][k][y]
      <4>1. panel'[q][k][y] =
              IF q = r.server /\ k = r.inbound /\ y = r.uid THEN r.client
              ELSE panel[q][k][y]
        BY <3>2, <3>4, CallLands
      <4> QED
        BY <3>3, <4>1
    <3>6. CASE job[w].op = "toggle"
      <4>1. panel'[s][i][x] = Shown(job[w].row, on)
        BY <1>3, <3>1, <3>5
      <4>2. Achieved(panel', job[w])
        BY <3>6, <4>1 DEF Achieved, Toggled, s, i, x, on
      <4> QED
        BY <1>0, <1>3, <3>6, <4>2, ReturnIntact
    <3>7. CASE job[w].op = "create"
      <4>1. ASSUME NEW d \in done[w], job[w].result = "ok"
            PROVE  Holds(panel', d, job[w].row)
        <5>1. d[1] \in Servers
          BY DEF TypeOK, HandlersOK
        <5>2. on = TRUE
          BY <1>0, <3>1, <3>7 DEF Intact, Granted, on
        <5>3. CASE <<d[1], d[2]>> = job[w].cell
          <6>1. d[1] = s /\ d[2] = i
            BY <3>1, <5>3
          <6> QED
            BY <1>3, <3>1, <3>5, <5>2, <6>1 DEF Holds, x, i
        <5>4. CASE <<d[1], d[2]>> # job[w].cell
          <6>1. Holds(panel, d, job[w].row)
            BY <3>7, <4>1, <5>4 DEF Intact, Granted
          <6> QED
            BY <3>1, <3>5, <5>1, <5>4, <6>1 DEF Holds, x
        <5> QED
          BY <5>3, <5>4
      <4> QED
        BY <1>0, <1>3, <3>7, <4>1, ReturnIntact
    <3> QED
      BY <1>0, <3>6, <3>7
  <2> QED
    BY <2>1, <2>2
<1> QED
  BY <1>1, <1>2, <1>3 DEF ApplyState

LEMMA EvictOneIntact ==
  ASSUME TypeOK, NEW w \in Workers, Intact(w), NEW t \in Targets,
         EvictOne(w, t)
  PROVE  Intact(w)'
<1> DEFINE r == DeleteRequest(t[1], t[2], t[3])
           s == job[w].cell[1]
<1>1. CASE Return(w, "error")
  <2>1. UNCHANGED users /\ job[w].op = "recreate"
    BY DEF EvictOne, database, Intact, Places
  <2> QED
    BY <1>1, <2>1, ReturnIntact DEF Reloading
<1>2. CASE /\ PanelCall(r, "ok")
           /\ done' = [done EXCEPT ![w] = @ \cup {t}]
           /\ UNCHANGED <<pc, job, status, snap, reply>>
  <2>1. /\ t[1] \in Servers /\ t[2] \in Inbounds /\ t[3] \in UIDs
        /\ t = <<t[1], t[2], t[3]>>
    BY DEF Targets
  <2>2. /\ r \in Request(Servers)
        /\ r.server = t[1] /\ r.inbound = t[2] /\ r.uid = t[3]
        /\ r.client = NoClient
    BY <2>1, DeleteType DEF DeleteRequest
  <2> HIDE DEF r
  <2>3. pc[w] = "evict" /\ s \in Servers
    BY DEF EvictOne, TypeOK, JobsOK, Cells
  <2>4. done'[w] = done[w] \cup {t}
    BY <1>2 DEF TypeOK, HandlersOK
  <2>5. \A i \in Inbounds, x \in UIDs :
          panel'[s][i][x] = IF <<s, i, x>> = t THEN NoClient
                            ELSE panel[s][i][x]
    BY <1>2, <2>1, <2>2, <2>3, CallLands DEF TypeOK
  <2>6. Cleared(w)'
    <3>1. /\ job'[w] = job[w] /\ snap'[w] = snap[w]
          /\ \A i \in Inbounds, x \in UIDs :
               panel[s][i][x] = IF <<s, i, x>> \in done[w] THEN NoClient
                                ELSE snap[w][s][i][x]
      BY <1>2, <2>3 DEF Intact, Cleared
    <3> HIDE DEF s
    <3>2. \A i \in Inbounds, x \in UIDs :
            panel'[s][i][x] = IF <<s, i, x>> \in done'[w] THEN NoClient
                              ELSE snap[w][s][i][x]
      BY <2>4, <2>5, <3>1
    <3> QED
      BY <3>1, <3>2 DEF Cleared, s
  <2>7. job[w].op = "recreate"
    BY <2>3 DEF Intact, Places
  <2> QED
    BY <1>2, <2>3, <2>6, <2>7
    DEF Intact, Places, Current, Visited, Granted, Loading
<1> QED
  BY <1>1, <1>2 DEF EvictOne

\* The last call of a recreation: after it the name is on this server only
\* where it was wanted.
LEMMA ReaddAchieves ==
  ASSUME TypeOK, NEW w \in Workers, Intact(w), Readd(w),
         job[w].cell[2] \in Inbounds, NEW x \in UIDs,
         PanelCall(UpsertRequest(job[w].cell[1], job[w].cell[2],
                                 snap[w][job[w].cell[1]], x,
                                 ClientOf(job[w].row, TRUE)), "ok")
  PROVE  Recreated(panel', job[w])
<1> DEFINE s == job[w].cell[1]
           i == job[w].cell[2]
           r == UpsertRequest(s, i, snap[w][s], x, ClientOf(job[w].row, TRUE))
<1>1. /\ pc[w] = "evict" /\ EvictTargets(w) \subseteq done[w]
      /\ s \in Servers /\ job[w].row \in Row
  BY DEF Readd, TypeOK, JobsOK, Cells
<1>2. r \in Request(Servers)
  BY <1>1, ApplyRequest
<1>3. /\ r.server = s /\ r.inbound = i /\ r.uid = x
      /\ r.client = Shown(job[w].row, TRUE)
  BY <1>1, ShownIsSent DEF UpsertRequest
<1>4. RemoteOK /\ PanelCall(r, "ok") /\ i \in Inbounds
  BY DEF TypeOK
<1>5. \A k \in Inbounds, y \in UIDs :
        panel[s][k][y] = IF <<s, k, y>> \in done[w] THEN NoClient
                         ELSE snap[w][s][k][y]
  BY <1>1 DEF Intact, Cleared
<1> HIDE DEF r, s, i
<1>6. ASSUME NEW k \in Inbounds, NEW y \in UIDs
      PROVE  panel'[s][k][y] = IF k = i /\ y = x THEN Shown(job[w].row, TRUE)
                               ELSE panel[s][k][y]
  <2>1. panel'[s][k][y] =
          IF s = r.server /\ k = r.inbound /\ y = r.uid
          THEN r.client ELSE panel[s][k][y]
    BY <1>1, <1>2, <1>4, CallLands
  <2> QED
    BY <1>3, <2>1
<1>7. panel'[s][i][x] = Shown(job[w].row, TRUE)
  BY <1>4, <1>6
<1>8. ASSUME NEW k \in Inbounds \ {i}, NEW y \in UIDs
      PROVE  ~Matches(panel'[s][k][y], y, job[w].row)
  <2>1. panel'[s][k][y] = panel[s][k][y]
    BY <1>6
  <2>2. CASE <<s, k, y>> \in done[w]
    <3>1. panel[s][k][y] = NoClient
      BY <1>5, <2>2
    <3> QED
      BY <2>1, <3>1 DEF Matches
  <2>3. CASE <<s, k, y>> \notin done[w]
    <3>1. panel[s][k][y] = snap[w][s][k][y]
      BY <1>5, <2>3
    <3>2. <<s, k, y>> \notin EvictTargets(w)
      BY <1>1, <2>3
    <3>3. <<s, k, y>> \in {s} \X (Inbounds \ {i}) \X UIDs
      OBVIOUS
    <3>4. ~Matches(snap[w][s][k][y], y, job[w].row)
      BY <3>2, <3>3 DEF EvictTargets, s, i
    <3> QED
      BY <2>1, <3>1, <3>4
  <2> QED
    BY <2>2, <2>3
<1> QED
  BY <1>7, <1>8 DEF Recreated, s, i

LEMMA ReaddIntact ==
  ASSUME TypeOK, NEW w \in Workers, Intact(w), Readd(w)
  PROVE  Intact(w)'
<1> DEFINE r(x) == UpsertRequest(job[w].cell[1], job[w].cell[2],
                                 snap[w][job[w].cell[1]], x,
                                 ClientOf(job[w].row, TRUE))
<1>0. UNCHANGED users /\ job[w].op = "recreate" /\ job[w].op \in Reloading
  BY DEF Readd, database, Intact, Places, Reloading
<1>1. CASE Return(w, "error")
  BY <1>0, <1>1, ReturnIntact
<1>2. ASSUME NEW x \in UIDs, job[w].cell[2] \in Inbounds,
             PanelCall(r(x), "ok"), Return(w, "ok")
      PROVE  Intact(w)'
  <2>1. Recreated(panel', job[w])
    BY <1>2, ReaddAchieves
  <2>2. Achieved(panel', job[w])
    BY <1>0, <2>1 DEF Achieved
  <2> QED
    BY <1>0, <1>2, <2>2, ReturnIntact
<1>3. \/ Return(w, "error")
      \/ \E x \in UIDs : /\ job[w].cell[2] \in Inbounds
                         /\ PanelCall(r(x), "ok") /\ Return(w, "ok")
  <2>1. ASSUME NEW x \in UIDs, NEW out \in Outcomes,
               job[w].cell[2] \in Inbounds, PanelCall(r(x), out),
               Return(w, IF out = "ok" THEN "ok" ELSE "error")
        PROVE  \/ Return(w, "error")
               \/ PanelCall(r(x), "ok") /\ Return(w, "ok")
    BY <2>1
  <2> HIDE DEF r
  <2> QED
    BY <2>1 DEF Readd, r
<1> HIDE DEF r
<1> QED
  BY <1>1, <1>2, <1>3

LEMMA ListServersIntact ==
  ASSUME TypeOK, NEW w \in Workers, Intact(w), ListServers(w)
  PROVE  Intact(w)'
<1>1. /\ pc[w] = "servers" /\ pc'[w] = "fetch"
      /\ UNCHANGED <<users, panel, job, snap, done>>
  BY DEF ListServers, Goto, TypeOK, HandlersOK, database, remote
<1>2. job[w].op \in {"update", "delete"} /\ done[w] = {}
  BY <1>1 DEF Intact, Places
<1>3. \A s \in Servers : status'[w][s] # "up"
  BY <1>1, EmptyTypes
  DEF ListServers, Asked, Intact, Places, TypeOK, HandlersOK, Unlisted
<1>4. Visited(w)'
  BY <1>1, <1>2, <1>3 DEF Visited
<1> QED
  BY <1>1, <1>2, <1>4 DEF Intact, Places, Current, Cleared, Granted, Loading

LEMMA FetchIntact ==
  ASSUME TypeOK, NEW w \in Workers, Intact(w), NEW s \in Servers, Fetch(w, s)
  PROVE  Intact(w)'
<1>1. /\ pc[w] = "fetch" /\ status[w][s] = "pending"
      /\ UNCHANGED <<users, panel, pc, job, done>>
  BY DEF Fetch, database, remote
<1>2. done[w] = {} /\ job[w].op \in {"update", "delete"}
  BY <1>1 DEF Intact, Visited, Places
<1>3. ASSUME NEW q \in Servers, status'[w][q] = "up"
      PROVE  \/ snap'[w][q] = panel[q]
             \/ status[w][q] = "up" /\ snap'[w][q] = snap[w][q]
  <2>1. CASE q = s
    <3>1. status' # [status EXCEPT ![w][s] = "down"]
      BY <1>3, <2>1 DEF TypeOK, HandlersOK
    <3>2. snap' = [snap EXCEPT ![w][s] = panel[s]]
      BY <3>1 DEF Fetch
    <3> QED
      BY <2>1, <3>2 DEF TypeOK, HandlersOK
  <2>2. CASE q # s
    <3>1. status'[w][q] = status[w][q]
      BY <2>2 DEF Fetch, TypeOK, HandlersOK
    <3>2. snap'[w][q] = snap[w][q]
      BY <2>2 DEF Fetch, TypeOK, HandlersOK
    <3> QED
      BY <1>3, <3>1, <3>2
  <2> QED
    BY <2>1, <2>2
<1>4. ASSUME NEW q \in Servers, NEW i \in Inbounds, status'[w][q] = "up"
      PROVE  panel[q][i][job[w].row.uid] = snap'[w][q][i][job[w].row.uid]
  BY <1>1, <1>2, <1>3, <1>4 DEF Intact, Visited
<1>5. Visited(w)'
  BY <1>1, <1>2, <1>4 DEF Visited
<1> QED
  BY <1>1, <1>2, <1>5 DEF Intact, Places, Current, Cleared, Granted, Loading

LEMMA PushIntact ==
  ASSUME TypeOK, NEW w \in Workers, Intact(w), NEW t \in Listed(w),
         Joined(w), NEW r \in Request(Servers), Push(w, t, r),
         r.server = t[1], r.inbound = t[2], r.uid = t[3],
         r.client = Left(job[w], snap[w][t[1]][t[2]][t[3]])
  PROVE  Intact(w)'
<1>1. CASE Finish(w, "error")
  BY <1>1, FinishIntact
<1>2. CASE /\ PanelCall(r, "ok")
           /\ done' = [done EXCEPT ![w] = @ \cup {t}]
           /\ UNCHANGED <<pc, job, status, snap, reply>>
  <2> DEFINE x == job[w].row.uid
  <2>1. /\ t[1] \in Servers /\ t[2] \in Inbounds /\ t[3] \in UIDs
        /\ t = <<t[1], t[2], t[3]>> /\ t[3] = x
    BY DEF Listed, Targets
  <2>2. /\ pc[w] = "fetch" /\ \A s \in Servers : status[w][s] # "pending"
        /\ job[w].op \in {"update", "delete"}
    BY DEF Joined, Intact, Places
  <2>3. done'[w] = done[w] \cup {t}
    BY <1>2 DEF TypeOK, HandlersOK
  <2>4. done'[w] \subseteq Listed(w)'
    BY <1>2, <2>2, <2>3 DEF Intact, Visited, Listed
  <2>5. RemoteOK
    BY DEF TypeOK
  <2>6. ASSUME NEW s \in Servers, NEW i \in Inbounds, status[w][s] = "up"
        PROVE  panel'[s][i][x] = IF <<s, i, x>> \in done'[w]
                                 THEN Left(job[w], snap[w][s][i][x])
                                 ELSE snap[w][s][i][x]
    <3>1. panel'[s][i][x] = IF s = t[1] /\ i = t[2] THEN r.client
                            ELSE panel[s][i][x]
      BY <1>2, <2>1, <2>5, CallLands
    <3>2. panel[s][i][x] = IF <<s, i, x>> \in done[w]
                           THEN Left(job[w], snap[w][s][i][x])
                           ELSE snap[w][s][i][x]
      BY <2>2, <2>6 DEF Intact, Visited
    <3>3. CASE s = t[1] /\ i = t[2]
      <4>1. <<s, i, x>> = t
        BY <2>1, <3>3
      <4> QED
        BY <2>1, <2>3, <3>1, <3>3, <4>1
    <3>4. CASE ~(s = t[1] /\ i = t[2])
      <4>1. <<s, i, x>> # t
        BY <3>4
      <4> QED
        BY <2>3, <3>1, <3>2, <3>4, <4>1
    <3> QED
      BY <3>3, <3>4
  <2>7. Visited(w)'
    BY <1>2, <2>2, <2>4, <2>6 DEF Visited
  <2> QED
    BY <1>2, <2>2, <2>7 DEF Intact, Places, Current, Cleared, Granted, Loading
<1> QED
  BY <1>1, <1>2 DEF Push

LEMMA PushOneIntact ==
  ASSUME TypeOK, NEW w \in Workers, Intact(w), NEW t \in Targets,
         PushOne(w, t)
  PROVE  Intact(w)'
<1> DEFINE old == snap[w][t[1]][t[2]][t[3]]
           r == UpsertRequest(t[1], t[2], snap[w][t[1]], t[3],
                              ClientOf(job[w].form, old.enable))
<1>1. t \in Listed(w) /\ Joined(w) /\ Push(w, t, r) /\ job[w].op = "update"
  BY DEF PushOne
<1>2. /\ r \in Request(Servers)
      /\ r.server = t[1] /\ r.inbound = t[2] /\ r.uid = t[3]
  BY <1>1, PushRequest
<1>3. old.enable \in BOOLEAN /\ job[w].form \in Row
  BY <1>1 DEF Listed, Targets, Content, Client, TypeOK, HandlersOK, JobsOK
<1>4. r.client = Shown(job[w].form, old.enable)
  BY <1>3, ShownIsSent DEF UpsertRequest
<1>5. r.client = Left(job[w], old)
  BY <1>1, <1>4 DEF Left
<1> HIDE DEF r, old
<1> QED
  BY <1>1, <1>2, <1>5, PushIntact DEF old

LEMMA PurgeOneIntact ==
  ASSUME TypeOK, NEW w \in Workers, Intact(w), NEW t \in Targets,
         PurgeOne(w, t)
  PROVE  Intact(w)'
<1> DEFINE r == DeleteRequest(t[1], t[2], t[3])
<1>1. t \in Listed(w) /\ Joined(w) /\ Push(w, t, r) /\ job[w].op = "delete"
  BY DEF PurgeOne
<1>2. /\ r \in Request(Servers)
      /\ r.server = t[1] /\ r.inbound = t[2] /\ r.uid = t[3]
      /\ r.client = NoClient
  BY DeleteType DEF DeleteRequest, Targets
<1>3. r.client = Left(job[w], snap[w][t[1]][t[2]][t[3]])
  BY <1>1, <1>2 DEF Left
<1> HIDE DEF r
<1> QED
  BY <1>1, <1>2, <1>3, PushIntact

\* Loading the page changes no panel and not the result.
LEMMA PageIntact ==
  ASSUME TypeOK, NEW w \in Workers, Intact(w),
         Reload(w) \/ Render(w) \/ \E s \in Servers : Refetch(w, s)
  PROVE  Intact(w)'
<1>1. CASE \E r : Finish(w, r)
  BY <1>1, FinishIntact
<1>2. CASE ~\E r : Finish(w, r)
  <2>1. /\ pc[w] \in {"reload", "refetch"} /\ pc'[w] = "refetch"
        /\ UNCHANGED <<panel, job, done>>
    BY <1>2 DEF Reload, Render, Refetch, Goto, remote, TypeOK, HandlersOK
  <2>2. job[w].op \in {"toggle", "recreate"}
    BY <2>1 DEF Intact, Places, Reloading
  <2> QED
    BY <2>1, <2>2
    DEF Intact, Places, Current, Cleared, Visited, Granted, Loading
<1> QED
  BY <1>1, <1>2

LEMMA StepIntact ==
  ASSUME TypeOK, NEW w \in Workers, Intact(w), Step(w)
  PROVE  Intact(w)'
<1>1. CASE \E r : Finish(w, r)
  BY <1>1, FinishIntact
<1>2. CASE CreateReturns(w) \/ CommitUpdate(w) \/ CommitDelete(w)
  BY <1>1, <1>2 DEF CreateReturns, CommitUpdate, CommitDelete
<1> QED
  BY <1>2, ReadCreatedIntact, NextSelectionIntact, ReadServerIntact,
     ListInboundsIntact, ApplyStateIntact, EvictOneIntact, ReaddIntact,
     ListServersIntact, FetchIntact, PushOneIntact, PurgeOneIntact, PageIntact
  DEF Step

LEMMA UndisturbedNext ==
  ASSUME Alone, TypeOK, Undisturbed, [Next]_vars
  PROVE  Undisturbed'
<1>1. CASE UNCHANGED <<users, panel, late, handler>>
  <2> SUFFICES ASSUME NEW w \in Workers PROVE Intact(w)'
    BY <1>1 DEF Undisturbed
  <2>0. Intact(w) /\ UNCHANGED <<users, panel, pc, job, status, snap, done>>
    BY <1>1 DEF Undisturbed, handler
  <2>1. Places(w)' /\ Current(w)' /\ Cleared(w)'
    BY <2>0 DEF Intact, Places, Current, Cleared
  <2>2. Visited(w)'
    BY <2>0 DEF Intact, Visited, Listed
  <2>3. Granted(w)' /\ Loading(w)'
    BY <2>0 DEF Intact, Granted, Loading
  <2> QED
    BY <2>1, <2>2, <2>3 DEF Intact
<1>2. ASSUME NEW w \in Workers, Accepted(w) \/ Step(w)
      PROVE  Undisturbed'
  <2>1. Intact(w)'
    BY <1>2, AcceptedIntact, StepIntact DEF Undisturbed
  <2>2. late' = late
    <3>1. ASSUME NEW r, NEW out, PanelCall(r, out) PROVE late' = late
      BY <3>1, NothingDelayed DEF Alone
    <3>2. CASE Accepted(w)
      BY <3>2
      DEF Accepted, CreateUser, InsertFails, UpdateUser, DeleteUser,
          ToggleUserInbound, RecreateUserInbound, ReadUser, remote
    <3>3. CASE Step(w)
      BY <3>1, <3>3
      DEF Step, ReadCreated, NextSelection, CreateReturns, ReadServer,
          ListInbounds, ApplyState, Readd, ListServers, Fetch, EvictOne,
          PushOne, PurgeOne, Push, CommitUpdate, CommitDelete, Reload,
          Refetch, Render, remote
    <3> QED
      BY <1>2, <3>2, <3>3
  <2> QED
    BY <2>1, <2>2 DEF Undisturbed, Alone
<1>3. CASE Restart
  <2>1. ASSUME NEW w \in Workers PROVE Intact(w)'
    <3>1. /\ pc'[w] = "idle" /\ done'[w] = {} /\ job'[w].op = "none"
          /\ status'[w] = Unlisted
      BY <1>3, EmptyTypes DEF Restart
    <3> QED
      BY <3>1 DEF Intact, Places, Current, Cleared, Visited, Granted, Loading
  <2> QED
    BY <1>3, <2>1 DEF Undisturbed, Restart, remote
<1>4. ASSUME NEW r \in late PROVE FALSE
  BY <1>4 DEF Undisturbed
<1>5. CASE Environment
  BY <1>1, <1>3, <1>4, <1>5 DEF Environment, EditServer, Rest, vars, database,
                                remote
<1> QED
  BY <1>1, <1>2, <1>5 DEF Next, vars, database, remote

\* Alone says nothing of the state.
LEMMA StaysAlone == Alone => []Alone
OBVIOUS

\* Nothing comes between a lonely handler and the panels.
LEMMA UndisturbedHolds == Alone /\ Spec => []Undisturbed
<1>1. ASSUME Init PROVE Undisturbed
  <2>1. ASSUME NEW w \in Workers PROVE Intact(w)
    <3>1. /\ pc[w] = "idle" /\ done[w] = {} /\ job[w].op = "none"
          /\ status[w] = Unlisted
      BY <1>1, EmptyTypes DEF Init
    <3> QED
      BY <3>1 DEF Intact, Places, Current, Cleared, Visited, Granted, Loading
  <2> QED
    BY <1>1, <2>1 DEF Undisturbed, Init
<1>2. Alone /\ TypeOK /\ Undisturbed /\ [Next]_vars => Undisturbed'
  BY UndisturbedNext
<1> QED
  BY <1>1, <1>2, StaysAlone, TypeCorrect, PTL DEF Spec

\* DeleteUser answers "ok" only when the row is gone and no server that
\* answered still holds a client of the user: for any number of servers,
\* inbounds, users and faults, with one handler at work.
THEOREM DeletesComplete == Alone /\ Spec => DeleteIsComplete
<1>1. TypeOK /\ Undisturbed /\ [Next]_vars =>
        [\A w \in Workers : Succeeds(w, "delete") =>
           /\ users'[job[w].id] = NoUser
           /\ \A s \in Servers : status[w][s] = "up" =>
                Gone(panel'[s], job[w].row.uid)]_vars
  <2> SUFFICES ASSUME TypeOK, Undisturbed, Next,
                      NEW w \in Workers, Succeeds(w, "delete")
               PROVE  /\ users'[job[w].id] = NoUser
                      /\ \A s \in Servers : status[w][s] = "up" =>
                           Gone(panel'[s], job[w].row.uid)
    OBVIOUS
  <2>1. CommitDelete(w)
    BY WhoSucceeds DEF Winning, Reloading
  <2>2. pc[w] = "fetch" /\ job[w].op = "delete" /\ Listed(w) \subseteq done[w]
        /\ panel' = panel /\ job[w].id \in IDs /\ job[w].row.uid \in UIDs
    BY <2>1, UserAssumption
    DEF CommitDelete, Joined, remote, TypeOK, JobsOK, Row
  <2>3. users'[job[w].id] = NoUser
    <3>1. ~Finish(w, "error")
      BY FinishOk DEF Succeeds
    <3> QED
      BY <2>1, <2>2, <3>1 DEF CommitDelete, TypeOK, DataOK
  <2>4. ASSUME NEW s \in Servers, status[w][s] = "up", NEW i \in Inbounds
        PROVE  panel[s][i][job[w].row.uid] = NoClient
    <3> DEFINE x == job[w].row.uid
    <3>1. panel[s][i][x] = IF <<s, i, x>> \in done[w] THEN NoClient
                           ELSE snap[w][s][i][x]
      BY <2>2, <2>4 DEF Undisturbed, Intact, Visited, Left
    <3>2. CASE <<s, i, x>> \in done[w]
      BY <3>1, <3>2
    <3>3. CASE <<s, i, x>> \notin done[w]
      <4>1. <<s, i, x>> \in Targets /\ <<s, i, x>> \notin Listed(w)
        BY <2>2, <3>3 DEF Targets
      <4> QED
        BY <2>4, <3>1, <3>3, <4>1 DEF Listed
    <3> QED
      BY <3>2, <3>3
  <2> QED
    BY <2>2, <2>3, <2>4 DEF Gone
<1> QED
  BY <1>1, TypeCorrect, UndisturbedHolds, PTL
  DEF Spec, DeleteIsComplete

\* UpdateUser answers "ok" only when the row and all the user's clients on
\* the servers that answered bear the new name and subscription id, each as
\* enabled as it was listed.
THEOREM UpdatesReachAll == Alone /\ Spec => UpdateReachesAll
<1>1. TypeOK /\ Undisturbed /\ [Next]_vars =>
        [\A w \in Workers : Succeeds(w, "update") =>
           /\ users'[job[w].id] = job[w].form
           /\ \A s \in Servers : status[w][s] = "up" =>
                \A i \in Inbounds :
                  LET old == snap[w][s][i][job[w].row.uid]
                      new == panel'[s][i][job[w].row.uid]
                  IN IF old = NoClient THEN new = NoClient
                     ELSE new = Shown(job[w].form, old.enable)]_vars
  <2> SUFFICES ASSUME TypeOK, Undisturbed, Next,
                      NEW w \in Workers, Succeeds(w, "update")
               PROVE  /\ users'[job[w].id] = job[w].form
                      /\ \A s \in Servers : status[w][s] = "up" =>
                           \A i \in Inbounds :
                             LET old == snap[w][s][i][job[w].row.uid]
                                 new == panel'[s][i][job[w].row.uid]
                             IN IF old = NoClient THEN new = NoClient
                                ELSE new = Shown(job[w].form, old.enable)
    OBVIOUS
  <2>1. CommitUpdate(w)
    BY WhoSucceeds DEF Winning, Reloading
  <2>2. pc[w] = "fetch" /\ job[w].op = "update" /\ Listed(w) \subseteq done[w]
        /\ panel' = panel /\ job[w].id \in IDs /\ job[w].row.uid \in UIDs
    BY <2>1, UserAssumption
    DEF CommitUpdate, Joined, remote, TypeOK, JobsOK, Row
  <2>3. users'[job[w].id] = job[w].form
    <3>1. ~Finish(w, "error")
      BY FinishOk DEF Succeeds
    <3>2. Finish(w, RowsAffected(job[w].id))
      BY <2>1, <3>1 DEF CommitUpdate
    <3>3. Stored(job[w].id)
      BY <3>2, FinishOk DEF Succeeds, RowsAffected, Stored
    <3> QED
      BY <2>1, <2>2, <3>1, <3>3 DEF CommitUpdate, TypeOK, DataOK
  <2>4. ASSUME NEW s \in Servers, status[w][s] = "up", NEW i \in Inbounds
        PROVE  LET old == snap[w][s][i][job[w].row.uid]
                   new == panel[s][i][job[w].row.uid]
               IN IF old = NoClient THEN new = NoClient
                  ELSE new = Shown(job[w].form, old.enable)
    <3> DEFINE x == job[w].row.uid
               old == snap[w][s][i][x]
    <3>1. panel[s][i][x] = IF <<s, i, x>> \in done[w]
                           THEN Shown(job[w].form, old.enable) ELSE old
      BY <2>2, <2>4 DEF Undisturbed, Intact, Visited, Left
    <3>2. <<s, i, x>> \in done[w] <=> old # NoClient
      <4>1. <<s, i, x>> \in Targets
        BY <2>2 DEF Targets
      <4>2. done[w] = Listed(w)
        BY <2>2 DEF Undisturbed, Intact, Visited
      <4> QED
        BY <2>4, <4>1, <4>2 DEF Listed
    <3> HIDE DEF old
    <3> QED
      BY <3>1, <3>2 DEF old
  <2> QED
    BY <2>2, <2>3, <2>4
<1> QED
  BY <1>1, TypeCorrect, UndisturbedHolds, PTL
  DEF Spec, UpdateReachesAll

\* ToggleUserInbound answers "ok" only when the client is there with the
\* wanted flag and the user's present name, or is absent and was to be off.
THEOREM TogglesEffective == Alone /\ Spec => ToggleIsEffective
<1>1. TypeOK /\ Undisturbed /\ [Next]_vars =>
        [\A w \in Workers : Succeeds(w, "toggle") =>
           LET c == panel'[job[w].cell[1]][job[w].cell[2]][job[w].row.uid]
           IN \/ c = Shown(job[w].row, job[w].enabled)
              \/ c = NoClient /\ ~job[w].enabled]_vars
  <2> SUFFICES ASSUME TypeOK, Undisturbed, Next,
                      NEW w \in Workers, Succeeds(w, "toggle")
               PROVE  Toggled(panel', job[w])
    BY DEF Toggled
  <2>1. pc[w] = "refetch" /\ Finish(w, job[w].result) /\ panel' = panel
    BY WhoSucceeds DEF Winning, Reloading, Render, remote
  <2>2. job[w].result = "ok" /\ job[w].op = "toggle"
    BY <2>1, FinishOk DEF Succeeds
  <2> QED
    BY <2>1, <2>2 DEF Undisturbed, Intact, Loading, Achieved
<1> QED
  BY <1>1, TypeCorrect, UndisturbedHolds, PTL DEF Spec, ToggleIsEffective

\* RecreateUserInbound answers "ok" only when the name occurs on the server
\* in the target inbound alone, enabled, and the UID nowhere else.
THEOREM RecreatesExclusive == Alone /\ Spec => RecreateIsExclusive
<1>1. TypeOK /\ Undisturbed /\ [Next]_vars =>
        [\A w \in Workers : Succeeds(w, "recreate") =>
           LET here == panel'[job[w].cell[1]]
           IN /\ \A i \in Inbounds \ {job[w].cell[2]}, x \in UIDs :
                   ~Matches(here[i][x], x, job[w].row)
              /\ \E x \in UIDs :
                   here[job[w].cell[2]][x] = Shown(job[w].row, TRUE)
        ]_vars
  <2> SUFFICES ASSUME TypeOK, Undisturbed, Next,
                      NEW w \in Workers, Succeeds(w, "recreate")
               PROVE  Recreated(panel', job[w])
    BY DEF Recreated
  <2>1. pc[w] = "refetch" /\ Finish(w, job[w].result) /\ panel' = panel
    BY WhoSucceeds DEF Winning, Reloading, Render, remote
  <2>2. job[w].result = "ok" /\ job[w].op = "recreate"
    BY <2>1, FinishOk DEF Succeeds
  <2> QED
    BY <2>1, <2>2 DEF Undisturbed, Intact, Loading, Achieved
<1> QED
  BY <1>1, TypeCorrect, UndisturbedHolds, PTL DEF Spec, RecreateIsExclusive

\* CreateUser answers "ok" only when the row is stored and every inbound
\* that was ticked holds an enabled client for it.
THEOREM CreatesGrantAll == Alone /\ Spec => CreateGrantsAll
<1>1. TypeOK /\ Undisturbed /\ [Next]_vars =>
        [\A w \in Workers : Succeeds(w, "create") =>
           /\ users[job[w].id] = job[w].row
           /\ \A c \in job[w].picks :
                panel[c[1]][c[2]][job[w].row.uid]
                  = Shown(job[w].row, TRUE)]_vars
  <2> SUFFICES ASSUME TypeOK, Undisturbed, Next,
                      NEW w \in Workers, Succeeds(w, "create")
               PROVE  /\ users[job[w].id] = job[w].row
                      /\ \A c \in job[w].picks :
                           panel[c[1]][c[2]][job[w].row.uid]
                             = Shown(job[w].row, TRUE)
    OBVIOUS
  <2>1. CreateReturns(w)
    BY WhoSucceeds DEF Winning, Reloading
  <2>2. /\ pc[w] = "select" /\ job[w].picks \subseteq Tried(w)
        /\ job[w].result = "ok" /\ job[w].op = "create"
    BY <2>1, FinishOk DEF CreateReturns, Succeeds
  <2>3. job[w].cell = NoCell /\ users[job[w].id] = job[w].row
    BY <2>2 DEF Undisturbed, Intact, Granted
  <2>4. ASSUME NEW c \in job[w].picks
        PROVE  panel[c[1]][c[2]][job[w].row.uid] = Shown(job[w].row, TRUE)
    <3>1. PICK d \in done[w] : c = <<d[1], d[2]>>
      BY <2>2 DEF Tried
    <3>2. c \in Cells
      BY DEF TypeOK, HandlersOK, Job
    <3>3. c # job[w].cell
      BY <2>3, <3>2, UserAssumption
    <3>4. Holds(panel, d, job[w].row)
      BY <2>2, <3>1, <3>3 DEF Undisturbed, Intact, Granted
    <3> QED
      BY <3>1, <3>4 DEF Holds
  <2> QED
    BY <2>3, <2>4
<1> QED
  BY <1>1, TypeCorrect, UndisturbedHolds, PTL
  DEF Spec, CreateGrantsAll
=============================================================================
