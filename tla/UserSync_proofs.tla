--------------------------- MODULE UserSync_proofs ---------------------------
(***************************************************************************)
(* Proofs about UserSync for any number of handlers, servers, inbounds,    *)
(* users and faults: type correctness, that foreign clients are never      *)
(* touched, and that no client appears under a UID nobody ever stored.     *)
(***************************************************************************)
EXTENDS UserSync, TLAPS

----------------------------------------------------------------------------
(* Requests and what they do to a panel. *)

LEMMA UpsertType ==
  ASSUME NEW s \in Servers, NEW i \in Inbounds, NEW listed \in Content,
         NEW x \in UIDs, NEW c \in Client
  PROVE  /\ UpsertRequest(s, i, listed, x, c) \in Request(Servers)
         /\ LET r == UpsertRequest(s, i, listed, x, c)
            IN /\ r.server = s /\ r.inbound = i /\ r.uid = x
               /\ r.kind = "add" <=> listed[i][x] = NoClient
BY SubAssumption DEF UpsertRequest, Request, ToAPIClient, Client

LEMMA DeleteType ==
  ASSUME NEW s \in Servers, NEW i \in Inbounds, NEW x \in UIDs
  PROVE  /\ DeleteRequest(s, i, x) \in Request(Servers)
         /\ LET r == DeleteRequest(s, i, x)
            IN r.server = s /\ r.inbound = i /\ r.uid = x /\ r.kind = "delete"
BY DEF DeleteRequest, Request

LEMMA ClientType ==
  ASSUME NEW row \in Row, NEW on \in BOOLEAN
  PROVE  ClientOf(row, on) \in Client
BY UserAssumption DEF ClientOf, Client, Row

LEMMA RequestFields ==
  ASSUME NEW r \in Request(Servers)
  PROVE  /\ r.server \in Servers /\ r.inbound \in Inbounds /\ r.uid \in UIDs
         /\ r.client \in Client \cup {NoClient}
BY DEF Request

LEMMA WrittenType ==
  ASSUME NEW content \in Content, NEW r \in Request(Servers)
  PROVE  /\ Written(content, r) \in Content
         /\ \A i \in Inbounds, x \in UIDs :
              \/ Written(content, r)[i][x] = content[i][x]
              \/ i = r.inbound /\ x = r.uid
BY RequestFields DEF Written, Content

\* The effect of a request on all panels, if it is accepted.
LEMMA ArriveEffect ==
  ASSUME RemoteOK, NEW r \in Request(Servers),
         panel' = [panel EXCEPT ![r.server] = Written(panel[r.server], r)]
  PROVE  /\ panel' \in [Servers -> Content]
         /\ \A t \in Targets :
              \/ panel'[t[1]][t[2]][t[3]] = panel[t[1]][t[2]][t[3]]
              \/ t = <<r.server, r.inbound, r.uid>>
<1> DEFINE s == r.server
           new == Written(panel[s], r)
<1>1. s \in Servers /\ panel[s] \in Content
  BY RequestFields DEF RemoteOK
<1>2. new \in Content
  BY <1>1, WrittenType
<1>3. panel' \in [Servers -> Content]
  BY <1>2 DEF RemoteOK
<1>4. ASSUME NEW t \in Targets
      PROVE  \/ panel'[t[1]][t[2]][t[3]] = panel[t[1]][t[2]][t[3]]
             \/ t = <<r.server, r.inbound, r.uid>>
  <2>0. /\ t[1] \in Servers /\ t[2] \in Inbounds /\ t[3] \in UIDs
        /\ t = <<t[1], t[2], t[3]>>
    BY DEF Targets
  <2>1. CASE t[1] # s
    BY <2>0, <2>1 DEF RemoteOK
  <2>2. CASE t[1] = s
    <3>1. panel'[t[1]] = new
      BY <2>0, <2>2 DEF RemoteOK
    <3>2. \/ new[t[2]][t[3]] = panel[s][t[2]][t[3]]
          \/ t[2] = r.inbound /\ t[3] = r.uid
      BY <1>1, <2>0, WrittenType
    <3> QED
      BY <2>0, <2>2, <3>1, <3>2
  <2> QED
    BY <2>1, <2>2
<1> QED
  BY <1>3, <1>4

\* One panel call disturbs at most the cell it names, and only when the
\* panel accepts the request.
LEMMA PanelCallEffect ==
  ASSUME RemoteOK, BudgetOK, NEW r \in Request(Servers), NEW out,
         PanelCall(r, out)
  PROVE  /\ panel' \in [Servers -> Content]
         /\ \A t \in Targets :
              \/ panel'[t[1]][t[2]][t[3]] = panel[t[1]][t[2]][t[3]]
              \/ /\ t = <<r.server, r.inbound, r.uid>>
                 /\ Accepts(panel[r.server], r)
         /\ late' \subseteq late \cup {r}
         /\ faults' \in Nat
<1>1. faults' \in Nat
  BY DEF PanelCall, Fault, BudgetOK
<1>2. late' \subseteq late \cup {r}
  BY DEF PanelCall
<1>3. \/ panel' = panel
      \/ /\ panel' = [panel EXCEPT ![r.server] = Written(panel[r.server], r)]
         /\ Accepts(panel[r.server], r)
  BY DEF PanelCall
<1> QED
  BY <1>1, <1>2, <1>3, ArriveEffect DEF RemoteOK

----------------------------------------------------------------------------
(* What a handler keeps between two calls. *)

LEMMA EmptyTypes ==
  /\ NoJob \in Job /\ NoJob.op = "none"
  /\ EmptyContent \in Content
  /\ Unlisted \in [Servers -> {"skipped", "pending", "up", "down"}]
  /\ NoListing \in [Servers -> Content]
<1>1. EmptyContent \in Content
  BY DEF EmptyContent, Content
<1>2. NoJob \in Job /\ NoJob.op = "none"
  BY DEF NoJob, JobOf, Job
<1> QED
  BY <1>1, <1>2 DEF Unlisted, NoListing

LEMMA FinishType ==
  ASSUME HandlersOK, JobsOK, NEW w \in Workers,
         NEW r \in {"ok", "error", "conflict"}, Finish(w, r)
  PROVE  HandlersOK' /\ JobsOK'
<1>1. HandlersOK'
  BY EmptyTypes DEF HandlersOK, Finish, Goto, Labels
<1>2. ASSUME NEW v \in Workers
      PROVE  \/ v # w /\ pc'[v] = pc[v] /\ job'[v] = job[v]
             \/ v = w /\ pc'[v] = "idle" /\ job'[v] = NoJob
  BY DEF HandlersOK, Finish, Goto
<1>3. JobsOK'
  BY <1>2, EmptyTypes DEF JobsOK
<1> QED
  BY <1>1, <1>3

\* What a job must bring along for the place label.
Fits(j, label) ==
  /\ j \in Job
  /\ j.op # "none" /\ j.id \in IDs
  /\ label \in Labels \ {"idle"}
  /\ label \notin {"reload", "refetch"} => j.row \in Row
  /\ label \in {"reload", "refetch"} => j.op \in Reloading
  /\ label \in {"created", "select"} => j.op = "create"
  /\ label \in {"server", "list", "apply", "evict"} =>
       j.cell \in Cells /\ j.op \in {"create"} \cup Reloading
  /\ j.op = "update" => j.form \in Row

\* Handler w goes to label with the job j.
LEMMA PlaceType ==
  ASSUME HandlersOK, JobsOK, NEW w \in Workers, NEW j, NEW label,
         Fits(j, label), Goto(w, label), job' = [job EXCEPT ![w] = j]
  PROVE  JobsOK' /\ pc' \in [Workers -> Labels] /\ job' \in [Workers -> Job]
<1>1. ASSUME NEW v \in Workers
      PROVE  \/ v # w /\ pc'[v] = pc[v] /\ job'[v] = job[v]
             \/ v = w /\ pc'[v] = label /\ job'[v] = j
  BY DEF HandlersOK, Goto
<1>2. JobsOK'
  BY <1>1 DEF JobsOK, Fits
<1> QED
  BY <1>2 DEF HandlersOK, Goto, Fits

LEMMA BeginType ==
  ASSUME HandlersOK, JobsOK, NEW w \in Workers, NEW j, NEW label,
         Fits(j, label), Begin(w, j, label)
  PROVE  HandlersOK' /\ JobsOK'
BY PlaceType DEF HandlersOK, Begin

\* CreateUser's note of one result leaves the rest of the job alone.
LEMMA NotingType ==
  ASSUME NEW j \in Job, NEW r
  PROVE  LET k == Noting(j, r)
         IN /\ k \in Job /\ k.op = j.op /\ k.row = j.row
            /\ k.id = j.id /\ k.form = j.form
<1>0. Worse(j.result, r) \in {"ok", "error", "conflict"}
  BY DEF Job, Worse
<1>1. Noting(j, r) \in Job
  BY <1>0 DEF Job, Noting
<1>2. Noting(j, r).op = j.op /\ Noting(j, r).row = j.row
  BY DEF Job, Noting
<1>3. Noting(j, r).id = j.id /\ Noting(j, r).form = j.form
  BY DEF Job, Noting
<1> QED
  BY <1>1, <1>2, <1>3

\* So does the choice of the next ticked box, but for the inbound.
LEMMA SelectingType ==
  ASSUME NEW j \in Job, NEW c \in Cells
  PROVE  LET k == Selecting(j, c)
         IN /\ k \in Job /\ k.op = j.op /\ k.row = j.row
            /\ k.id = j.id /\ k.form = j.form /\ k.cell = c
<1>1. Selecting(j, c) \in Job
  BY DEF Job, Selecting
<1>2. Selecting(j, c).op = j.op /\ Selecting(j, c).row = j.row
  BY DEF Job, Selecting
<1>3. Selecting(j, c).id = j.id /\ Selecting(j, c).form = j.form
  BY DEF Job, Selecting
<1>4. Selecting(j, c).cell = c
  BY DEF Job, Selecting
<1> QED
  BY <1>1, <1>2, <1>3, <1>4

\* The result of an operation whose page is still to be loaded.
LEMMA EndingType ==
  ASSUME NEW j \in Job, NEW r \in {"ok", "error", "conflict"}
  PROVE  LET k == Ending(j, r)
         IN /\ k \in Job /\ k.op = j.op /\ k.row = j.row
            /\ k.id = j.id /\ k.form = j.form /\ k.cell = j.cell
            /\ k.enabled = j.enabled /\ k.picks = j.picks /\ k.result = r
<1>1. Ending(j, r) \in Job
  BY DEF Job, Ending
<1>2. /\ Ending(j, r).op = j.op /\ Ending(j, r).row = j.row
      /\ Ending(j, r).id = j.id /\ Ending(j, r).form = j.form
  BY DEF Job, Ending
<1>3. /\ Ending(j, r).cell = j.cell /\ Ending(j, r).enabled = j.enabled
      /\ Ending(j, r).picks = j.picks /\ Ending(j, r).result = r
  BY DEF Job, Ending
<1> QED
  BY <1>1, <1>2, <1>3

LEMMA ReturnType ==
  ASSUME HandlersOK, JobsOK, NEW w \in Workers,
         pc[w] \in {"server", "list", "apply", "evict"},
         NEW r \in {"ok", "error", "conflict"}, Return(w, r)
  PROVE  HandlersOK' /\ JobsOK'
<1>0. job[w] \in Job
  BY DEF HandlersOK
<1>1. /\ status' = [status EXCEPT ![w] = Unlisted]
      /\ snap' = [snap EXCEPT ![w] = NoListing]
      /\ done' = done \/ done' = [done EXCEPT ![w] = {}]
      /\ reply' = reply
  BY DEF Return
<1>2. PICK j, label : /\ Fits(j, label) /\ Goto(w, label)
                      /\ job' = [job EXCEPT ![w] = j]
  <2>1. CASE job[w].op = "create"
    <3>1. Fits(Noting(job[w], r), "select")
      BY <1>0, <2>1, NotingType DEF Fits, JobsOK, Labels
    <3> QED
      BY <2>1, <3>1 DEF Return
  <2>2. CASE job[w].op # "create"
    <3>1. Fits(Ending(job[w], r), "reload")
      BY <1>0, <2>2, EndingType DEF Fits, JobsOK, Labels, Reloading
    <3> QED
      BY <2>2, <3>1 DEF Return
  <2> QED
    BY <2>1, <2>2
<1>3. JobsOK' /\ pc' \in [Workers -> Labels] /\ job' \in [Workers -> Job]
  BY <1>2, PlaceType
<1>4. done' \in [Workers -> SUBSET (Servers \X InboundIDs \X UIDs)]
  BY <1>1 DEF HandlersOK
<1>5. HandlersOK'
  BY <1>1, <1>3, <1>4, EmptyTypes DEF HandlersOK
<1> QED
  BY <1>3, <1>5

\* A step that only moves handler w to another place.
LEMMA MoveType ==
  ASSUME HandlersOK, JobsOK, NEW w \in Workers, NEW label,
         pc[w] # "idle", Fits(job[w], label), Goto(w, label), UNCHANGED job
  PROVE  JobsOK' /\ pc' \in [Workers -> Labels]
<1>1. job' = [job EXCEPT ![w] = job[w]]
  BY DEF HandlersOK
<1> QED
  BY <1>1, PlaceType

\* The record a handler starts with.
LEMMA StartType ==
  ASSUME NEW op \in AllOps, NEW u \in IDs, NEW row \in Row,
         NEW form \in Row \cup {NoUser}, NEW c \in Cells \cup {NoCell},
         NEW on \in BOOLEAN, NEW picks \in SUBSET Cells,
         NEW label \in Labels \ {"idle"},
         label \in {"created", "server", "servers"},
         label = "created" => op = "create",
         label = "server" => c \in Cells /\ op \in Reloading,
         op = "update" => form \in Row
  PROVE  Fits(JobOf(op, u, row, form, c, on, picks), label)
BY DEF Fits, JobOf, Job, AllOps

----------------------------------------------------------------------------
(* Type correctness. *)

LEMMA InitType == Init => TypeOK
<1> SUFFICES ASSUME Init PROVE TypeOK
  OBVIOUS
<1> USE DEF Init
<1>1. DataOK
  BY UserAssumption DEF DataOK
<1>2. RemoteOK
  BY UserAssumption DEF RemoteOK
<1>3. HandlersOK /\ JobsOK
  BY EmptyTypes DEF HandlersOK, JobsOK, Labels
<1>4. BudgetOK
  BY DEF BudgetOK
<1> QED
  BY <1>1, <1>2, <1>3, <1>4 DEF TypeOK

LEMMA CreateUserType ==
  ASSUME TypeOK, NEW w \in Workers, CreateUser(w)
  PROVE  TypeOK'
<1>1. PICK row \in Row, picks \in Selections : CreateUser(w)!(row, picks)
  BY DEF CreateUser
<1> USE DEF InsertFails
<1>2. lastID + 1 \in IDs /\ lastID + 1 \in 0..MaxUsers
  BY <1>1, UserAssumption DEF TypeOK, DataOK, IDs
<1>3. RemoteOK' /\ servers' \in [Servers -> ServerState]
  BY <1>1 DEF TypeOK, RemoteOK, DataOK, remote
<1>4. BudgetOK'
  <2>1. ops' = ops + 1 /\ edits' = edits
    BY <1>1 DEF Arrives
  <2>2. faults' = faults \/ faults' = faults + 1
    BY <1>1 DEF Fault
  <2> QED
    BY <2>1, <2>2 DEF TypeOK, BudgetOK
<1>5. Insert(row) => DataOK'
  BY <1>2, <1>3 DEF Insert, TypeOK, DataOK, Row
<1>6. UNCHANGED database => DataOK'
  BY <1>3 DEF TypeOK, DataOK, database
<1>7. Finish(w, "error") => HandlersOK' /\ JobsOK'
  BY FinishType DEF TypeOK
<1> DEFINE j == JobOf("create", lastID + 1, row, NoUser, NoCell, FALSE, picks)
<1>8. Fits(j, "created")
  <2>1. picks \in SUBSET Cells
    BY UserAssumption
  <2>2. "create" \in AllOps /\ "created" \in Labels \ {"idle"}
    BY DEF AllOps, Labels
  <2> QED
    BY <1>2, <2>1, <2>2, StartType
<1>9. Begin(w, j, "created") => HandlersOK' /\ JobsOK'
  BY <1>8, BeginType DEF TypeOK
<1> QED
  BY <1>1, <1>3, <1>4, <1>5, <1>6, <1>7, <1>9 DEF TypeOK

LEMMA CallType ==
  ASSUME TypeOK, NEW r \in Request(Servers), NEW out, PanelCall(r, out),
         UNCHANGED <<ops, edits>>
  PROVE  RemoteOK' /\ BudgetOK'
BY PanelCallEffect DEF TypeOK, RemoteOK, BudgetOK

\* Steps that leave the database and the servers table alone.
LEMMA DataKept ==
  ASSUME TypeOK, UNCHANGED <<database, servers>>
  PROVE  DataOK'
BY DEF TypeOK, DataOK, database

LEMMA RemoteKept ==
  ASSUME TypeOK, UNCHANGED remote
  PROVE  RemoteOK'
BY DEF TypeOK, RemoteOK, remote

\* At most one fault is spent.
LEMMA BudgetKept ==
  ASSUME TypeOK, UNCHANGED faults \/ Fault,
         ops' = ops \/ ops' = ops + 1, edits' = edits \/ edits' = edits + 1
  PROVE  BudgetOK'
BY DEF TypeOK, BudgetOK, Fault

LEMMA ReadCreatedType ==
  ASSUME TypeOK, NEW w \in Workers, ReadCreated(w)
  PROVE  TypeOK'
<1> DEFINE u == job[w].id
           j == [job[w] EXCEPT !.row = users[u]]
<1>1. DataOK' /\ RemoteOK' /\ BudgetOK'
  BY DataKept, RemoteKept, BudgetKept DEF ReadCreated
<1>2. pc[w] = "created" /\ u \in IDs /\ job[w] \in Job /\ job[w].op = "create"
  BY DEF ReadCreated, TypeOK, HandlersOK, JobsOK
<1>3. CASE Finish(w, "error")
  BY <1>1, <1>3, FinishType DEF TypeOK
<1>4. CASE /\ users[u] # NoUser /\ Goto(w, "select")
           /\ job' = [job EXCEPT ![w] = j]
           /\ UNCHANGED <<status, snap, done, reply>>
  <2>1. users[u] \in Row
    BY <1>2, <1>4 DEF TypeOK, DataOK
  <2>2. /\ j \in Job /\ j.op = job[w].op /\ j.row = users[u]
        /\ j.id = job[w].id /\ j.form = job[w].form
    BY <1>2, <2>1 DEF Job
  <2>3. Fits(j, "select")
    BY <1>2, <2>1, <2>2 DEF Fits, Labels
  <2> HIDE DEF j
  <2>4. JobsOK' /\ pc' \in [Workers -> Labels] /\ job' \in [Workers -> Job]
    BY <1>4, <2>3, PlaceType DEF TypeOK
  <2> QED
    BY <1>1, <1>4, <2>4 DEF TypeOK, HandlersOK
<1> QED
  BY <1>3, <1>4 DEF ReadCreated

LEMMA NextSelectionType ==
  ASSUME TypeOK, NEW w \in Workers, NextSelection(w)
  PROVE  TypeOK'
<1>1. DataOK' /\ RemoteOK' /\ BudgetOK'
  BY DataKept, RemoteKept, BudgetKept DEF NextSelection, budget
<1>2. PICK c \in job[w].picks \ Tried(w) :
        /\ job' = [job EXCEPT ![w] = Selecting(@, c)]
        /\ done' = [done EXCEPT ![w] =
                      @ \cup {<<c[1], c[2], job[w].row.uid>>}]
  BY DEF NextSelection
<1>3. job[w] \in Job /\ c \in Cells
  BY <1>2 DEF TypeOK, HandlersOK, Job
<1>4. /\ job[w].row \in Row /\ job[w].id \in IDs /\ pc[w] = "select"
      /\ job[w].op = "create"
  BY DEF NextSelection, TypeOK, JobsOK
<1>5. <<c[1], c[2], job[w].row.uid>> \in Servers \X InboundIDs \X UIDs
  BY <1>3, <1>4, UserAssumption DEF Cells, Row
<1> DEFINE j == Selecting(job[w], c)
<1>6. /\ j \in Job /\ j.op = job[w].op /\ j.row = job[w].row
      /\ j.id = job[w].id /\ j.form = job[w].form /\ j.cell = c
  BY <1>3, SelectingType
<1>7. Fits(j, "server")
  BY <1>3, <1>4, <1>6 DEF Fits, Labels
<1>8. JobsOK' /\ pc' \in [Workers -> Labels] /\ job' \in [Workers -> Job]
  BY <1>2, <1>7, PlaceType DEF NextSelection, TypeOK
<1>9. HandlersOK'
  BY <1>2, <1>5, <1>8 DEF NextSelection, TypeOK, HandlersOK
<1> QED
  BY <1>1, <1>8, <1>9 DEF TypeOK

LEMMA CreateReturnsType ==
  ASSUME TypeOK, NEW w \in Workers, CreateReturns(w)
  PROVE  TypeOK'
<1>1. DataOK' /\ RemoteOK' /\ BudgetOK'
  BY DataKept, RemoteKept, BudgetKept DEF CreateReturns, budget
<1>2. job[w].result \in {"ok", "error", "conflict"}
  BY DEF TypeOK, HandlersOK, Job
<1>3. HandlersOK' /\ JobsOK'
  BY <1>2, FinishType DEF CreateReturns, TypeOK
<1> QED
  BY <1>1, <1>3 DEF TypeOK

\* A job that cannot begin, perhaps without a row, still has a page to load.
Shows(j) ==
  /\ j \in Job /\ j.id \in IDs /\ j.op # "none"
  /\ j.op = "update" => j.form \in Row

LEMMA FailType ==
  ASSUME TypeOK, NEW w \in Workers, NEW op, NEW j,
         op \in Reloading => Shows(j) /\ j.op = op, Fail(w, op, j)
  PROVE  HandlersOK' /\ JobsOK'
<1>1. CASE op \in Reloading /\ Begin(w, Ending(j, "error"), "reload")
  <2>1. Fits(Ending(j, "error"), "reload")
    BY <1>1, EndingType DEF Shows, Fits, Labels
  <2> QED
    BY <1>1, <2>1, BeginType DEF TypeOK
<1>2. CASE Finish(w, "error")
  BY <1>2, FinishType DEF TypeOK
<1> QED
  BY <1>1, <1>2 DEF Fail

LEMMA ReadUserType ==
  ASSUME TypeOK, NEW w \in Workers, NEW op, NEW u \in IDs, NEW j, NEW label,
         users[u] # NoUser => Fits(j, label),
         op \in Reloading => Shows(j) /\ j.op = op,
         ops' = ops + 1, edits' = edits, ReadUser(w, op, u, j, label)
  PROVE  TypeOK'
<1>1. DataOK' /\ RemoteOK'
  BY DataKept, RemoteKept DEF ReadUser
<1>2. BudgetOK'
  BY BudgetKept DEF ReadUser
<1>3. CASE users[u] # NoUser /\ Begin(w, j, label)
  BY <1>1, <1>2, <1>3, BeginType DEF TypeOK
<1>4. CASE Fail(w, op, j)
  BY <1>1, <1>2, <1>4, FailType DEF TypeOK
<1> QED
  BY <1>3, <1>4 DEF ReadUser

LEMMA StoredRow ==
  ASSUME TypeOK, NEW u \in IDs, users[u] # NoUser
  PROVE  users[u] \in Row
BY DEF TypeOK, DataOK

\* The job of a toggle or a recreation, with or without a row.
LEMMA ShowsType ==
  ASSUME TypeOK, NEW op \in Reloading, NEW u \in IDs, NEW c \in Cells,
         NEW on \in BOOLEAN
  PROVE  LET j == JobOf(op, u, users[u], NoUser, c, on, {})
         IN Shows(j) /\ j.op = op
<1>1. users[u] \in Row \cup {NoUser}
  BY DEF TypeOK, DataOK
<1> QED
  BY <1>1 DEF Shows, JobOf, Job, AllOps, Reloading

LEMMA ToggleUserInboundType ==
  ASSUME TypeOK, NEW w \in Workers, ToggleUserInbound(w)
  PROVE  TypeOK'
<1>1. PICK u \in IDs, c \in PageCells, on \in BOOLEAN :
        ReadUser(w, "toggle", u,
                 JobOf("toggle", u, users[u], NoUser, c, on, {}), "server")
  BY DEF ToggleUserInbound
<1>2. /\ "toggle" \in AllOps /\ "server" \in Labels \ {"idle"}
      /\ "toggle" \in Reloading /\ c \in Cells
  BY DEF AllOps, Labels, Reloading, PageCells
<1>3. users[u] # NoUser =>
        Fits(JobOf("toggle", u, users[u], NoUser, c, on, {}), "server")
  BY <1>2, StoredRow, StartType
<1> QED
  BY <1>1, <1>2, <1>3, ShowsType, ReadUserType DEF ToggleUserInbound, Arrives

LEMMA RecreateUserInboundType ==
  ASSUME TypeOK, NEW w \in Workers, RecreateUserInbound(w)
  PROVE  TypeOK'
<1>1. PICK u \in IDs, c \in PageCells :
        ReadUser(w, "recreate", u,
                 JobOf("recreate", u, users[u], NoUser, c, TRUE, {}), "server")
  BY DEF RecreateUserInbound
<1>2. /\ "recreate" \in AllOps /\ "server" \in Labels \ {"idle"}
      /\ "recreate" \in Reloading /\ c \in Cells
  BY DEF AllOps, Labels, Reloading, PageCells
<1>3. users[u] # NoUser =>
        Fits(JobOf("recreate", u, users[u], NoUser, c, TRUE, {}), "server")
  BY <1>2, StoredRow, StartType
<1> QED
  BY <1>1, <1>2, <1>3, ShowsType, ReadUserType DEF RecreateUserInbound, Arrives

LEMMA UpdateUserType ==
  ASSUME TypeOK, NEW w \in Workers, UpdateUser(w)
  PROVE  TypeOK'
<1>1. PICK u \in IDs, name \in Names, sub \in FormSubs :
        ReadUser(w, "update", u,
          JobOf("update", u, users[u],
                [username |-> name, sub |-> sub, uid |-> users[u].uid],
                NoCell, FALSE, {}), "servers")
  BY DEF UpdateUser
<1> DEFINE form == [username |-> name, sub |-> sub, uid |-> users[u].uid]
<1>2. /\ "update" \in AllOps /\ "servers" \in Labels \ {"idle"}
      /\ "update" \notin Reloading
  BY DEF AllOps, Labels, Reloading
<1>3. users[u] # NoUser => form \in Row
  BY StoredRow, UserAssumption DEF Row
<1>4. users[u] # NoUser =>
        Fits(JobOf("update", u, users[u], form, NoCell, FALSE, {}), "servers")
  <2> SUFFICES ASSUME users[u] # NoUser
               PROVE  Fits(JobOf("update", u, users[u], form, NoCell, FALSE, {}),
                           "servers")
    OBVIOUS
  <2>1. users[u] \in Row /\ form \in Row
    BY <1>3, StoredRow
  <2> HIDE DEF form
  <2> QED
    BY <1>2, <2>1, StartType
<1> QED
  BY <1>1, <1>2, <1>4, ReadUserType DEF UpdateUser, Arrives

LEMMA DeleteUserType ==
  ASSUME TypeOK, NEW w \in Workers, DeleteUser(w)
  PROVE  TypeOK'
<1>1. PICK u \in IDs :
        ReadUser(w, "delete", u,
                 JobOf("delete", u, users[u], NoUser, NoCell, FALSE, {}),
                 "servers")
  BY DEF DeleteUser
<1>2. /\ "delete" \in AllOps /\ "servers" \in Labels \ {"idle"}
      /\ "delete" \notin Reloading
  BY DEF AllOps, Labels, Reloading
<1>3. users[u] # NoUser =>
        Fits(JobOf("delete", u, users[u], NoUser, NoCell, FALSE, {}),
             "servers")
  BY <1>2, StoredRow, StartType
<1> QED
  BY <1>1, <1>2, <1>3, ReadUserType DEF DeleteUser, Arrives

LEMMA ReadServerType ==
  ASSUME TypeOK, NEW w \in Workers, ReadServer(w)
  PROVE  TypeOK'
<1>1. DataOK' /\ RemoteOK' /\ BudgetOK'
  BY DataKept, RemoteKept, BudgetKept DEF ReadServer
<1>2. pc[w] = "server" /\ job[w].cell \in Cells
  BY DEF ReadServer, TypeOK, JobsOK
<1>3. CASE Return(w, "error")
  BY <1>1, <1>2, <1>3, ReturnType DEF TypeOK
<1>4. CASE Goto(w, "list") /\ UNCHANGED <<job, status, snap, done, reply>>
  <2>1. Fits(job[w], "list")
    BY <1>2 DEF Fits, TypeOK, HandlersOK, JobsOK, Labels
  <2> QED
    BY <1>1, <1>2, <1>4, <2>1, MoveType DEF TypeOK, HandlersOK
<1> QED
  BY <1>3, <1>4 DEF ReadServer

LEMMA ListInboundsType ==
  ASSUME TypeOK, NEW w \in Workers, ListInbounds(w)
  PROVE  TypeOK'
<1> DEFINE s == job[w].cell[1]
           label == IF job[w].op = "recreate" THEN "evict" ELSE "apply"
<1>1. DataOK' /\ RemoteOK' /\ BudgetOK'
  BY DataKept, RemoteKept, BudgetKept DEF ListInbounds
<1>2. pc[w] = "list" /\ job[w].cell \in Cells /\ s \in Servers
  BY DEF ListInbounds, TypeOK, JobsOK, Cells
<1>3. CASE Return(w, "error")
  BY <1>1, <1>2, <1>3, ReturnType DEF TypeOK
<1>4. CASE /\ snap' = [snap EXCEPT ![w][s] = panel[s]]
           /\ status' = [status EXCEPT ![w][s] = "up"]
           /\ Goto(w, label)
           /\ UNCHANGED <<job, done, reply>>
  <2>0. Fits(job[w], label)
    BY <1>2 DEF Fits, TypeOK, HandlersOK, JobsOK, Labels
  <2>1. JobsOK' /\ pc' \in [Workers -> Labels]
    BY <1>2, <1>4, <2>0, MoveType DEF TypeOK
  <2>2. snap' \in [Workers -> [Servers -> Content]]
    BY <1>2, <1>4 DEF TypeOK, HandlersOK, RemoteOK
  <2>3. HandlersOK'
    BY <1>2, <1>4, <2>1, <2>2 DEF TypeOK, HandlersOK
  <2> QED
    BY <1>1, <2>1, <2>3 DEF TypeOK
<1> QED
  BY <1>3, <1>4 DEF ListInbounds

\* The upsert a granting handler sends.
LEMMA ApplyRequest ==
  ASSUME TypeOK, NEW w \in Workers, pc[w] = "apply" \/ pc[w] = "evict",
         job[w].cell[2] \in Inbounds, NEW x \in UIDs, NEW on \in BOOLEAN
  PROVE  UpsertRequest(job[w].cell[1], job[w].cell[2],
                       snap[w][job[w].cell[1]], x, ClientOf(job[w].row, on))
           \in Request(Servers)
<1>1. job[w].row \in Row /\ job[w].cell[1] \in Servers
  BY DEF TypeOK, JobsOK, Cells
<1>2. snap[w][job[w].cell[1]] \in Content
  BY <1>1 DEF TypeOK, HandlersOK
<1> QED
  BY <1>1, <1>2, ClientType, UpsertType

LEMMA ApplyStateType ==
  ASSUME TypeOK, NEW w \in Workers, ApplyState(w)
  PROVE  TypeOK'
<1> DEFINE s == job[w].cell[1]
           i == job[w].cell[2]
           x == job[w].row.uid
           r == UpsertRequest(s, i, snap[w][s], x,
                              ClientOf(job[w].row, job[w].enabled))
<1>1. DataOK' /\ UNCHANGED <<ops, edits>>
  BY DataKept DEF ApplyState
<1>2. pc[w] = "apply" /\ job[w].row \in Row /\ job[w].enabled \in BOOLEAN
      /\ x \in UIDs
  BY UserAssumption DEF ApplyState, TypeOK, JobsOK, HandlersOK, Job, Row
<1>3. ASSUME NEW q \in {"ok", "error", "conflict"}, Return(w, q)
      PROVE  HandlersOK' /\ JobsOK'
  BY <1>2, <1>3, ReturnType DEF TypeOK
<1>4. CASE (Return(w, "error") \/ Return(w, "ok"))
           /\ UNCHANGED <<remote, faults>>
  <2>1. RemoteOK' /\ BudgetOK'
    BY <1>1, <1>4, RemoteKept, BudgetKept
  <2> QED
    BY <1>1, <1>3, <1>4, <2>1 DEF TypeOK
<1>5. ASSUME i \in Inbounds, NEW out \in Outcomes, PanelCall(r, out),
             Return(w, Answer(out))
      PROVE  TypeOK'
  <2>1. r \in Request(Servers)
    BY <1>2, <1>5, ApplyRequest
  <2>2. RemoteOK' /\ BudgetOK'
    BY <1>1, <1>5, <2>1, CallType
  <2>3. Answer(out) \in {"ok", "error", "conflict"}
    BY DEF Answer, Outcomes
  <2> QED
    BY <1>1, <1>3, <1>5, <2>2, <2>3 DEF TypeOK
<1> QED
  BY <1>4, <1>5 DEF ApplyState

\* A loop that records its calls in done, or ends with an error.
LEMMA LoopType ==
  ASSUME TypeOK, NEW w \in Workers, NEW t \in Targets,
         \/ /\ done' = [done EXCEPT ![w] = @ \cup {t}]
            /\ UNCHANGED <<pc, job, status, snap, reply>>
         \/ Finish(w, "error")
         \/ pc[w] = "evict" /\ Return(w, "error")
  PROVE  HandlersOK' /\ JobsOK'
<1>1. t \in Servers \X InboundIDs \X UIDs
  BY DEF Targets, InboundIDs
<1>2. CASE /\ done' = [done EXCEPT ![w] = @ \cup {t}]
           /\ UNCHANGED <<pc, job, status, snap, reply>>
  BY <1>1, <1>2 DEF TypeOK, HandlersOK, JobsOK
<1>3. CASE Finish(w, "error")
  BY <1>3, FinishType DEF TypeOK
<1>4. CASE pc[w] = "evict" /\ Return(w, "error")
  BY <1>4, ReturnType DEF TypeOK
<1> QED
  BY <1>2, <1>3, <1>4

LEMMA EvictOneType ==
  ASSUME TypeOK, NEW w \in Workers, NEW t \in Targets, EvictOne(w, t)
  PROVE  TypeOK'
<1>1. PICK out \in Outcomes : PanelCall(DeleteRequest(t[1], t[2], t[3]), out)
  BY DEF EvictOne
<1>2. DeleteRequest(t[1], t[2], t[3]) \in Request(Servers)
  BY DeleteType DEF Targets
<1>3. RemoteOK' /\ BudgetOK'
  BY <1>1, <1>2, CallType DEF EvictOne
<1>4. HandlersOK' /\ JobsOK'
  BY LoopType DEF EvictOne
<1>5. DataOK'
  BY DataKept DEF EvictOne
<1> QED
  BY <1>3, <1>4, <1>5 DEF TypeOK

LEMMA ReaddType ==
  ASSUME TypeOK, NEW w \in Workers, Readd(w)
  PROVE  TypeOK'
<1> DEFINE s == job[w].cell[1]
           i == job[w].cell[2]
           r(x) == UpsertRequest(s, i, snap[w][s], x,
                                 ClientOf(job[w].row, TRUE))
<1>1. DataOK' /\ UNCHANGED <<ops, edits>> /\ pc[w] = "evict"
  BY DataKept DEF Readd
<1>2. \/ Return(w, "error")
      \/ Return(w, "ok")
  BY DEF Readd
<1>3. HandlersOK' /\ JobsOK'
  BY <1>1, <1>2, ReturnType DEF TypeOK
<1>4. CASE UNCHANGED <<remote, faults>>
  BY <1>1, <1>3, <1>4, RemoteKept, BudgetKept DEF TypeOK
<1>5. ASSUME i \in Inbounds, NEW x \in UIDs, NEW out \in Outcomes,
             PanelCall(r(x), out)
      PROVE  TypeOK'
  <2>1. r(x) \in Request(Servers)
    BY <1>1, <1>5, ApplyRequest
  <2> HIDE DEF r
  <2>2. RemoteOK' /\ BudgetOK'
    BY <1>1, <1>5, <2>1, CallType
  <2> QED
    BY <1>1, <1>3, <2>2 DEF TypeOK
<1> QED
  BY <1>4, <1>5 DEF Readd

LEMMA ListServersType ==
  ASSUME TypeOK, NEW w \in Workers, ListServers(w)
  PROVE  TypeOK'
<1>1. DataOK' /\ RemoteOK' /\ BudgetOK'
  BY DataKept, RemoteKept, BudgetKept DEF ListServers
<1>0. pc[w] = "servers" /\ Fits(job[w], "fetch")
  BY DEF ListServers, Fits, TypeOK, HandlersOK, JobsOK, Labels
<1>2. JobsOK' /\ pc' \in [Workers -> Labels]
  BY <1>0, MoveType DEF ListServers, TypeOK
<1>3. Asked \in [Servers -> {"skipped", "pending", "up", "down"}]
  BY DEF Asked
<1>4. status' \in [Workers -> [Servers -> {"skipped", "pending", "up", "down"}]]
  BY <1>3 DEF ListServers, TypeOK, HandlersOK
<1>5. HandlersOK'
  BY <1>2, <1>4 DEF ListServers, TypeOK, HandlersOK
<1> QED
  BY <1>1, <1>2, <1>5 DEF TypeOK

LEMMA FetchType ==
  ASSUME TypeOK, NEW w \in Workers, NEW s \in Servers, Fetch(w, s)
  PROVE  TypeOK'
<1>1. DataOK' /\ RemoteOK' /\ BudgetOK'
  BY DataKept, RemoteKept, BudgetKept DEF Fetch
<1>2. HandlersOK'
  <2>1. panel[s] \in Content
    BY DEF TypeOK, RemoteOK
  <2>2. snap' = snap \/ snap' = [snap EXCEPT ![w][s] = panel[s]]
    BY DEF Fetch
  <2>3. snap' \in [Workers -> [Servers -> Content]]
    <3>1. CASE snap' = snap
      BY <3>1 DEF TypeOK, HandlersOK
    <3>2. CASE snap' = [snap EXCEPT ![w][s] = panel[s]]
      BY <2>1, <3>2 DEF TypeOK, HandlersOK
    <3> QED
      BY <2>2, <3>1, <3>2
  <2>4. \/ status' = [status EXCEPT ![w][s] = "up"]
        \/ status' = [status EXCEPT ![w][s] = "down"]
    BY DEF Fetch
  <2>5. status' \in [Workers ->
                       [Servers -> {"skipped", "pending", "up", "down"}]]
    <3>1. CASE status' = [status EXCEPT ![w][s] = "up"]
      BY <3>1 DEF TypeOK, HandlersOK
    <3>2. CASE status' = [status EXCEPT ![w][s] = "down"]
      BY <3>2 DEF TypeOK, HandlersOK
    <3> QED
      BY <2>4, <3>1, <3>2
  <2> QED
    BY <2>3, <2>5 DEF Fetch, TypeOK, HandlersOK
<1>3. JobsOK'
  BY DEF Fetch, TypeOK, JobsOK
<1> QED
  BY <1>1, <1>2, <1>3 DEF TypeOK

\* The upsert UpdateUser sends: always an update of a listed client.
LEMMA PushRequest ==
  ASSUME TypeOK, NEW w \in Workers, NEW t \in Targets,
         t \in Listed(w), job[w].op = "update"
  PROVE  LET listed == snap[w][t[1]]
             r == UpsertRequest(t[1], t[2], listed, t[3],
                    ClientOf(job[w].form, listed[t[2]][t[3]].enable))
         IN /\ r \in Request(Servers)
            /\ r.kind # "add"
            /\ r.server = t[1] /\ r.inbound = t[2] /\ r.uid = t[3]
<1>1. t[1] \in Servers /\ t[2] \in Inbounds /\ t[3] \in UIDs
  BY DEF Targets
<1>2. snap[w][t[1]] \in Content
  BY <1>1 DEF TypeOK, HandlersOK
<1>3. snap[w][t[1]][t[2]][t[3]] # NoClient
  BY DEF Listed
<1>4. snap[w][t[1]][t[2]][t[3]] \in Client
  BY <1>1, <1>2, <1>3 DEF Content
<1>5. snap[w][t[1]][t[2]][t[3]].enable \in BOOLEAN
  BY <1>4 DEF Client
<1>6. job[w].form \in Row
  BY DEF TypeOK, JobsOK
<1> DEFINE listed == snap[w][t[1]]
           c == ClientOf(job[w].form, listed[t[2]][t[3]].enable)
<1>7. c \in Client
  BY <1>5, <1>6, ClientType
<1> HIDE DEF c, listed
<1> SUFFICES LET r == UpsertRequest(t[1], t[2], listed, t[3], c)
             IN /\ r \in Request(Servers)
                /\ r.kind # "add"
                /\ r.server = t[1] /\ r.inbound = t[2] /\ r.uid = t[3]
  BY DEF c, listed
<1>8. listed \in Content /\ listed[t[2]][t[3]] # NoClient
  BY <1>2, <1>3 DEF listed
<1> QED
  BY <1>1, <1>7, <1>8, UpsertType

LEMMA PushType ==
  ASSUME TypeOK, NEW w \in Workers, NEW t \in Targets,
         NEW r \in Request(Servers), Push(w, t, r)
  PROVE  TypeOK'
<1>1. PICK out \in Outcomes : PanelCall(r, out)
  BY DEF Push
<1>2. RemoteOK' /\ BudgetOK'
  BY <1>1, CallType DEF Push
<1>3. HandlersOK' /\ JobsOK'
  BY LoopType DEF Push
<1>4. DataOK'
  BY DataKept DEF Push
<1> QED
  BY <1>2, <1>3, <1>4 DEF TypeOK

LEMMA PushOneType ==
  ASSUME TypeOK, NEW w \in Workers, NEW t \in Targets, PushOne(w, t)
  PROVE  TypeOK'
BY PushRequest, PushType DEF PushOne

LEMMA PurgeOneType ==
  ASSUME TypeOK, NEW w \in Workers, NEW t \in Targets, PurgeOne(w, t)
  PROVE  TypeOK'
<1>1. DeleteRequest(t[1], t[2], t[3]) \in Request(Servers)
  BY DeleteType DEF Targets
<1> QED
  BY <1>1, PushType DEF PurgeOne

LEMMA CommitUpdateType ==
  ASSUME TypeOK, NEW w \in Workers, CommitUpdate(w)
  PROVE  TypeOK'
<1>1. pc[w] # "idle" /\ job[w].id \in IDs /\ job[w].form \in Row
  BY DEF CommitUpdate, Joined, TypeOK, JobsOK
<1>2. DataOK'
  BY <1>1 DEF CommitUpdate, TypeOK, DataOK
<1>3. RemoteOK' /\ BudgetOK'
  BY RemoteKept, BudgetKept DEF CommitUpdate
<1>4. Finish(w, "ok") \/ Finish(w, "error")
  BY DEF CommitUpdate, RowsAffected
<1>5. HandlersOK' /\ JobsOK'
  BY <1>4, FinishType DEF TypeOK
<1> QED
  BY <1>2, <1>3, <1>5 DEF TypeOK

LEMMA CommitDeleteType ==
  ASSUME TypeOK, NEW w \in Workers, CommitDelete(w)
  PROVE  TypeOK'
<1>1. pc[w] # "idle" /\ job[w].id \in IDs
  BY DEF CommitDelete, Joined, TypeOK, JobsOK
<1>2. DataOK'
  BY <1>1 DEF CommitDelete, TypeOK, DataOK
<1>3. RemoteOK' /\ BudgetOK'
  BY RemoteKept, BudgetKept DEF CommitDelete
<1>4. Finish(w, "ok") \/ Finish(w, "error")
  BY DEF CommitDelete, RowsAffected
<1>5. HandlersOK' /\ JobsOK'
  BY <1>4, FinishType DEF TypeOK
<1> QED
  BY <1>2, <1>3, <1>5 DEF TypeOK

LEMMA ReloadType ==
  ASSUME TypeOK, NEW w \in Workers, Reload(w)
  PROVE  TypeOK'
<1>1. DataOK' /\ RemoteOK' /\ BudgetOK'
  BY DataKept, RemoteKept, BudgetKept DEF Reload
<1>2. CASE Finish(w, "error")
  BY <1>1, <1>2, FinishType DEF TypeOK
<1>3. CASE /\ Goto(w, "refetch") /\ status' = [status EXCEPT ![w] = Asked]
           /\ UNCHANGED <<job, snap, done, reply>>
  <2>1. pc[w] = "reload" /\ Fits(job[w], "refetch")
    BY DEF Reload, Fits, TypeOK, HandlersOK, JobsOK, Labels
  <2>2. JobsOK' /\ pc' \in [Workers -> Labels]
    BY <1>3, <2>1, MoveType DEF TypeOK
  <2>3. Asked \in [Servers -> {"skipped", "pending", "up", "down"}]
    BY DEF Asked
  <2>4. HandlersOK'
    BY <1>3, <2>2, <2>3 DEF TypeOK, HandlersOK
  <2> QED
    BY <1>1, <2>2, <2>4 DEF TypeOK
<1> QED
  BY <1>2, <1>3 DEF Reload

LEMMA RefetchType ==
  ASSUME TypeOK, NEW w \in Workers, NEW s \in Servers, Refetch(w, s)
  PROVE  TypeOK'
<1>1. DataOK' /\ RemoteOK' /\ BudgetOK'
  BY DataKept, RemoteKept, BudgetKept DEF Refetch
<1>2. PICK st \in {"up", "down"} : status' = [status EXCEPT ![w][s] = st]
  BY DEF Refetch
<1>3. status' \in [Workers -> [Servers -> {"skipped", "pending", "up", "down"}]]
  BY <1>2 DEF TypeOK, HandlersOK
<1>4. HandlersOK' /\ JobsOK'
  BY <1>3 DEF Refetch, TypeOK, HandlersOK, JobsOK
<1> QED
  BY <1>1, <1>4 DEF TypeOK

LEMMA RenderType ==
  ASSUME TypeOK, NEW w \in Workers, Render(w)
  PROVE  TypeOK'
<1>1. DataOK' /\ RemoteOK' /\ BudgetOK'
  BY DataKept, RemoteKept, BudgetKept DEF Render, budget
<1>2. job[w].result \in {"ok", "error", "conflict"}
  BY DEF TypeOK, HandlersOK, Job
<1>3. HandlersOK' /\ JobsOK'
  BY <1>2, FinishType DEF Render, TypeOK
<1> QED
  BY <1>1, <1>3 DEF TypeOK

LEMMA EditServerType ==
  ASSUME TypeOK, NEW s \in Servers, NEW st \in ServerState, EditServer(s, st)
  PROVE  TypeOK'
<1>1. DataOK' /\ RemoteOK' /\ BudgetOK'
  BY RemoteKept, BudgetKept DEF EditServer, TypeOK, DataOK, database
<1>2. HandlersOK' /\ JobsOK'
  BY DEF EditServer, TypeOK, HandlersOK, JobsOK, handler
<1> QED
  BY <1>1, <1>2 DEF TypeOK

LEMMA ApplyLateType ==
  ASSUME TypeOK, NEW r \in late, ApplyLate(r)
  PROVE  TypeOK'
<1>1. r \in Request(Servers)
  BY DEF TypeOK, RemoteOK
<1>2. panel' \in [Servers -> Content]
  BY <1>1, ArriveEffect DEF ApplyLate, TypeOK, RemoteOK
<1>3. DataOK' /\ RemoteOK' /\ BudgetOK'
  BY <1>2, DataKept, BudgetKept DEF ApplyLate, TypeOK, RemoteOK, budget
<1>4. HandlersOK' /\ JobsOK'
  BY DEF ApplyLate, TypeOK, HandlersOK, JobsOK, handler
<1> QED
  BY <1>3, <1>4 DEF TypeOK

LEMMA RestartType ==
  ASSUME TypeOK, Restart
  PROVE  TypeOK'
<1>1. DataOK' /\ RemoteOK' /\ BudgetOK'
  BY DataKept, RemoteKept, BudgetKept DEF Restart
<1>2. HandlersOK' /\ JobsOK'
  BY EmptyTypes DEF Restart, HandlersOK, JobsOK, Labels
<1> QED
  BY <1>1, <1>2 DEF TypeOK

LEMMA StutterType ==
  ASSUME TypeOK, UNCHANGED vars
  PROVE  TypeOK'
BY DEF vars, database, remote, handler, budget, TypeOK, DataOK, RemoteOK,
       HandlersOK, JobsOK, BudgetOK

LEMMA NextType == TypeOK /\ [Next]_vars => TypeOK'
<1> SUFFICES ASSUME TypeOK, [Next]_vars PROVE TypeOK'
  OBVIOUS
<1>1. ASSUME NEW w \in Workers, Accepted(w)
      PROVE  TypeOK'
  BY <1>1, CreateUserType, UpdateUserType, DeleteUserType,
     ToggleUserInboundType, RecreateUserInboundType DEF Accepted
<1>2. ASSUME NEW w \in Workers, Step(w)
      PROVE  TypeOK'
  <2>1. CASE ReadCreated(w) \/ NextSelection(w) \/ CreateReturns(w)
    BY <2>1, ReadCreatedType, NextSelectionType, CreateReturnsType
  <2>2. CASE ReadServer(w) \/ ListInbounds(w) \/ ApplyState(w) \/ Readd(w)
    BY <2>2, ReadServerType, ListInboundsType, ApplyStateType, ReaddType
  <2>3. CASE ListServers(w) \/ CommitUpdate(w) \/ CommitDelete(w)
    BY <2>3, ListServersType, CommitUpdateType, CommitDeleteType
  <2>4. CASE Reload(w) \/ Render(w)
             \/ \E s \in Servers : Fetch(w, s) \/ Refetch(w, s)
    BY <2>4, ReloadType, RenderType, FetchType, RefetchType
  <2>5. CASE \E t \in Targets : EvictOne(w, t) \/ PushOne(w, t) \/ PurgeOne(w, t)
    BY <2>5, EvictOneType, PushOneType, PurgeOneType
  <2> QED
    BY <1>2, <2>1, <2>2, <2>3, <2>4, <2>5 DEF Step
<1>3. CASE Environment
  BY <1>3, EditServerType, ApplyLateType, RestartType, StutterType
  DEF Environment, Rest
<1>4. CASE UNCHANGED vars
  BY <1>4, StutterType
<1> QED
  BY <1>1, <1>2, <1>3, <1>4 DEF Next

\* Type correctness of the user operations (TypeOK): whatever the
\* interleaving, the faults and the restarts, a handler past its first
\* database call has a stored row and the inbound or form its step needs.
THEOREM TypeCorrect == Spec => []TypeOK
BY InitType, NextType, PTL DEF Spec

----------------------------------------------------------------------------
(* Foreign clients and clients nobody owns. *)

\* The parts of IInv that speak of the panels and of late requests.
RemoteSafe == ForeignUntouched /\ LateHarmless /\ NoUnownedClients /\ LateKnown
\* The parts that speak of what handlers hold.
HandlersSafe == ListingsHarmless /\ JobsKnown

LEMMA Split == IInv <=> TypeOK /\ RowsKnown /\ RemoteSafe /\ HandlersSafe
BY DEF IInv, RemoteSafe, HandlersSafe, StaleDataHarmless

\* A cell that changes is the one an accepted request names; an "add"
\* names the UID of a stored user and the others find a client there.
LEMMA CellSafe ==
  ASSUME RemoteSafe, NEW r, r \in Request(Servers),
         <<r.server, r.inbound, r.uid>> \notin Foreign,
         r.kind = "add" => r.uid \in known,
         known \subseteq known',
         \A t \in Targets :
           \/ panel'[t[1]][t[2]][t[3]] = panel[t[1]][t[2]][t[3]]
           \/ /\ t = <<r.server, r.inbound, r.uid>>
              /\ Accepts(panel[r.server], r)
  PROVE  ForeignUntouched' /\ NoUnownedClients'
<1>1. ForeignUntouched'
  <2> SUFFICES ASSUME NEW t \in Foreign
               PROVE  panel'[t[1]][t[2]][t[3]] = Seed[t[1]][t[2]][t[3]]
    BY DEF ForeignUntouched
  <2>1. t \in Targets
    BY DEF Foreign
  <2>2. panel'[t[1]][t[2]][t[3]] = panel[t[1]][t[2]][t[3]]
    BY <2>1
  <2> QED
    BY <2>2 DEF RemoteSafe, ForeignUntouched
<1>2. NoUnownedClients'
  <2> SUFFICES ASSUME NEW t \in Targets, t[3] \in UserUIDs,
                      panel'[t[1]][t[2]][t[3]] # NoClient
               PROVE  \/ Seed[t[1]][t[2]][t[3]] # NoClient
                      \/ t[3] \in known'
    BY DEF NoUnownedClients
  <2>1. CASE panel[t[1]][t[2]][t[3]] # NoClient
    BY <2>1 DEF RemoteSafe, NoUnownedClients
  <2>2. CASE panel[t[1]][t[2]][t[3]] = NoClient
    <3>1. /\ t = <<r.server, r.inbound, r.uid>>
          /\ Accepts(panel[r.server], r)
      BY <2>2
    <3>2. t[1] = r.server /\ t[2] = r.inbound /\ t[3] = r.uid
      BY <3>1
    <3>3. panel[r.server][r.inbound][r.uid] = NoClient
      BY <2>2, <3>2
    <3>4. r.kind = "add"
      BY <3>1, <3>3 DEF Accepts
    <3> QED
      BY <3>2, <3>4
  <2> QED
    BY <2>1, <2>2
<1> QED
  BY <1>1, <1>2

LEMMA CallSafe ==
  ASSUME TypeOK, RemoteSafe, NEW r \in Request(Servers), NEW out,
         PanelCall(r, out),
         <<r.server, r.inbound, r.uid>> \notin Foreign,
         r.kind = "add" => r.uid \in known,
         UNCHANGED known
  PROVE  RemoteSafe'
<1>1. /\ \A t \in Targets :
           \/ panel'[t[1]][t[2]][t[3]] = panel[t[1]][t[2]][t[3]]
           \/ /\ t = <<r.server, r.inbound, r.uid>>
              /\ Accepts(panel[r.server], r)
      /\ late' \subseteq late \cup {r}
  BY PanelCallEffect DEF TypeOK
<1>2. ForeignUntouched' /\ NoUnownedClients'
  BY <1>1, CellSafe
<1>3. LateHarmless' /\ LateKnown'
  BY <1>1 DEF RemoteSafe, LateHarmless, LateKnown
<1> QED
  BY <1>2, <1>3 DEF RemoteSafe

LEMMA RemoteSafeKept ==
  ASSUME RemoteSafe, UNCHANGED remote, known \subseteq known'
  PROVE  RemoteSafe'
BY DEF RemoteSafe, remote, ForeignUntouched, LateHarmless, NoUnownedClients,
       LateKnown

LEMMA RowsKept ==
  ASSUME RowsKnown, UNCHANGED database
  PROVE  RowsKnown'
BY DEF RowsKnown, database

\* Listings are forgotten or refreshed from panels whose foreign cells are
\* as they were seeded.
LEMMA ListingForgotten ==
  ASSUME TypeOK, ListingsHarmless, NEW w \in Workers,
         snap' = [snap EXCEPT ![w] = NoListing]
  PROVE  ListingsHarmless'
<1> SUFFICES ASSUME NEW v \in Workers, NEW t \in Foreign
             PROVE  snap'[v][t[1]][t[2]][t[3]]
                      \in {NoClient, Seed[t[1]][t[2]][t[3]]}
  BY DEF ListingsHarmless
<1>1. t[1] \in Servers /\ t[2] \in Inbounds /\ t[3] \in UIDs
  BY DEF Foreign, Targets
<1>2. CASE v = w
  <2>1. snap'[v] = NoListing
    BY <1>2 DEF TypeOK, HandlersOK
  <2>2. NoListing[t[1]][t[2]][t[3]] = NoClient
    BY <1>1 DEF NoListing, EmptyContent
  <2> QED
    BY <2>1, <2>2
<1>3. CASE v # w
  BY <1>3 DEF TypeOK, HandlersOK, ListingsHarmless
<1> QED
  BY <1>2, <1>3

LEMMA ListingFetched ==
  ASSUME TypeOK, ListingsHarmless, ForeignUntouched,
         NEW w \in Workers, NEW s \in Servers,
         snap' = [snap EXCEPT ![w][s] = panel[s]]
  PROVE  ListingsHarmless'
<1> SUFFICES ASSUME NEW v \in Workers, NEW t \in Foreign
             PROVE  snap'[v][t[1]][t[2]][t[3]]
                      \in {NoClient, Seed[t[1]][t[2]][t[3]]}
  BY DEF ListingsHarmless
<1>1. t[1] \in Servers /\ t[2] \in Inbounds /\ t[3] \in UIDs
  BY DEF Foreign, Targets
<1>2. CASE v = w /\ t[1] = s
  <2>1. snap'[v][t[1]] = panel[t[1]]
    BY <1>1, <1>2 DEF TypeOK, HandlersOK
  <2> QED
    BY <2>1 DEF ForeignUntouched
<1>3. CASE ~(v = w /\ t[1] = s)
  <2>1. snap'[v][t[1]] = snap[v][t[1]]
    BY <1>1, <1>3 DEF TypeOK, HandlersOK
  <2> QED
    BY <2>1 DEF ListingsHarmless
<1> QED
  BY <1>2, <1>3

LEMMA FinishSafe ==
  ASSUME TypeOK, HandlersSafe, NEW w \in Workers, NEW r, Finish(w, r),
         known \subseteq known'
  PROVE  HandlersSafe'
<1>1. ListingsHarmless'
  BY ListingForgotten DEF Finish, HandlersSafe
<1>2. ASSUME NEW v \in Workers
      PROVE  \/ v # w /\ pc'[v] = pc[v] /\ job'[v] = job[v]
             \/ v = w /\ pc'[v] = "idle" /\ job'[v] = NoJob
  BY DEF Finish, Goto, TypeOK, HandlersOK
<1>3. JobsKnown'
  BY <1>2, EmptyTypes DEF JobsKnown, HandlersSafe
<1> QED
  BY <1>1, <1>3 DEF HandlersSafe

LEMMA BeginSafe ==
  ASSUME TypeOK, HandlersSafe, NEW w \in Workers, NEW j, NEW label,
         Begin(w, j, label), known \subseteq known',
         label # "reload" => j.row.uid \in known',
         j.op = "update" => j.form.uid \in known'
  PROVE  HandlersSafe'
<1>1. ListingsHarmless'
  BY DEF Begin, HandlersSafe, ListingsHarmless
<1>2. ASSUME NEW v \in Workers
      PROVE  \/ v # w /\ pc'[v] = pc[v] /\ job'[v] = job[v]
             \/ v = w /\ job'[v] = j /\ pc'[v] = label
  BY DEF Begin, Goto, TypeOK, HandlersOK
<1>3. JobsKnown'
  BY <1>2 DEF JobsKnown, HandlersSafe
<1> QED
  BY <1>1, <1>3 DEF HandlersSafe

\* A step that moves handler w on without changing whom it works for.
LEMMA SameJobSafe ==
  ASSUME TypeOK, HandlersSafe, NEW w \in Workers,
         pc[w] \notin {"idle", "reload", "refetch"},
         NEW label, pc' = [pc EXCEPT ![w] = label],
         NEW j, job' = [job EXCEPT ![w] = j],
         j.op = job[w].op, j.row = job[w].row, j.form = job[w].form,
         UNCHANGED known
  PROVE  JobsKnown'
<1>1. ASSUME NEW v \in Workers
      PROVE  \/ v # w /\ pc'[v] = pc[v] /\ job'[v] = job[v]
             \/ v = w /\ job'[v] = j
  BY DEF TypeOK, HandlersOK
<1> QED
  BY <1>1 DEF JobsKnown, HandlersSafe

LEMMA ReturnSafe ==
  ASSUME TypeOK, HandlersSafe, NEW w \in Workers,
         pc[w] \notin {"idle", "reload", "refetch"},
         NEW r, Return(w, r), UNCHANGED known
  PROVE  HandlersSafe'
<1>1. CASE job[w].op = "create"
  <2>1. /\ pc' = [pc EXCEPT ![w] = "select"]
        /\ job' = [job EXCEPT ![w] = Noting(job[w], r)]
        /\ snap' = [snap EXCEPT ![w] = NoListing]
    BY <1>1 DEF Return, Goto
  <2>2. LET j == Noting(job[w], r)
        IN j.op = job[w].op /\ j.row = job[w].row /\ j.form = job[w].form
    BY NotingType DEF TypeOK, HandlersOK
  <2>3. JobsKnown'
    BY <2>1, <2>2, SameJobSafe
  <2>4. ListingsHarmless'
    BY <2>1, ListingForgotten DEF HandlersSafe
  <2> QED
    BY <2>3, <2>4 DEF HandlersSafe
<1>2. CASE job[w].op # "create"
  <2>1. /\ pc' = [pc EXCEPT ![w] = "reload"]
        /\ job' = [job EXCEPT ![w] = Ending(job[w], r)]
        /\ snap' = [snap EXCEPT ![w] = NoListing]
    BY <1>2 DEF Return, Goto
  <2>2. LET j == Ending(job[w], r)
        IN j.op = job[w].op /\ j.row = job[w].row /\ j.form = job[w].form
    BY DEF Ending, TypeOK, HandlersOK, Job
  <2>3. JobsKnown'
    BY <2>1, <2>2, SameJobSafe
  <2>4. ListingsHarmless'
    BY <2>1, ListingForgotten DEF HandlersSafe
  <2> QED
    BY <2>3, <2>4 DEF HandlersSafe
<1> QED
  BY <1>1, <1>2

Safe == RowsKnown /\ RemoteSafe /\ HandlersSafe

\* Where the requests of the handlers go: never to a foreign cell.
LEMMA OwnUIDNotForeign ==
  ASSUME NEW t \in Targets, t[3] \in UserUIDs
  PROVE  t \notin Foreign
BY DEF Foreign

LEMMA MatchNotForeign ==
  ASSUME TypeOK, HandlersSafe, NEW w \in Workers, NEW t \in Targets,
         NEW row \in Row, Matches(snap[w][t[1]][t[2]][t[3]], t[3], row)
  PROVE  t \notin Foreign
<1>1. CASE t[3] = row.uid
  BY <1>1, OwnUIDNotForeign DEF Row
<1>2. CASE snap[w][t[1]][t[2]][t[3]].email = row.username
  <2> SUFFICES ASSUME t \in Foreign PROVE FALSE
    OBVIOUS
  <2>1. snap[w][t[1]][t[2]][t[3]] = Seed[t[1]][t[2]][t[3]]
        /\ Seed[t[1]][t[2]][t[3]] # NoClient
    BY DEF HandlersSafe, ListingsHarmless, Matches
  <2>2. Seed[t[1]][t[2]][t[3]].email \in Names
    BY <1>2, <2>1 DEF Row
  <2> QED
    BY <2>1, <2>2 DEF Foreign
<1> QED
  BY <1>1, <1>2 DEF Matches

LEMMA InitSafe == Init => Safe
<1> SUFFICES ASSUME Init PROVE Safe
  OBVIOUS
<1>1. RowsKnown
  BY DEF Init, RowsKnown
<1>2. RemoteSafe
  BY DEF Init, RemoteSafe, ForeignUntouched, LateHarmless, NoUnownedClients,
         LateKnown, Foreign
<1>3. ListingsHarmless
  BY DEF Init, ListingsHarmless, NoListing, EmptyContent, Foreign, Targets
<1>4. JobsKnown
  BY EmptyTypes DEF Init, JobsKnown
<1> QED
  BY <1>1, <1>2, <1>3, <1>4 DEF Safe, HandlersSafe

LEMMA CreateUserSafe ==
  ASSUME TypeOK, Safe, NEW w \in Workers, CreateUser(w)
  PROVE  Safe'
<1>1. PICK row \in Row, picks \in Selections : CreateUser(w)!(row, picks)
  BY DEF CreateUser
<1> USE DEF InsertFails
<1>2. CASE Insert(row)
  <2>1. known \subseteq known' /\ row.uid \in known'
    BY <1>2 DEF Insert
  <2>2. lastID + 1 \in IDs
    BY <1>1, UserAssumption DEF TypeOK, DataOK, IDs
  <2>3. RowsKnown'
    BY <1>2, <2>1, <2>2 DEF Insert, Safe, RowsKnown, TypeOK, DataOK
  <2>4. RemoteSafe'
    BY <1>1, <2>1, RemoteSafeKept DEF Safe
  <2>5. HandlersSafe'
    <3> DEFINE j == JobOf("create", lastID + 1, row, NoUser, NoCell, FALSE,
                          picks)
    <3>1. j.row = row /\ j.op = "create"
      BY DEF JobOf
    <3>2. Begin(w, j, "created") \/ Finish(w, "error")
      BY <1>1
    <3> QED
      BY <2>1, <3>1, <3>2, BeginSafe, FinishSafe DEF Safe
  <2> QED
    BY <2>3, <2>4, <2>5 DEF Safe
<1>3. CASE UNCHANGED database /\ Finish(w, "error")
  <2>1. RowsKnown' /\ RemoteSafe' /\ known' = known
    BY <1>1, <1>3, RowsKept, RemoteSafeKept DEF Safe, database
  <2> QED
    BY <1>3, <2>1, FinishSafe DEF Safe
<1> QED
  BY <1>1, <1>2, <1>3 DEF database

LEMMA ReadUserSafe ==
  ASSUME TypeOK, Safe, NEW w \in Workers, NEW op \in AllOps, NEW u \in IDs,
         NEW j, NEW label, j \in Job \/ op \notin Reloading, j.op = op,
         j.row = users[u], op = "update" => j.form.uid = users[u].uid,
         ReadUser(w, op, u, j, label)
  PROVE  Safe'
<1>1. RowsKnown' /\ RemoteSafe' /\ known' = known
  BY RowsKept, RemoteSafeKept DEF ReadUser, Safe, database
<1>2. CASE users[u] # NoUser /\ Begin(w, j, label)
  <2>1. users[u].uid \in known
    BY <1>2 DEF Safe, RowsKnown
  <2> QED
    BY <1>1, <1>2, <2>1, BeginSafe DEF Safe
<1>3. CASE Finish(w, "error")
  BY <1>1, <1>3, FinishSafe DEF Safe
<1>4. CASE op \in Reloading /\ Begin(w, Ending(j, "error"), "reload")
  <2>1. Ending(j, "error").op = op /\ op # "update"
    BY <1>4, EndingType DEF Reloading
  <2> QED
    BY <1>1, <1>4, <2>1, BeginSafe DEF Safe
<1> QED
  BY <1>2, <1>3, <1>4 DEF ReadUser, Fail

LEMMA BeginningsSafe ==
  ASSUME TypeOK, Safe, NEW w \in Workers,
         \/ ToggleUserInbound(w) \/ RecreateUserInbound(w)
         \/ UpdateUser(w) \/ DeleteUser(w)
  PROVE  Safe'
<1>1. CASE ToggleUserInbound(w)
  <2>1. PICK u \in IDs, c \in PageCells, on \in BOOLEAN :
          ReadUser(w, "toggle", u,
                   JobOf("toggle", u, users[u], NoUser, c, on, {}), "server")
    BY <1>1 DEF ToggleUserInbound
  <2> DEFINE j == JobOf("toggle", u, users[u], NoUser, c, on, {})
  <2>2. /\ j.row = users[u] /\ j.op = "toggle" /\ j \in Job
        /\ "toggle" \in AllOps \ {"update"}
    <3>1. "toggle" \in Reloading /\ c \in Cells
      BY DEF Reloading, PageCells
    <3> QED
      BY <3>1, ShowsType DEF JobOf, Shows, AllOps
  <2> HIDE DEF j
  <2> QED
    BY <2>1, <2>2, ReadUserSafe DEF j
<1>2. CASE RecreateUserInbound(w)
  <2>1. PICK u \in IDs, c \in PageCells :
          ReadUser(w, "recreate", u,
                   JobOf("recreate", u, users[u], NoUser, c, TRUE, {}), "server")
    BY <1>2 DEF RecreateUserInbound
  <2> DEFINE j == JobOf("recreate", u, users[u], NoUser, c, TRUE, {})
  <2>2. /\ j.row = users[u] /\ j.op = "recreate" /\ j \in Job
        /\ "recreate" \in AllOps \ {"update"}
    <3>1. "recreate" \in Reloading /\ c \in Cells
      BY DEF Reloading, PageCells
    <3> QED
      BY <3>1, ShowsType DEF JobOf, Shows, AllOps
  <2> HIDE DEF j
  <2> QED
    BY <2>1, <2>2, ReadUserSafe DEF j
<1>3. CASE UpdateUser(w)
  <2>1. PICK u \in IDs, name \in Names, sub \in FormSubs :
          ReadUser(w, "update", u,
            JobOf("update", u, users[u],
                  [username |-> name, sub |-> sub, uid |-> users[u].uid],
                  NoCell, FALSE, {}), "servers")
    BY <1>3 DEF UpdateUser
  <2> DEFINE form == [username |-> name, sub |-> sub, uid |-> users[u].uid]
             j == JobOf("update", u, users[u], form, NoCell, FALSE, {})
  <2>2. /\ j.row = users[u] /\ j.form.uid = users[u].uid /\ j.op = "update"
        /\ "update" \in AllOps \ Reloading
    BY DEF JobOf, AllOps, Reloading
  <2> HIDE DEF j
  <2> QED
    BY <2>1, <2>2, ReadUserSafe DEF j
<1>4. CASE DeleteUser(w)
  <2>1. PICK u \in IDs :
          ReadUser(w, "delete", u,
            JobOf("delete", u, users[u], NoUser, NoCell, FALSE, {}), "servers")
    BY <1>4 DEF DeleteUser
  <2> DEFINE j == JobOf("delete", u, users[u], NoUser, NoCell, FALSE, {})
  <2>2. /\ j.row = users[u] /\ j.op = "delete"
        /\ "delete" \in AllOps \ Reloading
    BY DEF JobOf, AllOps, Reloading
  <2> HIDE DEF j
  <2> QED
    BY <2>1, <2>2, ReadUserSafe DEF j
<1> QED
  BY <1>1, <1>2, <1>3, <1>4

LEMMA ReadCreatedSafe ==
  ASSUME TypeOK, Safe, NEW w \in Workers, ReadCreated(w)
  PROVE  Safe'
<1> DEFINE u == job[w].id
           j == [job[w] EXCEPT !.row = users[u]]
<1>1. RowsKnown' /\ RemoteSafe' /\ known' = known
  BY RowsKept, RemoteSafeKept DEF ReadCreated, Safe, database
<1>2. CASE Finish(w, "error")
  BY <1>1, <1>2, FinishSafe DEF Safe
<1>3. CASE /\ users[u] # NoUser /\ Goto(w, "select")
           /\ job' = [job EXCEPT ![w] = j] /\ UNCHANGED snap
  <2>1. u \in IDs /\ job[w] \in Job /\ job[w].op = "create"
    BY DEF ReadCreated, TypeOK, HandlersOK, JobsOK
  <2>2. users[u].uid \in known
    BY <1>3, <2>1 DEF Safe, RowsKnown
  <2>3. j.op = "create" /\ j.row = users[u]
    BY <2>1 DEF Job
  <2> HIDE DEF j
  <2>4. ASSUME NEW v \in Workers
        PROVE  \/ v # w /\ pc'[v] = pc[v] /\ job'[v] = job[v]
               \/ v = w /\ job'[v] = j
    BY <1>3 DEF Goto, TypeOK, HandlersOK
  <2>5. JobsKnown'
    BY <1>1, <2>2, <2>3, <2>4 DEF JobsKnown, Safe, HandlersSafe
  <2>6. ListingsHarmless'
    BY <1>3 DEF Safe, HandlersSafe, ListingsHarmless
  <2> QED
    BY <1>1, <2>5, <2>6 DEF Safe, HandlersSafe
<1> QED
  BY <1>2, <1>3 DEF ReadCreated

LEMMA SelectionSafe ==
  ASSUME TypeOK, Safe, NEW w \in Workers, NextSelection(w) \/ CreateReturns(w)
  PROVE  Safe'
<1>1. RowsKnown' /\ RemoteSafe' /\ known' = known
  BY RowsKept, RemoteSafeKept DEF NextSelection, CreateReturns, Safe, database
<1>2. CASE NextSelection(w)
  <2>1. PICK c \in job[w].picks :
          job' = [job EXCEPT ![w] = Selecting(job[w], c)]
    BY <1>2 DEF NextSelection
  <2>2. c \in Cells /\ job[w] \in Job
    BY <2>1 DEF TypeOK, HandlersOK, Job
  <2>3. JobsKnown'
    BY <1>1, <1>2, <2>1, <2>2, SelectingType, SameJobSafe
    DEF NextSelection, Goto, Safe
  <2>4. ListingsHarmless'
    BY <1>2 DEF NextSelection, Safe, HandlersSafe, ListingsHarmless
  <2> QED
    BY <1>1, <2>3, <2>4 DEF Safe, HandlersSafe
<1>3. CASE CreateReturns(w)
  BY <1>1, <1>3, FinishSafe DEF CreateReturns, Safe
<1> QED
  BY <1>2, <1>3

\* Steps that only move handler w or forget what it fetched.
LEMMA MoveSafe ==
  ASSUME TypeOK, Safe, NEW w \in Workers, NEW label,
         \/ pc[w] \notin {"idle", "reload", "refetch"} \/ label = "refetch",
         Goto(w, label), UNCHANGED <<job, known>>
  PROVE  JobsKnown'
<1>1. ASSUME NEW v \in Workers
      PROVE  \/ pc[v] \notin {"idle", "reload", "refetch"}
             \/ pc'[v] \in {pc[v], "refetch"}
  BY DEF Goto, TypeOK, HandlersOK
<1> QED
  BY <1>1 DEF JobsKnown, Safe, HandlersSafe

LEMMA ReadServerSafe ==
  ASSUME TypeOK, Safe, NEW w \in Workers, ReadServer(w)
  PROVE  Safe'
<1>1. RowsKnown' /\ RemoteSafe' /\ known' = known /\ pc[w] = "server"
  BY RowsKept, RemoteSafeKept DEF ReadServer, Safe, database
<1>2. CASE Return(w, "error")
  BY <1>1, <1>2, ReturnSafe DEF Safe
<1>3. CASE Goto(w, "list") /\ UNCHANGED <<job, status, snap, done, reply>>
  BY <1>1, <1>3, MoveSafe DEF Safe, HandlersSafe, ListingsHarmless
<1> QED
  BY <1>2, <1>3 DEF ReadServer

LEMMA ListInboundsSafe ==
  ASSUME TypeOK, Safe, NEW w \in Workers, ListInbounds(w)
  PROVE  Safe'
<1> DEFINE s == job[w].cell[1]
           label == IF job[w].op = "recreate" THEN "evict" ELSE "apply"
<1>1. RowsKnown' /\ RemoteSafe' /\ known' = known /\ pc[w] = "list"
  BY RowsKept, RemoteSafeKept DEF ListInbounds, Safe, database
<1>2. s \in Servers
  BY DEF ListInbounds, TypeOK, JobsOK, Cells
<1>3. CASE Return(w, "error")
  BY <1>1, <1>3, ReturnSafe DEF Safe
<1>4. CASE /\ snap' = [snap EXCEPT ![w][s] = panel[s]]
           /\ Goto(w, label) /\ UNCHANGED job
  <2> HIDE DEF s, label
  <2>1. JobsKnown'
    BY <1>1, <1>4, MoveSafe
  <2>2. ListingsHarmless'
    BY <1>2, <1>4, ListingFetched DEF Safe, HandlersSafe, RemoteSafe
  <2> QED
    BY <1>1, <2>1, <2>2 DEF Safe, HandlersSafe
<1> QED
  BY <1>3, <1>4 DEF ListInbounds

LEMMA ApplyStateSafe ==
  ASSUME TypeOK, Safe, NEW w \in Workers, ApplyState(w)
  PROVE  Safe'
<1> DEFINE s == job[w].cell[1]
           i == job[w].cell[2]
           x == job[w].row.uid
           c == ClientOf(job[w].row, job[w].enabled)
           r == UpsertRequest(s, i, snap[w][s], x, c)
<1>1. RowsKnown' /\ known' = known
  BY RowsKept DEF ApplyState, Safe, database
<1>2. /\ pc[w] = "apply" /\ job[w].row \in Row /\ job[w].enabled \in BOOLEAN
      /\ x \in UserUIDs /\ x \in UIDs /\ s \in Servers
  BY UserAssumption
  DEF ApplyState, TypeOK, JobsOK, HandlersOK, Job, Row, Cells
<1>3. x \in known
  BY <1>2 DEF Safe, HandlersSafe, JobsKnown
<1>4. ASSUME NEW q, Return(w, q) PROVE HandlersSafe'
  BY <1>1, <1>2, <1>4, ReturnSafe DEF Safe
<1>5. HandlersSafe'
  BY <1>4 DEF ApplyState
<1>6. CASE UNCHANGED remote
  BY <1>1, <1>5, <1>6, RemoteSafeKept DEF Safe
<1>7. ASSUME i \in Inbounds, NEW out \in Outcomes, PanelCall(r, out)
      PROVE  Safe'
  <2>1. snap[w][s] \in Content /\ c \in Client
    BY <1>2, ClientType DEF TypeOK, HandlersOK
  <2>2. r \in Request(Servers) /\ r.server = s /\ r.inbound = i /\ r.uid = x
    BY <1>2, <1>7, <2>1, UpsertType
  <2>3. <<s, i, x>> \notin Foreign
    BY <1>2, <1>7, OwnUIDNotForeign DEF Targets
  <2> HIDE DEF r, s, i, x
  <2>4. RemoteSafe'
    BY <1>1, <1>3, <1>7, <2>2, <2>3, CallSafe DEF Safe
  <2> QED
    BY <1>1, <1>5, <2>4 DEF Safe
<1> QED
  BY <1>6, <1>7 DEF ApplyState

LEMMA LoopSafe ==
  ASSUME TypeOK, Safe, NEW w \in Workers, UNCHANGED known,
         \/ UNCHANGED <<pc, job, snap>>
         \/ Finish(w, "error")
         \/ pc[w] = "evict" /\ Return(w, "error")
  PROVE  HandlersSafe'
<1>1. CASE UNCHANGED <<pc, job, snap>>
  BY <1>1 DEF Safe, HandlersSafe, ListingsHarmless, JobsKnown
<1>2. CASE Finish(w, "error")
  BY <1>2, FinishSafe DEF Safe
<1>3. CASE pc[w] = "evict" /\ Return(w, "error")
  BY <1>3, ReturnSafe DEF Safe
<1> QED
  BY <1>1, <1>2, <1>3

LEMMA EvictOneSafe ==
  ASSUME TypeOK, Safe, NEW w \in Workers, NEW t \in Targets, EvictOne(w, t)
  PROVE  Safe'
<1>1. RowsKnown' /\ known' = known
  BY RowsKept DEF EvictOne, Safe, database
<1>2. HandlersSafe'
  BY <1>1, LoopSafe DEF EvictOne
<1>3. /\ pc[w] = "evict" /\ job[w].row \in Row
      /\ Matches(snap[w][t[1]][t[2]][t[3]], t[3], job[w].row)
  BY DEF EvictOne, EvictTargets, TypeOK, JobsOK
<1>4. t \notin Foreign
  BY <1>3, MatchNotForeign DEF Safe
<1> DEFINE r == DeleteRequest(t[1], t[2], t[3])
<1>5. /\ r \in Request(Servers) /\ r.kind # "add"
      /\ <<r.server, r.inbound, r.uid>> = t
  BY DeleteType DEF Targets
<1>6. PICK out \in Outcomes : PanelCall(r, out)
  BY DEF EvictOne
<1> HIDE DEF r
<1>7. RemoteSafe'
  BY <1>1, <1>4, <1>5, <1>6, CallSafe DEF Safe
<1> QED
  BY <1>1, <1>2, <1>7 DEF Safe

LEMMA ReaddSafe ==
  ASSUME TypeOK, Safe, NEW w \in Workers, Readd(w)
  PROVE  Safe'
<1> DEFINE s == job[w].cell[1]
           i == job[w].cell[2]
           c == ClientOf(job[w].row, TRUE)
           r(x) == UpsertRequest(s, i, snap[w][s], x, c)
<1>1. RowsKnown' /\ known' = known
  BY RowsKept DEF Readd, Safe, database
<1>2. HandlersSafe'
  BY <1>1, ReturnSafe DEF Readd, Safe
<1>3. /\ pc[w] = "evict" /\ job[w].row \in Row /\ s \in Servers
      /\ job[w].row.uid \in UserUIDs
  BY DEF Readd, TypeOK, JobsOK, Cells, Row
<1>4. CASE UNCHANGED remote
  BY <1>1, <1>2, <1>4, RemoteSafeKept DEF Safe
<1>5. ASSUME i \in Inbounds, NEW x \in UIDs, NEW out \in Outcomes,
             Chosen(w, x), PanelCall(r(x), out)
      PROVE  Safe'
  <2>1. snap[w][s] \in Content /\ c \in Client
    BY <1>3, ClientType DEF TypeOK, HandlersOK
  <2>2. /\ r(x) \in Request(Servers)
        /\ r(x).server = s /\ r(x).inbound = i /\ r(x).uid = x
        /\ r(x).kind = "add" <=> snap[w][s][i][x] = NoClient
    <3> HIDE DEF s, i, c
    <3> QED
      BY <1>3, <1>5, <2>1, UpsertType
  <2>3. <<s, i, x>> \in Targets
    BY <1>3, <1>5 DEF Targets
  <2>4. \/ Matches(snap[w][s][i][x], x, job[w].row)
        \/ x = job[w].row.uid
    BY <1>5 DEF Chosen
  <2>5. <<s, i, x>> \notin Foreign
    <3>1. CASE Matches(snap[w][s][i][x], x, job[w].row)
      BY <1>3, <2>3, <3>1, MatchNotForeign DEF Safe
    <3>2. CASE x = job[w].row.uid
      BY <1>3, <2>3, <3>2, OwnUIDNotForeign
    <3> QED
      BY <2>4, <3>1, <3>2
  <2>6. r(x).kind = "add" => x \in known
    BY <1>3, <2>2, <2>4 DEF Matches, Safe, HandlersSafe, JobsKnown
  <2> HIDE DEF r, s, i
  <2>7. RemoteSafe'
    BY <1>1, <1>5, <2>2, <2>5, <2>6, CallSafe DEF Safe
  <2> QED
    BY <1>1, <1>2, <2>7 DEF Safe
<1> QED
  BY <1>4, <1>5 DEF Readd

LEMMA FanOutSafe ==
  ASSUME TypeOK, Safe, NEW w \in Workers,
         ListServers(w) \/ \E s \in Servers : Fetch(w, s)
  PROVE  Safe'
<1>1. RowsKnown' /\ RemoteSafe' /\ known' = known
  BY RowsKept, RemoteSafeKept DEF ListServers, Fetch, Safe, database
<1>2. CASE ListServers(w)
  <2>1. JobsKnown'
    BY <1>1, <1>2, MoveSafe DEF ListServers
  <2>2. ListingsHarmless'
    BY <1>2 DEF ListServers, Safe, HandlersSafe, ListingsHarmless
  <2> QED
    BY <1>1, <2>1, <2>2 DEF Safe, HandlersSafe
<1>3. ASSUME NEW s \in Servers, Fetch(w, s)
      PROVE  Safe'
  <2>1. JobsKnown'
    BY <1>1, <1>3 DEF Fetch, Safe, HandlersSafe, JobsKnown
  <2>2. ListingsHarmless'
    <3>1. CASE snap' = [snap EXCEPT ![w][s] = panel[s]]
      BY <3>1, ListingFetched DEF Safe, HandlersSafe, RemoteSafe
    <3>2. CASE UNCHANGED snap
      BY <3>2 DEF Safe, HandlersSafe, ListingsHarmless
    <3> QED
      BY <1>3, <3>1, <3>2 DEF Fetch
  <2> QED
    BY <1>1, <2>1, <2>2 DEF Safe, HandlersSafe
<1> QED
  BY <1>2, <1>3

LEMMA PushSafe ==
  ASSUME TypeOK, Safe, NEW w \in Workers, NEW t \in Targets,
         t \in Listed(w), pc[w] = "fetch",
         NEW r \in Request(Servers), r.kind # "add",
         r.server = t[1], r.inbound = t[2], r.uid = t[3], Push(w, t, r)
  PROVE  Safe'
<1>1. RowsKnown' /\ known' = known
  BY RowsKept DEF Push, Safe, database
<1>2. HandlersSafe'
  BY <1>1, LoopSafe DEF Push
<1>3. t[3] \in UserUIDs /\ t = <<t[1], t[2], t[3]>>
  BY DEF Listed, TypeOK, JobsOK, Row, Targets
<1>4. <<r.server, r.inbound, r.uid>> \notin Foreign
  BY <1>3, OwnUIDNotForeign
<1>5. PICK out \in Outcomes : PanelCall(r, out)
  BY DEF Push
<1>6. RemoteSafe'
  BY <1>1, <1>4, <1>5, CallSafe DEF Safe
<1> QED
  BY <1>1, <1>2, <1>6 DEF Safe

LEMMA PushOneSafe ==
  ASSUME TypeOK, Safe, NEW w \in Workers, NEW t \in Targets, PushOne(w, t)
  PROVE  Safe'
BY PushRequest, PushSafe DEF PushOne, Joined

LEMMA PurgeOneSafe ==
  ASSUME TypeOK, Safe, NEW w \in Workers, NEW t \in Targets, PurgeOne(w, t)
  PROVE  Safe'
<1> DEFINE r == DeleteRequest(t[1], t[2], t[3])
<1>1. /\ r \in Request(Servers) /\ r.kind # "add"
      /\ r.server = t[1] /\ r.inbound = t[2] /\ r.uid = t[3]
  BY DeleteType DEF Targets
<1>2. t \in Listed(w) /\ pc[w] = "fetch" /\ Push(w, t, r)
  BY DEF PurgeOne, Joined
<1> HIDE DEF r
<1> QED
  BY <1>1, <1>2, PushSafe

LEMMA CommitSafe ==
  ASSUME TypeOK, Safe, NEW w \in Workers, CommitUpdate(w) \/ CommitDelete(w)
  PROVE  Safe'
<1>1. RemoteSafe' /\ known' = known
  BY RemoteSafeKept DEF CommitUpdate, CommitDelete, Safe
<1>2. Finish(w, "ok") \/ Finish(w, "error")
  BY DEF CommitUpdate, CommitDelete, RowsAffected
<1>3. HandlersSafe'
  BY <1>1, <1>2, FinishSafe DEF Safe
<1>4. CASE CommitUpdate(w)
  <2>1. job[w].id \in IDs /\ job[w].form.uid \in known
    BY <1>4 DEF CommitUpdate, Joined, TypeOK, JobsOK, Safe, HandlersSafe,
                JobsKnown
  <2>2. users' = users \/ users' = [users EXCEPT ![job[w].id] = job[w].form]
    BY <1>4 DEF CommitUpdate, TypeOK, DataOK
  <2>3. RowsKnown'
    BY <1>1, <2>1, <2>2 DEF Safe, RowsKnown, TypeOK, DataOK
  <2> QED
    BY <1>1, <1>3, <2>3 DEF Safe
<1>5. CASE CommitDelete(w)
  <2>1. users' = users \/ users' = [users EXCEPT ![job[w].id] = NoUser]
    BY <1>5 DEF CommitDelete
  <2>2. RowsKnown'
    BY <1>1, <2>1 DEF Safe, RowsKnown, TypeOK, DataOK
  <2> QED
    BY <1>1, <1>3, <2>2 DEF Safe
<1> QED
  BY <1>4, <1>5

\* Loading the page that shows the result disturbs nothing.
LEMMA ReportSafe ==
  ASSUME TypeOK, Safe, NEW w \in Workers,
         Reload(w) \/ Render(w) \/ \E s \in Servers : Refetch(w, s)
  PROVE  Safe'
<1>1. RowsKnown' /\ RemoteSafe' /\ known' = known
  BY RowsKept, RemoteSafeKept DEF Reload, Render, Refetch, Safe, database
<1>2. CASE \E r : Finish(w, r)
  BY <1>1, <1>2, FinishSafe DEF Safe
<1>3. CASE Goto(w, "refetch") /\ UNCHANGED <<job, snap>>
  BY <1>1, <1>3, MoveSafe DEF Safe, HandlersSafe, ListingsHarmless
<1>4. CASE UNCHANGED <<pc, job, snap>>
  BY <1>1, <1>4 DEF Safe, HandlersSafe, ListingsHarmless, JobsKnown
<1> QED
  BY <1>2, <1>3, <1>4 DEF Reload, Render, Refetch

LEMMA ApplyLateSafe ==
  ASSUME TypeOK, Safe, NEW r \in late, ApplyLate(r)
  PROVE  Safe'
<1>1. RowsKnown' /\ known' = known
  BY RowsKept DEF ApplyLate, Safe, database
<1>2. HandlersSafe'
  BY <1>1 DEF ApplyLate, handler, Safe, HandlersSafe, ListingsHarmless,
              JobsKnown
<1>3. /\ r \in Request(Servers)
      /\ <<r.server, r.inbound, r.uid>> \notin Foreign
      /\ r.kind = "add" => r.uid \in known
  BY DEF TypeOK, RemoteOK, Safe, RemoteSafe, LateHarmless, LateKnown
<1>4. ForeignUntouched' /\ NoUnownedClients'
  <2>1. CASE Accepts(panel[r.server], r)
    <3>1. \A t \in Targets :
            \/ panel'[t[1]][t[2]][t[3]] = panel[t[1]][t[2]][t[3]]
            \/ t = <<r.server, r.inbound, r.uid>>
      BY <1>3, <2>1, ArriveEffect DEF ApplyLate, TypeOK
    <3> QED
      BY <1>1, <1>3, <2>1, <3>1, CellSafe DEF Safe
  <2>2. CASE ~Accepts(panel[r.server], r)
    BY <1>1, <2>2
    DEF ApplyLate, Safe, RemoteSafe, ForeignUntouched, NoUnownedClients
  <2> QED
    BY <2>1, <2>2
<1>5. LateHarmless' /\ LateKnown'
  BY <1>1 DEF ApplyLate, Safe, RemoteSafe, LateHarmless, LateKnown
<1> QED
  BY <1>1, <1>2, <1>4, <1>5 DEF Safe, RemoteSafe

LEMMA RestartSafe ==
  ASSUME TypeOK, Safe, Restart
  PROVE  Safe'
<1>1. RowsKnown' /\ RemoteSafe' /\ known' = known
  BY RowsKept, RemoteSafeKept DEF Restart, Safe, database
<1>2. ListingsHarmless'
  BY DEF Restart, ListingsHarmless, NoListing, EmptyContent, Foreign, Targets
<1>3. JobsKnown'
  BY EmptyTypes DEF Restart, JobsKnown
<1> QED
  BY <1>1, <1>2, <1>3 DEF Safe, HandlersSafe

LEMMA QuietSafe ==
  ASSUME TypeOK, Safe, UNCHANGED <<database, remote, handler>>
  PROVE  Safe'
<1>1. RowsKnown' /\ RemoteSafe' /\ known' = known
  BY RowsKept, RemoteSafeKept DEF Safe, database
<1>2. HandlersSafe'
  BY <1>1 DEF handler, Safe, HandlersSafe, ListingsHarmless, JobsKnown
<1> QED
  BY <1>1, <1>2 DEF Safe

LEMMA NextSafe == TypeOK /\ Safe /\ [Next]_vars => Safe'
<1> SUFFICES ASSUME TypeOK, Safe, [Next]_vars PROVE Safe'
  OBVIOUS
<1>1. ASSUME NEW w \in Workers, Accepted(w)
      PROVE  Safe'
  BY <1>1, CreateUserSafe, BeginningsSafe DEF Accepted
<1>2. ASSUME NEW w \in Workers, Step(w)
      PROVE  Safe'
  <2>1. CASE ReadCreated(w) \/ NextSelection(w) \/ CreateReturns(w)
    BY <2>1, ReadCreatedSafe, SelectionSafe
  <2>2. CASE ReadServer(w) \/ ListInbounds(w) \/ ApplyState(w) \/ Readd(w)
    BY <2>2, ReadServerSafe, ListInboundsSafe, ApplyStateSafe, ReaddSafe
  <2>3. CASE ListServers(w) \/ CommitUpdate(w) \/ CommitDelete(w)
    BY <2>3, FanOutSafe, CommitSafe
  <2>4. CASE Reload(w) \/ Render(w)
             \/ \E s \in Servers : Fetch(w, s) \/ Refetch(w, s)
    BY <2>4, FanOutSafe, ReportSafe
  <2>5. CASE \E t \in Targets : EvictOne(w, t) \/ PushOne(w, t) \/ PurgeOne(w, t)
    BY <2>5, EvictOneSafe, PushOneSafe, PurgeOneSafe
  <2> QED
    BY <1>2, <2>1, <2>2, <2>3, <2>4, <2>5 DEF Step
<1>3. CASE Environment
  <2>1. ASSUME NEW s \in Servers, NEW st \in ServerState, EditServer(s, st)
        PROVE  Safe'
    BY <2>1, QuietSafe DEF EditServer
  <2>2. CASE Rest
    BY <2>2, QuietSafe DEF Rest, vars
  <2> QED
    BY <1>3, <2>1, <2>2, ApplyLateSafe, RestartSafe DEF Environment
<1>4. CASE UNCHANGED vars
  BY <1>4, QuietSafe DEF vars
<1> QED
  BY <1>1, <1>2, <1>3, <1>4 DEF Next

\* Stale listings and late requests do no harm because of this invariant: it
\* holds for any number of handlers, servers, users, faults and restarts.
THEOREM InvariantHolds == Spec => []IInv
<1>1. Init => IInv
  BY InitType, InitSafe, Split DEF Safe
<1>2. IInv /\ [Next]_vars => IInv'
  <2>1. IInv <=> TypeOK /\ Safe
    BY Split DEF Safe
  <2>2. IInv' <=> TypeOK' /\ Safe'
    BY DEF IInv, StaleDataHarmless, Safe, RemoteSafe, HandlersSafe
  <2> QED
    BY <2>1, <2>2, NextType, NextSafe
<1> QED
  BY <1>1, <1>2, PTL DEF Spec

\* Clients kept by hand on any panel survive every interleaving of the user
\* operations, every stale listing, late request, fault and restart.
THEOREM ForeignSafe == Spec => []ForeignUntouched
<1>1. IInv => ForeignUntouched
  BY DEF IInv
<1> QED
  BY <1>1, InvariantHolds, PTL

\* Nothing a handler has fetched or left behind is aimed at a foreign client.
THEOREM StaleDataSafe == Spec => []StaleDataHarmless
<1>1. IInv => StaleDataHarmless
  BY DEF IInv
<1> QED
  BY <1>1, InvariantHolds, PTL

\* No panel gets a client for a managed UID before that UID was stored.
THEOREM OwnedSafe == Spec => []NoUnownedClients
<1>1. IInv => NoUnownedClients
  BY DEF IInv
<1> QED
  BY <1>1, InvariantHolds, PTL
=============================================================================
