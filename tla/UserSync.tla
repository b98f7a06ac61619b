------------------------------ MODULE UserSync ------------------------------
(***************************************************************************)
(* The user operations of internal/app/service.go: CreateUser, UpdateUser, *)
(* DeleteUser, ToggleUserInbound and RecreateUserInbound, run by           *)
(* concurrent HTTP handlers over one SQLite database and several panels.   *)
(*                                                                         *)
(* Every database call and every panel call is one step, so handlers       *)
(* interleave between the calls, and each call may fail.  (The two reads   *)
(* of Reload, which are only shown, are one step.)  What a handler holds   *)
(* on its stack between two calls (the user row it read, the listings it   *)
(* fetched) is kept in job and snap and may be stale by the time it is     *)
(* used.                                                                   *)
(***************************************************************************)
EXTENDS Panel, Naturals, FiniteSets

CONSTANTS
  Workers,     \* HTTP handler goroutines
  Servers,     \* server ids
  Names,       \* usernames an administrator types
  UserUIDs,    \* UIDs typed or generated for local users
  FormSubs,    \* subscription ids typed in the edit form (trimmed, maybe blank)
  GoneInbounds,\* inbound ids a stale page still shows but no panel has
  Selections,  \* checkbox selections sent with the create form
  Ops,         \* the operations of this instance
  Seed,        \* what the panels hold when the program is first started
  InitServers, \* the servers table at that moment
  MaxUsers,    \* bound: rows ever inserted into users
  MaxOps,      \* bound: operations started
  MaxFaults,   \* bound: failing calls, lost replies and restarts
  MaxEdits,    \* bound: edits of the servers table
  Delays,      \* whether a request may reach its panel after its timeout
  NoUser,      \* no row
  NoCell       \* no (server, inbound) pair

IDs == 1..MaxUsers
InboundIDs == Inbounds \cup GoneInbounds
Row == [username : Names, sub : SubIDs, uid : UserUIDs]
Cells == Servers \X InboundIDs
Targets == Servers \X Inbounds \X UIDs
ServerState == {"new", "absent", "active", "inactive"}
AllOps == {"create", "update", "delete", "toggle", "recreate"}

\* The operations whose handler answers with the users table, loaded afresh.
Reloading == {"toggle", "recreate"}

ASSUME UserAssumption ==
  /\ Names \subseteq Emails
  /\ UserUIDs \subseteq UIDs
  /\ FormSubs \subseteq SubIDs
  /\ GoneInbounds \cap Inbounds = {}
  /\ Selections \subseteq SUBSET Cells
  /\ Ops \subseteq AllOps
  /\ Seed \in [Servers -> Content]
  /\ InitServers \in [Servers -> ServerState]
  /\ MaxUsers \in Nat /\ MaxOps \in Nat /\ MaxFaults \in Nat /\ MaxEdits \in Nat
  /\ Delays \in BOOLEAN
  /\ NoUser \notin Row
  /\ NoCell \notin Cells

VARIABLES
  users,   \* the users table: id -> row
  lastID,  \* AUTOINCREMENT counter of users
  servers, \* the servers table: id -> new (not given out yet), active,
           \* inactive or absent (deleted)
  panel,   \* the content of each panel
  late,    \* requests whose sender gave up but which may still arrive
  pc,      \* where each handler is
  job,     \* what each handler is doing, with the row it read
  status,  \* per handler and server: outcome of the listing
  snap,    \* per handler and server: the listing, as fetched
  done,    \* per handler: panel calls of its loop already made
  reply,   \* what each handler last answered
  known,   \* history: UIDs that ever had a row
  ops, faults, edits \* counters behind MaxOps, MaxFaults, MaxEdits

database == <<users, lastID, known>>
remote == <<panel, late>>
handler == <<pc, job, status, snap, done, reply>>
budget == <<ops, faults, edits>>
vars == <<database, servers, remote, handler, budget>>

----------------------------------------------------------------------------
\* A handler's stack: operation, user id, the row read, the form sent, the
\* inbound in question, whether to enable, the boxes ticked, and how the
\* calls went so far.
JobOf(op, u, row, form, cell, on, picks) ==
  [op |-> op, id |-> u, row |-> row, form |-> form, cell |-> cell,
   enabled |-> on, picks |-> picks, result |-> "ok"]

NoJob == JobOf("none", 0, NoUser, NoUser, NoCell, FALSE, {})

Unlisted == [s \in Servers |-> "skipped"]
NoListing == [s \in Servers |-> EmptyContent]

Init ==
  /\ users = [u \in IDs |-> NoUser]
  /\ lastID = 0
  /\ known = {}
  /\ servers = InitServers
  /\ panel = Seed
  /\ late = {}
  /\ pc = [w \in Workers |-> "idle"]
  /\ job = [w \in Workers |-> NoJob]
  /\ status = [w \in Workers |-> Unlisted]
  /\ snap = [w \in Workers |-> NoListing]
  /\ done = [w \in Workers |-> {}]
  /\ reply = [w \in Workers |-> "none"]
  /\ ops = 0 /\ faults = 0 /\ edits = 0

Goto(w, label) == pc' = [pc EXCEPT ![w] = label]

\* A request arrives and its first database call succeeds.
Begin(w, j, label) ==
  /\ Goto(w, label)
  /\ job' = [job EXCEPT ![w] = j]
  /\ reply' = [reply EXCEPT ![w] = "none"]
  /\ UNCHANGED <<status, snap, done>>

\* Mutant: the answer goes out and the handler's data stays behind.
FinishKeeping(w, r) ==
  /\ Goto(w, "idle")
  /\ reply' = [reply EXCEPT ![w] = r]
  /\ UNCHANGED <<job, status, snap, done>>

\* The handler answers and its stack is gone.
Finish(w, r) ==
  /\ Goto(w, "idle")
  /\ job' = [job EXCEPT ![w] = NoJob]
  /\ status' = [status EXCEPT ![w] = Unlisted]
  /\ snap' = [snap EXCEPT ![w] = NoListing]
  /\ done' = [done EXCEPT ![w] = {}]
  /\ reply' = [reply EXCEPT ![w] = r]

Arrives(w, op) ==
  /\ op \in Ops
  /\ pc[w] = "idle"
  /\ ops < MaxOps
  /\ ops' = ops + 1
  /\ UNCHANGED edits

\* A call that could have worked does not: database error, panel down,
\* HTTP error, timeout.
Fault == faults < MaxFaults /\ faults' = faults + 1

\* A writing request to a panel.  out is what the caller sees: the request
\* is accepted, refused, lost on the way, applied with the reply lost, or
\* still under way when the caller's timeout expires.
PanelCall(r, out) ==
  LET content == panel[r.server]
      Arrive == panel' = [panel EXCEPT ![r.server] = Written(content, r)]
  IN \/ /\ out = "ok" /\ Accepts(content, r)
        /\ Arrive /\ UNCHANGED <<late, faults>>
     \/ /\ out = "duplicate" /\ EmailTaken(content, r)
        /\ UNCHANGED <<panel, late, faults>>
     \/ /\ out = "error" /\ ~Accepts(content, r) /\ ~EmailTaken(content, r)
        /\ UNCHANGED <<panel, late, faults>>
     \/ /\ out = "error" /\ Fault
        /\ UNCHANGED <<panel, late>>
     \/ /\ out = "error" /\ Fault /\ Accepts(content, r)
        /\ Arrive /\ UNCHANGED late
     \/ /\ out = "error" /\ Fault /\ Delays
        /\ late' = late \cup {r} /\ UNCHANGED panel

Outcomes == {"ok", "duplicate", "error"}

\* The result of several calls is ok as long as each was.
Worse(result, r) == IF r = "ok" THEN result ELSE "error"
Noting(j, r) == [j EXCEPT !.cell = NoCell, !.result = Worse(@, r)]

Ending(j, r) == [j EXCEPT !.result = r]

(* setUserInboundState and RecreateUserInbound hand their result to their  *)
(* caller: CreateUser notes an error and goes on, the handlers of toggle   *)
(* and recreate load the page that shows it.                               *)
Return(w, r) ==
  /\ \/ /\ job[w].op = "create"
        /\ Goto(w, "select")
        /\ job' = [job EXCEPT ![w] = Noting(@, r)]
        /\ UNCHANGED done
     \/ /\ job[w].op # "create"
        /\ Goto(w, "reload")
        /\ job' = [job EXCEPT ![w] = Ending(@, r)]
        /\ done' = [done EXCEPT ![w] = {}]
  /\ status' = [status EXCEPT ![w] = Unlisted]
  /\ snap' = [snap EXCEPT ![w] = NoListing]
  /\ UNCHANGED reply

----------------------------------------------------------------------------
(* CreateUser. *)

Available(name, x) ==
  \A u \in IDs : users[u] # NoUser =>
                   users[u].username # name /\ users[u].uid # x

Insert(row) ==
  /\ users' = [users EXCEPT ![lastID + 1] = row]
  /\ lastID' = lastID + 1
  /\ known' = known \cup {row.uid}

\* Mutant: nobody looks at the error of the insert.
InsertOverlooked(w, j) == Begin(w, j, "select")

\* No row was stored: the answer is an error and no panel is called.
InsertFails(w, j) == Finish(w, "error")

\* What a page can show: ids of servers that exist or once did.
PageCells == {c \in Cells : servers[c[1]] # "new"}

\* INSERT.  A blank id is replaced by a random one before it.
CreateUser(w) ==
  \E row \in Row, picks \in Selections :
    LET j == JobOf("create", lastID + 1, row, NoUser, NoCell, FALSE, picks) IN
    /\ Arrives(w, "create")
    /\ row.sub \in FormSubs \ {BlankSub}
    /\ picks \subseteq PageCells
    /\ lastID < MaxUsers
    /\ \/ /\ Available(row.username, row.uid)
          /\ Insert(row)
          /\ Begin(w, j, "created")
          /\ UNCHANGED faults
       \/ /\ ~Available(row.username, row.uid)
          /\ InsertFails(w, j)
          /\ UNCHANGED <<database, faults>>
       \/ /\ Fault
          /\ InsertFails(w, j)
          /\ UNCHANGED database
    /\ UNCHANGED <<servers, remote>>

\* The row is read back.  If that fails, or another handler deleted it
\* meanwhile, the answer is an error and no panel is called.
ReadCreated(w) ==
  LET u == job[w].id
  IN /\ pc[w] = "created"
     /\ \/ /\ users[u] # NoUser
           /\ Goto(w, "select")
           /\ job' = [job EXCEPT ![w] = [@ EXCEPT !.row = users[u]]]
           /\ UNCHANGED <<status, snap, done, reply, faults>>
        \/ /\ users[u] = NoUser
           /\ Finish(w, "error")
           /\ UNCHANGED faults
        \/ /\ Fault
           /\ Finish(w, "error")
     /\ UNCHANGED <<database, servers, remote, ops, edits>>

\* The loop variable: every ticked box asks for access.
Selecting(j, c) == [j EXCEPT !.cell = c, !.enabled = TRUE]

Tried(w) == {<<d[1], d[2]>> : d \in done[w]}

\* The form's selections come out of a map, in any order.
NextSelection(w) ==
  /\ pc[w] = "select"
  /\ \E c \in job[w].picks \ Tried(w) :
       /\ job' = [job EXCEPT ![w] = Selecting(@, c)]
       /\ done' = [done EXCEPT ![w] = @ \cup {<<c[1], c[2], job[w].row.uid>>}]
  /\ Goto(w, "server")
  /\ UNCHANGED <<database, servers, remote, status, snap, reply, budget>>

CreateReturns(w) ==
  /\ pc[w] = "select"
  /\ job[w].picks \subseteq Tried(w)
  /\ Finish(w, job[w].result)
  /\ UNCHANGED <<database, servers, remote, budget>>

----------------------------------------------------------------------------
(* The operations on an existing user begin by reading the row. *)

\* No row, no operation: the handler answers, or shows the error in a page.
Fail(w, op, j) ==
  \/ op \in Reloading /\ Begin(w, Ending(j, "error"), "reload")
  \/ op \notin Reloading /\ Finish(w, "error")

\* Any id the page ever showed: the row may be gone by now.
ReadUser(w, op, u, j, label) ==
  /\ u \in 1..lastID
  /\ \/ /\ users[u] # NoUser
        /\ Begin(w, j, label)
        /\ UNCHANGED faults
     \/ /\ users[u] = NoUser
        /\ Fail(w, op, j)
        /\ UNCHANGED faults
     \/ /\ Fault
        /\ Fail(w, op, j)
  /\ UNCHANGED <<database, servers, remote>>

ToggleUserInbound(w) ==
  /\ Arrives(w, "toggle")
  /\ \E u \in IDs, c \in PageCells, on \in BOOLEAN :
       ReadUser(w, "toggle", u,
                JobOf("toggle", u, users[u], NoUser, c, on, {}), "server")

RecreateUserInbound(w) ==
  /\ Arrives(w, "recreate")
  /\ \E u \in IDs, c \in PageCells :
       ReadUser(w, "recreate", u,
                JobOf("recreate", u, users[u], NoUser, c, TRUE, {}), "server")

\* The form replaces username and subscription id; the id may be blank.
UpdateUser(w) ==
  /\ Arrives(w, "update")
  /\ \E u \in IDs, name \in Names, sub \in FormSubs :
       LET form == [username |-> name, sub |-> sub, uid |-> users[u].uid]
       IN ReadUser(w, "update", u,
                   JobOf("update", u, users[u], form, NoCell, FALSE, {}), "servers")

DeleteUser(w) ==
  /\ Arrives(w, "delete")
  /\ \E u \in IDs :
       ReadUser(w, "delete", u,
                JobOf("delete", u, users[u], NoUser, NoCell, FALSE, {}), "servers")

----------------------------------------------------------------------------
(* setUserInboundState and RecreateUserInbound: one server, one listing.   *)

\* servers.GetByID and serverCredentials.  An inactive server will do.
ReadServer(w) ==
  /\ pc[w] = "server"
  /\ \/ /\ servers[job[w].cell[1]] \in {"active", "inactive"}
        /\ Goto(w, "list")
        /\ UNCHANGED <<job, status, snap, done, reply, faults>>
     \/ /\ servers[job[w].cell[1]] \notin {"active", "inactive"}
        /\ Return(w, "error")
        /\ UNCHANGED faults
     \/ /\ Fault
        /\ Return(w, "error")
  /\ UNCHANGED <<database, servers, remote, ops, edits>>

ListInbounds(w) ==
  LET s == job[w].cell[1] IN
  /\ pc[w] = "list"
  /\ \/ /\ snap' = [snap EXCEPT ![w][s] = panel[s]]
        /\ status' = [status EXCEPT ![w][s] = "up"]
        /\ Goto(w, IF job[w].op = "recreate" THEN "evict" ELSE "apply")
        /\ UNCHANGED <<job, done, reply, faults>>
     \/ /\ Fault
        /\ Return(w, "error")
  /\ UNCHANGED <<database, servers, remote, ops, edits>>

\* Mutant: every write enables the client.
ClientAlwaysOn(row, on) ==
  [email |-> row.username, sub |-> row.sub, enable |-> TRUE]

\* The client a handler wants to see for its user.
ClientOf(row, on) == [email |-> row.username, sub |-> row.sub, enable |-> on]

\* Mutants: the refusal is taken for success, any failure for a refusal.
AnswerSilent(out) == IF out = "duplicate" THEN "ok" ELSE out
AnswerAlarmed(out) == IF out # "ok" THEN "conflict" ELSE out

\* A refusal for a duplicate e-mail becomes DuplicateEmailError, which the
\* web handler answers with the conflict dialog.
Answer(out) == IF out = "duplicate" THEN "conflict" ELSE out

\* The loop over the listed inbounds and the upsert in it.
ApplyState(w) ==
  LET s == job[w].cell[1]
      i == job[w].cell[2]
      x == job[w].row.uid
      listed == snap[w][s]
  IN /\ pc[w] = "apply"
     /\ \/ /\ i \notin Inbounds
           /\ Return(w, "error")
           /\ UNCHANGED <<remote, faults>>
        \/ /\ i \in Inbounds
           /\ ~job[w].enabled /\ listed[i][x] = NoClient
           /\ Return(w, "ok")
           /\ UNCHANGED <<remote, faults>>
        \/ /\ i \in Inbounds
           /\ job[w].enabled \/ listed[i][x] # NoClient
           /\ \E out \in Outcomes :
                /\ PanelCall(UpsertRequest(s, i, listed, x,
                               ClientOf(job[w].row, job[w].enabled)), out)
                /\ Return(w, Answer(out))
     /\ UNCHANGED <<database, servers, ops, edits>>

\* Mutant: the condition that skips other people's clients is dropped.
MatchesAnyone(c, x, row) == c # NoClient

\* The same person under this UID or under this name.
Matches(c, x, row) == c # NoClient /\ (x = row.uid \/ c.email = row.username)

\* Mutant: only the name counts.
EvictTargetsByName(w) ==
  LET s == job[w].cell[1] IN
  {t \in {s} \X (Inbounds \ {job[w].cell[2]}) \X UIDs :
     /\ snap[w][s][t[2]][t[3]] # NoClient
     /\ snap[w][s][t[2]][t[3]].email = job[w].row.username}

EvictTargets(w) ==
  LET s == job[w].cell[1] IN
  {t \in {s} \X (Inbounds \ {job[w].cell[2]}) \X UIDs :
     Matches(snap[w][s][t[2]][t[3]], t[3], job[w].row)}

\* One turn of the loop that clears the server's other inbounds.
EvictOne(w, t) ==
  /\ pc[w] = "evict"
  /\ t \in EvictTargets(w) \ done[w]
  /\ \E out \in Outcomes :
       /\ PanelCall(DeleteRequest(t[1], t[2], t[3]), out)
       /\ \/ /\ out = "ok"
             /\ done' = [done EXCEPT ![w] = @ \cup {t}]
             /\ UNCHANGED <<pc, job, status, snap, reply>>
          \/ /\ out # "ok"
             /\ Return(w, "error")
  /\ UNCHANGED <<database, servers, ops, edits>>

\* The client of the target inbound that will be rewritten: the first one
\* listed under this UID or this name, else a new one.
Chosen(w, x) ==
  LET listed == snap[w][job[w].cell[1]][job[w].cell[2]]
      same == {y \in UIDs : Matches(listed[y], y, job[w].row)}
  IN x \in same \/ (same = {} /\ x = job[w].row.uid)

\* Only after the evictions is it noticed that the target is missing.
Readd(w) ==
  LET s == job[w].cell[1]
      i == job[w].cell[2]
  IN /\ pc[w] = "evict"
     /\ EvictTargets(w) \subseteq done[w]
     /\ \/ /\ i \notin Inbounds
           /\ Return(w, "error")
           /\ UNCHANGED <<remote, faults>>
        \/ /\ i \in Inbounds
           /\ \E x \in UIDs, out \in Outcomes :
                /\ Chosen(w, x)
                /\ PanelCall(UpsertRequest(s, i, snap[w][s], x,
                               ClientOf(job[w].row, TRUE)), out)
                /\ Return(w, IF out = "ok" THEN "ok" ELSE "error")
     /\ UNCHANGED <<database, servers, ops, edits>>

----------------------------------------------------------------------------
(* UpdateUser and DeleteUser: fan out over all active servers, join, act.  *)

\* One goroutine is started for each active server.
Asked == [s \in Servers |-> IF servers[s] = "active" THEN "pending"
                                                    ELSE "skipped"]

\* FetchServerStatuses reads the servers table.  The callers only log its
\* error and carry on with no servers at all.
ListServers(w) ==
  /\ pc[w] = "servers"
  /\ Goto(w, "fetch")
  /\ \/ /\ status' = [status EXCEPT ![w] = Asked]
        /\ UNCHANGED faults
     \/ /\ Fault
        /\ UNCHANGED status
  /\ UNCHANGED <<database, servers, remote, job, snap, done, reply, ops, edits>>

\* One goroutine per server; each fills the slot of its own server.
Fetch(w, s) ==
  /\ pc[w] = "fetch"
  /\ status[w][s] = "pending"
  /\ \/ /\ status' = [status EXCEPT ![w][s] = "up"]
        /\ snap' = [snap EXCEPT ![w][s] = panel[s]]
        /\ UNCHANGED faults
     \/ /\ Fault
        /\ status' = [status EXCEPT ![w][s] = "down"]
        /\ UNCHANGED snap
  /\ UNCHANGED <<database, servers, remote, pc, job, done, reply, ops, edits>>

\* Mutant: a server that failed never counts as finished.
JoinedAllUp(w) ==
  pc[w] = "fetch" /\ \A s \in Servers : status[w][s] \in {"up", "skipped"}

Joined(w) == pc[w] = "fetch" /\ \A s \in Servers : status[w][s] # "pending"

\* Mutant: disabled clients are passed over.
ListedEnabled(w) ==
  {t \in Targets : /\ status[w][t[1]] = "up"
                   /\ t[3] = job[w].row.uid
                   /\ snap[w][t[1]][t[2]][t[3]] # NoClient
                   /\ snap[w][t[1]][t[2]][t[3]].enable}

\* The user's clients on the servers that answered.
Listed(w) ==
  {t \in Targets : /\ status[w][t[1]] = "up"
                   /\ t[3] = job[w].row.uid
                   /\ snap[w][t[1]][t[2]][t[3]] # NoClient}

\* One panel call of the loop; the first error ends the operation.
Push(w, t, r) ==
  \E out \in Outcomes :
    /\ PanelCall(r, out)
    /\ \/ /\ out = "ok"
          /\ done' = [done EXCEPT ![w] = @ \cup {t}]
          /\ UNCHANGED <<pc, job, status, snap, reply>>
       \/ /\ out # "ok"
          /\ Finish(w, "error")
    /\ UNCHANGED <<database, servers, ops, edits>>

PushOne(w, t) ==
  /\ Joined(w) /\ job[w].op = "update"
  /\ t \in Listed(w) \ done[w]
  /\ LET listed == snap[w][t[1]] IN
       Push(w, t, UpsertRequest(t[1], t[2], listed, t[3],
                    ClientOf(job[w].form, listed[t[2]][t[3]].enable)))

PurgeOne(w, t) ==
  /\ Joined(w) /\ job[w].op = "delete"
  /\ t \in Listed(w) \ done[w]
  /\ Push(w, t, DeleteRequest(t[1], t[2], t[3]))

\* Mutant: the statement brings a missing row back.
EverStored(u) == u <= lastID

\* The WHERE clause: the row is still there.
Stored(u) == users[u] # NoUser

\* Mutant: nobody asks how many rows the statement found.
AnyRows(u) == "ok"

\* A statement that found no row is answered with an error.
RowsAffected(u) == IF users[u] # NoUser THEN "ok" ELSE "error"

\* UPDATE users ... WHERE id: the name must be free, the row still there.
CommitUpdate(w) ==
  LET u == job[w].id
      form == job[w].form
      free == \A v \in IDs \ {u} : users[v] # NoUser =>
                                     users[v].username # form.username
  IN /\ Joined(w) /\ job[w].op = "update"
     /\ Listed(w) \subseteq done[w]
     /\ \/ /\ Stored(u) => free
           /\ users' = [users EXCEPT ![u] = IF Stored(u) THEN form ELSE @]
           /\ Finish(w, RowsAffected(u))
           /\ UNCHANGED faults
        \/ /\ Stored(u) /\ ~free
           /\ Finish(w, "error")
           /\ UNCHANGED <<users, faults>>
        \/ /\ Fault
           /\ Finish(w, "error")
           /\ UNCHANGED users
     /\ UNCHANGED <<lastID, known, servers, remote, ops, edits>>

CommitDelete(w) ==
  LET u == job[w].id
  IN /\ Joined(w) /\ job[w].op = "delete"
     /\ Listed(w) \subseteq done[w]
     /\ \/ /\ users' = [users EXCEPT ![u] = NoUser]
           /\ Finish(w, RowsAffected(u))
           /\ UNCHANGED faults
        \/ /\ Fault
           /\ Finish(w, "error")
           /\ UNCHANGED users
     /\ UNCHANGED <<lastID, known, servers, remote, ops, edits>>

----------------------------------------------------------------------------
(* The users table that answers a toggle or a recreation. *)

\* loadUsersPage reads users and servers once more.  If it cannot, the
\* answer is HTTP 500, whatever the operation did.
Reload(w) ==
  /\ pc[w] = "reload"
  /\ \/ /\ Goto(w, "refetch")
        /\ status' = [status EXCEPT ![w] = Asked]
        /\ UNCHANGED <<job, snap, done, reply, faults>>
     \/ /\ Fault
        /\ Finish(w, "error")
  /\ UNCHANGED <<database, servers, remote, ops, edits>>

\* A second fan-out, whose listings are only shown.
Refetch(w, s) ==
  /\ pc[w] = "refetch"
  /\ status[w][s] = "pending"
  /\ \/ /\ status' = [status EXCEPT ![w][s] = "up"]
        /\ UNCHANGED faults
     \/ /\ Fault
        /\ status' = [status EXCEPT ![w][s] = "down"]
  /\ UNCHANGED <<database, servers, remote, pc, job, snap, done, reply, ops, edits>>

\* The page goes out with the result in it.
Render(w) ==
  /\ pc[w] = "refetch"
  /\ \A s \in Servers : status[w][s] # "pending"
  /\ Finish(w, job[w].result)
  /\ UNCHANGED <<database, servers, remote, budget>>

----------------------------------------------------------------------------
(* Around the handlers. *)

\* CreateServer, UpdateServer and DeleteServer, as far as the user
\* operations see them: ids are never reused.
EditServer(s, st) ==
  /\ edits < MaxEdits
  /\ servers[s] # "absent" /\ servers[s] # st
  /\ st # "new" /\ (servers[s] = "new" => st # "absent")
  /\ servers' = [servers EXCEPT ![s] = st]
  /\ edits' = edits + 1
  /\ UNCHANGED <<database, remote, handler, ops, faults>>

\* A request nobody waits for any more reaches its panel.
ApplyLate(r) ==
  /\ late' = late \ {r}
  /\ panel' = IF Accepts(panel[r.server], r)
              THEN [panel EXCEPT ![r.server] = Written(panel[r.server], r)]
              ELSE panel
  /\ UNCHANGED <<database, servers, handler, budget>>

\* The process dies and comes back: the database file and the panels
\* remain, every handler is gone without an answer.
Restart ==
  /\ Fault
  /\ \E w \in Workers : pc[w] # "idle"
  /\ pc' = [w \in Workers |-> "idle"]
  /\ job' = [w \in Workers |-> NoJob]
  /\ status' = [w \in Workers |-> Unlisted]
  /\ snap' = [w \in Workers |-> NoListing]
  /\ done' = [w \in Workers |-> {}]
  /\ reply' = [w \in Workers |-> "none"]
  /\ UNCHANGED <<database, servers, remote, ops, edits>>

\* The bounds are used up and nothing is in flight.
Rest ==
  /\ \A w \in Workers : pc[w] = "idle"
  /\ UNCHANGED vars

Accepted(w) ==
  \/ CreateUser(w) \/ UpdateUser(w) \/ DeleteUser(w)
  \/ ToggleUserInbound(w) \/ RecreateUserInbound(w)

Step(w) ==
  \/ ReadCreated(w) \/ NextSelection(w) \/ CreateReturns(w)
  \/ ReadServer(w) \/ ListInbounds(w) \/ ApplyState(w) \/ Readd(w)
  \/ ListServers(w) \/ CommitUpdate(w) \/ CommitDelete(w)
  \/ Reload(w) \/ Render(w)
  \/ \E s \in Servers : Fetch(w, s) \/ Refetch(w, s)
  \/ \E t \in Targets : EvictOne(w, t) \/ PushOne(w, t) \/ PurgeOne(w, t)

Environment ==
  \/ \E s \in Servers, st \in ServerState : EditServer(s, st)
  \/ \E r \in late : ApplyLate(r)
  \/ Restart
  \/ Rest

Next == (\E w \in Workers : Accepted(w) \/ Step(w)) \/ Environment

Spec == Init /\ [][Next]_vars

\* Every call a handler makes ends and its goroutine runs on: a panel call at
\* the latest when the HTTP client's RequestTimeout expires, a statement on
\* the local database file by itself.
FairSpec == Spec /\ \A w \in Workers : WF_vars(Step(w))

----------------------------------------------------------------------------
(* Properties. *)

Labels == {"idle", "created", "select", "server", "list", "apply", "evict",
           "servers", "fetch", "reload", "refetch"}
Job ==
  [op : AllOps \cup {"none"}, id : IDs \cup {0}, row : Row \cup {NoUser},
   form : Row \cup {NoUser}, cell : Cells \cup {NoCell}, enabled : BOOLEAN,
   picks : SUBSET Cells, result : {"ok", "error", "conflict"}]

DataOK ==
  /\ users \in [IDs -> Row \cup {NoUser}]
  /\ lastID \in 0..MaxUsers
  /\ known \subseteq UserUIDs
  /\ servers \in [Servers -> ServerState]

RemoteOK ==
  /\ panel \in [Servers -> Content]
  /\ late \subseteq Request(Servers)

HandlersOK ==
  /\ pc \in [Workers -> Labels]
  /\ job \in [Workers -> Job]
  /\ status \in [Workers ->
                   [Servers -> {"skipped", "pending", "up", "down"}]]
  /\ snap \in [Workers -> [Servers -> Content]]
  /\ done \in [Workers -> SUBSET (Servers \X InboundIDs \X UIDs)]
  /\ reply \in [Workers -> {"none", "ok", "error", "conflict"}]

\* What the steps of a handler rely on.
JobsOK ==
  \A w \in Workers :
    /\ (pc[w] = "idle") <=> (job[w].op = "none")
    /\ pc[w] # "idle" => job[w].id \in IDs
    /\ pc[w] \notin {"idle", "reload", "refetch"} => job[w].row \in Row
    /\ pc[w] \in {"reload", "refetch"} => job[w].op \in Reloading
    /\ pc[w] \in {"created", "select"} => job[w].op = "create"
    /\ pc[w] \in {"server", "list", "apply", "evict"} =>
         job[w].cell \in Cells /\ job[w].op \in {"create"} \cup Reloading
    /\ job[w].op = "update" => job[w].form \in Row

BudgetOK == ops \in Nat /\ faults \in Nat /\ edits \in Nat

\* Every variable keeps its shape.  A handler under way has a stored user's
\* row to work with, until it only has a page to load, and the inbound or the
\* form its step needs; an idle one keeps nothing.
TypeOK == DataOK /\ RemoteOK /\ HandlersOK /\ JobsOK /\ BudgetOK

\* A cell is foreign when nothing in it belongs to a local user: its UID is
\* none of theirs and its client, if any, bears none of their names.
Foreign ==
  {t \in Targets : /\ t[3] \notin UserUIDs
                   /\ \/ Seed[t[1]][t[2]][t[3]] = NoClient
                      \/ Seed[t[1]][t[2]][t[3]].email \notin Names}

\* Clients the administrator keeps on a panel by hand are never created,
\* changed or deleted by this program: not by a stale listing, a late
\* request, a crash half way or the evictions of RecreateUserInbound.
ForeignUntouched ==
  \A t \in Foreign : panel[t[1]][t[2]][t[3]] = Seed[t[1]][t[2]][t[3]]

\* A client under a managed UID was there from the start or belongs to a
\* user who was once stored: the row is always written before any panel.
NoUnownedClients ==
  \A t \in Targets :
    /\ t[3] \in UserUIDs
    /\ panel[t[1]][t[2]][t[3]] # NoClient
    => \/ Seed[t[1]][t[2]][t[3]] # NoClient
       \/ t[3] \in known

\* A listing a handler still works from shows foreign cells as they are.
ListingsHarmless ==
  \A w \in Workers, t \in Foreign :
    snap[w][t[1]][t[2]][t[3]] \in {NoClient, Seed[t[1]][t[2]][t[3]]}

LateHarmless == \A r \in late : <<r.server, r.inbound, r.uid>> \notin Foreign

\* Neither a listing a handler still works from nor a request that may
\* still arrive can lead to a foreign client: a listing shows foreign cells
\* as they are, and no request, however late, names one.
StaleDataHarmless == ListingsHarmless /\ LateHarmless

\* Whoever is stored, being worked for or about to be added late is known.
RowsKnown == \A u \in IDs : users[u] # NoUser => users[u].uid \in known
JobsKnown ==
  \A w \in Workers :
    /\ pc[w] \notin {"idle", "reload", "refetch"} => job[w].row.uid \in known
    /\ job[w].op = "update" => job[w].form.uid \in known
LateKnown == \A r \in late : r.kind = "add" => r.uid \in known

\* The inductive invariant: why stale listings and late requests do no harm.
IInv ==
  /\ TypeOK
  /\ ForeignUntouched /\ StaleDataHarmless
  /\ NoUnownedClients /\ RowsKnown /\ JobsKnown /\ LateKnown

\* Handler w is about to be granting its user the cell t.
Granting(w, t) ==
  /\ pc[w] = "apply" \/ pc[w] = "evict"
  /\ job[w].enabled
  /\ job[w].cell = <<t[1], t[2]>>
  /\ job[w].row.uid = t[3]

\* An empty cell fills up only through a request that asks for access to
\* that very inbound, made in this step or arriving late.  UpdateUser works
\* from a listing that may be stale and must never bring back a client
\* deleted since, nor must a toggle off.
OnlyGrantsCreateClients ==
  [][\A t \in Targets :
       /\ panel[t[1]][t[2]][t[3]] = NoClient
       /\ panel'[t[1]][t[2]][t[3]] # NoClient
       => \/ \E w \in Workers : Granting(w, t) /\ pc'[w] # pc[w]
          \/ \E r \in late : /\ r.kind = "add" /\ r \notin late'
                             /\ <<r.server, r.inbound, r.uid>> = t]_vars

\* A deleted row stays deleted, even when an update that read it earlier
\* commits later, and its id is never given to another user.
DeletedRowsStayDeleted ==
  [][\A u \in IDs : u <= lastID /\ users[u] = NoUser => users'[u] = NoUser]_vars

\* The panel call of handler w is refused as a duplicate in this step.
Conflicts(w) == job'[w].result = "conflict" /\ job[w].result # "conflict"

\* The conflict dialog offers to delete and recreate clients, so it must not
\* come up by mistake: a client of that server bears the name, and it is not
\* the very client the handler saw in the cell it asked for.  (It may be in
\* that cell if another handler or a late request put it there since.)
ConflictExplained ==
  [][\A w \in Workers : Conflicts(w) =>
       LET s == job[w].cell[1]
       IN \E i \in Inbounds, x \in UIDs :
            /\ panel[s][i][x] # NoClient
            /\ panel[s][i][x].email = job[w].row.username
            /\ <<i, x>> = <<job[w].cell[2], job[w].row.uid>>
               => snap[w][s][i][x] = NoClient]_vars

\* Handler w ends operation op in this step, answering "ok".
Succeeds(w, op) ==
  /\ pc[w] # "idle" /\ pc'[w] = "idle"
  /\ job[w].op = op
  /\ reply'[w] = "ok"

\* "user updated" and "user deleted" are said of a row that was there: of two
\* deletes of a user one is told the truth, and so is an update that comes
\* after a delete.
AnsweredMeansStored ==
  [][\A w \in Workers : Succeeds(w, "update") \/ Succeeds(w, "delete") =>
       /\ users[job[w].id] # NoUser
       /\ users'[job[w].id] = job[w].form]_vars

(* What "ok" promises when nobody else is at work: one worker, no late     *)
(* requests.                                                               *)

\* A client as the panel keeps it for a user's row.
Shown(row, on) ==
  [email |-> row.username, enable |-> on,
   sub |-> IF row.sub = BlankSub THEN DefaultSub ELSE row.sub]

Gone(content, x) == \A i \in Inbounds : content[i][x] = NoClient

\* DeleteUser answers "ok" only when the row is gone and no server that
\* answered still holds a client of the user.
DeleteIsComplete ==
  [][\A w \in Workers : Succeeds(w, "delete") =>
       /\ users'[job[w].id] = NoUser
       /\ \A s \in Servers : status[w][s] = "up" =>
            Gone(panel'[s], job[w].row.uid)]_vars

\* UpdateUser answers "ok" only when the row and all the user's clients on
\* the servers that answered bear the new name and subscription id, each
\* client as enabled as it was.
UpdateReachesAll ==
  [][\A w \in Workers : Succeeds(w, "update") =>
       /\ users'[job[w].id] = job[w].form
       /\ \A s \in Servers : status[w][s] = "up" =>
            \A i \in Inbounds :
              LET old == snap[w][s][i][job[w].row.uid]
                  new == panel'[s][i][job[w].row.uid]
              IN IF old = NoClient THEN new = NoClient
                 ELSE new = Shown(job[w].form, old.enable)]_vars

\* ToggleUserInbound answers "ok" only when the client is there with the
\* wanted flag and the user's present name, or is absent and was to be off.
ToggleIsEffective ==
  [][\A w \in Workers : Succeeds(w, "toggle") =>
       LET c == panel'[job[w].cell[1]][job[w].cell[2]][job[w].row.uid]
       IN \/ c = Shown(job[w].row, job[w].enabled)
          \/ c = NoClient /\ ~job[w].enabled]_vars

\* RecreateUserInbound answers "ok" only when the name occurs on the server
\* in the target inbound alone, enabled, and the UID nowhere else.
RecreateIsExclusive ==
  [][\A w \in Workers : Succeeds(w, "recreate") =>
       LET here == panel'[job[w].cell[1]]
       IN /\ \A i \in Inbounds \ {job[w].cell[2]}, x \in UIDs :
               ~Matches(here[i][x], x, job[w].row)
          /\ \E x \in UIDs :
               here[job[w].cell[2]][x] = Shown(job[w].row, TRUE)
     ]_vars

\* CreateUser answers "ok" only when the row is stored and every inbound
\* that was ticked holds an enabled client for it.
CreateGrantsAll ==
  [][\A w \in Workers : Succeeds(w, "create") =>
       /\ users[job[w].id] = job[w].row
       /\ \A c \in job[w].picks :
            panel[c[1]][c[2]][job[w].row.uid]
              = Shown(job[w].row, TRUE)]_vars

\* Every request is answered, or its handler dies with the process: no
\* failing or unreachable panel keeps a handler waiting for ever.
HandlersReturn == \A w \in Workers : pc[w] # "idle" ~> pc[w] = "idle"

\* "Delete ... locally and from all reachable 3x-ui servers", as the dialog
\* puts it: an active server that was not found to be down is purged.
DeleteCoversActiveServers ==
  [][\A w \in Workers : Succeeds(w, "delete") =>
       \A s \in Servers : servers[s] = "active" /\ status[w][s] # "down" =>
         Gone(panel'[s], job[w].row.uid)]_vars

\* "User already exists in another inbound on server", as the dialog puts
\* it: an inbound other than the one asked for holds the UID or the name.
ConflictIsAnotherInbound ==
  [][\A w \in Workers :
       Conflicts(w) =>
         \E i \in Inbounds \ {job[w].cell[2]}, x \in UIDs :
           Matches(panel[job[w].cell[1]][i][x], x, job[w].row)]_vars
=============================================================================
