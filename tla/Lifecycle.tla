----------------------------- MODULE Lifecycle ------------------------------
(***************************************************************************)
(* The life of the process, cmd/main.go with internal/app/app.go: read the *)
(* configuration, open and migrate the database file statement by          *)
(* statement, serve, and stop on a signal.  The process may die between    *)
(* any two steps; the file is all that outlives it.                        *)
(*                                                                         *)
(* Handlers are reduced to what matters here: they take their time (the    *)
(* panel calls of UserSync), write to the database once and answer.        *)
(***************************************************************************)
EXTENDS Migration

CONSTANTS
  Handlers,  \* HTTP handler goroutines
  InitFiles, \* files earlier releases may have left, or none
  Grace,     \* http.Server.Shutdown: 15 seconds
  Patience,     \* the time after which main stops waiting for it: 20 seconds
  MaxFaults, \* bound: crashes and failing statements
  NoTx       \* no transaction under way

\* What Load and Router make of a configuration: accepted; refused by Load;
\* accepted, but "/" as the subscription path makes Router panic.
Configs == {"good", "refused", "clashing"}

ASSUME LifeAssumption ==
  /\ InitFiles \subseteq File
  /\ \A f \in InitFiles :
       /\ f.users_old = NoTable
       /\ f.users # NoTable => Numbered(f.users)
  /\ Grace \in Nat /\ Patience \in Nat /\ Grace <= Patience
  /\ MaxFaults \in Nat
  /\ NoTx \notin File

VARIABLES
  file,      \* the database file
  work,      \* what the transaction under way sees, or NoTx
  up,        \* where the process is
  config,    \* the configuration it was started with
  waited,    \* seconds since the signal
  pc,        \* per handler: idle, busy (not yet written), written
  reply,     \* per handler: how it ended in this life of the process
  kept,      \* history: the users every answered write adds up to
  want,      \* history: the link each server should have
  gone,      \* history: ids deleted since the users table was last rebuilt
  disturbed, \* history: this start met a fault
  faults     \* counter behind MaxFaults

process == <<up, config, waited>>
handler == <<pc, reply>>
history == <<kept, want, gone>>
vars == <<file, work, process, handler, history, disturbed, faults>>

StoredRows(f) == IF f.users = NoTable THEN NoRows ELSE f.users.rows

\* A link that was never stored is to be made from the legacy path.
Wanted(f) ==
  IF f.servers = NoTable THEN [s \in ServerIDs |-> NoServer]
  ELSE FillLinks(f).servers.links

Init ==
  /\ file \in InitFiles
  /\ work = NoTx
  /\ up = "down" /\ config = "good" /\ waited = 0
  /\ pc = [h \in Handlers |-> "idle"]
  /\ reply = [h \in Handlers |-> "none"]
  /\ kept = StoredRows(file) /\ want = Wanted(file) /\ gone = {}
  /\ disturbed = FALSE
  /\ faults = 0

----------------------------------------------------------------------------
(* The end of the process. *)

\* Mutant: the transaction under way is left to the next start.
ExitKeeping(why) ==
  /\ up' = "down"
  /\ pc' = [h \in Handlers |-> "idle"]
  /\ reply' = [h \in Handlers |-> IF pc[h] = "idle" THEN reply[h] ELSE why]
  /\ UNCHANGED <<file, work, config, waited, history>>

\* Whoever is under way is never heard of again.
Exit(why) ==
  /\ up' = "down"
  /\ work' = NoTx
  /\ pc' = [h \in Handlers |-> "idle"]
  /\ reply' = [h \in Handlers |-> IF pc[h] = "idle" THEN reply[h] ELSE why]
  /\ UNCHANGED <<file, config, waited, history>>

Fault ==
  /\ faults < MaxFaults /\ faults' = faults + 1
  /\ disturbed' = TRUE

\* Killed, out of memory, a panic in a goroutine, a signal before Notify,
\* the listener's Fatal.
Crash == up # "down" /\ Fault /\ Exit("crashed")

----------------------------------------------------------------------------
(* Start. *)

\* config.Load; main panics when it refuses.
Launch(c) ==
  /\ up = "down"
  /\ up' = IF c = "refused" THEN "down" ELSE "users"
  /\ config' = c
  /\ waited' = 0
  /\ reply' = [h \in Handlers |-> "none"]
  /\ disturbed' = FALSE
  /\ UNCHANGED <<file, work, pc, history, faults>>

\* A failing statement of the migration ends the process.
FailStart == Fault /\ Exit("crashed")

GoOn(next) ==
  /\ up' = next
  /\ UNCHANGED <<config, waited, handler, disturbed, faults>>

\* One statement outside a transaction.
Execute(at, result, next) ==
  /\ up = at
  /\ \/ file' = result /\ GoOn(next) /\ UNCHANGED <<work, history>>
     \/ FailStart

\* Mutant: each statement of the rebuild commits by itself.
WriteThrough(result) == work' = result /\ file' = result

\* Nobody but the transaction sees it.
WriteWithin(result) == work' = result /\ UNCHANGED file

\* One statement of the rebuild.
ExecuteTx(at, result, next) ==
  /\ up = at
  /\ \/ WriteWithin(result) /\ GoOn(next) /\ UNCHANGED history
     \/ FailStart

\* Mutant: any error of ALTER TABLE ends the start.
NeverTolerated(c) == FALSE

\* isDuplicateColumnError: a column that is there already is no error.
Tolerated(c) == HasColumn(file, c)

AlterServers(at, c, next) ==
  /\ up = at
  /\ \/ /\ ~HasColumn(file, c)
        /\ Execute(at, AddColumn(file, c), next)
     \/ /\ HasColumn(file, c) /\ Tolerated(c)
        /\ Execute(at, file, next)
     \/ /\ HasColumn(file, c) /\ ~Tolerated(c)
        /\ Exit("crashed") /\ UNCHANGED <<disturbed, faults>>

\* The schema is read; the rebuild begins or is left out.
Inspect ==
  /\ up = "inspect"
  /\ \/ /\ NeedsRebuild(file)
        /\ WriteWithin(file) /\ GoOn("rename") /\ UNCHANGED history
     \/ /\ ~NeedsRebuild(file)
        /\ GoOn("fill") /\ UNCHANGED <<file, work, history>>
     \/ FailStart

\* Ids of a legacy table may be given out again.
CommitRebuild ==
  /\ up = "commit"
  /\ \/ /\ file' = work /\ work' = NoTx
        /\ GoOn("fill")
        /\ gone' = IF file.users.unique THEN {} ELSE gone
        /\ UNCHANGED <<kept, want>>
     \/ FailStart

\* NewWeb, Router; then the listener and Notify.
Listen ==
  /\ up = "router"
  /\ \/ /\ config = "good"
        /\ GoOn("serving") /\ UNCHANGED <<file, work, history>>
     \/ /\ config = "clashing"
        /\ Exit("crashed") /\ UNCHANGED <<disturbed, faults>>

StartStep ==
  \/ Execute("users", CreateUsers(file), "servers")
  \/ Execute("servers", CreateServers(file), "url")
  \/ AlterServers("url", "subscription_url", "active")
  \/ AlterServers("active", "active", "inspect")
  \/ Inspect
  \/ ExecuteTx("rename", RenameUsers(work), "create")
  \/ ExecuteTx("create", CreateNewUsers(work), "copy")
  \/ ExecuteTx("copy", CopyUsers(work), "drop")
  \/ ExecuteTx("drop", DropOld(work), "commit")
  \/ CommitRebuild
  \/ Execute("fill", FillLinks(file), "router")
  \/ Listen

----------------------------------------------------------------------------
(* Handlers.  What they do between their calls is in UserSync. *)

\* While the listener is open, which Shutdown closes soon after the signal.
Request(h) ==
  /\ up = "serving" \/ (up = "draining" /\ waited = 0)
  /\ pc[h] = "idle"
  /\ pc' = [pc EXCEPT ![h] = "busy"]
  /\ reply' = [reply EXCEPT ![h] = "none"]
  /\ UNCHANGED <<file, work, process, history, disturbed, faults>>

\* The database is open.
MayWrite(h) == up \in {"serving", "draining"} /\ pc[h] = "busy"

Write(h, f) ==
  /\ pc' = [pc EXCEPT ![h] = "written"]
  /\ file' = f
  /\ UNCHANGED <<work, process, reply, disturbed, faults>>

CreateUser(h, name) ==
  LET t == InsertUser(file.users, name) IN
  /\ MayWrite(h)
  /\ file.users.seq < MaxID
  /\ NameFree(file.users, name)
  /\ Write(h, [file EXCEPT !.users = t])
  /\ kept' = t.rows
  /\ UNCHANGED <<want, gone>>

DeleteUser(h, u) ==
  /\ MayWrite(h)
  /\ file.users.rows[u] # NoUser
  /\ Write(h, EraseUser(file, u))
  /\ kept' = [kept EXCEPT ![u] = NoUser]
  /\ gone' = gone \cup {u}
  /\ UNCHANGED want

\* CreateServer and UpdateServer; the form requires a link, the code does
\* not.
SaveServer(h, s, link) ==
  /\ MayWrite(h)
  /\ Write(h, [file EXCEPT !.servers.links[s] = link])
  /\ want' = [want EXCEPT ![s] = link]
  /\ UNCHANGED <<kept, gone>>

End(h, r) ==
  /\ pc' = [pc EXCEPT ![h] = "idle"]
  /\ reply' = [reply EXCEPT ![h] = r]
  /\ UNCHANGED <<file, work, process, history, disturbed, faults>>

\* The answer goes out: the work is done, or some call of it failed or
\* panicked, which the middleware recovers from.
Answer(h) == \/ pc[h] = "written" /\ End(h, "ok")
             \/ pc[h] # "idle" /\ End(h, "error")

\* "sql: database is closed".
MeetClosed(h) == up = "closing" /\ pc[h] # "idle" /\ End(h, "closed")

----------------------------------------------------------------------------
(* Stop. *)

Stopping(next) ==
  /\ up' = next
  /\ UNCHANGED <<file, work, config, waited, handler, history, disturbed,
                 faults>>

\* SIGINT or SIGTERM.  application.Cancel ends a context that only the
\* migration used.  A second signal stays in its channel.
Signal == up = "serving" /\ Stopping("draining")

Tick ==
  /\ up = "draining"
  /\ waited < Patience
  /\ waited' = waited + 1
  /\ UNCHANGED <<file, work, up, config, handler, history, disturbed, faults>>

\* Mutant: the connections are closed at once.
CloseAtOnce == TRUE

\* Shutdown returns when all connections are idle, or at its deadline.
ShutdownReturns ==
  (\A h \in Handlers : pc[h] = "idle") \/ waited >= Grace

\* Mutant: no deadline, neither of Shutdown nor of main.
StopWhenIdle ==
  /\ up = "draining"
  /\ \A h \in Handlers : pc[h] = "idle"
  /\ Stopping("closing")

\* Whichever comes first; main returns, and App.Close closes the database.
\* server.Close and an error of Shutdown are the same to what follows.
StopServing ==
  /\ up = "draining"
  /\ ShutdownReturns \/ waited >= Patience
  /\ Stopping("closing")

\* The deferred Close has returned: the process ends.
Leave ==
  /\ up = "closing"
  /\ Exit("cut")
  /\ UNCHANGED <<disturbed, faults>>

HandlerStep(h) ==
  \/ Request(h) \/ Answer(h) \/ MeetClosed(h)
  \/ \E name \in Usernames : CreateUser(h, name)
  \/ \E u \in IDs : DeleteUser(h, u)
  \/ \E s \in ServerIDs, link \in Typed \cup {Blank} : SaveServer(h, s, link)

Next ==
  \/ \E c \in Configs : Launch(c)
  \/ StartStep
  \/ \E h \in Handlers : HandlerStep(h)
  \/ Signal \/ Tick \/ StopServing \/ Leave
  \/ Crash

Spec == Init /\ [][Next]_vars

\* main runs on: each statement ends, at the latest with an error, the clock
\* goes on, and main selects what is ready.  Handlers may take for ever.
FairSpec ==
  Spec /\ WF_vars(StartStep)
       /\ WF_vars(Tick) /\ WF_vars(StopServing) /\ WF_vars(Leave)

----------------------------------------------------------------------------
(* Properties. *)

InTx == {"rename", "create", "copy", "drop", "commit"}
Starting ==
  {"users", "servers", "url", "active", "inspect", "fill", "router"} \cup InTx
Migrated == {"serving", "draining", "closing"}

FilesOK == file \in File /\ work \in File \cup {NoTx}
ProcessOK ==
  /\ up \in {"down"} \cup Starting \cup Migrated
  /\ config \in Configs
  /\ waited \in 0..Patience
  /\ pc \in [Handlers -> {"idle", "busy", "written"}]
  /\ reply \in [Handlers -> {"none", "ok", "error", "closed", "cut",
                             "crashed"}]
HistoryOK ==
  /\ kept \in Rows
  /\ want \in [ServerIDs -> Links \cup {NoServer}]
  /\ gone \subseteq IDs
  /\ disturbed \in BOOLEAN
  /\ faults \in 0..MaxFaults

\* A transaction is open exactly while the rebuild runs, and handlers are
\* under way only in a process that serves or served.
PlacesOK ==
  /\ (up \in InTx) <=> (work # NoTx)
  /\ up \notin Migrated => \A h \in Handlers : pc[h] = "idle"

\* Every variable keeps its shape; transactions and handlers have their
\* time.
TypeOK == FilesOK /\ ProcessOK /\ HistoryOK /\ PlacesOK

\* Whatever the file was, and however often a start was cut off between any
\* two statements of the migration, a process that serves has every user
\* ever stored and not deleted, under the id it was given, in a table that
\* no longer wants subscription ids unique.
StoredUsersSurvive ==
  up \in Migrated =>
    /\ file.users # NoTable /\ file.users_old = NoTable
    /\ file.users.rows = kept
    /\ ~file.users.unique

\* A process that serves shows each server's link as it was last typed; the
\* legacy path replaces a link only where none was stored.
LinksSurvive ==
  up \in Migrated =>
    \A s \in ServerIDs :
      \/ file.servers.links[s] = want[s]
      \/ /\ want[s] = Blank /\ file.servers.links[s] = Legacy
         /\ HasColumn(file, "subscription_path")

\* "graceful HTTP shutdown": a handler finds the database closed, or is cut
\* off by the end of main, only after it had Grace to finish.
GraceHonoured ==
  \A h \in Handlers : reply[h] \in {"closed", "cut"} => waited >= Grace

\* The id of a deleted user is not given out again by this table, in this
\* life of the process or a later one; only the rebuild of a legacy table
\* starts the numbers afresh.
IdsStayRetired == \A u \in gone : kept[u] = NoUser

\* The users table at rest: complete, numbered, never half rebuilt.
TableKept ==
  /\ file.users_old = NoTable
  /\ StoredRows(file) = kept
  /\ file.users # NoTable => Numbered(file.users)

\* What each statement of the rebuild finds.
WorkKept ==
  /\ up = "rename" => work = file
  /\ up \in {"create", "copy"} =>
       work.users_old # NoTable /\ work.users_old.rows = kept
  /\ up = "copy" => work.users = EmptyUsers
  /\ up \in {"drop", "commit"} =>
       /\ work.users # NoTable /\ work.users.rows = kept
       /\ ~work.users.unique /\ Numbered(work.users)
  /\ up = "commit" => work.users_old = NoTable
  /\ up \in InTx => work.servers = file.servers /\ file.users.unique

\* What the start has achieved by the time it is where it is.
Progress ==
  /\ up \notin {"down", "users"} => file.users # NoTable
  /\ up \notin {"down", "users", "servers"} => file.servers # NoTable
  /\ up \in {"fill", "router"} \cup Migrated => ~file.users.unique

\* A link is as wanted, or was or will be made from the legacy path.
LinksKept ==
  \A s \in ServerIDs :
    IF file.servers = NoTable THEN want[s] = NoServer
    ELSE LET link == file.servers.links[s] IN
         \/ link = want[s]
         \/ /\ HasColumn(file, "subscription_path")
            /\ \/ want[s] = Blank /\ link = Legacy
               \/ /\ want[s] = Legacy /\ link = Blank
                  /\ up \notin {"router"} \cup Migrated

\* Whoever is under way when the database closes had its time.
GraceKept ==
  up = "closing" /\ waited < Grace => \A h \in Handlers : pc[h] = "idle"

\* A deleted id is one the counter has passed.
GoneNumbered ==
  gone # {} => file.users # NoTable /\ \A u \in gone : u <= file.users.seq

\* The inductive invariant.
IInv ==
  /\ TypeOK
  /\ TableKept /\ WorkKept /\ Progress
  /\ LinksKept
  /\ GraceHonoured /\ GraceKept
  /\ IdsStayRetired /\ GoneNumbered

\* A start with a usable configuration and no fault gets to serve, however
\* earlier starts ended and whatever they had already done to the file.
UndisturbedStartServes ==
  up \in Starting /\ config = "good" ~> up = "serving" \/ disturbed

\* A signal ends the process, whether or not its handlers ever answer.
SignalEnds == up = "draining" ~> up = "down"
=============================================================================
