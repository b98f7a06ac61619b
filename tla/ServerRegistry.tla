--------------------------- MODULE ServerRegistry ---------------------------
(***************************************************************************)
(* The servers table and its administration: CreateServer, UpdateServer    *)
(* and DeleteServer of internal/app/service.go over ServerRepository, and  *)
(* the servers page whose dialogs they are submitted from.                 *)
(*                                                                         *)
(* A tab is a browser tab with at most one request under way.  Its page    *)
(* may be older than the table in any respect.  Every database statement   *)
(* is a step; CreateServer and UpdateServer have two, and others may come  *)
(* between them.                                                           *)
(***************************************************************************)
EXTENDS Naturals

CONSTANTS
  Tabs,      \* browser tabs
  Bases,     \* base URLs, trimmed of blanks
  Fields,    \* name, user name, link and active flag, taken together
  Passwords, \* panel passwords that are typed
  Blank,     \* an empty password field, or one of blanks
  NoServer,  \* no row
  MaxID,     \* bound: ids ever given
  MaxOps,    \* bound: requests
  MaxFaults  \* bound: failing statements and restarts

IDs == 1..MaxID

\* What Encrypt stores; Decrypt undoes it.  The nonce is left out: no two
\* stored passwords are ever compared by the code.
Sealed == [sealed : Passwords \cup {Blank}]
Encrypt(p) == [sealed |-> p]
Decrypt(e) == e.sealed

\* birth is history: which CREATE the row goes back to.
Server ==
  [base : Bases, fields : Fields, enc : Sealed, birth : Nat]

ASSUME RegistryAssumption ==
  /\ MaxID \in Nat /\ MaxOps \in Nat /\ MaxFaults \in Nat
  /\ Blank \notin Passwords
  /\ NoServer \notin Server

VARIABLES
  servers, \* the servers table
  lastID,  \* AUTOINCREMENT counter
  births,  \* history: rows ever created
  page,    \* per tab: id -> birth of the server its dialogs show; 0: none
  pc,      \* per tab: idle, or between the two statements of CreateServer
           \* ("created") or of UpdateServer ("update")
  job,     \* per tab: the row CreateServer wrote or UpdateServer will write
  seen,    \* history, per tab: passwords the row had since it was read
  reply,   \* per tab: the last answer
  ops, faults \* counters behind MaxOps, MaxFaults

table == <<servers, lastID, births>>
tab == <<page, pc, job, seen, reply>>
vars == <<table, tab, ops, faults>>

NoJob == [id |-> 0, shown |-> 0, form |-> NoServer, kept |-> FALSE]

Init ==
  /\ servers = [s \in IDs |-> NoServer]
  /\ lastID = 0 /\ births = 0
  /\ page = [t \in Tabs |-> [s \in IDs |-> 0]]
  /\ pc = [t \in Tabs |-> "idle"]
  /\ job = [t \in Tabs |-> NoJob]
  /\ seen = [t \in Tabs |-> {}]
  /\ reply = [t \in Tabs |-> "none"]
  /\ ops = 0 /\ faults = 0

----------------------------------------------------------------------------
Fault == faults < MaxFaults /\ faults' = faults + 1

Arrives(t) == pc[t] = "idle" /\ ops < MaxOps /\ ops' = ops + 1

\* Mutant: the answer goes out and the handler's data stays behind.
FinishKeeping(t, r) ==
  /\ pc' = [pc EXCEPT ![t] = "idle"]
  /\ reply' = [reply EXCEPT ![t] = r]
  /\ UNCHANGED <<job, seen>>

\* redirectWithError.
Finish(t, r) ==
  /\ pc' = [pc EXCEPT ![t] = "idle"]
  /\ job' = [job EXCEPT ![t] = NoJob]
  /\ seen' = [seen EXCEPT ![t] = {}]
  /\ reply' = [reply EXCEPT ![t] = r]

\* Whoever is between its two statements notes the row's new password.
Noted(t, rows) ==
  LET s == job[t].id IN
  IF pc[t] = "update" /\ rows[s] # NoServer
  THEN seen[t] \cup {Decrypt(rows[s].enc)}
  ELSE seen[t]

\* UNIQUE base_url.
BaseFree(s, b) ==
  \A o \in IDs \ {s} : servers[o] # NoServer => servers[o].base # b

BirthOf(s) == IF servers[s] = NoServer THEN 0 ELSE servers[s].birth

\* loadServersPage: the dialogs hold the rows of one List.
LoadPage(t) ==
  /\ pc[t] = "idle"
  /\ page' = [page EXCEPT ![t] = [s \in IDs |-> BirthOf(s)]]
  /\ UNCHANGED <<table, pc, job, seen, reply, ops, faults>>

\* Mutant: the smallest id that is free.
SmallestFree ==
  CHOOSE s \in IDs :
    /\ servers[s] = NoServer
    /\ \A o \in 1..(s - 1) : servers[o] # NoServer

\* AUTOINCREMENT.
NewID == lastID + 1

\* Encrypt, INSERT.
CreateServer(t) ==
  /\ Arrives(t)
  /\ lastID < MaxID
  /\ \/ \E b \in Bases, f \in Fields, p \in Passwords \cup {Blank} :
          LET row == [base |-> b, fields |-> f, enc |-> Encrypt(p),
                      birth |-> births + 1]
          IN /\ BaseFree(0, b)
             /\ servers' = [servers EXCEPT ![NewID] = row]
             /\ lastID' = lastID + 1 /\ births' = births + 1
             /\ pc' = [pc EXCEPT ![t] = "created"]
             /\ job' = [job EXCEPT ![t] =
                  [id |-> NewID, shown |-> row.birth, form |-> row,
                   kept |-> FALSE]]
             /\ reply' = [reply EXCEPT ![t] = "none"]
             /\ UNCHANGED <<seen, faults>>
     \/ /\ \E b \in Bases : ~BaseFree(0, b)
        /\ Finish(t, "error")
        /\ UNCHANGED <<table, faults>>
     \/ /\ Fault
        /\ Finish(t, "error")
        /\ UNCHANGED table
  /\ UNCHANGED page

\* The row is read back.  When that fails, or another tab deleted it
\* meanwhile, the answer is an error; in the first case the row stays.
ReadCreated(t) ==
  /\ pc[t] = "created"
  /\ \/ /\ servers[job[t].id] # NoServer
        /\ Finish(t, "ok")
        /\ UNCHANGED faults
     \/ /\ servers[job[t].id] = NoServer
        /\ Finish(t, "error")
        /\ UNCHANGED faults
     \/ /\ Fault
        /\ Finish(t, "error")
  /\ UNCHANGED <<table, page, ops>>

\* Mutant: what the form says is encrypted, whatever it says.
NewPasswordTyped(p, current) == Encrypt(p)

\* A blank field keeps what was read.
NewPassword(p, current) == IF p = Blank THEN current.enc ELSE Encrypt(p)

\* servers.GetByID, and the row to write is put together.
UpdateServer(t, s) ==
  /\ Arrives(t)
  /\ page[t][s] # 0
  /\ \/ /\ servers[s] # NoServer
        /\ \E b \in Bases, f \in Fields, p \in Passwords \cup {Blank} :
             job' = [job EXCEPT ![t] =
               [id |-> s, shown |-> page[t][s], kept |-> p = Blank,
                form |-> [base |-> b, fields |-> f,
                          enc |-> NewPassword(p, servers[s]),
                          birth |-> servers[s].birth]]]
        /\ pc' = [pc EXCEPT ![t] = "update"]
        /\ seen' = [seen EXCEPT ![t] = {Decrypt(servers[s].enc)}]
        /\ reply' = [reply EXCEPT ![t] = "none"]
        /\ UNCHANGED faults
     \/ /\ servers[s] = NoServer
        /\ Finish(t, "error")
        /\ UNCHANGED faults
     \/ /\ Fault
        /\ Finish(t, "error")
  /\ UNCHANGED <<table, page>>

\* Mutant: RowsAffected is not looked at.
AlwaysAffected(s) == TRUE

Affected(s) == servers[s] # NoServer

\* The UPDATE writes the whole row, if it is still there.
CommitServer(t) ==
  LET s == job[t].id IN
  /\ pc[t] = "update"
  /\ \/ /\ Affected(s) /\ BaseFree(s, job[t].form.base)
        /\ servers' = IF servers[s] = NoServer THEN servers
                      ELSE [servers EXCEPT ![s] = job[t].form]
        /\ pc' = [pc EXCEPT ![t] = "idle"]
        /\ job' = [job EXCEPT ![t] = NoJob]
        /\ seen' = [u \in Tabs |-> IF u = t THEN {}
                                   ELSE Noted(u, servers')]
        /\ reply' = [reply EXCEPT ![t] = "ok"]
        /\ UNCHANGED faults
     \/ /\ ~Affected(s) \/ ~BaseFree(s, job[t].form.base)
        /\ Finish(t, "error")
        /\ UNCHANGED <<servers, faults>>
     \/ /\ Fault
        /\ Finish(t, "error")
        /\ UNCHANGED servers
  /\ UNCHANGED <<lastID, births, page, ops>>

DeleteServer(t, s) ==
  /\ Arrives(t)
  /\ page[t][s] # 0
  /\ \/ /\ servers[s] # NoServer
        /\ servers' = [servers EXCEPT ![s] = NoServer]
        /\ Finish(t, "ok")
        /\ UNCHANGED faults
     \/ /\ servers[s] = NoServer
        /\ Finish(t, "error")
        /\ UNCHANGED <<servers, faults>>
     \/ /\ Fault
        /\ Finish(t, "error")
        /\ UNCHANGED servers
  /\ UNCHANGED <<lastID, births, page>>

\* The process dies and comes back; tabs keep their pages.
Restart ==
  /\ Fault
  /\ pc' = [t \in Tabs |-> "idle"]
  /\ job' = [t \in Tabs |-> NoJob]
  /\ seen' = [t \in Tabs |-> {}]
  /\ reply' = [t \in Tabs |-> "none"]
  /\ UNCHANGED <<table, page, ops>>

Next ==
  \/ \E t \in Tabs :
       \/ LoadPage(t) \/ CreateServer(t) \/ ReadCreated(t) \/ CommitServer(t)
       \/ \E s \in IDs : UpdateServer(t, s) \/ DeleteServer(t, s)
  \/ Restart

Spec == Init /\ [][Next]_vars

----------------------------------------------------------------------------
(* Properties. *)

Job ==
  [id : IDs, shown : Nat \ {0}, form : Server, kept : BOOLEAN] \cup {NoJob}

TableOK ==
  /\ servers \in [IDs -> Server \cup {NoServer}]
  /\ lastID \in 0..MaxID
  /\ births \in Nat
  /\ ops \in Nat /\ faults \in Nat

TabsOK ==
  /\ page \in [Tabs -> [IDs -> Nat]]
  /\ pc \in [Tabs -> {"idle", "created", "update"}]
  /\ job \in [Tabs -> Job]
  /\ seen \in [Tabs -> SUBSET (Passwords \cup {Blank})]
  /\ reply \in [Tabs -> {"none", "ok", "error"}]
  /\ \A t \in Tabs : /\ (pc[t] = "idle") <=> (job[t] = NoJob)
                     /\ pc[t] # "idle" => reply[t] = "none"

\* Every variable keeps its shape; a tab has a job and no answer while its
\* request is between two statements, and no job otherwise.
TypeOK == TableOK /\ TabsOK

\* Nothing is born under an id that was not given yet.
Ages ==
  /\ \A s \in IDs : servers[s] # NoServer =>
       s <= lastID /\ servers[s].birth \in 1..births
  /\ \A t \in Tabs, s \in IDs : page[t][s] # 0 => s <= lastID

\* An id means one server for ever: what a tab or a job knows by an id is
\* what the table has under it, if it still has anything.
Identities ==
  \A t \in Tabs, s \in IDs :
    /\ page[t][s] # 0 /\ servers[s] # NoServer =>
         page[t][s] = servers[s].birth
    /\ job[t].id = s =>
         /\ job[t].shown = job[t].form.birth
         /\ s <= lastID
         /\ servers[s] # NoServer => job[t].shown = servers[s].birth

\* What a blank field keeps is a password the row had since it was read.
KeptSeen ==
  \A t \in Tabs :
    job[t] # NoJob /\ job[t].kept => Decrypt(job[t].form.enc) \in seen[t]

\* The inductive invariant.
IInv == TypeOK /\ Ages /\ Identities /\ KeptSeen

\* A dialog, however old its page, changes or deletes the server it shows
\* and no other: not one created since under the id of a deleted one.
FormsReachShown ==
  [][\A t \in Tabs, s \in IDs :
       servers[s] # NoServer =>
         /\ DeleteServer(t, s) => page[t][s] = servers[s].birth
         /\ CommitServer(t) /\ job[t].id = s =>
              job[t].shown = servers[s].birth]_vars

\* A form with a blank password field leaves the server with a password it
\* had between the handler's read and its write.  An edit of another tab in
\* between may be undone, but nothing older comes back, and the blank does
\* not take the place of a password.
BlankKeepsPassword ==
  [][\A t \in Tabs :
       /\ pc[t] = "update" /\ job[t].kept
       /\ reply'[t] = "ok" /\ servers'[job[t].id] # NoServer
       => Decrypt(servers'[job[t].id].enc) \in seen[t]]_vars

\* "server updated" is told only when the table then holds what was sent:
\* not when another tab deleted the server in between.
UpdatedMeansStored ==
  [][\A t \in Tabs : pc[t] = "update" /\ reply'[t] = "ok" =>
       servers'[job[t].id] = job[t].form]_vars
=============================================================================
