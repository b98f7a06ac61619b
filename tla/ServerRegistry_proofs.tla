------------------------ MODULE ServerRegistry_proofs -----------------------
(***************************************************************************)
(* Proofs about ServerRegistry for any number of tabs, servers, passwords  *)
(* and faults: what a dialog reaches, what a blank field keeps, and what   *)
(* "server updated" means.                                                 *)
(***************************************************************************)
EXTENDS ServerRegistry, TLAPS

----------------------------------------------------------------------------
(* The pieces of a step.                                                   *)

LEMMA NoJobOut ==
  ASSUME NEW s \in IDs, NEW n, NEW f, NEW k
  PROVE  [id |-> s, shown |-> n, form |-> f, kept |-> k] # NoJob
<1>1. NoJob.id = 0 /\ 0 \notin IDs
  BY DEF NoJob, IDs
<1>2. [id |-> s, shown |-> n, form |-> f, kept |-> k].id = s
  OBVIOUS
<1> QED
  BY <1>1, <1>2

LEMMA FinishType ==
  ASSUME TabsOK, NEW t \in Tabs, NEW r \in {"ok", "error"}, Finish(t, r),
         page' = page
  PROVE  TabsOK'
BY DEF TabsOK, Finish, Job

LEMMA JobType ==
  ASSUME NEW j \in Job, j # NoJob
  PROVE  /\ j.id \in IDs /\ j.shown \in Nat \ {0} /\ j.form \in Server
         /\ j.kept \in BOOLEAN
BY DEF Job

LEMMA SealedType ==
  ASSUME NEW p \in Passwords \cup {Blank}
  PROVE  Encrypt(p) \in Sealed /\ Decrypt(Encrypt(p)) = p
BY DEF Encrypt, Decrypt, Sealed

LEMMA OpenedType ==
  ASSUME NEW row \in Server
  PROVE  /\ Decrypt(row.enc) \in Passwords \cup {Blank}
         /\ row \in Server => row # NoServer
BY RegistryAssumption DEF Server, Sealed, Decrypt

\* What a tab notes is a password.
LEMMA NotedType ==
  ASSUME NEW t \in Tabs, TabsOK, NEW rows \in [IDs -> Server \cup {NoServer}]
  PROVE  Noted(t, rows) \in SUBSET (Passwords \cup {Blank})
<1>1. seen[t] \in SUBSET (Passwords \cup {Blank})
  BY DEF TabsOK
<1>2. CASE pc[t] = "update" /\ rows[job[t].id] # NoServer
  <2>1. job[t].id \in IDs
    BY <1>2, JobType DEF TabsOK
  <2>2. Decrypt(rows[job[t].id].enc) \in Passwords \cup {Blank}
    BY <1>2, <2>1, OpenedType
  <2> QED
    BY <1>1, <1>2, <2>2 DEF Noted
<1> QED
  BY <1>1, <1>2 DEF Noted

----------------------------------------------------------------------------
(* Type correctness.                                                       *)

LEMMA TypeInit == Init => TypeOK
BY RegistryAssumption DEF Init, TypeOK, TableOK, TabsOK, Job, IDs

LEMMA LoadType == ASSUME TypeOK, NEW t \in Tabs, LoadPage(t) PROVE TypeOK'
<1>1. \A s \in IDs : BirthOf(s) \in Nat
  BY DEF BirthOf, TypeOK, TableOK, Server
<1>2. page' \in [Tabs -> [IDs -> Nat]]
  BY <1>1 DEF LoadPage, TypeOK, TabsOK
<1> QED
  BY <1>2 DEF LoadPage, TypeOK, TableOK, TabsOK, table

\* The row and the job of a creation.
NewRow(b, f, p) ==
  [base |-> b, fields |-> f, enc |-> Encrypt(p), birth |-> births + 1]
NewJob(row) ==
  [id |-> NewID, shown |-> row.birth, form |-> row, kept |-> FALSE]

\* The INSERT of row by tab t.
Inserts(t, row) ==
  /\ servers' = [servers EXCEPT ![NewID] = row]
  /\ lastID' = lastID + 1 /\ births' = births + 1
  /\ pc' = [pc EXCEPT ![t] = "created"]
  /\ job' = [job EXCEPT ![t] = NewJob(row)]
  /\ reply' = [reply EXCEPT ![t] = "none"]
  /\ seen' = seen

LEMMA NewRowType ==
  ASSUME TypeOK, lastID < MaxID, NEW row \in Server, row.birth = births + 1
  PROVE  /\ NewID \in IDs
         /\ NewJob(row) \in Job \ {NoJob}
         /\ NewJob(row).id = lastID + 1 /\ NewJob(row).shown = births + 1
         /\ NewJob(row).form = row /\ ~NewJob(row).kept
<1>1. NewID \in IDs /\ births + 1 \in Nat \ {0}
  BY RegistryAssumption DEF NewID, IDs, TypeOK, TableOK
<1> QED
  BY <1>1, NoJobOut DEF NewJob, Job, NewID

\* What a creation does: the INSERT, or nothing but an answer.
LEMMA CreateCases ==
  ASSUME TypeOK, NEW t \in Tabs, CreateServer(t)
  PROVE  /\ page' = page /\ lastID < MaxID
         /\ \/ \E row \in Server : row.birth = births + 1 /\ Inserts(t, row)
            \/ Finish(t, "error") /\ UNCHANGED table
<1>1. ASSUME NEW b \in Bases, NEW f \in Fields, NEW p \in Passwords \cup {Blank}
      PROVE  NewRow(b, f, p) \in Server /\ NewRow(b, f, p).birth = births + 1
  <2>1. births + 1 \in Nat
    BY DEF TypeOK, TableOK
  <2> QED
    BY <2>1, SealedType DEF NewRow, Server
<1>2. \/ \E b \in Bases, f \in Fields, p \in Passwords \cup {Blank} :
            Inserts(t, NewRow(b, f, p))
      \/ Finish(t, "error") /\ UNCHANGED table
  BY DEF CreateServer, Inserts, NewRow, NewJob
<1> QED
  BY <1>1, <1>2 DEF CreateServer

LEMMA CreateType ==
  ASSUME TypeOK, NEW t \in Tabs, CreateServer(t)
  PROVE  TypeOK'
<1> USE DEF TypeOK
<1>1. ops' \in Nat /\ faults' \in Nat
  BY DEF CreateServer, Arrives, Fault, TableOK
<1>2. page' = page /\ lastID < MaxID
  BY CreateCases
<1>3. ASSUME NEW row \in Server, row.birth = births + 1, Inserts(t, row)
      PROVE  TypeOK'
  <2>1. NewID \in IDs /\ NewJob(row) \in Job \ {NoJob}
    BY <1>2, <1>3, NewRowType
  <2>2. lastID + 1 \in 0..MaxID /\ births + 1 \in Nat
    BY <1>2, RegistryAssumption DEF TableOK
  <2>3. TableOK'
    BY <1>1, <1>3, <2>1, <2>2 DEF TableOK, Inserts
  <2>4. TabsOK'
    BY <1>2, <1>3, <2>1 DEF TabsOK, Inserts
  <2> QED
    BY <2>3, <2>4
<1>4. CASE Finish(t, "error") /\ UNCHANGED table
  BY <1>1, <1>2, <1>4, FinishType DEF TableOK, table
<1> QED
  BY <1>3, <1>4, CreateCases

LEMMA ReadCreatedType ==
  ASSUME TypeOK, NEW t \in Tabs, ReadCreated(t)
  PROVE  TypeOK'
<1>1. PICK r \in {"ok", "error"} : Finish(t, r)
  BY DEF ReadCreated
<1>2. TabsOK'
  BY <1>1, FinishType DEF ReadCreated, TypeOK
<1> QED
  BY <1>2 DEF ReadCreated, Fault, table, TypeOK, TableOK

\* The row an edit puts together.
LEMMA FormType ==
  ASSUME TypeOK, NEW t \in Tabs, NEW s \in IDs, servers[s] # NoServer,
         page[t][s] # 0, NEW b \in Bases, NEW f \in Fields,
         NEW p \in Passwords \cup {Blank}
  PROVE  [id |-> s, shown |-> page[t][s], kept |-> p = Blank,
          form |-> [base |-> b, fields |-> f,
                    enc |-> NewPassword(p, servers[s]),
                    birth |-> servers[s].birth]] \in Job \ {NoJob}
<1>1. servers[s] \in Server
  BY DEF TypeOK, TableOK
<1>2. NewPassword(p, servers[s]) \in Sealed
  BY <1>1, SealedType DEF NewPassword, Server
<1>3. [base |-> b, fields |-> f, enc |-> NewPassword(p, servers[s]),
       birth |-> servers[s].birth] \in Server
  BY <1>1, <1>2 DEF Server
<1>4. page[t][s] \in Nat \ {0} /\ (p = Blank) \in BOOLEAN
  BY DEF TypeOK, TabsOK
<1> QED
  BY <1>3, <1>4, NoJobOut DEF Job

LEMMA UpdateType ==
  ASSUME TypeOK, NEW t \in Tabs, NEW s \in IDs, UpdateServer(t, s)
  PROVE  TypeOK'
<1> USE DEF TypeOK
<1>1. ops' \in Nat /\ faults' \in Nat
  BY DEF UpdateServer, Arrives, Fault, TableOK
<1>2. TableOK'
  BY <1>1 DEF UpdateServer, table, TableOK
<1>3. page' = page /\ page[t][s] # 0
  BY DEF UpdateServer
<1>4. CASE Finish(t, "error")
  BY <1>2, <1>3, <1>4, FinishType
<1>5. CASE pc' = [pc EXCEPT ![t] = "update"] /\ ~Finish(t, "error")
  <2>1. servers[s] # NoServer
    BY <1>5 DEF UpdateServer
  <2>2. PICK j \in Job \ {NoJob} : job' = [job EXCEPT ![t] = j]
    BY <1>3, <1>5, <2>1, FormType DEF UpdateServer
  <2>3. seen' = [seen EXCEPT ![t] = {Decrypt(servers[s].enc)}]
    BY <1>5 DEF UpdateServer
  <2>4. Decrypt(servers[s].enc) \in Passwords \cup {Blank}
    BY <2>1, OpenedType DEF TableOK
  <2>5. reply' = [reply EXCEPT ![t] = "none"]
    BY <1>5 DEF UpdateServer
  <2> QED
    BY <1>2, <1>3, <1>5, <2>2, <2>3, <2>4, <2>5 DEF TabsOK
<1> QED
  BY <1>4, <1>5 DEF UpdateServer

LEMMA CommitType ==
  ASSUME TypeOK, NEW t \in Tabs, CommitServer(t)
  PROVE  TypeOK'
<1> USE DEF TypeOK
<1>1. job[t] \in Job \ {NoJob}
  BY DEF CommitServer, TabsOK
<1>2. job[t].id \in IDs /\ job[t].form \in Server
  BY <1>1, JobType
<1>3. servers' \in [IDs -> Server \cup {NoServer}]
  BY <1>2 DEF CommitServer, TableOK
<1>4. ops' \in Nat /\ faults' \in Nat
  BY DEF CommitServer, Fault, TableOK
<1>5. TableOK' /\ page' = page
  BY <1>3, <1>4 DEF CommitServer, TableOK
<1>6. CASE Finish(t, "error")
  BY <1>5, <1>6, FinishType
<1>7. CASE /\ pc' = [pc EXCEPT ![t] = "idle"]
           /\ job' = [job EXCEPT ![t] = NoJob]
           /\ seen' = [u \in Tabs |-> IF u = t THEN {} ELSE Noted(u, servers')]
           /\ reply' = [reply EXCEPT ![t] = "ok"]
  <2>1. seen' \in [Tabs -> SUBSET (Passwords \cup {Blank})]
    BY <1>3, <1>7, NotedType
  <2>2. job' \in [Tabs -> Job]
    BY <1>7 DEF TabsOK, Job
  <2> QED
    BY <1>5, <1>7, <2>1, <2>2 DEF TabsOK
<1> QED
  BY <1>6, <1>7 DEF CommitServer

LEMMA DeleteType ==
  ASSUME TypeOK, NEW t \in Tabs, NEW s \in IDs, DeleteServer(t, s)
  PROVE  TypeOK'
<1> USE DEF TypeOK
<1>1. PICK r \in {"ok", "error"} : Finish(t, r)
  BY DEF DeleteServer
<1>2. TabsOK'
  BY <1>1, FinishType DEF DeleteServer
<1> QED
  BY <1>2 DEF DeleteServer, Arrives, Fault, TableOK

LEMMA TypeStep ==
  ASSUME TypeOK, [Next]_vars
  PROVE  TypeOK'
<1>1. CASE Restart
  BY <1>1 DEF Restart, Fault, TypeOK, TableOK, TabsOK, table, Job
<1>2. CASE UNCHANGED vars
  BY <1>2 DEF vars, table, tab, TypeOK, TableOK, TabsOK
<1> QED
  BY <1>1, <1>2, LoadType, CreateType, ReadCreatedType, UpdateType, CommitType,
     DeleteType
  DEF Next

\* The model is type correct, for any number of tabs and servers.
THEOREM TypeCorrect == Spec => []TypeOK
BY TypeInit, TypeStep, PTL DEF Spec

----------------------------------------------------------------------------
(* Ids, rows and births.                                                   *)

\* A request that ends without touching the table.
LEMMA FinishKeeps ==
  ASSUME TypeOK, Ages, Identities, KeptSeen, NEW t \in Tabs, NEW r,
         Finish(t, r), UNCHANGED <<table, page>>
  PROVE  Ages' /\ Identities' /\ KeptSeen'
<1>1. /\ \A u \in Tabs : job'[u] = IF u = t THEN NoJob ELSE job[u]
      /\ \A u \in Tabs : u # t => seen'[u] = seen[u]
  BY DEF Finish, TypeOK, TabsOK
<1>2. \A s \in IDs : NoJob.id # s
  BY DEF NoJob, IDs
<1> QED
  BY <1>1, <1>2 DEF table, Ages, Identities, KeptSeen

LEMMA CreateKeeps ==
  ASSUME TypeOK, Ages, Identities, KeptSeen, NEW t \in Tabs, CreateServer(t)
  PROVE  Ages' /\ Identities' /\ KeptSeen'
<1> USE DEF TypeOK, TableOK
<1>1. page' = page /\ lastID < MaxID
  BY CreateCases
<1>2. ASSUME NEW row \in Server, row.birth = births + 1, Inserts(t, row)
      PROVE  Ages' /\ Identities' /\ KeptSeen'
  <2> DEFINE j == NewJob(row)
  <2>1. /\ servers' = [servers EXCEPT ![NewID] = row]
        /\ lastID' = lastID + 1 /\ births' = births + 1
    BY <1>2 DEF Inserts
  <2>2. /\ j.id = lastID + 1 /\ j.shown = births + 1
        /\ j.form = row /\ ~j.kept
    BY <1>1, <1>2, NewRowType
  <2> HIDE DEF j
  <2>3. \A u \in Tabs : /\ job'[u] = IF u = t THEN j ELSE job[u]
                        /\ seen'[u] = seen[u]
    BY <1>2 DEF Inserts, TabsOK, j
  <2>4. \A s \in IDs : servers'[s] = IF s = lastID + 1 THEN row ELSE servers[s]
    BY <2>1 DEF NewID
  <2>5. Ages'
    BY <1>1, <1>2, <2>1, <2>4 DEF Ages, IDs
  <2>6. ASSUME NEW u \in Tabs, NEW s \in IDs
        PROVE  /\ page'[u][s] # 0 /\ servers'[s] # NoServer =>
                    page'[u][s] = servers'[s].birth
               /\ job'[u].id = s =>
                    /\ job'[u].shown = job'[u].form.birth
                    /\ s <= lastID'
                    /\ servers'[s] # NoServer =>
                         job'[u].shown = servers'[s].birth
    <3>1. page'[u][s] # 0 => servers'[s] = servers[s]
      BY <1>1, <2>4 DEF Ages, IDs
    <3>2. CASE u = t
      BY <1>1, <1>2, <2>1, <2>2, <2>3, <2>4, <3>1, <3>2 DEF Identities, IDs
    <3>3. CASE u # t
      <4>1. job'[u] = job[u]
        BY <2>3, <3>3
      <4>2. job[u].id = s => s <= lastID /\ servers'[s] = servers[s]
        BY <2>4 DEF Identities, IDs
      <4> QED
        BY <1>1, <2>1, <3>1, <4>1, <4>2 DEF Identities, IDs
    <3> QED
      BY <3>2, <3>3
  <2>7. KeptSeen'
    BY <2>2, <2>3 DEF KeptSeen
  <2> QED
    BY <2>5, <2>6, <2>7 DEF Identities
<1>3. CASE Finish(t, "error") /\ UNCHANGED table
  BY <1>1, <1>3, FinishKeeps
<1> QED
  BY <1>2, <1>3, CreateCases

LEMMA ReadCreatedKeeps ==
  ASSUME TypeOK, Ages, Identities, KeptSeen, NEW t \in Tabs, ReadCreated(t)
  PROVE  Ages' /\ Identities' /\ KeptSeen'
<1>1. PICK r \in {"ok", "error"} : Finish(t, r)
  BY DEF ReadCreated
<1> QED
  BY <1>1, FinishKeeps DEF ReadCreated

LEMMA LoadKeeps ==
  ASSUME TypeOK, Ages, Identities, KeptSeen, NEW t \in Tabs, LoadPage(t)
  PROVE  Ages' /\ Identities' /\ KeptSeen'
<1>1. /\ UNCHANGED <<servers, lastID, births, job, seen>>
      /\ \A u \in Tabs, s \in IDs :
           page'[u][s] = IF u = t THEN BirthOf(s) ELSE page[u][s]
  BY DEF LoadPage, table, TypeOK, TabsOK
<1>2. Ages'
  BY <1>1 DEF Ages, BirthOf
<1>3. Identities'
  BY <1>1 DEF Identities, BirthOf
<1> QED
  BY <1>1, <1>2, <1>3 DEF KeptSeen

LEMMA UpdateKeeps ==
  ASSUME TypeOK, Ages, Identities, KeptSeen, NEW t \in Tabs, NEW s \in IDs,
         UpdateServer(t, s)
  PROVE  Ages' /\ Identities' /\ KeptSeen'
<1> USE DEF TypeOK, TabsOK
<1>1. UNCHANGED <<servers, lastID, births, page>> /\ page[t][s] # 0
  BY DEF UpdateServer, table
<1>2. Ages'
  BY <1>1 DEF Ages
<1>3. \A i \in IDs : NoJob.id # i
  BY DEF NoJob, IDs
<1>4. CASE Finish(t, "error")
  <2>1. \A u \in Tabs : /\ job'[u] = IF u = t THEN NoJob ELSE job[u]
                        /\ u # t => seen'[u] = seen[u]
    BY <1>4 DEF Finish
  <2> QED
    BY <1>1, <1>2, <1>3, <2>1 DEF Identities, KeptSeen
<1>5. CASE /\ servers[s] # NoServer
           /\ \E b \in Bases, f \in Fields, p \in Passwords \cup {Blank} :
                job' = [job EXCEPT ![t] =
                  [id |-> s, shown |-> page[t][s], kept |-> p = Blank,
                   form |-> [base |-> b, fields |-> f,
                             enc |-> NewPassword(p, servers[s]),
                             birth |-> servers[s].birth]]]
           /\ seen' = [seen EXCEPT ![t] = {Decrypt(servers[s].enc)}]
  <2>1. PICK b \in Bases, f \in Fields, p \in Passwords \cup {Blank} :
          job' = [job EXCEPT ![t] =
                    [id |-> s, shown |-> page[t][s], kept |-> p = Blank,
                     form |-> [base |-> b, fields |-> f,
                               enc |-> NewPassword(p, servers[s]),
                               birth |-> servers[s].birth]]]
    BY <1>5
  <2>2. \A u \in Tabs : u # t => job'[u] = job[u] /\ seen'[u] = seen[u]
    BY <1>5, <2>1
  <2>3. /\ job'[t].id = s /\ job'[t].shown = page[t][s]
        /\ job'[t].form.birth = servers[s].birth
        /\ job'[t].kept <=> p = Blank
        /\ job'[t].form.enc = NewPassword(p, servers[s])
    BY <2>1
  <2>4. page[t][s] = servers[s].birth /\ s <= lastID
    BY <1>1, <1>5 DEF Identities, Ages
  <2>5. Identities'
    BY <1>1, <2>2, <2>3, <2>4 DEF Identities
  <2>6. seen'[t] = {Decrypt(servers[s].enc)}
    BY <1>5
  <2>7. job'[t].kept => Decrypt(job'[t].form.enc) \in seen'[t]
    BY <2>3, <2>6 DEF NewPassword
  <2>8. KeptSeen'
    BY <2>2, <2>7 DEF KeptSeen
  <2> QED
    BY <1>2, <2>5, <2>8
<1> QED
  BY <1>4, <1>5 DEF UpdateServer

LEMMA CommitKeeps ==
  ASSUME TypeOK, Ages, Identities, KeptSeen, NEW t \in Tabs, CommitServer(t)
  PROVE  Ages' /\ Identities' /\ KeptSeen'
<1> USE DEF TypeOK, TabsOK
<1> DEFINE s == job[t].id
<1>1. job[t] \in Job \ {NoJob}
  BY DEF CommitServer
<1>2. s \in IDs /\ job[t].form \in Server
  BY <1>1, JobType
<1>3. UNCHANGED <<lastID, births, page>>
  BY DEF CommitServer
<1>4. /\ \A u \in Tabs : job'[u] = IF u = t THEN NoJob ELSE job[u]
      /\ \A u \in Tabs : u # t => seen[u] \subseteq seen'[u]
  BY DEF CommitServer, Finish, Noted
<1>5. servers' \in [IDs -> Server \cup {NoServer}]
  BY CommitType DEF TableOK
<1>6. \A i \in IDs : /\ servers'[i] # NoServer => servers[i] # NoServer
                     /\ servers'[i] # NoServer =>
                          servers'[i].birth = servers[i].birth
  <2>1. CASE UNCHANGED servers
    BY <2>1
  <2>2. CASE servers' = [servers EXCEPT ![s] = job[t].form]
             /\ servers[s] # NoServer
    <3>1. job[t].form.birth = servers[s].birth
      BY <1>2, <2>2 DEF Identities
    <3> QED
      BY <1>2, <2>2, <3>1 DEF TableOK
  <2> QED
    BY <2>1, <2>2 DEF CommitServer
<1>7. \A i \in IDs : NoJob.id # i
  BY DEF NoJob, IDs
<1>8. Ages'
  BY <1>3, <1>6 DEF Ages
<1>9. Identities'
  BY <1>3, <1>4, <1>6, <1>7 DEF Identities
<1>10. KeptSeen'
  BY <1>4 DEF KeptSeen
<1> QED
  BY <1>8, <1>9, <1>10

LEMMA DeleteKeeps ==
  ASSUME TypeOK, Ages, Identities, KeptSeen, NEW t \in Tabs, NEW s \in IDs,
         DeleteServer(t, s)
  PROVE  Ages' /\ Identities' /\ KeptSeen'
<1>1. PICK r \in {"ok", "error"} : Finish(t, r)
  BY DEF DeleteServer
<1>2. /\ UNCHANGED <<lastID, births, page>>
      /\ \A u \in Tabs : job'[u] = IF u = t THEN NoJob ELSE job[u]
      /\ \A u \in Tabs : u # t => seen'[u] = seen[u]
  BY <1>1 DEF DeleteServer, Finish, TypeOK, TabsOK
<1>3. \A i \in IDs : servers'[i] # NoServer => servers'[i] = servers[i]
  BY DEF DeleteServer, TypeOK, TableOK
<1>4. \A i \in IDs : NoJob.id # i
  BY DEF NoJob, IDs
<1>5. Ages'
  BY <1>2, <1>3 DEF Ages
<1>6. Identities'
  BY <1>2, <1>3, <1>4 DEF Identities
<1> QED
  BY <1>2, <1>5, <1>6 DEF KeptSeen

\* The inductive invariant: ids, pages and jobs agree on who is who, and a
\* blank field keeps what the row had since it was read.
THEOREM InvariantHolds == Spec => []IInv
<1>1. Init => IInv
  <2> SUFFICES ASSUME Init PROVE Ages /\ Identities /\ KeptSeen
    BY TypeInit DEF IInv
  <2>1. \A i \in IDs : NoJob.id # i
    BY DEF NoJob, IDs
  <2> QED
    BY <2>1 DEF Init, Ages, Identities, KeptSeen
<1>2. IInv /\ [Next]_vars => IInv'
  <2> SUFFICES ASSUME IInv, [Next]_vars PROVE Ages' /\ Identities' /\ KeptSeen'
    BY TypeStep DEF IInv
  <2> USE DEF IInv
  <2>1. CASE Restart
    <3>1. \A i \in IDs : NoJob.id # i
      BY DEF NoJob, IDs
    <3> QED
      BY <2>1, <3>1 DEF Restart, table, Ages, Identities, KeptSeen
  <2>2. CASE UNCHANGED vars
    BY <2>2 DEF vars, table, tab, Ages, Identities, KeptSeen
  <2> QED
    BY <2>1, <2>2, LoadKeeps, CreateKeeps, ReadCreatedKeeps, UpdateKeeps,
       CommitKeeps, DeleteKeeps DEF Next
<1> QED
  BY <1>1, <1>2, PTL DEF Spec

\* A dialog reaches the server it shows, however old its page is.
THEOREM FormsSafe == Spec => FormsReachShown
<1>1. IInv => \A t \in Tabs, s \in IDs :
                servers[s] # NoServer =>
                  /\ DeleteServer(t, s) => page[t][s] = servers[s].birth
                  /\ CommitServer(t) /\ job[t].id = s =>
                       job[t].shown = servers[s].birth
  BY DEF IInv, Identities, DeleteServer
<1> QED
  BY <1>1, InvariantHolds, PTL DEF FormsReachShown

\* "ok" ends an edit only in the step that writes the row.
LEMMA OkWrites ==
  ASSUME TypeOK, [Next]_vars, NEW t \in Tabs, pc[t] = "update",
         reply'[t] = "ok"
  PROVE  servers' = [servers EXCEPT ![job[t].id] = job[t].form]
<1> USE DEF TypeOK, TabsOK
<1>1. reply[t] = "none"
  OBVIOUS
<1>2. ASSUME NEW u \in Tabs, CreateServer(u) \/ ReadCreated(u) PROVE FALSE
  BY <1>1, <1>2 DEF CreateServer, ReadCreated, Arrives, Finish
<1>3. ASSUME NEW u \in Tabs, NEW s \in IDs,
             UpdateServer(u, s) \/ DeleteServer(u, s)
      PROVE  FALSE
  BY <1>1, <1>3 DEF UpdateServer, DeleteServer, Arrives, Finish
<1>4. ASSUME NEW u \in Tabs, CommitServer(u)
      PROVE  servers' = [servers EXCEPT ![job[t].id] = job[t].form]
  <2>1. u = t
    BY <1>1, <1>4 DEF CommitServer, Finish
  <2> QED
    BY <1>4, <2>1 DEF CommitServer, Finish, Affected
<1>5. ASSUME NEW u \in Tabs, LoadPage(u) PROVE FALSE
  BY <1>1, <1>5 DEF LoadPage
<1>6. CASE Restart
  BY <1>6 DEF Restart
<1>7. CASE UNCHANGED vars
  BY <1>1, <1>7 DEF vars, tab
<1> QED
  BY <1>2, <1>3, <1>4, <1>5, <1>6, <1>7 DEF Next

\* "server updated" is told of a row that holds what was sent.
THEOREM UpdatedSafe == Spec => UpdatedMeansStored
<1>1. ASSUME TypeOK, [Next]_vars, NEW t \in Tabs, pc[t] = "update",
             reply'[t] = "ok"
      PROVE  servers'[job[t].id] = job[t].form
  <2>1. job[t].id \in IDs
    BY <1>1, JobType DEF TypeOK, TabsOK
  <2> QED
    BY <1>1, <2>1, OkWrites DEF TypeOK, TableOK
<1>2. TypeOK /\ [Next]_vars =>
        \A t \in Tabs : pc[t] = "update" /\ reply'[t] = "ok" =>
          servers'[job[t].id] = job[t].form
  BY <1>1
<1> QED
  BY <1>2, TypeCorrect, PTL DEF UpdatedMeansStored, Spec

\* An edit that leaves the password field blank ends with a password the
\* row had while the edit was under way.
THEOREM PasswordSafe == Spec => BlankKeepsPassword
<1>1. ASSUME IInv, [Next]_vars, NEW t \in Tabs, pc[t] = "update",
             job[t].kept, reply'[t] = "ok"
      PROVE  Decrypt(servers'[job[t].id].enc) \in seen[t]
  <2>1. job[t] # NoJob /\ job[t].id \in IDs
    BY <1>1, JobType DEF IInv, TypeOK, TabsOK
  <2>2. servers'[job[t].id] = job[t].form
    BY <1>1, <2>1, OkWrites DEF IInv, TypeOK, TableOK
  <2> QED
    BY <1>1, <2>1, <2>2 DEF IInv, KeptSeen
<1>2. IInv /\ [Next]_vars =>
        \A t \in Tabs :
          /\ pc[t] = "update" /\ job[t].kept
          /\ reply'[t] = "ok" /\ servers'[job[t].id] # NoServer
          => Decrypt(servers'[job[t].id].enc) \in seen[t]
  BY <1>1
<1> QED
  BY <1>2, InvariantHolds, PTL DEF BlankKeepsPassword, Spec
=============================================================================
