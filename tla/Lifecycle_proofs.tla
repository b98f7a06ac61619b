-------------------------- MODULE Lifecycle_proofs --------------------------
(***************************************************************************)
(* Proofs about Lifecycle for every number of handlers, users, servers and *)
(* faults, and for every file an earlier release may have left: no start,  *)
(* finished or cut off, loses a user or a link, no handler is cut off      *)
(* before its time, and no id of a deleted user comes back.                *)
(***************************************************************************)
EXTENDS Lifecycle, WellFoundedInduction, TLAPS

----------------------------------------------------------------------------
(* The statements, one by one.                                             *)

LEMMA EmptyOK ==
  /\ EmptyUsers \in UsersTable /\ EmptyUsers # NoTable
  /\ EmptyUsers.rows = NoRows /\ ~EmptyUsers.unique /\ Numbered(EmptyUsers)
<1>1. NoRows \in Rows /\ 0 \in 0..MaxID
  BY FileAssumption DEF NoRows, Rows
<1>2. EmptyUsers \in UsersTable
  BY <1>1 DEF EmptyUsers, UsersTable
<1>3. EmptyUsers.rows = NoRows /\ ~EmptyUsers.unique
  BY DEF EmptyUsers
<1>4. Numbered(EmptyUsers)
  BY <1>3 DEF Numbered, NoRows
<1> QED
  BY <1>2, <1>3, <1>4, FileAssumption

LEMMA TablesOK ==
  ASSUME NEW f \in File
  PROVE  /\ f.users # NoTable =>
              f.users \in UsersTable /\ f.users.rows \in Rows
              /\ f.users.seq \in 0..MaxID /\ f.users.unique \in BOOLEAN
         /\ f.users_old # NoTable =>
              f.users_old \in UsersTable /\ f.users_old.rows \in Rows
         /\ f.servers # NoTable =>
              /\ f.servers \in ServersTable
              /\ f.servers.columns \in SUBSET Columns
              /\ f.servers.links \in [ServerIDs -> Links \cup {NoServer}]
BY DEF File, UsersTable, ServersTable

LEMMA CreateUsersOK ==
  ASSUME NEW f \in File
  PROVE  /\ CreateUsers(f) \in File
         /\ CreateUsers(f).users =
              IF f.users = NoTable THEN EmptyUsers ELSE f.users
         /\ CreateUsers(f).users_old = f.users_old
         /\ CreateUsers(f).servers = f.servers
BY EmptyOK DEF CreateUsers, File

LEMMA CreateServersOK ==
  ASSUME NEW f \in File
  PROVE  /\ CreateServers(f) \in File /\ CreateServers(f).servers # NoTable
         /\ CreateServers(f).users = f.users
         /\ CreateServers(f).users_old = f.users_old
         /\ f.servers # NoTable => CreateServers(f) = f
         /\ f.servers = NoTable =>
              \A s \in ServerIDs : CreateServers(f).servers.links[s] = NoServer
<1>1. CASE f.servers = NoTable
  <2> DEFINE t == [columns |-> {"subscription_url", "active"},
                   links |-> [s \in ServerIDs |-> NoServer]]
  <2>1. t \in ServersTable /\ t # NoTable /\
        \A s \in ServerIDs : t.links[s] = NoServer
    BY FileAssumption DEF ServersTable, Columns
  <2>2. CreateServers(f) = [f EXCEPT !.servers = t]
    BY <1>1 DEF CreateServers
  <2> HIDE DEF t
  <2> QED
    BY <1>1, <2>1, <2>2 DEF File
<1>2. CASE f.servers # NoTable
  BY <1>2 DEF CreateServers
<1> QED
  BY <1>1, <1>2

LEMMA AddColumnOK ==
  ASSUME NEW f \in File, f.servers # NoTable, NEW c \in Columns
  PROVE  /\ AddColumn(f, c) \in File /\ AddColumn(f, c).servers # NoTable
         /\ AddColumn(f, c).users = f.users
         /\ AddColumn(f, c).users_old = f.users_old
         /\ AddColumn(f, c).servers.links = f.servers.links
         /\ AddColumn(f, c).servers.columns = f.servers.columns \cup {c}
<1> DEFINE t == [f.servers EXCEPT !.columns = f.servers.columns \cup {c}]
<1>1. f.servers \in ServersTable
  BY TablesOK
<1>2. t \in ServersTable /\ t # NoTable /\ t.links = f.servers.links
      /\ t.columns = f.servers.columns \cup {c}
  BY <1>1, FileAssumption DEF ServersTable
<1>3. AddColumn(f, c) = [f EXCEPT !.servers = t]
  BY DEF AddColumn, File
<1> HIDE DEF t
<1> QED
  BY <1>2, <1>3 DEF File

LEMMA FillLinksOK ==
  ASSUME NEW f \in File, f.servers # NoTable
  PROVE  /\ FillLinks(f) \in File /\ FillLinks(f).servers # NoTable
         /\ FillLinks(f).users = f.users
         /\ FillLinks(f).users_old = f.users_old
         /\ FillLinks(f).servers.columns = f.servers.columns
         /\ \A s \in ServerIDs :
              FillLinks(f).servers.links[s] =
                IF /\ HasColumn(f, "subscription_path")
                   /\ f.servers.links[s] = Blank
                THEN Legacy ELSE f.servers.links[s]
<1> DEFINE new == [s \in ServerIDs |->
                     IF f.servers.links[s] = Blank THEN Legacy
                     ELSE f.servers.links[s]]
           t == [f.servers EXCEPT !.links = new]
<1>1. f.servers \in ServersTable
      /\ f.servers.links \in [ServerIDs -> Links \cup {NoServer}]
  BY TablesOK
<1>2. new \in [ServerIDs -> Links \cup {NoServer}]
  BY <1>1 DEF Links
<1>3. t \in ServersTable /\ t # NoTable /\ t.links = new
      /\ t.columns = f.servers.columns
  BY <1>1, <1>2, FileAssumption DEF ServersTable
<1>4. CASE HasColumn(f, "subscription_path")
  <2>1. FillLinks(f) = [f EXCEPT !.servers = t]
    BY <1>4 DEF FillLinks, File
  <2>2. \A s \in ServerIDs : new[s] = IF f.servers.links[s] = Blank
                                     THEN Legacy ELSE f.servers.links[s]
    OBVIOUS
  <2> HIDE DEF new, t
  <2> QED
    BY <1>3, <1>4, <2>1, <2>2 DEF File
<1>5. CASE ~HasColumn(f, "subscription_path")
  BY <1>5 DEF FillLinks
<1> QED
  BY <1>4, <1>5

LEMMA RenameOK ==
  ASSUME NEW f \in File
  PROVE  /\ RenameUsers(f) \in File
         /\ RenameUsers(f).users_old = f.users
         /\ RenameUsers(f).servers = f.servers
BY DEF RenameUsers, File

LEMMA CreateNewOK ==
  ASSUME NEW f \in File
  PROVE  /\ CreateNewUsers(f) \in File
         /\ CreateNewUsers(f).users = EmptyUsers
         /\ CreateNewUsers(f).users_old = f.users_old
         /\ CreateNewUsers(f).servers = f.servers
BY EmptyOK DEF CreateNewUsers, File

\* The largest id in use exists, and it is that.
LEMMA MaxUsedOK ==
  ASSUME NEW rows \in Rows
  PROVE  /\ MaxUsed(rows) \in 0..MaxID
         /\ \A u \in IDs : rows[u] # NoUser => u <= MaxUsed(rows)
<1> USE FileAssumption DEF IDs
<1> DEFINE Bounds == {n \in 0..MaxID : \A u \in IDs : rows[u] # NoUser => u <= n}
           Top(n) == /\ n = 0 \/ (n \in IDs /\ rows[n] # NoUser)
                     /\ \A u \in IDs : rows[u] # NoUser => u <= n
<1>1. MaxID \in Bounds
  OBVIOUS
<1>2. PICK n \in Bounds : \A m \in Bounds : ~(m < n)
  <2>1. IsWellFoundedOn({ss \in Nat \X Nat : ss[1] < ss[2]}, Nat)
    BY NatLessThanWellFounded DEF OpToRel
  <2>2. Bounds \subseteq Nat /\ Bounds # {}
    BY <1>1
  <2>3. \E n \in Bounds : \A m \in Bounds :
          <<m, n>> \notin {ss \in Nat \X Nat : ss[1] < ss[2]}
    <3> HIDE DEF Bounds
    <3> QED
      BY <2>1, <2>2, WFMin
  <2> QED
    BY <2>2, <2>3
<1>3. Top(n)
  <2>1. CASE n = 0
    BY <2>1
  <2>2. CASE n # 0 /\ rows[n] = NoUser
    <3>1. n - 1 \in Bounds
      BY <2>2
    <3> QED
      BY <1>2, <3>1
  <2> QED
    BY <2>1, <2>2
<1>4. n \in 0..MaxID /\ Top(n)
  BY <1>3
<1>5. MaxUsed(rows) = CHOOSE k \in 0..MaxID : Top(k)
  BY DEF MaxUsed
<1> HIDE DEF Bounds, Top
<1>6. MaxUsed(rows) \in 0..MaxID /\ Top(MaxUsed(rows))
  BY <1>4, <1>5
<1> QED
  BY <1>6 DEF Top

LEMMA CopyOK ==
  ASSUME NEW f \in File, f.users = EmptyUsers, f.users_old # NoTable
  PROVE  /\ CopyUsers(f) \in File /\ CopyUsers(f).users # NoTable
         /\ CopyUsers(f).users.rows = f.users_old.rows
         /\ ~CopyUsers(f).users.unique /\ Numbered(CopyUsers(f).users)
         /\ CopyUsers(f).users_old = f.users_old
         /\ CopyUsers(f).servers = f.servers
<1> DEFINE rows == f.users_old.rows
           t == [unique |-> FALSE, rows |-> rows, seq |-> MaxUsed(rows)]
<1>1. rows \in Rows
  BY TablesOK
<1>2. /\ MaxUsed(rows) \in 0..MaxID
      /\ \A u \in IDs : rows[u] # NoUser => u <= MaxUsed(rows)
  <2> HIDE DEF rows
  <2> QED
    BY <1>1, MaxUsedOK
<1>3. t \in UsersTable /\ t # NoTable /\ t.rows = rows /\ ~t.unique
      /\ Numbered(t)
  <2> DEFINE m == MaxUsed(rows)
  <2> HIDE DEF rows, m
  <2>1. m \in 0..MaxID /\ \A u \in IDs : rows[u] # NoUser => u <= m
    BY <1>2 DEF m
  <2>2. t = [unique |-> FALSE, rows |-> rows, seq |-> m]
    BY DEF m
  <2>3. t \in UsersTable
    BY <1>1, <2>1, <2>2 DEF UsersTable
  <2> QED
    BY <2>1, <2>2, <2>3, FileAssumption DEF Numbered
<1>4. CopyUsers(f) = [f EXCEPT !.users = t]
  BY DEF CopyUsers, EmptyUsers
<1> HIDE DEF t
<1> QED
  BY <1>3, <1>4 DEF File

LEMMA DropOK ==
  ASSUME NEW f \in File
  PROVE  /\ DropOld(f) \in File
         /\ DropOld(f).users_old = NoTable
         /\ DropOld(f).users = f.users
         /\ DropOld(f).servers = f.servers
BY DEF DropOld, File

LEMMA InsertOK ==
  ASSUME NEW t \in UsersTable, NEW name \in Usernames, t.seq < MaxID,
         Numbered(t)
  PROVE  /\ InsertUser(t, name) \in UsersTable /\ Numbered(InsertUser(t, name))
         /\ InsertUser(t, name).unique = t.unique
         /\ InsertUser(t, name).seq = t.seq + 1
         /\ InsertUser(t, name).rows = [t.rows EXCEPT ![t.seq + 1] = name]
         /\ t.rows \in Rows /\ t.seq \in 0..MaxID /\ t.seq + 1 \in IDs
<1>1. t.rows \in Rows /\ t.seq \in 0..MaxID /\ t.unique \in BOOLEAN
  BY DEF UsersTable
<1>2. t.seq + 1 \in IDs /\ t.seq + 1 \in 0..MaxID
  BY <1>1, FileAssumption DEF IDs
<1>3. [t.rows EXCEPT ![t.seq + 1] = name] \in Rows
  BY <1>1 DEF Rows
<1>4. InsertUser(t, name) =
        [unique |-> t.unique, rows |-> [t.rows EXCEPT ![t.seq + 1] = name],
         seq |-> t.seq + 1]
  BY DEF InsertUser
<1>5. Numbered(InsertUser(t, name))
  BY <1>1, <1>2, <1>4, FileAssumption DEF Numbered, Rows, IDs
<1> QED
  BY <1>1, <1>2, <1>3, <1>4, <1>5 DEF UsersTable

LEMMA EraseOK ==
  ASSUME NEW f \in File, f.users # NoTable, NEW u \in IDs
  PROVE  /\ EraseUser(f, u) \in File /\ EraseUser(f, u).users # NoTable
         /\ EraseUser(f, u).users.rows = [f.users.rows EXCEPT ![u] = NoUser]
         /\ EraseUser(f, u).users.seq = f.users.seq
         /\ EraseUser(f, u).users.unique = f.users.unique
         /\ EraseUser(f, u).users_old = f.users_old
         /\ EraseUser(f, u).servers = f.servers
<1> DEFINE rows == [f.users.rows EXCEPT ![u] = NoUser]
           t == [f.users EXCEPT !.rows = rows]
<1>1. f.users \in UsersTable /\ f.users.rows \in Rows
  BY TablesOK
<1>2. rows \in Rows
  BY <1>1 DEF Rows
<1>3. t \in UsersTable /\ t # NoTable /\ t.rows = rows
      /\ t.seq = f.users.seq /\ t.unique = f.users.unique
  <2> HIDE DEF rows
  <2> QED
    BY <1>1, <1>2, FileAssumption DEF UsersTable
<1>4. EraseUser(f, u) = [f EXCEPT !.users = t]
  BY DEF EraseUser, File
<1> HIDE DEF t
<1> QED
  BY <1>3, <1>4 DEF File

LEMMA SetLinkOK ==
  ASSUME NEW f \in File, f.servers # NoTable, NEW s \in ServerIDs,
         NEW link \in Links, NEW g, g = [f EXCEPT !.servers.links[s] = link]
  PROVE  /\ g \in File /\ g.servers # NoTable
         /\ g.servers.links = [f.servers.links EXCEPT ![s] = link]
         /\ g.servers.columns = f.servers.columns
         /\ g.users = f.users /\ g.users_old = f.users_old
         /\ f.servers.links \in [ServerIDs -> Links \cup {NoServer}]
<1> DEFINE links == [f.servers.links EXCEPT ![s] = link]
           t == [f.servers EXCEPT !.links = links]
<1>1. /\ f.servers \in ServersTable
      /\ f.servers.links \in [ServerIDs -> Links \cup {NoServer}]
  BY TablesOK
<1>2. links \in [ServerIDs -> Links \cup {NoServer}]
  BY <1>1
<1>3. t \in ServersTable /\ t # NoTable /\ t.links = links
      /\ t.columns = f.servers.columns
  <2> HIDE DEF links
  <2> QED
    BY <1>1, <1>2, FileAssumption DEF ServersTable
<1>4. g = [f EXCEPT !.servers = t]
  BY DEF File
<1> HIDE DEF t
<1> QED
  BY <1>1, <1>3, <1>4 DEF File

----------------------------------------------------------------------------
(* The end of the process, from wherever it was.                           *)

LEMMA ExitKeeps ==
  ASSUME IInv, NEW why \in {"crashed", "cut"}, Exit(why),
         why = "cut" => up = "closing",
         disturbed' \in BOOLEAN, faults' \in 0..MaxFaults
  PROVE  IInv'
<1> USE DEF IInv, Exit, history
<1>1. TypeOK'
  BY DEF TypeOK, FilesOK, ProcessOK, HistoryOK, PlacesOK, InTx, Migrated
<1>2. TableKept' /\ WorkKept' /\ Progress'
  BY DEF TableKept, StoredRows, WorkKept, Progress, InTx, Migrated
<1>3. LinksKept'
  BY DEF LinksKept, HasColumn, Migrated
<1>4. GraceHonoured' /\ GraceKept'
  <2> SUFFICES ASSUME NEW h \in Handlers, reply'[h] \in {"closed", "cut"}
               PROVE  waited >= Grace
    BY DEF GraceHonoured, GraceKept
  <2>1. CASE pc[h] = "idle"
    BY <2>1 DEF GraceHonoured
  <2>2. CASE pc[h] # "idle"
    BY <2>2, LifeAssumption DEF GraceKept, TypeOK, ProcessOK
  <2> QED
    BY <2>1, <2>2
<1>5. IdsStayRetired' /\ GoneNumbered'
  BY DEF IdsStayRetired, GoneNumbered
<1> QED
  BY <1>1, <1>2, <1>3, <1>4, <1>5

LEMMA FailKeeps ==
  ASSUME IInv, FailStart
  PROVE  IInv'
<1>1. disturbed' \in BOOLEAN /\ faults' \in 0..MaxFaults
  BY LifeAssumption DEF IInv, TypeOK, HistoryOK, FailStart, Fault
<1> QED
  BY <1>1, ExitKeeps DEF FailStart

----------------------------------------------------------------------------
(* A start that goes on: what the file has to do with it is each step's.   *)

LEMMA GoOnKeeps ==
  ASSUME IInv, up \in Starting, NEW next \in Starting \cup {"serving"},
         GoOn(next), UNCHANGED <<kept, want>>, gone' \in {gone, {}}
  PROVE  /\ up' = next
         /\ \A h \in Handlers : pc'[h] = "idle"
         /\ ProcessOK' /\ HistoryOK'
         /\ GraceHonoured' /\ GraceKept' /\ IdsStayRetired'
<1> USE DEF IInv, GoOn, handler, Starting, InTx
<1>1. up' = next /\ \A h \in Handlers : pc'[h] = "idle"
  BY DEF TypeOK, PlacesOK, Migrated
<1>2. ProcessOK' /\ HistoryOK'
  BY <1>1 DEF TypeOK, ProcessOK, HistoryOK, Migrated
<1>3. GraceHonoured' /\ GraceKept' /\ IdsStayRetired'
  BY <1>1 DEF GraceHonoured, GraceKept, IdsStayRetired
<1> QED
  BY <1>1, <1>2, <1>3

\* Outside the rebuild.
LEMMA OutsideKeeps ==
  ASSUME IInv, up \in Starting \ InTx,
         NEW next \in (Starting \cup {"serving"}) \ InTx,
         GoOn(next), UNCHANGED <<work, history>>,
         file' \in File, TableKept', Progress', LinksKept', GoneNumbered'
  PROVE  IInv'
<1>1. /\ up' = next /\ ProcessOK' /\ HistoryOK'
      /\ \A h \in Handlers : pc'[h] = "idle"
      /\ GraceHonoured' /\ GraceKept' /\ IdsStayRetired'
  <2>1. UNCHANGED <<kept, want>> /\ gone' \in {gone, {}}
    BY DEF history
  <2> QED
    BY <2>1, GoOnKeeps
<1>2. FilesOK' /\ work' = NoTx
  BY DEF IInv, TypeOK, FilesOK, PlacesOK
<1>3. TypeOK'
  BY <1>1, <1>2 DEF TypeOK, PlacesOK
<1>4. WorkKept'
  BY <1>1 DEF WorkKept, InTx
<1> QED
  BY <1>1, <1>3, <1>4 DEF IInv

LEMMA CreateUsersKeeps ==
  ASSUME IInv, Execute("users", CreateUsers(file), "servers")
  PROVE  IInv'
<1>1. CASE FailStart
  BY <1>1, FailKeeps
<1>2. CASE /\ file' = CreateUsers(file) /\ GoOn("servers")
           /\ UNCHANGED <<work, history>>
  <2>0. up = "users" /\ up' = "servers" /\ file \in File
        /\ UNCHANGED <<kept, want, gone>>
    BY <1>2 DEF Execute, GoOn, IInv, TypeOK, FilesOK, history
  <2>1. /\ file' \in File /\ file'.users_old = file.users_old
        /\ file'.servers = file.servers /\ file'.users # NoTable
        /\ file'.users = IF file.users = NoTable THEN EmptyUsers ELSE file.users
    BY <1>2, <2>0, CreateUsersOK, EmptyOK
  <2>2. TableKept'
    BY <2>0, <2>1, EmptyOK DEF IInv, TableKept, StoredRows, Numbered
  <2>3. Progress' /\ LinksKept'
    BY <2>0, <2>1 DEF IInv, Progress, LinksKept, HasColumn, Migrated
  <2>4. GoneNumbered'
    BY <2>0, <2>1 DEF IInv, GoneNumbered
  <2> QED
    BY <1>2, <2>0, <2>1, <2>2, <2>3, <2>4, OutsideKeeps DEF Starting, InTx
<1> QED
  BY <1>1, <1>2 DEF Execute

LEMMA CreateServersKeeps ==
  ASSUME IInv, Execute("servers", CreateServers(file), "url")
  PROVE  IInv'
<1>1. CASE FailStart
  BY <1>1, FailKeeps
<1>2. CASE /\ file' = CreateServers(file) /\ GoOn("url")
           /\ UNCHANGED <<work, history>>
  <2>0. up = "servers" /\ up' = "url" /\ file \in File
        /\ UNCHANGED <<kept, want, gone>>
    BY <1>2 DEF Execute, GoOn, IInv, TypeOK, FilesOK, history
  <2>1. /\ file' \in File /\ file'.users_old = file.users_old
        /\ file'.users = file.users /\ file'.servers # NoTable
        /\ file.servers # NoTable => file' = file
        /\ file.servers = NoTable =>
             \A s \in ServerIDs : file'.servers.links[s] = NoServer
    BY <1>2, <2>0, CreateServersOK
  <2>2. TableKept' /\ GoneNumbered'
    BY <2>0, <2>1 DEF IInv, TableKept, StoredRows, Numbered, GoneNumbered
  <2>3. Progress'
    BY <2>0, <2>1 DEF IInv, Progress, Migrated
  <2>4. LinksKept'
    BY <2>0, <2>1 DEF IInv, LinksKept, HasColumn, Migrated
  <2> QED
    BY <1>2, <2>0, <2>1, <2>2, <2>3, <2>4, OutsideKeeps DEF Starting, InTx
<1> QED
  BY <1>1, <1>2 DEF Execute

\* Whether the column is there already or not.
LEMMA AlterKeeps ==
  ASSUME IInv,
         NEW at \in {"url", "active"}, NEW c \in {"subscription_url", "active"},
         NEW next \in {"active", "inspect"}, AlterServers(at, c, next)
  PROVE  IInv'
<1>1. CASE FailStart
  BY <1>1, FailKeeps
<1>2. CASE Exit("crashed") /\ UNCHANGED <<disturbed, faults>>
  BY <1>2, ExitKeeps DEF IInv, TypeOK, HistoryOK
<1>3. CASE /\ file' \in {file, AddColumn(file, c)} /\ up = at
           /\ GoOn(next) /\ UNCHANGED <<work, history>>
  <2>0. up' = next /\ file \in File /\ file.servers # NoTable
        /\ UNCHANGED <<kept, want, gone>>
    BY <1>3 DEF GoOn, IInv, TypeOK, FilesOK, Progress, history
  <2>1. /\ file' \in File /\ file'.users_old = file.users_old
        /\ file'.users = file.users /\ file'.servers # NoTable
        /\ file'.servers.links = file.servers.links
        /\ HasColumn(file', "subscription_path") <=>
             HasColumn(file, "subscription_path")
    BY <1>3, <2>0, AddColumnOK DEF Columns, HasColumn
  <2>2. TableKept' /\ GoneNumbered'
    BY <2>0, <2>1 DEF IInv, TableKept, StoredRows, Numbered, GoneNumbered
  <2>3. Progress'
    BY <1>3, <2>0, <2>1 DEF IInv, Progress, Migrated
  <2>4. LinksKept'
    BY <1>3, <2>0, <2>1 DEF IInv, LinksKept, Migrated
  <2> QED
    BY <1>3, <2>0, <2>1, <2>2, <2>3, <2>4, OutsideKeeps DEF Starting, InTx
<1> QED
  BY <1>1, <1>2, <1>3 DEF AlterServers, Execute

LEMMA FillKeeps ==
  ASSUME IInv, Execute("fill", FillLinks(file), "router")
  PROVE  IInv'
<1>1. CASE FailStart
  BY <1>1, FailKeeps
<1>2. CASE /\ file' = FillLinks(file) /\ GoOn("router")
           /\ UNCHANGED <<work, history>>
  <2>0. up = "fill" /\ up' = "router" /\ file \in File
        /\ file.servers # NoTable /\ UNCHANGED <<kept, want, gone>>
    BY <1>2 DEF Execute, GoOn, IInv, TypeOK, FilesOK, Progress, history
  <2>1. /\ file' \in File /\ file'.users_old = file.users_old
        /\ file'.users = file.users /\ file'.servers # NoTable
        /\ file'.servers.columns = file.servers.columns
        /\ \A s \in ServerIDs :
             file'.servers.links[s] =
               IF /\ HasColumn(file, "subscription_path")
                  /\ file.servers.links[s] = Blank
               THEN Legacy ELSE file.servers.links[s]
    BY <1>2, <2>0, FillLinksOK
  <2>2. TableKept' /\ GoneNumbered'
    BY <2>0, <2>1 DEF IInv, TableKept, StoredRows, Numbered, GoneNumbered
  <2>3. Progress'
    BY <2>0, <2>1 DEF IInv, Progress, Migrated
  <2>4. LinksKept'
    BY <2>0, <2>1 DEF IInv, LinksKept, HasColumn, Migrated
  <2> QED
    BY <1>2, <2>0, <2>1, <2>2, <2>3, <2>4, OutsideKeeps DEF Starting, InTx
<1> QED
  BY <1>1, <1>2 DEF Execute

LEMMA ListenKeeps ==
  ASSUME IInv, Listen
  PROVE  IInv'
<1>1. CASE GoOn("serving") /\ UNCHANGED <<file, work, history>>
  <2>0. up = "router" /\ up' = "serving" /\ file \in File
        /\ UNCHANGED <<file, kept, want, gone>>
    BY <1>1 DEF Listen, GoOn, IInv, TypeOK, FilesOK, history
  <2>1. TableKept' /\ GoneNumbered' /\ Progress' /\ LinksKept'
    BY <2>0 DEF IInv, TableKept, StoredRows, Numbered, GoneNumbered, Progress,
                LinksKept, HasColumn, Migrated
  <2> QED
    BY <1>1, <2>0, <2>1, OutsideKeeps DEF Starting, InTx
<1>2. CASE Exit("crashed") /\ UNCHANGED <<disturbed, faults>>
  BY <1>2, ExitKeeps DEF IInv, TypeOK, HistoryOK
<1> QED
  BY <1>1, <1>2 DEF Listen

----------------------------------------------------------------------------
(* The rebuild.                                                            *)

\* Nothing of it is in the file before its commit.
LEMMA WithinKeeps ==
  ASSUME IInv, up \in {"inspect", "rename", "create", "copy", "drop"},
         NEW next \in InTx, GoOn(next),
         UNCHANGED <<file, history>>, work' \in File, WorkKept'
  PROVE  IInv'
<1>1. /\ up' = next /\ ProcessOK' /\ HistoryOK'
      /\ \A h \in Handlers : pc'[h] = "idle"
      /\ GraceHonoured' /\ GraceKept' /\ IdsStayRetired'
  <2>1. UNCHANGED <<kept, want>> /\ gone' \in {gone, {}}
    BY DEF history
  <2>2. up \in Starting /\ next \in Starting \cup {"serving"}
    BY DEF Starting, InTx
  <2> QED
    BY <2>1, <2>2, GoOnKeeps
<1>2. TypeOK'
  BY <1>1, LifeAssumption DEF IInv, TypeOK, FilesOK, PlacesOK
<1>3. TableKept' /\ GoneNumbered'
  BY DEF IInv, TableKept, StoredRows, Numbered, GoneNumbered, history
<1>4. Progress'
  BY <1>1 DEF IInv, Progress, InTx, Migrated
<1>5. LinksKept'
  BY <1>1 DEF IInv, LinksKept, HasColumn, InTx, Migrated, history
<1> QED
  BY <1>1, <1>2, <1>3, <1>4, <1>5 DEF IInv

LEMMA InspectKeeps ==
  ASSUME IInv, Inspect
  PROVE  IInv'
<1>1. CASE FailStart
  BY <1>1, FailKeeps
<1>2. CASE /\ NeedsRebuild(file)
           /\ WriteWithin(file) /\ GoOn("rename") /\ UNCHANGED history
  <2>1. up = "inspect" /\ up' = "rename" /\ file \in File /\ file' = file
        /\ work' = file
    BY <1>2 DEF Inspect, GoOn, WriteWithin, IInv, TypeOK, FilesOK
  <2>2. WorkKept'
    BY <1>2, <2>1 DEF WorkKept, NeedsRebuild
  <2> QED
    BY <1>2, <2>1, <2>2, WithinKeeps DEF InTx
<1>3. CASE /\ ~NeedsRebuild(file)
           /\ GoOn("fill") /\ UNCHANGED <<file, work, history>>
  <2>0. up = "inspect" /\ up' = "fill" /\ file \in File
        /\ UNCHANGED <<file, kept, want, gone>>
    BY <1>3 DEF Inspect, GoOn, IInv, TypeOK, FilesOK, history
  <2>1. TableKept' /\ GoneNumbered' /\ Progress' /\ LinksKept'
    BY <1>3, <2>0 DEF IInv, TableKept, StoredRows, Numbered, GoneNumbered,
                      Progress, LinksKept, HasColumn, NeedsRebuild, Migrated
  <2> QED
    BY <1>3, <2>0, <2>1, OutsideKeeps DEF Starting, InTx
<1> QED
  BY <1>1, <1>2, <1>3 DEF Inspect

LEMMA RenameKeeps ==
  ASSUME IInv, ExecuteTx("rename", RenameUsers(work), "create")
  PROVE  IInv'
<1>1. CASE FailStart
  BY <1>1, FailKeeps
<1>2. CASE WriteWithin(RenameUsers(work)) /\ GoOn("create")
           /\ UNCHANGED history
  <2>1. up = "rename" /\ up' = "create" /\ file' = file
        /\ work' = RenameUsers(work) /\ work = file /\ file \in File
        /\ file.users # NoTable /\ file.users.rows = kept /\ file.users.unique
        /\ kept' = kept
    BY <1>2 DEF ExecuteTx, GoOn, WriteWithin, IInv, TypeOK, FilesOK, TableKept,
                WorkKept, Progress, StoredRows, InTx, history
  <2>2. work' \in File /\ work'.users_old = file.users
        /\ work'.servers = file.servers
    BY <2>1, RenameOK
  <2>3. WorkKept'
    BY <2>1, <2>2 DEF WorkKept
  <2> QED
    BY <1>2, <2>1, <2>2, <2>3, WithinKeeps DEF InTx
<1> QED
  BY <1>1, <1>2 DEF ExecuteTx

LEMMA CreateNewKeeps ==
  ASSUME IInv, ExecuteTx("create", CreateNewUsers(work), "copy")
  PROVE  IInv'
<1>1. CASE FailStart
  BY <1>1, FailKeeps
<1>2. CASE WriteWithin(CreateNewUsers(work)) /\ GoOn("copy")
           /\ UNCHANGED history
  <2>1. up = "create" /\ up' = "copy" /\ file' = file
        /\ work' = CreateNewUsers(work) /\ work # NoTx /\ kept' = kept
        /\ work.users_old # NoTable /\ work.users_old.rows = kept
        /\ work.servers = file.servers /\ file.users.unique
    BY <1>2 DEF ExecuteTx, GoOn, WriteWithin, IInv, TypeOK, PlacesOK, WorkKept,
                InTx, history
  <2>2. work \in File
    BY <2>1 DEF IInv, TypeOK, FilesOK
  <2>3. work' \in File /\ work'.users = EmptyUsers
        /\ work'.users_old = work.users_old /\ work'.servers = work.servers
    BY <2>1, <2>2, CreateNewOK
  <2>4. WorkKept'
    BY <2>1, <2>3 DEF WorkKept
  <2> QED
    BY <1>2, <2>1, <2>3, <2>4, WithinKeeps DEF InTx
<1> QED
  BY <1>1, <1>2 DEF ExecuteTx

LEMMA CopyKeeps ==
  ASSUME IInv, ExecuteTx("copy", CopyUsers(work), "drop")
  PROVE  IInv'
<1>1. CASE FailStart
  BY <1>1, FailKeeps
<1>2. CASE WriteWithin(CopyUsers(work)) /\ GoOn("drop")
           /\ UNCHANGED history
  <2>1. up = "copy" /\ up' = "drop" /\ file' = file
        /\ work' = CopyUsers(work) /\ work # NoTx /\ kept' = kept
        /\ work.users = EmptyUsers
        /\ work.users_old # NoTable /\ work.users_old.rows = kept
        /\ work.servers = file.servers /\ file.users.unique
    BY <1>2 DEF ExecuteTx, GoOn, WriteWithin, IInv, TypeOK, PlacesOK, WorkKept,
                InTx, history
  <2>2. work \in File
    BY <2>1 DEF IInv, TypeOK, FilesOK
  <2>3. /\ work' \in File /\ work'.users # NoTable /\ work'.users.rows = kept
        /\ ~work'.users.unique /\ Numbered(work'.users)
        /\ work'.servers = work.servers
    BY <2>1, <2>2, CopyOK
  <2>4. WorkKept'
    BY <2>1, <2>3 DEF WorkKept, Numbered
  <2> QED
    BY <1>2, <2>1, <2>3, <2>4, WithinKeeps DEF InTx
<1> QED
  BY <1>1, <1>2 DEF ExecuteTx

LEMMA DropKeeps ==
  ASSUME IInv, ExecuteTx("drop", DropOld(work), "commit")
  PROVE  IInv'
<1>1. CASE FailStart
  BY <1>1, FailKeeps
<1>2. CASE WriteWithin(DropOld(work)) /\ GoOn("commit")
           /\ UNCHANGED history
  <2>1. up = "drop" /\ up' = "commit" /\ file' = file
        /\ work' = DropOld(work) /\ work # NoTx /\ kept' = kept
        /\ work.users # NoTable /\ work.users.rows = kept
        /\ ~work.users.unique /\ Numbered(work.users)
        /\ work.servers = file.servers /\ file.users.unique
    BY <1>2 DEF ExecuteTx, GoOn, WriteWithin, IInv, TypeOK, PlacesOK, WorkKept,
                InTx, history
  <2>2. work \in File
    BY <2>1 DEF IInv, TypeOK, FilesOK
  <2>3. work' \in File /\ work'.users_old = NoTable
        /\ work'.users = work.users /\ work'.servers = work.servers
    BY <2>1, <2>2, DropOK
  <2>4. WorkKept'
    BY <2>1, <2>3 DEF WorkKept, Numbered
  <2> QED
    BY <1>2, <2>1, <2>3, <2>4, WithinKeeps DEF InTx
<1> QED
  BY <1>1, <1>2 DEF ExecuteTx

\* The new table becomes the table, all rows at once.
LEMMA CommitKeeps ==
  ASSUME IInv, CommitRebuild
  PROVE  IInv'
<1>1. CASE FailStart
  BY <1>1, FailKeeps
<1>2. CASE /\ file' = work /\ work' = NoTx
           /\ GoOn("fill")
           /\ gone' = IF file.users.unique THEN {} ELSE gone
           /\ UNCHANGED <<kept, want>>
  <2>1. /\ up = "commit" /\ work # NoTx
        /\ work.users_old = NoTable
        /\ work.users # NoTable /\ work.users.rows = kept
        /\ ~work.users.unique /\ Numbered(work.users)
        /\ work.servers = file.servers /\ file.servers # NoTable
        /\ gone' = {}
    BY <1>2 DEF CommitRebuild, IInv, TypeOK, PlacesOK, WorkKept, Progress, InTx,
                Migrated
  <2>2. file' \in File /\ work' = NoTx
    BY <1>2, <2>1 DEF IInv, TypeOK, FilesOK
  <2>3. /\ up' = "fill" /\ ProcessOK' /\ HistoryOK'
        /\ \A h \in Handlers : pc'[h] = "idle"
        /\ GraceHonoured' /\ GraceKept' /\ IdsStayRetired'
    BY <1>2, <2>1, GoOnKeeps DEF Starting, InTx
  <2>4. TypeOK'
    BY <2>2, <2>3 DEF TypeOK, FilesOK, PlacesOK, InTx
  <2>5. TableKept' /\ GoneNumbered'
    BY <1>2, <2>1 DEF TableKept, StoredRows, Numbered, GoneNumbered
  <2>6. WorkKept' /\ Progress'
    BY <1>2, <2>1, <2>3 DEF WorkKept, Progress, InTx
  <2>7. LinksKept'
    BY <1>2, <2>1, <2>3 DEF IInv, LinksKept, HasColumn, Migrated
  <2> QED
    BY <2>3, <2>4, <2>5, <2>6, <2>7 DEF IInv
<1> QED
  BY <1>1, <1>2 DEF CommitRebuild

LEMMA StartKeeps ==
  ASSUME IInv, StartStep
  PROVE  IInv'
BY CreateUsersKeeps, CreateServersKeeps, AlterKeeps, InspectKeeps, RenameKeeps,
   CreateNewKeeps, CopyKeeps, DropKeeps, CommitKeeps, FillKeeps, ListenKeeps
   DEF StartStep

----------------------------------------------------------------------------
(* Handlers.                                                               *)

\* What a write leaves alone, and what it must see to.
LEMMA WriteKeeps ==
  ASSUME IInv, NEW h \in Handlers, MayWrite(h), NEW f, Write(h, f),
         f \in File, TableKept', LinksKept',
         f.users # NoTable, ~f.users.unique, f.servers # NoTable,
         HistoryOK', IdsStayRetired', GoneNumbered'
  PROVE  IInv'
<1> USE DEF IInv, MayWrite, Write, process
<1>1. up \in Migrated /\ up' = up /\ up # "closing" /\ work' = NoTx
      /\ file' = f
  BY DEF Migrated, TypeOK, PlacesOK, InTx
<1>2. TypeOK'
  BY <1>1 DEF TypeOK, FilesOK, ProcessOK, PlacesOK, InTx, Migrated
<1>3. WorkKept' /\ Progress'
  BY <1>1 DEF WorkKept, Progress, InTx, Migrated
<1>4. GraceHonoured' /\ GraceKept'
  BY <1>1 DEF GraceHonoured, GraceKept
<1> QED
  BY <1>2, <1>3, <1>4

\* What a write finds.
LEMMA ServingOK ==
  ASSUME IInv, NEW h \in Handlers, MayWrite(h)
  PROVE  /\ up \in Migrated /\ file \in File /\ file.users_old = NoTable
         /\ file.users # NoTable /\ file.users \in UsersTable
         /\ file.users.rows = kept /\ ~file.users.unique
         /\ Numbered(file.users) /\ file.servers # NoTable
<1>1. up \in {"serving", "draining"} /\ file \in File
  BY DEF IInv, TypeOK, FilesOK, MayWrite
<1>2. file.users # NoTable /\ ~file.users.unique /\ file.servers # NoTable
  BY <1>1 DEF IInv, Progress, Migrated
<1>3. file.users \in UsersTable
  BY <1>1, <1>2, TablesOK
<1> QED
  BY <1>1, <1>2, <1>3 DEF IInv, TableKept, StoredRows, Migrated

LEMMA CreateUserKeeps ==
  ASSUME IInv, NEW h \in Handlers, NEW name \in Usernames, CreateUser(h, name)
  PROVE  IInv'
<1> DEFINE t == InsertUser(file.users, name)
           f == [file EXCEPT !.users = t]
<1>1. /\ up \in Migrated /\ file \in File /\ file.users_old = NoTable
      /\ file.users # NoTable /\ file.users \in UsersTable
      /\ file.users.rows = kept /\ ~file.users.unique
      /\ Numbered(file.users) /\ file.servers # NoTable
  BY ServingOK DEF CreateUser
<1>2. /\ t \in UsersTable /\ Numbered(t) /\ t.unique = file.users.unique
      /\ t.seq = file.users.seq + 1
      /\ t.rows = [kept EXCEPT ![file.users.seq + 1] = name]
      /\ kept \in Rows /\ file.users.seq \in 0..MaxID
  BY <1>1, InsertOK DEF CreateUser
<1>3. /\ MayWrite(h) /\ Write(h, f) /\ kept' = t.rows
      /\ UNCHANGED <<want, gone, disturbed, faults>> /\ file' = f /\ up' = up
  BY DEF CreateUser, Write, process
<1> HIDE DEF t
<1>4. f \in File /\ f.users = t /\ t # NoTable /\ f.users_old = file.users_old
      /\ f.servers = file.servers /\ t.rows \in Rows
  BY <1>1, <1>2, FileAssumption DEF File, UsersTable
<1> HIDE DEF f
<1>5. TableKept'
  BY <1>1, <1>2, <1>3, <1>4 DEF TableKept, StoredRows, Numbered
<1>6. LinksKept'
  BY <1>3, <1>4 DEF IInv, LinksKept, HasColumn, Migrated
<1>7. HistoryOK'
  BY <1>3, <1>4 DEF IInv, TypeOK, HistoryOK
<1>8. GoneNumbered'
  <2> SUFFICES ASSUME NEW u \in gone
               PROVE  u <= t.seq
    BY <1>3, <1>4 DEF GoneNumbered
  <2>1. u \in Nat /\ u <= file.users.seq
    BY FileAssumption DEF IInv, GoneNumbered, TypeOK, HistoryOK, IDs
  <2> QED
    BY <1>2, <2>1, FileAssumption
<1>9. IdsStayRetired'
  <2> SUFFICES ASSUME NEW u \in gone
               PROVE  t.rows[u] = NoUser
    BY <1>3 DEF IdsStayRetired
  <2>1. u \in IDs /\ u <= file.users.seq /\ kept[u] = NoUser
    BY DEF IInv, GoneNumbered, IdsStayRetired, TypeOK, HistoryOK
  <2>2. u # file.users.seq + 1
    BY <1>2, <2>1, FileAssumption DEF IDs
  <2> QED
    BY <1>2, <2>1, <2>2 DEF Rows
<1> QED
  BY <1>1, <1>2, <1>3, <1>4, <1>5, <1>6, <1>7, <1>8, <1>9, WriteKeeps

LEMMA DeleteUserKeeps ==
  ASSUME IInv, NEW h \in Handlers, NEW u \in IDs, DeleteUser(h, u)
  PROVE  IInv'
<1> DEFINE f == EraseUser(file, u)
<1>1. /\ up \in Migrated /\ file \in File /\ file.users_old = NoTable
      /\ file.users # NoTable /\ file.users \in UsersTable
      /\ file.users.rows = kept /\ ~file.users.unique
      /\ Numbered(file.users) /\ file.servers # NoTable
  BY ServingOK DEF DeleteUser
<1>2. /\ MayWrite(h) /\ Write(h, f) /\ kept' = [kept EXCEPT ![u] = NoUser]
      /\ gone' = gone \cup {u}
      /\ UNCHANGED <<want, disturbed, faults>> /\ file' = f /\ up' = up
      /\ kept[u] # NoUser
  BY <1>1 DEF DeleteUser, Write, process
<1>3. /\ f \in File /\ f.users # NoTable
      /\ f.users.rows = [kept EXCEPT ![u] = NoUser]
      /\ f.users.seq = file.users.seq /\ f.users.unique = file.users.unique
      /\ f.users_old = file.users_old /\ f.servers = file.servers
  BY <1>1, EraseOK
<1> HIDE DEF f
<1>4. kept \in Rows /\ kept' \in Rows
  BY <1>2 DEF IInv, TypeOK, HistoryOK, Rows
<1>5. TableKept'
  BY <1>1, <1>2, <1>3, <1>4 DEF TableKept, StoredRows, Numbered, Rows
<1>6. LinksKept'
  BY <1>2, <1>3 DEF IInv, LinksKept, HasColumn, Migrated
<1>7. HistoryOK'
  BY <1>2, <1>4 DEF IInv, TypeOK, HistoryOK
<1>8. GoneNumbered'
  BY <1>1, <1>2, <1>3 DEF IInv, GoneNumbered, Numbered
<1>9. IdsStayRetired'
  BY <1>2, <1>4 DEF IInv, TypeOK, HistoryOK, IdsStayRetired, Rows
<1> QED
  BY <1>1, <1>2, <1>3, <1>5, <1>6, <1>7, <1>8, <1>9, WriteKeeps

LEMMA SaveServerKeeps ==
  ASSUME IInv, NEW h \in Handlers, NEW s \in ServerIDs,
         NEW link \in Typed \cup {Blank}, SaveServer(h, s, link)
  PROVE  IInv'
<1> DEFINE f == [file EXCEPT !.servers.links[s] = link]
<1>1. /\ up \in Migrated /\ file \in File /\ file.users_old = NoTable
      /\ file.users # NoTable /\ file.users \in UsersTable
      /\ file.users.rows = kept /\ ~file.users.unique
      /\ Numbered(file.users) /\ file.servers # NoTable
  BY ServingOK DEF SaveServer
<1>2. /\ MayWrite(h) /\ Write(h, f) /\ want' = [want EXCEPT ![s] = link]
      /\ UNCHANGED <<kept, gone, disturbed, faults>> /\ file' = f /\ up' = up
  BY DEF SaveServer, Write, process
<1>3. link \in Links
  BY DEF Links
<1>4. /\ f \in File /\ f.servers # NoTable
      /\ f.servers.links = [file.servers.links EXCEPT ![s] = link]
      /\ f.servers.columns = file.servers.columns
      /\ f.users = file.users /\ f.users_old = file.users_old
      /\ file.servers.links \in [ServerIDs -> Links \cup {NoServer}]
  BY <1>1, <1>3, SetLinkOK
<1> HIDE DEF f
<1>5. TableKept' /\ GoneNumbered'
  BY <1>1, <1>2, <1>4 DEF IInv, TableKept, StoredRows, Numbered, GoneNumbered
<1>6. HistoryOK'
  BY <1>2, <1>3 DEF IInv, TypeOK, HistoryOK
<1>7. LinksKept'
  BY <1>1, <1>2, <1>4 DEF IInv, TypeOK, HistoryOK, LinksKept, HasColumn, Migrated
<1>8. IdsStayRetired'
  BY <1>2 DEF IInv, IdsStayRetired
<1> QED
  BY <1>1, <1>2, <1>4, <1>5, <1>6, <1>7, <1>8, WriteKeeps

\* A step that leaves the file and its history alone.
LEMMA QuietKeeps ==
  ASSUME IInv, UNCHANGED <<file, work, history, disturbed, faults>>,
         ProcessOK', PlacesOK', GraceHonoured', GraceKept',
         \/ up' = up
         \/ up = "down" /\ up' = "users"
         \/ up = "serving" /\ up' = "draining"
         \/ up = "draining" /\ up' = "closing"
  PROVE  IInv'
<1> USE DEF IInv, history
<1>1. TypeOK'
  BY DEF TypeOK, FilesOK, HistoryOK
<1>2. TableKept' /\ GoneNumbered' /\ IdsStayRetired'
  BY DEF TableKept, StoredRows, Numbered, GoneNumbered, IdsStayRetired
<1>3. WorkKept' /\ Progress'
  BY DEF WorkKept, Progress, InTx, Migrated
<1>4. LinksKept'
  BY DEF LinksKept, HasColumn, Migrated
<1> QED
  BY <1>1, <1>2, <1>3, <1>4

LEMMA RequestKeeps ==
  ASSUME IInv, NEW h \in Handlers, Request(h)
  PROVE  IInv'
<1> USE DEF IInv, Request, process
<1>1. ProcessOK' /\ PlacesOK'
  BY DEF TypeOK, ProcessOK, PlacesOK, InTx, Migrated
<1>2. GraceHonoured' /\ GraceKept'
  BY DEF TypeOK, ProcessOK, GraceHonoured, GraceKept
<1> QED
  BY <1>1, <1>2, QuietKeeps

LEMMA EndKeeps ==
  ASSUME IInv, NEW h \in Handlers, NEW r \in {"ok", "error", "closed"},
         End(h, r), pc[h] # "idle", r = "closed" => up = "closing"
  PROVE  IInv'
<1> USE DEF IInv, End, process
<1>1. ProcessOK' /\ PlacesOK'
  BY DEF TypeOK, ProcessOK, PlacesOK, InTx, Migrated
<1>2. GraceKept'
  BY DEF TypeOK, ProcessOK, GraceKept
<1>3. GraceHonoured'
  <2>1. r = "closed" => waited >= Grace
    BY LifeAssumption DEF GraceKept, TypeOK, ProcessOK
  <2> QED
    BY <2>1 DEF TypeOK, ProcessOK, GraceHonoured
<1> QED
  BY <1>1, <1>2, <1>3, QuietKeeps

LEMMA HandlerKeeps ==
  ASSUME IInv, NEW h \in Handlers, HandlerStep(h)
  PROVE  IInv'
<1>1. CASE Answer(h)
  BY <1>1, EndKeeps DEF Answer
<1>2. CASE MeetClosed(h)
  BY <1>2, EndKeeps DEF MeetClosed
<1> QED
  BY <1>1, <1>2, RequestKeeps, CreateUserKeeps, DeleteUserKeeps,
     SaveServerKeeps DEF HandlerStep

----------------------------------------------------------------------------
(* Launch and stop.                                                        *)

LEMMA LaunchKeeps ==
  ASSUME IInv, NEW c \in Configs, Launch(c)
  PROVE  IInv'
<1> USE DEF IInv, Launch
<1>1. ProcessOK' /\ PlacesOK'
  BY LifeAssumption
     DEF TypeOK, ProcessOK, PlacesOK, InTx, Migrated, Starting
<1>2. GraceHonoured' /\ GraceKept'
  BY DEF GraceHonoured, GraceKept
<1>3. disturbed' \in BOOLEAN
  OBVIOUS
<1>4. TypeOK'
  BY <1>1, <1>3 DEF TypeOK, FilesOK, HistoryOK, history
<1>5. TableKept' /\ GoneNumbered' /\ IdsStayRetired'
  BY DEF TableKept, StoredRows, Numbered, GoneNumbered, IdsStayRetired, history
<1>6. WorkKept' /\ Progress'
  BY DEF WorkKept, Progress, InTx, Migrated
<1>7. LinksKept'
  BY DEF LinksKept, HasColumn, Migrated, history
<1> QED
  BY <1>2, <1>4, <1>5, <1>6, <1>7

LEMMA SignalKeeps ==
  ASSUME IInv, Signal
  PROVE  IInv'
<1> USE DEF IInv, Signal, Stopping, handler
<1>1. ProcessOK' /\ PlacesOK'
  BY DEF TypeOK, ProcessOK, PlacesOK, InTx, Migrated
<1>2. GraceHonoured' /\ GraceKept'
  BY DEF GraceHonoured, GraceKept
<1> QED
  BY <1>1, <1>2, QuietKeeps

LEMMA TickKeeps ==
  ASSUME IInv, Tick
  PROVE  IInv'
<1> USE LifeAssumption DEF IInv, Tick, handler
<1>1. waited \in Nat /\ waited' \in Nat /\ waited' > waited /\ waited' <= Patience
  BY DEF TypeOK, ProcessOK
<1>2. ProcessOK' /\ PlacesOK'
  BY <1>1 DEF TypeOK, ProcessOK, PlacesOK, InTx, Migrated
<1>3. GraceHonoured' /\ GraceKept'
  BY <1>1 DEF GraceHonoured, GraceKept
<1> QED
  BY <1>2, <1>3, QuietKeeps

LEMMA StopKeeps ==
  ASSUME IInv, StopServing
  PROVE  IInv'
<1> USE DEF IInv, StopServing, Stopping, handler
<1>1. ProcessOK' /\ PlacesOK'
  BY DEF TypeOK, ProcessOK, PlacesOK, InTx, Migrated
<1>2. GraceHonoured'
  BY DEF GraceHonoured
<1>3. GraceKept'
  BY LifeAssumption DEF GraceKept, ShutdownReturns, TypeOK, ProcessOK
<1> QED
  BY <1>1, <1>2, <1>3, QuietKeeps

LEMMA CrashKeeps ==
  ASSUME IInv, Crash
  PROVE  IInv'
<1>1. disturbed' \in BOOLEAN /\ faults' \in 0..MaxFaults
  BY LifeAssumption DEF IInv, TypeOK, HistoryOK, Crash, Fault
<1> QED
  BY <1>1, ExitKeeps DEF Crash

LEMMA LeaveKeeps ==
  ASSUME IInv, Leave
  PROVE  IInv'
BY ExitKeeps DEF Leave, IInv, TypeOK, HistoryOK

LEMMA IdleKeeps ==
  ASSUME IInv, UNCHANGED vars
  PROVE  IInv'
<1>1. UNCHANGED <<file, work, process, handler, history, disturbed, faults>>
  BY DEF vars
<1>2. ProcessOK' /\ PlacesOK' /\ GraceHonoured' /\ GraceKept'
  BY <1>1 DEF IInv, TypeOK, ProcessOK, PlacesOK, GraceHonoured, GraceKept,
              process, handler
<1> QED
  BY <1>1, <1>2, QuietKeeps DEF process

----------------------------------------------------------------------------
(* The invariant.                                                          *)

LEMMA InitIInv ==
  ASSUME Init
  PROVE  IInv
<1> USE DEF Init
<1>1. file \in File /\ file.users_old = NoTable
      /\ (file.users # NoTable => Numbered(file.users))
  BY LifeAssumption
<1>2. kept \in Rows
  BY <1>1, TablesOK, EmptyOK DEF StoredRows, NoRows, Rows
<1>3. want \in [ServerIDs -> Links \cup {NoServer}] /\ LinksKept
  <2>1. CASE file.servers = NoTable
    BY <2>1 DEF Wanted, LinksKept
  <2>2. CASE file.servers # NoTable
    <3>1. /\ FillLinks(file) \in File /\ FillLinks(file).servers # NoTable
          /\ \A s \in ServerIDs :
               FillLinks(file).servers.links[s] =
                 IF /\ HasColumn(file, "subscription_path")
                    /\ file.servers.links[s] = Blank
                 THEN Legacy ELSE file.servers.links[s]
      BY <1>1, <2>2, FillLinksOK
    <3>2. want = FillLinks(file).servers.links
      BY <2>2 DEF Wanted
    <3>3. want \in [ServerIDs -> Links \cup {NoServer}]
      BY <3>1, <3>2, TablesOK
    <3>4. LinksKept
      BY <2>2, <3>1, <3>2 DEF LinksKept, Migrated
    <3> QED
      BY <3>3, <3>4
  <2> QED
    BY <2>1, <2>2
<1>4. TypeOK
  <2>0. gone \subseteq IDs /\ disturbed \in BOOLEAN /\ faults \in 0..MaxFaults
    <3>1. gone = {} /\ disturbed = FALSE /\ faults = 0 /\ MaxFaults \in Nat
      BY LifeAssumption
    <3>2. disturbed \in BOOLEAN
      BY <3>1, Zenon
    <3> HIDE DEF Init
    <3> QED
      BY <3>1, <3>2
  <2>1. FilesOK /\ HistoryOK
    BY <1>1, <1>2, <1>3, <2>0 DEF FilesOK, HistoryOK
  <2>2. ProcessOK
    BY LifeAssumption DEF ProcessOK, Configs
  <2>3. PlacesOK
    BY DEF PlacesOK, InTx, Migrated
  <2> QED
    BY <2>1, <2>2, <2>3 DEF TypeOK
<1>5. TableKept /\ GoneNumbered /\ IdsStayRetired
  BY <1>1 DEF TableKept, GoneNumbered, IdsStayRetired
<1>6. WorkKept /\ Progress
  BY DEF WorkKept, Progress, InTx, Migrated
<1>7. GraceHonoured /\ GraceKept
  BY DEF GraceHonoured, GraceKept
<1> QED
  BY <1>3, <1>4, <1>5, <1>6, <1>7 DEF IInv

LEMMA StepIInv ==
  ASSUME IInv, [Next]_vars
  PROVE  IInv'
BY LaunchKeeps, StartKeeps, HandlerKeeps, SignalKeeps, TickKeeps, StopKeeps,
   LeaveKeeps, CrashKeeps, IdleKeeps DEF Next

\* The inductive invariant holds: the file at rest is whole, the
\* transaction under way has what its next statement needs, and whoever is
\* under way when the database closes had its time.
THEOREM InvariantHolds == Spec => []IInv
<1>1. Init => IInv
  BY InitIInv
<1>2. IInv /\ [Next]_vars => IInv'
  BY StepIInv
<1> QED
  BY <1>1, <1>2, PTL DEF Spec

\* Every variable keeps its shape; a transaction is open exactly during the
\* rebuild of initSchema, and handlers run only while main serves or stops.
THEOREM TypeCorrect == Spec => []TypeOK
<1>1. IInv => TypeOK
  BY DEF IInv
<1> QED
  BY <1>1, InvariantHolds, PTL

\* initSchema: no user is lost or renumbered by a start, whatever file it
\* meets and wherever an earlier one was cut off.
THEOREM UsersSafe == Spec => []StoredUsersSurvive
<1>1. IInv => StoredUsersSurvive
  <2> SUFFICES ASSUME IInv, up \in Migrated
               PROVE  /\ file.users # NoTable /\ file.users_old = NoTable
                      /\ file.users.rows = kept /\ ~file.users.unique
    BY DEF StoredUsersSurvive
  <2>1. up \notin {"down", "users"}
    BY DEF Migrated
  <2> QED
    BY <2>1 DEF IInv, Progress, TableKept, StoredRows
<1> QED
  BY <1>1, InvariantHolds, PTL

\* initSchema: the legacy path never replaces a link that was typed, and a
\* start cut off before the links were made does not lose them.
THEOREM LinksSafe == Spec => []LinksSurvive
<1>1. IInv => LinksSurvive
  BY DEF IInv, LinksKept, LinksSurvive, Progress, Migrated
<1> QED
  BY <1>1, InvariantHolds, PTL

\* main: the database closes, and the process ends, only after every
\* handler has answered or the 15 seconds of Shutdown are over.
THEOREM GraceSafe == Spec => []GraceHonoured
<1>1. IInv => GraceHonoured
  BY DEF IInv
<1> QED
  BY <1>1, InvariantHolds, PTL

\* AUTOINCREMENT: the id of a deleted user is not given out again, except by
\* the rebuild of a legacy table.
THEOREM IdsSafe == Spec => []IdsStayRetired
<1>1. IInv => IdsStayRetired
  BY DEF IInv
<1> QED
  BY <1>1, InvariantHolds, PTL
=============================================================================
