----------------------------- MODULE Migration ------------------------------
(***************************************************************************)
(* The database file and the statements internal/store/sqlite.go runs on   *)
(* it at every start, each as a function from a file to a file.  SQLite    *)
(* itself is external: a statement outside a transaction is atomic and     *)
(* durable, a transaction takes effect as a whole or not at all.           *)
(*                                                                         *)
(* Of a user the username is kept, of a server the subscription link.      *)
(***************************************************************************)
EXTENDS Naturals

CONSTANTS
  Usernames, \* usernames
  MaxID,     \* bound: the largest id of a user
  ServerIDs, \* ids of servers
  Typed,     \* subscription links an administrator types
  Blank,     \* the empty link
  Legacy,    \* base URL with the legacy path appended
  NoUser,    \* no row
  NoServer,  \* no row
  NoTable    \* no such table

IDs == 1..MaxID
Links == Typed \cup {Blank, Legacy}
Columns == {"subscription_path", "subscription_url", "active"}
Rows == [IDs -> Usernames \cup {NoUser}]

\* unique: the legacy constraint on subscription_id; seq: the table's entry
\* in sqlite_sequence.
UsersTable == [unique : BOOLEAN, rows : Rows, seq : 0..MaxID]
ServersTable ==
  [columns : SUBSET Columns, links : [ServerIDs -> Links \cup {NoServer}]]

\* users_old exists in the middle of a rebuild only.
File ==
  [users : UsersTable \cup {NoTable}, users_old : UsersTable \cup {NoTable},
   servers : ServersTable \cup {NoTable}]

ASSUME FileAssumption ==
  /\ MaxID \in Nat
  /\ NoUser \notin Usernames
  /\ Blank # Legacy
  /\ NoServer \notin Links
  /\ NoTable \notin UsersTable /\ NoTable \notin ServersTable

NoRows == [u \in IDs |-> NoUser]
EmptyUsers == [unique |-> FALSE, rows |-> NoRows, seq |-> 0]

----------------------------------------------------------------------------
(* The statements that commit one by one. *)

\* CREATE TABLE IF NOT EXISTS users.
CreateUsers(f) ==
  IF f.users = NoTable THEN [f EXCEPT !.users = EmptyUsers] ELSE f

\* CREATE TABLE IF NOT EXISTS servers.
CreateServers(f) ==
  IF f.servers # NoTable THEN f
  ELSE [f EXCEPT !.servers =
          [columns |-> {"subscription_url", "active"},
           links |-> [s \in ServerIDs |-> NoServer]]]

HasColumn(f, c) == c \in f.servers.columns

\* ALTER TABLE servers ADD COLUMN; a row's link was read as blank before.
AddColumn(f, c) == [f EXCEPT !.servers.columns = @ \cup {c}]

\* Mutant: the links typed since are overwritten.
FillAllLinks(f) ==
  IF ~HasColumn(f, "subscription_path") THEN f
  ELSE [f EXCEPT !.servers.links =
          [s \in ServerIDs |-> IF @[s] = NoServer THEN NoServer ELSE Legacy]]

\* UPDATE servers: blank links only, and only while the legacy column is
\* there to build them from.
FillLinks(f) ==
  IF ~HasColumn(f, "subscription_path") THEN f
  ELSE [f EXCEPT !.servers.links =
          [s \in ServerIDs |-> IF @[s] = Blank THEN Legacy ELSE @[s]]]

----------------------------------------------------------------------------
(* The rebuild of the users table, in a transaction. *)

\* Mutant: whatever the schema says.
RebuildAlways(f) == TRUE

NeedsRebuild(f) == f.users.unique

RenameUsers(f) == [f EXCEPT !.users_old = f.users, !.users = NoTable]
CreateNewUsers(f) == [f EXCEPT !.users = EmptyUsers]

\* Explicit ids move AUTOINCREMENT to the largest of them and no further.
MaxUsed(rows) ==
  CHOOSE n \in 0..MaxID :
    /\ n = 0 \/ (n \in IDs /\ rows[n] # NoUser)
    /\ \A u \in IDs : rows[u] # NoUser => u <= n

CopyUsers(f) ==
  [f EXCEPT !.users =
     [unique |-> f.users.unique, rows |-> f.users_old.rows,
      seq |-> MaxUsed(f.users_old.rows)]]

DropOld(f) == [f EXCEPT !.users_old = NoTable]

----------------------------------------------------------------------------
(* The writes of a serving process that matter here. *)

\* Mutant: the next id is the one after the largest in use.
InsertAfterLargest(t, name) ==
  LET id == MaxUsed(t.rows) + 1
  IN [unique |-> t.unique, rows |-> [t.rows EXCEPT ![id] = name], seq |-> id]

InsertUser(t, name) ==
  LET id == t.seq + 1
  IN [unique |-> t.unique, rows |-> [t.rows EXCEPT ![id] = name], seq |-> id]

EraseUser(f, u) == [f EXCEPT !.users.rows[u] = NoUser]

NameFree(t, name) == \A u \in IDs : t.rows[u] # name

\* A row is at most as old as the counter.
Numbered(t) == \A u \in IDs : t.rows[u] # NoUser => u <= t.seq
=============================================================================
