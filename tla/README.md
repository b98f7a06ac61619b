# 3xui-user-sync in TLA+

The program is one Go process: an administrator's web interface and a public
subscription endpoint over one SQLite file, acting on any number of remote
3x-ui panels through their HTTP API.  There is no queue, no journal and no
background reconciliation: what is consistent between the database and the
panels is what the HTTP handlers leave behind, and handlers run concurrently
without any lock between them.  That is what this project models.

## The system

| component | code | state | operations |
|---|---|---|---|
| user operations | `internal/app/service.go`, handlers in `internal/app/web.go` | none of its own; works on the tables and the panels; each handler keeps a user row and panel listings on its stack | `CreateUser`, `UpdateUser`, `DeleteUser`, `ToggleUserInbound`, `RecreateUserInbound`, `FetchServerStatuses` |
| server registry | `service.go`, `store/repositories.go`, the servers page in `web.go` | the `servers` table; pages in browsers | `CreateServer`, `UpdateServer`, `DeleteServer` |
| tables | `internal/store` | `users` and `servers`, UNIQUE username and UID, AUTOINCREMENT ids | repository calls; `migrate` at start |
| 3x-ui panel | external, seen through `internal/xui/client.go` | inbounds with clients; its own sessions | list, add, update, delete client; login |
| panel client | `internal/xui/client.go` | `authLoggedIn` behind a mutex, one cookie jar, shared by all handlers | `doJSON`, `doForm`, `ensureLogin` |
| subscription endpoint | `SubscriptionBundle`, `fetchServerSubscription`, `handleSubscription` | none | one request: fan out, join, merge |
| sessions | `internal/security/sessions.go`, cookie handlers in `web.go` | a map behind an RWMutex; cookies in browsers | `Create`, `Get`, `Touch`, `Delete` |
| lifecycle | `cmd/main.go`, `internal/app/app.go`, `store/sqlite.go` | the process, the database file | start with migrations, crash, graceful shutdown |
| crypto | `internal/security/crypto.go` | stored panel passwords | `Encrypt`, `Decrypt` |
| configuration | `internal/config` | none that changes | `Load` |
| pages, logging | the rest | none that changes | – |

How they interact: a handler calls the service, the service calls the
repositories and the panel client one call after the other; `FetchServerStatuses`
and `SubscriptionBundle` start one goroutine per server and wait for all of
them.  Handlers share the tables, the panels, the client's login map and cookie
jar, and the session map.

What is hard, and what makes each part correct:

* **User operations.**  Every call may fail or time out, and a request whose
  caller gave up may still arrive.  A handler acts on a row it read and a
  listing it fetched earlier; both may be stale.  The process may die between
  two calls.  Correct means: clients an administrator keeps by hand are never
  touched, no client appears without a stored user behind it or without a call
  that asked for it, a deleted row stays deleted and nobody is told it was
  updated, a conflict dialog has a client to blame, and "ok" means the work was
  done on every server that answered.
* **Panel client.**  Several callers meet the end of a session together and log
  in over each other; panels on one host share a cookie.  Correct means: a
  request takes effect at most once, "ok" is told only of a request that did,
  the end of a session nobody was using goes unnoticed, calls return, and their
  cost is bounded.
* **Subscription endpoint.**  Goroutines end in any order, servers fail, counters
  overflow.  Correct means that the answer is one function of what was served.
* **Sessions.**  Checks work on a copy made under a lock and judged outside it.
  Correct means: nobody is served past the session's end, and a removed session
  does not come back.
* **Server registry.**  A dialog posts the id it was rendered with, however old
  its page; an update reads the row and writes it back in two statements.
  Correct means: a dialog reaches the server it shows or none, a blank password
  field keeps a password the row really had, and "server updated" is true.
* **Lifecycle and tables.**  Every start migrates the file, most statements
  commit one by one, and the process may die between any two.  Correct means:
  no user and no typed link is lost, ids of deleted users stay retired, a start
  gets past what an earlier one left half done, and a signal ends the process,
  but not before its handlers had their time.

`PROJECT.json` lists the hazards one by one, at their lines, with the properties
that would catch them, and says where the code has no defence.

## Modules

| module | models | checked by |
|---|---|---|
| `Panel` | the content of a 3x-ui panel and its three writing requests | through `UserSync` |
| `UserSync` | the five user operations of concurrent handlers | `MCUserSync`, five configurations |
| `UserSync_proofs` | theorems about the states of `UserSync` | TLAPS |
| `UserSyncSteps_proofs` | theorems about its steps: what a step may never do, what "ok" promises | TLAPS |
| `RemoteCall` | abstract: what a call to a panel promises | refined by `PanelClient` |
| `PanelClient` | the shared panel client | `MCPanelClient`, two configurations |
| `PanelClient_proofs` | theorems, the refinement among them | TLAPS |
| `SubscriptionData` | rows, counters and their arithmetic | through `Subscription` |
| `SubscriptionSpec` | abstract: the answer as a function of what was served | refined by `Subscription` |
| `Subscription` | goroutines, wait group and merging loop | `MCSubscription`, two configurations |
| `SubscriptionData_proofs` | lemmas about numbers, folds, words, text lines and sums | TLAPS |
| `Subscription_proofs` | theorems about `Subscription`, the refinement among them | TLAPS |
| `SessionStore` | the session map, its users, the clock | `MCSessionStore` |
| `SessionStore_proofs` | theorems about `SessionStore` | TLAPS |
| `ServerRegistry` | the servers table, its administration and the page it is done from | `MCServerRegistry` |
| `ServerRegistry_proofs` | theorems about `ServerRegistry` | TLAPS |
| `Migration` | the database file and each statement of `migrate`, as functions | through `Lifecycle` |
| `Lifecycle` | launch, migration, service, signal, shutdown, crash | `MCLifecycle` |
| `Lifecycle_proofs` | theorems about `Lifecycle` | TLAPS |

`UserSync` does not go into the panel client: a panel call there is one step
with the outcomes accepted, refused, lost, applied with the reply lost, or still
on its way.  `RemoteCall` states the part of that which the client has to
deliver (at most one effect, "ok" only with it), and `PanelClient` is shown to
implement it.  In the same way `UserSync` sees an edit of a server as a change of
its state, `PanelClient` as a change of its credentials, and `ServerRegistry`
models the edit itself; `Lifecycle` reduces a handler to its one database write,
and `UserSync` has what comes before it.

### UserSync and the code

`pc[w]` is where handler `w` is, `job[w]` its local variables (operation, row
read, form, inbound, enable flag, ticked boxes, result so far), `snap[w]` and
`status[w]` the listings and their outcomes, `done[w]` the turns of its loop
already made.  Each database call and each panel call is one step; everything
between two calls belongs to the step before.  The one exception is `Reload`:
the two reads of `loadUsersPage` are one step, since what they return is only
shown.

A panel (`Panel`) keeps e-mails unique over all its inbounds.  Only an
updateClient may keep the e-mail its own cell has; a second addClient of the
same client is answered "Duplicate email" like any other.  A server is `new`
until it is created, then active or inactive, and absent once deleted; ids are
not given out twice.

| action | code |
|---|---|
| `CreateUser`, `ReadCreated`, `NextSelection`, `CreateReturns` | `Service.CreateUser`: insert, the row read back, loop over the ticked inbounds in map order, joined errors |
| `ToggleUserInbound`, `RecreateUserInbound`, `UpdateUser`, `DeleteUser` | each up to `users.GetByID` |
| `ReadServer`, `ListInbounds`, `ApplyState` | `setUserInboundState` |
| `ReadServer`, `ListInbounds`, `EvictOne`, `Readd` | `RecreateUserInbound` |
| `ListServers`, `Fetch` | `FetchServerStatuses` |
| `PushOne`, `CommitUpdate` | the loop and the UPDATE of `UpdateUser` |
| `PurgeOne`, `CommitDelete` | the loop and the DELETE of `DeleteUser` |
| `Reload`, `Refetch`, `Render` | the end of `handleUserToggle` and `handleUserRecreate`: `loadUsersPage` with a second fan-out, HTTP 500 if it fails, else the page with the result, the conflict dialog among them |
| `EditServer` | the server registry as the user operations see it: a server is created, switched or deleted |
| `ApplyLate` | a request that outlived its caller |
| `Restart` | the process dies and comes back |

Loops over a listing may take their turns in any order; 3x-ui fixes none.  A
client on a panel is its e-mail, subscription id and enable flag; other fields
are carried along by the code and left out.  `known` is history: the UIDs that
ever had a row.

### PanelClient and the code

`authLoggedIn` and `jar` are the two shared maps; `live` says which panels would
accept the cookie they gave out last.  `SiteOf` maps a base URL to what its
cookie is kept under: two ports of one host are one site.  `CheckLogin` and
`Mark` are the two critical sections of `ensureLogin`, `Login` one turn of its
loop over the login paths, `Send` and `Receive` the two halves of `sendJSON` or
`sendForm`, `Clear` the critical section of the 401 branch.  Panels differ in
whether their credentials are right and in whether they refuse with a 401 the
client can decode; a body that is not JSON is an error before the status is
looked at.  `creds[p]` is whether the credentials ever stored for `p` are right,
the old ones included: a handler calls with those it read, so several are in use
after an edit (`Reconfigure`).  The client keys its mark by base URL alone.

### Subscription and the code

`ListServers` is `servers.List` and the start of the goroutines, `FetchOne` and
`FetchFails` the end of `fetchServerSubscription`, `Join` is `wg.Wait`,
`MergeOne` one turn of the merging loop, `ReplyMerged` the answer.  `Gathered` is
what the abstract specification is told of the fetches: the outcomes of the
servers in the table, known once the table has been read.  Words have three bits in the instance (`Half = 4`), 64 in the program.

### SessionStore and the code

Each critical section of the store is a step: `Store` (`Create`), `Get` (the
read under the lock), `CheckExpiry` and `CheckIdle` (two readings of the clock
on a copy), `Drop`, `Touch`, `Delete`.  `Tick` moves the clock between any two.
`Restart` empties the map and leaves the cookies.

### ServerRegistry and the code

A tab is a browser tab; `page[t]` is what its dialogs show, the servers by id,
each with its `birth`, which tells apart two servers that bear one id in turn.
`LoadPage` is `loadServersPage`; its second reading of the table for the panels'
state is left out.  `CreateServer` is the handler with `Encrypt` and the INSERT,
`ReadCreated` the SELECT that reads the new row back, `UpdateServer` the first statement of `Service.UpdateServer` and the row it puts
together, `CommitServer` its UPDATE, `DeleteServer` the DELETE.  `seen[t]` is
history: the passwords the row has had since the handler read it.

### Migration, Lifecycle and the code

`file` is all that outlives the process.  `up` is where `main` is: a label for
each statement of `migrate` and of
`migrateUsersTableAllowDuplicateSubscriptionID`, then `router`, `serving`,
`draining` (after the signal), `closing` (main returns, `App.Close` runs).
`Execute` is one statement that commits by itself, `ExecuteTx` one of the
rebuild, which works on `work` until `CommitRebuild`; each may fail, which ends
the process.  `Launch` is `config.Load`; a configuration is good, refused, or
accepted and fatal to `Router` ("/" as the subscription path is registered
twice).  `kept`, `want` and `gone` are history: the users and links that answered
writes add up to, and the deleted ids.

| `up` | statement |
|---|---|
| `users`, `servers` | the two CREATE TABLE IF NOT EXISTS |
| `url`, `active` | the two ALTER TABLE, a duplicate column tolerated |
| `inspect` | the query of `sqlite_master`, BEGIN |
| `rename`, `create`, `copy`, `drop`, `commit` | the rebuild of `users` |
| `fill` | UPDATE of the blank links from the legacy column |

## What the runs check

| run | question | bounds |
|---|---|---|
| `UserSync_seq` | what does "ok" promise, with one handler at a time: `DeleteIsComplete`, `UpdateReachesAll`, `ToggleIsEffective`, `RecreateIsExclusive`, `CreateGrantsAll` | two servers, two inbounds each and one that is gone, two users, four operations, one fault or restart |
| `UserSync_conc` | what stays true with two handlers and late requests: `ForeignUntouched`, `StaleDataHarmless`, `NoUnownedClients`, `OnlyGrantsCreateClients`, `DeletedRowsStayDeleted`, `ConflictExplained`, `AnsweredMeansStored` | one server, two users, four operations, one fault; handlers counted up to exchange |
| `UserSync_live` | does every handler answer: `HandlersReturn` | two handlers, two servers of which one is still to be created, two operations, two faults, one edit of a server |
| `UserSync_purge` | *violated:* does a delete reach all reachable servers? | one operation after another, one fault |
| `UserSync_conflict` | *violated:* does a conflict mean another inbound? | no faults |
| `Subscription_merge` | is the answer the promised function of what was served, and does it come | up to three servers, three bodies, three headers |
| `Subscription_active` | *violated:* are only active servers asked? | the same |
| `SessionStore` | `ServedInTime`, `RemovedStaysRemoved`, `TouchOnlyMovesSeen` | two requests, two ids, lifetimes 2 and 3, idle time 1, clock to 4 |
| `PanelClient_safe` | `KeepsContract`, `SixRequestsAtMost`, `QuietExpiryIsHidden` | two callers, five panels, four calls, two faults, one expiry |
| `PanelClient_live` | do calls return: `CallsReturn` | two calls, one fault, one expiry |
| `Lifecycle` | `StoredUsersSurvive`, `LinksSurvive`, `IdsStayRetired`, `GraceHonoured`, `UndisturbedStartServes`, `SignalEnds` | no file or one of three kinds, three user ids, two servers, two handlers, two faults, grace 2 of 3 |
| `ServerRegistry` | `FormsReachShown`, `BlankKeepsPassword`, `UpdatedMeansStored` | two tabs, two ids, five requests, one fault |

Why the bounds are enough to be of interest.  Four operations are what the
longest stories need: create, toggle on, then two that meet.  Two handlers
suffice for every stale read, since a handler meets one commit or one panel
write of somebody else between two of its calls.  The panels are seeded with a
client of somebody else's, a client under a foreign UID that bears a user's name
and a client under a UID a user may be given, so that duplicates, evictions and
adoptions occur at once.  For the panel client the five panels are one of each
kind: sound, two that share a host, one with wrong credentials, one that refuses
with a page; two callers meet in every order, and a second fault is needed to
lose both a login and a request.  In `Subscription` a word of three bits makes
every pair of headers overflow in some order, and three servers are the first
case in which a running sum overflows and comes back.  In `SessionStore` the
clock reaches past every lifetime with a session created one tick late.

In `Lifecycle` the files are the absent one, two legacy ones (before and after
the new columns) and a recent one, all with a deleted user of the largest id,
which is what a rebuild forgets; two faults cut off two starts at any two
statements, and the process is launched any number of times.  In
`ServerRegistry` two ids let a server be deleted and another be created in its
place, and five requests are create, delete, create and an edit or two by the
tab that has not looked since.

The two handlers of `UserSync_conc` are interchangeable: no constant and no
property names one of them, so the run declares them symmetric.  It checks
safety only; `UserSync_live` declares no symmetry.

`ConflictExplained` says what a conflict dialog is owed.  A client of that
server bears the user's name, and if that is the very cell that was asked for,
it was empty in the listing: another handler or a late request filled it since.
So two toggles that add one user one after the other do meet the dialog, as they
do in the program.  `ConflictIsAnotherInbound`, which is what the dialog tells
the administrator, is stronger and violated.

`AnsweredMeansStored` looks at the other end of an update or a delete: the
answer "user updated" or "user deleted" is given only when the statement met the
row, so of two deletes of one user one is told the row was not found.

`UserSync_seq` sets `Delays` to FALSE: the promises of "ok" are made for a
handler that is alone, and a late request is another actor.  With two handlers
they do not hold, and the code claims nothing of the kind.

`QuietExpiryIsHidden` carries a history variable, `excused`.  A caller is
excused when one of its own messages was lost, when the session ends while it is
calling, or when it starts while others are still in such trouble with the same
panel: a mark set before the session ended can be restored by a slow caller, and
the next one to trust it spends its only retry.  Without the excuse for late
joiners the property is false; with it the property says that a session which
ended while nobody called is never noticed.

### Fairness

`UserSync`: weak fairness of each handler's `Step`.  Every call a handler makes
ends, a panel call at the latest by `REQUEST_TIMEOUT` of the HTTP client, a
statement on the local database file by itself, and Go's scheduler lets each
goroutine run.  Nothing is assumed of the arrival
of requests, of late requests, of edits or of faults.  `PanelClient`: the same
for each caller; the mutex is held for a map access only.  `Subscription`: weak
fairness of the request's own work; `REQUEST_TIMEOUT` ends each fetch.
`Lifecycle`: weak fairness of `main`'s own steps and of the clock, none of the
handlers, of signals or of launches; `UndisturbedStartServes` asks nothing of a
start that meets a fault.  `SessionStore` and `ServerRegistry` have no liveness
property: their steps do not wait.

### Where the code and its documents part

* `UserSync_purge`: the confirmation promises deletion "from all reachable 3x-ui
  servers" (`web.go:696`).  When the servers table cannot be read the error is
  logged only (`service.go:171`) and the user is deleted locally alone.
* `UserSync_conflict`: the dialog says the user "already exists in another
  inbound" (`web.go:644`); every refusal for a duplicate e-mail is reported so
  (`service.go:311`), also one caused by a client in the very inbound: a namesake,
  or the user's own, added since the listing was fetched.
* `Subscription_active`: the README speaks of "active remote subscriptions"
  (`README.md:45`); `SubscriptionBundle` asks inactive servers, too.

## What is proved

For every value of the constants that meets the named assumptions
(`SubAssumption`, `NoClientAssumption`, `UserAssumption`, `SessionAssumption`,
`ClientAssumption`, `RegistryAssumption`, `FileAssumption`, `LifeAssumption`,
`WordAssumption`, `RowAssumption`, `TableAssumption`, `ServedAssumption`):

* `UserSync_proofs`: `TypeCorrect`, `ForeignSafe`, `StaleDataSafe`, `OwnedSafe`.
  `ForeignUntouched` is not inductive by itself: a handler evicts what its
  listing shows, and a late request is sent long before it arrives.  `IInv` adds
  that listings show foreign cells as they are (`ListingsHarmless`), that no
  late request names one (`LateHarmless`), and, for `NoUnownedClients`, that
  rows, jobs and late additions only bear known UIDs.  Every panel call then
  comes down to one lemma, `CallSafe`: a request that names no foreign cell and
  adds only known UIDs keeps all of it, whether it is applied now, later or
  never.
* `UserSyncSteps_proofs`, for any number of handlers: `DeletedSafe`,
  `GrantsSafe`, `ConflictSafe`, `AnswersStored`.  `GrantsSafe` and
  `AnswersStored` need `Purposeful`: whoever evicts is recreating, and so
  enabling, and a delete has no form.
  `ConflictSafe` rests on the panel's refusal alone: an update is not refused for
  its own cell, and an add is sent only for a cell listed empty.
  `AnswersStored` follows an "ok" back to the only step that can give it.  For
  `GrantsSafe`, a cell is filled only by an addClient, and
  `UpsertRequest` is an addClient only for a cell listed empty, which no loop of
  an update has.
* `UserSyncSteps_proofs`, the promises of "ok": `DeletesComplete`,
  `UpdatesReachAll`, `TogglesEffective`, `RecreatesExclusive`, `CreatesGrantAll`.
  They carry one hypothesis, `Alone`: one handler, and no request that outlives
  its timeout.  Servers, inbounds, users, operations, faults, restarts and edits
  of the servers table are any number.  Without `Alone` the promises are false
  (another handler undoes what this one did before it answers).  The inductive
  invariant, `Undisturbed`, says for each place of a handler how the panels
  differ from the listing it works from: not at all where one inbound is judged
  (`Current`), by the clients already evicted while a server is cleared
  (`Cleared`), by the clients already rewritten or deleted in a fan-out
  (`Visited`), for a create, that every box tried so far but the current one
  holds the user unless an error was noted (`Granted`), and, while a toggle or a
  recreation loads its page (`Loading`), that what it did is still so; `Places` says which
  operation may be where, and that `done` and `status` start out empty, without
  which a loop would count the turns of an earlier one.  `WhoSucceeds` then names
  the only step that can answer "ok" for each operation.
* `SessionStore_proofs`: `TypeCorrect`, `ServedSafe`, `RemovedSafe`, `TouchSafe`.
  `IInv` adds that nothing lies in the future, that what passed the first check
  had not expired when the request arrived, and that ids waiting to be stored
  are fresh; without the last a session could return under an old id.
* `PanelClient_proofs`: `TypeCorrect`, `RequestsBounded`, and `ContractKept`, the
  refinement of `RemoteCall`: initial states map to initial states, each step to
  `Call`, `Apply`, `Return` or a stutter.  `Effects` ties the answer on its way
  to the effect, which is why a 401 may be followed by a second request;
  `Spent` counts the requests of each round of logins.
* `PanelClient_proofs`: `QuietExpirySafe`.  Of a caller that has nothing to blame
  (`Blameless`) the invariant `Renewed` says that whoever is about to mark its
  panel has a live session there, and that after its own second login the mark is
  true; so a second 401 cannot reach it.  This is inductive only because a caller
  that joins others in trouble is excused: a late mark made by one of them would
  break it.  `OwnCookie` is what a sound panel is about: its session can end, but
  its cookie is never overwritten.
* `Subscription_proofs`: `TypeCorrect`, `SumsSafe`, and `PromiseKept`, the
  refinement of `SubscriptionSpec`.  The specification states the answer by sums
  and maxima over sets, the loop computes it turn by turn over slots filled in any
  order.  `IInv` adds to the types what is where at each place (`Control`), that
  every slot holds what its server served, or is still waiting (`Fetched`), that
  the merged part is the promised function of the servers already passed
  (`Merging`), and that an answer given is the promised one (`Replied`).
  `SumsAreExact` follows: sums modulo the word are the sum modulo the word, so a
  total that fits is exact, however often a running one overflowed.
* `SubscriptionData_proofs`: the lemmas below those.  The library's induction takes
  an operator as a parameter and is of no use here, so `Induction` states the
  principle for a set of numbers, proved from the well-foundedness of `<`;
  each fact about a fold (`FoldDefined`, `SplitType`, `FlatType`, `SumDefined`,
  `SumGrows`) is an induction over the set of lengths for which it holds.
* `ServerRegistry_proofs`: `TypeCorrect`, `FormsSafe`, `PasswordSafe`,
  `UpdatedSafe`.  `IInv` adds that every id a page or a job knows has been given
  out (`Ages`), so that no later server can be born under it, and that it still
  means the same birth (`Identities`); `KeptSeen` follows a kept password through
  the edits of other tabs.
* `Lifecycle_proofs`: `TypeCorrect`, `UsersSafe`, `LinksSafe`, `GraceSafe`,
  `IdsSafe`.  `StoredUsersSurvive` speaks of serving processes; `IInv` says what
  the file holds meanwhile (`TableKept`: complete and numbered at rest, never
  half rebuilt), what each statement of the rebuild finds in the transaction
  (`WorkKept`), what the start has achieved by the time it is where it is
  (`Progress`), and that a link that is not yet as wanted can still be made
  (`LinksKept`).  `GraceKept` says that whoever is under way at the close had its
  time, `GoneNumbered` that deleted ids lie below the AUTOINCREMENT counter.
  Each statement has a lemma of its own, and so has the end of the process from
  wherever it is (`ExitKeeps`).  That `MaxUsed` is the largest id in use is
  proved from the well-foundedness of the numbers.

The assumptions ask for types, for the special values to be none of the ordinary
ones, and for what the configuration checks: an idle time no longer than the
lifetime, at least one login path.  `TableAssumption` and `ServedAssumption` ask
that a servers table is a finite list and that what a server may serve has the
shape of an HTTP answer; `WordAssumption` that a word has a sign bit.

Model-checked only: liveness (`HandlersReturn`, `RequestsAnswered`,
`CallsReturn`, `UndisturbedStartServes`, `SignalEnds`), which rests on fairness
and ENABLED and is out of the prover's reach.  Every invariant and every action
property of the passing runs, and both refinements, are theorems.

## What is not modelled

* Base URLs are compared as typed: `https://host` and `https://host/` are two
  rows for one panel, which the client trims to one.  In `UserSync` a server is
  its panel.
* Two processes on one file; the PRAGMAs; the types and NOT NULL constraints of
  columns only a legacy file has.
* `UserSync`'s `Restart` keeps the AUTOINCREMENT counter, as every restart does
  except the one that rebuilds a legacy table (`IdsStayRetired`).
* The nonce of encrypted passwords, and a key that changes: it is a constant of
  the program.  A failing decryption is one of the faults a handler meets.
* Signing of cookies: a genuine cookie passes, others are not modelled.
* Rendering of pages, logging: no state that changes.  Of the configuration,
  the reading of single options; lifetimes and timeouts are constants.
* Flow, limits, expiry, Telegram ids of clients: carried along unread.  A client
  whose inbound has no UID for it (a protocol that names clients by a password)
  is listed with a blank one.  No user's UID is blank, so an update, a delete or a
  toggle passes it over, but `RecreateUserInbound` also matches by e-mail
  (`service.go:234`) and would ask the panel to act on a blank UID.  Such clients
  are left out, and what is proved of the evictions is for clients with a UID.

## Plan

Order of work, most important behaviour first; all but the last are done.

1. `Panel` and `UserSync`: the user operations; runs `UserSync_*`.
2. `UserSync_proofs`: type correctness, the foreign-client invariant.
3. `Subscription` against `SubscriptionSpec`.
4. `SessionStore` and its proofs.
5. `PanelClient` against `RemoteCall` and its proofs.
6. `UserSyncSteps_proofs`: the action properties of `UserSync`.
7. `ServerRegistry` and its proofs.
8. `Migration`: the file and the statements of a start.
9. `Lifecycle`, which composes it with service and shutdown, and its proofs.
10. Credentials edited under `PanelClient`.
11. `SubscriptionData_proofs` and `Subscription_proofs`: folds, sums, the
    refinement.
12. `UserSyncSteps_proofs`: the promises of "ok" for one handler;
    `PanelClient_proofs`: the quiet expiry.
13. Proofs: what of the promises of "ok" survives other handlers, stated per
    panel that nobody else writes to.
