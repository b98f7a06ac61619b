------------------------------- MODULE Panel -------------------------------
(***************************************************************************)
(* One 3x-ui panel, as internal/xui/client.go uses it.  The panel is not   *)
(* part of the repository: what it accepts is read off the calls the       *)
(* client makes (list, addClient, updateClient/{uid},                      *)
(* {inbound}/delClient/{uid}) and the one refusal the service recognises,  *)
(* "Duplicate email".                                                      *)
(*                                                                         *)
(* The API names a client by its inbound and UID, so a panel's content is  *)
(* a table of cells, each empty or holding one client.  Of a client the    *)
(* properties tell apart the e-mail (3x-ui's name for the user), the       *)
(* subscription id and the enable flag; flow, limits, expiry, Telegram id  *)
(* and timestamps are carried along unchanged by the service and left out. *)
(***************************************************************************)
CONSTANTS
  Inbounds,   \* inbound ids that exist on a panel
  UIDs,       \* client UIDs
  Emails,     \* client e-mails
  SubIDs,     \* subscription ids
  BlankSub,   \* the blank subscription id
  DefaultSub, \* xui.defaultSub, sent in place of a blank id
  NoClient    \* an empty cell

Client == [email : Emails, sub : SubIDs, enable : BOOLEAN]

ASSUME SubAssumption == BlankSub \in SubIDs /\ DefaultSub \in SubIDs
ASSUME NoClientAssumption == NoClient \notin Client

Content == [Inbounds -> [UIDs -> Client \cup {NoClient}]]
EmptyContent == [i \in Inbounds |-> [x \in UIDs |-> NoClient]]

----------------------------------------------------------------------------
(* The three writing requests of the API. *)

Request(S) ==
  [kind : {"add", "update", "delete"}, server : S, inbound : Inbounds,
   uid : UIDs, client : Client \cup {NoClient}]

\* toAPIClient: the subscription id falls back to a built-in default.
ToAPIClient(c) == [c EXCEPT !.sub = IF @ = BlankSub THEN DefaultSub ELSE @]

\* Mutant: every upsert is an addClient.
AddRequest(s, i, listed, x, c) ==
  [kind |-> "add", server |-> s, inbound |-> i, uid |-> x,
   client |-> ToAPIClient(c)]

\* UpsertClient decides between addClient and updateClient by the listing
\* it was given, which may be out of date when the request arrives.
UpsertRequest(s, i, listed, x, c) ==
  [kind |-> IF listed[i][x] # NoClient THEN "update" ELSE "add",
   server |-> s, inbound |-> i, uid |-> x, client |-> ToAPIClient(c)]

DeleteRequest(s, i, x) ==
  [kind |-> "delete", server |-> s, inbound |-> i, uid |-> x,
   client |-> NoClient]

----------------------------------------------------------------------------
(* The panel's side. *)

\* E-mails are unique over all inbounds of a panel.  Only an updateClient may
\* keep the e-mail its own cell already has: a second addClient of the same
\* client is a duplicate too.
EmailTaken(content, r) ==
  /\ r.kind # "delete"
  /\ \E j \in Inbounds, y \in UIDs :
       /\ r.kind = "update" => <<j, y>> # <<r.inbound, r.uid>>
       /\ content[j][y] # NoClient
       /\ content[j][y].email = r.client.email

\* addClient needs a free cell, the other two an occupied one.
Accepts(content, r) ==
  /\ ~EmailTaken(content, r)
  /\ (r.kind = "add") <=> (content[r.inbound][r.uid] = NoClient)

Written(content, r) == [content EXCEPT ![r.inbound][r.uid] = r.client]
=============================================================================
