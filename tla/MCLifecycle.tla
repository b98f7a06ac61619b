---------------------------- MODULE MCLifecycle -----------------------------
(* The instance of Lifecycle for TLC. *)
EXTENDS Lifecycle, TLC

CONSTANTS ann, bob, typed

Legacies == {s : s \in {{"subscription_path"},
                        {"subscription_path", "subscription_url"},
                        {"active", "subscription_url"}}}

\* No file; a legacy one whose last user was deleted, before and after the
\* servers table got its new columns; a recent one.
MCFiles ==
  {[users |-> NoTable, users_old |-> NoTable, servers |-> NoTable]}
  \cup
  {[users |-> [unique |-> l # {"active", "subscription_url"},
               rows |-> 1 :> ann @@ [u \in IDs |-> NoUser], seq |-> 2],
    users_old |-> NoTable,
    servers |-> [columns |-> l,
                 links |-> [s \in ServerIDs |->
                   IF s # 1 THEN NoServer
                   ELSE IF "active" \in l THEN typed ELSE Blank]]]
   : l \in Legacies}
=============================================================================
