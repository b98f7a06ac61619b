----------------------------- MODULE MCUserSync -----------------------------
(***************************************************************************)
(* Small instances of UserSync for TLC: what the panels hold beforehand,   *)
(* the selections of the create form and the servers table.                *)
(***************************************************************************)
EXTENDS UserSync, TLC

CONSTANTS i1, i2, gone, n1, n2, other, a, b, f, x1, x2, s1, s2

In(i, x, c) ==
  [j \in Inbounds |-> [y \in UIDs |-> IF j = i /\ y = x THEN c ELSE NoClient]]
With(content, i, x, c) == [content EXCEPT ![i][x] = c]

\* On the first panel somebody else's client, and a namesake: a client that
\* already bears the name n1 under a UID no local user has.
SeedForeign == [email |-> other, sub |-> x1, enable |-> FALSE]
SeedNamesake == [email |-> n1, sub |-> x1, enable |-> TRUE]

\* On the second the UID b, twice: a user to be adopted by typing the UID.
SeedAdopted == [email |-> n2, sub |-> x1, enable |-> FALSE]
SeedTwin == [email |-> other, sub |-> x1, enable |-> TRUE]

MCSeed ==
  [s \in Servers |->
     CASE s = s1 -> With(In(i1, f, SeedForeign), i2, f, SeedNamesake)
       [] s = s2 -> IF b \in UIDs
                    THEN With(In(i1, b, SeedTwin), i2, b, SeedAdopted)
                    ELSE EmptyContent]

AllActive == [s \in Servers |-> "active"]

\* The second server is yet to be added.
SecondToCome == [s \in Servers |-> IF s = s1 THEN "active" ELSE "new"]

\* Handlers are alike: no property tells one from another.
Alike == Permutations(Workers)

\* Nothing ticked, or one inbound on each server.
MCSelections == {{}, {<<s, i1>> : s \in Servers}}
=============================================================================
