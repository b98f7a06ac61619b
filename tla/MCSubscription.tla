--------------------------- MODULE MCSubscription ---------------------------
(* Instances of Subscription for TLC. *)
EXTENDS Subscription

CONSTANTS l1, l2, l3

Up == [url |-> "set", active |-> TRUE]
Off == [url |-> "set", active |-> FALSE]
NoURL == [url |-> "blank", active |-> TRUE]

Part(k, v) == [key |-> k, value |-> v]

\* An empty table, one server, several, one of them without a URL.
MCTables == {<<>>, <<Up>>, <<Up, NoURL, Up>>, <<Up, Off, Up>>}

\* Blank rows at the ends and between the links, and nothing at all.
MCBodies == {<<>>, <<Blank, l1, Blank, l2>>, <<l3, Blank>>}

\* Words of three bits, -4 .. 3: sums that overflow and come back, a value
\* too large for a word, repeated, unknown and malformed parts.
MCHeaders ==
  {<<Part("upload", 3), Part("expire", 2)>>,
   <<Part("upload", 3), Part("upload", -3), Part("other", 1),
     Part("download", Junk)>>,
   <<Part("total", 9), Part("upload", 1), Part("download", 2),
     Part("expire", -1)>>}
=============================================================================
