-------------------------- MODULE MCServerRegistry --------------------------
(* The instance of ServerRegistry for TLC. *)
EXTENDS ServerRegistry, TLC

\* Tabs, base URLs and passwords have no order.
Symmetric ==
  Permutations(Tabs) \cup Permutations(Bases) \cup Permutations(Passwords)
=============================================================================
