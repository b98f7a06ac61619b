--------------------------- MODULE MCPanelClient ----------------------------
(* The instance of PanelClient for TLC. *)
EXTENDS PanelClient, TLC

CONSTANTS p1, p2, p3, p4, p5

\* p1 is sound, p2 and p3 are two ports of one host, p4 has the wrong
\* password, p5 sends its login page instead of a 401.
MCPanels == {p1, p2, p3, p4, p5}
MCSites == p1 :> 1 @@ p2 :> 2 @@ p3 :> 2 @@ p4 :> 3 @@ p5 :> 4
MCGood == MCPanels \ {p4}
\* The password stored for p1 is replaced, for better or for worse.
MCEdited == {p1}
MCRejecting == MCPanels \ {p5}
\* Callers have no names of their own.
Symmetric == Permutations(Callers)
=============================================================================
