--------------------------- MODULE MCSessionStore ---------------------------
(* The instance of SessionStore for TLC. *)
EXTENDS SessionStore, TLC

\* Requests and session ids have no names of their own.
Symmetric == Permutations(Requests) \cup Permutations(IDs)
=============================================================================
