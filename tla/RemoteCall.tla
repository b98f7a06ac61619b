----------------------------- MODULE RemoteCall -----------------------------
(***************************************************************************)
(* What a caller of internal/xui/client.go may rely on, and what the       *)
(* panel calls of UserSync are built on: a request takes effect at most    *)
(* once, while its caller waits, and the caller is told "ok" only of a     *)
(* request that did.  Whoever is told "error" knows nothing.               *)
(***************************************************************************)
CONSTANT Callers

VARIABLES
  state, \* per caller: idle, called or applied
  reply  \* what it was last told

vars == <<state, reply>>

Init ==
  /\ state = [c \in Callers |-> "idle"]
  /\ reply = [c \in Callers |-> "none"]

Call(c) ==
  /\ state[c] = "idle"
  /\ state' = [state EXCEPT ![c] = "called"]
  /\ reply' = [reply EXCEPT ![c] = "none"]

Apply(c) ==
  /\ state[c] = "called"
  /\ state' = [state EXCEPT ![c] = "applied"]
  /\ UNCHANGED reply

Return(c) ==
  /\ state[c] # "idle"
  /\ \E r \in {"ok", "error"} :
       /\ r = "ok" => state[c] = "applied"
       /\ reply' = [reply EXCEPT ![c] = r]
  /\ state' = [state EXCEPT ![c] = "idle"]

Next == \E c \in Callers : Call(c) \/ Apply(c) \/ Return(c)
Spec == Init /\ [][Next]_vars
=============================================================================
