--------------------------- MODULE LifecycleContract ---------------------------
(***************************************************************************)
(* What a host that polls the health endpoint may rely on.  One process    *)
(* enters "ready" at most once, and "healthy" at most once and only after  *)
(* it; "booting" marks a new process; "shutdown" may come at any moment,   *)
(* and lasts as soon as no state is left to enter.  "degraded" is never    *)
(* seen.  It is weaker than the order the comment at the top of            *)
(* lifecycle.go gives, which the code does not keep.                       *)
(***************************************************************************)
VARIABLES
  up,     \* is the process alive?
  state,  \* what Health() reports
  left    \* the states it may still enter besides shutdown

vars == <<up, state, left>>

TypeOK ==
  /\ up \in BOOLEAN
  /\ state \in {"booting", "ready", "healthy", "shutdown"}
  /\ left \in {{}, {"ready"}, {"healthy"}}

Init == up = TRUE /\ state = "booting" /\ left = {"ready"}

Ready ==
  /\ "ready" \in left
  /\ state' = "ready"
  /\ left' = {"healthy"}
  /\ UNCHANGED up

Healthy ==
  /\ "healthy" \in left
  /\ state' = "healthy"
  /\ left' = {}
  /\ UNCHANGED up

(* A pending write may still follow.                                       *)
Shut ==
  /\ up
  /\ state' = "shutdown"
  /\ left' \in {left, left \ {"healthy"}}
  /\ UNCHANGED up

Crash ==
  /\ up
  /\ up' = FALSE
  /\ left' = {}
  /\ UNCHANGED state

Restart ==
  /\ ~up
  /\ up' = TRUE
  /\ state' = "booting"
  /\ left' = {"ready"}

Next == Ready \/ Healthy \/ Shut \/ Crash \/ Restart

Spec == Init /\ [][Next]_vars

=============================================================================
