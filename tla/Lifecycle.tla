------------------------------ MODULE Lifecycle ------------------------------
(***************************************************************************)
(* LifecycleManager (pkg/lifecycle.go) and every goroutine that moves it:  *)
(* Daemon.Run, the agentd poller (pkg/agentd.go), and one goroutine per    *)
(* shutdown request.  Transition accepts any state from any caller, so the *)
(* order of states is whatever the goroutines' interleaving makes of it.   *)
(*                                                                         *)
(* An agent status list is abstracted to the set of agents it reports as   *)
(* running.  The process may die at any step and the supervisor starts it  *)
(* again (Restart=always in flake.nix).                                    *)
(***************************************************************************)
EXTENDS Naturals

CONSTANTS
  Agents,       \* agent harnesses agentd manages
  Shutdowns,    \* goroutines started by shutdown requests
  SetsSender    \* does anybody call SetVsockSender?  The tests do, the daemon does not

ASSUME SenderAssumption == SetsSender \in BOOLEAN
ASSUME ThreadAssumption == {"run", "poller"} \cap Shutdowns = {}

VARIABLES
  runPc,      \* where Daemon.Run is
  state,      \* lm.state
  agents,     \* lm.agents
  pollPc,     \* where the poller is
  polled,     \* the list the poller's current poll returned
  actual,     \* agents that really run, known to agentd only
  shutPc,     \* where each shutdown goroutine is
  requested,  \* d.shutdownRequested is closed
  cancelled,  \* ctx is cancelled (SIGINT or SIGTERM)
  sender,     \* is lm.vsockSend set?
  pushing,    \* the envelope each goroutine has yet to hand to vsockSend
  heard       \* the state in the last envelope of this process the host got

lmVars   == <<state, sender, pushing>>
pollVars == <<pollPc, polled, agents>>
vars == <<runPc, state, agents, pollPc, polled, actual, shutPc, requested,
          cancelled, sender, pushing, heard>>

States  == {"booting", "ready", "healthy", "degraded", "shutdown"}
Threads == {"run", "poller"} \cup Shutdowns
NoState == "none"

RunPcs  == {"init", "listen", "serving", "select", "cleanup", "closing", "dead"}
PollPcs == {"off", "idle", "asked", "replace", "check", "promote"}
ShutPcs == {"none", "accepted", "stopping", "done"}

-----------------------------------------------------------------------------
Init ==
  /\ runPc = "init"
  /\ state = "booting"
  /\ agents = {}
  /\ pollPc = "off"
  /\ polled = {}
  /\ actual \in SUBSET Agents
  /\ shutPc = [s \in Shutdowns |-> "none"]
  /\ requested = FALSE
  /\ cancelled = FALSE
  /\ pushing = [t \in Threads |-> NoState]
  /\ sender = FALSE
  /\ heard = NoState

(* The embedding program hands over its callback, at any moment.           *)
SetVsockSender ==
  /\ SetsSender
  /\ runPc # "dead"
  /\ sender' = TRUE
  /\ UNCHANGED <<runPc, state, pushing, pollVars, actual, shutPc, requested, cancelled, heard>>

(* State and callback are taken under lm.mu; the envelope, if there is a   *)
(* callback, goes out after the unlock.                                    *)
Transition(t, s) ==
  /\ pushing[t] = NoState
  /\ state' = s
  /\ pushing' = IF sender THEN [pushing EXCEPT ![t] = s] ELSE pushing
  /\ UNCHANGED sender

Push(t) ==
  /\ pushing[t] # NoState
  /\ heard' = pushing[t]
  /\ pushing' = [pushing EXCEPT ![t] = NoState]
  /\ UNCHANGED <<runPc, state, sender, pollVars, actual, shutPc, requested, cancelled>>

(* Steps of Daemon.Run. *)

RunBoot ==
  /\ runPc = "init"
  /\ runPc' = "listen"
  /\ Transition("run", "booting")
  /\ UNCHANGED <<pollVars, actual, shutPc, requested, cancelled, heard>>

(* The listener exists; both servers and the poller start.                 *)
RunServe ==
  /\ runPc = "listen"
  /\ pushing["run"] = NoState
  /\ runPc' = "serving"
  /\ pollPc' = "idle"
  /\ UNCHANGED <<lmVars, polled, agents, actual, shutPc, requested, cancelled, heard>>

RunReady ==
  /\ runPc = "serving"
  /\ runPc' = "select"
  /\ Transition("run", "ready")
  /\ UNCHANGED <<pollVars, actual, shutPc, requested, cancelled, heard>>

(* Mutant: select without the shutdownRequested case.                      *)
RunWakeOnSignal ==
  /\ runPc = "select"
  /\ pushing["run"] = NoState
  /\ cancelled
  /\ runPc' = "cleanup"
  /\ UNCHANGED <<lmVars, pollVars, actual, shutPc, requested, cancelled, heard>>

RunWake ==
  /\ runPc = "select"
  /\ pushing["run"] = NoState
  /\ requested \/ cancelled
  /\ runPc' = "cleanup"
  /\ UNCHANGED <<lmVars, pollVars, actual, shutPc, requested, cancelled, heard>>

RunCleanup ==
  /\ runPc = "cleanup"
  /\ runPc' = "closing"
  /\ Transition("run", "shutdown")
  /\ UNCHANGED <<pollVars, actual, shutPc, requested, cancelled, heard>>

RunStep == RunBoot \/ RunServe \/ RunReady \/ RunWake \/ RunCleanup

-----------------------------------------------------------------------------
(* Steps of AgentdPoller.  The request is out between PollAsk and its      *)
(* answer; the list is local until PollReplace; the state is read by       *)
(* PollCheck and acted upon by PollPromote.                                *)

PollAsk ==
  /\ pollPc = "idle"
  /\ pushing["poller"] = NoState
  /\ pollPc' = "asked"
  /\ UNCHANGED <<runPc, lmVars, polled, agents, actual, shutPc, requested, cancelled, heard>>

(* Unreachable agentd, timeout, cancelled context, bad status or bad JSON. *)
PollFail ==
  /\ pollPc = "asked"
  /\ pollPc' = "idle"
  /\ UNCHANGED <<runPc, lmVars, polled, agents, actual, shutPc, requested, cancelled, heard>>

PollReply ==
  /\ pollPc = "asked"
  /\ pollPc' = "replace"
  /\ polled' = actual
  /\ UNCHANGED <<runPc, lmVars, agents, actual, shutPc, requested, cancelled, heard>>

(* Mutants: UpdateAgentStatus for each agent of the list, which never      *)
(* removes one; and hasRunning over the list that is being replaced.       *)
PollMerge ==
  /\ pollPc = "replace"
  /\ agents' = agents \cup polled
  /\ pollPc' = IF polled # {} THEN "check" ELSE "idle"
  /\ UNCHANGED <<runPc, lmVars, polled, actual, shutPc, requested, cancelled, heard>>

PollReplaceLate ==
  /\ pollPc = "replace"
  /\ agents' = polled
  /\ pollPc' = IF agents # {} THEN "check" ELSE "idle"
  /\ UNCHANGED <<runPc, lmVars, polled, actual, shutPc, requested, cancelled, heard>>

(* ReplaceAgentStatuses, then hasRunning over the local list.              *)
PollReplace ==
  /\ pollPc = "replace"
  /\ agents' = polled
  /\ pollPc' = IF polled # {} THEN "check" ELSE "idle"
  /\ UNCHANGED <<runPc, lmVars, polled, actual, shutPc, requested, cancelled, heard>>

(* Mutants: no look at the state; any state but shutdown will do; and a    *)
(* poller that promotes a booting daemon.                                  *)
PollNoCheck ==
  /\ pollPc = "check"
  /\ pollPc' = "promote"
  /\ UNCHANGED <<runPc, lmVars, polled, agents, actual, shutPc, requested, cancelled, heard>>

PollCheckNotShutdown ==
  /\ pollPc = "check"
  /\ pollPc' = IF state # "shutdown" THEN "promote" ELSE "idle"
  /\ UNCHANGED <<runPc, lmVars, polled, agents, actual, shutPc, requested, cancelled, heard>>

PollCheckBooting ==
  /\ pollPc = "check"
  /\ pollPc' = IF state = "booting" THEN "promote" ELSE "idle"
  /\ UNCHANGED <<runPc, lmVars, polled, agents, actual, shutPc, requested, cancelled, heard>>

PollCheck ==
  /\ pollPc = "check"
  /\ pollPc' = IF state = "ready" THEN "promote" ELSE "idle"
  /\ UNCHANGED <<runPc, lmVars, polled, agents, actual, shutPc, requested, cancelled, heard>>

(* Mutant: a state protocol.go does not list.                              *)
PollPromoteUnlisted ==
  /\ pollPc = "promote"
  /\ pollPc' = "idle"
  /\ Transition("poller", "running")
  /\ UNCHANGED <<runPc, polled, agents, actual, shutPc, requested, cancelled, heard>>

PollPromote ==
  /\ pollPc = "promote"
  /\ pollPc' = "idle"
  /\ Transition("poller", "healthy")
  /\ UNCHANGED <<runPc, polled, agents, actual, shutPc, requested, cancelled, heard>>

PollStop ==
  /\ pollPc = "idle"
  /\ pushing["poller"] = NoState
  /\ cancelled
  /\ pollPc' = "off"
  /\ UNCHANGED <<runPc, lmVars, polled, agents, actual, shutPc, requested, cancelled, heard>>

PollWork == PollReplace \/ PollCheck \/ PollPromote
PollStep == PollAsk \/ PollFail \/ PollReply \/ PollWork \/ PollStop

(* agentd starts and stops agents on its own.                              *)
AgentdChange ==
  /\ actual' \in SUBSET Agents
  /\ UNCHANGED <<runPc, lmVars, pollVars, shutPc, requested, cancelled, heard>>

-----------------------------------------------------------------------------
(* Goroutines started by a shutdown request, from either server.           *)

AcceptShutdown(s) ==
  /\ runPc \notin {"init", "listen", "dead"}
  /\ shutPc[s] = "none"
  /\ shutPc' = [shutPc EXCEPT ![s] = "accepted"]
  /\ UNCHANGED <<runPc, lmVars, pollVars, actual, requested, cancelled, heard>>

(* ShutdownCoordinator.Execute opens with Transition(StateShutdown).       *)
ShutdownTransition(s) ==
  /\ shutPc[s] = "accepted"
  /\ shutPc' = [shutPc EXCEPT ![s] = "stopping"]
  /\ Transition(s, "shutdown")
  /\ UNCHANGED <<runPc, pollVars, actual, requested, cancelled, heard>>

(* Execute has returned, with an error or without.                         *)
RequestShutdown(s) ==
  /\ shutPc[s] = "stopping"
  /\ pushing[s] = NoState
  /\ shutPc' = [shutPc EXCEPT ![s] = "done"]
  /\ requested' = TRUE
  /\ UNCHANGED <<runPc, lmVars, pollVars, actual, cancelled, heard>>

(* Signals, the end of the process and its restart.                        *)

Signal ==
  /\ runPc # "dead"
  /\ cancelled' = TRUE
  /\ UNCHANGED <<runPc, lmVars, pollVars, actual, shutPc, requested, heard>>

(* Run returned, or a panic or a kill ended the process.                   *)
Die ==
  /\ runPc # "dead"
  /\ runPc' = "dead"
  /\ pollPc' = "off"
  /\ shutPc' = [s \in Shutdowns |-> "none"]
  /\ pushing' = [t \in Threads |-> NoState]
  /\ UNCHANGED <<state, sender, polled, agents, actual, requested, cancelled, heard>>

(* Run returns to main, which exits.                                       *)
Exit == runPc = "closing" /\ Die

Restart ==
  /\ runPc = "dead"
  /\ runPc' = "init"
  /\ state' = "booting"
  /\ agents' = {}
  /\ polled' = {}
  /\ requested' = FALSE
  /\ cancelled' = FALSE
  /\ sender' = FALSE
  /\ heard' = NoState
  /\ UNCHANGED <<pollPc, actual, shutPc, pushing>>

Next ==
  \/ RunStep
  \/ PollStep
  \/ AgentdChange
  \/ \E s \in Shutdowns : \/ AcceptShutdown(s)
                          \/ ShutdownTransition(s)
                          \/ RequestShutdown(s)
  \/ SetVsockSender
  \/ \E t \in Threads : Push(t)
  \/ Signal
  \/ Die
  \/ Restart

Spec == Init /\ [][Next]_vars

(* The Go scheduler runs every goroutine that can run, and agentd answers  *)
(* infinitely many of infinitely many requests.                            *)
Fairness ==
  /\ WF_vars(RunStep)
  /\ WF_vars(Exit)
  /\ WF_vars(PollAsk)
  /\ WF_vars(PollWork)
  /\ SF_vars(PollReply)
  /\ \A s \in Shutdowns : WF_vars(ShutdownTransition(s) \/ RequestShutdown(s))
  /\ \A t \in Threads : WF_vars(Push(t))

FairSpec == Spec /\ Fairness

-----------------------------------------------------------------------------
TypeOK ==
  /\ runPc \in RunPcs
  /\ state \in States
  /\ agents \in SUBSET Agents
  /\ pollPc \in PollPcs
  /\ polled \in SUBSET Agents
  /\ actual \in SUBSET Agents
  /\ shutPc \in [Shutdowns -> ShutPcs]
  /\ requested \in BOOLEAN
  /\ cancelled \in BOOLEAN
  /\ pushing \in [Threads -> States \cup {NoState}]
  /\ sender \in BOOLEAN
  /\ heard \in States \cup {NoState}

(* What Daemon.Run and the poller may still do to a lifecycle that was     *)
(* shut down: Run has yet to report ready, or the poller has read "ready"  *)
(* and not yet acted on it.  With neither pending, shutdown is settled.    *)
ShutdownSettled ==
  /\ state = "shutdown"
  /\ runPc \in {"select", "cleanup", "closing"}
  /\ pollPc # "promote"

(* Once no stale write is pending, nothing takes the daemon out of         *)
(* shutdown for the rest of its life: not the poller, whose check of the   *)
(* state (agentd.go:173) then fails, nor a second shutdown, nor cleanup.   *)
ShutdownIsFinal ==
  [][ShutdownSettled /\ runPc' # "dead" => ShutdownSettled']_vars

(* The daemon turns healthy only while the list it would report through    *)
(* Health() shows a running agent, although the list is stored, the state  *)
(* read and the state written in three separate critical sections.         *)
HealthyIsBacked ==
  [][state # "healthy" /\ state' = "healthy" => agents # {}]_vars

(* If the agents stop changing while the daemon serves, the cached list    *)
(* ends up equal to the real one, whatever polls failed on the way.        *)
CacheConverges ==
  \A A \in SUBSET Agents :
    <>[](actual = A /\ runPc = "select" /\ ~cancelled) => <>[](agents = A)

(* A daemon that keeps serving with agents running leaves "ready".         *)
HealthyWhenRunning ==
  <>[](actual # {} /\ runPc = "select" /\ ~cancelled)
    => <>(state \in {"healthy", "shutdown"})

(* A shutdown request whose Execute returned, or a signal, brings Run to   *)
(* its end, also when it comes before Run has reached its select.          *)
StopIsHonoured ==
  requested \/ cancelled ~> runPc = "dead"

(* Transition "moves the lifecycle to a new state and notifies the host"   *)
(* (lifecycle.go:42): the state the daemon stays in is the one the host    *)
(* heard last.  With no callback set it hears nothing; with one, two       *)
(* goroutines may push in another order than they moved the state.         *)
HostIsTold ==
  \A s \in {"ready", "healthy", "shutdown"} :
    <>[](state = s /\ runPc # "dead") => <>[](heard = s)

(* "States progress through: booting -> ready -> healthy (or degraded) ->  *)
(* shutdown" (lifecycle.go:4-6): a running daemon never moves backwards.   *)
Rank(s) ==
  CASE s = "booting" -> 0
    [] s = "ready" -> 1
    [] s \in {"healthy", "degraded"} -> 2
    [] s = "shutdown" -> 3

DocumentedOrder ==
  [][runPc # "dead" => Rank(state) =< Rank(state')]_vars

-----------------------------------------------------------------------------
(* The states this process may still enter besides shutdown.               *)
StatesLeft ==
  CASE runPc \in {"init", "listen", "serving"} -> {"ready"}
    [] runPc = "dead" -> {}
    [] OTHER -> IF state = "ready" \/ pollPc = "promote" THEN {"healthy"} ELSE {}

Contract == INSTANCE LifecycleContract
              WITH up <- runPc # "dead", left <- StatesLeft

(* Every interleaving of Run, poller and shutdowns is one the contract     *)
(* allows: ready at most once, healthy at most once and only after it, and *)
(* booting again only in a new process.                                    *)
ImplementsContract == Contract!Spec

=============================================================================
