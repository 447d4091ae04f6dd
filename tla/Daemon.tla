-------------------------------- MODULE Daemon --------------------------------
(***************************************************************************)
(* A shutdown from end to end: the Daemon of pkg/stereosd.go with its      *)
(* LifecycleManager (module Lifecycle) and its MountManager (module        *)
(* Mounts), one goroutine per shutdown request running                     *)
(* ShutdownCoordinator.Execute (pkg/shutdown.go), the init system that     *)
(* powers off the machine or restarts the daemon, and the host.  How the   *)
(* host comes by its ack is in module Servers.                             *)
(***************************************************************************)
EXTENDS Naturals, Sequences

CONSTANTS
  Agents, Shutdowns,                            \* of Lifecycle
  Requests, Paths, PathOf, Below,               \* of Mounts
  Serial,   \* does the host keep its requests from overlapping?
  Faults,   \* may the process be killed, servers fail, commands fail?
  Hanging,  \* Executes one of whose commands may never return
  Mode      \* Config.PoweroffMode

ASSUME FaultsAssumption == Faults \in BOOLEAN /\ Hanging \subseteq Shutdowns

(* What Lifecycle and Mounts assume. *)
ASSUME ComponentAssumption ==
  /\ {"run", "poller"} \cap Shutdowns = {}
  /\ PathOf \in [Requests -> Paths]
  /\ Below \subseteq Paths \X Paths
  /\ Serial \in BOOLEAN
  /\ "none" \notin Requests

VARIABLES
  runPc, state, agents, pollPc, polled, actual, shutPc, requested, cancelled,
  sender, pushing, heard,                       \* of Lifecycle
  mounts, table, mntPc, snap, swPc, idx, cur, tried, orphans,
  overlap, race,                                \* of Mounts
  stage,    \* how far past UnmountAll each Execute is
  power     \* the machine: on, stopping (init was told to), off

(* The daemon never calls SetVsockSender.                                  *)
L == INSTANCE Lifecycle WITH SetsSender <- FALSE
M == INSTANCE Mounts WITH Sweepers <- Shutdowns

lVars == <<runPc, state, agents, pollPc, polled, actual, shutPc, requested,
           cancelled, sender, pushing, heard>>
mVars == <<mounts, table, mntPc, snap, swPc, idx, cur, tried, orphans,
           overlap, race>>
dVars == <<stage, power>>
vars  == <<lVars, mVars, dVars>>

Stages == {"none", "synced", "returned"}
Powers == {"on", "stopping", "off"}

Modes        == {"", "systemctl", "signal-init", "other"}
WorkingModes == {"", "systemctl", "signal-init"}

ASSUME ModeAssumption == Mode \in Modes

-----------------------------------------------------------------------------
Init ==
  /\ L!Init
  /\ M!Init
  /\ stage = [s \in Shutdowns |-> "none"]
  /\ power = "on"

Serving == runPc \notin {"init", "listen", "dead"}

(* Every goroutine of the process is gone.                                 *)
ProcessDies ==
  /\ L!Die
  /\ M!Crash
  /\ stage' = [s \in Shutdowns |-> "none"]
  /\ UNCHANGED power

(* The lifecycle goes its way; a signal comes from init or an operator.    *)
LifecycleStep ==
  /\ \/ L!RunStep
     \/ L!PollStep
     \/ L!AgentdChange
     \/ \E t \in L!Threads : L!Push(t)
     \/ L!Signal /\ (Faults \/ power = "stopping")
  /\ UNCHANGED <<mVars, dVars>>

(* A host that takes care asks for one shutdown, and for no mount after.   *)
MountRequest(r) ==
  /\ Serving
  /\ Serial => M!Quiet /\ \A s \in Shutdowns : shutPc[s] = "none"
  /\ M!MountReject(r) \/ M!MountBegin(r)
  /\ UNCHANGED <<lVars, dVars>>

MountWork(r) ==
  /\ M!MountFail(r) \/ M!MountDone(r) \/ M!MountLoad(r) \/ M!MountStore(r)
  /\ UNCHANGED <<lVars, dVars>>

-----------------------------------------------------------------------------
(* HandleMessage, or handleShutdown, starts the goroutine.                 *)
Accept(s) ==
  /\ L!AcceptShutdown(s)
  /\ Serial => M!Quiet /\ \A t \in Shutdowns : shutPc[t] = "none"
  /\ UNCHANGED <<mVars, dVars>>

(* Execute, step by step. *)

Announce(s) ==
  /\ L!ShutdownTransition(s)
  /\ UNCHANGED <<mVars, dVars>>

Sweep(s) ==
  /\ shutPc[s] = "stopping"
  /\ pushing[s] = L!NoState
  /\ M!SweepStep(s)
  /\ UNCHANGED <<lVars, dVars>>

(* Mutant: UnmountAll runs beside the rest of Execute.                     *)
SyncEarly(s) ==
  /\ shutPc[s] = "stopping"
  /\ stage[s] = "none"
  /\ stage' = [stage EXCEPT ![s] = "synced"]
  /\ UNCHANGED <<lVars, mVars, power>>

(* A failing sync is only logged.                                          *)
Sync(s) ==
  /\ swPc[s] = "done"
  /\ stage[s] = "none"
  /\ stage' = [stage EXCEPT ![s] = "synced"]
  /\ UNCHANGED <<lVars, mVars, power>>

(* poweroffFor(Mode): tell init, or return an error.                       *)
Poweroff(s) ==
  /\ stage[s] = "synced"
  /\ stage' = [stage EXCEPT ![s] = "returned"]
  /\ \/ /\ Mode \in WorkingModes
        /\ power' = IF power = "on" THEN "stopping" ELSE power
     \/ /\ Mode \notin WorkingModes \/ Faults
        /\ UNCHANGED power
  /\ UNCHANGED <<lVars, mVars>>

(* Mutants: requestShutdown beside Execute instead of after it; and        *)
(* requestShutdown only if Execute powered the machine off.                *)
RequestEarly(s) ==
  /\ L!RequestShutdown(s)
  /\ UNCHANGED <<mVars, dVars>>

RequestOnSuccess(s) ==
  /\ stage[s] = "returned"
  /\ power # "on"
  /\ L!RequestShutdown(s)
  /\ UNCHANGED <<mVars, dVars>>

(* Execute's error is only logged.                                         *)
Request(s) ==
  /\ stage[s] = "returned"
  /\ L!RequestShutdown(s)
  /\ UNCHANGED <<mVars, dVars>>

ExecuteStep(s) ==
  Announce(s) \/ Sweep(s) \/ Sync(s) \/ Poweroff(s) \/ Request(s)

-----------------------------------------------------------------------------
(* The ends of the process: Run returned; a fault in this code; a kill or  *)
(* a server error that Run returns.  Init kills what does not stop.        *)

Exit == runPc = "closing" /\ ProcessDies

Panic ==
  /\ runPc # "dead"
  /\ (\E s \in Shutdowns : M!SweepPanic(s)) \/ M!TornRead
  /\ ProcessDies

Kill == (Faults \/ power = "stopping") /\ ProcessDies

(* Restart=always, unless the machine is going down.                       *)
Restart ==
  /\ power = "on"
  /\ L!Restart
  /\ UNCHANGED <<mVars, dVars>>

TurnOff ==
  /\ power = "stopping"
  /\ runPc = "dead"
  /\ power' = "off"
  /\ UNCHANGED <<lVars, mVars, stage>>

Next ==
  \/ LifecycleStep
  \/ \E r \in Requests : MountRequest(r) \/ MountWork(r)
  \/ \E s \in Shutdowns : Accept(s) \/ ExecuteStep(s)
  \/ Exit \/ Panic \/ Kill \/ Restart \/ TurnOff

Spec == Init /\ [][Next]_vars

(* Goroutines that can run do, and init goes on with a power-off.  umount, *)
(* sync and systemctl run without a timeout (mounts.go:42-47): nothing     *)
(* makes an Execute of Hanging go on, nor any mount(8) return.             *)
Fairness ==
  /\ WF_vars(L!RunStep /\ LifecycleStep)
  /\ WF_vars(Exit)
  /\ \A t \in L!Threads : WF_vars(L!Push(t) /\ LifecycleStep)
  /\ \A s \in Shutdowns \ Hanging : WF_vars(ExecuteStep(s))
  /\ WF_vars((\E s \in Shutdowns \ Hanging : M!SweepPanic(s)) /\ Panic)
  /\ WF_vars(L!Signal /\ LifecycleStep /\ power = "stopping")
  /\ WF_vars(TurnOff)
  /\ WF_vars(Restart)

FairSpec == Spec /\ Fairness

-----------------------------------------------------------------------------
TypeOK ==
  /\ stage \in [Shutdowns -> Stages]
  /\ power \in Powers

(* The machine goes down with umount run for every mount this process made *)
(* ("unmounts, filesystem sync, systemctl poweroff", README.md:14).        *)
CleanPowerOff ==
  power # "on" =>
    \A k \in DOMAIN table : table[k] \in tried \cup orphans

(* Once a shutdown request is accepted and its commands return, the        *)
(* machine powers off.                                                     *)
ShutdownPowersOff ==
  (\E s \in Shutdowns \ Hanging : shutPc[s] # "none") ~> power = "off"

(* Whatever goes wrong on the way (failed umount, failed power-off, panic, *)
(* a signal, a second request whose commands never return), an accepted    *)
(* shutdown ends the process.                                              *)
ShutdownEndsProcess ==
  (\E s \in Shutdowns \ Hanging : shutPc[s] # "none") ~> runPc = "dead"

(* Run's return ends the process and with it every other goroutine.  It    *)
(* leaves its select only for a signal or for an Execute that went through *)
(* all its steps (stereosd.go:360-365), and the machine of a living daemon *)
(* goes down only after an accepted shutdown has swept the mounts, however *)
(* Executes, mounts, failures and restarts overlap.                        *)
OrderlyEnd ==
  /\ runPc \in {"cleanup", "closing"} =>
       cancelled \/ \E s \in Shutdowns : stage[s] = "returned"
  /\ power # "on" /\ runPc # "dead" =>
       \E s \in Shutdowns : swPc[s] = "done" /\ shutPc[s] # "none"

(* "an empty or unknown value makes shutdown return a power-off error"     *)
(* (shutdown.go:84-85).                                                    *)
EmptyModeFails == Mode = "" => power = "on"

=============================================================================
