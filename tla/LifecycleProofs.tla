---------------------------- MODULE LifecycleProofs ----------------------------
(***************************************************************************)
(* For every set of agents and of shutdown requests, whether a sender is   *)
(* ever set or not: the types of module Lifecycle, the two action          *)
(* properties its runs check, and the implementation of LifecycleContract. *)
(***************************************************************************)
EXTENDS Lifecycle, TLAPS

(* Every variable of the lifecycle keeps its type, and so every state that *)
(* Transition is called with is one of protocol.go's.                      *)
THEOREM TypeCorrect == Spec => []TypeOK
<1> USE DEF TypeOK, RunPcs, PollPcs, ShutPcs, States
<1>1. Init => TypeOK
  BY DEF Init, Threads
<1>2. TypeOK /\ [Next]_vars => TypeOK'
  <2> SUFFICES ASSUME TypeOK, [Next]_vars PROVE TypeOK'
    OBVIOUS
  <2>1. CASE RunStep
    <3>1. CASE RunBoot \/ RunReady \/ RunCleanup
      BY <3>1 DEF RunBoot, RunReady, RunCleanup, Transition, Threads, pollVars
    <3>2. CASE RunServe \/ RunWake
      BY <3>2 DEF RunServe, RunWake, lmVars, pollVars
    <3> QED
      BY <2>1, <3>1, <3>2 DEF RunStep
  <2>2. CASE PollStep
    <3>1. CASE PollAsk \/ PollFail \/ PollReply \/ PollStop
      BY <3>1 DEF PollAsk, PollFail, PollReply, PollStop, lmVars
    <3>2. CASE PollReplace \/ PollCheck
      BY <3>2 DEF PollReplace, PollCheck, lmVars
    <3>3. CASE PollPromote
      BY <3>3 DEF PollPromote, Transition, Threads
    <3> QED
      BY <2>2, <3>1, <3>2, <3>3 DEF PollStep, PollWork
  <2>3. CASE AgentdChange
    BY <2>3 DEF AgentdChange, lmVars, pollVars
  <2>4. ASSUME NEW s \in Shutdowns,
               AcceptShutdown(s) \/ ShutdownTransition(s) \/ RequestShutdown(s)
        PROVE  TypeOK'
    <3>1. CASE AcceptShutdown(s)
      BY <3>1 DEF AcceptShutdown, lmVars, pollVars
    <3>2. CASE ShutdownTransition(s)
      BY <3>2 DEF ShutdownTransition, Transition, Threads, pollVars
    <3>3. CASE RequestShutdown(s)
      BY <3>3 DEF RequestShutdown, lmVars, pollVars
    <3> QED
      BY <2>4, <3>1, <3>2, <3>3
  <2>5. ASSUME NEW t \in Threads, Push(t) PROVE TypeOK'
    <3>1. pushing[t] \in States \cup {NoState}
      OBVIOUS
    <3> QED
      BY <2>5, <3>1 DEF Push, pollVars
  <2>6. CASE Signal \/ SetVsockSender
    <3>1. CASE Signal
      BY <3>1 DEF Signal, lmVars, pollVars
    <3>2. CASE SetVsockSender
      <4>1. sender' \in BOOLEAN
        BY <3>2, Zenon DEF SetVsockSender
      <4> QED
        BY <3>2, <4>1 DEF SetVsockSender, pollVars
    <3> QED
      BY <2>6, <3>1, <3>2
  <2>7. CASE Die
    BY <2>7 DEF Die
  <2>8. CASE Restart
    BY <2>8 DEF Restart
  <2>9. CASE UNCHANGED vars
    BY <2>9 DEF vars
  <2> QED
    BY <2>1, <2>2, <2>3, <2>4, <2>5, <2>6, <2>7, <2>8, <2>9 DEF Next
<1> QED
  BY <1>1, <1>2, PTL DEF Spec

-----------------------------------------------------------------------------
(* A settled shutdown lasts: every step of every goroutine keeps the state *)
(* "shutdown" and leaves no write of another state pending.                *)
THEOREM ShutdownStays == Spec => ShutdownIsFinal
<1>1. [Next]_vars
        => [ShutdownSettled /\ runPc' # "dead" => ShutdownSettled']_vars
  <2> SUFFICES ASSUME Next, ShutdownSettled, runPc' # "dead"
               PROVE  ShutdownSettled'
    OBVIOUS
  <2> USE DEF ShutdownSettled
  <2>1. CASE RunStep
    BY <2>1 DEF RunStep, RunBoot, RunServe, RunReady, RunWake, RunCleanup,
                Transition, lmVars, pollVars
  <2>2. CASE PollStep
    BY <2>2 DEF PollStep, PollWork, PollAsk, PollFail, PollReply, PollReplace,
                PollCheck, PollPromote, PollStop, lmVars
  <2>3. CASE AgentdChange \/ Signal \/ SetVsockSender
    BY <2>3 DEF AgentdChange, Signal, SetVsockSender, lmVars, pollVars
  <2>4. ASSUME NEW s \in Shutdowns,
               AcceptShutdown(s) \/ ShutdownTransition(s) \/ RequestShutdown(s)
        PROVE  ShutdownSettled'
    BY <2>4 DEF AcceptShutdown, ShutdownTransition, RequestShutdown,
                Transition, lmVars, pollVars
  <2>5. ASSUME NEW t \in Threads, Push(t) PROVE ShutdownSettled'
    BY <2>5 DEF Push, pollVars
  <2>6. CASE Die \/ Restart
    BY <2>6 DEF Die, Restart
  <2> QED
    BY <2>1, <2>2, <2>3, <2>4, <2>5, <2>6 DEF Next
<1> QED
  BY <1>1, PTL DEF Spec, ShutdownIsFinal

-----------------------------------------------------------------------------
(* What the program counters say of each other.  Before Run's RunServe and *)
(* after the process's end nothing else runs; until Run reports ready the  *)
(* poller cannot have seen "ready"; and between ReplaceAgentStatuses and   *)
(* the end of the poll the stored list is the poll's own, with a running   *)
(* agent in it.                                                            *)
NothingRuns ==
  runPc \in {"init", "listen", "dead"} =>
    /\ pollPc = "off"
    /\ \A s \in Shutdowns : shutPc[s] = "none"

NotReadyYet ==
  /\ runPc = "init" => state = "booting"
  /\ runPc \in {"init", "listen", "serving"} =>
       state \in {"booting", "shutdown"} /\ pollPc # "promote"

PollHolds ==
  pollPc \in {"check", "promote"} => agents = polled /\ polled # {}

IInv == TypeOK /\ NothingRuns /\ NotReadyYet /\ PollHolds

LEMMA Inductive == Spec => []IInv
<1> USE DEF IInv, TypeOK, PollPcs, NothingRuns, NotReadyYet, PollHolds
<1>1. Init => IInv
  BY DEF Init, States, Threads, RunPcs, ShutPcs
<1>2. TypeOK /\ TypeOK' /\ IInv /\ [Next]_vars => IInv'
  <2> SUFFICES ASSUME TypeOK, TypeOK', IInv, [Next]_vars PROVE IInv'
    OBVIOUS
  <2>1. CASE RunStep
    BY <2>1 DEF RunStep, RunBoot, RunServe, RunReady, RunWake, RunCleanup,
                Transition, lmVars, pollVars
  <2>2. CASE PollStep
    BY <2>2 DEF PollStep, PollWork, PollAsk, PollFail, PollReply, PollReplace,
                PollCheck, PollPromote, PollStop, Transition, lmVars
  <2>3. CASE AgentdChange \/ Signal \/ SetVsockSender
    BY <2>3 DEF AgentdChange, Signal, SetVsockSender, lmVars, pollVars
  <2>4. ASSUME NEW s \in Shutdowns,
               AcceptShutdown(s) \/ ShutdownTransition(s) \/ RequestShutdown(s)
        PROVE  IInv'
    BY <2>4 DEF AcceptShutdown, ShutdownTransition, RequestShutdown,
                Transition, lmVars, pollVars
  <2>5. ASSUME NEW t \in Threads, Push(t) PROVE IInv'
    BY <2>5 DEF Push, pollVars
  <2>6. CASE Die
    BY <2>6 DEF Die
  <2>7. CASE Restart
    BY <2>7 DEF Restart
  <2>8. CASE UNCHANGED vars
    BY <2>8 DEF vars
  <2> QED
    BY <2>1, <2>2, <2>3, <2>4, <2>5, <2>6, <2>7, <2>8 DEF Next
<1> QED
  BY <1>1, <1>2, TypeCorrect, PTL DEF Spec

(* The daemon never turns healthy over a list without a running agent.     *)
THEOREM HealthyBacked == Spec => HealthyIsBacked
<1>1. IInv /\ [Next]_vars
        => [state # "healthy" /\ state' = "healthy" => agents # {}]_vars
  <2> SUFFICES ASSUME PollHolds, Next, state # "healthy", state' = "healthy"
               PROVE  agents # {}
    BY DEF IInv
  <2>1. CASE PollPromote
    BY <2>1 DEF PollPromote, PollHolds
  <2>2. CASE ~PollPromote
    BY <2>2 DEF Next, RunStep, RunBoot, RunServe, RunReady, RunWake, RunCleanup,
         PollStep, PollWork, PollAsk, PollFail, PollReply, PollReplace, PollCheck,
         PollStop, AgentdChange, AcceptShutdown, ShutdownTransition,
         RequestShutdown, SetVsockSender, Push, Signal, Die, Restart, Transition, lmVars
  <2> QED
    BY <2>1, <2>2
<1> QED
  BY <1>1, Inductive, PTL DEF Spec, HealthyIsBacked

-----------------------------------------------------------------------------
(* The processes of the code take only the steps LifecycleContract allows. *)
THEOREM Implementation == Spec => ImplementsContract
<1> USE DEF StatesLeft
<1>1. Init => Contract!Init
  BY DEF Init, Contract!Init
<1>2. IInv /\ IInv' /\ [Next]_vars => [Contract!Next]_(Contract!vars)
  <2> SUFFICES ASSUME IInv, [Next]_vars
               PROVE  Contract!Next \/ UNCHANGED Contract!vars
    OBVIOUS
  <2> USE DEF IInv, NothingRuns, NotReadyYet, Contract!vars
  <2>1. CASE RunReady
    <3>1. Contract!Ready
      BY <2>1 DEF RunReady, Transition, pollVars, Contract!Ready
    <3> QED
      BY <3>1 DEF Contract!Next
  <2>2. CASE RunCleanup
    <3>1. Contract!Shut
      BY <2>2 DEF RunCleanup, Transition, pollVars, Contract!Shut
    <3> QED
      BY <3>1 DEF Contract!Next
  <2>3. CASE RunBoot \/ RunServe \/ RunWake
    BY <2>3 DEF RunBoot, RunServe, RunWake, Transition, lmVars, pollVars
  <2>4. CASE PollPromote
    <3>1. Contract!Healthy
      BY <2>4 DEF PollPromote, Transition, TypeOK, RunPcs, Contract!Healthy
    <3> QED
      BY <3>1 DEF Contract!Next
  <2>5. CASE PollAsk \/ PollFail \/ PollReply \/ PollReplace \/ PollCheck \/ PollStop
    BY <2>5 DEF PollAsk, PollFail, PollReply, PollReplace, PollCheck, PollStop, lmVars
  <2>6. CASE AgentdChange \/ Signal \/ SetVsockSender
    BY <2>6 DEF AgentdChange, Signal, SetVsockSender, lmVars, pollVars
  <2>7. ASSUME NEW s \in Shutdowns, ShutdownTransition(s)
        PROVE  Contract!Next
    <3>1. runPc # "dead"
      BY <2>7 DEF ShutdownTransition
    <3>2. Contract!Shut
      BY <2>7, <3>1 DEF ShutdownTransition, Transition, pollVars, Contract!Shut
    <3> QED
      BY <3>2 DEF Contract!Next
  <2>8. ASSUME NEW s \in Shutdowns, AcceptShutdown(s) \/ RequestShutdown(s)
        PROVE  UNCHANGED Contract!vars
    BY <2>8 DEF AcceptShutdown, RequestShutdown, lmVars, pollVars
  <2>9. ASSUME NEW t \in Threads, Push(t) PROVE UNCHANGED Contract!vars
    BY <2>9 DEF Push, pollVars
  <2>10. CASE Die
    <3>1. Contract!Crash
      BY <2>10 DEF Die, Contract!Crash
    <3> QED
      BY <3>1 DEF Contract!Next
  <2>11. CASE Restart
    <3>1. Contract!Restart
      BY <2>11 DEF Restart, Contract!Restart
    <3> QED
      BY <3>1 DEF Contract!Next
  <2>12. CASE UNCHANGED vars
    BY <2>12 DEF vars
  <2> QED
    BY <2>1, <2>2, <2>3, <2>4, <2>5, <2>6, <2>7, <2>8, <2>9, <2>10, <2>11, <2>12
    DEF Next, RunStep, PollStep, PollWork
<1> QED
  BY <1>1, <1>2, Inductive, PTL DEF Spec, ImplementsContract, Contract!Spec

=============================================================================
