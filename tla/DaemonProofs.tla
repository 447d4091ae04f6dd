----------------------------- MODULE DaemonProofs -----------------------------
(***************************************************************************)
(* For any agents, mounts, paths, shutdown requests and power-off mode:    *)
(* the daemon behaves as its lifecycle and its mount manager do, so that   *)
(* what LifecycleProofs and MountsProofs show of these holds of it;        *)
(* whatever overlaps and fails, it ends in order; and with a careful host, *)
(* whatever fails, the machine goes down clean.                            *)
(***************************************************************************)
EXTENDS Daemon, TLAPS

LP == INSTANCE LifecycleProofs WITH SetsSender <- FALSE
MP == INSTANCE MountsProofs WITH Sweepers <- Shutdowns

(* What Lifecycle assumes of SetsSender.                                   *)
LEMMA NoSender == FALSE \in BOOLEAN
OBVIOUS

-----------------------------------------------------------------------------
(* MP is M again, with the theorems about it.                              *)
LEMMA SameMounts ==
  /\ M!Init => MP!Init
  /\ (M!BeginCall => MP!BeginCall) /\ (M!BeginUse => MP!BeginUse)
  /\ M!Crash => MP!Crash
  /\ \A r \in Requests :
       M!MountReject(r) \/ M!MountBegin(r) \/ M!MountFail(r) \/ M!MountDone(r)
         \/ M!MountLoad(r) \/ M!MountStore(r)
       => MP!MountStep(r)
  /\ \A s \in Shutdowns : M!SweepStep(s) => MP!SweepStep(s)
<1>1. M!Init => MP!Init
  BY DEF M!Init, MP!Init, M!NoMount, MP!NoMount
<1>2. (M!BeginCall => MP!BeginCall) /\ (M!BeginUse => MP!BeginUse)
  BY DEF M!BeginCall, MP!BeginCall, M!BeginUse, MP!BeginUse, M!Quiet, MP!Quiet,
     M!Unused, MP!Unused, M!InFlight, MP!InFlight, M!Sweeping, MP!Sweeping
<1>3. M!Crash => MP!Crash
  BY DEF M!Crash, MP!Crash, M!InFlight, MP!InFlight, M!NoMount, MP!NoMount,
     M!Range, MP!Range
<1>4. ASSUME NEW r \in Requests,
             M!MountReject(r) \/ M!MountBegin(r) \/ M!MountFail(r) \/ M!MountDone(r)
               \/ M!MountLoad(r) \/ M!MountStore(r)
      PROVE  MP!MountStep(r)
  <2>1. CASE M!MountReject(r)
    BY <2>1 DEF M!MountReject, MP!MountReject, MP!MountStep
  <2>2. CASE M!MountBegin(r)
    BY <1>2, <2>2 DEF M!MountBegin, MP!MountBegin, MP!MountStep
  <2>3. CASE M!MountFail(r)
    BY <2>3 DEF M!MountFail, MP!MountFail, MP!MountStep
  <2>4. CASE M!MountDone(r)
    BY <2>4 DEF M!MountDone, MP!MountDone, MP!MountStep
  <2>5. CASE M!MountLoad(r)
    BY <1>2, <2>5 DEF M!MountLoad, MP!MountLoad, MP!MountStep
  <2>6. CASE M!MountStore(r)
    BY <2>6 DEF M!MountStore, MP!MountStore, MP!MountStep
  <2> QED
    BY <1>4, <2>1, <2>2, <2>3, <2>4, <2>5, <2>6
<1>5. ASSUME NEW s \in Shutdowns, M!SweepStep(s)
      PROVE  MP!SweepStep(s)
  <2>1. CASE M!SweepBegin(s)
    BY <1>2, <2>1 DEF M!SweepBegin, MP!SweepBegin, MP!SweepStep
  <2>2. CASE M!SweepRead(s)
    BY <2>2 DEF M!SweepRead, MP!SweepRead, MP!SweepStep
  <2>3. CASE M!SweepUmount(s)
    <3>1. \A k, p : M!CanUmount(k, p) <=> MP!CanUmount(k, p)
      BY DEF M!CanUmount, MP!CanUmount, M!At, MP!At, M!Inside, MP!Inside, M!Around, MP!Around
    <3>2. \A k : M!RemoveAt(table, k) = MP!RemoveAt(table, k)
      BY DEF M!RemoveAt, MP!RemoveAt
    <3> QED
      BY <2>3, <3>1, <3>2 DEF M!SweepUmount, MP!SweepUmount, MP!SweepStep,
         M!NoMount, MP!NoMount
  <2>4. CASE M!SweepClear(s)
    BY <2>4 DEF M!SweepClear, MP!SweepClear, MP!SweepStep
  <2> QED
    BY <1>5, <2>1, <2>2, <2>3, <2>4 DEF M!SweepStep
<1> QED
  BY <1>1, <1>2, <1>3, <1>4, <1>5

(* Every step of the daemon is one of its mount manager, or leaves it.     *)
LEMMA MountsStep == [Next]_vars => [MP!Next]_mVars
<1> SUFFICES ASSUME [Next]_vars PROVE [MP!Next]_mVars
  OBVIOUS
<1>1. ASSUME NEW r \in Requests, MountRequest(r) \/ MountWork(r)
      PROVE  MP!Next
  BY <1>1, SameMounts DEF MountRequest, MountWork, MP!Next
<1>2. ASSUME NEW s \in Shutdowns, Sweep(s)
      PROVE  MP!Next
  BY <1>2, SameMounts DEF Sweep, MP!Next
<1>3. ASSUME ProcessDies
      PROVE  MP!Next
  BY <1>3, SameMounts DEF ProcessDies, MP!Next
<1>4. CASE Exit \/ Panic \/ Kill
  BY <1>3, <1>4 DEF Exit, Panic, Kill
<1>5. ASSUME NEW s \in Shutdowns, ExecuteStep(s), ~Sweep(s)
      PROVE  UNCHANGED mVars
  BY <1>5 DEF ExecuteStep, Announce, Sync, Poweroff, Request
<1>6. ASSUME NEW s \in Shutdowns, Accept(s)
      PROVE  UNCHANGED mVars
  BY <1>6 DEF Accept
<1>7. CASE LifecycleStep \/ Restart \/ TurnOff
  BY <1>7 DEF LifecycleStep, Restart, TurnOff
<1>8. CASE UNCHANGED vars
  BY <1>8 DEF vars
<1> QED
  BY <1>1, <1>2, <1>4, <1>5, <1>6, <1>7, <1>8 DEF Next

(* ... and likewise of its lifecycle. *)
LEMMA SameLifecycle ==
  /\ L!Init => LP!Init
  /\ L!RunStep => LP!RunStep
  /\ L!PollStep => LP!PollStep
  /\ L!AgentdChange => LP!AgentdChange
  /\ \A t \in L!Threads : L!Push(t) => t \in LP!Threads /\ LP!Push(t)
  /\ L!Signal => LP!Signal
  /\ L!Die => LP!Die
  /\ L!Restart => LP!Restart
  /\ \A s \in Shutdowns :
       /\ L!AcceptShutdown(s) => LP!AcceptShutdown(s)
       /\ L!ShutdownTransition(s) => LP!ShutdownTransition(s)
       /\ L!RequestShutdown(s) => LP!RequestShutdown(s)
<1> USE DEF L!NoState, LP!NoState, L!Threads, LP!Threads, L!lmVars, LP!lmVars,
            L!pollVars, LP!pollVars, L!Transition, LP!Transition
<1>1. L!Init => LP!Init
  BY DEF L!Init, LP!Init
<1>2. L!RunStep => LP!RunStep
  BY DEF L!RunStep, LP!RunStep, L!RunBoot, LP!RunBoot, L!RunServe, LP!RunServe,
     L!RunReady, LP!RunReady, L!RunWake, LP!RunWake, L!RunCleanup, LP!RunCleanup
<1>3. L!PollStep => LP!PollStep
  BY DEF L!PollStep, LP!PollStep, L!PollWork, LP!PollWork, L!PollAsk, LP!PollAsk,
     L!PollFail, LP!PollFail, L!PollReply, LP!PollReply, L!PollReplace, LP!PollReplace,
     L!PollCheck, LP!PollCheck, L!PollPromote, LP!PollPromote, L!PollStop, LP!PollStop
<1>4. L!AgentdChange => LP!AgentdChange
  BY DEF L!AgentdChange, LP!AgentdChange
<1>5. \A t \in L!Threads : L!Push(t) => t \in LP!Threads /\ LP!Push(t)
  BY DEF L!Push, LP!Push
<1>6. (L!Signal => LP!Signal) /\ (L!Die => LP!Die) /\ (L!Restart => LP!Restart)
  BY DEF L!Signal, LP!Signal, L!Die, LP!Die, L!Restart, LP!Restart
<1>7. \A s \in Shutdowns :
        /\ L!AcceptShutdown(s) => LP!AcceptShutdown(s)
        /\ L!ShutdownTransition(s) => LP!ShutdownTransition(s)
        /\ L!RequestShutdown(s) => LP!RequestShutdown(s)
  BY DEF L!AcceptShutdown, LP!AcceptShutdown, L!ShutdownTransition, LP!ShutdownTransition,
     L!RequestShutdown, LP!RequestShutdown
<1> QED
  BY <1>1, <1>2, <1>3, <1>4, <1>5, <1>6, <1>7

LEMMA LifecycleSteps == [Next]_vars => [LP!Next]_lVars
<1> SUFFICES ASSUME [Next]_vars PROVE [LP!Next]_lVars
  OBVIOUS
<1>1. CASE LifecycleStep
  BY <1>1, SameLifecycle DEF LifecycleStep, LP!Next
<1>2. CASE Exit \/ Panic \/ Kill
  BY <1>2, SameLifecycle DEF Exit, Panic, Kill, ProcessDies, LP!Next
<1>3. CASE Restart
  BY <1>3, SameLifecycle DEF Restart, LP!Next
<1>4. ASSUME NEW s \in Shutdowns, Accept(s) \/ Announce(s) \/ Request(s)
      PROVE  LP!Next
  BY <1>4, SameLifecycle DEF Accept, Announce, Request, LP!Next
<1>5. ASSUME NEW s \in Shutdowns, Sweep(s) \/ Sync(s) \/ Poweroff(s)
      PROVE  UNCHANGED lVars
  BY <1>5 DEF Sweep, Sync, Poweroff
<1>6. ASSUME NEW r \in Requests, MountRequest(r) \/ MountWork(r)
      PROVE  UNCHANGED lVars
  BY <1>6 DEF MountRequest, MountWork
<1>7. CASE TurnOff \/ UNCHANGED vars
  BY <1>7 DEF TurnOff, vars
<1> QED
  BY <1>1, <1>2, <1>3, <1>4, <1>5, <1>6, <1>7 DEF Next, ExecuteStep

(* The daemon implements its two components: what is shown of each by      *)
(* itself holds while init, Execute and the host drive them.               *)
THEOREM Components == Spec => MP!Spec /\ LP!Spec
<1>1. Init => MP!Init /\ LP!Init
  BY SameMounts, SameLifecycle DEF Init
<1> QED
  BY <1>1, MountsStep, LifecycleSteps, PTL
  DEF Spec, MP!Spec, LP!Spec, MP!vars, LP!vars, mVars, lVars, LP!pollVars, LP!lmVars

(* The types of what Daemon adds to its components: the stage of each      *)
(* Execute and the machine's power.                                        *)
LEMMA Types == Spec => []TypeOK
<1> USE DEF TypeOK, Stages, Powers
<1>1. Init => TypeOK
  BY DEF Init
<1>2. TypeOK /\ [Next]_vars => TypeOK'
  <2> SUFFICES ASSUME TypeOK, [Next]_vars PROVE TypeOK'
    OBVIOUS
  <2>1. CASE LifecycleStep \/ Restart \/ UNCHANGED vars
    BY <2>1 DEF LifecycleStep, Restart, vars, dVars
  <2>2. ASSUME NEW r \in Requests, MountRequest(r) \/ MountWork(r)
        PROVE  TypeOK'
    BY <2>2 DEF MountRequest, MountWork, dVars
  <2>3. ASSUME NEW s \in Shutdowns, Accept(s) \/ Sync(s) \/ Poweroff(s)
        PROVE  TypeOK'
    BY <2>3 DEF Accept, Sync, Poweroff, dVars
  <2>4. ASSUME NEW s \in Shutdowns, Announce(s) \/ Sweep(s) \/ Request(s)
        PROVE  TypeOK'
    BY <2>4 DEF Announce, Sweep, Request, dVars
  <2>5. CASE Exit \/ Panic \/ Kill
    BY <2>5 DEF Exit, Panic, Kill, ProcessDies
  <2>6. CASE TurnOff
    BY <2>6 DEF TurnOff
  <2> QED
    BY <2>1, <2>2, <2>3, <2>4, <2>5, <2>6 DEF Next, ExecuteStep
<1> QED
  BY <1>1, <1>2, PTL DEF Spec

-----------------------------------------------------------------------------
(* A clean power-off.  While the process lives, a machine that goes down   *)
(* has an Execute past UnmountAll; that sweep found every mount because    *)
(* the host had no mount running when it asked for the shutdown and asks   *)
(* for none after.  When the process dies first, what it leaves is an      *)
(* orphan, and no other process is started on a machine that goes down.    *)

SweepsStarted == \A s \in Shutdowns : swPc[s] # "idle" => shutPc[s] # "none"

OneShutdown ==
  \A s, t \in Shutdowns : shutPc[s] # "none" /\ shutPc[t] # "none" => s = t

MountsOver ==
  \A s \in Shutdowns : shutPc[s] # "none" =>
    \A r \in Requests : mntPc[r] \notin M!InFlight

SweptClear == \A s \in Shutdowns : swPc[s] = "done" => mounts = <<>>

StageAfterSweep == \A s \in Shutdowns : stage[s] # "none" => swPc[s] = "done"

GoingDown ==
  power # "on" /\ runPc # "dead" => \E s \in Shutdowns : stage[s] # "none"

DeadIsQuiet ==
  runPc = "dead" =>
    /\ \A s \in Shutdowns : shutPc[s] = "none"
    /\ \A r \in Requests : mntPc[r] \notin M!InFlight
    /\ \A k \in DOMAIN table : table[k] \in orphans

Inv ==
  /\ SweepsStarted /\ OneShutdown /\ MountsOver /\ SweptClear
  /\ StageAfterSweep /\ GoingDown /\ DeadIsQuiet

(* What the parts of a step do to each other's variables.                  *)
LEMMA LifecycleLeaves ==
  ASSUME LifecycleStep
  PROVE  /\ UNCHANGED <<shutPc, mVars, dVars>>
         /\ runPc' = "dead" <=> runPc = "dead"
<1>1. CASE L!RunStep
  BY <1>1 DEF LifecycleStep, L!RunStep, L!RunBoot, L!RunServe, L!RunReady, L!RunWake,
     L!RunCleanup
<1>2. CASE L!PollStep
  BY <1>2 DEF LifecycleStep, L!PollStep, L!PollWork, L!PollAsk, L!PollFail, L!PollReply,
     L!PollReplace, L!PollCheck, L!PollPromote, L!PollStop
<1>3. CASE L!AgentdChange \/ L!Signal \/ \E t \in L!Threads : L!Push(t)
  BY <1>3 DEF LifecycleStep, L!AgentdChange, L!Signal, L!Push
<1> QED
  BY <1>1, <1>2, <1>3 DEF LifecycleStep

LEMMA DeathLeaves ==
  ASSUME ProcessDies
  PROVE  /\ runPc' = "dead"
         /\ \A s \in Shutdowns : shutPc'[s] = "none" /\ swPc'[s] = "idle"
                                 /\ stage'[s] = "none"
         /\ \A r \in Requests : mntPc'[r] \notin M!InFlight
         /\ \A k \in DOMAIN table' : table'[k] \in orphans'
<1>1. runPc' = "dead" /\ \A s \in Shutdowns : shutPc'[s] = "none" /\ stage'[s] = "none"
  BY DEF ProcessDies, L!Die
<1>2. \A s \in Shutdowns : swPc'[s] = "idle"
  BY DEF ProcessDies, M!Crash
<1>3. \A r \in Requests : mntPc'[r] \notin M!InFlight
  BY DEF ProcessDies, M!Crash, M!InFlight
<1>4. \A k \in DOMAIN table' : table'[k] \in orphans'
  BY DEF ProcessDies, M!Crash, M!Range
<1> QED
  BY <1>1, <1>2, <1>3, <1>4

LEMMA Inductive == ASSUME Serial PROVE Spec => []Inv
<1> USE DEF Inv, SweepsStarted, OneShutdown, MountsOver, SweptClear, StageAfterSweep,
            GoingDown, DeadIsQuiet
<1> DEFINE AllTypes == MP!TypeOK /\ LP!TypeOK /\ TypeOK
<1>1. Init => Inv
  BY DEF Init, L!Init, M!Init, M!InFlight
<1>2. AllTypes /\ Inv /\ [Next]_vars => Inv'
  <2> SUFFICES ASSUME AllTypes, Inv, [Next]_vars PROVE Inv'
    OBVIOUS
  <2>0. /\ mntPc \in [Requests -> MP!MntPcs] /\ swPc \in [Shutdowns -> MP!SwPcs]
        /\ shutPc \in [Shutdowns -> LP!ShutPcs] /\ stage \in [Shutdowns -> Stages]
    BY DEF MP!TypeOK, LP!TypeOK, TypeOK
  <2> HIDE DEF AllTypes
  <2>1. CASE LifecycleStep
    <3>1. UNCHANGED <<shutPc, mntPc, swPc, mounts, stage, power, table, orphans>>
      BY <2>1, LifecycleLeaves DEF mVars, dVars
    <3> QED
      BY <2>1, <3>1, LifecycleLeaves
  <2>2. ASSUME NEW r \in Requests, MountRequest(r)
        PROVE  Inv'
    <3>1. /\ runPc # "dead"
          /\ \A s \in Shutdowns : shutPc[s] = "none"
          /\ UNCHANGED <<runPc, shutPc, swPc, mounts, stage, power>>
      BY <2>2 DEF MountRequest, Serving, M!MountReject, M!MountBegin, lVars, dVars
    <3> QED
      BY <3>1
  <2>3. ASSUME NEW r \in Requests, MountWork(r)
        PROVE  Inv'
    <3>1. mntPc[r] \in M!InFlight
      BY <2>3 DEF MountWork, M!MountFail, M!MountDone, M!MountLoad, M!MountStore, M!InFlight
    <3>2. runPc # "dead" /\ \A s \in Shutdowns : shutPc[s] = "none"
      BY <3>1
    <3>3. UNCHANGED <<runPc, shutPc, swPc, stage, power>>
      BY <2>3 DEF MountWork, M!MountFail, M!MountDone, M!MountLoad, M!MountStore, lVars, dVars
    <3> QED
      BY <3>2, <3>3
  <2>4. ASSUME NEW s \in Shutdowns, Accept(s)
        PROVE  Inv'
    <3>1. /\ runPc # "dead"
          /\ \A t \in Shutdowns : shutPc[t] = "none"
          /\ \A r \in Requests : mntPc[r] \notin M!InFlight
          /\ shutPc' = [shutPc EXCEPT ![s] = "accepted"]
          /\ UNCHANGED <<runPc, mounts, table, mntPc, swPc, orphans, stage, power>>
      BY <2>4 DEF Accept, L!AcceptShutdown, M!Quiet, mVars, dVars
    <3> QED
      BY <2>0, <3>1
  <2>5. ASSUME NEW s \in Shutdowns, Announce(s) \/ Request(s)
        PROVE  Inv'
    <3>1. /\ shutPc[s] # "none"
          /\ shutPc'[s] # "none"
          /\ \A t \in Shutdowns : t # s => shutPc'[t] = shutPc[t]
          /\ UNCHANGED <<runPc, mounts, table, mntPc, swPc, orphans, stage, power>>
      BY <2>0, <2>5 DEF Announce, Request, L!ShutdownTransition, L!RequestShutdown, mVars, dVars
    <3> QED
      BY <3>1
  <2>6. ASSUME NEW s \in Shutdowns, Sweep(s)
        PROVE  Inv'
    <3>1. /\ shutPc[s] # "none" /\ runPc # "dead"
          /\ UNCHANGED <<runPc, shutPc, stage, power>>
      BY <2>6 DEF Sweep, lVars, dVars
    <3>2. /\ swPc[s] # "done" /\ mntPc' = mntPc
          /\ \A t \in Shutdowns : t # s => swPc'[t] = swPc[t]
          /\ swPc'[s] = "done" => mounts' = <<>>
      BY <2>0, <2>6 DEF Sweep, M!SweepStep, M!SweepBegin, M!SweepRead, M!SweepUmount, M!SweepClear
    <3>3. \A t \in Shutdowns : t # s => swPc[t] = "idle"
      BY <3>1
    <3> QED
      BY <3>1, <3>2, <3>3
  <2>7. ASSUME NEW s \in Shutdowns, Sync(s) \/ Poweroff(s)
        PROVE  Inv'
    <3>1. /\ swPc[s] = "done"
          /\ stage'[s] # "none"
          /\ \A t \in Shutdowns : t # s => stage'[t] = stage[t]
          /\ UNCHANGED <<runPc, shutPc, mounts, table, mntPc, swPc, orphans>>
      BY <2>0, <2>7 DEF Sync, Poweroff, lVars, mVars
    <3> QED
      BY <3>1
  <2>8. CASE Exit \/ Panic \/ Kill
    <3>1. ProcessDies
      BY <2>8 DEF Exit, Panic, Kill
    <3> QED
      BY <3>1, DeathLeaves
  <2>9. CASE Restart
    BY <2>9 DEF Restart, L!Restart, mVars, dVars
  <2>10. CASE TurnOff
    BY <2>10 DEF TurnOff, lVars, mVars
  <2>11. CASE UNCHANGED vars
    BY <2>11 DEF vars, lVars, mVars, dVars
  <2> QED
    BY <2>1, <2>2, <2>3, <2>4, <2>5, <2>6, <2>7, <2>8, <2>9, <2>10, <2>11
    DEF Next, ExecuteStep
<1>3. Spec => []MP!TypeOK
  BY ComponentAssumption, Components, MP!TypeCorrect, PTL DEF MP!NoMount
<1>4. Spec => []LP!TypeOK
  BY ComponentAssumption, NoSender, Components, LP!TypeCorrect, PTL
<1> QED
  BY <1>1, <1>2, <1>3, <1>4, Types, PTL DEF Spec

(* With a host that takes care, no call begins beside another, and so no   *)
(* two goroutines use the list at once.                                    *)
LEMMA NothingOverlaps == ASSUME Serial PROVE Spec => []~overlap
<1>1. Init => ~overlap
  BY DEF Init, M!Init
<1>2. MP!TypeOK /\ Inv /\ ~overlap /\ [Next]_vars => ~overlap'
  <2> SUFFICES ASSUME MP!TypeOK, Inv, ~overlap, [Next]_vars PROVE ~overlap'
    OBVIOUS
  <2>1. ASSUME NEW r \in Requests, MountRequest(r)
        PROVE  ~overlap'
    BY <2>1, Zenon DEF MountRequest, M!MountReject, M!MountBegin, M!BeginCall
  <2>2. ASSUME NEW s \in Shutdowns, Sweep(s)
        PROVE  ~overlap'
    <3>1. CASE M!SweepBegin(s)
      <4>1. shutPc[s] # "none" /\ swPc[s] = "idle"
        BY <2>2, <3>1 DEF Sweep, M!SweepBegin
      <4>2. \A t \in Shutdowns : swPc[t] = "idle"
        BY <4>1 DEF Inv, SweepsStarted, OneShutdown
      <4>3. M!Quiet
        BY <4>1, <4>2 DEF Inv, MountsOver, M!Quiet, M!Sweeping
      <4> QED
        BY <3>1, <4>3, Zenon DEF M!SweepBegin, M!BeginCall
    <3>2. CASE M!SweepRead(s) \/ M!SweepUmount(s) \/ M!SweepClear(s)
      BY <3>2, Zenon DEF M!SweepRead, M!SweepUmount, M!SweepClear
    <3> QED
      BY <2>2, <3>1, <3>2 DEF Sweep, M!SweepStep
  <2>3. ASSUME NEW r \in Requests, MountWork(r)
        PROVE  ~overlap'
    BY <2>3, Zenon DEF MountWork, M!MountFail, M!MountDone, M!MountLoad, M!MountStore
  <2>4. CASE Exit \/ Panic \/ Kill
    <3>1. M!Crash
      BY <2>4 DEF Exit, Panic, Kill, ProcessDies
    <3> QED
      BY <3>1, Zenon DEF M!Crash
  <2>5. CASE UNCHANGED mVars
    BY <2>5, Zenon DEF mVars
  <2>6. ASSUME NEW s \in Shutdowns,
               Accept(s) \/ Announce(s) \/ Sync(s) \/ Poweroff(s) \/ Request(s)
        PROVE  UNCHANGED mVars
    BY <2>6 DEF Accept, Announce, Sync, Poweroff, Request
  <2>7. CASE LifecycleStep \/ Restart \/ TurnOff \/ UNCHANGED vars
    <3>1. UNCHANGED mVars
      BY <2>7 DEF LifecycleStep, Restart, TurnOff, vars
    <3> QED
      BY <2>5, <3>1
  <2> QED
    BY <2>1, <2>2, <2>3, <2>4, <2>5, <2>6, <2>7 DEF Next, ExecuteStep
<1>3. Spec => []MP!TypeOK
  BY ComponentAssumption, Components, MP!TypeCorrect, PTL DEF MP!NoMount
<1> QED
  BY <1>1, <1>2, <1>3, Inductive, PTL DEF Spec

(* With a host that asks for one shutdown, with no mount running, and for  *)
(* no mount after: whatever fails (umount, sync, systemctl, the process    *)
(* itself), the machine goes down only after umount was run for every      *)
(* mount the daemon made.                                                  *)
THEOREM CleanShutdown == ASSUME Serial PROVE Spec => []CleanPowerOff
<1>1. MP!TypeOK /\ MP!Accounted /\ Inv => CleanPowerOff
  <2> SUFFICES ASSUME MP!TypeOK, MP!Accounted, Inv, power # "on",
                      NEW k \in DOMAIN table
               PROVE  table[k] \in tried \cup orphans
    BY DEF CleanPowerOff
  <2>1. CASE runPc = "dead"
    BY <2>1 DEF Inv, DeadIsQuiet
  <2>2. CASE runPc # "dead"
    <3>1. PICK s \in Shutdowns : stage[s] # "none"
      BY <2>2 DEF Inv, GoingDown
    <3>2. mounts = <<>> /\ shutPc[s] # "none"
      BY <3>1 DEF Inv, StageAfterSweep, SweptClear, SweepsStarted
    <3>3. table[k] \in Requests
      BY DEF MP!TypeOK
    <3>4. mntPc[table[k]] \notin {"mounted", "loaded"}
      BY <3>2, <3>3 DEF Inv, MountsOver, M!InFlight
    <3>5. table[k] \notin MP!Range(mounts)
      BY <3>2 DEF MP!Range
    <3> QED
      BY <3>4, <3>5 DEF MP!Accounted
  <2> QED
    BY <2>1, <2>2
<1>2. Spec => []MP!TypeOK
  BY ComponentAssumption, Components, MP!TypeCorrect, PTL DEF MP!NoMount
<1>3. Spec => [](MP!NoForgottenMount /\ (~overlap => ~race))
  <2>1. MP!Alone /\ ~race => ~race
    OBVIOUS
  <2> QED
    BY <2>1, ComponentAssumption, Components, MP!NothingForgotten, MP!AloneInvariant,
       PTL DEF MP!NoMount
<1>4. MP!NoForgottenMount /\ (~overlap => ~race) /\ ~overlap => MP!Accounted
  BY Zenon DEF MP!NoForgottenMount
<1> QED
  BY <1>1, <1>2, <1>3, <1>4, NothingOverlaps, Inductive, PTL

-----------------------------------------------------------------------------
(* What was proved of the components by themselves holds of the daemon.    *)

(* A lifecycle that has settled in shutdown stays there, healthy is backed *)
(* by a running agent, the host sees only what the contract allows; the    *)
(* list holds only mounts that were made, and as long as no two goroutines *)
(* use it at once, it has them all and every sweep visits the whole of it; *)
(* as long as no two calls overlap, sweeps go last in, first out.          *)
THEOREM Inherited ==
  Spec => /\ LP!ShutdownIsFinal /\ LP!HealthyIsBacked /\ LP!ImplementsContract
          /\ [](MP!OnlyRealMounts /\ MP!NoForgottenMount /\ MP!SweepInBounds
                /\ MP!NestedFirst)
BY ComponentAssumption, NoSender, Components, LP!ShutdownStays, LP!HealthyBacked, LP!Implementation,
   MP!RealMounts, MP!NothingForgotten, MP!InBounds, MP!LastInFirstOut, PTL DEF MP!NoMount

-----------------------------------------------------------------------------
(* The order of a shutdown, for a host of any kind: with any number of     *)
(* shutdown requests at once and mounts in between.                        *)
ExecuteOrder ==
  \A s \in Shutdowns :
    /\ swPc[s] # "idle" => shutPc[s] \in {"stopping", "done"}
    /\ stage[s] # "none" => swPc[s] = "done"
    /\ shutPc[s] = "done" => stage[s] = "returned"

StopInv ==
  /\ ExecuteOrder
  /\ requested => runPc = "dead" \/ \E s \in Shutdowns : shutPc[s] = "done"
  /\ runPc \in {"cleanup", "closing"} => requested \/ cancelled
  /\ GoingDown

LEMMA Ordered == Spec => []StopInv
<1> USE DEF StopInv, ExecuteOrder, GoingDown
<1> DEFINE AllTypes == MP!TypeOK /\ LP!TypeOK /\ TypeOK
<1>1. Init => StopInv
  BY DEF Init, L!Init, M!Init
<1>2. AllTypes /\ StopInv /\ [Next]_vars => StopInv'
  <2> SUFFICES ASSUME AllTypes, StopInv, [Next]_vars PROVE StopInv'
    OBVIOUS
  <2>0. /\ swPc \in [Shutdowns -> MP!SwPcs]
        /\ shutPc \in [Shutdowns -> LP!ShutPcs] /\ stage \in [Shutdowns -> Stages]
    BY DEF MP!TypeOK, LP!TypeOK, TypeOK
  <2> HIDE DEF AllTypes
  <2>1. CASE LifecycleStep
    <3>1. UNCHANGED <<shutPc, swPc, stage, power>> /\ (runPc' = "dead" <=> runPc = "dead")
      BY <2>1, LifecycleLeaves DEF mVars, dVars
    <3>2. /\ requested' = requested /\ (cancelled => cancelled')
          /\ runPc' \in {"cleanup", "closing"}
               => runPc \in {"cleanup", "closing"} \/ requested \/ cancelled
      BY <2>1 DEF LifecycleStep, L!RunStep, L!RunBoot, L!RunServe, L!RunReady, L!RunWake,
         L!RunCleanup, L!PollStep, L!PollWork, L!PollAsk, L!PollFail, L!PollReply,
         L!PollReplace, L!PollCheck, L!PollPromote, L!PollStop, L!AgentdChange, L!Signal, L!Push
    <3> QED
      BY <3>1, <3>2
  <2>2. ASSUME NEW r \in Requests, MountRequest(r) \/ MountWork(r)
        PROVE  StopInv'
    <3>1. UNCHANGED <<runPc, cancelled, requested, shutPc, swPc, stage, power>>
      BY <2>2 DEF MountRequest, MountWork, M!MountReject, M!MountBegin, M!MountFail, M!MountDone,
         M!MountLoad, M!MountStore, lVars, dVars
    <3> QED
      BY <3>1
  <2>3. ASSUME NEW s \in Shutdowns, Accept(s)
        PROVE  StopInv'
    <3>1. /\ shutPc[s] = "none" /\ shutPc' = [shutPc EXCEPT ![s] = "accepted"]
          /\ UNCHANGED <<runPc, cancelled, requested, swPc, stage, power>>
      BY <2>3 DEF Accept, L!AcceptShutdown, mVars, dVars
    <3> QED
      BY <2>0, <3>1
  <2>4. ASSUME NEW s \in Shutdowns, Announce(s)
        PROVE  StopInv'
    <3>1. /\ shutPc[s] = "accepted" /\ shutPc' = [shutPc EXCEPT ![s] = "stopping"]
          /\ UNCHANGED <<runPc, cancelled, requested, swPc, stage, power>>
      BY <2>4 DEF Announce, L!ShutdownTransition, mVars, dVars
    <3> QED
      BY <2>0, <3>1
  <2>5. ASSUME NEW s \in Shutdowns, Sweep(s)
        PROVE  StopInv'
    <3>1. /\ shutPc[s] = "stopping"
          /\ UNCHANGED <<runPc, cancelled, requested, shutPc, stage, power>>
      BY <2>5 DEF Sweep, lVars, dVars
    <3>2. /\ swPc[s] # "done"
          /\ \A t \in Shutdowns : t # s => swPc'[t] = swPc[t]
      BY <2>0, <2>5 DEF Sweep, M!SweepStep, M!SweepBegin, M!SweepRead, M!SweepUmount, M!SweepClear
    <3> QED
      BY <3>1, <3>2
  <2>6. ASSUME NEW s \in Shutdowns, Sync(s) \/ Poweroff(s)
        PROVE  StopInv'
    <3>1. /\ swPc[s] = "done" /\ stage[s] # "returned" /\ stage'[s] # "none"
          /\ \A t \in Shutdowns : t # s => stage'[t] = stage[t]
          /\ UNCHANGED <<runPc, cancelled, requested, shutPc, swPc>>
      BY <2>0, <2>6 DEF Sync, Poweroff, lVars, mVars
    <3> QED
      BY <3>1
  <2>7. ASSUME NEW s \in Shutdowns, Request(s)
        PROVE  StopInv'
    <3>1. /\ stage[s] = "returned" /\ shutPc[s] = "stopping"
          /\ shutPc' = [shutPc EXCEPT ![s] = "done"] /\ requested' = TRUE
          /\ UNCHANGED <<runPc, cancelled, swPc, stage, power>>
      BY <2>7 DEF Request, L!RequestShutdown, mVars, dVars
    <3> QED
      BY <2>0, <3>1
  <2>8. CASE Exit \/ Panic \/ Kill
    <3>1. ProcessDies
      BY <2>8 DEF Exit, Panic, Kill
    <3> QED
      BY <3>1, DeathLeaves
  <2>9. CASE Restart
    BY <2>9 DEF Restart, L!Restart, mVars, dVars
  <2>10. CASE TurnOff
    BY <2>10 DEF TurnOff, lVars, mVars
  <2>11. CASE UNCHANGED vars
    BY <2>11 DEF vars, lVars, mVars, dVars
  <2> QED
    BY <2>1, <2>2, <2>3, <2>4, <2>5, <2>6, <2>7, <2>8, <2>9, <2>10, <2>11
    DEF Next, ExecuteStep
<1>3. Spec => []MP!TypeOK
  BY ComponentAssumption, Components, MP!TypeCorrect, PTL DEF MP!NoMount
<1>4. Spec => []LP!TypeOK
  BY ComponentAssumption, NoSender, Components, LP!TypeCorrect, PTL
<1> QED
  BY <1>1, <1>2, <1>3, <1>4, Types, PTL DEF Spec

(* However Executes, mounts, failures, panics, signals and restarts        *)
(* overlap: Run leaves its select only for a signal or for an Execute that *)
(* has been through all of its steps, and the machine of a living daemon   *)
(* goes down only after an accepted shutdown has swept the mounts.         *)
THEOREM PoweroffBeforeExit == Spec => []OrderlyEnd
<1>1. StopInv => OrderlyEnd
  BY DEF StopInv, ExecuteOrder, GoingDown, OrderlyEnd
<1> QED
  BY <1>1, Ordered, PTL

=============================================================================
