----------------------------- MODULE ServersProofs -----------------------------
(***************************************************************************)
(* For any number of connections, any listen mode and any answer of        *)
(* /dev/vsock: what module Servers shows of a start over whatever an       *)
(* earlier one left, of Run, Serve and Close ending each other, and of     *)
(* what the ack of a shutdown stands for.                                  *)
(***************************************************************************)
EXTENDS Servers, FiniteSetTheorems, TLAPS

(* Run's own steps through its servers are those below; connections and    *)
(* the ends of Execute touch none of what these theorems are about.        *)
watched == <<runPc, cancelled, kind, listening, serve, socket, ipc, lis, srv,
             drain, closer, broke, mode, cid, perm, made, result>>

LEMMA ConnectionsLeave ==
  ASSUME NEW c \in Conns, Client(c) \/ ConnStep(c) \/ ExecuteStep(c)
  PROVE  UNCHANGED watched
<1> USE DEF watched
<1>1. CASE Client(c)
  BY <1>1 DEF Client, C!Client, C!Connect, C!Send, C!Leave, C!serverVars, lVars, iVars, bVars
<1>2. CASE HandleShutdown(c)
  BY <1>2 DEF HandleShutdown, C!Handle, C!serverVars, L!AcceptShutdown, iVars, bVars
<1>3. CASE ConnStep(c) /\ ~HandleShutdown(c)
  BY <1>3 DEF ConnStep, C!Scan, C!ScanEnd, C!WriteResponse, C!WriteResponseFails, C!Return,
     C!serverVars, lVars, iVars, bVars
<1>4. CASE ExecuteStep(c)
  BY <1>4 DEF ExecuteStep, L!ShutdownTransition, L!RequestShutdown, cVars, iVars, bVars
<1> QED
  BY <1>1, <1>2, <1>3, <1>4

LEMMA DeathLeaves ==
  ASSUME BootFails \/ ServerError \/ Exit \/ Kill
  PROVE  /\ ProcessDies
         /\ runPc' = "dead" /\ made' = 0 /\ listening' = TRUE /\ serve' = "loop"
         /\ ipc' = "remove" /\ lis' = "none" /\ srv' = "none" /\ drain' = "off"
         /\ closer' = "idle"
<1>1. ProcessDies
  BY DEF BootFails, ServerError, Exit, Kill
<1> QED
  BY <1>1 DEF ProcessDies, L!Die, I!NewProcess

-----------------------------------------------------------------------------
(* Booting: the directories made so far are as documented, and Run does    *)
(* not get past them before the third.                                     *)
BootInv ==
  /\ made \in 0 .. 3
  /\ perm \in [Dirs -> Perms]
  /\ \A d \in Dirs : d <= made => perm[d] = "documented"
  /\ Started \/ runPc = "listen" => made = 3

LEMMA Booting == Spec => []BootInv
<1> USE DEF BootInv, Started, Dirs, Perms
<1>1. Init => BootInv
  BY DEF Init, L!Init
<1>2. BootInv /\ [Next]_vars => BootInv'
  <2> SUFFICES ASSUME BootInv, [Next]_vars PROVE BootInv'
    OBVIOUS
  <2>1. CASE EnsureDir
    BY <2>1 DEF EnsureDir, lVars, cVars
  <2>2. CASE Boot
    BY <2>2 DEF Boot, L!RunBoot, cVars, bVars
  <2>3. CASE CreateListener
    BY <2>3 DEF CreateListener, L!RunServe, bVars
  <2>4. CASE RunStep /\ ~EnsureDir /\ ~Boot /\ ~CreateListener
    BY <2>4 DEF RunStep, L!RunReady, L!RunWake, L!RunCleanup, cVars, bVars
  <2>5. CASE BootFails \/ ServerError \/ Exit \/ Kill
    <3>1. perm' \in [Dirs -> Perms]
      BY <2>5 DEF BootFails, ServerError, Exit, Kill
    <3>2. runPc' = "dead" /\ made' = 0
      BY <2>5, DeathLeaves
    <3> QED
      BY <3>1, <3>2
  <2>6. CASE ControlStep
    BY <2>6 DEF ControlStep, C!ServeStep, C!EnterAccept, C!Accept, C!AcceptClosed, C!ServeError,
       C!Waited, C!CloseListener, lVars, bVars
  <2>7. CASE AcceptFails
    BY <2>7 DEF AcceptFails, C!ServeError, lVars, bVars
  <2>8. ASSUME NEW c \in Conns, Client(c) \/ ConnStep(c) \/ ExecuteStep(c)
        PROVE  BootInv'
    BY <2>8, ConnectionsLeave DEF watched
  <2>9. CASE IPCStep \/ IPCAcceptFails \/ Drain \/ Close
    BY <2>9 DEF IPCStep, IPCAcceptFails, Drain, Close, lVars, cVars, bVars
  <2>10. CASE Signal
    BY <2>10 DEF Signal, L!Signal, cVars, bVars
  <2>11. CASE Restart
    BY <2>11 DEF Restart, L!Restart, cVars
  <2>12. CASE UNCHANGED vars
    BY <2>12 DEF vars, lVars, cVars, bVars
  <2> QED
    BY <2>1, <2>2, <2>3, <2>4, <2>5, <2>6, <2>7, <2>8, <2>9, <2>10, <2>11, <2>12 DEF Next, RunStep
<1> QED
  BY <1>1, <1>2, PTL DEF Spec

(* A daemon that serves has made every runtime directory as documented,    *)
(* over whatever an earlier or interrupted start left of it.               *)
THEOREM Directories == Spec => []DirsAsDocumented
<1>1. BootInv => DirsAsDocumented
  BY DEF BootInv, DirsAsDocumented, Dirs
<1> QED
  BY <1>1, Booting, PTL

-----------------------------------------------------------------------------
(* Ending.  From bind on, the socket is there only while the listener is   *)
(* open; until the server stops it or Close has begun, it is open.  A Serve*)
(* that fails does so after a fault, or because Close has begun, and Close *)
(* begins when Run no longer selects.                                      *)
SocketInv ==
  /\ ipc = "listen" => socket = "none"
  /\ ipc \in {"remove", "listen"} => lis = "none"
  /\ ipc \in {"remove", "listen", "chmod", "setup"} => srv = "none" /\ drain = "off"
  /\ ipc # "remove" /\ socket # "none" => lis = "open"
  /\ ipc \in I!Ended => lis # "open"

StopInv ==
  /\ ~Started => listening /\ serve = "loop" /\ ipc = "remove"
  /\ ~listening => cancelled
  /\ closer # "idle" => runPc = "closing"
  /\ ipc = "chmod" /\ socket = "none" => closer # "idle"
  /\ ipc \in {"chmod", "setup", "ready", "serving"} /\ lis = "closed"
       => srv = "closed" \/ closer # "idle"
  /\ serve = "failed" => broke
  /\ ipc = "failed" => broke \/ closer # "idle"

EndInv == SocketInv /\ StopInv

LEMMA Ending == Spec => []EndInv
<1> USE DEF EndInv, SocketInv, StopInv, Started, I!Ended
<1>1. Init => EndInv
  BY DEF Init, L!Init, C!Init, I!Fresh
<1>2. EndInv /\ [Next]_vars => EndInv'
  <2> SUFFICES ASSUME EndInv, [Next]_vars PROVE EndInv'
    OBVIOUS
  <2>1. CASE RunStep
    <3>1. UNCHANGED <<listening, serve, cancelled, socket, ipc, lis, srv, drain, closer>>
      BY <2>1 DEF RunStep, EnsureDir, Boot, CreateListener, L!RunBoot, L!RunServe, L!RunReady,
         L!RunWake, L!RunCleanup, cVars, iVars
    <3>2. broke => broke'
      BY <2>1 DEF RunStep, EnsureDir, Boot, CreateListener
    <3>3. runPc # "closing" /\ runPc' # "dead" /\ (Started => Started')
      BY <2>1 DEF RunStep, EnsureDir, Boot, CreateListener, L!RunBoot, L!RunServe, L!RunReady,
         L!RunWake, L!RunCleanup, lVars
    <3> QED
      BY <3>1, <3>2, <3>3
  <2>2. CASE BootFails \/ ServerError \/ Exit \/ Kill
    BY <2>2, DeathLeaves
  <2>3. CASE ControlStep
    <3>1. Started /\ UNCHANGED <<runPc, cancelled, socket, ipc, lis, srv, drain, closer, broke>>
      BY <2>3 DEF ControlStep, C!ServeStep, C!EnterAccept, C!Accept, C!AcceptClosed,
         C!ServeError, C!Waited, C!CloseListener, lVars, iVars
    <3>2. (~listening' => cancelled) /\ (serve' = "failed" => broke)
      BY <2>3 DEF ControlStep, C!ServeStep, C!EnterAccept, C!Accept, C!AcceptClosed,
         C!ServeError, C!Waited, C!CloseListener
    <3> QED
      BY <3>1, <3>2
  <2>4. CASE AcceptFails
    BY <2>4 DEF AcceptFails, C!AcceptFails, C!ServeError, lVars, iVars
  <2>5. ASSUME NEW c \in Conns, Client(c) \/ ConnStep(c) \/ ExecuteStep(c)
        PROVE  EndInv'
    BY <2>5, ConnectionsLeave DEF watched
  <2>6. CASE IPCStep
    <3>1. Started /\ UNCHANGED <<runPc, cancelled, listening, serve, closer>>
      BY <2>6 DEF IPCStep, I!ServeStep, I!RemoveStale, I!Listen, I!ListenFails, I!Chmod,
         I!ChmodFails, I!SetUp, I!HTTPServe, I!HTTPServeClosed, I!HTTPServeEnds, lVars, cVars
    <3>2. broke => broke'
      BY <2>6 DEF IPCStep, I!ServeStep, I!RemoveStale, I!Listen, I!ListenFails, I!Chmod,
         I!ChmodFails, I!SetUp, I!HTTPServe, I!HTTPServeClosed, I!HTTPServeEnds
    <3>3. CASE I!RemoveStale \/ I!Listen \/ I!ListenFails
      BY <3>1, <3>2, <3>3 DEF I!RemoveStale, I!Listen, I!ListenFails
    <3>4. CASE I!Chmod \/ I!ChmodFails \/ I!SetUp
      BY <3>1, <3>2, <3>4 DEF I!Chmod, I!ChmodFails, I!SetUp, I!Unlinked
    <3>5. CASE I!HTTPServe \/ I!HTTPServeClosed \/ I!HTTPServeEnds
      BY <3>1, <3>2, <3>5 DEF I!HTTPServe, I!HTTPServeClosed, I!HTTPServeEnds, I!Unlinked
    <3> QED
      BY <2>6, <3>3, <3>4, <3>5 DEF IPCStep, I!ServeStep
  <2>7. CASE Drain
    BY <2>7 DEF Drain, I!Drain, I!StopServer, I!Unlinked, lVars, cVars
  <2>8. CASE Close
    <3>1. runPc = "closing" /\ UNCHANGED <<runPc, cancelled, listening, serve, ipc, drain, broke>>
      BY <2>8 DEF Close, I!Close, I!CloseServer, I!CloseListener, I!RemoveSocket, lVars, cVars
    <3>2. closer' # "idle"
      BY <2>8 DEF Close, I!Close, I!CloseServer, I!CloseListener, I!RemoveSocket
    <3>3. SocketInv'
      BY <2>8, <3>1 DEF Close, I!Close, I!CloseServer, I!CloseListener, I!RemoveSocket,
         I!StopServer, I!Unlinked
    <3> QED
      BY <3>1, <3>2, <3>3
  <2>9. CASE Signal
    BY <2>9 DEF Signal, L!Signal, cVars, iVars
  <2>10. CASE Restart
    BY <2>10 DEF Restart, L!Restart, cVars, iVars
  <2>11. CASE IPCAcceptFails
    BY <2>11 DEF IPCAcceptFails, I!AcceptFails, I!Unlinked, lVars, cVars
  <2>12. CASE UNCHANGED vars
    BY <2>12 DEF vars, lVars, cVars, iVars
  <2> QED
    BY <2>1, <2>2, <2>3, <2>4, <2>5, <2>6, <2>7, <2>8, <2>9, <2>10, <2>11, <2>12 DEF Next
<1> HIDE DEF EndInv
<1> QED
  BY <1>1, <1>2, PTL DEF Spec

(* In whatever order the steps of Close and Serve come, no socket is left. *)
THEOREM NoSocketLeft == Spec => []SocketRemoved
<1>1. EndInv => SocketRemoved
  BY DEF EndInv, SocketInv, SocketRemoved, I!SocketRemoved, I!Ended
<1> QED
  BY <1>1, Ending, PTL

(* Run returns a server's error only after a system call failed by itself: *)
(* a stop request is never taken for one.                                  *)
THEOREM StopsCleanly == Spec => StopIsNoError
<1>1. EndInv /\ [Next]_vars
      => [result' = "server error" /\ result # "server error" => broke]_vars
  <2> SUFFICES ASSUME EndInv, Next, result' = "server error", result # "server error"
               PROVE  broke
    OBVIOUS
  <2>1. CASE ServerError
    BY <2>1 DEF ServerError, EndInv, StopInv
  <2>2. CASE BootFails \/ Exit \/ Kill \/ Restart
    BY <2>2 DEF BootFails, Exit, Kill, Restart
  <2>3. CASE RunStep
    BY <2>3 DEF RunStep, EnsureDir, Boot, CreateListener, bVars
  <2>4. ASSUME NEW c \in Conns, Client(c) \/ ConnStep(c) \/ ExecuteStep(c)
        PROVE  broke
    BY <2>4, ConnectionsLeave DEF watched
  <2>5. CASE ControlStep \/ AcceptFails \/ IPCStep \/ IPCAcceptFails \/ Drain \/ Close \/ Signal
    BY <2>5 DEF ControlStep, AcceptFails, IPCStep, IPCAcceptFails, Drain, Close, Signal, bVars
  <2> QED
    BY <2>1, <2>2, <2>3, <2>4, <2>5 DEF Next
<1> QED
  BY <1>1, Ending, PTL DEF Spec, StopIsNoError

-----------------------------------------------------------------------------
(* Types.  Run's part of a step is one of module Lifecycle, and the control*)
(* server's part keeps the invariant of ControlServerProofs, a restart     *)
(* included: what was shown of either by itself holds of both together.    *)
LP == INSTANCE LifecycleProofs WITH
  Agents <- {}, Shutdowns <- Conns, SetsSender <- FALSE

CP == INSTANCE ControlServerProofs WITH
  Deaf      <- Conns,
  Kinds     <- {"tcp", "vsock"},
  Says      <- [c \in Conns |-> {Shutdown}],
  MaxLines  <- [c \in Conns |-> 1],
  Content   <- [c \in Conns |-> <<>>],
  Leftovers <- {None},
  dir       <- [n \in {"jcard.toml"} |-> None],
  file      <- [n \in {"jcard.toml"} |-> [data |-> <<>>, attr |-> None]],
  alone     <- [c \in Conns |-> FALSE]

LEMMA LifecycleSpec == Spec => LP!Spec
<1> USE DEF L!NoState, LP!NoState, L!Threads, LP!Threads, L!lmVars, LP!lmVars,
            L!pollVars, LP!pollVars, L!Transition, LP!Transition
<1>1. Init => LP!Init
  BY DEF Init, L!Init, LP!Init
<1>2. [Next]_vars => [LP!Next]_LP!vars
  <2> SUFFICES ASSUME [Next]_vars PROVE LP!Next \/ UNCHANGED LP!vars
    OBVIOUS
  <2>1. CASE RunStep
    <3>1. CASE EnsureDir
      BY <3>1 DEF EnsureDir, lVars, LP!vars
    <3>2. CASE L!RunBoot \/ L!RunServe \/ L!RunReady
      BY <3>2 DEF L!RunBoot, LP!RunBoot, L!RunServe, LP!RunServe, L!RunReady, LP!RunReady,
         LP!RunStep, LP!Next
    <3>3. CASE L!RunWake \/ L!RunCleanup
      BY <3>3 DEF L!RunWake, LP!RunWake, L!RunCleanup, LP!RunCleanup, LP!RunStep, LP!Next
    <3> QED
      BY <2>1, <3>1, <3>2, <3>3 DEF RunStep, Boot, CreateListener
  <2>2. CASE BootFails \/ ServerError \/ Exit \/ Kill
    BY <2>2, DeathLeaves DEF ProcessDies, L!Die, LP!Die, LP!Next
  <2>3. CASE ControlStep \/ AcceptFails
    BY <2>3 DEF ControlStep, AcceptFails, C!ServeStep, C!EnterAccept, C!Accept, C!AcceptClosed,
       C!ServeError, C!Waited, C!CloseListener, lVars, LP!vars
  <2>4. ASSUME NEW c \in Conns, HandleShutdown(c) \/ ExecuteStep(c)
        PROVE  LP!Next
    BY <2>4 DEF HandleShutdown, ExecuteStep, L!AcceptShutdown, LP!AcceptShutdown,
       L!ShutdownTransition, LP!ShutdownTransition, L!RequestShutdown, LP!RequestShutdown, LP!Next
  <2>5. ASSUME NEW c \in Conns, Client(c) \/ ConnStep(c), ~HandleShutdown(c)
        PROVE  UNCHANGED LP!vars
    <3>1. UNCHANGED cancelled
      BY <2>5, ConnectionsLeave DEF watched
    <3> QED
      BY <2>5, <3>1 DEF Client, ConnStep, lVars, LP!vars
  <2>6. CASE IPCStep \/ IPCAcceptFails \/ Drain \/ Close
    BY <2>6 DEF IPCStep, IPCAcceptFails, Drain, Close, lVars, LP!vars
  <2>7. CASE Signal \/ Restart
    BY <2>7 DEF Signal, Restart, L!Signal, LP!Signal, L!Restart, LP!Restart, LP!Next
  <2>8. CASE UNCHANGED vars
    BY <2>8 DEF vars, lVars, LP!vars
  <2> QED
    BY <2>1, <2>2, <2>3, <2>4, <2>5, <2>6, <2>7, <2>8 DEF Next
<1> QED
  BY <1>1, <1>2, PTL DEF Spec, LP!Spec

LEMMA SameControl ==
  /\ \A c \in Conns : C!Client(c) => CP!Client(c)
  /\ C!ServeStep => CP!ServeStep
  /\ C!AcceptFails /\ C!ServeError => CP!AcceptFails /\ CP!ServeError
  /\ C!CloseListener => CP!CloseListener
  /\ \A c \in Conns :
       C!Scan(c) \/ C!ScanEnd(c) \/ C!Handle(c) \/ C!WriteResponse(c)
         \/ C!WriteResponseFails(c) \/ C!Return(c)
       => CP!ConnStep(c)
<1> USE DEF C!serverVars, CP!serverVars, C!connVars, CP!connVars, C!fileVars, CP!fileVars,
            C!ResetQueued, CP!ResetQueued, C!Alive, CP!Alive
<1>1. \A c \in Conns : C!Client(c) => CP!Client(c)
  BY DEF C!Client, CP!Client, C!Connect, CP!Connect, C!Send, CP!Send, C!Leave, CP!Leave
<1>2. C!ServeError => CP!ServeError
  BY DEF C!ServeError, CP!ServeError
<1>3. C!ServeStep => CP!ServeStep
  <2>1. \A c \in Conns : C!Accept(c) => CP!Accept(c)
    BY DEF C!Accept, CP!Accept
  <2> QED
    BY <1>2, <2>1 DEF C!ServeStep, CP!ServeStep, C!EnterAccept, CP!EnterAccept,
       C!AcceptClosed, CP!AcceptClosed, C!Waited, CP!Waited
<1>4. C!AcceptFails => CP!AcceptFails
  BY DEF C!AcceptFails, CP!AcceptFails
<1>5. C!CloseListener => CP!CloseListener
  BY DEF C!CloseListener, CP!CloseListener
<1>6. ASSUME NEW c \in Conns,
             C!Scan(c) \/ C!ScanEnd(c) \/ C!WriteResponse(c) \/ C!WriteResponseFails(c)
               \/ C!Return(c)
      PROVE  CP!ConnStep(c)
  <2>1. C!IsError(C!Line(c)) = CP!IsError(CP!Line(c))
    BY DEF C!IsError, CP!IsError, C!Line, CP!Line, C!Commands, CP!Commands
  <2> QED
    BY <1>6, <2>1 DEF C!Scan, CP!Scan, C!ScanEnd, CP!ScanEnd, C!WriteResponse, CP!WriteResponse,
       C!WriteResponseFails, CP!WriteResponseFails, C!Return, CP!Return, CP!ConnStep
<1>7. ASSUME NEW c \in Conns, C!Handle(c)
      PROVE  CP!ConnStep(c)
  <2>1. C!Line(c) = CP!Line(c)
    BY DEF C!Line, CP!Line
  <2>2. \A l : C!SetsConfig(l) <=> CP!SetsConfig(l)
    BY DEF C!SetsConfig, CP!SetsConfig
  <2>3. \A l : C!HandleMessage(l) = CP!HandleMessage(l)
    BY DEF C!HandleMessage, CP!HandleMessage, C!IsError, CP!IsError, C!Nack, CP!Nack,
       C!Commands, CP!Commands
  <2> QED
    BY <1>7, <2>1, <2>2, <2>3 DEF C!Handle, CP!Handle, CP!ConnStep
<1> QED
  BY <1>1, <1>2, <1>3, <1>4, <1>5, <1>6, <1>7

(* What module ControlServer assumes holds of its instance here.           *)
LEMMA ControlAssumptions ==
  /\ {"tcp", "vsock"} \subseteq {"tcp", "vsock"}
  /\ CP!IsFiniteSet(Conns)
  /\ Conns \subseteq Conns
  /\ \A c \in Conns : \A l \in [d \in Conns |-> {Shutdown}][c] : l.payload \in BOOLEAN
  /\ [c \in Conns |-> 1] \in [Conns -> Nat]
  /\ [c \in Conns |-> <<>>] \in [Conns -> Seq(Conns)]
  /\ {None} \subseteq Seq(Conns) \cup {None}
  /\ Faults \in BOOLEAN
  /\ None \notin Conns
<1>1. CP!IsFiniteSet(Conns) /\ Faults \in BOOLEAN
  BY ServersAssumption DEF IsFiniteSet, CP!IsFiniteSet
<1>2. None \notin Conns
  BY ServersAssumption
<1>3. [c \in Conns |-> 1] \in [Conns -> Nat]
  OBVIOUS
<1>4. [c \in Conns |-> <<>>] \in [Conns -> Seq(Conns)]
  OBVIOUS
<1>5. \A c \in Conns : \A l \in [d \in Conns |-> {Shutdown}][c] : l.payload \in BOOLEAN
  <2>1. Shutdown.payload \in BOOLEAN
    BY Zenon DEF Shutdown
  <2> QED
    BY <2>1
<1> QED
  BY <1>1, <1>2, <1>3, <1>4, <1>5

(* A process that starts has an idle control server.                       *)
LEMMA IdleControl ==
  ASSUME kind' \in {"tcp", "vsock"}, cancelled' \in BOOLEAN,
         listening' = TRUE, serve' = "loop", wg' = 0,
         link' = [c \in Conns |-> "none"],
         left' = [c \in Conns |-> FALSE],
         sent' = [c \in Conns |-> <<>>],
         next' = [c \in Conns |-> 0],
         at' = [c \in Conns |-> "none"]
  PROVE  CP!IInv'
<1>1. <<>> \in Seq(CP!Lines) /\ Len(<<>>) = 0
  OBVIOUS
<1>2. \A c \in Conns : sent'[c] = <<>> /\ next'[c] = 0
  OBVIOUS
<1>3. \A c \in Conns : next'[c] <= Len(sent'[c])
  BY <1>1, <1>2
<1>4. (CP!Lines)' = CP!Lines
  BY DEF CP!Lines
<1>5. CP!ConnTypeOK'
  BY <1>1, <1>3, <1>4 DEF CP!ConnTypeOK, CP!ServePcs, CP!Links, CP!ConnPcs
<1>6. CP!ActiveConns' = {}
  BY DEF CP!ActiveConns, CP!Active
<1>7. CP!Counted'
  BY <1>6, CP!FS_EmptySet, ControlAssumptions DEF CP!Counted
<1> QED
  BY <1>5, <1>7 DEF CP!IInv, CP!AcceptedFirst

(* Run's own steps change no more of it than the listener and the context. *)
LEMMA SameConnections ==
  ASSUME CP!IInv, kind' \in {"tcp", "vsock"}, cancelled' \in BOOLEAN,
         UNCHANGED <<listening, serve, wg, link, left, sent, next, at>>
  PROVE  CP!IInv'
<1>1. CP!ConnTypeOK' /\ CP!AcceptedFirst'
  <2>1. CP!Lines' = CP!Lines
    BY DEF CP!Lines
  <2> QED
    BY <2>1 DEF CP!IInv, CP!ConnTypeOK, CP!AcceptedFirst
<1>2. CP!ActiveConns' = CP!ActiveConns
  BY DEF CP!ActiveConns, CP!Active
<1> QED
  BY <1>1, <1>2 DEF CP!IInv, CP!Counted

OwnTypeOK ==
  /\ I!TypeOK
  /\ mode \in Modes
  /\ cid \in Cids
  /\ result \in {"none", "ok", "boot error", "server error", "killed"}

LEMMA OwnTypes == Spec => []OwnTypeOK
<1> USE DEF OwnTypeOK, I!TypeOK, I!Sockets, I!IpcPcs
<1>1. Init => OwnTypeOK
  BY DEF Init, I!Fresh
<1>2. OwnTypeOK /\ [Next]_vars => OwnTypeOK'
  <2> SUFFICES ASSUME OwnTypeOK, [Next]_vars PROVE OwnTypeOK'
    OBVIOUS
  <2>1. CASE RunStep
    <3>1. broke' \in BOOLEAN
      BY <2>1 DEF RunStep, EnsureDir, Boot, CreateListener
    <3> QED
      BY <2>1, <3>1 DEF RunStep, EnsureDir, Boot, CreateListener, iVars, bVars
  <2>2. CASE BootFails \/ ServerError \/ Exit \/ Kill
    BY <2>2, DeathLeaves DEF BootFails, ServerError, Exit, Kill, ProcessDies, I!NewProcess
  <2>3. CASE ControlStep \/ AcceptFails \/ Signal \/ Restart
    BY <2>3 DEF ControlStep, AcceptFails, Signal, Restart, iVars, bVars
  <2>4. ASSUME NEW c \in Conns, Client(c) \/ ConnStep(c) \/ ExecuteStep(c)
        PROVE  OwnTypeOK'
    BY <2>4, ConnectionsLeave DEF watched
  <2>5. CASE IPCStep
    BY <2>5 DEF IPCStep, I!ServeStep, I!RemoveStale, I!Listen, I!ListenFails, I!Chmod,
       I!ChmodFails, I!SetUp, I!HTTPServe, I!HTTPServeClosed, I!HTTPServeEnds, I!Unlinked, bVars
  <2>6. CASE Drain \/ Close
    BY <2>6 DEF Drain, I!Drain, Close, I!Close, I!CloseServer, I!CloseListener, I!RemoveSocket,
       I!StopServer, I!Unlinked, bVars
  <2>7. CASE UNCHANGED vars
    <3>1. /\ socket' = socket /\ ipc' = ipc /\ lis' = lis /\ srv' = srv
          /\ drain' = drain /\ closer' = closer
          /\ mode' = mode /\ cid' = cid /\ result' = result
      BY <2>7 DEF vars, iVars, bVars
    <3>2. broke' \in BOOLEAN
      BY <2>7 DEF vars
    <3>3. I!TypeOK'
      BY <3>1, <3>2
    <3> QED
      BY <3>1, <3>3 DEF OwnTypeOK
  <2>8. CASE IPCAcceptFails
    BY <2>8 DEF IPCAcceptFails, I!AcceptFails, I!Unlinked, bVars
  <2> QED
    BY <2>1, <2>2, <2>3, <2>4, <2>5, <2>6, <2>7, <2>8 DEF Next
<1> HIDE DEF OwnTypeOK
<1> QED
  BY <1>1, <1>2, PTL DEF Spec

LEMMA LifecycleTypes == Spec => []LP!TypeOK
<1>1. FALSE \in BOOLEAN /\ {"run", "poller"} \cap Conns = {}
  BY ServersAssumption
<1> QED
  BY <1>1, LifecycleSpec, LP!TypeCorrect, PTL

LEMMA ControlInvariant == Spec => []CP!IInv
<1>1. Init => CP!IInv
  <2>1. C!Init => CP!Init
    BY DEF C!Init, CP!Init, C!FS!Empty, CP!FS!Empty
  <2> QED
    BY <2>1, ControlAssumptions, CP!InitIInv DEF Init
<1>2. LP!TypeOK /\ LP!TypeOK' /\ OwnTypeOK /\ CP!IInv /\ [Next]_vars => CP!IInv'
  <2> SUFFICES ASSUME LP!TypeOK, LP!TypeOK', OwnTypeOK, CP!IInv, [Next]_vars PROVE CP!IInv'
    OBVIOUS
  <2>0. cancelled \in BOOLEAN /\ cancelled' \in BOOLEAN /\ kind \in {"tcp", "vsock"}
    BY DEF LP!TypeOK, CP!IInv, CP!ConnTypeOK
  <2>1. CASE RunStep
    <3>1. kind' \in {"tcp", "vsock"}
      BY <2>0, <2>1, ServersAssumption
      DEF OwnTypeOK, RunStep, EnsureDir, Boot, CreateListener, Listeners, TransportAvailable, cVars
    <3>2. UNCHANGED <<listening, serve, wg, link, left, sent, next, at>>
      BY <2>1 DEF RunStep, EnsureDir, Boot, CreateListener, cVars
    <3> QED
      BY <2>0, <3>1, <3>2, SameConnections
  <2>2. CASE BootFails \/ ServerError \/ Exit \/ Kill
    BY <2>0, <2>2, DeathLeaves, IdleControl DEF ProcessDies
  <2>3. CASE ControlStep \/ AcceptFails
    BY <2>3, SameControl, ControlAssumptions, CP!ServeKeepsIInv DEF ControlStep, AcceptFails
  <2>4. ASSUME NEW c \in Conns, Client(c)
        PROVE  CP!IInv'
    BY <2>4, SameControl, ControlAssumptions, CP!ClientKeepsIInv DEF Client
  <2>5. ASSUME NEW c \in Conns, ConnStep(c)
        PROVE  CP!IInv'
    BY <2>5, SameControl, ControlAssumptions, CP!ConnKeepsIInv DEF ConnStep, HandleShutdown
  <2>6. CASE IPCStep \/ IPCAcceptFails \/ Drain \/ Close \/ Signal \/ Restart \/ \E c \in Conns : ExecuteStep(c)
    BY <2>0, <2>6, SameConnections DEF IPCStep, IPCAcceptFails, Drain, Close, Signal, Restart, ExecuteStep, cVars
  <2>7. CASE UNCHANGED vars
    BY <2>0, <2>7, SameConnections DEF vars, cVars
  <2> QED
    BY <2>1, <2>2, <2>3, <2>4, <2>5, <2>6, <2>7 DEF Next
<1> QED
  BY <1>1, <1>2, LifecycleTypes, OwnTypes, PTL DEF Spec

(* The types of the daemon with its servers; in particular, no restart     *)
(* leaves a wait group that the connections of the new process disagree    *)
(* with.                                                                   *)
THEOREM TypeCorrect == Spec => []TypeOK
<1>1. LP!TypeOK /\ CP!TypeOK /\ OwnTypeOK /\ BootInv => TypeOK
  <2>1. LP!TypeOK => L!TypeOK
    BY DEF LP!TypeOK, L!TypeOK, LP!RunPcs, L!RunPcs, LP!States, L!States, LP!PollPcs,
       L!PollPcs, LP!ShutPcs, L!ShutPcs, LP!Threads, L!Threads, LP!NoState, L!NoState
  <2>2. CP!TypeOK => C!TypeOK
    BY DEF CP!TypeOK, C!TypeOK, CP!ServePcs, C!ServePcs, CP!Links, C!Links,
       CP!ConnPcs, C!ConnPcs, CP!Cardinality, C!Cardinality
  <2> QED
    BY <2>1, <2>2 DEF TypeOK, OwnTypeOK, BootInv
<1>2. CP!IInv => CP!TypeOK
  BY ControlAssumptions, CP!IInvImplies
<1> QED
  BY <1>1, <1>2, LifecycleTypes, ControlInvariant, OwnTypes, Booting, PTL

(* With the process dying and starting again at any point, Run behaves as  *)
(* module Lifecycle says, and Serve that has returned without an error     *)
(* leaves no connection's goroutine behind.                                *)
THEOREM Components == Spec => LP!Spec /\ []CP!ServeWaits
<1>1. CP!IInv => CP!ServeWaits
  BY ControlAssumptions, CP!IInvImplies
<1> QED
  BY <1>1, LifecycleSpec, ControlInvariant, PTL

-----------------------------------------------------------------------------
(* What an ack stands for.  The response is prepared in the step that      *)
(* starts the goroutine; only that goroutine's end asks Run to stop; and a *)
(* process that has died keeps nothing of either.                          *)
Begun(c) == at[c] = "write" \/ answered[c] # <<>>

AckInv ==
  /\ DOMAIN answered = Conns
  /\ \A c \in Conns :
       /\ Begun(c) => shutPc[c] # "none"
       /\ shutPc[c] = "done" => requested
       /\ at[c] = "handle" \/ shutPc[c] # "none" => sent[c] # <<>>
       /\ runPc = "dead" => ~Begun(c) /\ shutPc[c] = "none"
  /\ requested => runPc = "dead" \/ \E c \in Conns : shutPc[c] = "done"
  /\ runPc \in {"cleanup", "closing"} => requested \/ cancelled

(* The steps of a connection and of its shutdown. *)
LEMMA ConnectionsAck ==
  ASSUME CP!IInv, LP!TypeOK, AckInv,
         NEW c \in Conns, Client(c) \/ ConnStep(c) \/ ExecuteStep(c)
  PROVE  AckInv'
<1> USE DEF CP!IInv, CP!ConnTypeOK, LP!TypeOK, AckInv, Begun
<1>1. runPc' = runPc /\ cancelled' = cancelled
  BY ConnectionsLeave DEF watched
<1>2. CASE Client(c)
  <2>1. UNCHANGED <<shutPc, requested, at, answered>> /\ runPc # "dead"
    BY <1>2 DEF Client, C!Client, C!Connect, C!Send, C!Leave, lVars, Started
  <2>2. \A d \in Conns : sent[d] # <<>> => sent'[d] # <<>>
    BY <1>2 DEF Client, C!Client, C!Connect, C!Send, C!Leave
  <2> QED
    BY <1>1, <2>1, <2>2
<1>3. CASE HandleShutdown(c)
  <2>1. /\ at[c] = "handle" /\ runPc # "dead"
        /\ at' = [at EXCEPT ![c] = "write"]
        /\ shutPc' = [shutPc EXCEPT ![c] = "accepted"] /\ shutPc[c] = "none"
        /\ UNCHANGED <<requested, answered, sent>>
    BY <1>3 DEF HandleShutdown, Started, C!Handle, L!AcceptShutdown
  <2> QED
    BY <1>1, <2>1
<1>4. CASE ConnStep(c) /\ ~HandleShutdown(c)
  <2>1. runPc # "dead" /\ UNCHANGED <<shutPc, requested, sent>>
    BY <1>4 DEF ConnStep, Started, C!Scan, C!ScanEnd, C!WriteResponse, C!WriteResponseFails,
       C!Return, lVars
  <2>2. \A d \in Conns : at'[d] = "write" => at[d] = "write"
    BY <1>4 DEF ConnStep, C!Scan, C!ScanEnd, C!WriteResponse, C!WriteResponseFails, C!Return
  <2>3. \A d \in Conns : at'[d] = "handle" => at[d] = "handle" \/ sent[d] # <<>>
    BY <1>4 DEF ConnStep, C!Scan, C!ScanEnd, C!WriteResponse, C!WriteResponseFails, C!Return
  <2>4. /\ DOMAIN answered' = Conns
        /\ \A d \in Conns : answered'[d] # <<>> => answered[d] # <<>> \/ at[d] = "write"
    BY <1>4 DEF ConnStep, C!Scan, C!ScanEnd, C!WriteResponse, C!WriteResponseFails, C!Return
  <2> QED
    BY <1>1, <2>1, <2>2, <2>3, <2>4
<1>5. CASE ExecuteStep(c)
  <2>1. UNCHANGED <<at, answered, sent>>
    BY <1>5 DEF ExecuteStep, cVars
  <2>2. CASE L!ShutdownTransition(c)
    <3>1. /\ shutPc[c] = "accepted" /\ requested' = requested
          /\ shutPc' = [shutPc EXCEPT ![c] = "stopping"]
      BY <2>2 DEF L!ShutdownTransition
    <3> QED
      BY <1>1, <2>1, <3>1
  <2>3. CASE L!RequestShutdown(c)
    <3>1. /\ shutPc[c] = "stopping" /\ requested' = TRUE
          /\ shutPc' = [shutPc EXCEPT ![c] = "done"]
      BY <2>3 DEF L!RequestShutdown
    <3> QED
      BY <1>1, <2>1, <3>1
  <2> QED
    BY <1>5, <2>2, <2>3 DEF ExecuteStep
<1> QED
  BY <1>2, <1>3, <1>4, <1>5

LEMMA Acks == Spec => []AckInv
<1>1. Init => AckInv
  BY DEF Init, L!Init, C!Init, AckInv, Begun
<1>2. CP!IInv /\ LP!TypeOK /\ AckInv /\ [Next]_vars => AckInv'
  <2> SUFFICES ASSUME CP!IInv, LP!TypeOK, AckInv, [Next]_vars PROVE AckInv'
    OBVIOUS
  <2> USE DEF AckInv, Begun
  <2>1. CASE RunStep
    <3>1. /\ UNCHANGED <<shutPc, requested, cancelled, at, answered, sent>>
          /\ runPc # "dead" /\ runPc' # "dead"
          /\ runPc' \in {"cleanup", "closing"}
               => runPc \in {"cleanup", "closing"} \/ requested \/ cancelled
      BY <2>1 DEF RunStep, EnsureDir, Boot, CreateListener, L!RunBoot, L!RunServe, L!RunReady,
         L!RunWake, L!RunCleanup, lVars, cVars
    <3> QED
      BY <3>1
  <2>2. CASE BootFails \/ ServerError \/ Exit \/ Kill
    BY <2>2, DeathLeaves DEF ProcessDies, L!Die
  <2>3. CASE ControlStep \/ AcceptFails
    <3>1. /\ UNCHANGED <<runPc, cancelled, shutPc, requested, answered, sent>>
          /\ runPc # "dead"
          /\ \A c \in Conns : at'[c] \in {at[c], "scan"}
      BY <2>3 DEF ControlStep, AcceptFails, Started, C!ServeStep, C!EnterAccept, C!Accept,
         C!AcceptClosed, C!ServeError, C!Waited, C!CloseListener, C!connVars, lVars,
         CP!IInv, CP!ConnTypeOK
    <3> QED
      BY <3>1
  <2>4. ASSUME NEW c \in Conns, Client(c) \/ ConnStep(c) \/ ExecuteStep(c)
        PROVE  AckInv'
    BY <2>4, ConnectionsAck
  <2>5. CASE IPCStep \/ IPCAcceptFails \/ Drain \/ Close \/ Signal \/ UNCHANGED vars
    <3>1. UNCHANGED <<runPc, shutPc, requested, at, answered, sent>> /\ (cancelled => cancelled')
      BY <2>5 DEF IPCStep, IPCAcceptFails, Drain, Close, Signal, L!Signal, lVars, cVars, vars
    <3> QED
      BY <3>1
  <2>6. CASE Restart
    BY <2>6 DEF Restart, L!Restart, cVars
  <2> QED
    BY <2>1, <2>2, <2>3, <2>4, <2>5, <2>6 DEF Next
<1> QED
  BY <1>1, <1>2, ControlInvariant, LifecycleTypes, PTL DEF Spec

(* A host that has the ack of a shutdown has a goroutine that carries it   *)
(* out, or one that is through with it and has told Run to stop.           *)
THEOREM AcksAreBacked == Spec => []AckIsBacked
<1>1. LP!TypeOK /\ AckInv => AckIsBacked
  BY DEF LP!TypeOK, LP!ShutPcs, AckInv, Begun, AckIsBacked
<1> QED
  BY <1>1, Acks, LifecycleTypes, PTL

(* Conversely, Run does not leave its select by itself: the process got a  *)
(* signal, or one of its clients sent a shutdown, which was acknowledged   *)
(* or is about to be.                                                      *)
THEOREM StopWasAsked ==
  Spec => [](runPc \in {"cleanup", "closing"}
             => cancelled \/ \E c \in Conns : shutPc[c] = "done" /\ sent[c] # <<>>)
<1>1. AckInv => (runPc \in {"cleanup", "closing"}
                 => cancelled \/ \E c \in Conns : shutPc[c] = "done" /\ sent[c] # <<>>)
  BY DEF AckInv
<1> QED
  BY <1>1, Acks, PTL

-----------------------------------------------------------------------------
(* How the three agree while Serve sets up.                                *)
WakerInv ==
  /\ HasWaker
  /\ ipc \in {"remove", "listen", "chmod", "setup"} => srv = "none" /\ drain = "off"
  /\ ipc \in {"ready", "serving"} => srv # "none"
  /\ ipc = "serving" /\ srv = "closed" => lis = "closed"

(* Whatever Close and the context do while Serve sets up, no server is left*)
(* in http.Serve with nobody to end it (ipc.go:75-112).                    *)
THEOREM IPCHasWaker == Spec => []HasWaker
<1> USE DEF WakerInv, HasWaker, I!HasWaker
<1>1. Init => WakerInv
  BY DEF Init, I!Fresh
<1>2. WakerInv /\ [Next]_vars => WakerInv'
  <2> SUFFICES ASSUME WakerInv, [Next]_vars PROVE WakerInv'
    OBVIOUS
  <2>1. CASE RunStep \/ ControlStep \/ AcceptFails \/ Signal \/ Restart \/ UNCHANGED vars
    <3>1. UNCHANGED <<ipc, lis, srv, drain>>
      BY <2>1 DEF RunStep, EnsureDir, Boot, CreateListener, ControlStep, AcceptFails, Signal,
         Restart, iVars, vars
    <3> QED
      BY <3>1
  <2>2. CASE BootFails \/ ServerError \/ Exit \/ Kill
    BY <2>2, DeathLeaves
  <2>3. ASSUME NEW c \in Conns, Client(c) \/ ConnStep(c) \/ ExecuteStep(c)
        PROVE  WakerInv'
    BY <2>3, ConnectionsLeave DEF watched
  <2>4. CASE IPCStep
    BY <2>4 DEF IPCStep, I!ServeStep, I!RemoveStale, I!Listen, I!ListenFails, I!Chmod,
       I!ChmodFails, I!SetUp, I!HTTPServe, I!HTTPServeClosed, I!HTTPServeEnds
  <2>5. CASE Drain \/ Close
    BY <2>5 DEF Drain, I!Drain, Close, I!Close, I!CloseServer, I!CloseListener, I!RemoveSocket,
       I!StopServer
  <2>6. CASE IPCAcceptFails
    BY <2>6 DEF IPCAcceptFails, I!AcceptFails
  <2> QED
    BY <2>1, <2>2, <2>3, <2>4, <2>5, <2>6 DEF Next
<1> HIDE DEF WakerInv
<1>3. WakerInv => HasWaker
  BY DEF WakerInv
<1> QED
  BY <1>1, <1>2, <1>3, PTL DEF Spec

-----------------------------------------------------------------------------
(* The dialogue, process after process: a death ends every connection, and *)
(* the next process starts with none.                                      *)
LEMMA NoTalk == CP!Blank => CP!TalkInv
BY CP!BlankTalks, ControlAssumptions

LEMMA NoTalkYet == CP!Blank' => CP!TalkInv'
BY NoTalk, PTL

LEMMA TalkStep ==
  ASSUME CP!IInv, CP!TalkInv, [Next]_vars
  PROVE  CP!TalkInv' /\ (CP!Talk!Next \/ (runPc # "dead" /\ runPc' = "dead"))
<1>1. CASE BootFails \/ ServerError \/ Exit \/ Kill
  <2>1. ProcessDies
    BY <1>1, DeathLeaves
  <2>2. CP!Blank'
    BY <2>1 DEF ProcessDies, CP!Blank
  <2>3. CP!TalkInv'
    BY <2>2, NoTalkYet
  <2> QED
    BY <2>1, <2>3 DEF ProcessDies, L!Die
<1>2. CASE ControlStep \/ AcceptFails
  BY <1>2, SameControl, ControlAssumptions, CP!ServeTalks DEF ControlStep, AcceptFails
<1>3. ASSUME NEW c \in Conns, Client(c)
      PROVE  CP!TalkInv' /\ CP!Talk!Next
  BY <1>3, SameControl, ControlAssumptions, CP!ClientTalks DEF Client
<1>4. ASSUME NEW c \in Conns, ConnStep(c)
      PROVE  CP!TalkInv' /\ CP!Talk!Next
  BY <1>4, SameControl, ControlAssumptions, CP!ConnTalks DEF ConnStep, HandleShutdown
<1>5. CASE RunStep \/ IPCStep \/ IPCAcceptFails \/ Drain \/ Close \/ Signal \/ Restart
             \/ (\E c \in Conns : ExecuteStep(c)) \/ UNCHANGED vars
  <2>1. UNCHANGED CP!connVars
    BY <1>5 DEF RunStep, EnsureDir, Boot, CreateListener, IPCStep, IPCAcceptFails, Drain, Close, Signal, Restart,
       ExecuteStep, vars, cVars, CP!connVars
  <2> QED
    BY <2>1, ControlAssumptions, CP!SilenceTalks
<1> QED
  BY <1>1, <1>2, <1>3, <1>4, <1>5 DEF Next

LEMMA Talking == Spec => [](CP!IInv /\ CP!TalkInv)
<1>1. Init => CP!TalkInv
  <2>1. Init => CP!Blank
    BY DEF Init, C!Init, CP!Blank
  <2> QED
    BY <2>1, NoTalk
<1> QED
  BY <1>1, TalkStep, ControlInvariant, PTL DEF Spec

(* Beside everything else the daemon does, what its control server says to *)
(* its hosts is the dialogue it promises, until the process dies.          *)
THEOREM EachProcessTalks ==
  Spec => [][CP!Talk!Next \/ (runPc # "dead" /\ runPc' = "dead")]_(CP!Talk!vars)
BY TalkStep, Talking, PTL DEF Spec

(* ... and a connection that waits for its host has acknowledged the       *)
(* shutdown it was sent, which AckIsBacked then says is under way.         *)
THEOREM ShutdownIsAcked ==
  Spec => [](\A c \in Conns : CP!Idle(c) /\ sent[c] # <<>> => answered[c] # <<>>)
<1>1. CP!IInv /\ CP!IdleHasAnswered
      => \A c \in Conns : CP!Idle(c) /\ sent[c] # <<>> => answered[c] # <<>>
  <2> SUFFICES ASSUME CP!IInv, CP!IdleHasAnswered,
                      NEW c \in Conns, CP!Idle(c), sent[c] # <<>>, answered[c] = <<>>
               PROVE  FALSE
    OBVIOUS
  <2> DEFINE P == CP!MessagesIn(sent[c])
  <2>1. sent[c] \in Seq(CP!Lines) /\ Len(sent[c]) \in Nat \ {0}
    BY DEF CP!IInv, CP!ConnTypeOK
  <2>2. \A l \in CP!Lines : l = Shutdown
    BY DEF CP!Lines
  <2>3. 1 \in P
    BY <2>1, <2>2 DEF CP!MessagesIn, CP!IsMessage, Shutdown
  <2>4. CP!IsFiniteSet(P) /\ CP!Cardinality(P) \in Nat
    BY <2>1, CP!MessagesInFinite, ControlAssumptions, CP!FS_CardinalityType
  <2>5. CP!Cardinality(P) # 0
    BY <2>3, <2>4, ControlAssumptions, CP!FS_EmptySet
  <2>6. DOMAIN CP!Asked(c) = 1 .. CP!Cardinality(P)
    BY DEF CP!Asked, CP!MessagesOf
  <2>7. Len(CP!Asked(c)) = 0
    BY DEF CP!IdleHasAnswered
  <2> QED
    BY <2>4, <2>5, <2>6, <2>7
<1>2. CP!IInv /\ CP!TalkInv => CP!IdleHasAnswered
  BY CP!IdleOwesNothing, ControlAssumptions
<1> QED
  BY <1>1, <1>2, Talking, PTL

=============================================================================
