-------------------------------- MODULE Servers --------------------------------
(***************************************************************************)
(* The daemon as its servers see it: Daemon.Run (module Lifecycle) makes   *)
(* the runtime directories (pkg/dirs.go), chooses a listener               *)
(* (createListener, pkg/vsock), starts the control server (module          *)
(* ControlServer) and the IPC server (module IPCServer), ends with a stop  *)
(* request or with an error of either, and closes the IPC server.          *)
(*                                                                         *)
(* Each connection may carry one shutdown message.  The process may stay   *)
(* alive after Run has returned, as it does when Run is used from a test.  *)
(***************************************************************************)
EXTENDS Naturals, Sequences, FiniteSets

CONSTANTS
  Conns, None,  \* of ControlServer
  Faults,
  Modes,        \* what --listen-mode may be
  Cids          \* what /dev/vsock may say

ASSUME ServersAssumption ==
  /\ IsFiniteSet(Conns)
  /\ {"run", "poller", None} \cap Conns = {}
  /\ Faults \in BOOLEAN
  /\ Modes \subseteq {"auto", "tcp", "vsock"}
  /\ Cids \subseteq {"no device", "hypervisor", "local", "host", "guest", "any"}

VARIABLES
  runPc, state, agents, pollPc, polled, actual, shutPc, requested, cancelled,
  sender, pushing, heard,                       \* of Lifecycle
  kind, listening, serve, wg, link, left, sent, next, at, resp, answered,
                                                \* of ControlServer
  socket, ipc, lis, srv, drain, closer, broke,  \* of IPCServer
  mode,     \* Config.ListenMode
  cid,      \* what /dev/vsock says the local CID is
  perm,     \* the runtime directories
  made,     \* how many of them Run has made sure of
  result    \* what Run returned

Shutdown == [type |-> "shutdown", payload |-> FALSE]

L == INSTANCE Lifecycle WITH Agents <- {}, Shutdowns <- Conns, SetsSender <- FALSE

(* No client need read what it is sent. *)
C == INSTANCE ControlServer WITH
  Deaf      <- Conns,
  Kinds     <- {"tcp", "vsock"},
  Says      <- [c \in Conns |-> {Shutdown}],
  MaxLines  <- [c \in Conns |-> 1],
  Content   <- [c \in Conns |-> <<>>],
  Leftovers <- {None},
  dir       <- [n \in {"jcard.toml"} |-> None],
  file      <- [n \in {"jcard.toml"} |-> [data |-> <<>>, attr |-> None]],
  alone     <- [c \in Conns |-> FALSE]

I == INSTANCE IPCServer

lVars == <<runPc, state, agents, pollPc, polled, actual, shutPc, requested,
           sender, pushing, heard>>
cVars == <<kind, listening, serve, wg, link, left, sent, next, at, resp, answered>>
iVars == <<socket, ipc, lis, srv, drain, closer>>
bVars == <<mode, cid, perm, made, result>>
vars  == <<lVars, cancelled, cVars, iVars, broke, bVars>>

Dirs  == 1 .. 3     \* /run/stereos, its secrets, /etc/stereos
Perms == {"none", "other", "documented"}

Started == runPc \notin {"init", "listen", "dead"}

-----------------------------------------------------------------------------
Init ==
  /\ L!Init
  /\ C!Init
  /\ kind = "tcp"
  /\ I!Fresh
  /\ socket \in {"none", "stale"}
  /\ broke = FALSE
  /\ mode \in Modes
  /\ cid \in Cids
  /\ perm \in [Dirs -> Perms]
  /\ made = 0
  /\ result = "none"

(* Every goroutine is gone, and every connection with them: a connection   *)
(* to the next process is a new one.                                       *)
ProcessDies ==
  /\ L!Die
  /\ I!NewProcess
  /\ listening' = TRUE
  /\ serve' = "loop"
  /\ wg' = 0
  /\ link' = [c \in Conns |-> "none"]
  /\ left' = [c \in Conns |-> FALSE]
  /\ sent' = [c \in Conns |-> <<>>]
  /\ next' = [c \in Conns |-> 0]
  /\ at' = [c \in Conns |-> "none"]
  /\ resp' = [c \in Conns |-> None]
  /\ answered' = [c \in Conns |-> <<>>]
  /\ made' = 0
  /\ UNCHANGED <<kind, mode, cid>>

(* EnsureRuntimeDirs. *)

(* Mutant: MkdirAll alone, which leaves a directory that is there as it is. *)
MkdirOnly ==
  /\ runPc = "init"
  /\ made < 3
  /\ perm' = [perm EXCEPT ![made + 1] = IF @ = "none" THEN "documented" ELSE @]
  /\ made' = made + 1
  /\ UNCHANGED <<lVars, cancelled, cVars, iVars, broke, mode, cid, result>>

EnsureDir ==
  /\ runPc = "init"
  /\ made < 3
  /\ perm' = [perm EXCEPT ![made + 1] = "documented"]
  /\ made' = made + 1
  /\ UNCHANGED <<lVars, cancelled, cVars, iVars, broke, mode, cid, result>>

Boot ==
  /\ made = 3
  /\ L!RunBoot
  /\ UNCHANGED <<cVars, iVars, broke, bVars>>

(* "We require CID >= 3 to confirm a real transport" (listener_linux.go:64). *)
TransportAvailable == cid = "guest"

(* createListener: in mode auto, a vsock listener that fails is replaced.  *)
Listeners ==
  IF mode = "auto"
    THEN IF TransportAvailable THEN {"vsock", "tcp"} ELSE {"tcp"}
    ELSE {mode}

CreateListener ==
  /\ L!RunServe
  /\ kind' \in Listeners
  /\ broke' = (broke \/ (mode = "auto" /\ TransportAvailable /\ kind' = "tcp"))
  /\ broke' => broke \/ Faults
  /\ UNCHANGED <<listening, serve, wg, link, left, sent, next, at, resp, answered, iVars, bVars>>

(* A directory cannot be made, or its mode not set, or there is no         *)
(* listener.                                                               *)
BootFails ==
  /\ Faults
  /\ runPc \in {"init", "listen"}
  /\ ProcessDies
  /\ \/ UNCHANGED perm
     \/ /\ made < 3
        /\ perm[made + 1] = "none"
        /\ perm' = [perm EXCEPT ![made + 1] = "other"]
  /\ result' = "boot error"

RunStep ==
  \/ EnsureDir \/ Boot \/ CreateListener
  \/ /\ L!RunReady \/ L!RunWake \/ L!RunCleanup
     /\ UNCHANGED <<cVars, iVars, broke, bVars>>

(* The servers. *)

ControlStep ==
  /\ Started
  /\ C!ServeStep \/ C!CloseListener
  /\ UNCHANGED <<lVars, iVars, broke, bVars>>

AcceptFails ==
  /\ Started
  /\ C!AcceptFails
  /\ C!ServeError
  /\ broke' = TRUE
  /\ UNCHANGED <<lVars, iVars, bVars>>

(* Through vsock the host reaches a guest only over a real transport.      *)
Client(c) ==
  /\ Started
  /\ link[c] = "none" => kind = "tcp" \/ cid = "guest"
  /\ C!Client(c)
  /\ UNCHANGED <<lVars, iVars, broke, bVars>>

(* Mutant: the ack comes without the goroutine.                            *)
HandleOnlyAck(c) ==
  /\ Started
  /\ C!Handle(c)
  /\ UNCHANGED <<lVars, iVars, broke, bVars>>

HandleShutdown(c) ==
  /\ Started
  /\ C!Handle(c)
  /\ L!AcceptShutdown(c)
  /\ UNCHANGED <<iVars, broke, bVars>>

ConnStep(c) ==
  \/ HandleShutdown(c)
  \/ /\ Started
     /\ C!Scan(c) \/ C!ScanEnd(c) \/ C!WriteResponse(c) \/ C!WriteResponseFails(c) \/ C!Return(c)
     /\ UNCHANGED <<lVars, iVars, broke, bVars>>

(* Execute, of which only the ends matter here.                            *)
ExecuteStep(c) ==
  /\ L!ShutdownTransition(c) \/ L!RequestShutdown(c)
  /\ UNCHANGED <<cVars, iVars, broke, bVars>>

IPCStep ==
  /\ Started
  /\ I!ServeStep
  /\ UNCHANGED <<lVars, cancelled, cVars, bVars>>

IPCAcceptFails ==
  /\ Started
  /\ I!AcceptFails
  /\ UNCHANGED <<lVars, cancelled, cVars, bVars>>

Drain ==
  /\ cancelled
  /\ I!Drain
  /\ UNCHANGED <<lVars, cancelled, cVars, bVars>>

Close ==
  /\ runPc = "closing"
  /\ I!Close
  /\ UNCHANGED <<lVars, cancelled, cVars, bVars>>

(* Stop requests and the ends of the process. *)

Signal ==
  /\ L!Signal
  /\ UNCHANGED <<cVars, iVars, broke, bVars>>

(* Run's select takes an error from errCh, and returns it.                 *)
ServerError ==
  /\ runPc = "select"
  /\ serve = "failed" \/ ipc = "failed"
  /\ ProcessDies
  /\ result' = "server error"
  /\ UNCHANGED perm

Exit ==
  /\ runPc = "closing"
  /\ closer = "done"
  /\ ProcessDies
  /\ result' = "ok"
  /\ UNCHANGED perm

Kill ==
  /\ Faults
  /\ ProcessDies
  /\ result' = "killed"
  /\ UNCHANGED perm

Restart ==
  /\ L!Restart
  /\ result' = "none"
  /\ broke' = FALSE
  /\ UNCHANGED <<cVars, iVars, mode, cid, perm, made>>

Next ==
  \/ RunStep \/ BootFails
  \/ ControlStep \/ AcceptFails
  \/ \E c \in Conns : Client(c) \/ ConnStep(c) \/ ExecuteStep(c)
  \/ IPCStep \/ IPCAcceptFails \/ Drain \/ Close
  \/ Signal \/ ServerError \/ Exit \/ Kill \/ Restart

Spec == Init /\ [][Next]_vars

(* Goroutines that can run do, and the supervisor restarts the daemon.     *)
(* That a process ends once Run has returned is not assumed, nor that a    *)
(* client reads what it is sent.  Execute's commands do return here.       *)
Fairness ==
  /\ WF_vars(RunStep)
  /\ WF_vars(ControlStep)
  /\ \A c \in Conns : WF_vars(ConnStep(c) /\ ~C!Unread(c)) /\ WF_vars(ExecuteStep(c))
  /\ WF_vars(IPCStep)
  /\ WF_vars(Drain)
  /\ WF_vars(Close)
  /\ WF_vars(ServerError)
  /\ WF_vars(Restart)

FairSpec == Spec /\ Fairness

-----------------------------------------------------------------------------
TypeOK ==
  /\ L!TypeOK
  /\ C!TypeOK
  /\ I!TypeOK
  /\ mode \in Modes
  /\ cid \in Cids
  /\ perm \in [Dirs -> Perms]
  /\ made \in 0 .. 3
  /\ result \in {"none", "ok", "boot error", "server error", "killed"}

(* A daemon that serves has its runtime directories as documented          *)
(* (README.md:148-154), whatever an earlier or interrupted start left.     *)
DirsAsDocumented == Started => \A d \in Dirs : perm[d] = "documented"

(* Close against a Serve that is starting, draining or failing leaves no   *)
(* socket behind.                                                          *)
SocketRemoved == I!SocketRemoved

(* Whatever Close and the context do while Serve sets up, the IPC server   *)
(* is never left in http.Serve with nobody to end it.                      *)
HasWaker == I!HasWaker

(* Run returns a server's error only if a system call failed by itself: a  *)
(* stop request, which closes listeners under both servers, is never       *)
(* reported as an error, whichever case its select takes, and a socket     *)
(* left by an earlier process keeps none from starting.                    *)
StopIsNoError == [][result' = "server error" /\ result # "server error" => broke]_vars

(* The host that has the ack of a shutdown has a goroutine that carries it *)
(* out, or has done so and told Run: the message is never acknowledged     *)
(* first and started later, nor taken for one of another process           *)
(* (stereosd.go:359-375).                                                  *)
AckIsBacked ==
  \A c \in Conns : answered[c] # <<>> => shutPc[c] \in {"accepted", "stopping"} \/ requested

(* Ready is reported before the IPC server listens; still it comes up,     *)
(* unless the daemon is stopped or fails.                                  *)
IPCComesUp ==
  state = "ready" ~>
    (ipc = "serving" /\ socket = "live") \/ requested \/ cancelled \/ broke \/ result = "killed"

(* Whenever the context is cancelled, also while Serve is still setting up *)
(* and after Close has run, the IPC server ends.                           *)
IPCEnds == cancelled /\ Started ~> ipc \in I!Ended \/ runPc = "dead"

(* "ack (immediate, then poweroff)" (README.md:58): the host that has the  *)
(* ack of a shutdown will see Run return, whichever server fails meanwhile. *)
AckIsHonoured ==
  \A c \in Conns :
    answered[c] # <<>> /\ link[c] = "open" ~> (runPc = "closing" /\ closer = "done") \/ runPc = "dead"

=============================================================================
