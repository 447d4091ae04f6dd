------------------------------- MODULE IPCServer -------------------------------
(***************************************************************************)
(* IPCServer (pkg/ipc.go): Serve, the goroutine it starts to shut the HTTP *)
(* server down with the context, and Close, which Run calls from another   *)
(* goroutine while Serve may still be setting up.  net.UnixListener and    *)
(* http.Server do as in Go: closing the listener unlinks its path, once; a *)
(* server that is shut down or closed closes the listeners it serves and   *)
(* takes no other.                                                         *)
(***************************************************************************)
EXTENDS Naturals

CONSTANT Faults       \* may a system call fail by itself?

VARIABLES
  socket,     \* what the socket's path leads to: "none", "live", or "stale",
              \* the socket of a process that is gone
  ipc,        \* where Serve is
  lis,        \* s.listener
  srv,        \* s.server
  drain,      \* the goroutine that waits for the context
  closer,     \* where Close is
  broke       \* a system call of this process failed by itself

ipcVars == <<socket, ipc, lis, srv, drain, closer, broke>>

Sockets == {"none", "live", "stale"}
IpcPcs  == {"remove", "listen", "chmod", "setup", "ready", "serving", "returned", "failed"}
Ended   == {"returned", "failed"}

(* A process that has not called Serve.                                    *)
Fresh ==
  /\ ipc = "remove"
  /\ lis = "none"
  /\ srv = "none"
  /\ drain = "off"
  /\ closer = "idle"

(* Mutant: the socket of an earlier process is left where it is.           *)
RemoveNothing ==
  /\ ipc = "remove"
  /\ ipc' = "listen"
  /\ UNCHANGED <<socket, lis, srv, drain, closer, broke>>

RemoveStale ==
  /\ ipc = "remove"
  /\ socket' = "none"
  /\ ipc' = "listen"
  /\ UNCHANGED <<lis, srv, drain, closer, broke>>

Listen ==
  /\ ipc = "listen"
  /\ socket = "none"
  /\ socket' = "live"
  /\ lis' = "open"
  /\ ipc' = "chmod"
  /\ UNCHANGED <<srv, drain, closer, broke>>

(* The address is in use, or bind(2) fails by itself.                      *)
ListenFails ==
  /\ ipc = "listen"
  /\ socket # "none" \/ Faults
  /\ ipc' = "failed"
  /\ broke' = (broke \/ socket = "none")
  /\ UNCHANGED <<socket, lis, srv, drain, closer>>

Unlinked == IF lis = "open" THEN "none" ELSE socket

Chmod ==
  /\ ipc = "chmod"
  /\ socket # "none"
  /\ ipc' = "setup"
  /\ UNCHANGED <<socket, lis, srv, drain, closer, broke>>

(* Mutant: the listener is left open.                                      *)
ChmodFailsOpen ==
  /\ ipc = "chmod"
  /\ socket = "none" \/ Faults
  /\ ipc' = "failed"
  /\ broke' = (broke \/ socket # "none")
  /\ UNCHANGED <<socket, lis, srv, drain, closer>>

(* Close has removed the socket, or chmod(2) fails by itself.  A failing   *)
(* chown to the admin group is only logged.                                *)
ChmodFails ==
  /\ ipc = "chmod"
  /\ socket = "none" \/ Faults
  /\ socket' = Unlinked
  /\ lis' = "closed"
  /\ ipc' = "failed"
  /\ broke' = (broke \/ socket # "none")
  /\ UNCHANGED <<srv, drain, closer>>

(* Mutant: nobody waits for the context. *)
SetUpUndrained ==
  /\ ipc = "setup"
  /\ srv' = "open"
  /\ ipc' = "ready"
  /\ UNCHANGED <<socket, lis, drain, closer, broke>>

SetUp ==
  /\ ipc = "setup"
  /\ srv' = "open"
  /\ drain' = "waiting"
  /\ ipc' = "ready"
  /\ UNCHANGED <<socket, lis, closer, broke>>

HTTPServe ==
  /\ ipc = "ready"
  /\ srv = "open"
  /\ ipc' = "serving"
  /\ UNCHANGED <<socket, lis, srv, drain, closer, broke>>

HTTPServeClosed ==
  /\ ipc = "ready"
  /\ srv = "closed"
  /\ ipc' = "returned"
  /\ lis' = "closed"
  /\ socket' = Unlinked
  /\ UNCHANGED <<srv, drain, closer, broke>>

(* Mutant: Serve makes an error of http.ErrServerClosed too.               *)
HTTPServeFails ==
  /\ ipc = "serving"
  /\ lis = "closed"
  /\ ipc' = "failed"
  /\ UNCHANGED <<socket, lis, srv, drain, closer, broke>>

HTTPServeEnds ==
  /\ ipc = "serving"
  /\ lis = "closed"
  /\ ipc' = IF srv = "closed" THEN "returned" ELSE "failed"
  /\ UNCHANGED <<socket, lis, srv, drain, closer, broke>>

(* An Accept fails by itself, for good: http.Serve returns its error, and  *)
(* closes the listener.                                                    *)
AcceptFails ==
  /\ Faults
  /\ ipc = "serving"
  /\ srv = "open"
  /\ ipc' = "failed"
  /\ lis' = "closed"
  /\ socket' = Unlinked
  /\ broke' = TRUE
  /\ UNCHANGED <<srv, drain, closer>>

ServeStep ==
  \/ RemoveStale \/ Listen \/ ListenFails \/ Chmod \/ ChmodFails
  \/ SetUp \/ HTTPServe \/ HTTPServeClosed \/ HTTPServeEnds

(* Server.Shutdown or Server.Close.                                        *)
StopServer ==
  /\ srv' = "closed"
  /\ lis' = IF ipc = "serving" THEN "closed" ELSE lis
  /\ socket' = IF ipc = "serving" THEN Unlinked ELSE socket

(* The context is cancelled. *)
Drain ==
  /\ drain = "waiting"
  /\ StopServer
  /\ drain' = "off"
  /\ UNCHANGED <<ipc, closer, broke>>

(* Close, a line at a time.  What it reads of s.server and s.listener is   *)
(* what Serve has set so far.                                              *)

CloseServer ==
  /\ closer = "idle"
  /\ IF srv = "none" THEN UNCHANGED <<socket, lis, srv>> ELSE StopServer
  /\ closer' = "listener"
  /\ UNCHANGED <<ipc, drain, broke>>

CloseListener ==
  /\ closer = "listener"
  /\ lis' = IF lis = "open" THEN "closed" ELSE lis
  /\ socket' = Unlinked
  /\ closer' = "remove"
  /\ UNCHANGED <<ipc, srv, drain, broke>>

RemoveSocket ==
  /\ closer = "remove"
  /\ socket' = "none"
  /\ closer' = "done"
  /\ UNCHANGED <<ipc, lis, srv, drain, broke>>

Close == CloseServer \/ CloseListener \/ RemoveSocket

(* The process is gone and another one is to start.                        *)
NewProcess ==
  /\ socket' = IF socket = "live" THEN "stale" ELSE socket
  /\ ipc' = "remove"
  /\ lis' = "none"
  /\ srv' = "none"
  /\ drain' = "off"
  /\ closer' = "idle"
  /\ UNCHANGED broke

TypeOK ==
  /\ socket \in Sockets
  /\ ipc \in IpcPcs
  /\ lis \in {"none", "open", "closed"}
  /\ srv \in {"none", "open", "closed"}
  /\ drain \in {"off", "waiting"}
  /\ closer \in {"idle", "listener", "remove", "done"}
  /\ broke \in BOOLEAN

(* "Close shuts down the IPC server and removes the socket file"           *)
(* (ipc.go:99): in whatever order its steps and Serve's come, nothing is   *)
(* left once both have returned.                                           *)
SocketRemoved == closer = "done" /\ ipc \in Ended => socket = "none"

(* An IPC server that serves can always be ended: the goroutine that waits *)
(* for the context is still there (ipc.go:85-91), or the http server was   *)
(* closed already, by it or by Close, and with it the listener under       *)
(* http.Serve.                                                             *)
HasWaker ==
  ipc \in {"ready", "serving"} =>
    \/ drain = "waiting"
    \/ srv = "closed" /\ (ipc = "serving" => lis = "closed")

=============================================================================
