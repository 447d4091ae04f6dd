----------------------------- MODULE ControlServer -----------------------------
(***************************************************************************)
(* The control plane server (pkg/server.go) with the messages it serves    *)
(* (Daemon.HandleMessage, pkg/stereosd.go): the accept loop, the goroutine *)
(* that closes the listener, one goroutine per connection, and the         *)
(* configuration file that set_config writes in place.                     *)
(*                                                                         *)
(* A message is its type and whether its payload decodes; a line that is   *)
(* none has the type "blank", "garbled" (not JSON) or "long" (over 1MB).   *)
(* A connection is made once: a client that connects again is another one. *)
(***************************************************************************)
EXTENDS Naturals, Sequences, FiniteSets

CONSTANTS
  Kinds,      \* the listeners it may be given: "tcp", "vsock"
  Conns,      \* the clients' connections
  Deaf,       \* those whose clients may send and not read
  Says,       \* what each client may send
  MaxLines,   \* and how many lines of it
  Content,    \* the configuration each client sends, as a sequence of parts
  Leftovers,  \* what an earlier process may have left of one, None for no file
  Faults,     \* may Accept or a write fail?
  None

ASSUME ConnAssumption ==
  /\ Kinds \subseteq {"tcp", "vsock"}
  /\ IsFiniteSet(Conns)
  /\ Deaf \subseteq Conns
  /\ \A c \in Conns : \A l \in Says[c] : l.payload \in BOOLEAN
  /\ MaxLines \in [Conns -> Nat]
  /\ Content \in [Conns -> Seq(Conns)]
  /\ Leftovers \subseteq Seq(Conns) \cup {None}
  /\ Faults \in BOOLEAN
  /\ None \notin Conns

Commands == {"set_config", "inject_secret", "inject_ssh_key", "mount"}

VARIABLES
  kind,       \* of the listener
  listening,  \* it is not closed
  cancelled,  \* ctx is done
  serve,      \* where Serve is
  wg,         \* s.wg
  link,       \* each connection, as the kernel sees it
  left,       \* its client has closed it, or is gone
  sent,       \* the lines it has sent
  next,       \* how many of them the scanner has returned
  at,         \* where its goroutine is
  resp,       \* the envelope it is about to encode
  answered,   \* the envelopes it has written
  dir, file,  \* of FileSystem
  alone       \* history: each client's set_config ran to its end by itself,
              \* and none was begun since

FS == INSTANCE FileSystem WITH Names <- {"jcard.toml"}, Inodes <- {"jcard.toml"}

serverVars == <<kind, listening, cancelled, serve, wg>>
connVars   == <<link, left, sent, next, at, resp, answered>>
fileVars   == <<dir, file, alone>>
vars == <<serverVars, connVars, fileVars>>

ServePcs == {"loop", "accept", "waiting", "returned", "failed"}
Links    == {"none", "queued", "open", "broken", "cut", "lost"}
ConnPcs  == {"none", "scan", "handle", "config", "write", "return", "done"}

Active(c) == at[c] \notin {"none", "done"}

-----------------------------------------------------------------------------
Init ==
  /\ kind \in Kinds
  /\ listening = TRUE
  /\ cancelled = FALSE
  /\ serve = "loop"
  /\ wg = 0
  /\ link = [c \in Conns |-> "none"]
  /\ left = [c \in Conns |-> FALSE]
  /\ sent = [c \in Conns |-> <<>>]
  /\ next = [c \in Conns |-> 0]
  /\ at = [c \in Conns |-> "none"]
  /\ resp = [c \in Conns |-> None]
  /\ answered = [c \in Conns |-> <<>>]
  /\ \E f \in Leftovers :
       /\ dir = [n \in {"jcard.toml"} |-> IF f = None THEN None ELSE n]
       /\ file = [n \in {"jcard.toml"} |-> IF f = None THEN FS!Empty ELSE [data |-> f, attr |-> None]]
  /\ alone = [c \in Conns |-> FALSE]

(* The clients.  A vsock listener that is closed while Accept waits in     *)
(* accept4(2) stays alive until that call returns.                         *)
Alive == listening \/ (kind = "vsock" /\ serve = "accept")

Connect(c) ==
  /\ link[c] = "none"
  /\ Alive
  /\ link' = [link EXCEPT ![c] = "queued"]
  /\ UNCHANGED <<serverVars, left, sent, next, at, resp, answered, fileVars>>

Send(c) ==
  /\ link[c] \in {"queued", "open"}
  /\ ~left[c]
  /\ Len(sent[c]) < MaxLines[c]
  /\ \E l \in Says[c] : sent' = [sent EXCEPT ![c] = Append(@, l)]
  /\ UNCHANGED <<serverVars, link, left, next, at, resp, answered, fileVars>>

Leave(c) ==
  /\ link[c] \in {"queued", "open"}
  /\ left' = [left EXCEPT ![c] = TRUE]
  /\ UNCHANGED <<serverVars, link, sent, next, at, resp, answered, fileVars>>

Client(c) == Connect(c) \/ Send(c) \/ Leave(c)

-----------------------------------------------------------------------------
(* Serve. *)

(* Connections that nobody will accept any more are reset.                 *)
ResetQueued == [c \in Conns |-> IF link[c] = "queued" THEN "lost" ELSE link[c]]

Cancel ==
  /\ ~cancelled
  /\ cancelled' = TRUE
  /\ UNCHANGED <<kind, listening, serve, wg, connVars, fileVars>>

CloseListener ==
  /\ cancelled
  /\ listening
  /\ listening' = FALSE
  /\ link' = IF kind = "vsock" /\ serve = "accept" THEN link ELSE ResetQueued
  /\ UNCHANGED <<kind, cancelled, serve, wg, left, sent, next, at, resp, answered, fileVars>>

EnterAccept ==
  /\ serve = "loop"
  /\ listening
  /\ serve' = "accept"
  /\ UNCHANGED <<kind, listening, cancelled, wg, connVars, fileVars>>

(* Mutants: wg.Add left to the connection's goroutine, which may not have  *)
(* run yet; and the connection handled by the loop itself.                 *)
AcceptUncounted(c) ==
  /\ serve = "accept"
  /\ link[c] = "queued"
  /\ serve' = "loop"
  /\ link' = [(IF listening THEN link ELSE ResetQueued) EXCEPT ![c] = "open"]
  /\ at' = [at EXCEPT ![c] = "scan"]
  /\ UNCHANGED <<kind, listening, cancelled, wg, left, sent, next, resp, answered, fileVars>>

AcceptOne(c) ==
  /\ serve = "accept"
  /\ link[c] = "queued"
  /\ \A d \in Conns : ~Active(d)
  /\ serve' = "loop"
  /\ wg' = wg + 1
  /\ link' = [(IF listening THEN link ELSE ResetQueued) EXCEPT ![c] = "open"]
  /\ at' = [at EXCEPT ![c] = "scan"]
  /\ UNCHANGED <<kind, listening, cancelled, left, sent, next, resp, answered, fileVars>>

Accept(c) ==
  /\ serve = "accept"
  /\ link[c] = "queued"
  /\ serve' = "loop"
  /\ wg' = wg + 1
  /\ link' = [(IF listening THEN link ELSE ResetQueued) EXCEPT ![c] = "open"]
  /\ at' = [at EXCEPT ![c] = "scan"]
  /\ UNCHANGED <<kind, listening, cancelled, left, sent, next, resp, answered, fileVars>>

(* Closing a TCP listener wakes Accept; closing the vsock listener's       *)
(* descriptor does not wake accept4(2).                                    *)
AcceptClosed ==
  /\ ~listening
  /\ serve = "loop" \/ (serve = "accept" /\ kind = "tcp")

(* Any other error, such as too many open files, is as final.              *)
AcceptFails ==
  /\ Faults
  /\ serve = "accept"

(* What Serve makes of either depends on the context alone.                *)
ServeError ==
  /\ serve' = IF cancelled THEN "waiting" ELSE "failed"
  /\ link' = IF listening THEN link ELSE ResetQueued
  /\ UNCHANGED <<kind, listening, cancelled, wg, left, sent, next, at, resp, answered, fileVars>>

Waited ==
  /\ serve = "waiting"
  /\ wg = 0
  /\ serve' = "returned"
  /\ UNCHANGED <<kind, listening, cancelled, wg, connVars, fileVars>>

ServeStep == EnterAccept \/ (\E c \in Conns : Accept(c)) \/ (AcceptClosed /\ ServeError) \/ Waited

-----------------------------------------------------------------------------
(* handleConnection. *)

Line(c) == sent[c][next[c]]

(* HandleMessage returns an error, or the line is no envelope.             *)
IsError(l) ==
  \/ l.type \in Commands /\ ~l.payload
  \/ l.type \notin Commands \cup {"ping", "get_health", "shutdown"}

Nack(to) == [type |-> "ack", to |-> to, ok |-> FALSE]

(* The envelopes handleConnection may write for a line.  What the command  *)
(* does is in the modules of the components.                               *)
HandleMessage(l) ==
  IF IsError(l) THEN {Nack(IF l.type = "garbled" THEN "" ELSE l.type)}
  ELSE CASE l.type = "ping"       -> {[type |-> "pong"]}
         [] l.type = "get_health" -> {[type |-> "health"]}
         [] l.type = "shutdown"   -> {[type |-> "ack", to |-> l.type, ok |-> TRUE]}
         [] OTHER                 -> {[type |-> "ack", to |-> l.type, ok |-> ok] : ok \in BOOLEAN}

(* Mutant: a line that is too long is skipped.                             *)
ScanSkipLong(c) ==
  /\ at[c] = "scan"
  /\ next[c] < Len(sent[c])
  /\ next' = [next EXCEPT ![c] = @ + 1]
  /\ LET l == sent[c][next[c] + 1] IN
       at' = [at EXCEPT ![c] = IF cancelled THEN "return"
                               ELSE IF l.type \in {"blank", "long"} THEN "scan"
                               ELSE "handle"]
  /\ UNCHANGED <<serverVars, link, left, sent, resp, answered, fileVars>>

(* The scanner returns a line and ctx is looked at; a line over its buffer *)
(* ends the scan.                                                          *)
Scan(c) ==
  /\ at[c] = "scan"
  /\ next[c] < Len(sent[c])
  /\ next' = [next EXCEPT ![c] = @ + 1]
  /\ LET l == sent[c][next[c] + 1] IN
       at' = [at EXCEPT ![c] = IF cancelled \/ l.type = "long" THEN "return"
                               ELSE IF l.type = "blank" THEN "scan"
                               ELSE "handle"]
  /\ UNCHANGED <<serverVars, link, left, sent, resp, answered, fileVars>>

(* End of file, or a reset that takes the lines not yet read with it.      *)
ScanEnd(c) ==
  /\ at[c] = "scan"
  /\ left[c]
  /\ at' = [at EXCEPT ![c] = "return"]
  /\ UNCHANGED <<serverVars, link, left, sent, next, resp, answered, fileVars>>

SetsConfig(l) == l.type = "set_config" /\ l.payload

Handle(c) ==
  /\ at[c] = "handle"
  /\ ~SetsConfig(Line(c))
  /\ \E r \in HandleMessage(Line(c)) : resp' = [resp EXCEPT ![c] = r]
  /\ at' = [at EXCEPT ![c] = "write"]
  /\ UNCHANGED <<serverVars, link, left, sent, next, answered, fileVars>>

(* os.WriteFile on the configuration itself: open, write, close.  agentd   *)
(* may read the file in between.                                           *)
Writing(c) == at[c] = "config"

(* Mutant: without O_TRUNC. *)
OpenConfigKeep(c) ==
  /\ at[c] = "handle"
  /\ SetsConfig(Line(c))
  /\ FS!Exists("jcard.toml") \/ FS!OpenTrunc("jcard.toml", "jcard.toml", None)
  /\ FS!Exists("jcard.toml") => UNCHANGED <<dir, file>>
  /\ alone' = [d \in Conns |-> d = c /\ \A e \in Conns : ~Writing(e)]
  /\ at' = [at EXCEPT ![c] = "config"]
  /\ UNCHANGED <<serverVars, link, left, sent, next, resp, answered>>

OpenConfig(c) ==
  /\ at[c] = "handle"
  /\ SetsConfig(Line(c))
  /\ FS!OpenTrunc("jcard.toml", "jcard.toml", None)
  /\ alone' = [d \in Conns |-> d = c /\ \A e \in Conns : ~Writing(e)]
  /\ at' = [at EXCEPT ![c] = "config"]
  /\ UNCHANGED <<serverVars, link, left, sent, next, resp, answered>>

(* open(2) fails: the file stays as it is, and the host is told.           *)
OpenConfigFails(c) ==
  /\ Faults
  /\ at[c] = "handle"
  /\ SetsConfig(Line(c))
  /\ resp' = [resp EXCEPT ![c] = Nack("set_config")]
  /\ at' = [at EXCEPT ![c] = "write"]
  /\ UNCHANGED <<serverVars, link, left, sent, next, answered, fileVars>>

WriteConfig(c) ==
  /\ Writing(c)
  /\ FS!Write("jcard.toml", Content[c])
  /\ resp' = [resp EXCEPT ![c] = [type |-> "ack", to |-> "set_config", ok |-> TRUE]]
  /\ at' = [at EXCEPT ![c] = "write"]
  /\ UNCHANGED <<serverVars, link, left, sent, next, answered, alone>>

(* The disk is full: part of the content is there, and the host is told.   *)
WriteConfigFails(c) ==
  /\ Faults
  /\ Writing(c)
  /\ \E k \in 0 .. Len(Content[c]) - 1 : FS!Write("jcard.toml", SubSeq(Content[c], 1, k))
  /\ alone' = [alone EXCEPT ![c] = FALSE]
  /\ resp' = [resp EXCEPT ![c] = Nack("set_config")]
  /\ at' = [at EXCEPT ![c] = "write"]
  /\ UNCHANGED <<serverVars, link, left, sent, next, answered>>

WriteResponse(c) ==
  /\ at[c] = "write"
  /\ link[c] = "open"
  /\ answered' = [answered EXCEPT ![c] = Append(@, resp[c])]
  /\ resp' = [resp EXCEPT ![c] = None]
  /\ at' = [at EXCEPT ![c] = "scan"]
  /\ UNCHANGED <<serverVars, link, left, sent, next, fileVars>>

(* The client is gone, and every later write fails too.  Only for a        *)
(* response, and not for the ack of an error, is the outcome of Encode     *)
(* looked at.                                                              *)
WriteResponseFails(c) ==
  /\ at[c] = "write"
  /\ left[c]
  /\ link' = [link EXCEPT ![c] = "broken"]
  /\ resp' = [resp EXCEPT ![c] = None]
  /\ at' = [at EXCEPT ![c] = IF IsError(Line(c)) THEN "scan" ELSE "return"]
  /\ UNCHANGED <<serverVars, left, sent, next, answered, fileVars>>

(* Mutants: wg.Done is skipped when the server ends the connection; and    *)
(* wg.Done twice.                                                          *)
ReturnUnlessLeft(c) ==
  /\ at[c] = "return"
  /\ at' = [at EXCEPT ![c] = "done"]
  /\ link' = [link EXCEPT ![c] = "cut"]
  /\ wg' = IF left[c] THEN wg - 1 ELSE wg
  /\ UNCHANGED <<kind, listening, cancelled, serve, left, sent, next, resp, answered, fileVars>>

ReturnTwice(c) ==
  /\ at[c] = "return"
  /\ at' = [at EXCEPT ![c] = "done"]
  /\ link' = [link EXCEPT ![c] = "cut"]
  /\ wg' = wg - 2
  /\ UNCHANGED <<kind, listening, cancelled, serve, left, sent, next, resp, answered, fileVars>>

(* The deferred conn.Close and wg.Done. *)
Return(c) ==
  /\ at[c] = "return"
  /\ at' = [at EXCEPT ![c] = "done"]
  /\ link' = [link EXCEPT ![c] = "cut"]
  /\ wg' = wg - 1
  /\ UNCHANGED <<kind, listening, cancelled, serve, left, sent, next, resp, answered, fileVars>>

ConnStep(c) ==
  \/ Scan(c) \/ ScanEnd(c)
  \/ Handle(c)
  \/ OpenConfig(c) \/ OpenConfigFails(c) \/ WriteConfig(c) \/ WriteConfigFails(c)
  \/ WriteResponse(c) \/ WriteResponseFails(c)
  \/ Return(c)

Next ==
  \/ ServeStep
  \/ AcceptFails /\ ServeError
  \/ Cancel \/ CloseListener
  \/ \E c \in Conns : Client(c) \/ ConnStep(c)

Spec == Init /\ [][Next]_vars

(* What holds a connection's goroutine for as long as it likes: Encode has *)
(* no deadline, and ends when the client reads or is gone; and mount(8) is *)
(* run without a timeout.                                                  *)
Unread(c)   == at[c] = "write" /\ c \in Deaf /\ ~left[c]
Mounting(c) == at[c] = "handle" /\ Line(c).type = "mount" /\ Line(c).payload

(* Every other step of a goroutine that can run is taken.                  *)
Fairness ==
  /\ WF_vars(ServeStep)
  /\ WF_vars(CloseListener)
  /\ \A c \in Conns : WF_vars(ConnStep(c) /\ ~Unread(c) /\ ~Mounting(c))

FairSpec == Spec /\ Fairness

-----------------------------------------------------------------------------
TypeOK ==
  /\ kind \in Kinds
  /\ listening \in BOOLEAN
  /\ cancelled \in BOOLEAN
  /\ serve \in ServePcs
  /\ wg \in 0 .. Cardinality(Conns)
  /\ link \in [Conns -> Links]
  /\ left \in [Conns -> BOOLEAN]
  /\ at \in [Conns -> ConnPcs]
  /\ \A c \in Conns : next[c] \in 0 .. Len(sent[c])
  /\ alone \in [Conns -> BOOLEAN]

(* Serve "blocks until all active connections have finished" (server.go:41) *)
(* when it ends with the context: no goroutine still answers a message or  *)
(* writes the configuration once it has returned.                          *)
ServeWaits == serve = "returned" => \A c \in Conns : ~Active(c)

(* A set_config that was acknowledged, and that no other overlapped, has   *)
(* left the whole configuration it was sent and nothing of an earlier one, *)
(* whatever became of those before it (cut short, failed, mixed): until    *)
(* the next one begins, that is what agentd reads.                         *)
ConfigAsAcked ==
  \A c \in Conns : alone[c] /\ ~Writing(c) => file["jcard.toml"].data = Content[c]

Idle(c) == at[c] = "scan" /\ next[c] = Len(sent[c]) /\ ~left[c]

(* "Serve accepts connections until the context is cancelled.  It blocks   *)
(* until all active connections have finished" (server.go:40-41).  Once it *)
(* is cancelled Serve ends, unless one and the same thing holds it for     *)
(* ever: a client that neither sends nor closes, or reads no answer, or    *)
(* whose mount(8) does not end; or, on vsock, accept4(2), which waits for  *)
(* one more connection.                                                    *)
ServeEnds ==
  <>cancelled =>
    \/ <>(serve \in {"returned", "failed"})
    \/ \E c \in Conns : <>[](Idle(c) \/ Unread(c) \/ Mounting(c))
    \/ <>[](kind = "vsock" /\ serve = "accept")

IsMessage(l) == l.type # "blank"

(* The messages among the lines of s, in their order.  SelectSeq would do; *)
(* the k-th message is named by counting so that it can be reasoned about. *)
MessagesIn(s) == {i \in DOMAIN s : IsMessage(s[i])}
Upto(P, n)    == Cardinality({i \in P : i <= n})
MessagesOf(s) ==
  LET P == MessagesIn(s)
  IN  [k \in 1 .. Cardinality(P) |-> s[CHOOSE i \in P : Upto(P, i) = k]]

Asked(c) == MessagesOf(sent[c])

(* A connection that waits for its client has answered every message of    *)
(* it, a refusal or a failed write included: none is skipped or held back  *)
(* (the loop at server.go:84-124).                                         *)
IdleHasAnswered == \A c \in Conns : Idle(c) => Len(answered[c]) = Len(Asked(c))

(* A message of a client that reads is answered, whatever other clients do *)
(* or leave undone, reading or waiting for a mount(8) that does not end,   *)
(* unless the client leaves, the server stops, there is a line over 1MB in *)
(* the way, or a mount that does not end is.                               *)
EveryMessageAnswered ==
  \A c \in Conns \ Deaf : \A k \in 1 .. MaxLines[c] :
    Cardinality(MessagesIn(sent[c])) >= k ~>
      \/ Len(answered[c]) >= k
      \/ Mounting(c)
      \/ left[c] \/ link[c] = "lost" \/ cancelled \/ serve = "failed"
      \/ \E i \in DOMAIN sent[c] : sent[c][i].type = "long"

Talk == INSTANCE Dialogue WITH
  Messages <- UNION {Says[c] : c \in Conns},
  asked <- [c \in Conns |-> Asked(c)],
  over  <- [c \in Conns |-> link[c] \in {"cut", "lost"}]

(* The responses on a connection are those of the table, one for each      *)
(* message and in their order, across blank and garbled lines, refusals,   *)
(* failed writes and cancellation; a line over 1MB is followed by none, so *)
(* none is taken for the answer to another message.                        *)
ImplementsDialogue == Talk!Spec

=============================================================================
