------------------------------- MODULE Dialogue -------------------------------
(***************************************************************************)
(* What a host that talks to the control plane may rely on ("Wire          *)
(* protocol", README.md:37-59): on each connection, one response for each  *)
(* message, of the documented type, in the order of the messages, until    *)
(* the connection is over.                                                 *)
(***************************************************************************)
EXTENDS Naturals, Sequences

CONSTANTS
  Conns,
  Messages,
  Commands    \* the messages that are answered with an ack, or refused

VARIABLES
  asked,      \* the messages each client has sent
  answered,   \* the responses it was given
  over        \* the connection was closed

vars == <<asked, answered, over>>

Ack(type, ok) == [type |-> "ack", to |-> type, ok |-> ok]

(* The table of messages, README.md:50-58.  A message over 1MB has no      *)
(* response, and so nothing behind it has one.                             *)
Responses(m) ==
  CASE m.type = "ping"       -> {[type |-> "pong"]}
    [] m.type = "get_health" -> {[type |-> "health"]}
    [] m.type = "shutdown"   -> {Ack("shutdown", TRUE)}
    [] m.type \in Commands   -> {Ack(m.type, ok) : ok \in {FALSE, m.payload}}
    [] m.type = "long"       -> {}
    [] m.type = "garbled"    -> {Ack("", FALSE)}
    [] OTHER                 -> {Ack(m.type, FALSE)}

Init ==
  /\ asked = [c \in Conns |-> <<>>]
  /\ answered = [c \in Conns |-> <<>>]
  /\ over = [c \in Conns |-> FALSE]

Ask(c) ==
  /\ \E m \in Messages : asked' = [asked EXCEPT ![c] = Append(@, m)]
  /\ UNCHANGED <<answered, over>>

Answer(c) ==
  /\ ~over[c]
  /\ Len(answered[c]) < Len(asked[c])
  /\ \E r \in Responses(asked[c][Len(answered[c]) + 1]) :
       answered' = [answered EXCEPT ![c] = Append(@, r)]
  /\ UNCHANGED <<asked, over>>

HangUp ==
  /\ \A c \in Conns : over[c] => over'[c]
  /\ over' \in [Conns -> BOOLEAN]
  /\ UNCHANGED <<asked, answered>>

Next ==
  \/ HangUp
  \/ \E c \in Conns : Answer(c) \/ Ask(c)

Spec == Init /\ [][Next]_vars

=============================================================================
