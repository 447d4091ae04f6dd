-------------------------- MODULE ControlServerProofs --------------------------
(***************************************************************************)
(* For every set of connections, of what their clients send, and for both  *)
(* kinds of listener: the types of module ControlServer, that Serve waits  *)
(* for its connections, that an acknowledged configuration is whole, and   *)
(* that each connection keeps to the dialogue of module Dialogue.          *)
(***************************************************************************)
EXTENDS ControlServer, FiniteSetTheorems, TLAPS

Lines == UNION {Says[c] : c \in Conns}

ActiveConns == {c \in Conns : Active(c)}

(* The types, and what the scanner holds.                                  *)
ConnTypeOK ==
  /\ kind \in Kinds
  /\ listening \in BOOLEAN
  /\ cancelled \in BOOLEAN
  /\ serve \in ServePcs
  /\ link \in [Conns -> Links]
  /\ left \in [Conns -> BOOLEAN]
  /\ sent \in [Conns -> Seq(Lines)]
  /\ next \in [Conns -> Nat]
  /\ at \in [Conns -> ConnPcs]
  /\ alone \in [Conns -> BOOLEAN]
  /\ \A c \in Conns : next[c] <= Len(sent[c])

(* A connection has a goroutine only once it was accepted.                 *)
AcceptedFirst == \A c \in Conns : link[c] \in {"none", "queued"} => at[c] = "none"

(* wg counts the goroutines that have yet to call Done, and nobody is      *)
(* added once Serve has found it zero.                                     *)
Counted ==
  /\ wg = Cardinality(ActiveConns)
  /\ serve = "returned" => wg = 0

IInv == ConnTypeOK /\ AcceptedFirst /\ Counted

-----------------------------------------------------------------------------
LEMMA ActiveFinite ==
  /\ IsFiniteSet(ActiveConns)
  /\ Cardinality(ActiveConns) \in Nat
  /\ Cardinality(ActiveConns) <= Cardinality(Conns)
  /\ Cardinality(ActiveConns) = 0 <=> ActiveConns = {}
<1>1. IsFiniteSet(Conns) /\ ActiveConns \in SUBSET Conns
  BY ConnAssumption DEF ActiveConns
<1>2. IsFiniteSet(ActiveConns) /\ Cardinality(ActiveConns) <= Cardinality(Conns)
  BY <1>1, FS_Subset
<1> QED
  BY <1>2, FS_CardinalityType, FS_EmptySet

(* The steps that neither start nor end a goroutine leave the count.       *)
LEMMA SameActive ==
  ASSUME \A c \in Conns : Active(c)' = Active(c)
  PROVE  ActiveConns' = ActiveConns
BY DEF ActiveConns

LEMMA OneMoreActive ==
  ASSUME ConnTypeOK, NEW c \in Conns, ~Active(c),
         at' = [at EXCEPT ![c] = "scan"]
  PROVE  Cardinality(ActiveConns') = Cardinality(ActiveConns) + 1
<1>1. ActiveConns' = ActiveConns \cup {c} /\ c \notin ActiveConns
  BY DEF ActiveConns, Active, ConnTypeOK
<1> QED
  BY <1>1, ActiveFinite, FS_AddElement

LEMMA OneLessActive ==
  ASSUME ConnTypeOK, NEW c \in Conns, Active(c),
         at' = [at EXCEPT ![c] = "done"]
  PROVE  Cardinality(ActiveConns') = Cardinality(ActiveConns) - 1
<1>1. ActiveConns' = ActiveConns \ {c} /\ c \in ActiveConns
  BY DEF ActiveConns, Active, ConnTypeOK
<1> QED
  BY <1>1, ActiveFinite, FS_RemoveElement

(* One more line. *)
LEMMA AppendLine ==
  ASSUME NEW q \in Seq(Lines), NEW l \in Lines
  PROVE  Append(q, l) \in Seq(Lines) /\ Len(Append(q, l)) = Len(q) + 1
OBVIOUS

-----------------------------------------------------------------------------
LEMMA InitIInv == Init => IInv
<1> SUFFICES ASSUME Init PROVE IInv
  OBVIOUS
<1>1. ConnTypeOK /\ AcceptedFirst
  <2>1. <<>> \in Seq(Lines) /\ Len(<<>>) = 0
    OBVIOUS
  <2>2. /\ sent \in [Conns -> Seq(Lines)]
        /\ \A c \in Conns : sent[c] = <<>> /\ next[c] = 0
    BY <2>1 DEF Init
  <2>3. \A c \in Conns : next[c] <= Len(sent[c])
    BY <2>1, <2>2
  <2>4. /\ kind \in Kinds /\ listening \in BOOLEAN /\ cancelled \in BOOLEAN
        /\ serve \in ServePcs /\ link \in [Conns -> Links]
        /\ left \in [Conns -> BOOLEAN] /\ next \in [Conns -> Nat]
        /\ at \in [Conns -> ConnPcs] /\ alone \in [Conns -> BOOLEAN]
        /\ \A c \in Conns : at[c] = "none"
    BY DEF Init, ServePcs, Links, ConnPcs
  <2> QED
    BY <2>2, <2>3, <2>4 DEF ConnTypeOK, AcceptedFirst
<1>2. ActiveConns = {}
  BY DEF Init, ActiveConns, Active
<1>3. Counted
  BY <1>2, ActiveFinite DEF Init, Counted
<1> QED
  BY <1>1, <1>3 DEF IInv

(* The steps of clients and of Serve. *)
LEMMA ClientKeepsIInv ==
  ASSUME IInv, NEW c \in Conns, Client(c)
  PROVE  IInv'
<1> USE DEF IInv
<1>1. ActiveConns' = ActiveConns
  BY SameActive DEF Client, Connect, Send, Leave, Active
<1>2. Counted'
  BY <1>1 DEF Client, Connect, Send, Leave, Counted, serverVars
<1>3. CASE Connect(c)
  BY <1>2, <1>3 DEF Connect, ConnTypeOK, AcceptedFirst, Links, serverVars, fileVars
<1>4. CASE Send(c)
  <2>1. PICK l \in Says[c] : sent' = [sent EXCEPT ![c] = Append(@, l)]
    BY <1>4 DEF Send
  <2>2. Append(sent[c], l) \in Seq(Lines) /\ Len(Append(sent[c], l)) = Len(sent[c]) + 1
    BY AppendLine DEF ConnTypeOK, Lines
  <2>3. ConnTypeOK'
    BY <1>4, <2>1, <2>2 DEF Send, ConnTypeOK, serverVars, fileVars
  <2> QED
    BY <1>2, <1>4, <2>3 DEF Send, AcceptedFirst
<1>5. CASE Leave(c)
  BY <1>2, <1>5 DEF Leave, ConnTypeOK, AcceptedFirst, serverVars, fileVars
<1> QED
  BY <1>3, <1>4, <1>5 DEF Client

LEMMA ResetType ==
  ASSUME ConnTypeOK, AcceptedFirst
  PROVE  /\ ResetQueued \in [Conns -> Links]
         /\ \A c \in Conns : ResetQueued[c] \in {"none", "queued"} => at[c] = "none"
BY DEF ResetQueued, ConnTypeOK, AcceptedFirst, Links

LEMMA ServeKeepsIInv ==
  ASSUME IInv,
         ServeStep \/ (AcceptFails /\ ServeError) \/ Cancel \/ CloseListener
  PROVE  IInv'
<1> USE DEF IInv
<1>1. CASE Cancel
  <2>1. ActiveConns' = ActiveConns
    BY <1>1, SameActive DEF Cancel, Active, connVars
  <2> QED
    BY <1>1, <2>1 DEF Cancel, ConnTypeOK, AcceptedFirst, Counted, connVars, fileVars
<1>2. CASE CloseListener
  <2>1. ActiveConns' = ActiveConns
    BY <1>2, SameActive DEF CloseListener, Active
  <2> QED
    BY <1>2, <2>1, ResetType
    DEF CloseListener, ConnTypeOK, AcceptedFirst, Counted, fileVars
<1>3. CASE ServeError /\ serve \in {"loop", "accept"}
  <2>1. ActiveConns' = ActiveConns
    BY <1>3, SameActive DEF ServeError, Active
  <2> QED
    BY <1>3, <2>1, ResetType
    DEF ServeError, ConnTypeOK, AcceptedFirst, Counted, ServePcs, fileVars
<1>4. CASE EnterAccept \/ Waited
  <2>1. ActiveConns' = ActiveConns
    BY <1>4, SameActive DEF EnterAccept, Waited, Active, connVars
  <2> QED
    BY <1>4, <2>1
    DEF EnterAccept, Waited, ConnTypeOK, AcceptedFirst, Counted, ServePcs, connVars, fileVars
<1>5. ASSUME NEW c \in Conns, Accept(c)
      PROVE  IInv'
  <2>1. ~Active(c)
    BY <1>5 DEF Accept, AcceptedFirst, Active
  <2>2. Cardinality(ActiveConns') = Cardinality(ActiveConns) + 1
    BY <1>5, <2>1, OneMoreActive DEF Accept
  <2>3. Counted'
    BY <1>5, <2>2 DEF Accept, Counted
  <2>4. ConnTypeOK'
    BY <1>5, ResetType DEF Accept, ConnTypeOK, ServePcs, ConnPcs, Links, fileVars
  <2>5. AcceptedFirst'
    BY <1>5, ResetType DEF Accept, ConnTypeOK, AcceptedFirst
  <2> QED
    BY <2>3, <2>4, <2>5
<1> QED
  BY <1>1, <1>2, <1>3, <1>4, <1>5 DEF ServeStep, AcceptClosed, AcceptFails

(* The steps of a connection. *)
LEMMA ConnKeepsIInv ==
  ASSUME IInv, NEW c \in Conns, ConnStep(c)
  PROVE  IInv'
<1> USE DEF IInv
<1>1. CASE Return(c)
  <2>1. Cardinality(ActiveConns') = Cardinality(ActiveConns) - 1
    BY <1>1, OneLessActive DEF Return, Active
  <2>2. serve # "returned"
    <3>1. c \in ActiveConns
      BY <1>1 DEF Return, ActiveConns, Active
    <3> QED
      BY <3>1, ActiveFinite DEF Counted
  <2>3. Counted'
    BY <1>1, <2>1, <2>2 DEF Return, Counted
  <2> QED
    BY <1>1, <2>3 DEF Return, ConnTypeOK, AcceptedFirst, ConnPcs, Links, fileVars
<1>2. ASSUME Active(c), Active(c)',
             \A d \in Conns \ {c} : at'[d] = at[d],
             wg' = wg, serve' = serve
      PROVE  Counted'
  <2>1. ActiveConns' = ActiveConns
    BY <1>2, SameActive DEF Active
  <2> QED
    BY <1>2, <2>1 DEF Counted
<1>3. CASE Scan(c)
  <2>1. Counted'
    BY <1>2, <1>3 DEF Scan, ConnTypeOK, Active, serverVars
  <2>2. next[c] + 1 <= Len(sent[c])
    BY <1>3 DEF Scan, ConnTypeOK
  <2> QED
    BY <1>3, <2>1, <2>2
    DEF Scan, ConnTypeOK, AcceptedFirst, ConnPcs, serverVars, fileVars
<1>4. CASE ScanEnd(c) \/ Handle(c) \/ OpenConfigFails(c)
  <2>1. Counted'
    BY <1>2, <1>4 DEF ScanEnd, Handle, OpenConfigFails, ConnTypeOK, Active, serverVars
  <2> QED
    BY <1>4, <2>1
    DEF ScanEnd, Handle, OpenConfigFails, ConnTypeOK, AcceptedFirst, ConnPcs, serverVars, fileVars
<1>5. CASE OpenConfig(c)
  <2>1. Counted'
    BY <1>2, <1>5 DEF OpenConfig, ConnTypeOK, Active, serverVars
  <2> QED
    BY <1>5, <2>1 DEF OpenConfig, ConnTypeOK, AcceptedFirst, ConnPcs, serverVars
<1>6. CASE WriteConfig(c) \/ WriteConfigFails(c)
  <2>1. Counted'
    BY <1>2, <1>6 DEF WriteConfig, WriteConfigFails, Writing, ConnTypeOK, Active, serverVars
  <2> QED
    BY <1>6, <2>1
    DEF WriteConfig, WriteConfigFails, Writing, ConnTypeOK, AcceptedFirst, ConnPcs, serverVars
<1>7. CASE WriteResponse(c) \/ WriteResponseFails(c)
  <2>1. Counted'
    BY <1>2, <1>7 DEF WriteResponse, WriteResponseFails, ConnTypeOK, Active, serverVars
  <2> QED
    BY <1>7, <2>1
    DEF WriteResponse, WriteResponseFails, ConnTypeOK, AcceptedFirst, ConnPcs, Links,
        serverVars, fileVars
<1> QED
  BY <1>1, <1>3, <1>4, <1>5, <1>6, <1>7 DEF ConnStep

LEMMA NextIInv == IInv /\ [Next]_vars => IInv'
<1> SUFFICES ASSUME IInv, [Next]_vars PROVE IInv'
  OBVIOUS
<1>1. CASE UNCHANGED vars
  <2>1. ActiveConns' = ActiveConns
    BY <1>1, SameActive DEF vars, connVars, Active
  <2> QED
    BY <1>1, <2>1
    DEF IInv, ConnTypeOK, AcceptedFirst, Counted, vars, serverVars, connVars, fileVars
<1> QED
  BY <1>1, ClientKeepsIInv, ServeKeepsIInv, ConnKeepsIInv DEF Next

LEMMA Inductive == Spec => []IInv
BY InitIInv, NextIInv, PTL DEF Spec

-----------------------------------------------------------------------------
(* What the invariant says of the run's properties.                        *)
LEMMA IInvImplies == IInv => TypeOK /\ ServeWaits
<1>1. IInv => TypeOK
  BY ActiveFinite, FS_CardinalityType, ConnAssumption DEF IInv, ConnTypeOK, Counted, TypeOK
<1>2. IInv => ServeWaits
  BY ActiveFinite DEF IInv, Counted, ServeWaits, ActiveConns
<1> QED
  BY <1>1, <1>2

(* Every variable of the control server keeps its type: above all, the     *)
(* wait group never goes below zero, where Done panics, nor above the      *)
(* number of connections.                                                  *)
THEOREM TypeCorrect == Spec => []TypeOK
BY IInvImplies, Inductive, PTL

(* When Serve has returned without an error, no goroutine of a connection  *)
(* is left (server.go:41).                                                 *)
THEOREM WaitsForConnections == Spec => []ServeWaits
BY IInvImplies, Inductive, PTL

-----------------------------------------------------------------------------
(* The configuration file. *)

Config == "jcard.toml"

Data == file[Config].data

FileTypeOK ==
  /\ dir \in [{Config} -> {Config, None}]
  /\ file \in [{Config} -> [data : Seq(Conns), attr : {None}]]

(* Who set the configuration alone found an empty file, and nobody else    *)
(* writes it.                                                              *)
AloneInv ==
  \A c \in Conns : alone[c] =>
    /\ \A e \in Conns \ {c} : ~Writing(e)
    /\ Data = IF Writing(c) THEN <<>> ELSE Content[c]

CInv == IInv /\ FileTypeOK /\ AloneInv

(* What write(2) leaves of a file. *)
LEMMA Overwrite ==
  ASSUME NEW d \in Seq(Conns), NEW q \in Seq(Conns)
  PROVE  /\ d \o SubSeq(q, Len(d) + 1, Len(q)) \in Seq(Conns)
         /\ q = <<>> => d \o SubSeq(q, Len(d) + 1, Len(q)) = d
<1>1. SubSeq(q, Len(d) + 1, Len(q)) \in Seq(Conns)
  OBVIOUS
<1>2. ASSUME q = <<>>
      PROVE  SubSeq(q, Len(d) + 1, Len(q)) = <<>>
  BY <1>2
<1>3. d \o <<>> = d
  OBVIOUS
<1> QED
  BY <1>1, <1>2, <1>3

LEMMA Prefix ==
  ASSUME NEW d \in Seq(Conns), NEW k \in 0 .. Len(d) - 1
  PROVE  SubSeq(d, 1, k) \in Seq(Conns)
OBVIOUS

LEMMA WriteFile ==
  ASSUME FileTypeOK, NEW d \in Seq(Conns), FS!Write(Config, d)
  PROVE  FileTypeOK' /\ (Data = <<>> => Data' = d)
<1>1. file' = [file EXCEPT ![Config].data = d \o SubSeq(Data, Len(d) + 1, Len(Data))] /\ dir' = dir
  BY DEF FS!Write, Data, Config
<1>2. Data \in Seq(Conns)
  BY DEF FileTypeOK, Data
<1> QED
  BY <1>1, <1>2, Overwrite DEF FileTypeOK, Data

LEMMA OpenFile ==
  ASSUME FileTypeOK, FS!OpenTrunc(Config, Config, None)
  PROVE  FileTypeOK' /\ Data' = <<>>
<1>1. <<>> \in Seq(Conns)
  OBVIOUS
<1>2. file' = [file EXCEPT ![Config] = [data |-> <<>>, attr |-> None]]
  BY DEF FS!OpenTrunc, FS!Exists, FileTypeOK, Config
<1>3. dir' \in [{Config} -> {Config, None}]
  BY DEF FS!OpenTrunc, FileTypeOK, Config
<1> QED
  BY <1>1, <1>2, <1>3 DEF FileTypeOK, Data

(* A step that leaves the file, and lets nobody begin or end a write.      *)
LEMMA FileApart ==
  ASSUME CInv, UNCHANGED fileVars, \A c \in Conns : Writing(c)' = Writing(c)
  PROVE  FileTypeOK' /\ AloneInv'
BY DEF CInv, FileTypeOK, AloneInv, Data, fileVars

(* A write by the connection that is at it. *)
LEMMA WriterKeepsAlone ==
  ASSUME CInv, NEW c \in Conns, Writing(c), alone' \in [Conns -> BOOLEAN],
         \A e \in Conns : alone'[e] => alone[e],
         at' = [at EXCEPT ![c] = "write"],
         alone'[c] => (Data = <<>> => Data' = Content[c])
  PROVE  AloneInv'
<1> SUFFICES ASSUME NEW e \in Conns, alone'[e]
             PROVE  /\ \A f \in Conns \ {e} : ~Writing(f)'
                    /\ Data' = IF Writing(e)' THEN <<>> ELSE Content[e]
  BY DEF AloneInv
<1>1. e = c
  BY DEF CInv, AloneInv
<1>2. Data = <<>>
  BY <1>1 DEF CInv, AloneInv
<1> QED
  BY <1>1, <1>2 DEF CInv, AloneInv, IInv, ConnTypeOK, Writing

LEMMA NextCInv == CInv /\ [Next]_vars => CInv'
<1> SUFFICES ASSUME CInv, [Next]_vars PROVE CInv'
  OBVIOUS
<1>1. IInv'
  BY NextIInv DEF CInv
<1>2. SUFFICES FileTypeOK' /\ AloneInv'
  BY <1>1 DEF CInv
<1> USE DEF Writing
<1>3. CASE UNCHANGED vars
  BY <1>3, FileApart DEF vars, connVars
<1>4. CASE ServeStep \/ (AcceptFails /\ ServeError) \/ Cancel \/ CloseListener
  <2>1. ASSUME NEW c \in Conns, Accept(c)
        PROVE  FileTypeOK' /\ AloneInv'
    <3>1. at[c] = "none"
      BY <2>1 DEF Accept, CInv, IInv, AcceptedFirst
    <3> QED
      BY <2>1, <3>1, FileApart DEF Accept, CInv, IInv, ConnTypeOK
  <2>2. CASE EnterAccept \/ Waited \/ ServeError \/ Cancel \/ CloseListener
    BY <2>2, FileApart DEF EnterAccept, Waited, ServeError, Cancel, CloseListener, connVars
  <2> QED
    BY <1>4, <2>1, <2>2 DEF ServeStep
<1>5. ASSUME NEW c \in Conns, Client(c)
      PROVE  FileTypeOK' /\ AloneInv'
  BY <1>5, FileApart DEF Client, Connect, Send, Leave
<1>6. ASSUME NEW c \in Conns, ConnStep(c)
      PROVE  FileTypeOK' /\ AloneInv'
  <2> USE DEF CInv, IInv
  <2>1. CASE Scan(c) \/ ScanEnd(c) \/ Handle(c) \/ OpenConfigFails(c)
    BY <2>1, FileApart DEF Scan, ScanEnd, Handle, OpenConfigFails, ConnTypeOK
  <2>2. CASE WriteResponse(c) \/ WriteResponseFails(c) \/ Return(c)
    BY <2>2, FileApart DEF WriteResponse, WriteResponseFails, Return, ConnTypeOK
  <2>3. CASE OpenConfig(c)
    <3>1. FileTypeOK' /\ Data' = <<>>
      BY <2>3, OpenFile DEF OpenConfig, Config
    <3>2. AloneInv'
      BY <2>3, <3>1 DEF OpenConfig, AloneInv, ConnTypeOK
    <3> QED
      BY <3>1, <3>2
  <2>4. CASE WriteConfig(c)
    <3>1. FileTypeOK' /\ (Data = <<>> => Data' = Content[c])
      BY <2>4, WriteFile, ConnAssumption DEF WriteConfig, Config
    <3>2. AloneInv'
      BY <2>4, <3>1, WriterKeepsAlone DEF WriteConfig, ConnTypeOK
    <3> QED
      BY <3>1, <3>2
  <2>5. CASE WriteConfigFails(c)
    <3>1. PICK k \in 0 .. Len(Content[c]) - 1 : FS!Write("jcard.toml", SubSeq(Content[c], 1, k))
      BY <2>5 DEF WriteConfigFails
    <3>2. SubSeq(Content[c], 1, k) \in Seq(Conns)
      BY Prefix, ConnAssumption
    <3>3. FileTypeOK'
      BY <3>1, <3>2, WriteFile DEF Config
    <3>4. AloneInv'
      BY <2>5, WriterKeepsAlone DEF WriteConfigFails, ConnTypeOK
    <3> QED
      BY <3>3, <3>4
  <2> QED
    BY <1>6, <2>1, <2>2, <2>3, <2>4, <2>5 DEF ConnStep
<1> QED
  BY <1>3, <1>4, <1>5, <1>6 DEF Next

LEMMA InitCInv == Init => CInv
<1> SUFFICES ASSUME Init PROVE CInv
  OBVIOUS
<1>1. AloneInv
  BY DEF Init, AloneInv
<1>2. FileTypeOK
  <2>1. PICK f \in Leftovers :
          /\ dir = [n \in {Config} |-> IF f = None THEN None ELSE n]
          /\ file = [n \in {Config} |-> IF f = None THEN [data |-> <<>>, attr |-> None]
                                        ELSE [data |-> f, attr |-> None]]
    BY DEF Init, FS!Empty, Config
  <2>2. <<>> \in Seq(Conns) /\ (f # None => f \in Seq(Conns))
    BY ConnAssumption
  <2> QED
    BY <2>1, <2>2 DEF FileTypeOK
<1> QED
  BY <1>1, <1>2, InitIInv DEF CInv

(* A set_config that was acknowledged and not overlapped has left the      *)
(* whole configuration it was sent, whatever it found in the file          *)
(* (os.WriteFile at stereosd.go:288), until the next one begins.           *)
THEOREM ConfigIsWhole == Spec => []ConfigAsAcked
<1>1. CInv => ConfigAsAcked
  BY DEF CInv, AloneInv, ConfigAsAcked, Data, Config
<1> QED
  BY <1>1, InitCInv, NextCInv, PTL DEF Spec

-----------------------------------------------------------------------------
(* The dialogue.  Counting in a finite set of line numbers: how many lie   *)
(* up to n, and what one more line adds.                                   *)
LEMMA UptoBounds ==
  ASSUME NEW P \in SUBSET Nat, IsFiniteSet(P), NEW n \in Nat
  PROVE  /\ Upto(P, n) \in Nat
         /\ Cardinality(P) \in Nat
         /\ Upto(P, n) <= Cardinality(P)
<1>1. {i \in P : i <= n} \in SUBSET P
  OBVIOUS
<1> QED
  BY <1>1, FS_Subset, FS_CardinalityType DEF Upto

LEMMA UptoNext ==
  ASSUME NEW P \in SUBSET Nat, IsFiniteSet(P), NEW n \in Nat
  PROVE  Upto(P, n + 1) = IF n + 1 \in P THEN Upto(P, n) + 1 ELSE Upto(P, n)
<1> DEFINE A == {i \in P : i <= n}
           B == {i \in P : i <= n + 1}
<1>1. A \in SUBSET P /\ n + 1 \notin A
  OBVIOUS
<1>2. IsFiniteSet(A)
  BY <1>1, FS_Subset DEF A
<1> HIDE DEF A, B
<1>0. \A i : /\ i \in A <=> i \in P /\ i <= n
             /\ i \in B <=> i \in P /\ i <= n + 1
  BY DEF A, B
<1>00. \A i \in P : i <= n + 1 <=> i <= n \/ i = n + 1
  OBVIOUS
<1>3. CASE n + 1 \in P
  <2>1. B = A \cup {n + 1}
    BY <1>0, <1>00, <1>3, Zenon
  <2> QED
    BY <1>1, <1>2, <1>3, <2>1, FS_AddElement DEF Upto, A, B
<1>4. CASE n + 1 \notin P
  <2>1. B = A
    BY <1>0, <1>00, <1>4, Zenon
  <2> QED
    BY <1>4, <2>1 DEF Upto, A, B
<1> QED
  BY <1>3, <1>4

LEMMA UptoStrict ==
  ASSUME NEW P \in SUBSET Nat, IsFiniteSet(P), NEW i \in P, NEW j \in P, i < j
  PROVE  Upto(P, i) < Upto(P, j)
<1> DEFINE A == {k \in P : k <= i}
           B == {k \in P : k <= j}
<1>1. B \in SUBSET P /\ A \in SUBSET (B \ {j}) /\ j \in B
  <2>1. i \in Nat /\ j \in Nat
    OBVIOUS
  <2>2. ASSUME NEW k \in P, k <= i
        PROVE  k <= j /\ k # j
    BY <2>1, <2>2
  <2>3. A \subseteq B \ {j}
    BY <2>2
  <2> QED
    BY <2>1, <2>3
<1>2. IsFiniteSet(B)
  BY <1>1, FS_Subset
<1>3. IsFiniteSet(B \ {j}) /\ Cardinality(B \ {j}) = Cardinality(B) - 1
  BY <1>1, <1>2, FS_RemoveElement
<1>4. Cardinality(A) <= Cardinality(B \ {j})
  BY <1>1, <1>3, FS_Subset
<1>5. Cardinality(A) \in Nat /\ Cardinality(B) \in Nat
  BY <1>1, <1>2, <1>3, FS_Subset, FS_CardinalityType
<1>6. Cardinality(A) < Cardinality(B)
  BY <1>3, <1>4, <1>5
<1> QED
  BY <1>6 DEF Upto

LEMMA UptoAdd ==
  ASSUME NEW P \in SUBSET Nat, IsFiniteSet(P),
         NEW m \in Nat \ {0}, \A i \in P : i < m
  PROVE  /\ IsFiniteSet(P \cup {m})
         /\ Cardinality(P \cup {m}) = Cardinality(P) + 1
         /\ Upto(P \cup {m}, m) = Cardinality(P) + 1
         /\ \A n \in Nat : n < m => Upto(P \cup {m}, n) = Upto(P, n)
<1>1. m \notin P
  OBVIOUS
<1>2. IsFiniteSet(P \cup {m}) /\ Cardinality(P \cup {m}) = Cardinality(P) + 1
  BY <1>1, FS_AddElement
<1>3. {i \in P \cup {m} : i <= m} = P \cup {m}
  <2>1. \A i \in P \cup {m} : i <= m
    OBVIOUS
  <2> QED
    BY <2>1, Zenon
<1>4. ASSUME NEW n \in Nat, n < m
      PROVE  {i \in P \cup {m} : i <= n} = {i \in P : i <= n}
  BY <1>4
<1> QED
  BY <1>2, <1>3, <1>4 DEF Upto

(* The numbers of the lines that are messages, and that none is missing    *)
(* when the messages are counted off.                                      *)
LEMMA MessagesInFinite ==
  ASSUME NEW S, NEW s \in Seq(S)
  PROVE  /\ MessagesIn(s) \in SUBSET Nat
         /\ IsFiniteSet(MessagesIn(s))
         /\ \A i \in MessagesIn(s) : i \in 1 .. Len(s) /\ IsMessage(s[i])
<1>1. MessagesIn(s) \in SUBSET (1 .. Len(s))
  BY DEF MessagesIn
<1>2. IsFiniteSet(1 .. Len(s))
  BY FS_Interval
<1>3. IsFiniteSet(MessagesIn(s))
  BY <1>1, <1>2, FS_Subset
<1> QED
  BY <1>1, <1>3 DEF MessagesIn

Complete(s) ==
  \A k \in 1 .. Cardinality(MessagesIn(s)) : \E i \in MessagesIn(s) : Upto(MessagesIn(s), i) = k

LEMMA NthMessage ==
  ASSUME NEW S, NEW s \in Seq(S), NEW i \in MessagesIn(s)
  PROVE  /\ Upto(MessagesIn(s), i) \in 1 .. Cardinality(MessagesIn(s))
         /\ MessagesOf(s)[Upto(MessagesIn(s), i)] = s[i]
<1> DEFINE P == MessagesIn(s)
           k == Upto(P, i)
           j == CHOOSE x \in P : Upto(P, x) = k
<1>1. P \in SUBSET Nat /\ IsFiniteSet(P) /\ \A x \in P : x \in 1 .. Len(s)
  BY MessagesInFinite
<1>2. k \in Nat /\ Cardinality(P) \in Nat /\ k <= Cardinality(P)
  BY <1>1, UptoBounds
<1>3. k # 0
  <2>1. IsFiniteSet({x \in P : x <= i}) /\ i \in {x \in P : x <= i}
    BY <1>1, FS_Subset
  <2> QED
    BY <2>1, FS_EmptySet DEF Upto
<1>4. j \in P /\ Upto(P, j) = k
  OBVIOUS
<1>5. j = i
  <2>1. i \in Nat /\ j \in Nat
    BY <1>1, <1>4
  <2>2. ~(i < j) /\ ~(j < i)
    BY <1>1, <1>2, <1>4, UptoStrict
  <2> QED
    BY <2>1, <2>2
<1>6. MessagesOf(s)[k] = s[j]
  BY <1>2, <1>3 DEF MessagesOf
<1> QED
  <2>1. k \in 1 .. Cardinality(P)
    BY <1>2, <1>3
  <2>2. MessagesOf(s)[k] = s[i]
    BY <1>5, <1>6
  <2> QED
    BY <2>1, <2>2

LEMMA MessagesType ==
  ASSUME NEW S, NEW s \in Seq(S), Complete(s)
  PROVE  /\ MessagesOf(s) \in Seq(S)
         /\ Len(MessagesOf(s)) = Cardinality(MessagesIn(s))
<1> DEFINE n == Cardinality(MessagesIn(s))
<1>1. n \in Nat
  BY MessagesInFinite, FS_CardinalityType
<1>2. ASSUME NEW k \in 1 .. n
      PROVE  MessagesOf(s)[k] \in S
  <2>1. PICK i \in MessagesIn(s) : Upto(MessagesIn(s), i) = k
    BY DEF Complete
  <2>2. i \in 1 .. Len(s)
    BY MessagesInFinite
  <2> QED
    BY <2>1, <2>2, NthMessage
<1>3. MessagesOf(s) = [k \in 1 .. n |-> MessagesOf(s)[k]]
  BY DEF MessagesOf
<1> QED
  BY <1>1, <1>2, <1>3

(* A blank line adds no message; any other line is the next message.       *)
LEMMA OneMoreLine ==
  ASSUME NEW S, NEW s \in Seq(S), NEW l \in S, Complete(s)
  PROVE  /\ Complete(Append(s, l))
         /\ MessagesOf(Append(s, l)) = IF IsMessage(l) THEN Append(MessagesOf(s), l)
                                                      ELSE MessagesOf(s)
         /\ \A n \in 0 .. Len(s) :
              Upto(MessagesIn(Append(s, l)), n) = Upto(MessagesIn(s), n)
<1> DEFINE t == Append(s, l)
           m == Len(s) + 1
           P == MessagesIn(s)
           Q == MessagesIn(t)
<1>1. /\ t \in Seq(S) /\ Len(t) = m /\ t[m] = l
      /\ \A i \in 1 .. Len(s) : t[i] = s[i]
  OBVIOUS
<1>2. P \in SUBSET Nat /\ IsFiniteSet(P) /\ \A i \in P : i \in 1 .. Len(s)
  BY MessagesInFinite
<1>3. Cardinality(P) \in Nat /\ Len(s) \in Nat
  BY <1>2, FS_CardinalityType
<1>4. DOMAIN t = 1 .. m /\ DOMAIN s = 1 .. Len(s)
  BY <1>1
<1>5. CASE ~IsMessage(l)
  <2>1. Q = P
    BY <1>1, <1>4, <1>5 DEF MessagesIn
  <2>2. Complete(t)
    BY <2>1 DEF Complete
  <2>3. DOMAIN MessagesOf(t) = 1 .. Cardinality(P) /\ DOMAIN MessagesOf(s) = 1 .. Cardinality(P)
    BY <2>1 DEF MessagesOf
  <2>4. ASSUME NEW k \in 1 .. Cardinality(P)
        PROVE  MessagesOf(t)[k] = MessagesOf(s)[k]
    <3>1. PICK i \in P : Upto(P, i) = k
      BY DEF Complete
    <3>2. t[i] = s[i]
      BY <1>1, <1>2
    <3> QED
      BY <1>1, <2>1, <3>1, <3>2, NthMessage
  <2>5. MessagesOf(t) = MessagesOf(s)
    BY <2>1, <2>4 DEF MessagesOf
  <2> QED
    BY <1>5, <2>1, <2>2, <2>5
<1>6. CASE IsMessage(l)
  <2>1. Q = P \cup {m}
    BY <1>1, <1>4, <1>6 DEF MessagesIn
  <2>2. /\ Cardinality(Q) = Cardinality(P) + 1
        /\ Upto(Q, m) = Cardinality(P) + 1
        /\ \A n \in Nat : n < m => Upto(Q, n) = Upto(P, n)
    <3>1. m \in Nat \ {0} /\ \A i \in P : i < m
      BY <1>2, <1>3
    <3> HIDE DEF m, P, Q
    <3> QED
      BY <1>2, <2>1, <3>1, UptoAdd
  <2>3. Complete(t)
    <3> SUFFICES ASSUME NEW k \in 1 .. Cardinality(P) + 1
                 PROVE  \E i \in Q : Upto(Q, i) = k
      BY <2>2 DEF Complete
    <3>1. CASE k = Cardinality(P) + 1
      BY <2>1, <2>2, <3>1
    <3>2. CASE k # Cardinality(P) + 1
      <4>1. PICK i \in P : Upto(P, i) = k
        BY <1>3, <3>2 DEF Complete
      <4>2. i \in Nat /\ i < m
        BY <1>2, <1>3
      <4>3. Upto(Q, i) = k /\ i \in Q
        BY <2>1, <2>2, <4>1, <4>2
      <4> QED
        BY <4>3
    <3> QED
      BY <3>1, <3>2
  <2>4. /\ MessagesOf(s) \in Seq(S) /\ Len(MessagesOf(s)) = Cardinality(P)
        /\ MessagesOf(t) \in Seq(S) /\ Len(MessagesOf(t)) = Cardinality(P) + 1
    BY <1>1, <2>2, <2>3, MessagesType
  <2>5. MessagesOf(t)[Cardinality(P) + 1] = l
    BY <1>1, <2>1, <2>2, NthMessage
  <2>6. ASSUME NEW k \in 1 .. Cardinality(P)
        PROVE  MessagesOf(t)[k] = MessagesOf(s)[k]
    <3>1. PICK i \in P : Upto(P, i) = k
      BY DEF Complete
    <3>0. i \in Nat /\ i < m /\ t[i] = s[i]
      BY <1>1, <1>2, <1>3
    <3>2. i \in Q /\ Upto(Q, i) = k /\ t[i] = s[i]
      BY <2>1, <2>2, <3>1, <3>0
    <3> QED
      BY <1>1, <3>1, <3>2, NthMessage
  <2>7. MessagesOf(t) = Append(MessagesOf(s), l)
    BY <2>4, <2>5, <2>6
  <2> QED
    BY <1>6, <2>2, <2>3, <2>7
<1> QED
  BY <1>5, <1>6

-----------------------------------------------------------------------------
(* What a connection owes its client.  While it is open and its goroutine  *)
(* reads or handles a line, as many responses were written as there are    *)
(* messages among the lines returned, but for the one in hand; and what is *)
(* about to be written answers that one.                                   *)
Working(c) == at[c] \in {"handle", "config", "write"}

AnyResponse == UNION {Talk!Responses(l) : l \in Lines}

Counts(c) ==
  link[c] = "open" /\ (Working(c) \/ at[c] = "scan") =>
    Upto(MessagesIn(sent[c]), next[c]) = Len(answered[c]) + (IF Working(c) THEN 1 ELSE 0)

TalkTypeOK ==
  /\ answered \in [Conns -> Seq(AnyResponse)]
  /\ resp \in [Conns -> AnyResponse \cup {None}]

InHand(c) ==
  /\ Working(c) => next[c] \in MessagesIn(sent[c]) /\ Line(c).type # "long"
  /\ at[c] = "config" => SetsConfig(Line(c))
  /\ at[c] = "write" => resp[c] \in Talk!Responses(Line(c))

LinkInv(c) ==
  /\ at[c] = "none" => next[c] = 0 /\ answered[c] = <<>>
  /\ Active(c) => link[c] \in {"open", "broken"}
  /\ link[c] = "broken" => left[c]

TalkInv ==
  /\ TalkTypeOK
  /\ \A c \in Conns : Complete(sent[c]) /\ Counts(c) /\ InHand(c) /\ LinkInv(c)

(* The responses of HandleMessage are those of the table.                  *)
LEMMA TableKept ==
  ASSUME NEW l \in Lines, IsMessage(l), l.type # "long"
  PROVE  /\ Talk!Responses(l) \in SUBSET AnyResponse
         /\ HandleMessage(l) \in SUBSET Talk!Responses(l)
         /\ SetsConfig(l) =>
              /\ [type |-> "ack", to |-> "set_config", ok |-> TRUE] \in Talk!Responses(l)
              /\ Nack("set_config") \in Talk!Responses(l)
<1>1. l.payload \in BOOLEAN
  BY ConnAssumption DEF Lines
<1>2. Talk!Responses(l) \in SUBSET AnyResponse
  BY DEF AnyResponse, Lines
<1> USE DEF HandleMessage, IsError, Nack, SetsConfig, IsMessage, Commands, Talk!Responses, Talk!Ack
<1>3. CASE l.type \in {"ping", "get_health", "shutdown"}
  BY <1>2, <1>3
<1>4. CASE l.type \in Commands
  <2>1. Talk!Responses(l) = {[type |-> "ack", to |-> l.type, ok |-> ok] : ok \in {FALSE, l.payload}}
    BY <1>4
  <2>2. HandleMessage(l) \in SUBSET Talk!Responses(l)
    BY <1>1, <1>4, <2>1
  <2>3. SetsConfig(l) =>
          /\ [type |-> "ack", to |-> "set_config", ok |-> TRUE] \in Talk!Responses(l)
          /\ Nack("set_config") \in Talk!Responses(l)
    BY <1>1, <2>1
  <2> QED
    BY <1>2, <2>2, <2>3
<1>5. CASE l.type \notin Commands \cup {"ping", "get_health", "shutdown"}
  BY <1>2, <1>5
<1> QED
  BY <1>3, <1>4, <1>5

(* Nobody has connected, or no longer.                                     *)
Blank ==
  /\ link = [c \in Conns |-> "none"]
  /\ left = [c \in Conns |-> FALSE]
  /\ sent = [c \in Conns |-> <<>>]
  /\ next = [c \in Conns |-> 0]
  /\ at = [c \in Conns |-> "none"]
  /\ resp = [c \in Conns |-> None]
  /\ answered = [c \in Conns |-> <<>>]

LEMMA BlankTalks == Blank => TalkInv
<1> SUFFICES ASSUME Blank PROVE TalkInv
  OBVIOUS
<1>1. <<>> \in Seq(AnyResponse) /\ Len(<<>>) = 0 /\ DOMAIN <<>> = {}
  OBVIOUS
<1>2. MessagesIn(<<>>) = {} /\ Complete(<<>>)
  <2>1. MessagesIn(<<>>) = {}
    BY <1>1 DEF MessagesIn
  <2> QED
    BY <2>1, FS_EmptySet DEF Complete
<1>3. ASSUME NEW c \in Conns
      PROVE  Complete(sent[c]) /\ Counts(c) /\ InHand(c) /\ LinkInv(c)
  BY <1>2 DEF Blank, Counts, InHand, LinkInv, Working, Active
<1> QED
  BY <1>1, <1>3 DEF Blank, TalkInv, TalkTypeOK

LEMMA InitTalkInv == Init => TalkInv
BY BlankTalks DEF Init, Blank

ConnTalkInv(c) == Complete(sent[c]) /\ Counts(c) /\ InHand(c) /\ LinkInv(c)

(* What a step may do to the connections it is not about.                  *)
Aside(c) ==
  /\ sent'[c] = sent[c] /\ next'[c] = next[c] /\ at'[c] = at[c]
  /\ answered'[c] = answered[c] /\ resp'[c] = resp[c]
  /\ left[c] => left'[c]
  /\ link'[c] # link[c] => <<link[c], link'[c]>> \in {<<"none", "queued">>, <<"queued", "lost">>}

LEMMA AsideKeeps ==
  ASSUME NEW c \in Conns, ConnTalkInv(c), Aside(c)
  PROVE  ConnTalkInv(c)' /\ (link[c] \in {"cut", "lost"} => link'[c] \in {"cut", "lost"})
<1>1. Complete(sent[c])' /\ Working(c)' = Working(c) /\ Line(c)' = Line(c)
  BY DEF ConnTalkInv, Aside, Complete, Working, Line
<1>2. MessagesIn(sent[c])' = MessagesIn(sent[c])
  BY DEF Aside
<1> QED
  BY <1>1, <1>2 DEF ConnTalkInv, Aside, Counts, InHand, LinkInv, Active, Working

LEMMA NothingSaid ==
  ASSUME sent' = sent, answered' = answered,
         \A c \in Conns : link[c] \in {"cut", "lost"} => link'[c] \in {"cut", "lost"}
  PROVE  Talk!Next
<1> DEFINE over == [c \in Conns |-> link[c] \in {"cut", "lost"}]
<1>1. \A c \in Conns : /\ over[c] <=> link[c] \in {"cut", "lost"}
                       /\ over'[c] <=> link'[c] \in {"cut", "lost"}
  OBVIOUS
<1>2. over' \in [Conns -> BOOLEAN]
  OBVIOUS
<1>3. [c \in Conns |-> Asked(c)]' = [c \in Conns |-> Asked(c)]
  BY DEF Asked
<1>4. Talk!HangUp
  BY <1>1, <1>2, <1>3 DEF Talk!HangUp
<1> QED
  BY <1>4 DEF Talk!Next

LEMMA UptoZero ==
  ASSUME NEW S, NEW s \in Seq(S)
  PROVE  Upto(MessagesIn(s), 0) = 0
<1>1. {i \in MessagesIn(s) : i <= 0} = {}
  BY MessagesInFinite
<1> QED
  BY <1>1, FS_EmptySet DEF Upto

(* The steps of clients and of Serve. *)
LEMMA ClientTalks ==
  ASSUME IInv, TalkInv, NEW c \in Conns, Client(c)
  PROVE  TalkInv' /\ Talk!Next
<1>1. CASE Connect(c) \/ Leave(c)
  <2>1. \A d \in Conns : Aside(d)
    BY <1>1 DEF Connect, Leave, Aside, IInv, ConnTypeOK
  <2>2. UNCHANGED <<sent, answered, resp>>
    BY <1>1 DEF Connect, Leave
  <2>3. TalkTypeOK'
    BY <2>2 DEF TalkInv, TalkTypeOK, AnyResponse
  <2> QED
    BY <2>1, <2>2, <2>3, AsideKeeps, NothingSaid DEF TalkInv, ConnTalkInv
<1>2. CASE Send(c)
  <2>1. PICK l \in Says[c] : sent' = [sent EXCEPT ![c] = Append(@, l)]
    BY <1>2 DEF Send
  <2>2. l \in Lines /\ sent[c] \in Seq(Lines) /\ Complete(sent[c])
    BY DEF Lines, IInv, ConnTypeOK, TalkInv
  <2>3. /\ UNCHANGED <<link, left, next, at, resp, answered>>
        /\ sent'[c] = Append(sent[c], l)
        /\ \A d \in Conns \ {c} : sent'[d] = sent[d]
    BY <1>2, <2>1 DEF Send, IInv, ConnTypeOK
  <2>4. ConnTalkInv(c)'
    <3>1. next[c] \in 0 .. Len(sent[c])
      BY DEF IInv, ConnTypeOK
    <3>2. Complete(sent'[c])
      BY <2>2, <2>3, OneMoreLine
    <3>3. Counts(c)'
      <4>1. Upto(MessagesIn(sent'[c]), next[c]) = Upto(MessagesIn(sent[c]), next[c])
        BY <2>2, <2>3, <3>1, OneMoreLine
      <4> QED
        BY <2>3, <4>1 DEF TalkInv, Counts, Working
    <3>4. InHand(c)' /\ LinkInv(c)'
      <4>1. ASSUME Working(c)
            PROVE  /\ next[c] \in MessagesIn(sent'[c])
                   /\ sent'[c][next[c]] = sent[c][next[c]]
        <5>1. next[c] \in MessagesIn(sent[c]) /\ next[c] \in 1 .. Len(sent[c])
          BY <2>2, <4>1, MessagesInFinite DEF TalkInv, InHand
        <5>2. sent'[c][next[c]] = sent[c][next[c]] /\ next[c] \in 1 .. Len(sent'[c])
          BY <2>2, <2>3, <5>1
        <5>3. sent'[c] \in Seq(Lines)
          BY <2>2, <2>3
        <5> QED
          BY <2>2, <5>1, <5>2, <5>3 DEF MessagesIn
      <4> QED
        BY <2>3, <4>1 DEF TalkInv, InHand, LinkInv, Line, Working, Active
    <3> QED
      BY <3>2, <3>3, <3>4 DEF ConnTalkInv
  <2>5. \A d \in Conns \ {c} : ConnTalkInv(d)'
    BY <2>3, AsideKeeps DEF Aside, TalkInv, ConnTalkInv
  <2>6. TalkInv'
    BY <2>3, <2>4, <2>5 DEF TalkInv, ConnTalkInv, TalkTypeOK, AnyResponse
  <2>7. CASE IsMessage(l)
    <3>1. Asked(c)' = Append(Asked(c), l)
      BY <2>2, <2>3, <2>7, OneMoreLine DEF Asked
    <3>2. \A d \in Conns \ {c} : Asked(d)' = Asked(d)
      BY <2>3 DEF Asked
    <3>3. Talk!Ask(c)
      BY <2>2, <2>3, <3>1, <3>2 DEF Talk!Ask, Lines
    <3> QED
      BY <2>6, <3>3 DEF Talk!Next
  <2>8. CASE ~IsMessage(l)
    <3>0. Asked(c)' = Asked(c)
      BY <2>2, <2>3, <2>8, OneMoreLine DEF Asked
    <3>1. \A d \in Conns : Asked(d)' = Asked(d)
      BY <2>3, <3>0 DEF Asked
    <3>2. Talk!HangUp
      BY <2>3, <3>1 DEF Talk!HangUp
    <3> QED
      BY <2>6, <3>2 DEF Talk!Next
  <2> QED
    BY <2>7, <2>8
<1> QED
  BY <1>1, <1>2 DEF Client

LEMMA ServeTalks ==
  ASSUME IInv, TalkInv,
         ServeStep \/ (AcceptFails /\ ServeError) \/ Cancel \/ CloseListener
  PROVE  TalkInv' /\ Talk!Next
<1>1. UNCHANGED <<sent, next, answered, resp, left>>
  BY DEF ServeStep, EnterAccept, Accept, ServeError, Waited, Cancel, CloseListener, connVars
<1>2. TalkTypeOK'
  BY <1>1 DEF TalkInv, TalkTypeOK, AnyResponse
<1>3. CASE EnterAccept \/ Waited \/ Cancel \/ CloseListener \/ ServeError
  <2>1. \A d \in Conns : Aside(d)
    BY <1>1, <1>3 DEF EnterAccept, Waited, Cancel, CloseListener, ServeError, connVars,
       ResetQueued, Aside
  <2> QED
    BY <1>1, <1>2, <2>1, AsideKeeps, NothingSaid DEF TalkInv, ConnTalkInv
<1>4. ASSUME NEW c \in Conns, Accept(c)
      PROVE  TalkInv' /\ Talk!Next
  <2>1. \A d \in Conns \ {c} : Aside(d)
    BY <1>1, <1>4 DEF Accept, ResetQueued, Aside, IInv, ConnTypeOK
  <2>2. /\ at[c] = "none" /\ at'[c] = "scan"
        /\ link[c] = "queued" /\ link'[c] = "open"
    BY <1>4 DEF Accept, ResetQueued, IInv, ConnTypeOK, AcceptedFirst
  <2>3. next[c] = 0 /\ answered[c] = <<>> /\ sent[c] \in Seq(Lines)
    BY <2>2 DEF TalkInv, LinkInv, IInv, ConnTypeOK
  <2>4. ConnTalkInv(c)'
    <3>1. Counts(c)'
      BY <1>1, <2>2, <2>3, UptoZero DEF Counts, Working
    <3>2. Complete(sent[c])'
      BY <1>1 DEF TalkInv, Complete
    <3> QED
      BY <2>2, <3>1, <3>2 DEF ConnTalkInv, InHand, LinkInv, Working
  <2>5. \A d \in Conns : link[d] \in {"cut", "lost"} => link'[d] \in {"cut", "lost"}
    BY <2>1, <2>2, AsideKeeps DEF TalkInv, ConnTalkInv
  <2>6. \A d \in Conns : ConnTalkInv(d)'
    BY <2>1, <2>4, AsideKeeps DEF TalkInv, ConnTalkInv
  <2> QED
    BY <1>1, <1>2, <2>5, <2>6, NothingSaid DEF TalkInv, ConnTalkInv
<1> QED
  BY <1>3, <1>4 DEF ServeStep

(* A goroutine touches its own connection only. *)
LEMMA OthersAside ==
  ASSUME ConnTypeOK, TalkTypeOK, NEW c \in Conns, ConnStep(c)
  PROVE  sent' = sent /\ \A d \in Conns \ {c} : Aside(d)
BY DEF ConnStep, Scan, ScanEnd, Handle, OpenConfig, OpenConfigFails, WriteConfig, WriteConfigFails,
   WriteResponse, WriteResponseFails, Return, ConnTypeOK, TalkTypeOK, Aside, fileVars, serverVars

(* The steps that write no response. *)
LEMMA QuietTalks ==
  ASSUME IInv, TalkInv, NEW c \in Conns, ConnStep(c), answered' = answered,
         ConnTalkInv(c)', resp' \in [Conns -> AnyResponse \cup {None}],
         link[c] \in {"cut", "lost"} => link'[c] \in {"cut", "lost"}
  PROVE  TalkInv' /\ Talk!Next
<1>1. sent' = sent /\ \A d \in Conns \ {c} : Aside(d)
  BY OthersAside DEF IInv, TalkInv
<1>2. \A d \in Conns \ {c} : ConnTalkInv(d)'
  BY <1>1, AsideKeeps DEF TalkInv, ConnTalkInv
<1>3. TalkTypeOK'
  BY DEF TalkInv, TalkTypeOK, AnyResponse
<1>4. \A d \in Conns : link[d] \in {"cut", "lost"} => link'[d] \in {"cut", "lost"}
  BY <1>1, AsideKeeps DEF TalkInv, ConnTalkInv
<1> QED
  BY <1>1, <1>2, <1>3, <1>4, NothingSaid DEF TalkInv, ConnTalkInv

LEMMA ScanTalks ==
  ASSUME IInv, TalkInv, NEW c \in Conns, Scan(c)
  PROVE  TalkInv' /\ Talk!Next
<1> DEFINE s == sent[c]
           n == next[c]
           l == s[n + 1]
<1>1. s \in Seq(Lines) /\ n \in Nat /\ n < Len(s) /\ Complete(s)
  BY DEF IInv, ConnTypeOK, Scan, TalkInv
<1>2. /\ at[c] = "scan" /\ link[c] \in {"open", "broken"}
      /\ UNCHANGED <<sent, answered, resp, link, left>>
      /\ next'[c] = n + 1
      /\ at'[c] \in {"scan", "handle", "return"}
      /\ at'[c] = "scan" => l.type = "blank"
      /\ at'[c] = "handle" => l.type \notin {"blank", "long"}
  BY DEF Scan, IInv, ConnTypeOK, TalkInv, LinkInv, Active
<1>3. n + 1 \in MessagesIn(s) <=> IsMessage(l)
  BY <1>1 DEF MessagesIn
<1>4. Upto(MessagesIn(s), n + 1) = IF n + 1 \in MessagesIn(s) THEN Upto(MessagesIn(s), n) + 1
                                                             ELSE Upto(MessagesIn(s), n)
  BY <1>1, MessagesInFinite, UptoNext
<1>5. Counts(c)'
  <2>1. Counts(c)
    BY DEF TalkInv
  <2>2. Upto(MessagesIn(s), n) \in Nat
    BY <1>1, MessagesInFinite, UptoBounds
  <2>3. answered[c] \in Seq(AnyResponse) /\ Len(answered[c]) \in Nat
    BY DEF TalkInv, TalkTypeOK
  <2>4. link[c] = "open" => Upto(MessagesIn(s), n) = Len(answered[c])
    BY <1>2, <2>1, <2>3 DEF Counts, Working
  <2>5. Upto(MessagesIn(sent[c]), next[c])' = Upto(MessagesIn(s), n + 1)
    BY <1>2
  <2>6. CASE at'[c] = "scan"
    <3>1. n + 1 \notin MessagesIn(s) /\ ~Working(c)'
      BY <1>2, <1>3, <2>6 DEF IsMessage, Working
    <3> QED
      BY <1>2, <1>4, <2>3, <2>4, <2>5, <3>1 DEF Counts
  <2>7. CASE at'[c] = "handle"
    <3>1. n + 1 \in MessagesIn(s) /\ Working(c)'
      BY <1>2, <1>3, <2>7 DEF IsMessage, Working
    <3> QED
      BY <1>2, <1>4, <2>3, <2>4, <2>5, <3>1 DEF Counts
  <2>8. CASE at'[c] = "return"
    BY <2>8 DEF Counts, Working
  <2> QED
    BY <1>2, <2>6, <2>7, <2>8
<1>6. InHand(c)' /\ LinkInv(c)'
  BY <1>2, <1>3 DEF TalkInv, InHand, LinkInv, Working, Active, Line, IsMessage
<1>7. Complete(sent[c])'
  BY <1>1, <1>2 DEF Complete
<1> QED
  BY <1>2, <1>5, <1>6, <1>7, QuietTalks DEF ConnTalkInv, ConnStep, TalkInv, TalkTypeOK

(* Handling a line, or writing the configuration, prepares a response of   *)
(* the table.                                                              *)
LEMMA HandleTalks ==
  ASSUME IInv, TalkInv, NEW c \in Conns,
         Handle(c) \/ OpenConfig(c) \/ OpenConfigFails(c) \/ WriteConfig(c) \/ WriteConfigFails(c)
  PROVE  TalkInv' /\ Talk!Next
<1> DEFINE l == Line(c)
<1> USE DEF Handle, OpenConfig, OpenConfigFails, WriteConfig, WriteConfigFails, Writing
<1>1. /\ UNCHANGED <<link, left, sent, next, answered>>
      /\ Working(c)
      /\ at'[c] \in {"config", "write"}
  BY DEF Working, IInv, ConnTypeOK
<1>2. l \in Lines /\ IsMessage(l) /\ l.type # "long"
  <2>1. sent[c] \in Seq(Lines)
    BY DEF IInv, ConnTypeOK
  <2>2. next[c] \in MessagesIn(sent[c]) /\ l.type # "long"
    BY <1>1 DEF TalkInv, InHand
  <2> QED
    BY <2>1, <2>2, MessagesInFinite DEF Line
<1>3. at'[c] = "config" => SetsConfig(l) /\ resp' = resp
  BY DEF IInv, ConnTypeOK
<1>4. at'[c] = "write" =>
        \E r \in Talk!Responses(l) : r \in AnyResponse /\ resp' = [resp EXCEPT ![c] = r]
  <2>1. CASE Handle(c)
    BY <1>2, <2>1, TableKept
  <2>2. CASE OpenConfig(c) \/ OpenConfigFails(c)
    BY <1>2, <2>2, TableKept DEF IInv, ConnTypeOK
  <2>3. CASE WriteConfig(c) \/ WriteConfigFails(c)
    <3>1. SetsConfig(l)
      BY <2>3 DEF TalkInv, InHand
    <3> QED
      BY <1>2, <2>3, <3>1, TableKept
  <2> QED
    BY <2>1, <2>2, <2>3
<1>5. resp \in [Conns -> AnyResponse \cup {None}]
  BY DEF TalkInv, TalkTypeOK
<1>6. resp' \in [Conns -> AnyResponse \cup {None}]
  BY <1>1, <1>3, <1>4, <1>5
<1>7. Counts(c)' /\ LinkInv(c)' /\ Complete(sent[c])'
  BY <1>1 DEF TalkInv, Counts, LinkInv, Complete, Working, Active
<1>8. InHand(c)'
  <2>1. Line(c)' = l
    BY <1>1 DEF Line
  <2>2. at'[c] = "write" => resp'[c] \in Talk!Responses(l)
    BY <1>4, <1>5
  <2> QED
    BY <1>1, <1>3, <2>1, <2>2 DEF TalkInv, InHand, Working
<1> QED
  BY <1>1, <1>6, <1>7, <1>8, QuietTalks DEF ConnTalkInv, ConnStep

(* The response that is written is the next one that is due. *)
LEMMA WriteTalks ==
  ASSUME IInv, TalkInv, NEW c \in Conns, WriteResponse(c)
  PROVE  TalkInv' /\ Talk!Next
<1> DEFINE s == sent[c]
           l == Line(c)
           k == Len(answered[c]) + 1
<1>1. /\ UNCHANGED <<link, left, sent, next>>
      /\ at[c] = "write" /\ at'[c] = "scan" /\ link[c] = "open"
      /\ answered' = [answered EXCEPT ![c] = Append(@, resp[c])]
      /\ resp' = [resp EXCEPT ![c] = None]
  BY DEF WriteResponse, IInv, ConnTypeOK
<1>2. s \in Seq(Lines) /\ next[c] \in MessagesIn(s) /\ resp[c] \in Talk!Responses(l)
  BY <1>1 DEF IInv, ConnTypeOK, TalkInv, InHand, Working
<1>3. l \in Lines /\ IsMessage(l) /\ l.type # "long"
  BY <1>1, <1>2, MessagesInFinite DEF TalkInv, InHand, Line, Working
<1>4. answered[c] \in Seq(AnyResponse) /\ resp[c] \in AnyResponse
  BY <1>2, <1>3, TableKept DEF TalkInv, TalkTypeOK
<1>5. Upto(MessagesIn(s), next[c]) = k
  BY <1>1 DEF TalkInv, Counts, Working
<1>6. k \in 1 .. Len(Asked(c)) /\ Asked(c)[k] = l
  <2>1. Len(Asked(c)) = Cardinality(MessagesIn(s))
    BY <1>2, MessagesType DEF TalkInv, Asked
  <2> QED
    BY <1>2, <1>5, <2>1, NthMessage DEF Asked, Line
<1>7. Talk!Answer(c)
  <2>1. Len(answered[c]) < Len(Asked(c))
    BY <1>4, <1>6
  <2>2. [d \in Conns |-> Asked(d)]' = [d \in Conns |-> Asked(d)]
    BY <1>1 DEF Asked
  <2> QED
    BY <1>1, <1>2, <1>6, <2>1, <2>2 DEF Talk!Answer
<1>8. TalkTypeOK'
  BY <1>1, <1>4 DEF TalkInv, TalkTypeOK, AnyResponse
<1>9. ConnTalkInv(c)'
  <2>1. Len(answered'[c]) = k
    BY <1>1, <1>4 DEF TalkInv, TalkTypeOK
  <2>2. Counts(c)'
    BY <1>1, <1>4, <1>5, <2>1 DEF Counts, Working
  <2> QED
    BY <1>1, <2>2 DEF TalkInv, ConnTalkInv, InHand, LinkInv, Working, Active, Complete
<1>10. \A d \in Conns \ {c} : ConnTalkInv(d)'
  BY OthersAside, AsideKeeps DEF ConnStep, TalkInv, ConnTalkInv, IInv
<1> QED
  BY <1>7, <1>8, <1>9, <1>10 DEF TalkInv, ConnTalkInv, Talk!Next

LEMMA LeaveTalks ==
  ASSUME IInv, TalkInv, NEW c \in Conns,
         ScanEnd(c) \/ WriteResponseFails(c) \/ Return(c)
  PROVE  TalkInv' /\ Talk!Next
<1>1. /\ UNCHANGED <<left, sent, next, answered>>
      /\ Active(c) /\ at'[c] \in {"scan", "return", "done"}
      /\ at'[c] = "scan" => link'[c] = "broken"
      /\ at'[c] # "done" /\ link'[c] # link[c] => link'[c] = "broken" /\ left[c]
      /\ at'[c] = "done" => link'[c] = "cut"
  BY DEF ScanEnd, WriteResponseFails, Return, IInv, ConnTypeOK, Active
<1>2. resp' \in [Conns -> AnyResponse \cup {None}]
  BY DEF ScanEnd, WriteResponseFails, Return, TalkInv, TalkTypeOK
<1>3. ConnTalkInv(c)'
  BY <1>1 DEF TalkInv, ConnTalkInv, Counts, InHand, LinkInv, Working, Active, Complete
<1> QED
  BY <1>1, <1>2, <1>3, QuietTalks DEF ConnStep, TalkInv, LinkInv

LEMMA SilenceTalks ==
  ASSUME TalkInv, UNCHANGED connVars
  PROVE  TalkInv' /\ Talk!Next
<1>1. \A d \in Conns : Aside(d)
  BY DEF connVars, Aside
<1>2. UNCHANGED <<sent, answered, resp>>
  BY DEF connVars
<1>3. TalkTypeOK'
  BY <1>2 DEF TalkInv, TalkTypeOK, AnyResponse
<1> QED
  BY <1>1, <1>2, <1>3, AsideKeeps, NothingSaid DEF TalkInv, ConnTalkInv

LEMMA ConnTalks ==
  ASSUME IInv, TalkInv, NEW c \in Conns, ConnStep(c)
  PROVE  TalkInv' /\ Talk!Next
BY ScanTalks, HandleTalks, WriteTalks, LeaveTalks DEF ConnStep

LEMMA NextTalks == IInv /\ TalkInv /\ [Next]_vars => TalkInv' /\ [Talk!Next]_(Talk!vars)
<1> SUFFICES ASSUME IInv, TalkInv, [Next]_vars
             PROVE  TalkInv' /\ [Talk!Next]_(Talk!vars)
  OBVIOUS
<1>1. CASE ServeStep \/ (AcceptFails /\ ServeError) \/ Cancel \/ CloseListener
  BY <1>1, ServeTalks
<1>2. ASSUME NEW c \in Conns, Client(c) \/ ConnStep(c)
      PROVE  TalkInv' /\ Talk!Next
  BY <1>2, ClientTalks, ConnTalks
<1>3. CASE UNCHANGED vars
  BY <1>3, SilenceTalks DEF vars
<1> QED
  BY <1>1, <1>2, <1>3 DEF Next

(* The responses on a connection are those of the table, one for each      *)
(* message and in their order: every step of the server is a step of the   *)
(* dialogue it promises, or none of it.                                    *)
THEOREM DialogueIsKept == Spec => ImplementsDialogue
<1>1. Init => Talk!Init
  <2> SUFFICES ASSUME Init PROVE Talk!Init
    OBVIOUS
  <2>1. \A c \in Conns : Asked(c) = <<>>
    <3>1. MessagesIn(<<>>) = {}
      BY DEF MessagesIn
    <3>2. Cardinality(MessagesIn(<<>>)) = 0
      BY <3>1, FS_EmptySet
    <3>3. DOMAIN MessagesOf(<<>>) = {}
      BY <3>2 DEF MessagesOf
    <3>4. MessagesOf(<<>>) = <<>>
      BY <3>2, <3>3 DEF MessagesOf
    <3> QED
      BY <3>4 DEF Init, Asked
  <2>2. [c \in Conns |-> link[c] \in {"cut", "lost"}] = [c \in Conns |-> FALSE]
    <3>1. \A c \in Conns : (link[c] \in {"cut", "lost"}) = FALSE
      BY DEF Init
    <3> QED
      BY <3>1, Zenon
  <2> QED
    BY <2>1, <2>2 DEF Init, Talk!Init
<1> QED
  BY <1>1, InitIInv, InitTalkInv, NextIInv, NextTalks, PTL DEF Spec, ImplementsDialogue, Talk!Spec

LEMMA SpecTalks == Spec => [](IInv /\ TalkInv)
BY InitIInv, InitTalkInv, NextIInv, NextTalks, PTL DEF Spec

LEMMA IdleOwesNothing == IInv /\ TalkInv => IdleHasAnswered
<1> SUFFICES ASSUME IInv, TalkInv, NEW c \in Conns, Idle(c)
             PROVE  Len(answered[c]) = Len(Asked(c))
  BY DEF IdleHasAnswered
<1> DEFINE P == MessagesIn(sent[c])
<1>1. sent[c] \in Seq(Lines) /\ next[c] = Len(sent[c]) /\ answered[c] \in Seq(AnyResponse)
  BY DEF IInv, ConnTypeOK, Idle, TalkInv, TalkTypeOK
<1>2. link[c] = "open" /\ at[c] = "scan"
  BY DEF Idle, TalkInv, LinkInv, Active
<1>3. {i \in P : i <= Len(sent[c])} = P
  BY <1>1, MessagesInFinite
<1>4. Len(answered[c]) = Cardinality(P)
  <2>1. Upto(P, next[c]) = Len(answered[c]) + 0
    BY <1>2 DEF TalkInv, Counts, Working
  <2>2. Upto(P, next[c]) = Cardinality(P)
    BY <1>1, <1>3 DEF Upto
  <2> QED
    BY <1>1, <2>1, <2>2
<1>5. Len(Asked(c)) = Cardinality(P)
  BY <1>1, MessagesType DEF TalkInv, Asked
<1> QED
  BY <1>4, <1>5

(* A connection that waits for its client owes it nothing. *)
THEOREM NothingOwed == Spec => []IdleHasAnswered
BY IdleOwesNothing, SpecTalks, PTL

=============================================================================
