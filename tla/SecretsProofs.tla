----------------------------- MODULE SecretsProofs -----------------------------
(***************************************************************************)
(* For any calls, names, values and modes, and whether calls overlap or    *)
(* not: the types of module Secrets.  If no secret's own name ends in      *)
(* .tmp: no part of a secret reaches another, and the secrets of a careful *)
(* host are a KeyedStore whose values were all acknowledged.               *)
(***************************************************************************)
EXTENDS Secrets, FileSystemProofs

(* No secret is called like a temporary file.                              *)
Plain == Secrets \cap Hidden = {}

Attrs == {Mode[c] : c \in Calls} \cup {None}

Mates(c) == {d \in Calls : NameOf[d] = NameOf[c]}

TypeInv ==
  /\ FSTyped(Calls, Attrs)
  /\ pc \in [Calls -> Pcs]
  /\ fd \in [Calls -> Calls \cup {None}]
  /\ \A c \in Calls : fd[c] # None <=> pc[c] = "opened"
  /\ \A c \in Calls : pc[c] \in Running => NameOf[c] \in Secrets

-----------------------------------------------------------------------------
LEMMA NamesOfCalls ==
  ASSUME NEW c \in Calls, NameOf[c] # None
  PROVE  /\ NameOf[c] \in Secrets
         /\ NameOf[c] \in Names
         /\ Tmp(c) \in Names
         /\ Tmp(c) \in Hidden
BY CallAssumption DEF Tmp

LEMMA SecretNames ==
  ASSUME NEW s \in Secrets
  PROVE  s \in Names /\ TmpOf[s] \in Names /\ TmpOf[s] \in Hidden /\ s # None
BY CallAssumption

LEMMA CallFacts ==
  /\ Inodes = Calls
  /\ None \notin Calls
  /\ None \notin Secrets
  /\ \A c \in Calls : Mode[c] \in Attrs
BY CallAssumption DEF Attrs

LEMMA Values ==
  ASSUME NEW c \in Calls
  PROVE  /\ Value[c] \in Seq(Calls)
         /\ Value[c] \in Seq(Mates(c))
         /\ \A k \in 0 .. Len(Value[c]) - 1 :
              /\ SubSeq(Value[c], 1, k) \in Seq(Calls)
              /\ SubSeq(Value[c], 1, k) \in Seq(Mates(c))
<1>1. Value[c] \in Seq({c})
  BY CallAssumption
<1>2. Value[c] \in Seq(Calls)
  BY <1>1, SeqMonotone
<1>3. {c} \subseteq Mates(c)
  BY DEF Mates
<1>4. Value[c] \in Seq(Mates(c))
  BY <1>1, <1>3, SeqMonotone
<1> QED
  BY <1>2, <1>4, PrefixIsSeq

(* Whichever way a write ends, it is one of these.                         *)
LEMMA WriteIs ==
  ASSUME NEW c \in Calls, WriteAll(c) \/ WriteFails(c)
  PROVE  \E d \in Seq(Calls) :
           /\ d \in Seq(Mates(c))
           /\ Write(fd[c], d)
           /\ WriteAll(c) => d = Value[c]
<1>1. CASE WriteAll(c)
  BY <1>1, Values DEF WriteAll
<1>2. CASE WriteFails(c) /\ ~WriteAll(c)
  <2>1. PICK k \in 0 .. Len(Value[c]) - 1 : Write(fd[c], SubSeq(Value[c], 1, k))
    BY <1>2 DEF WriteFails
  <2> QED
    BY <1>2, <2>1, Values
<1> QED
  BY <1>1, <1>2

-----------------------------------------------------------------------------
LEMMA InitTypeInv == Init => TypeInv
<1> SUFFICES ASSUME Init PROVE TypeInv
  OBVIOUS
<1>1. <<>> \in Seq(Calls)
  OBVIOUS
<1>2. FSTyped(Calls, Attrs)
  BY <1>1, CallFacts DEF Init, FSInit, Empty, FSTyped, Attrs
<1> QED
  BY <1>2 DEF Init, TypeInv, Pcs, Running

LEMMA NextTypeInv == TypeInv /\ [Next]_vars => TypeInv'
<1> SUFFICES ASSUME TypeInv, [Next]_vars PROVE TypeInv'
  OBVIOUS
<1> USE CallFacts DEF TypeInv, Pcs, Running
<1>1. ASSUME NEW c \in Calls, Inject(c)
      PROVE  TypeInv'
  <2>1. CASE Reject(c) \/ OpenFails(c)
    BY <1>1, <2>1 DEF Reject, OpenFails, FSTyped
  <2>2. CASE Open(c)
    <3>1. NameOf[c] \in Secrets /\ Tmp(c) \in Names
      BY <2>2, NamesOfCalls DEF Open
    <3>2. FSTyped(Calls, Attrs)' /\ Opened(Tmp(c), c) \in Calls
      BY <2>2, <3>1, OpenTruncLeaves DEF Open
    <3> QED
      BY <2>2, <3>1, <3>2 DEF Open
  <2>3. CASE WriteAll(c) \/ WriteFails(c)
    <3>1. PICK d \in Seq(Calls) : Write(fd[c], d)
      BY <2>3, WriteIs
    <3>2. fd[c] \in Calls
      BY <2>3 DEF WriteAll, WriteFails
    <3>3. FSTyped(Calls, Attrs)'
      BY <3>1, <3>2, WriteLeaves
    <3> QED
      BY <2>3, <3>3 DEF WriteAll, WriteFails
  <2>4. CASE RenameTmp(c)
    <3>1. Tmp(c) \in Names /\ NameOf[c] \in Names
      BY <2>4, NamesOfCalls DEF RenameTmp
    <3>2. FSTyped(Calls, Attrs)'
      BY <2>4, <3>1, RenameLeaves DEF RenameTmp
    <3> QED
      BY <2>4, <3>2 DEF RenameTmp
  <2>5. CASE RenameFails(c)
    BY <2>5 DEF RenameFails, FSTyped
  <2>6. CASE Cleanup(c)
    <3>1. Tmp(c) \in Names
      BY <2>6, NamesOfCalls DEF Cleanup
    <3>2. FSTyped(Calls, Attrs)'
      BY <2>6, <3>1, RemoveLeaves DEF Cleanup
    <3> QED
      BY <2>6, <3>2 DEF Cleanup
  <2> QED
    BY <1>1, <2>1, <2>2, <2>3, <2>4, <2>5, <2>6 DEF Inject
<1>2. ASSUME NEW s \in Secrets, Delete(s)
      PROVE  TypeInv'
  <2>1. FSTyped(Calls, Attrs)'
    BY <1>2, SecretNames, RemoveLeaves DEF Delete
  <2> QED
    BY <1>2, <2>1 DEF Delete
<1>3. CASE Crash
  BY <1>3 DEF Crash, FSTyped
<1>4. CASE UNCHANGED vars
  BY <1>4 DEF vars, FSTyped
<1> QED
  BY <1>1, <1>2, <1>3, <1>4 DEF Next

(* A call of Inject holds a descriptor exactly while it is inside          *)
(* os.WriteFile (secrets.go:54), and it leads to a file that a call made.  *)
THEOREM TypeCorrect == Spec => []TypeOK
<1>1. TypeInv => TypeOK
  BY CallFacts DEF TypeInv, FSTyped, TypeOK, FSTypeOK
<1> QED
  BY <1>1, InitTypeInv, NextTypeInv, PTL DEF Spec

-----------------------------------------------------------------------------
(* What a step does to the directory. *)

Creates(c) ==
  /\ NameOf[c] \in Secrets
  /\ pc[c] = "idle" /\ pc'[c] # "idle"
  /\ dir' = [dir EXCEPT ![Tmp(c)] = Opened(Tmp(c), c)]

Installs(c) ==
  /\ NameOf[c] \in Secrets
  /\ dir[Tmp(c)] \in Calls
  /\ dir' = [dir EXCEPT ![Tmp(c)] = None, ![NameOf[c]] = dir[Tmp(c)]]

Unlinks(n) == dir' = [dir EXCEPT ![n] = None]

LEMMA DirStep ==
  ASSUME TypeInv, [Next]_vars
  PROVE  \/ UNCHANGED dir
         \/ \E c \in Calls : Creates(c) \/ Installs(c)
         \/ \E n \in Names : Unlinks(n)
<1> USE CallFacts DEF TypeInv
<1>1. ASSUME NEW c \in Calls, Inject(c)
      PROVE  \/ UNCHANGED dir
             \/ Creates(c) \/ Installs(c)
             \/ \E n \in Names : Unlinks(n)
  <2>1. CASE Reject(c) \/ OpenFails(c) \/ RenameFails(c)
    BY <2>1 DEF Reject, OpenFails, RenameFails
  <2>2. CASE Open(c)
    <3>1. NameOf[c] \in Secrets /\ Tmp(c) \in Names
      BY <2>2, NamesOfCalls DEF Open
    <3>2. dir' = [dir EXCEPT ![Tmp(c)] = Opened(Tmp(c), c)]
      BY <2>2, <3>1, OpenTruncLeaves DEF Open
    <3> QED
      BY <2>2, <3>1, <3>2 DEF Open, Creates
  <2>3. CASE WriteAll(c) \/ WriteFails(c)
    BY <2>3 DEF WriteAll, WriteFails, Write
  <2>4. CASE RenameTmp(c)
    <3>1. NameOf[c] \in Secrets /\ Tmp(c) \in Names /\ NameOf[c] \in Names
      BY <2>4, NamesOfCalls DEF RenameTmp, Running
    <3> QED
      BY <2>4, <3>1, RenameLeaves DEF RenameTmp, Installs
  <2>5. CASE Cleanup(c)
    <3>1. Tmp(c) \in Names
      BY <2>5, NamesOfCalls DEF Cleanup, Running
    <3> QED
      BY <2>5, <3>1 DEF Cleanup, Remove, Unlinks
  <2> QED
    BY <1>1, <2>1, <2>2, <2>3, <2>4, <2>5 DEF Inject
<1>2. ASSUME NEW s \in Secrets, Delete(s)
      PROVE  \E n \in Names : Unlinks(n)
  BY <1>2, SecretNames DEF Delete, Remove, Unlinks
<1>3. CASE Crash \/ UNCHANGED vars
  BY <1>3 DEF Crash, vars
<1> QED
  BY <1>1, <1>2, <1>3 DEF Next

-----------------------------------------------------------------------------
(* Whose file is whose: each inode belongs to the secret of the call that  *)
(* made it, and so do the names and the descriptors that lead to it.       *)

OwnNames ==
  \A s \in Secrets :
    /\ dir[s] # None => NameOf[dir[s]] = s
    /\ dir[TmpOf[s]] # None => NameOf[dir[TmpOf[s]]] = s

OwnFiles ==
  /\ \A c \in Calls : fd[c] # None => NameOf[fd[c]] = NameOf[c]
  /\ \A i \in Calls : file[i].data \in Seq(Mates(i))

LEMMA TmpApart ==
  ASSUME Plain, NEW s \in Secrets, NEW t \in Secrets
  PROVE  /\ TmpOf[s] # t
         /\ TmpOf[s] = TmpOf[t] => s = t
BY CallAssumption DEF Plain

LEMMA NextOwnNames ==
  ASSUME Plain, TypeInv, OwnNames, [Next]_vars
  PROVE  OwnNames'
<1> USE SecretNames, TmpApart, CallFacts DEF OwnNames, TypeInv, FSTyped
<1>1. ASSUME NEW c \in Calls, Creates(c)
      PROVE  OwnNames'
  <2>1. NameOf[Opened(Tmp(c), c)] = NameOf[c]
    BY <1>1 DEF Creates, Opened, Exists, Tmp
  <2> QED
    BY <1>1, <2>1 DEF Creates, Tmp
<1>2. ASSUME NEW c \in Calls, Installs(c)
      PROVE  OwnNames'
  BY <1>2 DEF Installs, Tmp
<1>3. ASSUME NEW n \in Names, Unlinks(n)
      PROVE  OwnNames'
  BY <1>3 DEF Unlinks
<1> QED
  BY <1>1, <1>2, <1>3, DirStep

LEMMA MatesOfFile ==
  ASSUME NEW c \in Calls, NEW i \in Calls, NameOf[i] = NameOf[c]
  PROVE  Mates(i) = Mates(c)
BY DEF Mates

LEMMA NextOwnFiles ==
  ASSUME Plain, TypeInv, OwnNames, OwnFiles, [Next]_vars
  PROVE  OwnFiles'
<1> USE CallFacts DEF OwnFiles, TypeInv
<1>1. ASSUME NEW c \in Calls, Inject(c)
      PROVE  OwnFiles'
  <2>1. CASE Open(c)
    <3> DEFINE o == Opened(Tmp(c), c)
    <3>1. NameOf[c] \in Secrets /\ Tmp(c) \in Names
      BY <2>1, NamesOfCalls DEF Open
    <3>2. /\ o \in Calls
          /\ file'[o].data = <<>>
          /\ \A j \in Calls \ {o} : file'[j] = file[j]
      BY <2>1, <3>1, OpenTruncLeaves DEF Open
    <3>3. NameOf[o] = NameOf[c]
      BY <3>1 DEF OwnNames, Opened, Exists, Tmp
    <3>4. <<>> \in Seq(Mates(o))
      OBVIOUS
    <3>5. fd' = [fd EXCEPT ![c] = o]
      BY <2>1 DEF Open
    <3> HIDE DEF o
    <3>6. \A d \in Calls : fd'[d] # None => NameOf[fd'[d]] = NameOf[d]
      BY <3>2, <3>3, <3>5
    <3>7. \A i \in Calls : file'[i].data \in Seq(Mates(i))
      BY <3>2, <3>4
    <3> QED
      BY <3>6, <3>7 DEF Mates
  <2>2. CASE WriteAll(c) \/ WriteFails(c)
    <3>1. PICK d \in Seq(Calls) : d \in Seq(Mates(c)) /\ Write(fd[c], d)
      BY <2>2, WriteIs
    <3>2. fd[c] \in Calls
      BY <2>2 DEF WriteAll, WriteFails
    <3>3. Mates(fd[c]) = Mates(c)
      BY <3>2, MatesOfFile
    <3>4. file'[fd[c]].data \in Seq(Mates(fd[c]))
      BY <3>1, <3>2, <3>3, WritePartsOf
    <3>5. \A j \in Calls \ {fd[c]} : file'[j] = file[j]
      BY <3>1, <3>2, WriteLeaves
    <3>6. \A i \in Calls : file'[i].data \in Seq(Mates(i))
      BY <3>4, <3>5
    <3>7. fd' = [fd EXCEPT ![c] = None]
      BY <2>2 DEF WriteAll, WriteFails
    <3> QED
      BY <3>6, <3>7 DEF Mates
  <2>3. CASE Reject(c) \/ OpenFails(c) \/ RenameTmp(c) \/ RenameFails(c) \/ Cleanup(c)
    BY <2>3 DEF Reject, OpenFails, RenameTmp, RenameFails, Cleanup, Rename, Remove, Mates
  <2> QED
    BY <1>1, <2>1, <2>2, <2>3 DEF Inject
<1>2. ASSUME NEW s \in Secrets, Delete(s)
      PROVE  OwnFiles'
  BY <1>2 DEF Delete, Remove, Mates
<1>3. CASE Crash \/ UNCHANGED vars
  BY <1>3 DEF Crash, vars, Mates
<1> QED
  BY <1>1, <1>2, <1>3 DEF Next

LEMMA InitOwn == Init => OwnNames /\ OwnFiles
<1> SUFFICES ASSUME Init PROVE OwnNames /\ OwnFiles
  OBVIOUS
<1>1. OwnNames
  BY SecretNames DEF Init, FSInit, OwnNames
<1>2. \A i \in Calls : file[i].data = <<>> /\ fd[i] = None
  BY CallFacts DEF Init, FSInit, Empty
<1>3. \A i \in Calls : <<>> \in Seq(Mates(i))
  OBVIOUS
<1> QED
  BY <1>1, <1>2, <1>3 DEF OwnFiles

(* However calls overlap, fail and die, what can be read under a secret's  *)
(* name was supplied for that secret.                                      *)
THEOREM NothingForeign == ASSUME Plain PROVE Spec => []NoForeignPart
<1>1. TypeInv /\ OwnNames /\ OwnFiles => NoForeignPart
  <2> SUFFICES ASSUME TypeInv, OwnNames, OwnFiles,
                      NEW s \in Secrets, Exists(s),
                      NEW k \in DOMAIN file[dir[s]].data
               PROVE  NameOf[file[dir[s]].data[k]] = s
    BY DEF NoForeignPart
  <2>1. dir[s] \in Calls /\ NameOf[dir[s]] = s
    BY SecretNames, CallFacts DEF TypeInv, FSTyped, OwnNames, Exists
  <2>2. file[dir[s]].data[k] \in Mates(dir[s])
    BY <2>1 DEF OwnFiles
  <2> QED
    BY <2>1, <2>2 DEF Mates
<1>2. TypeInv /\ OwnNames /\ OwnFiles /\ [Next]_vars => OwnNames' /\ OwnFiles'
  BY Plain, NextOwnNames, NextOwnFiles
<1> QED
  BY <1>1, <1>2, InitOwn, InitTypeInv, NextTypeInv, PTL DEF Spec

-----------------------------------------------------------------------------
(* Two names lead to two files, and no name to the file of a call that has *)
(* not started.                                                            *)
DirInv ==
  /\ \A m, n \in Names : dir[m] # None /\ dir[m] = dir[n] => m = n
  /\ \A n \in Names : dir[n] # None => pc[dir[n]] # "idle"

LEMMA PcStarted ==
  ASSUME TypeInv, [Next]_vars, NEW c \in Calls, pc[c] # "idle"
  PROVE  pc'[c] # "idle"
<1> USE DEF TypeInv
<1>1. ASSUME NEW d \in Calls, Inject(d)
      PROVE  pc'[c] # "idle"
  BY <1>1 DEF Inject, Reject, OpenFails, Open, WriteAll, WriteFails, RenameTmp, RenameFails, Cleanup
<1>2. ASSUME NEW s \in Secrets, Delete(s)
      PROVE  pc'[c] # "idle"
  BY <1>2 DEF Delete
<1>3. CASE Crash \/ UNCHANGED vars
  BY <1>3 DEF Crash, vars
<1> QED
  BY <1>1, <1>2, <1>3 DEF Next

LEMMA NextDirInv ==
  ASSUME Plain, TypeInv, DirInv, [Next]_vars
  PROVE  DirInv'
<1> USE CallFacts DEF DirInv, TypeInv, FSTyped
<1>1. \A c \in Calls : pc[c] # "idle" => pc'[c] # "idle"
  BY PcStarted
<1>2. ASSUME NEW c \in Calls, Creates(c)
      PROVE  DirInv'
  <2>1. Tmp(c) \in Names
    BY <1>2, NamesOfCalls DEF Creates
  <2>2. CASE Exists(Tmp(c))
    BY <1>1, <1>2, <2>1, <2>2 DEF Creates, Opened, Exists
  <2>3. CASE ~Exists(Tmp(c))
    <3>1. dir' = [dir EXCEPT ![Tmp(c)] = c]
      BY <1>2, <2>3 DEF Creates, Opened
    <3> QED
      BY <1>1, <1>2, <2>1, <2>3, <3>1 DEF Creates, Exists
  <2> QED
    BY <2>2, <2>3
<1>3. ASSUME NEW c \in Calls, Installs(c)
      PROVE  DirInv'
  <2>1. Tmp(c) \in Names /\ NameOf[c] \in Names /\ Tmp(c) # NameOf[c]
    BY <1>3, NamesOfCalls, TmpApart DEF Installs, Tmp
  <2> QED
    BY <1>1, <1>3, <2>1 DEF Installs
<1>4. ASSUME NEW n \in Names, Unlinks(n)
      PROVE  DirInv'
  BY <1>1, <1>4 DEF Unlinks
<1> QED
  BY <1>1, <1>2, <1>3, <1>4, DirStep

-----------------------------------------------------------------------------
(* A call for one secret leaves what belongs to another one as it is.      *)
LEMMA OthersLeave ==
  ASSUME Plain, TypeInv, OwnNames, OwnFiles,
         NEW d \in Calls, Inject(d), NEW s \in Secrets, NameOf[d] # s
  PROVE  /\ dir'[s] = dir[s]
         /\ dir'[TmpOf[s]] = dir[TmpOf[s]]
         /\ \A i \in Calls : NameOf[i] = s => file'[i] = file[i]
<1> USE CallFacts DEF TypeInv
<1>1. CASE Reject(d) \/ OpenFails(d) \/ RenameFails(d)
  BY <1>1 DEF Reject, OpenFails, RenameFails
<1>2. CASE Open(d)
  <2>1. NameOf[d] \in Secrets /\ Tmp(d) \in Names
    BY <1>2, NamesOfCalls DEF Open
  <2>2. Tmp(d) # s /\ Tmp(d) # TmpOf[s]
    BY <2>1, TmpApart DEF Tmp
  <2>3. NameOf[Opened(Tmp(d), d)] = NameOf[d]
    BY <2>1 DEF OwnNames, Opened, Exists, Tmp
  <2>4. /\ dir' = [dir EXCEPT ![Tmp(d)] = Opened(Tmp(d), d)]
        /\ \A j \in Calls \ {Opened(Tmp(d), d)} : file'[j] = file[j]
    BY <1>2, <2>1, OpenTruncLeaves DEF Open
  <2> QED
    BY <2>2, <2>3, <2>4, SecretNames DEF FSTyped
<1>3. CASE WriteAll(d) \/ WriteFails(d)
  <2>1. PICK v \in Seq(Calls) : Write(fd[d], v)
    BY <1>3, WriteIs
  <2>2. fd[d] \in Calls /\ NameOf[fd[d]] = NameOf[d]
    BY <1>3 DEF WriteAll, WriteFails, OwnFiles
  <2>3. dir' = dir /\ \A j \in Calls \ {fd[d]} : file'[j] = file[j]
    BY <2>1, <2>2, WriteLeaves
  <2> QED
    BY <2>2, <2>3
<1>4. CASE RenameTmp(d) \/ Cleanup(d)
  <2>1. NameOf[d] \in Secrets /\ Tmp(d) \in Names /\ NameOf[d] \in Names
    BY <1>4, NamesOfCalls DEF RenameTmp, Cleanup, Running
  <2>2. Tmp(d) # s /\ Tmp(d) # TmpOf[s] /\ NameOf[d] # TmpOf[s]
    BY <2>1, TmpApart DEF Tmp
  <2> QED
    BY <1>4, <2>1, <2>2, SecretNames DEF RenameTmp, Cleanup, Rename, Remove, FSTyped
<1> QED
  BY <1>1, <1>2, <1>3, <1>4 DEF Inject

(* What the temporary file of a careful host's call holds.                 *)
TmpInv(c) ==
  /\ pc[c] = "opened"  => dir[Tmp(c)] = fd[c] /\ file[fd[c]].data = <<>>
  /\ pc[c] = "written" => dir[Tmp(c)] # None /\ file[dir[Tmp(c)]].data = Value[c]

Alone(c) == pc[c] \in Running => \A d \in Mates(c) : pc[d] \in Running => d = c

CarefulInv == \A c \in Calls : NameOf[c] \in Careful => Alone(c) /\ TmpInv(c)

Inv == TypeInv /\ OwnNames /\ OwnFiles /\ DirInv /\ CarefulInv

LEMMA CarefulNames == Careful \subseteq Secrets
BY CallAssumption

LEMMA InjectCarefulInv ==
  ASSUME Plain, Inv, NEW d \in Calls, Inject(d)
  PROVE  CarefulInv'
<1> SUFFICES ASSUME NEW c \in Calls, NameOf[c] \in Careful
             PROVE  Alone(c)' /\ TmpInv(c)'
  BY DEF CarefulInv
<1> USE CallFacts DEF Inv, TypeInv
<1>1. NameOf[c] \in Secrets /\ Tmp(c) \in Names /\ Tmp(c) # NameOf[c] /\ NameOf[c] \in Names
  BY CarefulNames, SecretNames, TmpApart DEF Tmp
<1>2. Alone(c) /\ TmpInv(c)
  BY DEF CarefulInv
<1>3. \A e \in Calls \ {d} : pc'[e] = pc[e] /\ fd'[e] = fd[e]
  BY DEF Inject, Reject, OpenFails, Open, WriteAll, WriteFails, RenameTmp, RenameFails, Cleanup
<1>4. pc[d] \in Running \/ Open(d) \/ pc'[d] = "failed"
  BY DEF Inject, Reject, OpenFails, WriteAll, WriteFails, RenameTmp, RenameFails, Cleanup, Running
<1>5. Alone(c)'
  <2> SUFFICES ASSUME NEW e \in Mates(c), pc'[c] \in Running, pc'[e] \in Running, e # c
               PROVE  FALSE
    BY DEF Alone, Mates
  <2>1. CASE Open(d)
    BY <1>2, <1>3, <2>1 DEF Open, MayStart, Alone, Mates, Running
  <2>2. CASE pc[d] \in Running
    BY <1>2, <1>3, <2>2 DEF Alone, Mates
  <2> QED
    BY <1>2, <1>3, <1>4, <2>1, <2>2 DEF Alone, Mates, Running
<1>6. CASE NameOf[d] # NameOf[c]
  <2>1. /\ dir'[Tmp(c)] = dir[Tmp(c)]
        /\ \A i \in Calls : NameOf[i] = NameOf[c] => file'[i] = file[i]
    BY <1>1, <1>6, OthersLeave DEF Tmp
  <2>2. dir[Tmp(c)] # None => dir[Tmp(c)] \in Calls /\ NameOf[dir[Tmp(c)]] = NameOf[c]
    BY <1>1 DEF FSTyped, OwnNames, Tmp
  <2>3. pc[c] = "opened" => fd[c] \in Calls /\ NameOf[fd[c]] = NameOf[c]
    BY DEF OwnFiles
  <2>4. pc'[c] = pc[c] /\ fd'[c] = fd[c]
    BY <1>3, <1>6
  <2> QED
    BY <1>2, <1>5, <2>1, <2>2, <2>3, <2>4 DEF TmpInv, Tmp
<1>7. CASE NameOf[d] = NameOf[c] /\ d # c
  <2>1. pc'[c] = pc[c]
    BY <1>3, <1>7
  <2>2. pc'[c] \notin Running
    <3>1. CASE Open(d) \/ OpenFails(d)
      BY <1>5, <1>7, <2>1, <3>1 DEF Open, OpenFails, MayStart, Running
    <3>2. CASE pc[d] \in Running
      BY <1>2, <1>7, <2>1, <3>2 DEF Alone, Mates
    <3>3. CASE ~Open(d) /\ ~OpenFails(d) /\ pc[d] \notin Running
      BY <1>1, <1>7, <3>3 DEF Inject, Reject, WriteAll, WriteFails, RenameTmp,
                               RenameFails, Cleanup, Running
    <3> QED
      BY <3>1, <3>2, <3>3
  <2> QED
    BY <1>5, <2>2 DEF TmpInv, Running
<1>8. CASE d = c
  <2>1. CASE Open(c)
    <3>1. /\ dir' = [dir EXCEPT ![Tmp(c)] = Opened(Tmp(c), c)]
          /\ file'[Opened(Tmp(c), c)].data = <<>>
      BY <1>1, <2>1, OpenTruncLeaves DEF Open
    <3>2. pc'[c] = "opened" /\ fd'[c] = Opened(Tmp(c), c)
      BY <2>1 DEF Open
    <3> QED
      BY <1>1, <1>5, <3>1, <3>2 DEF TmpInv, FSTyped, Tmp
  <2>2. CASE WriteAll(c)
    <3>1. pc[c] = "opened" /\ fd[c] \in Calls /\ Write(fd[c], Value[c])
      BY <2>2 DEF WriteAll
    <3>2. dir[Tmp(c)] = fd[c] /\ file[fd[c]].data = <<>>
      BY <1>2, <3>1 DEF TmpInv
    <3>3. dir' = dir /\ file'[fd[c]].data = Value[c]
      BY <3>1, <3>2, Values, WriteLeaves
    <3>4. pc'[c] = "written"
      BY <2>2 DEF WriteAll
    <3> QED
      BY <1>5, <3>1, <3>2, <3>3, <3>4 DEF TmpInv, Tmp
  <2>3. CASE ~Open(c) /\ ~WriteAll(c)
    <3>1. pc'[c] \notin {"opened", "written"}
      BY <1>8, <2>3 DEF Inject, Reject, OpenFails, WriteFails, RenameTmp, RenameFails, Cleanup
    <3> QED
      BY <1>5, <3>1 DEF TmpInv
  <2> QED
    BY <2>1, <2>2, <2>3
<1> QED
  BY <1>6, <1>7, <1>8

LEMMA NextCarefulInv ==
  ASSUME Plain, Inv, [Next]_vars
  PROVE  CarefulInv'
<1> USE DEF CarefulInv, Alone, TmpInv
<1>1. ASSUME NEW s \in Secrets, Delete(s)
      PROVE  CarefulInv'
  <2>1. \A c \in Calls : NameOf[c] \in Careful => dir'[Tmp(c)] = dir[Tmp(c)]
    BY <1>1, CarefulNames, TmpApart, SecretNames DEF Delete, Remove, Tmp, Inv, TypeInv, FSTyped
  <2>2. UNCHANGED <<file, pc, fd>>
    BY <1>1 DEF Delete, Remove
  <2> QED
    BY <2>1, <2>2 DEF Inv, Tmp, Mates
<1>2. CASE Crash
  BY <1>2 DEF Crash, Running, Mates
<1>3. CASE UNCHANGED vars
  BY <1>3 DEF vars, Inv, Tmp, Mates
<1> QED
  BY <1>1, <1>2, <1>3, InjectCarefulInv DEF Next

-----------------------------------------------------------------------------
(* Steps of Secrets are steps of the KeyedStore. *)

LEMMA StoredStays ==
  ASSUME \A s \in Careful : /\ dir'[s] = dir[s]
                            /\ dir[s] # None => file'[dir[s]].data = file[dir[s]].data
  PROVE  Stored' = Stored
BY DEF Stored, Exists

LEMMA StoredPut ==
  ASSUME NEW k \in Careful, NEW v,
         file' = file, dir'[k] # None, file[dir'[k]].data = v,
         \A s \in Careful \ {k} : dir'[s] = dir[s]
  PROVE  Stored' = [Stored EXCEPT ![k] = v]
BY DEF Stored, Exists

LEMMA InitStore == Init => Store!Init
<1> SUFFICES ASSUME Init PROVE Store!Init
  OBVIOUS
<1>1. \A s \in Careful : ~Exists(s)
  BY CarefulNames, SecretNames DEF Init, FSInit, Exists
<1>2. \A c \in Calls : pc[c] = "idle"
  BY DEF Init
<1> QED
  BY <1>1, <1>2 DEF Store!Init, Stored, Result, CarefulCalls

(* No step but a rename and a removal changes what can be read.            *)
LEMMA InstalledStay ==
  ASSUME Plain, Inv, NEW d \in Calls, Inject(d), ~RenameTmp(d)
  PROVE  \A s \in Careful :
           /\ dir'[s] = dir[s]
           /\ dir[s] # None => file'[dir[s]].data = file[dir[s]].data
<1> SUFFICES ASSUME NEW s \in Careful
             PROVE  /\ dir'[s] = dir[s]
                    /\ dir[s] # None => file'[dir[s]].data = file[dir[s]].data
  OBVIOUS
<1> USE CallFacts DEF Inv, TypeInv
<1>1. s \in Secrets /\ s \in Names /\ dir[s] \in Calls \cup {None}
  BY CarefulNames, SecretNames DEF FSTyped
<1>2. CASE NameOf[d] # s
  BY <1>1, <1>2, OthersLeave DEF OwnNames
<1>3. CASE NameOf[d] = s
  <2>1. Tmp(d) \in Names /\ Tmp(d) # s
    BY <1>1, <1>3, NamesOfCalls, TmpApart DEF Tmp
  <2>2. CASE Open(d)
    <3>1. Opened(Tmp(d), d) # dir[s]
      BY <1>1, <2>1, <2>2 DEF Open, Opened, Exists, DirInv
    <3>2. /\ dir' = [dir EXCEPT ![Tmp(d)] = Opened(Tmp(d), d)]
          /\ \A j \in Calls \ {Opened(Tmp(d), d)} : file'[j] = file[j]
      BY <2>1, <2>2, OpenTruncLeaves DEF Open
    <3> QED
      BY <1>1, <2>1, <3>1, <3>2 DEF FSTyped
  <2>3. CASE WriteAll(d) \/ WriteFails(d)
    <3>1. PICK v \in Seq(Calls) : Write(fd[d], v)
      BY <2>3, WriteIs
    <3>2. fd[d] \in Calls /\ fd[d] = dir[Tmp(d)]
      BY <1>3, <2>3 DEF WriteAll, WriteFails, CarefulInv, TmpInv
    <3>3. fd[d] # dir[s]
      BY <1>1, <2>1, <3>2 DEF DirInv
    <3>4. dir' = dir /\ \A j \in Calls \ {fd[d]} : file'[j] = file[j]
      BY <3>1, <3>2, WriteLeaves
    <3> QED
      BY <1>1, <3>3, <3>4
  <2>4. CASE Reject(d) \/ OpenFails(d) \/ RenameFails(d) \/ Cleanup(d)
    BY <1>1, <2>1, <2>4 DEF Reject, OpenFails, RenameFails, Cleanup, Remove, FSTyped
  <2> QED
    BY <2>2, <2>3, <2>4 DEF Inject
<1> QED
  BY <1>2, <1>3

LEMMA InjectStep ==
  ASSUME Plain, Inv, NEW d \in Calls, Inject(d)
  PROVE  [Store!Next]_<<Stored, Result>>
<1> USE CallFacts DEF Inv, TypeInv
<1>1. pc' \in [Calls -> Pcs] /\ \A e \in Calls \ {d} : pc'[e] = pc[e]
  BY DEF Inject, Reject, OpenFails, Open, WriteAll, WriteFails, RenameTmp, RenameFails, Cleanup, Pcs
<1>2. CASE RenameTmp(d)
  <2>1. NameOf[d] \in Secrets /\ Tmp(d) \in Names /\ NameOf[d] \in Names /\ Tmp(d) # NameOf[d]
    BY <1>2, NamesOfCalls, TmpApart DEF RenameTmp, Running, Tmp
  <2>2. /\ file' = file
        /\ dir[Tmp(d)] \in Calls
        /\ dir' = [dir EXCEPT ![Tmp(d)] = None, ![NameOf[d]] = dir[Tmp(d)]]
    BY <1>2, <2>1, RenameLeaves DEF RenameTmp
  <2>3. \A s \in Careful \ {NameOf[d]} : dir'[s] = dir[s]
    BY <2>1, <2>2, CarefulNames, TmpApart, SecretNames DEF Tmp, FSTyped
  <2>4. CASE NameOf[d] \in Careful
    <3>1. dir'[NameOf[d]] # None /\ file[dir'[NameOf[d]]].data = Value[d]
      BY <1>2, <2>1, <2>2, <2>4 DEF RenameTmp, CarefulInv, TmpInv, FSTyped
    <3>2. Stored' = [Stored EXCEPT ![NameOf[d]] = Value[d]]
      BY <2>2, <2>3, <2>4, <3>1, StoredPut
    <3>3. d \in CarefulCalls /\ Result[d] = "pending"
      BY <1>2, <2>4 DEF RenameTmp, CarefulCalls, Result
    <3>4. Result' = [Result EXCEPT ![d] = "ok"]
      BY <1>1, <1>2, <3>3 DEF RenameTmp, Result, CarefulCalls
    <3>5. Store!Put(d)
      BY <2>4, <3>2, <3>3, <3>4 DEF Store!Put, CarefulCalls
    <3> QED
      BY <3>3, <3>5 DEF Store!Next, CarefulCalls
  <2>5. CASE NameOf[d] \notin Careful
    <3>1. \A s \in Careful : dir'[s] = dir[s]
      BY <2>3, <2>5
    <3>2. Stored' = Stored
      BY <2>2, <3>1, StoredStays
    <3>3. Result' = Result
      BY <1>1, <2>5 DEF Result, CarefulCalls
    <3> QED
      BY <3>2, <3>3
  <2> QED
    BY <2>4, <2>5
<1>3. CASE ~RenameTmp(d)
  <2>1. Stored' = Stored
    BY <1>3, InstalledStay, StoredStays
  <2>2. CASE d \notin CarefulCalls \/ pc'[d] # "failed"
    <3>1. pc'[d] # "done" /\ (d \in CarefulCalls => pc[d] \notin {"done", "failed"})
      BY <1>3 DEF Inject, Reject, OpenFails, Open, WriteAll, WriteFails, RenameFails, Cleanup
    <3>2. Result' = Result
      BY <1>1, <2>2, <3>1 DEF Result, CarefulCalls
    <3> QED
      BY <2>1, <3>2
  <2>3. CASE d \in CarefulCalls /\ pc'[d] = "failed"
    <3>1. Result[d] = "pending"
      BY <1>3, <2>3 DEF Inject, Reject, OpenFails, Open, WriteAll, WriteFails, RenameFails, Cleanup,
                        Result
    <3>2. Result' = [c \in CarefulCalls |-> IF c \in {d} THEN "failed" ELSE Result[c]]
      BY <1>1, <2>3 DEF Result, CarefulCalls
    <3>3. {d} \in SUBSET {c \in CarefulCalls : Result[c] = "pending"}
      BY <2>3, <3>1
    <3>4. Store!GiveUp
      BY <2>1, <3>2, <3>3 DEF Store!GiveUp
    <3> QED
      BY <3>4 DEF Store!Next
  <2> QED
    BY <2>2, <2>3
<1> QED
  BY <1>2, <1>3

LEMMA NextStore ==
  ASSUME Plain, Inv, [Next]_vars
  PROVE  [Store!Next]_<<Stored, Result>>
<1>1. ASSUME NEW s \in Secrets, Delete(s)
      PROVE  [Store!Next]_<<Stored, Result>>
  <2>1. /\ dir' = [dir EXCEPT ![s] = None]
        /\ UNCHANGED <<file, pc, fd>>
    BY <1>1 DEF Delete, Remove
  <2>2. Result' = Result
    BY <2>1 DEF Result, CarefulCalls
  <2>3. CASE s \in Careful
    <3>1. Stored' = [Stored EXCEPT ![s] = None]
      BY <2>1, <2>3, CarefulNames, SecretNames DEF Stored, Exists, Inv, TypeInv, FSTyped
    <3>2. Store!Delete(s)
      BY <2>2, <3>1 DEF Store!Delete
    <3> QED
      BY <2>3, <3>2 DEF Store!Next
  <2>4. CASE s \notin Careful
    <3>1. Stored' = Stored
      BY <2>1, <2>4, CarefulNames, SecretNames DEF Stored, Exists, Inv, TypeInv, FSTyped
    <3> QED
      BY <2>2, <3>1
  <2> QED
    BY <2>3, <2>4
<1>2. CASE Crash
  <2> DEFINE S == {c \in CarefulCalls : pc[c] \in Running}
  <2>1. Stored' = Stored
    BY <1>2 DEF Crash, Stored, Exists
  <2>2. Result' = [c \in CarefulCalls |-> IF c \in S THEN "failed" ELSE Result[c]]
    BY <1>2 DEF Crash, Result, CarefulCalls
  <2>3. S \in SUBSET {c \in CarefulCalls : Result[c] = "pending"}
    BY DEF Running, Result
  <2>4. Store!GiveUp
    BY <2>1, <2>2, <2>3 DEF Store!GiveUp
  <2> QED
    BY <2>4 DEF Store!Next
<1>3. CASE UNCHANGED vars
  BY <1>3 DEF vars, Stored, Result, Exists, CarefulCalls
<1> QED
  BY <1>1, <1>2, <1>3, InjectStep DEF Next

LEMMA InitDirInv == Init => DirInv /\ CarefulInv
BY DEF Init, FSInit, DirInv, CarefulInv, Alone, TmpInv, Running

(* For a host that injects a secret once at a time, Inject and Remove of   *)
(* it are atomic and Inject stores the whole value or nothing, across      *)
(* failed writes and restarts, and whatever other secrets' calls do.       *)
THEOREM Implementation == ASSUME Plain PROVE Spec => ImplementsStore
<1>1. Init => Inv
  BY InitTypeInv, InitOwn, InitDirInv DEF Inv
<1>2. Inv /\ [Next]_vars => Inv'
  BY Plain, NextTypeInv, NextOwnNames, NextOwnFiles, NextDirInv, NextCarefulInv DEF Inv
<1>3. Inv /\ [Next]_vars => [Store!Next]_<<Stored, Result>>
  BY Plain, NextStore
<1> QED
  BY <1>1, <1>2, <1>3, InitStore, PTL DEF Spec, ImplementsStore, Store!Spec

-----------------------------------------------------------------------------
(* What can be read was acknowledged. *)

Accounted ==
  \A k \in Careful : Stored[k] # None =>
    \E c \in CarefulCalls : NameOf[c] = k /\ Result[c] = "ok" /\ Stored[k] = Value[c]

LEMMA NextAccounted ==
  ASSUME Accounted, [Store!Next]_<<Stored, Result>>
  PROVE  Accounted'
<1> DEFINE r == Result
           s == Stored
<1>0. /\ DOMAIN r = CarefulCalls /\ DOMAIN s = Careful
      /\ r = [c \in CarefulCalls |-> r[c]] /\ s = [k \in Careful |-> s[k]]
  BY DEF Result, Stored
<1>1. \A k \in Careful : s[k] # None =>
        \E c \in CarefulCalls : NameOf[c] = k /\ r[c] = "ok" /\ s[k] = Value[c]
  BY DEF Accounted
<1> SUFFICES ASSUME NEW k \in Careful, s'[k] # None
             PROVE  \E c \in CarefulCalls :
                      NameOf[c] = k /\ r'[c] = "ok" /\ s'[k] = Value[c]
  BY DEF Accounted
<1>2. ASSUME NEW d \in CarefulCalls, Store!Put(d)
      PROVE  \E c \in CarefulCalls : NameOf[c] = k /\ r'[c] = "ok" /\ s'[k] = Value[c]
  <2>1. /\ s' = [s EXCEPT ![NameOf[d]] = Value[d]]
        /\ r' = [r EXCEPT ![d] = "ok"]
    BY <1>2 DEF Store!Put
  <2> HIDE DEF r, s
  <2> QED
    BY <1>0, <1>1, <2>1
<1>3. ASSUME NEW l \in Careful, Store!Delete(l)
      PROVE  \E c \in CarefulCalls : NameOf[c] = k /\ r'[c] = "ok" /\ s'[k] = Value[c]
  <2>1. s' = [s EXCEPT ![l] = None] /\ r' = r
    BY <1>3 DEF Store!Delete
  <2> HIDE DEF r, s
  <2> QED
    BY <1>0, <1>1, <2>1
<1>4. CASE Store!GiveUp
  <2>1. PICK S \in SUBSET {c \in CarefulCalls : r[c] = "pending"} :
          r' = [c \in CarefulCalls |-> IF c \in S THEN "failed" ELSE r[c]]
    BY <1>4 DEF Store!GiveUp
  <2>2. s' = s
    BY <1>4 DEF Store!GiveUp
  <2> HIDE DEF r, s
  <2> QED
    BY <1>1, <2>1, <2>2
<1>5. CASE UNCHANGED <<Stored, Result>>
  <2>1. s' = s /\ r' = r
    BY <1>5
  <2> HIDE DEF r, s
  <2> QED
    BY <1>1, <2>1
<1> QED
  BY <1>2, <1>3, <1>4, <1>5 DEF Store!Next

(* A careful host's secret that can be read holds the whole value of one   *)
(* call that returned no error: of what the README says of a secret, the   *)
(* half that a failed write does not take away (the other is the mode).    *)
THEOREM WholeValue ==
  ASSUME Plain
  PROVE  Spec => [](\A s \in Careful : Exists(s) =>
                      \E c \in Injected(s) : file[dir[s]].data = Value[c])
<1> DEFINE Whole == \A s \in Careful : Exists(s) =>
                      \E c \in Injected(s) : file[dir[s]].data = Value[c]
<1>1. Init => Inv
  BY InitTypeInv, InitOwn, InitDirInv DEF Inv
<1>2. Inv /\ [Next]_vars => Inv'
  BY Plain, NextTypeInv, NextOwnNames, NextOwnFiles, NextDirInv, NextCarefulInv DEF Inv
<1>3. Init => Accounted
  BY InitStore DEF Store!Init, Accounted
<1>4. Inv /\ Accounted /\ [Next]_vars => Accounted'
  BY Plain, NextStore, NextAccounted
<1>5. Inv /\ Accounted => Whole
  <2> SUFFICES ASSUME Inv, Accounted, NEW s \in Careful, Exists(s)
               PROVE  \E c \in Injected(s) : file[dir[s]].data = Value[c]
    OBVIOUS
  <2>1. dir[s] \in Calls /\ file[dir[s]].data \in Seq(Calls)
    BY CarefulNames, SecretNames, CallFacts DEF Inv, TypeInv, FSTyped, Exists
  <2>2. Stored[s] = file[dir[s]].data /\ Stored[s] # None
    BY <2>1, CallAssumption DEF Stored
  <2>3. PICK c \in CarefulCalls :
          NameOf[c] = s /\ Result[c] = "ok" /\ Stored[s] = Value[c]
    BY <2>1, <2>2 DEF Accounted
  <2> QED
    BY <2>2, <2>3 DEF Result, CarefulCalls, Injected
<1> HIDE DEF Whole
<1>6. Spec => []Whole
  BY <1>1, <1>2, <1>3, <1>4, <1>5, PTL DEF Spec
<1> QED
  BY <1>6 DEF Whole

-----------------------------------------------------------------------------
(* The mode.  An inode keeps the mode of the call that made it; and when   *)
(* no write fails and no process dies, only a call that is under way has a *)
(* temporary file.                                                         *)

AttrInv == \A n \in Names : dir[n] # None => file[dir[n]].attr = Mode[dir[n]]

TmpInUse ==
  \A s \in Careful : dir[TmpOf[s]] # None => pc[dir[TmpOf[s]]] \in {"opened", "written"}

Installed ==
  \A s \in Careful : dir[s] # None =>
    pc[dir[s]] = "done" /\ file[dir[s]].data = Value[dir[s]]

LEMMA NextAttrInv ==
  ASSUME Plain, Inv, AttrInv, [Next]_vars
  PROVE  AttrInv'
<1> USE CallFacts DEF Inv, TypeInv, AttrInv
<1>1. ASSUME NEW c \in Calls, Open(c)
      PROVE  AttrInv'
  <2>1. NameOf[c] \in Secrets /\ Tmp(c) \in Names
    BY <1>1, NamesOfCalls DEF Open
  <2>2. CASE ~Exists(Tmp(c))
    <3>1. /\ dir' = [dir EXCEPT ![Tmp(c)] = c]
          /\ file' = [file EXCEPT ![c] = [data |-> <<>>, attr |-> Mode[c]]]
          /\ pc[c] = "idle"
      BY <1>1, <2>2 DEF Open, OpenTrunc
    <3>2. \A n \in Names : dir[n] # c
      BY <3>1 DEF DirInv
    <3> QED
      BY <2>1, <3>1, <3>2 DEF FSTyped
  <2>3. CASE Exists(Tmp(c))
    <3>1. dir' = dir /\ file' = [file EXCEPT ![dir[Tmp(c)]].data = <<>>]
      BY <1>1, <2>3 DEF Open, OpenTrunc
    <3>2. \A i \in Calls : file'[i].attr = file[i].attr
      BY <3>1 DEF FSTyped
    <3> QED
      BY <3>1, <3>2 DEF FSTyped
  <2> QED
    BY <2>2, <2>3
<1>2. ASSUME NEW c \in Calls, WriteAll(c) \/ WriteFails(c)
      PROVE  AttrInv'
  <2>1. PICK d \in Seq(Calls) : Write(fd[c], d)
    BY <1>2, WriteIs
  <2>2. fd[c] \in Calls
    BY <1>2 DEF WriteAll, WriteFails
  <2>3. dir' = dir /\ \A i \in Calls : file'[i].attr = file[i].attr
    BY <2>1, <2>2, WriteLeaves
  <2> QED
    BY <2>3 DEF FSTyped
<1>3. ASSUME NEW c \in Calls, RenameTmp(c)
      PROVE  AttrInv'
  <2>1. Tmp(c) \in Names /\ NameOf[c] \in Names
    BY <1>3, NamesOfCalls DEF RenameTmp, Running
  <2>2. Rename(Tmp(c), NameOf[c])
    BY <1>3 DEF RenameTmp
  <2> DEFINE m == Tmp(c)
             n == NameOf[c]
  <2>3. file' = file /\ dir[m] # None /\ dir' = [dir EXCEPT ![m] = None, ![n] = dir[m]]
    BY <2>2 DEF Rename, Exists
  <2>4. m \in Names /\ n \in Names
    BY <2>1
  <2> HIDE DEF m, n
  <2> QED
    BY <2>3, <2>4 DEF FSTyped
<1>4. ASSUME NEW n \in Names, Remove(n)
      PROVE  AttrInv'
  BY <1>4 DEF Remove, FSTyped
<1>5. ASSUME NEW c \in Calls, Cleanup(c)
      PROVE  AttrInv'
  BY <1>4, <1>5, NamesOfCalls DEF Cleanup, Running
<1>6. ASSUME NEW s \in Secrets, Delete(s)
      PROVE  AttrInv'
  BY <1>4, <1>6, SecretNames DEF Delete
<1>7. CASE UNCHANGED <<dir, file>>
  BY <1>7
<1> QED
  BY <1>1, <1>2, <1>3, <1>5, <1>6, <1>7
  DEF Next, Inject, Reject, OpenFails, RenameFails, Crash, vars

(* What is under a careful secret's names, once nothing fails. *)
LEMMA NextInstalled ==
  ASSUME Plain, ~Faults, Inv, TmpInUse, Installed, [Next]_vars
  PROVE  TmpInUse' /\ Installed'
<1> USE CallFacts DEF Inv, TypeInv, TmpInUse, Installed
<1> SUFFICES ASSUME NEW s \in Careful
             PROVE  /\ dir'[TmpOf[s]] # None => pc'[dir'[TmpOf[s]]] \in {"opened", "written"}
                    /\ dir'[s] # None => /\ pc'[dir'[s]] = "done"
                                         /\ file'[dir'[s]].data = Value[dir'[s]]
  OBVIOUS
<1>1. /\ s \in Secrets /\ s \in Names /\ TmpOf[s] \in Names /\ TmpOf[s] # s
      /\ dir[s] \in Calls \cup {None} /\ dir[TmpOf[s]] \in Calls \cup {None}
  BY CarefulNames, SecretNames, TmpApart DEF FSTyped
<1>2. /\ dir[s] # None => NameOf[dir[s]] = s
      /\ dir[TmpOf[s]] # None => NameOf[dir[TmpOf[s]]] = s
  BY <1>1 DEF OwnNames
<1>3. ASSUME NEW d \in Calls, Inject(d), NameOf[d] # s
      PROVE  /\ dir'[s] = dir[s] /\ dir'[TmpOf[s]] = dir[TmpOf[s]]
             /\ \A i \in Calls : NameOf[i] = s => file'[i] = file[i] /\ pc'[i] = pc[i]
  <2>1. \A e \in Calls \ {d} : pc'[e] = pc[e]
    BY <1>3 DEF Inject, Reject, OpenFails, Open, WriteAll, WriteFails, RenameTmp, RenameFails, Cleanup
  <2> QED
    BY <1>1, <1>3, <2>1, OthersLeave
<1>4. ASSUME NEW d \in Calls, Inject(d), NameOf[d] = s, ~RenameTmp(d)
      PROVE  /\ dir'[s] = dir[s]
             /\ dir[s] # None => /\ pc'[dir[s]] = "done"
                                 /\ file'[dir[s]].data = file[dir[s]].data
  <2>1. \A e \in Calls : pc[e] = "done" => pc'[e] = "done"
    BY <1>4 DEF Inject, Reject, OpenFails, Open, WriteAll, WriteFails, RenameTmp, RenameFails, Cleanup
  <2> QED
    BY <1>1, <1>4, <2>1, InstalledStay
<1>5. ASSUME NEW d \in Calls, Open(d), NameOf[d] = s
      PROVE  dir'[TmpOf[s]] = d /\ pc'[d] = "opened"
  <2>1. ~Exists(Tmp(d))
    BY <1>1, <1>2, <1>5 DEF Open, MayStart, Running, Exists, Tmp
  <2> QED
    BY <1>1, <1>5, <2>1 DEF Open, OpenTrunc, Tmp, FSTyped
<1>6. ASSUME NEW d \in Calls, RenameTmp(d), NameOf[d] = s
      PROVE  /\ dir'[TmpOf[s]] = None /\ dir'[s] = d
             /\ pc'[d] = "done" /\ file'[d].data = Value[d]
  <2>1. pc[d] = "written" /\ dir[Tmp(d)] # None /\ file[dir[Tmp(d)]].data = Value[d]
    BY <1>6 DEF RenameTmp, CarefulInv, TmpInv
  <2>2. dir[Tmp(d)] = d
    BY <1>1, <1>2, <1>6, <2>1 DEF CarefulInv, Alone, Mates, Running, Tmp
  <2> QED
    BY <1>1, <1>6, <2>1, <2>2 DEF RenameTmp, Rename, Tmp, FSTyped
<1>7. ASSUME NEW d \in Calls, NameOf[d] = s, WriteAll(d)
      PROVE  dir'[TmpOf[s]] # None => pc'[dir'[TmpOf[s]]] \in {"opened", "written"}
  BY <1>1, <1>7 DEF WriteAll, Write
<1>8. ASSUME NEW d \in Calls, NameOf[d] = s, RenameFails(d) \/ Cleanup(d)
      PROVE  dir'[TmpOf[s]] = None
  BY <1>1, <1>8 DEF RenameFails, Cleanup, Remove, Exists, Tmp, FSTyped
<1>9. ASSUME NEW d \in Calls, Inject(d), NameOf[d] = s
      PROVE  Open(d) \/ WriteAll(d) \/ RenameTmp(d) \/ RenameFails(d) \/ Cleanup(d)
  BY <1>1, <1>9, SecretNames DEF Inject, Reject, OpenFails, WriteFails
<1>10. ASSUME NEW t \in Secrets, Delete(t)
       PROVE  /\ dir'[TmpOf[s]] = dir[TmpOf[s]] /\ dir'[s] \in {dir[s], None}
              /\ pc' = pc /\ file' = file
  BY <1>1, <1>10, SecretNames, TmpApart DEF Delete, Remove, FSTyped
<1>11. CASE UNCHANGED vars
  BY <1>11 DEF vars
<1>12. ASSUME NEW d \in Calls, Inject(d), NameOf[d] # s
       PROVE  /\ dir'[TmpOf[s]] # None => pc'[dir'[TmpOf[s]]] \in {"opened", "written"}
              /\ dir'[s] # None => /\ pc'[dir'[s]] = "done"
                                   /\ file'[dir'[s]].data = Value[dir'[s]]
  BY <1>1, <1>2, <1>3, <1>12
<1>13. ASSUME NEW d \in Calls, Inject(d), NameOf[d] = s
       PROVE  /\ dir'[TmpOf[s]] # None => pc'[dir'[TmpOf[s]]] \in {"opened", "written"}
              /\ dir'[s] # None => /\ pc'[dir'[s]] = "done"
                                   /\ file'[dir'[s]].data = Value[dir'[s]]
  <2>1. CASE RenameTmp(d)
    BY <1>6, <1>13, <2>1
  <2>2. CASE ~RenameTmp(d)
    <3>1. dir'[s] # None => pc'[dir'[s]] = "done" /\ file'[dir'[s]].data = Value[dir'[s]]
      BY <1>1, <1>4, <1>13, <2>2
    <3>2. dir'[TmpOf[s]] # None => pc'[dir'[TmpOf[s]]] \in {"opened", "written"}
      BY <1>5, <1>7, <1>8, <1>9, <1>13, <2>2
    <3> QED
      BY <3>1, <3>2
  <2> QED
    BY <2>1, <2>2
<1> QED
  BY <1>1, <1>10, <1>11, <1>12, <1>13 DEF Next, Crash

(* Only a failed write or a death takes the mode away: without them, a     *)
(* careful host's secret that can be read has the value and the mode of    *)
(* one call that returned no error, ModeHonoured for it.                   *)
THEOREM ModeKept ==
  ASSUME Plain, ~Faults
  PROVE  Spec => [](\A s \in Careful : Exists(s) =>
                      \E c \in Injected(s) :
                        file[dir[s]] = [data |-> Value[c], attr |-> Mode[c]])
<1> DEFINE Kept == \A s \in Careful : Exists(s) =>
                     \E c \in Injected(s) :
                       file[dir[s]] = [data |-> Value[c], attr |-> Mode[c]]
<1>1. Init => Inv /\ AttrInv /\ TmpInUse /\ Installed
  <2>1. Init => Inv
    BY InitTypeInv, InitOwn, InitDirInv DEF Inv
  <2> QED
    BY <2>1, CarefulNames, SecretNames DEF Init, FSInit, AttrInv, TmpInUse, Installed
<1>2. Inv /\ [Next]_vars => Inv'
  BY Plain, NextTypeInv, NextOwnNames, NextOwnFiles, NextDirInv, NextCarefulInv DEF Inv
<1>3. Inv /\ AttrInv /\ [Next]_vars => AttrInv'
  BY Plain, NextAttrInv
<1>4. Inv /\ TmpInUse /\ Installed /\ [Next]_vars => TmpInUse' /\ Installed'
  BY Plain, ~Faults, NextInstalled
<1>5. Inv /\ AttrInv /\ Installed => Kept
  <2> SUFFICES ASSUME Inv, AttrInv, Installed, NEW s \in Careful, Exists(s)
               PROVE  \E c \in Injected(s) :
                        file[dir[s]] = [data |-> Value[c], attr |-> Mode[c]]
    OBVIOUS
  <2>1. s \in Secrets /\ s \in Names /\ dir[s] \in Calls
    BY CarefulNames, SecretNames, CallFacts DEF Inv, TypeInv, FSTyped, Exists
  <2>2. file[dir[s]].data = Value[dir[s]] /\ file[dir[s]].attr = Mode[dir[s]]
    BY <2>1 DEF Installed, AttrInv, Exists
  <2>3. file[dir[s]] = [data |-> Value[dir[s]], attr |-> Mode[dir[s]]]
    BY <2>1, <2>2, CallFacts DEF Inv, TypeInv, FSTyped
  <2>4. dir[s] \in Injected(s)
    BY <2>1 DEF Inv, OwnNames, Installed, Injected, Exists
  <2> QED
    BY <2>3, <2>4
<1> HIDE DEF Kept
<1>6. Spec => []Kept
  BY <1>1, <1>2, <1>3, <1>4, <1>5, PTL DEF Spec
<1> QED
  BY <1>6 DEF Kept

=============================================================================
