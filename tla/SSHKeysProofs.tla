----------------------------- MODULE SSHKeysProofs -----------------------------
(***************************************************************************)
(* For any calls, users and keys: the types of module SSHKeys, whatever    *)
(* overlaps; and for the users for whom calls do not overlap, that sshd    *)
(* can read their keys, that these are a KeyedStore, and that each file is *)
(* one acknowledged call's.                                                *)
(***************************************************************************)
EXTENDS SSHKeys, FileSystemProofs

Owners == Users \cup {Root, None}

Mates(c) == {d \in Calls : UserOf[d] = UserOf[c]}

TypeInv ==
  /\ FSTyped(Calls, Owners)
  /\ pc \in [Calls -> Pcs]
  /\ fd \in [Calls -> Calls \cup {None}]
  /\ \A c \in Calls : fd[c] # None <=> pc[c] = "opened"
  /\ \A c \in Calls : pc[c] \in Running => UserOf[c] \in Users

-----------------------------------------------------------------------------
LEMMA FilesOfUsers ==
  ASSUME NEW u \in Users
  PROVE  /\ KeysOf[u] \in Names /\ TmpOf[u] \in Names
         /\ u # None /\ u \in Owners
         /\ \A v \in Users : /\ KeysOf[u] # TmpOf[v]
                             /\ KeysOf[u] = KeysOf[v] => u = v
                             /\ TmpOf[u] = TmpOf[v] => u = v
BY CallAssumption DEF Owners

LEMMA FilesOfCalls ==
  ASSUME NEW c \in Calls, UserOf[c] # None
  PROVE  /\ UserOf[c] \in Users
         /\ Target(c) \in Names /\ Tmp(c) \in Names /\ Target(c) # Tmp(c)
         /\ UserOf[c] \in Owners
BY CallAssumption, FilesOfUsers DEF Target, Tmp

LEMMA CallFacts ==
  /\ Inodes = Calls
  /\ None \notin Calls
  /\ None \notin Users
  /\ Root \in Owners
  /\ Careful \subseteq Users
  /\ \A c \in Calls : Key[c] \in Seq(Calls)
BY CallAssumption DEF Owners

LEMMA WriteIs ==
  ASSUME NEW c \in Calls, WriteAll(c) \/ WriteFails(c)
  PROVE  \E d \in Seq(Calls) : Write(fd[c], d) /\ (WriteAll(c) => d = Key[c])
<1>1. CASE WriteAll(c)
  BY <1>1, CallFacts DEF WriteAll
<1>2. CASE WriteFails(c) /\ ~WriteAll(c)
  <2>1. PICK k \in 0 .. Len(Key[c]) - 1 : Write(fd[c], SubSeq(Key[c], 1, k))
    BY <1>2 DEF WriteFails
  <2>2. SubSeq(Key[c], 1, k) \in Seq(Calls)
    BY CallFacts, PrefixIsSeq
  <2> QED
    BY <1>2, <2>1, <2>2
<1> QED
  BY <1>1, <1>2

-----------------------------------------------------------------------------
LEMMA InitTypeInv == Init => TypeInv
<1> SUFFICES ASSUME Init PROVE TypeInv
  OBVIOUS
<1>1. <<>> \in Seq(Calls)
  OBVIOUS
<1>2. FSTyped(Calls, Owners)
  BY <1>1, CallFacts DEF Init, FSInit, Empty, FSTyped, Owners
<1> QED
  BY <1>2 DEF Init, TypeInv, Pcs, Running

LEMMA NextTypeInv == TypeInv /\ [Next]_vars => TypeInv'
<1> SUFFICES ASSUME TypeInv, [Next]_vars PROVE TypeInv'
  OBVIOUS
<1> USE CallFacts DEF TypeInv, Pcs, Running, Goto
<1>1. ASSUME NEW c \in Calls, InjectAuthorizedKey(c)
      PROVE  TypeInv'
  <2>1. CASE Reject(c) \/ ChownFails(c) \/ RenameFails(c)
    BY <2>1 DEF Reject, ChownFails, RenameFails, FSTyped
  <2>2. CASE Open(c)
    <3>1. UserOf[c] \in Users /\ Tmp(c) \in Names
      BY <2>2, FilesOfCalls DEF Open
    <3>2. FSTyped(Calls, Owners)' /\ Opened(Tmp(c), c) \in Calls
      BY <2>2, <3>1, OpenTruncLeaves DEF Open
    <3> QED
      BY <2>2, <3>1, <3>2 DEF Open
  <2>3. CASE WriteAll(c) \/ WriteFails(c)
    <3>1. PICK d \in Seq(Calls) : Write(fd[c], d)
      BY <2>3, WriteIs
    <3>2. fd[c] \in Calls
      BY <2>3 DEF WriteAll, WriteFails
    <3>3. FSTyped(Calls, Owners)'
      BY <3>1, <3>2, WriteLeaves
    <3> QED
      BY <2>3, <3>3 DEF WriteAll, WriteFails
  <2>4. CASE ChownTmp(c)
    <3>1. UserOf[c] \in Users /\ Tmp(c) \in Names /\ UserOf[c] \in Owners
      BY <2>4, FilesOfCalls DEF ChownTmp
    <3>2. FSTyped(Calls, Owners)'
      BY <2>4, <3>1, ChownLeaves DEF ChownTmp
    <3> QED
      BY <2>4, <3>2 DEF ChownTmp
  <2>5. CASE RenameTmp(c)
    <3>1. Tmp(c) \in Names /\ Target(c) \in Names
      BY <2>5, FilesOfCalls DEF RenameTmp
    <3>2. FSTyped(Calls, Owners)'
      BY <2>5, <3>1, RenameLeaves DEF RenameTmp
    <3> QED
      BY <2>5, <3>2 DEF RenameTmp
  <2>6. CASE Cleanup(c)
    <3>1. Tmp(c) \in Names
      BY <2>6, FilesOfCalls DEF Cleanup
    <3>2. FSTyped(Calls, Owners)'
      BY <2>6, <3>1, RemoveLeaves DEF Cleanup
    <3> QED
      BY <2>6, <3>2 DEF Cleanup
  <2> QED
    BY <1>1, <2>1, <2>2, <2>3, <2>4, <2>5, <2>6 DEF InjectAuthorizedKey
<1>2. CASE Crash
  BY <1>2 DEF Crash, FSTyped
<1>3. CASE UNCHANGED vars
  BY <1>3 DEF vars, FSTyped
<1> QED
  BY <1>1, <1>2, <1>3 DEF Next

(* A call holds a descriptor exactly while it is inside os.WriteFile       *)
(* (sshkeys.go:111), and it leads to a file that a call made.              *)
THEOREM TypeCorrect == Spec => []TypeOK
<1>1. TypeInv => TypeOK
  BY CallFacts DEF TypeInv, FSTyped, TypeOK, FSTypeOK
<1> QED
  BY <1>1, InitTypeInv, NextTypeInv, PTL DEF Spec

-----------------------------------------------------------------------------
(* What a step does to the directory. *)

Creates(c) ==
  /\ UserOf[c] \in Users
  /\ pc[c] = "idle" /\ pc'[c] # "idle"
  /\ dir' = [dir EXCEPT ![Tmp(c)] = Opened(Tmp(c), c)]

Installs(c) ==
  /\ UserOf[c] \in Users
  /\ dir[Tmp(c)] \in Calls
  /\ dir' = [dir EXCEPT ![Tmp(c)] = None, ![Target(c)] = dir[Tmp(c)]]

Unlinks(n) == dir' = [dir EXCEPT ![n] = None]

LEMMA DirStep ==
  ASSUME TypeInv, [Next]_vars
  PROVE  \/ UNCHANGED dir
         \/ \E c \in Calls : Creates(c) \/ Installs(c)
         \/ \E n \in Names : Unlinks(n)
<1> USE CallFacts DEF TypeInv
<1>1. ASSUME NEW c \in Calls, InjectAuthorizedKey(c)
      PROVE  \/ UNCHANGED dir
             \/ Creates(c) \/ Installs(c)
             \/ \E n \in Names : Unlinks(n)
  <2>1. CASE Reject(c) \/ ChownFails(c) \/ RenameFails(c)
    BY <2>1 DEF Reject, ChownFails, RenameFails
  <2>2. CASE Open(c)
    <3>1. UserOf[c] \in Users /\ Tmp(c) \in Names
      BY <2>2, FilesOfCalls DEF Open
    <3>2. dir' = [dir EXCEPT ![Tmp(c)] = Opened(Tmp(c), c)]
      BY <2>2, <3>1, OpenTruncLeaves DEF Open
    <3> QED
      BY <2>2, <3>1, <3>2 DEF Open, Creates, Goto
  <2>3. CASE WriteAll(c) \/ WriteFails(c) \/ ChownTmp(c)
    BY <2>3 DEF WriteAll, WriteFails, Write, ChownTmp, Chown
  <2>4. CASE RenameTmp(c)
    <3>1. UserOf[c] \in Users /\ Tmp(c) \in Names /\ Target(c) \in Names
      BY <2>4, FilesOfCalls DEF RenameTmp, Running, Pcs
    <3> QED
      BY <2>4, <3>1, RenameLeaves DEF RenameTmp, Installs
  <2>5. CASE Cleanup(c)
    <3>1. Tmp(c) \in Names
      BY <2>5, FilesOfCalls DEF Cleanup, Running, Pcs
    <3> QED
      BY <2>5, <3>1 DEF Cleanup, Remove, Unlinks
  <2> QED
    BY <1>1, <2>1, <2>2, <2>3, <2>4, <2>5 DEF InjectAuthorizedKey
<1>2. CASE Crash \/ UNCHANGED vars
  BY <1>2 DEF Crash, vars
<1> QED
  BY <1>1, <1>2 DEF Next

(* Two names lead to two files, no name to the file of a call that has not *)
(* started.                                                                *)
DirInv ==
  /\ \A m, n \in Names : dir[m] # None /\ dir[m] = dir[n] => m = n
  /\ \A n \in Names : dir[n] # None => pc[dir[n]] # "idle"

(* A user's names and descriptors lead to files made for this user.        *)
OwnNames ==
  \A u \in Users :
    /\ dir[KeysOf[u]] # None => UserOf[dir[KeysOf[u]]] = u
    /\ dir[TmpOf[u]] # None => UserOf[dir[TmpOf[u]]] = u

OwnFiles == \A c \in Calls : fd[c] # None => UserOf[fd[c]] = UserOf[c]

LEMMA PcStarted ==
  ASSUME TypeInv, [Next]_vars, NEW c \in Calls, pc[c] # "idle"
  PROVE  pc'[c] # "idle"
<1> USE DEF TypeInv, Goto
<1>1. ASSUME NEW d \in Calls, InjectAuthorizedKey(d)
      PROVE  pc'[c] # "idle"
  BY <1>1 DEF InjectAuthorizedKey, Reject, Open, WriteAll, WriteFails, ChownTmp, ChownFails,
              RenameTmp, RenameFails, Cleanup
<1>2. CASE Crash \/ UNCHANGED vars
  BY <1>2 DEF Crash, vars
<1> QED
  BY <1>1, <1>2 DEF Next

LEMMA NextDirInv ==
  ASSUME TypeInv, DirInv, [Next]_vars
  PROVE  DirInv'
<1> USE CallFacts DEF DirInv, TypeInv, FSTyped
<1>1. \A c \in Calls : pc[c] # "idle" => pc'[c] # "idle"
  BY PcStarted
<1>2. ASSUME NEW c \in Calls, Creates(c)
      PROVE  DirInv'
  <2>1. Tmp(c) \in Names
    BY <1>2, FilesOfCalls DEF Creates
  <2>2. CASE Exists(Tmp(c))
    BY <1>1, <1>2, <2>1, <2>2 DEF Creates, Opened, Exists
  <2>3. CASE ~Exists(Tmp(c))
    <3>1. dir' = [dir EXCEPT ![Tmp(c)] = c]
      BY <1>2, <2>3 DEF Creates, Opened
    <3> QED
      BY <1>1, <1>2, <2>1, <2>3, <3>1 DEF Creates, Exists
  <2> QED
    BY <2>2, <2>3
<1>3. ASSUME NEW c \in Calls, Installs(c)
      PROVE  DirInv'
  <2>1. Tmp(c) \in Names /\ Target(c) \in Names /\ Tmp(c) # Target(c)
    BY <1>3, FilesOfCalls DEF Installs
  <2> QED
    BY <1>1, <1>3, <2>1 DEF Installs
<1>4. ASSUME NEW n \in Names, Unlinks(n)
      PROVE  DirInv'
  BY <1>1, <1>4 DEF Unlinks
<1> QED
  BY <1>1, <1>2, <1>3, <1>4, DirStep

LEMMA NextOwnNames ==
  ASSUME TypeInv, OwnNames, [Next]_vars
  PROVE  OwnNames'
<1> USE FilesOfUsers, CallFacts DEF OwnNames, TypeInv, FSTyped
<1>1. ASSUME NEW c \in Calls, Creates(c)
      PROVE  OwnNames'
  <2>1. UserOf[Opened(Tmp(c), c)] = UserOf[c]
    BY <1>1 DEF Creates, Opened, Exists, Tmp
  <2> QED
    BY <1>1, <2>1 DEF Creates, Tmp
<1>2. ASSUME NEW c \in Calls, Installs(c)
      PROVE  OwnNames'
  BY <1>2 DEF Installs, Tmp, Target
<1>3. ASSUME NEW n \in Names, Unlinks(n)
      PROVE  OwnNames'
  BY <1>3 DEF Unlinks
<1> QED
  BY <1>1, <1>2, <1>3, DirStep

LEMMA NextOwnFiles ==
  ASSUME TypeInv, OwnNames, OwnFiles, [Next]_vars
  PROVE  OwnFiles'
<1> USE CallFacts DEF OwnFiles, TypeInv
<1>1. ASSUME NEW c \in Calls, InjectAuthorizedKey(c)
      PROVE  OwnFiles'
  <2>1. CASE Open(c)
    <3>1. UserOf[Opened(Tmp(c), c)] = UserOf[c]
      BY <2>1, FilesOfCalls DEF Open, OwnNames, Opened, Exists, Tmp
    <3> QED
      BY <2>1, <3>1 DEF Open
  <2>2. CASE ~Open(c)
    BY <1>1, <2>2 DEF InjectAuthorizedKey, Reject, WriteAll, WriteFails, ChownTmp, ChownFails,
                      RenameTmp, RenameFails, Cleanup
  <2> QED
    BY <2>1, <2>2
<1>2. CASE Crash \/ UNCHANGED vars
  BY <1>2 DEF Crash, vars
<1> QED
  BY <1>1, <1>2 DEF Next

-----------------------------------------------------------------------------
(* A call for one user leaves what belongs to another one as it is.        *)
LEMMA OthersLeave ==
  ASSUME TypeInv, OwnNames, OwnFiles,
         NEW d \in Calls, InjectAuthorizedKey(d), NEW u \in Users, UserOf[d] # u
  PROVE  /\ dir'[KeysOf[u]] = dir[KeysOf[u]]
         /\ dir'[TmpOf[u]] = dir[TmpOf[u]]
         /\ \A i \in Calls : UserOf[i] = u => file'[i] = file[i]
<1> USE CallFacts DEF TypeInv
<1>1. CASE Reject(d) \/ ChownFails(d) \/ RenameFails(d)
  BY <1>1 DEF Reject, ChownFails, RenameFails
<1> DEFINE v == UserOf[d]
<1>2. CASE v \in Users
  <2>1. /\ Tmp(d) \in Names /\ Target(d) \in Names
        /\ Tmp(d) \notin {KeysOf[u], TmpOf[u]} /\ Target(d) \notin {KeysOf[u], TmpOf[u]}
        /\ v \in Owners
    BY <1>2, FilesOfUsers DEF Tmp, Target
  <2>2. dir[Tmp(d)] # None => UserOf[dir[Tmp(d)]] = v
    BY <1>2 DEF OwnNames, Tmp
  <2>3. CASE Open(d)
    <3>1. UserOf[Opened(Tmp(d), d)] = v
      BY <2>2 DEF Opened, Exists
    <3>2. /\ dir' = [dir EXCEPT ![Tmp(d)] = Opened(Tmp(d), d)]
          /\ \A j \in Calls \ {Opened(Tmp(d), d)} : file'[j] = file[j]
      BY <2>1, <2>3, OpenTruncLeaves DEF Open
    <3> QED
      BY <2>1, <3>1, <3>2, FilesOfUsers DEF FSTyped
  <2>4. CASE WriteAll(d) \/ WriteFails(d)
    <3>1. PICK w \in Seq(Calls) : Write(fd[d], w)
      BY <2>4, WriteIs
    <3>2. fd[d] \in Calls /\ UserOf[fd[d]] = v
      BY <2>4 DEF WriteAll, WriteFails, OwnFiles
    <3>3. dir' = dir /\ \A j \in Calls \ {fd[d]} : file'[j] = file[j]
      BY <3>1, <3>2, WriteLeaves
    <3> QED
      BY <3>2, <3>3
  <2>5. CASE ChownTmp(d)
    <3>1. /\ dir' = dir
          /\ dir[Tmp(d)] \in Calls
          /\ \A j \in Calls \ {dir[Tmp(d)]} : file'[j] = file[j]
      BY <2>1, <2>5, ChownLeaves DEF ChownTmp
    <3> QED
      BY <2>2, <3>1
  <2>6. CASE RenameTmp(d) \/ Cleanup(d)
    BY <2>1, <2>6, FilesOfUsers DEF RenameTmp, Cleanup, Rename, Remove, FSTyped
  <2> QED
    BY <1>1, <2>3, <2>4, <2>5, <2>6 DEF InjectAuthorizedKey
<1>3. CASE v \notin Users
  BY <1>1, <1>3, FilesOfCalls DEF InjectAuthorizedKey, Open, WriteAll, WriteFails, ChownTmp,
                                  RenameTmp, Cleanup, Running, Pcs
<1> QED
  BY <1>2, <1>3

(* What the temporary file of a call holds that nothing overlaps.          *)
TmpInv(c) ==
  /\ pc[c] = "opened" => dir[Tmp(c)] = fd[c] /\ file[fd[c]].data = <<>>
  /\ pc[c] \in {"written", "owned"} =>
       dir[Tmp(c)] # None /\ file[dir[Tmp(c)]].data = Key[c]
  /\ pc[c] = "owned" => file[dir[Tmp(c)]].attr = UserOf[c]

Alone(c) == pc[c] \in Running => \A d \in Mates(c) : pc[d] \in Running => d = c

CarefulInv == \A c \in Calls : UserOf[c] \in Careful => Alone(c) /\ TmpInv(c)

Inv == TypeInv /\ DirInv /\ OwnNames /\ OwnFiles /\ CarefulInv

LEMMA InjectCarefulInv ==
  ASSUME Inv, NEW d \in Calls, InjectAuthorizedKey(d)
  PROVE  CarefulInv'
<1> SUFFICES ASSUME NEW c \in Calls, UserOf[c] \in Careful
             PROVE  Alone(c)' /\ TmpInv(c)'
  BY DEF CarefulInv
<1> USE CallFacts DEF Inv, TypeInv, Goto
<1>1. UserOf[c] \in Users /\ Tmp(c) \in Names /\ Tmp(c) # Target(c) /\ UserOf[c] \in Owners
  BY FilesOfUsers DEF Tmp, Target
<1>2. Alone(c) /\ TmpInv(c)
  BY DEF CarefulInv
<1>3. \A e \in Calls \ {d} : pc'[e] = pc[e] /\ fd'[e] = fd[e]
  BY DEF InjectAuthorizedKey, Reject, Open, WriteAll, WriteFails, ChownTmp, ChownFails,
         RenameTmp, RenameFails, Cleanup
<1>4. pc[d] \in Running \/ Open(d) \/ pc'[d] = "failed"
  BY DEF InjectAuthorizedKey, Reject, WriteAll, WriteFails, ChownTmp, ChownFails,
         RenameTmp, RenameFails, Cleanup, Running, Pcs
<1>5. Alone(c)'
  <2> SUFFICES ASSUME NEW e \in Mates(c), pc'[c] \in Running, pc'[e] \in Running, e # c
               PROVE  FALSE
    BY DEF Alone, Mates
  <2>1. CASE Open(d)
    BY <1>2, <1>3, <2>1 DEF Open, MayStart, Alone, Mates, Running
  <2>2. CASE pc[d] \in Running
    BY <1>2, <1>3, <2>2 DEF Alone, Mates
  <2> QED
    BY <1>2, <1>3, <1>4, <2>1, <2>2 DEF Alone, Mates, Running
<1>6. CASE UserOf[d] # UserOf[c]
  <2>1. /\ dir'[Tmp(c)] = dir[Tmp(c)]
        /\ \A i \in Calls : UserOf[i] = UserOf[c] => file'[i] = file[i]
    BY <1>1, <1>6, OthersLeave DEF Tmp
  <2>2. dir[Tmp(c)] # None => dir[Tmp(c)] \in Calls /\ UserOf[dir[Tmp(c)]] = UserOf[c]
    BY <1>1 DEF FSTyped, OwnNames, Tmp
  <2>3. pc[c] = "opened" => fd[c] \in Calls /\ UserOf[fd[c]] = UserOf[c]
    BY DEF OwnFiles
  <2>4. pc'[c] = pc[c] /\ fd'[c] = fd[c]
    BY <1>3, <1>6
  <2> QED
    BY <1>2, <1>5, <2>1, <2>2, <2>3, <2>4 DEF TmpInv, Tmp
<1>7. CASE UserOf[d] = UserOf[c] /\ d # c
  <2>1. pc'[c] = pc[c]
    BY <1>3, <1>7
  <2>2. CASE Open(d) \/ pc[d] \in Running
    <3>1. pc'[c] \notin Running
      BY <1>2, <1>5, <1>7, <2>1, <2>2 DEF Open, MayStart, Running, Alone, Mates
    <3> QED
      BY <1>5, <3>1 DEF TmpInv, Running, Pcs
  <2>3. CASE ~Open(d) /\ pc[d] \notin Running
    <3>1. Reject(d)
      BY <2>3 DEF InjectAuthorizedKey, WriteAll, WriteFails, ChownTmp, ChownFails, RenameTmp,
                  RenameFails, Cleanup, Running, Pcs
    <3> QED
      BY <1>2, <1>5, <2>1, <3>1 DEF Reject, TmpInv, Tmp
  <2> QED
    BY <2>2, <2>3
<1>8. CASE d = c
  <2>1. CASE Open(c)
    <3>1. /\ dir' = [dir EXCEPT ![Tmp(c)] = Opened(Tmp(c), c)]
          /\ file'[Opened(Tmp(c), c)].data = <<>>
      BY <1>1, <2>1, OpenTruncLeaves DEF Open
    <3>2. pc'[c] = "opened" /\ fd'[c] = Opened(Tmp(c), c)
      BY <2>1 DEF Open
    <3> QED
      BY <1>1, <1>5, <3>1, <3>2 DEF TmpInv, FSTyped, Tmp
  <2>2. CASE WriteAll(c)
    <3>1. pc[c] = "opened" /\ fd[c] \in Calls /\ Write(fd[c], Key[c]) /\ pc'[c] = "written"
      BY <2>2 DEF WriteAll
    <3>2. dir[Tmp(c)] = fd[c] /\ file[fd[c]].data = <<>>
      BY <1>2, <3>1 DEF TmpInv
    <3>3. dir' = dir /\ file'[fd[c]].data = Key[c]
      BY <3>1, <3>2, WriteLeaves
    <3> QED
      BY <1>5, <3>1, <3>2, <3>3 DEF TmpInv, Tmp
  <2>3. CASE ChownTmp(c)
    <3>1. pc[c] = "written" /\ pc'[c] = "owned"
      BY <2>3 DEF ChownTmp
    <3>2. dir[Tmp(c)] # None /\ file[dir[Tmp(c)]].data = Key[c]
      BY <1>2, <3>1 DEF TmpInv
    <3>3. /\ dir' = dir
          /\ file'[dir[Tmp(c)]].data = file[dir[Tmp(c)]].data
          /\ file'[dir[Tmp(c)]].attr = UserOf[c]
      BY <1>1, <2>3, ChownLeaves DEF ChownTmp
    <3> QED
      BY <1>5, <3>1, <3>2, <3>3 DEF TmpInv, Tmp
  <2>4. CASE ~Open(c) /\ ~WriteAll(c) /\ ~ChownTmp(c)
    <3>1. pc'[c] \notin {"opened", "written", "owned"}
      BY <1>8, <2>4 DEF InjectAuthorizedKey, Reject, WriteFails, ChownFails, RenameTmp,
                        RenameFails, Cleanup
    <3> QED
      BY <1>5, <3>1 DEF TmpInv
  <2> QED
    BY <2>1, <2>2, <2>3, <2>4
<1> QED
  BY <1>6, <1>7, <1>8

LEMMA NextCarefulInv ==
  ASSUME Inv, [Next]_vars
  PROVE  CarefulInv'
<1> USE DEF CarefulInv, Alone, TmpInv
<1>1. CASE Crash
  BY <1>1 DEF Crash, Running, Pcs, Mates
<1>2. CASE UNCHANGED vars
  BY <1>2 DEF vars, Inv, Tmp, Mates
<1> QED
  BY <1>1, <1>2, InjectCarefulInv DEF Next

LEMMA InitInv == Init => Inv
<1>1. Init => DirInv /\ CarefulInv
  BY DEF Init, FSInit, DirInv, CarefulInv, Alone, TmpInv, Running, Pcs
<1>2. Init => OwnNames /\ OwnFiles
  BY FilesOfUsers DEF Init, FSInit, OwnNames, OwnFiles
<1> QED
  BY <1>1, <1>2, InitTypeInv DEF Inv

LEMMA NextInv == Inv /\ [Next]_vars => Inv'
BY NextTypeInv, NextDirInv, NextOwnNames, NextOwnFiles, NextCarefulInv DEF Inv

-----------------------------------------------------------------------------
(* Nothing but a rename changes what sshd reads.                           *)
LEMMA InstalledStay ==
  ASSUME Inv, NEW d \in Calls, InjectAuthorizedKey(d), ~RenameTmp(d), NEW u \in Careful
  PROVE  /\ dir'[KeysOf[u]] = dir[KeysOf[u]]
         /\ dir[KeysOf[u]] # None => file'[dir[KeysOf[u]]] = file[dir[KeysOf[u]]]
<1> USE CallFacts DEF Inv, TypeInv
<1> DEFINE k == KeysOf[u]
<1>1. u \in Users /\ k \in Names /\ dir[k] \in Calls \cup {None}
  BY FilesOfUsers DEF FSTyped
<1>2. CASE UserOf[d] # u
  BY <1>1, <1>2, OthersLeave DEF OwnNames
<1>3. CASE UserOf[d] = u
  <2>1. Tmp(d) \in Names /\ Tmp(d) # k /\ UserOf[d] \in Owners
    BY <1>1, <1>3, FilesOfUsers DEF Tmp
  <2>2. CASE Open(d)
    <3>1. Opened(Tmp(d), d) # dir[k]
      BY <1>1, <2>1, <2>2 DEF Open, Opened, Exists, DirInv
    <3>2. /\ dir' = [dir EXCEPT ![Tmp(d)] = Opened(Tmp(d), d)]
          /\ \A j \in Calls \ {Opened(Tmp(d), d)} : file'[j] = file[j]
      BY <2>1, <2>2, OpenTruncLeaves DEF Open
    <3> QED
      BY <1>1, <2>1, <3>1, <3>2 DEF FSTyped
  <2>3. CASE WriteAll(d) \/ WriteFails(d)
    <3>1. PICK v \in Seq(Calls) : Write(fd[d], v)
      BY <2>3, WriteIs
    <3>2. fd[d] \in Calls /\ fd[d] = dir[Tmp(d)]
      BY <1>3, <2>3 DEF WriteAll, WriteFails, CarefulInv, TmpInv
    <3>3. fd[d] # dir[k]
      BY <1>1, <2>1, <3>2 DEF DirInv
    <3>4. dir' = dir /\ \A j \in Calls \ {fd[d]} : file'[j] = file[j]
      BY <3>1, <3>2, WriteLeaves
    <3> QED
      BY <1>1, <3>3, <3>4
  <2>4. CASE ChownTmp(d)
    <3>1. /\ dir' = dir
          /\ dir[Tmp(d)] \in Calls
          /\ \A j \in Calls \ {dir[Tmp(d)]} : file'[j] = file[j]
      BY <2>1, <2>4, ChownLeaves DEF ChownTmp
    <3>2. dir[Tmp(d)] # dir[k]
      BY <1>1, <2>1, <3>1 DEF DirInv
    <3> QED
      BY <1>1, <3>1, <3>2
  <2>5. CASE Reject(d) \/ ChownFails(d) \/ RenameFails(d) \/ Cleanup(d)
    BY <1>1, <2>1, <2>5 DEF Reject, ChownFails, RenameFails, Cleanup, Remove, FSTyped
  <2> QED
    BY <2>2, <2>3, <2>4, <2>5 DEF InjectAuthorizedKey
<1> QED
  BY <1>2, <1>3

(* And a rename installs the whole key, in a file that the user owns.      *)
LEMMA RenameInstalls ==
  ASSUME Inv, NEW d \in Calls, RenameTmp(d)
  PROVE  /\ UserOf[d] \in Users
         /\ file' = file
         /\ \A u \in Careful \ {UserOf[d]} : dir'[KeysOf[u]] = dir[KeysOf[u]]
         /\ UserOf[d] \in Careful =>
              /\ dir'[KeysOf[UserOf[d]]] # None
              /\ file[dir'[KeysOf[UserOf[d]]]].data = Key[d]
              /\ file[dir'[KeysOf[UserOf[d]]]].attr = UserOf[d]
<1> USE CallFacts DEF Inv, TypeInv
<1>1. UserOf[d] \in Users /\ Tmp(d) \in Names /\ Target(d) \in Names /\ Tmp(d) # Target(d)
  BY FilesOfCalls DEF RenameTmp, Running, Pcs
<1>2. /\ file' = file
      /\ dir[Tmp(d)] \in Calls
      /\ dir' = [dir EXCEPT ![Tmp(d)] = None, ![Target(d)] = dir[Tmp(d)]]
  BY <1>1, RenameLeaves DEF RenameTmp
<1>3. \A u \in Careful \ {UserOf[d]} : dir'[KeysOf[u]] = dir[KeysOf[u]]
  BY <1>1, <1>2, FilesOfUsers DEF Tmp, Target, FSTyped
<1>4. dir'[Target(d)] = dir[Tmp(d)]
  BY <1>1, <1>2 DEF FSTyped
<1>5. UserOf[d] \in Careful => TmpInv(d) /\ pc[d] = "owned"
  BY DEF RenameTmp, CarefulInv
<1> QED
  BY <1>1, <1>2, <1>3, <1>4, <1>5 DEF TmpInv, Target

LEMMA NextOwned == Inv /\ OwnedByUser /\ [Next]_vars => OwnedByUser'
<1> SUFFICES ASSUME Inv, OwnedByUser, [Next]_vars, NEW u \in Careful
             PROVE  Owned(u)'
  BY DEF OwnedByUser
<1> USE DEF OwnedByUser, Owned, Exists
<1>1. ASSUME NEW d \in Calls, InjectAuthorizedKey(d)
      PROVE  Owned(u)'
  <2>1. CASE RenameTmp(d)
    BY <2>1, RenameInstalls
  <2>2. CASE ~RenameTmp(d)
    BY <1>1, <2>2, InstalledStay
  <2> QED
    BY <2>1, <2>2
<1>2. CASE Crash \/ UNCHANGED vars
  BY <1>2 DEF Crash, vars
<1> QED
  BY <1>1, <1>2 DEF Next

(* sshd, which reads the file as the user, can read the keys of each user  *)
(* for whom calls do not overlap, across failures and restarts and         *)
(* whatever calls for other users do.                                      *)
THEOREM KeysAreOwned == Spec => []OwnedByUser
<1>1. Init => OwnedByUser
  BY FilesOfUsers, CallFacts DEF Init, FSInit, OwnedByUser, Owned, Exists
<1> QED
  BY <1>1, InitInv, NextInv, NextOwned, PTL DEF Spec

-----------------------------------------------------------------------------
(* Steps of SSHKeys are steps of the KeyedStore. *)

LEMMA StoredStays ==
  ASSUME \A u \in Careful :
           /\ dir'[KeysOf[u]] = dir[KeysOf[u]]
           /\ dir[KeysOf[u]] # None => file'[dir[KeysOf[u]]] = file[dir[KeysOf[u]]]
  PROVE  Stored' = Stored
BY DEF Stored, Exists

LEMMA StoredPut ==
  ASSUME NEW k \in Careful, NEW v,
         file' = file, dir'[KeysOf[k]] # None, file[dir'[KeysOf[k]]].data = v,
         \A u \in Careful \ {k} : dir'[KeysOf[u]] = dir[KeysOf[u]]
  PROVE  Stored' = [Stored EXCEPT ![k] = v]
BY DEF Stored, Exists

LEMMA InitStore == Init => Store!Init
<1> SUFFICES ASSUME Init PROVE Store!Init
  OBVIOUS
<1>1. \A u \in Careful : ~Exists(KeysOf[u])
  BY CallFacts, FilesOfUsers DEF Init, FSInit, Exists
<1>2. \A c \in Calls : pc[c] = "idle"
  BY DEF Init
<1> QED
  BY <1>1, <1>2 DEF Store!Init, Stored, Result, CarefulCalls

LEMMA InjectStep ==
  ASSUME Inv, NEW d \in Calls, InjectAuthorizedKey(d)
  PROVE  [Store!Next]_<<Stored, Result>>
<1> USE CallFacts DEF Inv, TypeInv, Goto
<1>1. pc' \in [Calls -> Pcs] /\ \A e \in Calls \ {d} : pc'[e] = pc[e]
  BY DEF InjectAuthorizedKey, Reject, Open, WriteAll, WriteFails, ChownTmp, ChownFails,
         RenameTmp, RenameFails, Cleanup, Pcs
<1>2. CASE RenameTmp(d)
  <2>1. pc[d] = "owned" /\ pc'[d] = "done"
    BY <1>2 DEF RenameTmp
  <2>2. CASE UserOf[d] \in Careful
    <3>1. Stored' = [Stored EXCEPT ![UserOf[d]] = Key[d]]
      BY <1>2, <2>2, RenameInstalls, StoredPut
    <3>2. d \in CarefulCalls /\ Result[d] = "pending"
      BY <2>1, <2>2 DEF CarefulCalls, Result
    <3>3. Result' = [Result EXCEPT ![d] = "ok"]
      BY <1>1, <2>1, <3>2 DEF Result, CarefulCalls
    <3>4. Store!Put(d)
      BY <2>2, <3>1, <3>2, <3>3 DEF Store!Put
    <3> QED
      BY <3>2, <3>4 DEF Store!Next
  <2>3. CASE UserOf[d] \notin Careful
    <3>1. \A u \in Careful : dir'[KeysOf[u]] = dir[KeysOf[u]] /\ file' = file
      BY <1>2, <2>3, RenameInstalls
    <3>2. Stored' = Stored
      BY <3>1, StoredStays
    <3>3. Result' = Result
      BY <1>1, <2>3 DEF Result, CarefulCalls
    <3> QED
      BY <3>2, <3>3
  <2> QED
    BY <2>2, <2>3
<1>3. CASE ~RenameTmp(d)
  <2>1. Stored' = Stored
    <3>1. \A u \in Careful :
            /\ dir'[KeysOf[u]] = dir[KeysOf[u]]
            /\ dir[KeysOf[u]] # None => file'[dir[KeysOf[u]]] = file[dir[KeysOf[u]]]
      BY <1>3, InstalledStay
    <3> QED
      BY <3>1, StoredStays
  <2>2. pc[d] \notin {"done", "failed"} /\ pc'[d] # "done"
    BY <1>3 DEF InjectAuthorizedKey, Reject, Open, WriteAll, WriteFails, ChownTmp, ChownFails,
                RenameFails, Cleanup
  <2>3. CASE d \notin CarefulCalls \/ pc'[d] # "failed"
    <3>1. Result' = Result
      BY <1>1, <2>2, <2>3 DEF Result, CarefulCalls
    <3> QED
      BY <2>1, <3>1
  <2>4. CASE d \in CarefulCalls /\ pc'[d] = "failed"
    <3>1. Result[d] = "pending"
      BY <2>2, <2>4 DEF Result
    <3>2. Result' = [c \in CarefulCalls |-> IF c \in {d} THEN "failed" ELSE Result[c]]
      BY <1>1, <2>4 DEF Result, CarefulCalls
    <3>3. {d} \in SUBSET {c \in CarefulCalls : Result[c] = "pending"}
      BY <2>4, <3>1
    <3>4. Store!GiveUp
      BY <2>1, <3>2, <3>3 DEF Store!GiveUp
    <3> QED
      BY <3>4 DEF Store!Next
  <2> QED
    BY <2>3, <2>4
<1> QED
  BY <1>2, <1>3

LEMMA NextStore ==
  ASSUME Inv, [Next]_vars
  PROVE  [Store!Next]_<<Stored, Result>>
<1>1. CASE Crash
  <2> DEFINE S == {c \in CarefulCalls : pc[c] \in Running}
  <2>1. Stored' = Stored
    BY <1>1 DEF Crash, Stored, Exists
  <2>2. Result' = [c \in CarefulCalls |-> IF c \in S THEN "failed" ELSE Result[c]]
    BY <1>1 DEF Crash, Result, CarefulCalls
  <2>3. S \in SUBSET {c \in CarefulCalls : Result[c] = "pending"}
    BY DEF Running, Result
  <2>4. Store!GiveUp
    BY <2>1, <2>2, <2>3 DEF Store!GiveUp
  <2> QED
    BY <2>4 DEF Store!Next
<1>2. CASE UNCHANGED vars
  BY <1>2 DEF vars, Stored, Result, Exists, CarefulCalls
<1> QED
  BY <1>1, <1>2, InjectStep DEF Next

(* For a user for whom calls do not overlap, InjectAuthorizedKey replaces  *)
(* the keys in one step or leaves them, across failed steps and restarts.  *)
THEOREM Implementation == Spec => ImplementsStore
<1>1. Inv /\ [Next]_vars => [Store!Next]_<<Stored, Result>>
  BY NextStore
<1> QED
  BY <1>1, InitInv, NextInv, InitStore, PTL DEF Spec, ImplementsStore, Store!Spec

-----------------------------------------------------------------------------
(* What can be read was acknowledged. *)

Accounted ==
  \A k \in Careful : Stored[k] # None =>
    \E c \in CarefulCalls : UserOf[c] = k /\ Result[c] = "ok" /\ Stored[k] = Key[c]

LEMMA NextAccounted ==
  ASSUME Accounted, [Store!Next]_<<Stored, Result>>
  PROVE  Accounted'
<1> DEFINE r == Result
           s == Stored
<1>0. /\ DOMAIN r = CarefulCalls /\ DOMAIN s = Careful
      /\ r = [c \in CarefulCalls |-> r[c]] /\ s = [k \in Careful |-> s[k]]
  BY DEF Result, Stored
<1>1. \A k \in Careful : s[k] # None =>
        \E c \in CarefulCalls : UserOf[c] = k /\ r[c] = "ok" /\ s[k] = Key[c]
  BY DEF Accounted
<1> SUFFICES ASSUME NEW k \in Careful, s'[k] # None
             PROVE  \E c \in CarefulCalls :
                      UserOf[c] = k /\ r'[c] = "ok" /\ s'[k] = Key[c]
  BY DEF Accounted
<1>2. ASSUME NEW d \in CarefulCalls, Store!Put(d)
      PROVE  \E c \in CarefulCalls : UserOf[c] = k /\ r'[c] = "ok" /\ s'[k] = Key[c]
  <2>1. /\ s' = [s EXCEPT ![UserOf[d]] = Key[d]]
        /\ r' = [r EXCEPT ![d] = "ok"]
    BY <1>2 DEF Store!Put
  <2> HIDE DEF r, s
  <2> QED
    BY <1>0, <1>1, <2>1
<1>3. ASSUME NEW l \in Careful, Store!Delete(l)
      PROVE  \E c \in CarefulCalls : UserOf[c] = k /\ r'[c] = "ok" /\ s'[k] = Key[c]
  <2>1. s' = [s EXCEPT ![l] = None] /\ r' = r
    BY <1>3 DEF Store!Delete
  <2> HIDE DEF r, s
  <2> QED
    BY <1>0, <1>1, <2>1
<1>4. CASE Store!GiveUp
  <2>1. PICK S \in SUBSET {c \in CarefulCalls : r[c] = "pending"} :
          r' = [c \in CarefulCalls |-> IF c \in S THEN "failed" ELSE r[c]]
    BY <1>4 DEF Store!GiveUp
  <2>2. s' = s
    BY <1>4 DEF Store!GiveUp
  <2> HIDE DEF r, s
  <2> QED
    BY <1>1, <2>1, <2>2
<1>5. CASE UNCHANGED <<Stored, Result>>
  <2>1. s' = s /\ r' = r
    BY <1>5
  <2> HIDE DEF r, s
  <2> QED
    BY <1>1, <2>1
<1> QED
  BY <1>2, <1>3, <1>4, <1>5 DEF Store!Next

(* What sshd reads for such a user is the whole of what one call that      *)
(* returned no error was given, whatever failed before it or after it.     *)
THEOREM WholeKeys ==
  Spec => [](\A u \in Careful : Exists(KeysOf[u]) =>
               \E c \in Calls : /\ UserOf[c] = u /\ pc[c] = "done"
                                /\ file[dir[KeysOf[u]]].data = Key[c])
<1> DEFINE Whole == \A u \in Careful : Exists(KeysOf[u]) =>
                      \E c \in Calls : /\ UserOf[c] = u /\ pc[c] = "done"
                                       /\ file[dir[KeysOf[u]]].data = Key[c]
<1>1. Init => Accounted
  BY InitStore DEF Store!Init, Accounted
<1>2. Inv /\ Accounted /\ [Next]_vars => Accounted'
  BY NextStore, NextAccounted
<1>3. Inv /\ Accounted => Whole
  <2> SUFFICES ASSUME Inv, Accounted, NEW u \in Careful, Exists(KeysOf[u])
               PROVE  \E c \in Calls : /\ UserOf[c] = u /\ pc[c] = "done"
                                       /\ file[dir[KeysOf[u]]].data = Key[c]
    OBVIOUS
  <2>1. KeysOf[u] \in Names
    BY CallAssumption
  <2>2. dir[KeysOf[u]] \in Calls /\ file[dir[KeysOf[u]]].data \in Seq(Calls)
    BY <2>1, CallFacts DEF Inv, TypeInv, FSTyped, Exists
  <2>3. Stored[u] = file[dir[KeysOf[u]]].data /\ Stored[u] # None
    BY <2>2, CallAssumption DEF Stored
  <2>4. PICK c \in CarefulCalls :
          UserOf[c] = u /\ Result[c] = "ok" /\ Stored[u] = Key[c]
    BY <2>3 DEF Accounted
  <2> QED
    BY <2>3, <2>4 DEF Result, CarefulCalls
<1> HIDE DEF Whole
<1>4. Spec => []Whole
  BY <1>1, <1>2, <1>3, InitInv, NextInv, PTL DEF Spec
<1> QED
  BY <1>4 DEF Whole

=============================================================================
