------------------------------- MODULE SSHKeys --------------------------------
(***************************************************************************)
(* SSHKeyManager (pkg/sshkeys.go): a call writes the user's                *)
(* authorized_keys.tmp, gives it to the user and renames it.  The file is  *)
(* created owned by root (attr is the owner) and in mode 0600, so sshd,    *)
(* which reads it as the user, needs the chown.  As in Secrets, an inode   *)
(* is named after the call that can have created it; a name stands for the *)
(* file in the directory of its user.                                      *)
(***************************************************************************)
EXTENDS FileSystem

CONSTANTS
  Calls,      \* calls of InjectAuthorizedKey
  Users,      \* the users of the machine
  Root,       \* the owner of what the daemon creates
  UserOf,     \* the user in each call, or None: no such user, or a bad key
  KeysOf,     \* each user's authorized_keys
  TmpOf,      \* and authorized_keys.tmp
  Key,        \* the key in each call
  Careful,    \* the users the host never sends two keys for at once
  Faults      \* may a file operation fail, or the process die?

ASSUME CallAssumption ==
  /\ Inodes = Calls
  /\ None \notin Names \cup Calls \cup Users
  /\ None \notin Seq(Calls)
  /\ Root \notin Users
  /\ UserOf \in [Calls -> Users \cup {None}]
  /\ {KeysOf, TmpOf} \subseteq [Users -> Names]
  /\ \A u, v \in Users :
       /\ KeysOf[u] # TmpOf[v]
       /\ KeysOf[u] = KeysOf[v] \/ TmpOf[u] = TmpOf[v] => u = v
  /\ Key \in [Calls -> Seq(Calls)]
  /\ Careful \subseteq Users
  /\ Faults \in BOOLEAN

VARIABLES
  pc,         \* where each call is
  fd          \* the inode it has open

vars == <<dir, file, pc, fd>>

Pcs     == {"idle", "opened", "written", "owned", "cleanup", "done", "failed"}
Running == Pcs \ {"idle", "done", "failed"}

Target(c) == KeysOf[UserOf[c]]
Tmp(c)    == TmpOf[UserOf[c]]

-----------------------------------------------------------------------------
Init ==
  /\ FSInit
  /\ pc = [c \in Calls |-> "idle"]
  /\ fd = [c \in Calls |-> None]

Goto(c, p) == pc' = [pc EXCEPT ![c] = p]

MayStart(c) ==
  UserOf[c] \in Careful =>
    \A d \in Calls : UserOf[d] = UserOf[c] => pc[d] \notin Running

(* A bad payload, or ~/.ssh cannot be made, chmodded or chowned.           *)
Reject(c) ==
  /\ pc[c] = "idle"
  /\ UserOf[c] = None \/ Faults
  /\ Goto(c, "failed")
  /\ UNCHANGED <<dir, file, fd>>

Open(c) ==
  /\ pc[c] = "idle"
  /\ UserOf[c] # None
  /\ MayStart(c)
  /\ OpenTrunc(Tmp(c), c, Root)
  /\ fd' = [fd EXCEPT ![c] = Opened(Tmp(c), c)]
  /\ Goto(c, "opened")

WriteAll(c) ==
  /\ pc[c] = "opened"
  /\ Write(fd[c], Key[c])
  /\ fd' = [fd EXCEPT ![c] = None]
  /\ Goto(c, "written")

(* Mutant: the error of the write is not looked at. *)
WriteFailsIgnored(c) ==
  /\ Faults
  /\ pc[c] = "opened"
  /\ \E k \in 0 .. Len(Key[c]) - 1 : Write(fd[c], SubSeq(Key[c], 1, k))
  /\ fd' = [fd EXCEPT ![c] = None]
  /\ Goto(c, "written")

(* Mutant: the file is not closed when a write fails. *)
WriteFailsUnclosed(c) ==
  /\ Faults
  /\ pc[c] = "opened"
  /\ \E k \in 0 .. Len(Key[c]) - 1 : Write(fd[c], SubSeq(Key[c], 1, k))
  /\ Goto(c, "failed")
  /\ UNCHANGED fd

(* The disk is full: part of the key is written, and the file is left.     *)
WriteFails(c) ==
  /\ Faults
  /\ pc[c] = "opened"
  /\ \E k \in 0 .. Len(Key[c]) - 1 : Write(fd[c], SubSeq(Key[c], 1, k))
  /\ fd' = [fd EXCEPT ![c] = None]
  /\ Goto(c, "failed")

ChownTmp(c) ==
  /\ pc[c] = "written"
  /\ Chown(Tmp(c), UserOf[c])
  /\ Goto(c, "owned")
  /\ UNCHANGED fd

(* Mutant: a failed chown is only logged. *)
ChownFailsIgnored(c) ==
  /\ pc[c] = "written"
  /\ ~Exists(Tmp(c)) \/ Faults
  /\ Goto(c, "owned")
  /\ UNCHANGED <<dir, file, fd>>

(* The file is gone, or the call fails. *)
ChownFails(c) ==
  /\ pc[c] = "written"
  /\ ~Exists(Tmp(c)) \/ Faults
  /\ Goto(c, "cleanup")
  /\ UNCHANGED <<dir, file, fd>>

RenameTmp(c) ==
  /\ pc[c] = "owned"
  /\ Rename(Tmp(c), Target(c))
  /\ Goto(c, "done")
  /\ UNCHANGED fd

RenameFails(c) ==
  /\ pc[c] = "owned"
  /\ ~Exists(Tmp(c)) \/ Faults
  /\ Goto(c, "cleanup")
  /\ UNCHANGED <<dir, file, fd>>

Cleanup(c) ==
  /\ pc[c] = "cleanup"
  /\ Remove(Tmp(c))
  /\ Goto(c, "failed")
  /\ UNCHANGED fd

InjectAuthorizedKey(c) ==
  \/ Reject(c)
  \/ Open(c)
  \/ WriteAll(c)
  \/ WriteFails(c)
  \/ ChownTmp(c)
  \/ ChownFails(c)
  \/ RenameTmp(c)
  \/ RenameFails(c)
  \/ Cleanup(c)

Crash ==
  /\ Faults
  /\ pc' = [c \in Calls |-> IF pc[c] \in Running THEN "failed" ELSE pc[c]]
  /\ fd' = [c \in Calls |-> None]
  /\ UNCHANGED <<dir, file>>

Next ==
  \/ \E c \in Calls : InjectAuthorizedKey(c)
  \/ Crash

Spec == Init /\ [][Next]_vars

-----------------------------------------------------------------------------
(* A call holds a descriptor exactly while it is inside os.WriteFile.      *)
TypeOK ==
  /\ FSTypeOK
  /\ pc \in [Calls -> Pcs]
  /\ fd \in [Calls -> Calls \cup {None}]
  /\ \A c \in Calls : fd[c] # None <=> pc[c] = "opened"

Owned(u) == Exists(KeysOf[u]) => file[dir[KeysOf[u]]].attr = u

(* "Writes the public key to ~/.ssh/authorized_keys (mode 0600, owned by   *)
(* the user)" (sshkeys.go:63): sshd can read the key file of each user     *)
(* whose calls do not overlap.  (Three overlapping calls can leave a file  *)
(* that root owns: chown and rename go by path.)                           *)
OwnedByUser == \A u \in Careful : Owned(u)

(* Of users for whom calls do not overlap: the calls, what sshd reads,     *)
(* what calls have returned.                                               *)
CarefulCalls == {c \in Calls : UserOf[c] \in Careful}

Stored == [u \in Careful |-> IF Exists(KeysOf[u]) THEN file[dir[KeysOf[u]]].data ELSE None]

Result ==
  [c \in CarefulCalls |->
     CASE pc[c] = "done"   -> "ok"
       [] pc[c] = "failed" -> "failed"
       [] OTHER            -> "pending"]

Store == INSTANCE KeyedStore WITH
  Calls  <- CarefulCalls,
  Keys   <- Careful,
  KeyOf  <- UserOf,
  Value  <- Key,
  stored <- Stored,
  result <- Result

(* "Atomic write via .tmp + rename()" (README.md:79): each call for such a *)
(* user replaces the user's keys at once or leaves them, also across       *)
(* failures and restarts.                                                  *)
ImplementsStore == Store!Spec

=============================================================================
