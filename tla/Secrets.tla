------------------------------- MODULE Secrets --------------------------------
(***************************************************************************)
(* SecretManager (pkg/secrets.go).  Calls of Inject come from both servers *)
(* at once and share no lock; a call writes NAME.tmp and renames it.  The  *)
(* directory outlives the process.  An inode is named after the one call   *)
(* that can have created it, and a secret's data is a sequence of the call *)
(* that supplied each part of it.                                          *)
(***************************************************************************)
EXTENDS FileSystem

CONSTANTS
  Calls,      \* calls of Inject
  Secrets,    \* the names the host uses
  NameOf,     \* the name in each call, or None when it is not a file name
  TmpOf,      \* NAME.tmp
  Hidden,     \* the names that end in ".tmp"
  Value,      \* the value in each call
  Mode,       \* the mode in each call, 0600 if it has none
  Careful,    \* the secrets that the host never injects twice at once
  Faults      \* may a system call fail, or the process die?

ASSUME CallAssumption ==
  /\ Inodes = Calls
  /\ None \notin Names \cup Calls
  /\ None \notin Seq(Calls)
  /\ Secrets \subseteq Names
  /\ NameOf \in [Calls -> Secrets \cup {None}]
  /\ Hidden \subseteq Names
  /\ TmpOf \in [Secrets -> Hidden]
  /\ \A s, t \in Secrets : TmpOf[s] = TmpOf[t] => s = t
  /\ DOMAIN Value = Calls
  /\ \A c \in Calls : Value[c] \in Seq({c})
  /\ Careful \subseteq Secrets
  /\ Faults \in BOOLEAN

VARIABLES
  pc,         \* where each call is
  fd          \* the inode it has open

vars == <<dir, file, pc, fd>>

Pcs     == {"idle", "opened", "written", "cleanup", "done", "failed"}
Running == {"opened", "written", "cleanup"}

(* Mutant: one temporary file for all secrets. *)
TmpShared(c) == TmpOf[CHOOSE s \in Secrets : TRUE]

Tmp(c) == TmpOf[NameOf[c]]

-----------------------------------------------------------------------------
Init ==
  /\ FSInit
  /\ pc = [c \in Calls |-> "idle"]
  /\ fd = [c \in Calls |-> None]

MayStart(c) ==
  NameOf[c] \in Careful =>
    \A d \in Calls : NameOf[d] = NameOf[c] => pc[d] \notin Running

(* Empty name, or not a simple file name. *)
Reject(c) ==
  /\ pc[c] = "idle"
  /\ NameOf[c] = None
  /\ pc' = [pc EXCEPT ![c] = "failed"]
  /\ UNCHANGED <<dir, file, fd>>

(* os.WriteFile opens, writes and closes.                                  *)
Open(c) ==
  /\ pc[c] = "idle"
  /\ NameOf[c] # None
  /\ MayStart(c)
  /\ OpenTrunc(Tmp(c), c, Mode[c])
  /\ fd' = [fd EXCEPT ![c] = Opened(Tmp(c), c)]
  /\ pc' = [pc EXCEPT ![c] = "opened"]

(* open(2) fails by itself. *)
OpenFails(c) ==
  /\ Faults
  /\ pc[c] = "idle"
  /\ NameOf[c] # None
  /\ MayStart(c)
  /\ pc' = [pc EXCEPT ![c] = "failed"]
  /\ UNCHANGED <<dir, file, fd>>

(* Mutant: the file is not closed. *)
WriteAllUnclosed(c) ==
  /\ pc[c] = "opened"
  /\ Write(fd[c], Value[c])
  /\ pc' = [pc EXCEPT ![c] = "written"]
  /\ UNCHANGED fd

WriteAll(c) ==
  /\ pc[c] = "opened"
  /\ Write(fd[c], Value[c])
  /\ fd' = [fd EXCEPT ![c] = None]
  /\ pc' = [pc EXCEPT ![c] = "written"]

(* Mutant: the error of the write is not looked at.                        *)
WriteFailsIgnored(c) ==
  /\ Faults
  /\ pc[c] = "opened"
  /\ \E k \in 0 .. Len(Value[c]) - 1 : Write(fd[c], SubSeq(Value[c], 1, k))
  /\ fd' = [fd EXCEPT ![c] = None]
  /\ pc' = [pc EXCEPT ![c] = "written"]

(* The tmpfs is full: some of the value is written, and the file is left.  *)
WriteFails(c) ==
  /\ Faults
  /\ pc[c] = "opened"
  /\ \E k \in 0 .. Len(Value[c]) - 1 : Write(fd[c], SubSeq(Value[c], 1, k))
  /\ fd' = [fd EXCEPT ![c] = None]
  /\ pc' = [pc EXCEPT ![c] = "failed"]

RenameTmp(c) ==
  /\ pc[c] = "written"
  /\ Rename(Tmp(c), NameOf[c])
  /\ pc' = [pc EXCEPT ![c] = "done"]
  /\ UNCHANGED fd

(* Another call has renamed or removed the file, or rename(2) fails by     *)
(* itself.                                                                 *)
RenameFails(c) ==
  /\ pc[c] = "written"
  /\ Faults \/ ~Exists(Tmp(c))
  /\ pc' = [pc EXCEPT ![c] = "cleanup"]
  /\ UNCHANGED <<dir, file, fd>>

Cleanup(c) ==
  /\ pc[c] = "cleanup"
  /\ Remove(Tmp(c))
  /\ pc' = [pc EXCEPT ![c] = "failed"]
  /\ UNCHANGED fd

Inject(c) ==
  \/ Reject(c)
  \/ Open(c)
  \/ OpenFails(c)
  \/ WriteAll(c)
  \/ WriteFails(c)
  \/ RenameTmp(c)
  \/ RenameFails(c)
  \/ Cleanup(c)

Delete(s) ==
  /\ Remove(s)
  /\ UNCHANGED <<pc, fd>>

(* The process dies and is started again: the calls are gone, the files    *)
(* are not.                                                                *)
Crash ==
  /\ Faults
  /\ pc' = [c \in Calls |-> IF pc[c] \in Running THEN "failed" ELSE pc[c]]
  /\ fd' = [c \in Calls |-> None]
  /\ UNCHANGED <<dir, file>>

Next ==
  \/ \E c \in Calls : Inject(c)
  \/ \E s \in Secrets : Delete(s)
  \/ Crash

Spec == Init /\ [][Next]_vars

-----------------------------------------------------------------------------
(* A call of Inject holds a descriptor exactly while it is inside          *)
(* os.WriteFile, on an inode that some call created.                       *)
TypeOK ==
  /\ FSTypeOK
  /\ pc \in [Calls -> Pcs]
  /\ fd \in [Calls -> Calls \cup {None}]
  /\ \A c \in Calls : fd[c] # None <=> pc[c] = "opened"

Injected(s) == {c \in Calls : NameOf[c] = s /\ pc[c] = "done"}

(* "Atomic writes: write to .tmp, then rename()" (README.md:67), "default  *)
(* file mode 0600, configurable via SecretPayload.Mode" (README.md:68): a  *)
(* secret that can be read has the whole value and the mode of one call    *)
(* that returned no error.                                                 *)
ModeHonoured ==
  \A s \in Secrets : Exists(s) =>
    \E c \in Injected(s) : file[dir[s]] = [data |-> Value[c], attr |-> Mode[c]]

(* However calls overlap, fail and die, no part of a secret comes from a   *)
(* call that injected another one (the .tmp name is per secret).           *)
NoForeignPart ==
  \A s \in Secrets : Exists(s) =>
    \A k \in DOMAIN file[dir[s]].data : NameOf[file[dir[s]].data[k]] = s

(* Of a careful host's secrets: the calls, what can be read, what calls    *)
(* have returned.                                                          *)
CarefulCalls == {c \in Calls : NameOf[c] \in Careful}

Stored == [s \in Careful |-> IF Exists(s) THEN file[dir[s]].data ELSE None]

Result ==
  [c \in CarefulCalls |->
     CASE pc[c] = "done"   -> "ok"
       [] pc[c] = "failed" -> "failed"
       [] OTHER            -> "pending"]

Store == INSTANCE KeyedStore WITH
  Calls  <- CarefulCalls,
  Keys   <- Careful,
  KeyOf  <- NameOf,
  stored <- Stored,
  result <- Result

(* Inject and Remove of a careful host's secrets are atomic to whoever     *)
(* reads the directory, also across failed writes and restarts, and        *)
(* whatever calls for other secrets overlap with them.                     *)
ImplementsStore == Store!Spec

=============================================================================
