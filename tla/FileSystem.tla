------------------------------ MODULE FileSystem ------------------------------
(***************************************************************************)
(* The file operations that pkg/secrets.go and pkg/sshkeys.go make, on one *)
(* directory: names lead to inodes, and a descriptor stays with its inode  *)
(* whatever happens to the name.  Each operator is one system call.        *)
(*                                                                         *)
(* attr is what is set once, when the file is created, and changed only by *)
(* Chown: the mode for a secret, the owner for a key file.                 *)
(***************************************************************************)
EXTENDS Naturals, Sequences

CONSTANTS
  Names,
  Inodes,
  None      \* the name leads nowhere

VARIABLES
  dir,      \* the directory: each name's inode
  file      \* each inode's data and attr

Empty == [data |-> <<>>, attr |-> None]

FSInit ==
  /\ dir = [n \in Names |-> None]
  /\ file = [i \in Inodes |-> Empty]

Exists(n) == dir[n] # None

(* open(n, O_WRONLY|O_CREATE|O_TRUNC, attr) gives inode Opened(n, i), i     *)
(* being a fresh one.  A file that is there keeps its attr.                *)
Opened(n, i) == IF Exists(n) THEN dir[n] ELSE i

OpenTrunc(n, i, attr) ==
  \/ /\ ~Exists(n)
     /\ dir' = [dir EXCEPT ![n] = i]
     /\ file' = [file EXCEPT ![i] = [data |-> <<>>, attr |-> attr]]
  \/ /\ Exists(n)
     /\ file' = [file EXCEPT ![dir[n]].data = <<>>]
     /\ UNCHANGED dir

(* The first write through a descriptor: at offset 0, over what is there.  *)
Write(i, d) ==
  /\ file' = [file EXCEPT ![i].data = d \o SubSeq(@, Len(d) + 1, Len(@))]
  /\ UNCHANGED dir

Chown(n, attr) ==
  /\ Exists(n)
  /\ file' = [file EXCEPT ![dir[n]].attr = attr]
  /\ UNCHANGED dir

Rename(m, n) ==
  /\ Exists(m)
  /\ dir' = [dir EXCEPT ![m] = None, ![n] = dir[m]]
  /\ UNCHANGED file

(* os.Remove: no error that matters when there is nothing to remove.       *)
Remove(n) ==
  /\ dir' = [dir EXCEPT ![n] = None]
  /\ UNCHANGED file

FSTypeOK ==
  /\ dir \in [Names -> Inodes \cup {None}]
  /\ DOMAIN file = Inodes

=============================================================================
