------------------------------ MODULE MCSSHKeys -------------------------------
(* Three keys for one user, of different lengths, and two for another.     *)
EXTENDS SSHKeys

CONSTANTS k1, k2, k3, t1, t2, bad

FileNames == {"admin", "admin.tmp", "agent", "agent.tmp"}
TwoUsers  == {"admin_user", "agent_user"}
KeysOfUsers == [u \in Users |-> IF u = "admin_user" THEN "admin" ELSE "agent"]
TmpOfUsers  == [u \in Users |-> IF u = "admin_user" THEN "admin.tmp" ELSE "agent.tmp"]

UserOfCalls ==
  [c \in Calls |-> IF c \in {k1, k2, k3} THEN "admin_user" ELSE
                   IF c = bad THEN None ELSE "agent_user"]
KeyOfCalls == [c \in Calls |-> IF c = k2 THEN <<c, c>> ELSE <<c>>]

=============================================================================
