------------------------------- MODULE MCDaemon -------------------------------
(* The daemon with mounts at nested paths and concurrent shutdowns.        *)
EXTENDS Daemon

CONSTANTS r1, r2, s1, s2

NestedPaths == {"mnt", "mntb"}
NestedBelow == {<<"mntb", "mnt">>}
PathOfRequests == [r \in Requests |-> IF r = r1 THEN "mnt" ELSE "mntb"]

NoAgents == {}

=============================================================================
