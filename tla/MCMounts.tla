------------------------------- MODULE MCMounts -------------------------------
(* Mounts at nested and at equal paths: "/mnt" holds "/mnt/b".             *)
EXTENDS Mounts

CONSTANTS r1, r2, r3, s1, s2

NestedPaths == {"mnt", "mntb"}
NestedBelow == {<<"mntb", "mnt">>}

(* One mount at the inner path and two around it, in any order of making.  *)
PathOfRequests ==
  [r \in Requests |-> IF r \in {r1, r3} THEN "mnt" ELSE "mntb"]

=============================================================================
