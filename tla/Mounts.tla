-------------------------------- MODULE Mounts --------------------------------
(***************************************************************************)
(* MountManager (pkg/mounts.go): a slice of the mounts made so far, shared *)
(* without a lock by one goroutine per mount request (from either server)  *)
(* and one per shutdown, and the kernel's mount table, which outlives the  *)
(* process.  A mount is the request that made it: PathOf is its clean      *)
(* guest path, and Below holds <<p, q>> when path p is strictly inside q.  *)
(*                                                                         *)
(* append loads the slice and stores a longer one; between the two, other  *)
(* goroutines run.  (Below four elements no two appends share a backing    *)
(* array, the capacities of a []MountPayload being 1, 2 and 4.)            *)
(***************************************************************************)
EXTENDS Naturals, FiniteSets, Sequences, SequencesExt

CONSTANTS
  Requests,   \* mount requests
  Sweepers,   \* goroutines running UnmountAll
  Paths,
  PathOf,
  Below

ASSUME PathAssumption ==
  /\ PathOf \in [Requests -> Paths]
  /\ Below \subseteq Paths \X Paths

VARIABLES
  mounts,   \* mm.mounts
  table,    \* the kernel's mounts, oldest first
  mntPc,    \* where each call of Mount is
  snap,     \* the slice each call's append has loaded
  swPc,     \* where each call of UnmountAll is
  idx,      \* its i + 1
  cur,      \* its m
  tried,    \* mounts this process has run umount for
  orphans,  \* mounts in the kernel that an earlier process left
  overlap,  \* has a call of this process begun while another was under way?
  race      \* has it begun to use the list while another was using it?

vars == <<mounts, table, mntPc, snap, swPc, idx, cur, tried, orphans, overlap, race>>

MntPcs   == {"idle", "mounting", "mounted", "loaded", "tracked", "failed"}
InFlight == {"mounting", "mounted", "loaded"}
SwPcs    == {"idle", "read", "umount", "done"}
Sweeping == {"read", "umount"}
NoMount  == "none"

ASSUME NoMountAssumption == NoMount \notin Requests

-----------------------------------------------------------------------------
Init ==
  /\ mounts = <<>>
  /\ table = <<>>
  /\ mntPc = [r \in Requests |-> "idle"]
  /\ snap = [r \in Requests |-> <<>>]
  /\ swPc = [s \in Sweepers |-> "idle"]
  /\ idx = [s \in Sweepers |-> 0]
  /\ cur = [s \in Sweepers |-> NoMount]
  /\ tried = {}
  /\ orphans = {}
  /\ overlap = FALSE
  /\ race = FALSE

(* No call is under way, and none is between the first and the last use    *)
(* its append or its loop makes of the list.                               *)
Quiet ==
  /\ \A r \in Requests : mntPc[r] \notin InFlight
  /\ \A s \in Sweepers : swPc[s] \notin Sweeping

Unused ==
  /\ \A r \in Requests : mntPc[r] # "loaded"
  /\ \A s \in Sweepers : swPc[s] \notin Sweeping

(* Nothing in the code keeps a call or a use of the list from beginning    *)
(* beside another; that one did is noted.                                  *)
BeginCall == overlap' = (overlap \/ ~Quiet)
BeginUse  == race' = (race \/ ~Unused)

(* Bad payload or blocked path, or the mount point cannot be created.      *)
MountReject(r) ==
  /\ mntPc[r] = "idle"
  /\ mntPc' = [mntPc EXCEPT ![r] = "failed"]
  /\ UNCHANGED <<mounts, table, snap, swPc, idx, cur, tried, orphans, overlap, race>>

MountBegin(r) ==
  /\ BeginCall
  /\ mntPc[r] = "idle"
  /\ mntPc' = [mntPc EXCEPT ![r] = "mounting"]
  /\ UNCHANGED <<mounts, table, snap, swPc, idx, cur, tried, orphans, race>>

(* Mutant: the mount is tracked although the command failed.               *)
MountFailTracked(r) ==
  /\ mntPc[r] = "mounting"
  /\ mntPc' = [mntPc EXCEPT ![r] = "failed"]
  /\ mounts' = Append(mounts, r)
  /\ UNCHANGED <<table, snap, swPc, idx, cur, tried, orphans, overlap, race>>

(* mount(8) fails: nothing is tracked. *)
MountFail(r) ==
  /\ mntPc[r] = "mounting"
  /\ mntPc' = [mntPc EXCEPT ![r] = "failed"]
  /\ UNCHANGED <<mounts, table, snap, swPc, idx, cur, tried, orphans, overlap, race>>

MountDone(r) ==
  /\ mntPc[r] = "mounting"
  /\ mntPc' = [mntPc EXCEPT ![r] = "mounted"]
  /\ table' = Append(table, r)
  /\ UNCHANGED <<mounts, snap, swPc, idx, cur, tried, orphans, overlap, race>>

MountLoad(r) ==
  /\ BeginUse
  /\ mntPc[r] = "mounted"
  /\ mntPc' = [mntPc EXCEPT ![r] = "loaded"]
  /\ snap' = [snap EXCEPT ![r] = mounts]
  /\ UNCHANGED <<mounts, table, swPc, idx, cur, tried, orphans, overlap>>

MountStore(r) ==
  /\ mntPc[r] = "loaded"
  /\ mntPc' = [mntPc EXCEPT ![r] = "tracked"]
  /\ mounts' = Append(snap[r], r)
  /\ snap' = [snap EXCEPT ![r] = <<>>]
  /\ UNCHANGED <<table, swPc, idx, cur, tried, orphans, overlap, race>>

-----------------------------------------------------------------------------
(* umount(8) on path p.  The path leads to the newest mount at p or above  *)
(* it, which must be at p itself and have nothing mounted on it.           *)
At(p)     == {k \in DOMAIN table : PathOf[table[k]] = p}
Inside(p) == {k \in DOMAIN table : <<PathOf[table[k]], p>> \in Below}
Around(p) == {k \in DOMAIN table : <<p, PathOf[table[k]]>> \in Below}

CanUmount(k, p) ==
  /\ k \in At(p)
  /\ \A j \in At(p) \cup Around(p) \cup Inside(p) : j <= k

(* Mutants: the loop starts at len or at len - 2.                          *)
SweepBeginHigh(s) ==
  /\ BeginCall
  /\ BeginUse
  /\ swPc[s] = "idle"
  /\ swPc' = [swPc EXCEPT ![s] = "read"]
  /\ idx' = [idx EXCEPT ![s] = Len(mounts) + 1]
  /\ UNCHANGED <<mounts, table, mntPc, snap, cur, tried, orphans>>

SweepBeginLow(s) ==
  /\ BeginCall
  /\ BeginUse
  /\ swPc[s] = "idle"
  /\ swPc' = [swPc EXCEPT ![s] = "read"]
  /\ idx' = [idx EXCEPT ![s] = Len(mounts) - 1]
  /\ UNCHANGED <<mounts, table, mntPc, snap, cur, tried, orphans>>

(* len(mm.mounts) is read once ... *)
SweepBegin(s) ==
  /\ BeginCall
  /\ BeginUse
  /\ swPc[s] = "idle"
  /\ swPc' = [swPc EXCEPT ![s] = "read"]
  /\ idx' = [idx EXCEPT ![s] = Len(mounts)]
  /\ UNCHANGED <<mounts, table, mntPc, snap, cur, tried, orphans>>

(* Mutant: the loop runs forward.                                          *)
SweepReadForward(s) ==
  /\ swPc[s] = "read"
  /\ idx[s] \in 1..Len(mounts)
  /\ swPc' = [swPc EXCEPT ![s] = "umount"]
  /\ cur' = [cur EXCEPT ![s] = mounts[Len(mounts) + 1 - idx[s]]]
  /\ UNCHANGED <<mounts, table, mntPc, snap, idx, tried, orphans, overlap, race>>

(* ... and mm.mounts[i] is evaluated again in every iteration.             *)
SweepRead(s) ==
  /\ swPc[s] = "read"
  /\ idx[s] \in 1..Len(mounts)
  /\ swPc' = [swPc EXCEPT ![s] = "umount"]
  /\ cur' = [cur EXCEPT ![s] = mounts[idx[s]]]
  /\ UNCHANGED <<mounts, table, mntPc, snap, idx, tried, orphans, overlap, race>>

(* umount also fails on a file system in use; a failure is only logged.    *)
SweepUmount(s) ==
  /\ swPc[s] = "umount"
  /\ swPc' = [swPc EXCEPT ![s] = "read"]
  /\ idx' = [idx EXCEPT ![s] = @ - 1]
  /\ tried' = tried \cup {cur[s]}
  /\ cur' = [cur EXCEPT ![s] = NoMount]
  /\ \/ \E k \in DOMAIN table :
          /\ CanUmount(k, PathOf[cur[s]])
          /\ table' = RemoveAt(table, k)
          /\ orphans' = orphans \ {table[k]}
     \/ UNCHANGED <<table, orphans>>
  /\ UNCHANGED <<mounts, mntPc, snap, overlap, race>>

(* Mutant: the loop condition is i > 0.                                    *)
SweepClearEarly(s) ==
  /\ swPc[s] = "read"
  /\ idx[s] \in {0, 1}
  /\ swPc' = [swPc EXCEPT ![s] = "done"]
  /\ mounts' = <<>>
  /\ UNCHANGED <<table, mntPc, snap, idx, cur, tried, orphans, overlap, race>>

SweepClear(s) ==
  /\ swPc[s] = "read"
  /\ idx[s] = 0
  /\ swPc' = [swPc EXCEPT ![s] = "done"]
  /\ mounts' = <<>>
  /\ UNCHANGED <<table, mntPc, snap, idx, cur, tried, orphans, overlap, race>>

-----------------------------------------------------------------------------
(* The process ends, wherever its goroutines are; the next one starts with *)
(* an empty list, and the kernel's mounts are as they were.                *)
Crash ==
  /\ mounts' = <<>>
  /\ mntPc' = [r \in Requests |->
                 IF mntPc[r] \in InFlight THEN "failed" ELSE mntPc[r]]
  /\ snap' = [r \in Requests |-> <<>>]
  /\ swPc' = [s \in Sweepers |-> "idle"]
  /\ idx' = [s \in Sweepers |-> 0]
  /\ cur' = [s \in Sweepers |-> NoMount]
  /\ tried' = {}
  /\ orphans' = Range(table)
  /\ overlap' = FALSE
  /\ race' = FALSE
  /\ UNCHANGED table

(* Index out of range: the slice has shrunk under the loop.                *)
SweepPanic(s) ==
  /\ swPc[s] = "read"
  /\ idx[s] > Len(mounts)
  /\ Crash

(* A slice header is three words.  Read while another goroutine writes it, *)
(* it may pair one slice's length with another's array, and fault.         *)
Reading == \/ \E r \in Requests : mntPc[r] = "mounted"
           \/ \E s \in Sweepers : swPc[s] = "read" /\ idx[s] # 0
Writing == \/ \E r \in Requests : mntPc[r] = "loaded"
           \/ \E s \in Sweepers : swPc[s] = "read" /\ idx[s] = 0 /\ mounts # <<>>

TornRead == Reading /\ Writing /\ Crash

MountStep(r) ==
  \/ MountReject(r) \/ MountBegin(r) \/ MountFail(r)
  \/ MountDone(r) \/ MountLoad(r) \/ MountStore(r)

SweepStep(s) ==
  SweepBegin(s) \/ SweepRead(s) \/ SweepUmount(s) \/ SweepClear(s)

Next ==
  \/ \E r \in Requests : MountStep(r)
  \/ \E s \in Sweepers : SweepStep(s) \/ SweepPanic(s)
  \/ TornRead
  \/ Crash

Spec == Init /\ [][Next]_vars

-----------------------------------------------------------------------------
TypeOK ==
  /\ mounts \in Seq(Requests)
  /\ table \in Seq(Requests)
  /\ mntPc \in [Requests -> MntPcs]
  /\ snap \in [Requests -> Seq(Requests)]
  /\ swPc \in [Sweepers -> SwPcs]
  /\ idx \in [Sweepers -> Nat]
  /\ cur \in [Sweepers -> Requests \cup {NoMount}]
  /\ tried \in SUBSET Requests
  /\ orphans \in SUBSET Requests
  /\ overlap \in BOOLEAN
  /\ race \in BOOLEAN

(* Each mount of this process is listed, about to be, or was swept.        *)
Accounted ==
  \A k \in DOMAIN table :
    \/ table[k] \in Range(mounts) \cup tried \cup orphans
    \/ mntPc[table[k]] \in {"mounted", "loaded"}

(* "mounts tracks active mounts for cleanup during shutdown"               *)
(* (mounts.go:25): however the mount commands overlap, as long as no two   *)
(* goroutines use the list at once, a mount this process made is in the    *)
(* list, or about to be appended by the call that made it, or umount was   *)
(* run for it.  The lock that mounts.go lacks is all that is missing.      *)
NoForgottenMount == ~race => Accounted

(* "UnmountAll() unmounts in reverse (LIFO)" (README.md:95): when umount   *)
(* is about to run for a mount, it has run for every later one at the same *)
(* path, inside it or around it.  This takes calls that do not overlap at  *)
(* all: two that do may append in another order than they mounted.         *)
Related(r, q) ==
  \/ PathOf[r] = PathOf[q]
  \/ {<<PathOf[r], PathOf[q]>>, <<PathOf[q], PathOf[r]>>} \cap Below # {}

NestedFirst ==
  ~overlap =>
    \A s \in Sweepers : swPc[s] = "umount" =>
      \A j, k \in DOMAIN table :
        j < k /\ table[j] = cur[s] /\ Related(table[k], cur[s]) => table[k] \in tried

(* Whatever overlaps, the list holds no mount twice and none whose mount   *)
(* command failed or has yet to end, so no sweep runs umount for one.      *)
OnlyRealMounts ==
  /\ IsInjective(mounts)
  /\ \A r \in Range(mounts) : mntPc[r] = "tracked" /\ r \notin orphans

LoopInList ==
  \A s \in Sweepers : swPc[s] \in Sweeping =>
    /\ idx[s] <= Len(mounts)
    /\ \A i \in idx[s] + 1 .. Len(mounts) : mounts[i] \in tried

(* As long as no two goroutines use the list at once, UnmountAll's loop    *)
(* runs off neither end of the list and visits every mount in it.          *)
SweepInBounds == ~race => LoopInList

=============================================================================
