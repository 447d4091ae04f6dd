------------------------------ MODULE MountsProofs ------------------------------
(***************************************************************************)
(* For every set of requests, of sweepers and of paths: the types of       *)
(* module Mounts, and what its list may hold whatever overlaps; that no    *)
(* mount is forgotten and no sweep leaves the list as long as no two       *)
(* goroutines use the list at once; and that umount runs last in, first    *)
(* out as long as no two calls overlap.                                    *)
(***************************************************************************)
EXTENDS Mounts, TLAPS

-----------------------------------------------------------------------------
(* Appending and removing, element by element.                             *)

LEMMA AppendElements ==
  ASSUME NEW S, NEW q \in Seq(S), NEW e \in S
  PROVE  /\ Append(q, e) \in Seq(S)
         /\ Len(Append(q, e)) = Len(q) + 1
         /\ DOMAIN Append(q, e) = 1 .. Len(q) + 1
         /\ \A i \in 1 .. Len(q) : Append(q, e)[i] = q[i]
         /\ Append(q, e)[Len(q) + 1] = e
         /\ Range(Append(q, e)) = Range(q) \cup {e}
<1>1. /\ Append(q, e) \in Seq(S)
      /\ Len(Append(q, e)) = Len(q) + 1
      /\ \A i \in 1 .. Len(q) : Append(q, e)[i] = q[i]
      /\ Append(q, e)[Len(q) + 1] = e
  OBVIOUS
<1>2. DOMAIN Append(q, e) = 1 .. Len(q) + 1
  BY <1>1
<1>3. DOMAIN q = 1 .. Len(q) /\ Len(q) \in Nat
  OBVIOUS
<1>4. Range(Append(q, e)) = Range(q) \cup {e}
  BY <1>1, <1>2, <1>3 DEF Range
<1> QED
  BY <1>1, <1>2, <1>4

LEMMA RemoveAtElements ==
  ASSUME NEW S, NEW q \in Seq(S), NEW k \in DOMAIN q
  PROVE  /\ RemoveAt(q, k) \in Seq(S)
         /\ DOMAIN RemoveAt(q, k) = 1 .. Len(q) - 1
         /\ \A i \in 1 .. Len(q) - 1 :
              RemoveAt(q, k)[i] = IF i < k THEN q[i] ELSE q[i + 1]
<1> DEFINE a == SubSeq(q, 1, k - 1)
           b == SubSeq(q, k + 1, Len(q))
<1>1. k \in 1 .. Len(q) /\ Len(q) \in Nat
  OBVIOUS
<1>2. /\ a \in Seq(S)
      /\ Len(a) = k - 1
      /\ \A i \in 1 .. k - 1 : a[i] = q[i]
  BY <1>1
<1>3. /\ b \in Seq(S)
      /\ Len(b) = Len(q) - k
      /\ \A i \in 1 .. Len(q) - k : b[i] = q[k + i]
  BY <1>1
<1> HIDE DEF a, b
<1>4. /\ a \o b \in Seq(S)
      /\ Len(a \o b) = Len(q) - 1
      /\ \A i \in 1 .. Len(q) - 1 :
           (a \o b)[i] = IF i <= k - 1 THEN a[i] ELSE b[i - (k - 1)]
  BY <1>1, <1>2, <1>3, SMTT(30)
<1>5. RemoveAt(q, k) = a \o b
  BY DEF RemoveAt, a, b
<1>6. ASSUME NEW i \in 1 .. Len(q) - 1
      PROVE  (a \o b)[i] = IF i < k THEN q[i] ELSE q[i + 1]
  <2>1. CASE i < k
    BY <2>1, <1>1, <1>2, <1>4
  <2>2. CASE ~(i < k)
    <3>1. i - (k - 1) \in 1 .. Len(q) - k /\ k + (i - (k - 1)) = i + 1
      BY <2>2, <1>1
    <3> QED
      BY <2>2, <3>1, <1>1, <1>3, <1>4, SMTT(30)
  <2> QED
    BY <2>1, <2>2
<1> QED
  BY <1>1, <1>4, <1>5, <1>6

LEMMA RemoveAtPositions ==
  ASSUME NEW S, NEW q \in Seq(S), NEW k \in DOMAIN q,
         NEW i \in DOMAIN RemoveAt(q, k), NEW j \in DOMAIN RemoveAt(q, k)
  PROVE  \E a, b \in DOMAIN q :
           /\ RemoveAt(q, k)[i] = q[a] /\ RemoveAt(q, k)[j] = q[b]
           /\ a # k /\ b # k
           /\ i < j <=> a < b
           /\ i = j <=> a = b
<1> DEFINE up(n) == IF n < k THEN n ELSE n + 1
<1>1. i \in 1 .. Len(q) - 1 /\ j \in 1 .. Len(q) - 1
  BY RemoveAtElements
<1>2. RemoveAt(q, k)[i] = q[up(i)] /\ RemoveAt(q, k)[j] = q[up(j)]
  BY <1>1, RemoveAtElements
<1>3. /\ up(i) \in DOMAIN q /\ up(j) \in DOMAIN q
      /\ up(i) # k /\ up(j) # k
      /\ i < j <=> up(i) < up(j)
      /\ i = j <=> up(i) = up(j)
  <2>1. DOMAIN q = 1 .. Len(q) /\ Len(q) \in Nat /\ k \in 1 .. Len(q)
    OBVIOUS
  <2> QED
    BY <1>1, <2>1
<1> QED
  BY <1>2, <1>3

LEMMA RemoveAtRange ==
  ASSUME NEW S, NEW q \in Seq(S), NEW k \in DOMAIN q
  PROVE  Range(RemoveAt(q, k)) \subseteq Range(q)
<1>1. DOMAIN q = 1 .. Len(q) /\ Len(q) \in Nat
  OBVIOUS
<1>2. ASSUME NEW i \in DOMAIN RemoveAt(q, k)
      PROVE  \E j \in DOMAIN q : RemoveAt(q, k)[i] = q[j]
  <2>1. i \in 1 .. Len(q) - 1
    BY RemoveAtElements
  <2>2. RemoveAt(q, k)[i] = IF i < k THEN q[i] ELSE q[i + 1]
    BY <2>1, RemoveAtElements
  <2>3. i \in DOMAIN q /\ i + 1 \in DOMAIN q
    BY <2>1, <1>1
  <2> QED
    BY <2>2, <2>3
<1> QED
  BY <1>2 DEF Range

-----------------------------------------------------------------------------
(* A sweep about to run umount holds a mount and a position in the list.   *)
UmountHolds ==
  \A s \in Sweepers : swPc[s] = "umount" => idx[s] # 0 /\ cur[s] \in Requests

LEMMA NotedTypes ==
  ASSUME overlap \in BOOLEAN, race \in BOOLEAN, [Next]_vars
  PROVE  overlap' \in BOOLEAN /\ race' \in BOOLEAN
<1>1. ASSUME NEW r \in Requests, MountStep(r)
      PROVE  overlap' \in BOOLEAN /\ race' \in BOOLEAN
  BY <1>1 DEF MountStep, MountReject, MountBegin, MountFail, MountDone,
              MountLoad, MountStore, BeginCall, BeginUse
<1>2. ASSUME NEW s \in Sweepers, SweepStep(s)
      PROVE  overlap' \in BOOLEAN /\ race' \in BOOLEAN
  BY <1>2 DEF SweepStep, SweepBegin, SweepRead, SweepUmount, SweepClear,
              BeginCall, BeginUse
<1>3. ASSUME Crash
      PROVE  overlap' \in BOOLEAN /\ race' \in BOOLEAN
  BY <1>3 DEF Crash
<1> QED
  BY <1>1, <1>2, <1>3 DEF Next, SweepPanic, TornRead, vars

LEMMA Types == Spec => [](TypeOK /\ UmountHolds)
<1> USE DEF TypeOK, UmountHolds, MntPcs, SwPcs
<1>1. Init => TypeOK /\ UmountHolds
  <2>1. Init => overlap \in BOOLEAN /\ race \in BOOLEAN
    BY Zenon DEF Init
  <2> QED
    BY <2>1 DEF Init
<1>2. TypeOK /\ UmountHolds /\ [Next]_vars => TypeOK' /\ UmountHolds'
  <2> SUFFICES ASSUME TypeOK, UmountHolds, [Next]_vars
               PROVE  TypeOK' /\ UmountHolds'
    OBVIOUS
  <2>0. overlap' \in BOOLEAN /\ race' \in BOOLEAN
    BY NotedTypes, Zenon
  <2>1. ASSUME NEW r \in Requests, MountReject(r) \/ MountBegin(r) \/ MountFail(r)
        PROVE  TypeOK' /\ UmountHolds'
    BY <2>0, <2>1 DEF MountReject, MountBegin, MountFail
  <2>2. ASSUME NEW r \in Requests, MountDone(r)
        PROVE  TypeOK' /\ UmountHolds'
    <3>1. table' \in Seq(Requests)
      BY <2>2, AppendElements DEF MountDone
    <3> QED
      BY <2>0, <2>2, <3>1 DEF MountDone
  <2>3. ASSUME NEW r \in Requests, MountLoad(r)
        PROVE  TypeOK' /\ UmountHolds'
    BY <2>0, <2>3 DEF MountLoad
  <2>4. ASSUME NEW r \in Requests, MountStore(r)
        PROVE  TypeOK' /\ UmountHolds'
    <3>1. mounts' \in Seq(Requests)
      BY <2>4, AppendElements DEF MountStore
    <3> QED
      BY <2>0, <2>4, <3>1 DEF MountStore
  <2>5. ASSUME NEW s \in Sweepers, SweepBegin(s) \/ SweepClear(s)
        PROVE  TypeOK' /\ UmountHolds'
    <3>1. Len(mounts) \in Nat
      OBVIOUS
    <3>2. CASE SweepBegin(s)
      BY <2>0, <3>1, <3>2 DEF SweepBegin
    <3>3. CASE SweepClear(s)
      BY <2>0, <3>3 DEF SweepClear
    <3> QED
      BY <2>5, <3>2, <3>3
  <2>6. ASSUME NEW s \in Sweepers, SweepRead(s)
        PROVE  TypeOK' /\ UmountHolds'
    <3>1. mounts[idx[s]] \in Requests
      BY <2>6 DEF SweepRead
    <3> QED
      BY <2>0, <2>6, <3>1 DEF SweepRead
  <2>7. ASSUME NEW s \in Sweepers, SweepUmount(s)
        PROVE  TypeOK' /\ UmountHolds'
    <3>1. idx[s] - 1 \in Nat /\ cur[s] \in Requests
      BY <2>7 DEF SweepUmount
    <3>2. table' \in Seq(Requests) /\ orphans' \in SUBSET Requests
      BY <2>7, RemoveAtElements DEF SweepUmount
    <3> QED
      BY <2>0, <2>7, <3>1, <3>2 DEF SweepUmount
  <2>8. ASSUME Crash
        PROVE  TypeOK' /\ UmountHolds'
    <3>1. Range(table) \in SUBSET Requests
      BY DEF Range
    <3> QED
      BY <2>0, <2>8, <3>1 DEF Crash, InFlight
  <2>9. CASE UNCHANGED vars
    BY <2>0, <2>9 DEF vars
  <2> QED
    BY <2>1, <2>2, <2>3, <2>4, <2>5, <2>6, <2>7, <2>8, <2>9
    DEF Next, MountStep, SweepStep, SweepPanic, TornRead
<1> QED
  BY <1>1, <1>2, PTL DEF Spec

(* The list, the kernel's table and every goroutine's locals are of their  *)
(* types; in particular no index of UnmountAll's loop goes below zero.     *)
THEOREM TypeCorrect == Spec => []TypeOK
<1>1. TypeOK /\ UmountHolds => TypeOK
  OBVIOUS
<1> QED
  BY <1>1, Types, PTL

-----------------------------------------------------------------------------
(* The list and every loaded copy of it hold each mount once, and only     *)
(* mounts whose call has returned in this process.                         *)
Real(q) ==
  /\ IsInjective(q)
  /\ \A r \in Range(q) : mntPc[r] = "tracked" /\ r \notin orphans

SnapsReal == \A r \in Requests : Real(snap[r])

(* A call that has yet to finish is not the maker of an orphan.            *)
PendingNotOrphan ==
  /\ \A r \in Requests : mntPc[r] \in {"idle", "mounting"} => r \notin Range(table)
  /\ \A r \in Requests : mntPc[r] \in {"idle"} \cup InFlight => r \notin orphans

RealInv == Real(mounts) /\ SnapsReal /\ PendingNotOrphan

LEMMA RealInvariant == Spec => []RealInv
<1> USE DEF RealInv, Real, SnapsReal, PendingNotOrphan, InFlight
<1>1. Init => RealInv
  BY DEF Init, IsInjective, Range
<1>2. TypeOK /\ RealInv /\ [Next]_vars => RealInv'
  <2> SUFFICES ASSUME TypeOK, RealInv, [Next]_vars PROVE RealInv'
    OBVIOUS
  <2> USE DEF TypeOK, MntPcs
  <2>0. /\ Range(mounts) \subseteq Requests
        /\ \A r \in Requests : Range(snap[r]) \subseteq Requests
    BY DEF Range
  <2>1. ASSUME NEW r \in Requests, MountReject(r) \/ MountBegin(r) \/ MountFail(r)
        PROVE  RealInv'
    <3>1. mntPc[r] \in {"idle", "mounting"}
      BY <2>1 DEF MountReject, MountBegin, MountFail
    <3>2. /\ mntPc' \in [Requests -> MntPcs]
          /\ \A q \in Requests : q # r => mntPc'[q] = mntPc[q]
          /\ mntPc'[r] \in {"failed", "mounting"}
          /\ UNCHANGED <<mounts, table, snap, orphans>>
      BY <2>1 DEF MountReject, MountBegin, MountFail
    <3> QED
      BY <2>0, <3>1, <3>2
  <2>2. ASSUME NEW r \in Requests, MountDone(r)
        PROVE  RealInv'
    <3>1. Range(table') = Range(table) \cup {r}
      BY <2>2, AppendElements DEF MountDone
    <3> QED
      BY <2>2, <3>1 DEF MountDone
  <2>3. ASSUME NEW r \in Requests, MountLoad(r)
        PROVE  RealInv'
    BY <2>3 DEF MountLoad
  <2>4. ASSUME NEW r \in Requests, MountStore(r)
        PROVE  RealInv'
    <3>1. r \notin Range(snap[r]) /\ r \notin orphans
      BY <2>4 DEF MountStore
    <3>2. Range(mounts') = Range(snap[r]) \cup {r}
      BY <2>4, AppendElements DEF MountStore
    <3>3. IsInjective(mounts')
      BY <2>4, <3>1, AppendElements DEF MountStore, IsInjective, Range
    <3>4. IsInjective(<<>>) /\ Range(<<>>) = {}
      BY DEF IsInjective, Range
    <3> QED
      BY <2>4, <3>1, <3>2, <3>3, <3>4 DEF MountStore
  <2>5. ASSUME NEW s \in Sweepers, SweepBegin(s) \/ SweepRead(s)
        PROVE  RealInv'
    BY <2>5 DEF SweepBegin, SweepRead
  <2>6. ASSUME NEW s \in Sweepers, SweepClear(s)
        PROVE  RealInv'
    <3>1. IsInjective(<<>>) /\ Range(<<>>) = {}
      BY DEF IsInjective, Range
    <3> QED
      BY <2>6, <3>1 DEF SweepClear
  <2>7. ASSUME NEW s \in Sweepers, SweepUmount(s)
        PROVE  RealInv'
    <3>1. orphans' \subseteq orphans
      BY <2>7 DEF SweepUmount
    <3>2. Range(table') \subseteq Range(table)
      BY <2>7, RemoveAtRange DEF SweepUmount
    <3> QED
      BY <2>7, <3>1, <3>2 DEF SweepUmount
  <2>8. ASSUME Crash
        PROVE  RealInv'
    <3>1. IsInjective(<<>>) /\ Range(<<>>) = {}
      BY DEF IsInjective, Range
    <3> QED
      BY <2>8, <3>1 DEF Crash
  <2>9. CASE UNCHANGED vars
    BY <2>9 DEF vars
  <2> QED
    BY <2>1, <2>2, <2>3, <2>4, <2>5, <2>6, <2>7, <2>8, <2>9
    DEF Next, MountStep, SweepStep, SweepPanic, TornRead
<1> QED
  BY <1>1, <1>2, TypeCorrect, PTL DEF Spec

(* Lost updates may shorten the list, but never add to it: umount is run   *)
(* only for mounts that mount(8) made for this process.                    *)
THEOREM RealMounts == Spec => []OnlyRealMounts
<1>1. RealInv => OnlyRealMounts
  BY DEF RealInv, Real, OnlyRealMounts
<1> QED
  BY <1>1, RealInvariant, PTL

-----------------------------------------------------------------------------
(* The kernel's table holds each mount once, whatever overlaps.            *)
TableUnique == IsInjective(table)

LEMMA TableOnce == Spec => []TableUnique
<1>1. Init => TableUnique
  BY DEF Init, TableUnique, IsInjective
<1>2. TypeOK /\ RealInv /\ TableUnique /\ [Next]_vars => TableUnique'
  <2> SUFFICES ASSUME TypeOK, RealInv, [Next]_vars, IsInjective(table)
               PROVE  IsInjective(table')
    BY DEF TableUnique
  <2> USE DEF TypeOK
  <2>1. ASSUME NEW r \in Requests, MountDone(r)
        PROVE  IsInjective(table')
    <3>1. r \notin Range(table)
      BY <2>1 DEF MountDone, RealInv, PendingNotOrphan
    <3> QED
      BY <2>1, <3>1, AppendElements DEF MountDone, IsInjective, Range
  <2>2. ASSUME NEW s \in Sweepers, SweepUmount(s)
        PROVE  IsInjective(table')
    <3>1. CASE UNCHANGED table
      BY <3>1
    <3>2. ASSUME NEW k \in DOMAIN table, table' = RemoveAt(table, k)
          PROVE  IsInjective(table')
      <4>1. \A i, j \in DOMAIN table' : \E a, b \in DOMAIN table :
              /\ table'[i] = table[a] /\ table'[j] = table[b]
              /\ a = b => i = j
        BY <3>2, RemoveAtPositions
      <4> QED
        BY <4>1 DEF IsInjective
    <3> QED
      BY <2>2, <3>1, <3>2 DEF SweepUmount
  <2>3. UNCHANGED table => IsInjective(table')
    OBVIOUS
  <2> QED
    BY <2>1, <2>2, <2>3
    DEF Next, MountStep, SweepStep, SweepPanic, TornRead, Crash, MountReject,
        MountBegin, MountFail, MountLoad, MountStore, SweepBegin, SweepRead,
        SweepClear, vars
<1> QED
  BY <1>1, <1>2, TypeCorrect, RealInvariant, PTL DEF Spec

-----------------------------------------------------------------------------
(* While no two uses of the list overlap, at most one is under way, what   *)
(* an append has loaded is current, and what a sweep is about to unmount   *)
(* is the list's entry at its index.  While no two calls overlap at all,   *)
(* at most one call is under way, and then no two uses overlap either.     *)
OneUse ==
  /\ \A r, q \in Requests : mntPc[r] = "loaded" /\ mntPc[q] = "loaded" => r = q
  /\ \A r \in Requests, s \in Sweepers : ~(mntPc[r] = "loaded" /\ swPc[s] \in Sweeping)
  /\ \A s, t \in Sweepers : swPc[s] \in Sweeping /\ swPc[t] \in Sweeping => s = t

Alone ==
  /\ \A r, q \in Requests : mntPc[r] \in InFlight /\ mntPc[q] \in InFlight => r = q
  /\ \A r \in Requests, s \in Sweepers : ~(mntPc[r] \in InFlight /\ swPc[s] \in Sweeping)
  /\ \A s, t \in Sweepers : swPc[s] \in Sweeping /\ swPc[t] \in Sweeping => s = t

LoadedCurrent == \A r \in Requests : mntPc[r] = "loaded" => snap[r] = mounts

CurListed ==
  \A s \in Sweepers : swPc[s] = "umount" =>
    idx[s] \in 1 .. Len(mounts) /\ cur[s] = mounts[idx[s]]

(* Only the end of the process takes back what was noted of it.            *)
LEMMA Noted ==
  ASSUME TypeOK, [Next]_vars, ~Crash
  PROVE  (~race' => ~race) /\ (~overlap' => ~overlap)
<1>0. overlap \in BOOLEAN /\ race \in BOOLEAN
  BY Zenon DEF TypeOK
<1> DEFINE Kept == (~race' => ~race) /\ (~overlap' => ~overlap)
<1>1. ASSUME NEW r \in Requests, MountStep(r)
      PROVE  Kept
  BY <1>0, <1>1 DEF MountStep, MountReject, MountBegin, MountFail, MountDone,
              MountLoad, MountStore, BeginCall, BeginUse
<1>2. ASSUME NEW s \in Sweepers, SweepStep(s)
      PROVE  Kept
  BY <1>0, <1>2 DEF SweepStep, SweepBegin, SweepRead, SweepUmount, SweepClear,
              BeginCall, BeginUse
<1>3. CASE UNCHANGED vars
  BY <1>0, <1>3 DEF vars
<1> QED
  BY <1>1, <1>2, <1>3 DEF Next, SweepPanic, TornRead

LEMMA OneUseInvariant == Spec => [](~race => OneUse)
<1> USE DEF OneUse, Sweeping
<1>1. Init => OneUse
  BY DEF Init
<1>2. ASSUME TypeOK, OneUse, [Next]_vars, ~race'
      PROVE  OneUse'
  <2> USE <1>2 DEF TypeOK, MntPcs, SwPcs
  <2>1. ASSUME NEW r \in Requests, MountStep(r)
        PROVE  OneUse'
    <3>1. CASE MountLoad(r)
      BY <3>1 DEF MountLoad, BeginUse, Unused
    <3>2. CASE MountReject(r) \/ MountBegin(r) \/ MountFail(r)
      BY <3>2 DEF MountReject, MountBegin, MountFail
    <3>3. CASE MountDone(r) \/ MountStore(r)
      BY <3>3 DEF MountDone, MountStore
    <3> QED
      BY <2>1, <3>1, <3>2, <3>3 DEF MountStep
  <2>2. ASSUME NEW s \in Sweepers, SweepStep(s)
        PROVE  OneUse'
    <3>1. CASE SweepBegin(s)
      BY <3>1 DEF SweepBegin, BeginUse, Unused
    <3>2. CASE SweepRead(s) \/ SweepUmount(s) \/ SweepClear(s)
      BY <3>2 DEF SweepRead, SweepUmount, SweepClear
    <3> QED
      BY <2>2, <3>1, <3>2 DEF SweepStep
  <2>3. ASSUME Crash PROVE OneUse'
    BY <2>3 DEF Crash
  <2>4. CASE UNCHANGED vars
    BY <2>4 DEF vars
  <2> QED
    BY <2>1, <2>2, <2>3, <2>4 DEF Next, SweepPanic, TornRead
<1>3. Crash => OneUse'
  BY DEF Crash, InFlight
<1>4. TypeOK /\ (~race => OneUse) /\ [Next]_vars => (~race => OneUse)'
  BY <1>2, <1>3, Noted
<1> QED
  BY <1>1, <1>4, TypeCorrect, PTL DEF Spec

LEMMA AloneInvariant == Spec => [](~overlap => Alone /\ ~race)
<1> USE DEF Alone, InFlight, Sweeping
<1>1. Init => Alone /\ ~race
  BY DEF Init
<1>2. ASSUME TypeOK, Alone, ~race, [Next]_vars, ~overlap'
      PROVE  Alone' /\ ~race'
  <2> USE <1>2 DEF TypeOK, MntPcs, SwPcs
  <2>1. ASSUME NEW r \in Requests, MountStep(r)
        PROVE  Alone' /\ ~race'
    <3>1. CASE MountBegin(r)
      BY <3>1 DEF MountBegin, BeginCall, Quiet
    <3>2. CASE MountReject(r) \/ MountFail(r)
      <4>1. ~race'
        BY <3>2, Zenon DEF MountReject, MountFail
      <4> QED
        BY <3>2, <4>1 DEF MountReject, MountFail
    <3>3. CASE MountDone(r) \/ MountStore(r)
      <4>1. ~race'
        BY <3>3, Zenon DEF MountDone, MountStore
      <4> QED
        BY <3>3, <4>1 DEF MountDone, MountStore
    <3>4. CASE MountLoad(r)
      <4>1. Unused
        BY <3>4 DEF MountLoad, Unused
      <4> QED
        BY <3>4, <4>1 DEF MountLoad, BeginUse
    <3> QED
      BY <2>1, <3>1, <3>2, <3>3, <3>4 DEF MountStep
  <2>2. ASSUME NEW s \in Sweepers, SweepStep(s)
        PROVE  Alone' /\ ~race'
    <3>1. CASE SweepBegin(s)
      <4>1. Quiet
        BY <3>1 DEF SweepBegin, BeginCall
      <4>2. Unused
        BY <4>1 DEF Quiet, Unused
      <4> QED
        BY <3>1, <4>1, <4>2 DEF SweepBegin, BeginUse, Quiet
    <3>2. CASE SweepRead(s) \/ SweepUmount(s) \/ SweepClear(s)
      <4>1. ~race'
        BY <3>2, Zenon DEF SweepRead, SweepUmount, SweepClear
      <4> QED
        BY <3>2, <4>1 DEF SweepRead, SweepUmount, SweepClear
    <3> QED
      BY <2>2, <3>1, <3>2 DEF SweepStep
  <2>3. ASSUME Crash PROVE Alone' /\ ~race'
    BY <2>3 DEF Crash
  <2>4. CASE UNCHANGED vars
    BY <2>4 DEF vars
  <2> QED
    BY <2>1, <2>2, <2>3, <2>4 DEF Next, SweepPanic, TornRead
<1>3. Crash => Alone' /\ ~race'
  BY DEF Crash
<1>4. TypeOK /\ (~overlap => Alone /\ ~race) /\ [Next]_vars
        => (~overlap => Alone /\ ~race)'
  BY <1>2, <1>3, Noted
<1> QED
  BY <1>1, <1>4, TypeCorrect, PTL DEF Spec

ListInv == LoadedCurrent /\ CurListed /\ LoopInList /\ Accounted

LEMMA ListInvariant == Spec => [](~race => ListInv)
<1> USE DEF ListInv, LoadedCurrent, CurListed, LoopInList, Accounted,
            InFlight, Sweeping
<1>1. Init => ListInv
  BY DEF Init
<1>2. TypeOK /\ TypeOK' /\ OneUse /\ OneUse' /\ TableUnique /\ ListInv /\ [Next]_vars
        => Crash \/ ListInv'
  <2> SUFFICES ASSUME TypeOK, TypeOK', OneUse, OneUse', TableUnique, ListInv,
                      [Next]_vars, ~Crash
               PROVE  ListInv'
    OBVIOUS
  <2> USE DEF TypeOK, MntPcs, SwPcs
  <2>1. ASSUME NEW r \in Requests, MountReject(r) \/ MountBegin(r) \/ MountFail(r)
        PROVE  ListInv'
    <3>1. mntPc[r] \in {"idle", "mounting"}
      BY <2>1 DEF MountReject, MountBegin, MountFail
    <3>2. /\ \A q \in Requests : q # r => mntPc'[q] = mntPc[q]
          /\ mntPc'[r] \in {"failed", "mounting"}
          /\ UNCHANGED <<mounts, table, snap, swPc, idx, cur, tried, orphans>>
      BY <2>1 DEF MountReject, MountBegin, MountFail
    <3>3. LoadedCurrent' /\ CurListed' /\ LoopInList'
      BY <3>1, <3>2
    <3>4. ASSUME NEW k \in DOMAIN table
          PROVE  \/ table[k] \in Range(mounts) \cup tried \cup orphans
                 \/ mntPc'[table[k]] \in {"mounted", "loaded"}
      <4>1. table[k] \in Requests
        OBVIOUS
      <4> QED
        BY <3>1, <3>2, <4>1
    <3> QED
      BY <3>2, <3>3, <3>4
  <2>2. ASSUME NEW r \in Requests, MountDone(r)
        PROVE  ListInv'
    <3>1. /\ DOMAIN table' = 1 .. Len(table) + 1
          /\ \A k \in 1 .. Len(table) : table'[k] = table[k]
          /\ table'[Len(table) + 1] = r
      BY <2>2, AppendElements DEF MountDone
    <3>2. Accounted'
      BY <2>2, <3>1 DEF MountDone
    <3> QED
      BY <2>2, <3>2 DEF MountDone
  <2>3. ASSUME NEW r \in Requests, MountLoad(r)
        PROVE  ListInv'
    <3>1. Accounted'
      BY <2>3 DEF MountLoad
    <3> QED
      BY <2>3, <3>1 DEF MountLoad
  <2>4. ASSUME NEW r \in Requests, MountStore(r)
        PROVE  ListInv'
    <3>1. \A s \in Sweepers : swPc'[s] \notin Sweeping
      BY <2>4 DEF MountStore, OneUse
    <3>2. \A q \in Requests : mntPc'[q] # "loaded"
      BY <2>4 DEF MountStore, OneUse
    <3>3. Range(mounts') = Range(mounts) \cup {r}
      BY <2>4, AppendElements DEF MountStore
    <3>4. Accounted'
      BY <2>4, <3>3 DEF MountStore
    <3> QED
      BY <3>1, <3>2, <3>4
  <2>5. ASSUME NEW s \in Sweepers, SweepBegin(s)
        PROVE  ListInv'
    <3>1. \A t \in Sweepers : t # s => swPc'[t] \notin Sweeping
      BY <2>5 DEF SweepBegin, OneUse
    <3>2. idx'[s] = Len(mounts) /\ swPc'[s] = "read" /\ mounts' = mounts
      BY <2>5 DEF SweepBegin
    <3>3. Accounted' /\ LoadedCurrent'
      BY <2>5 DEF SweepBegin
    <3> QED
      BY <3>1, <3>2, <3>3
  <2>6. ASSUME NEW s \in Sweepers, SweepRead(s)
        PROVE  ListInv'
    <3>1. Accounted' /\ LoadedCurrent' /\ LoopInList'
      BY <2>6 DEF SweepRead
    <3>2. CurListed'
      BY <2>6 DEF SweepRead
    <3> QED
      BY <3>1, <3>2
  <2>7. ASSUME NEW s \in Sweepers, SweepUmount(s)
        PROVE  ListInv'
    <3>1. \A t \in Sweepers : t # s => swPc'[t] \notin Sweeping
      BY <2>7 DEF SweepUmount, OneUse
    <3>2. /\ mounts' = mounts /\ mntPc' = mntPc /\ snap' = snap
          /\ idx'[s] = idx[s] - 1 /\ swPc'[s] = "read"
          /\ idx[s] \in 1 .. Len(mounts)
          /\ tried' = tried \cup {mounts[idx[s]]}
      BY <2>7 DEF SweepUmount
    <3>3. LoopInList'
      <4>1. idx'[s] <= Len(mounts')
        BY <3>2
      <4>2. ASSUME NEW i \in idx'[s] + 1 .. Len(mounts')
            PROVE  mounts'[i] \in tried'
        <5>1. i = idx[s] \/ i \in idx[s] + 1 .. Len(mounts)
          BY <3>2
        <5> QED
          BY <5>1, <3>2, <2>7 DEF SweepUmount
      <4> QED
        BY <3>1, <4>1, <4>2
    <3>4. LoadedCurrent' /\ CurListed'
      BY <3>1, <3>2
    <3>5. Accounted'
      <4>1. CASE UNCHANGED <<table, orphans>>
        BY <4>1, <3>2
      <4>2. ASSUME NEW k \in DOMAIN table, table' = RemoveAt(table, k),
                   orphans' = orphans \ {table[k]}
            PROVE  Accounted'
        <5>1. ASSUME NEW i \in DOMAIN table'
              PROVE  \/ table'[i] \in Range(mounts') \cup tried' \cup orphans'
                     \/ mntPc'[table'[i]] \in {"mounted", "loaded"}
          <6>1. PICK a \in DOMAIN table : table'[i] = table[a] /\ a # k
            BY <4>2, <5>1, RemoveAtPositions
          <6>2. table[a] # table[k]
            BY <6>1 DEF TableUnique, IsInjective
          <6> QED
            BY <3>2, <4>2, <6>1, <6>2
        <5> QED
          BY <5>1
      <4> QED
        BY <2>7, <4>1, <4>2 DEF SweepUmount
    <3> QED
      BY <3>3, <3>4, <3>5
  <2>8. ASSUME NEW s \in Sweepers, SweepClear(s)
        PROVE  ListInv'
    <3>1. \A t \in Sweepers : swPc'[t] \notin Sweeping
      BY <2>8 DEF SweepClear, OneUse
    <3>2. \A r \in Requests : mntPc'[r] # "loaded"
      BY <2>8 DEF SweepClear, OneUse
    <3>3. Range(mounts) \subseteq tried
      <4>1. \A i \in 1 .. Len(mounts) : mounts[i] \in tried
        BY <2>8 DEF SweepClear
      <4> QED
        BY <4>1 DEF Range
    <3>4. Accounted'
      BY <2>8, <3>3 DEF SweepClear
    <3> QED
      BY <3>1, <3>2, <3>4
  <2>9. CASE UNCHANGED vars
    BY <2>9 DEF vars
  <2> QED
    BY <2>1, <2>2, <2>3, <2>4, <2>5, <2>6, <2>7, <2>8, <2>9
    DEF Next, MountStep, SweepStep, SweepPanic, TornRead
<1>3. TypeOK /\ Crash => ListInv'
  <2>1. \A k \in DOMAIN table : table[k] \in Range(table)
    BY DEF Range
  <2> QED
    BY <2>1 DEF Crash
<1>4. /\ TypeOK /\ TypeOK' /\ (~race => OneUse) /\ (~race => OneUse)'
      /\ TableUnique /\ (~race => ListInv) /\ [Next]_vars
      => (~race => ListInv)'
  BY <1>2, <1>3, Noted
<1> QED
  BY <1>1, <1>4, TypeCorrect, OneUseInvariant, TableOnce, PTL DEF Spec

(* As long as no two goroutines use the list at once, and whatever mount   *)
(* commands overlap, a mount in the kernel's table is in the list, or its  *)
(* call is about to append it, or umount was run for it, or an earlier     *)
(* process left it.                                                        *)
THEOREM NothingForgotten == Spec => []NoForgottenMount
<1>1. (~race => ListInv) => NoForgottenMount
  BY DEF ListInv, NoForgottenMount
<1> QED
  BY <1>1, ListInvariant, PTL

(* ... and UnmountAll's loop neither panics nor skips a mount.             *)
THEOREM InBounds == Spec => []SweepInBounds
<1>1. (~race => ListInv) => SweepInBounds
  BY DEF ListInv, SweepInBounds
<1> QED
  BY <1>1, ListInvariant, PTL

-----------------------------------------------------------------------------
(* While no two calls overlap the list and the kernel agree on the order: of two  *)
(* listed mounts the earlier one is the older one, orphans are older than  *)
(* the mounts of this process, and the one not yet listed is the newest.   *)
SameOrder ==
  \A i, j \in DOMAIN mounts, a, b \in DOMAIN table :
    i < j /\ table[a] = mounts[i] /\ table[b] = mounts[j] => a < b

OrphansFirst ==
  \A a, b \in DOMAIN table : table[a] \in orphans /\ table[b] \notin orphans => a < b

NewestPending ==
  \A r \in Requests : mntPc[r] \in {"mounted", "loaded"} =>
    \A a \in DOMAIN table : table[a] = r <=> a = Len(table)

OrderInv == SameOrder /\ OrphansFirst /\ NewestPending

LEMMA OrderInvariant == Spec => [](~overlap => OrderInv)
<1> USE DEF OrderInv, SameOrder, OrphansFirst, NewestPending
<1>1. Init => OrderInv
  BY DEF Init
<1>2. TypeOK /\ RealInv /\ Alone /\ TableUnique /\ ListInv /\ OrderInv /\ [Next]_vars
        => Crash \/ OrderInv'
  <2> SUFFICES ASSUME TypeOK, RealInv, Alone, TableUnique, ListInv, OrderInv,
                      [Next]_vars, ~Crash
               PROVE  OrderInv'
    OBVIOUS
  <2> USE DEF TypeOK
  <2>1. ASSUME NEW r \in Requests, MountReject(r) \/ MountBegin(r) \/ MountFail(r)
        PROVE  OrderInv'
    <3>1. /\ \A q \in Requests : q # r => mntPc'[q] = mntPc[q]
          /\ mntPc'[r] \in {"failed", "mounting"}
          /\ UNCHANGED <<mounts, table, orphans>>
      BY <2>1 DEF MountReject, MountBegin, MountFail
    <3> QED
      BY <3>1
  <2>2. ASSUME NEW r \in Requests, MountDone(r)
        PROVE  OrderInv'
    <3>1. /\ DOMAIN table' = 1 .. Len(table) + 1
          /\ Len(table') = Len(table) + 1
          /\ \A k \in 1 .. Len(table) : table'[k] = table[k]
          /\ table'[Len(table) + 1] = r
      BY <2>2, AppendElements DEF MountDone
    <3>2. /\ DOMAIN table = 1 .. Len(table) /\ Len(table) \in Nat
          /\ \A k \in DOMAIN table : table[k] # r
      BY <2>2 DEF MountDone, RealInv, PendingNotOrphan, Range
    <3>3. r \notin orphans /\ \A i \in DOMAIN mounts : mounts[i] # r
      BY <2>2 DEF MountDone, RealInv, Real, PendingNotOrphan, InFlight, Range
    <3>4. UNCHANGED <<mounts, orphans>>
      BY <2>2 DEF MountDone
    <3>5. SameOrder'
      <4> SUFFICES ASSUME NEW i \in DOMAIN mounts, NEW j \in DOMAIN mounts,
                          NEW a \in 1 .. Len(table) + 1, NEW b \in 1 .. Len(table) + 1,
                          i < j, table'[a] = mounts[i], table'[b] = mounts[j]
                   PROVE  a < b
        BY <3>4, <3>1
      <4> HIDE DEF TypeOK, OrderInv, SameOrder, OrphansFirst, NewestPending
      <4>1. a # Len(table) + 1 /\ b # Len(table) + 1
        BY <3>1, <3>3
      <4>2. a \in 1 .. Len(table) /\ b \in 1 .. Len(table)
        BY <3>2, <4>1
      <4>3. a \in DOMAIN table /\ b \in DOMAIN table
        BY <3>2, <4>2
      <4>4. table[a] = mounts[i] /\ table[b] = mounts[j]
        BY <3>1, <4>2
      <4> QED
        BY <4>3, <4>4 DEF OrderInv, SameOrder
    <3>6. OrphansFirst'
      <4> SUFFICES ASSUME NEW a \in 1 .. Len(table) + 1, NEW b \in 1 .. Len(table) + 1,
                          table'[a] \in orphans, table'[b] \notin orphans
                   PROVE  a < b
        BY <3>4, <3>1
      <4> HIDE DEF TypeOK, OrderInv, SameOrder, OrphansFirst, NewestPending
      <4>1. a \in DOMAIN table /\ table[a] \in orphans
        <5>1. a # Len(table) + 1
          BY <3>1, <3>3
        <5>2. a \in 1 .. Len(table)
          BY <3>2, <5>1
        <5> QED
          BY <3>1, <3>2, <5>2
      <4>2. CASE b = Len(table) + 1
        BY <3>2, <4>1, <4>2
      <4>3. CASE b # Len(table) + 1
        <5>1. b \in DOMAIN table /\ table[b] \notin orphans
          BY <3>1, <3>2, <4>3
        <5> QED
          BY <4>1, <5>1 DEF OrderInv, OrphansFirst
      <4> QED
        BY <4>2, <4>3
    <3>7. NewestPending'
      <4> SUFFICES ASSUME NEW q \in Requests, mntPc'[q] \in {"mounted", "loaded"}
                   PROVE  \A a \in DOMAIN table' : table'[a] = q <=> a = Len(table')
        OBVIOUS
      <4>1. q = r
        BY <2>2 DEF MountDone, Alone, InFlight
      <4>2. ASSUME NEW a \in 1 .. Len(table) + 1
            PROVE  table'[a] = r <=> a = Len(table) + 1
        <5>1. CASE a = Len(table) + 1
          BY <3>1, <5>1
        <5>2. CASE a # Len(table) + 1
          <6>1. a \in 1 .. Len(table)
            BY <5>2
          <6>2. table'[a] = table[a] /\ a \in DOMAIN table
            BY <3>1, <3>2, <6>1
          <6> QED
            BY <3>2, <5>2, <6>2
        <5> QED
          BY <5>1, <5>2
      <4> QED
        BY <3>1, <4>1, <4>2
    <3> QED
      BY <3>5, <3>6, <3>7
  <2>3. ASSUME NEW r \in Requests, MountLoad(r)
        PROVE  OrderInv'
    <3>1. /\ mntPc[r] = "mounted" /\ mntPc'[r] = "loaded"
          /\ \A q \in Requests : q # r => mntPc'[q] = mntPc[q]
          /\ UNCHANGED <<mounts, table, orphans>>
      BY <2>3 DEF MountLoad
    <3> QED
      BY <3>1
  <2>4. ASSUME NEW r \in Requests, MountStore(r)
        PROVE  OrderInv'
    <3>1. /\ mntPc[r] = "loaded" /\ mntPc'[r] = "tracked"
          /\ \A q \in Requests : q # r => mntPc'[q] = mntPc[q]
          /\ UNCHANGED <<table, orphans>>
          /\ mounts' = Append(mounts, r)
      BY <2>4 DEF MountStore, ListInv, LoadedCurrent
    <3>2. /\ DOMAIN mounts' = 1 .. Len(mounts) + 1
          /\ \A k \in 1 .. Len(mounts) : mounts'[k] = mounts[k]
          /\ mounts'[Len(mounts) + 1] = r
          /\ DOMAIN mounts = 1 .. Len(mounts) /\ Len(mounts) \in Nat
      BY <3>1, AppendElements
    <3>3. \A k \in DOMAIN mounts : mounts[k] # r
      BY <3>1 DEF RealInv, Real, Range
    <3>4. SameOrder'
      <4> SUFFICES ASSUME NEW i \in 1 .. Len(mounts) + 1, NEW j \in 1 .. Len(mounts) + 1,
                          NEW a \in DOMAIN table, NEW b \in DOMAIN table,
                          i < j, table[a] = mounts'[i], table[b] = mounts'[j]
                   PROVE  a < b
        BY <3>1, <3>2
      <4>1. i \in DOMAIN mounts /\ table[a] = mounts[i]
        BY <3>2
      <4>2. CASE j = Len(mounts) + 1
        <5>1. b = Len(table) /\ a # Len(table)
          BY <3>1, <3>2, <3>3, <4>1, <4>2
        <5>2. a \in 1 .. Len(table) /\ Len(table) \in Nat
          OBVIOUS
        <5> QED
          BY <5>1, <5>2
      <4>3. CASE j # Len(mounts) + 1
        <5>1. j \in 1 .. Len(mounts)
          BY <4>3
        <5>2. j \in DOMAIN mounts /\ table[b] = mounts[j]
          BY <3>2, <5>1
        <5> QED
          BY <4>1, <5>2
      <4> QED
        BY <4>2, <4>3
    <3> QED
      BY <3>1, <3>4
  <2>5. ASSUME NEW s \in Sweepers, SweepBegin(s) \/ SweepRead(s)
        PROVE  OrderInv'
    <3>1. UNCHANGED <<mounts, table, mntPc, orphans>>
      BY <2>5 DEF SweepBegin, SweepRead
    <3> QED
      BY <3>1
  <2>6. ASSUME NEW s \in Sweepers, SweepUmount(s)
        PROVE  OrderInv'
    <3>1. mntPc' = mntPc /\ mounts' = mounts
      BY <2>6 DEF SweepUmount
    <3>2. NewestPending'
      BY <2>6, <3>1 DEF SweepUmount, Alone, InFlight, Sweeping
    <3>3. CASE UNCHANGED <<table, orphans>>
      BY <3>1, <3>3
    <3>4. ASSUME NEW k \in DOMAIN table, table' = RemoveAt(table, k),
                 orphans' = orphans \ {table[k]}
          PROVE  OrderInv'
      <4>1. \A i, j \in DOMAIN table' : \E a, b \in DOMAIN table :
              /\ table'[i] = table[a] /\ table'[j] = table[b]
              /\ a # k /\ b # k
              /\ i < j <=> a < b
        BY <3>4, RemoveAtPositions
      <4>2. \A a \in DOMAIN table : a # k => table[a] # table[k]
        BY DEF TableUnique, IsInjective
      <4>3. SameOrder'
        BY <3>1, <4>1
      <4>4. OrphansFirst'
        BY <3>4, <4>1, <4>2
      <4> QED
        BY <3>2, <4>3, <4>4
    <3> QED
      BY <2>6, <3>3, <3>4 DEF SweepUmount
  <2>7. ASSUME NEW s \in Sweepers, SweepClear(s)
        PROVE  OrderInv'
    <3>1. DOMAIN mounts' = {} /\ UNCHANGED <<table, mntPc, orphans>>
      BY <2>7 DEF SweepClear
    <3> QED
      BY <3>1
  <2>8. CASE UNCHANGED vars
    BY <2>8 DEF vars
  <2> QED
    BY <2>1, <2>2, <2>3, <2>4, <2>5, <2>6, <2>7, <2>8
    DEF Next, MountStep, SweepStep, SweepPanic, TornRead
<1>3. TypeOK /\ Crash => OrderInv'
  <2> SUFFICES ASSUME TypeOK, Crash PROVE OrderInv'
    OBVIOUS
  <2>1. DOMAIN mounts' = {} /\ table' = table /\ orphans' = Range(table)
    BY DEF Crash
  <2>2. \A r \in Requests : mntPc'[r] \notin {"mounted", "loaded"}
    BY DEF Crash, InFlight
  <2> QED
    BY <2>1, <2>2 DEF Range
<1>4. /\ TypeOK /\ RealInv /\ TableUnique /\ (~overlap => Alone /\ ~race)
      /\ (~race => ListInv) /\ (~overlap => OrderInv) /\ [Next]_vars
      => (~overlap => OrderInv)'
  BY <1>2, <1>3, Noted
<1> QED
  BY <1>1, <1>4, TypeCorrect, RealInvariant, AloneInvariant, TableOnce,
     ListInvariant, PTL DEF Spec

(* ... and umount is run for a mount only after it was run for every later *)
(* one at its path, inside it or around it: UnmountAll is last in, first   *)
(* out with respect to the kernel, not only to its list.                   *)
THEOREM LastInFirstOut == Spec => []NestedFirst
<1>1. TypeOK /\ RealInv /\ Alone /\ TableUnique /\ ListInv /\ OrderInv => NestedFirst
  <2> SUFFICES ASSUME TypeOK, RealInv, Alone, TableUnique, ListInv, OrderInv,
                      NEW s \in Sweepers, swPc[s] = "umount",
                      NEW j \in DOMAIN table, NEW k \in DOMAIN table,
                      j < k, table[j] = cur[s]
               PROVE  table[k] \in tried
    BY DEF NestedFirst
  <2>1. /\ idx[s] \in 1 .. Len(mounts)
        /\ table[j] = mounts[idx[s]]
    BY DEF ListInv, CurListed
  <2>2. DOMAIN mounts = 1 .. Len(mounts) /\ table[k] \in Requests
        /\ j \in Nat /\ k \in Nat
    BY DEF TypeOK
  <2>3. mntPc[table[k]] \notin {"mounted", "loaded"}
    BY <2>2 DEF Alone, InFlight, Sweeping
  <2>4. table[j] \notin orphans
    BY <2>1, <2>2 DEF RealInv, Real, Range
  <2>5. table[k] \notin orphans
    BY <2>2, <2>4 DEF OrderInv, OrphansFirst
  <2>6. CASE table[k] \in Range(mounts)
    <3>1. PICK i \in DOMAIN mounts : table[k] = mounts[i]
      BY <2>6 DEF Range
    <3>2. ~(i < idx[s])
      BY <2>1, <2>2, <3>1 DEF OrderInv, SameOrder
    <3>3. i # idx[s]
      BY <2>1, <2>2, <3>1 DEF TableUnique, IsInjective
    <3>4. i \in idx[s] + 1 .. Len(mounts)
      BY <2>1, <2>2, <3>2, <3>3
    <3> QED
      BY <3>1, <3>4 DEF ListInv, LoopInList, Sweeping
  <2> QED
    BY <2>3, <2>5, <2>6 DEF ListInv, Accounted
<1>2. overlap => NestedFirst
  BY DEF NestedFirst
<1> QED
  BY <1>1, <1>2, TypeCorrect, RealInvariant, AloneInvariant, TableOnce, ListInvariant,
     OrderInvariant, PTL

=============================================================================
