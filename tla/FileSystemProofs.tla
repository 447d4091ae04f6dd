--------------------------- MODULE FileSystemProofs ---------------------------
(***************************************************************************)
(* What each system call of module FileSystem leaves of the directory and  *)
(* of the files, for any names and inodes, for data over any set D and for *)
(* attributes in any set A.                                                *)
(***************************************************************************)
EXTENDS FileSystem, TLAPS

FSTyped(D, A) ==
  /\ dir \in [Names -> Inodes \cup {None}]
  /\ file \in [Inodes -> [data : Seq(D), attr : A]]

LEMMA Overwrite ==
  ASSUME NEW D, NEW d \in Seq(D), NEW q \in Seq(D)
  PROVE  /\ d \o SubSeq(q, Len(d) + 1, Len(q)) \in Seq(D)
         /\ q = <<>> => d \o SubSeq(q, Len(d) + 1, Len(q)) = d
<1>1. SubSeq(q, Len(d) + 1, Len(q)) \in Seq(D)
  OBVIOUS
<1>2. ASSUME q = <<>>
      PROVE  SubSeq(q, Len(d) + 1, Len(q)) = <<>>
  BY <1>2
<1>3. d \o <<>> = d
  OBVIOUS
<1> QED
  BY <1>1, <1>2, <1>3

LEMMA PrefixIsSeq ==
  ASSUME NEW D, NEW d \in Seq(D), NEW k \in 0 .. Len(d) - 1
  PROVE  SubSeq(d, 1, k) \in Seq(D)
OBVIOUS

LEMMA SeqMonotone ==
  ASSUME NEW D, NEW E, D \subseteq E, NEW d \in Seq(D)
  PROVE  d \in Seq(E)
OBVIOUS

LEMMA OpenTruncLeaves ==
  ASSUME NEW D, NEW A, FSTyped(D, A), None \notin Inodes,
         NEW n \in Names, NEW i \in Inodes, NEW a \in A, OpenTrunc(n, i, a)
  PROVE  /\ FSTyped(D, A)'
         /\ Opened(n, i) \in Inodes
         /\ dir' = [dir EXCEPT ![n] = Opened(n, i)]
         /\ file'[Opened(n, i)].data = <<>>
         /\ \A j \in Inodes \ {Opened(n, i)} : file'[j] = file[j]
<1>1. <<>> \in Seq(D)
  OBVIOUS
<1>2. CASE ~Exists(n)
  <2>1. /\ dir' = [dir EXCEPT ![n] = i]
        /\ file' = [file EXCEPT ![i] = [data |-> <<>>, attr |-> a]]
        /\ Opened(n, i) = i
    BY <1>2 DEF OpenTrunc, Opened
  <2> QED
    BY <1>1, <2>1 DEF FSTyped
<1>3. CASE Exists(n)
  <2>1. /\ dir' = dir
        /\ file' = [file EXCEPT ![dir[n]].data = <<>>]
        /\ Opened(n, i) = dir[n]
        /\ dir[n] \in Inodes
    BY <1>3 DEF OpenTrunc, Opened, Exists, FSTyped
  <2>2. file' \in [Inodes -> [data : Seq(D), attr : A]]
    <3>1. file[dir[n]] \in [data : Seq(D), attr : A]
      BY <2>1 DEF FSTyped
    <3>2. [file[dir[n]] EXCEPT !.data = <<>>] \in [data : Seq(D), attr : A]
      BY <1>1, <3>1
    <3> QED
      BY <2>1, <3>2 DEF FSTyped
  <2> QED
    BY <2>1, <2>2 DEF FSTyped
<1> QED
  BY <1>2, <1>3

LEMMA WriteLeaves ==
  ASSUME NEW D, NEW A, FSTyped(D, A), NEW i \in Inodes, NEW d \in Seq(D), Write(i, d)
  PROVE  /\ FSTyped(D, A)'
         /\ dir' = dir
         /\ file[i].data = <<>> => file'[i].data = d
         /\ file'[i].attr = file[i].attr
         /\ \A j \in Inodes \ {i} : file'[j] = file[j]
<1>1. file' = [file EXCEPT ![i].data = d \o SubSeq(file[i].data, Len(d) + 1, Len(file[i].data))]
  BY DEF Write
<1>2. file[i].data \in Seq(D) /\ file[i] \in [data : Seq(D), attr : A]
  BY DEF FSTyped
<1>3. d \o SubSeq(file[i].data, Len(d) + 1, Len(file[i].data)) \in Seq(D)
  BY <1>2, Overwrite
<1>4. file[i].data = <<>> => file'[i].data = d
  BY <1>1, <1>2, Overwrite DEF FSTyped
<1> QED
  BY <1>1, <1>2, <1>3, <1>4 DEF FSTyped, Write

(* The parts of a file that was written come from what was written and     *)
(* from what was there.                                                    *)
LEMMA WritePartsOf ==
  ASSUME NEW D, NEW A, FSTyped(D, A), NEW i \in Inodes, NEW E,
         NEW d \in Seq(E), file[i].data \in Seq(E), Write(i, d)
  PROVE  file'[i].data \in Seq(E)
<1>1. file' = [file EXCEPT ![i].data = d \o SubSeq(file[i].data, Len(d) + 1, Len(file[i].data))]
  BY DEF Write
<1> QED
  BY <1>1, Overwrite DEF FSTyped

LEMMA ChownLeaves ==
  ASSUME NEW D, NEW A, FSTyped(D, A), NEW n \in Names, NEW a \in A, Chown(n, a)
  PROVE  /\ FSTyped(D, A)'
         /\ dir' = dir
         /\ dir[n] \in Inodes
         /\ file'[dir[n]].data = file[dir[n]].data
         /\ file'[dir[n]].attr = a
         /\ \A j \in Inodes \ {dir[n]} : file'[j] = file[j]
<1>1. dir' = dir /\ dir[n] \in Inodes /\ file' = [file EXCEPT ![dir[n]].attr = a]
  BY DEF Chown, Exists, FSTyped
<1>2. file[dir[n]] \in [data : Seq(D), attr : A]
  BY <1>1 DEF FSTyped
<1>3. [file[dir[n]] EXCEPT !.attr = a] \in [data : Seq(D), attr : A]
  BY <1>2
<1> QED
  BY <1>1, <1>2, <1>3 DEF FSTyped

LEMMA RenameLeaves ==
  ASSUME NEW D, NEW A, FSTyped(D, A), NEW m \in Names, NEW n \in Names, Rename(m, n)
  PROVE  /\ FSTyped(D, A)'
         /\ file' = file
         /\ dir[m] \in Inodes
         /\ dir' = [dir EXCEPT ![m] = None, ![n] = dir[m]]
BY DEF FSTyped, Rename, Exists

LEMMA RemoveLeaves ==
  ASSUME NEW D, NEW A, FSTyped(D, A), NEW n \in Names, Remove(n)
  PROVE  /\ FSTyped(D, A)'
         /\ file' = file
         /\ dir' = [dir EXCEPT ![n] = None]
BY DEF FSTyped, Remove

=============================================================================
