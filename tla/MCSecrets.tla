------------------------------ MODULE MCSecrets -------------------------------
(* Three calls for one secret, of different lengths and modes, and two     *)
(* for another secret, and one with a bad name.                            *)
EXTENDS Secrets

CONSTANTS k1, k2, k3, t1, t2, bad

FileNames == {"key", "key.tmp", "cert", "cert.tmp"}
TmpNames  == {"key.tmp", "cert.tmp"}
TwoSecrets == {"key", "cert"}
TmpOfNames == [s \in TwoSecrets |-> IF s = "key" THEN "key.tmp" ELSE "cert.tmp"]

NameOfCalls ==
  [c \in Calls |-> IF c \in {k1, k2, k3} THEN "key" ELSE IF c = bad THEN None ELSE "cert"]
ValueOfCalls ==
  [c \in Calls |-> IF c = k1 THEN <<>> ELSE IF c = k2 THEN <<c, c>> ELSE <<c>>]
ModeOfCalls == [c \in Calls |-> IF c = k2 THEN "0640" ELSE "0600"]

=============================================================================
