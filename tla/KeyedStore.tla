------------------------------ MODULE KeyedStore ------------------------------
(***************************************************************************)
(* What "atomic writes" (README.md:67 and 79) promise of the secrets and   *)
(* of the authorized_keys files: a call stores its whole value under its   *)
(* key in one step, or nothing at all.  Whoever reads the store finds the  *)
(* value of a call that returns no error, or nothing.                      *)
(***************************************************************************)
CONSTANTS
  Calls,
  Keys,
  KeyOf,    \* the key of each call
  Value,    \* what each call stores
  None

VARIABLES
  stored,   \* each key's value, or None
  result    \* of each call: "pending", "ok" or "failed"

Init ==
  /\ stored = [k \in Keys |-> None]
  /\ result = [c \in Calls |-> "pending"]

Put(c) ==
  /\ result[c] = "pending"
  /\ KeyOf[c] \in Keys
  /\ stored' = [stored EXCEPT ![KeyOf[c]] = Value[c]]
  /\ result' = [result EXCEPT ![c] = "ok"]

(* One call fails, or those under way are lost with the process.           *)
GiveUp ==
  /\ \E S \in SUBSET {c \in Calls : result[c] = "pending"} :
       result' = [c \in Calls |-> IF c \in S THEN "failed" ELSE result[c]]
  /\ UNCHANGED stored

Delete(k) ==
  /\ stored' = [stored EXCEPT ![k] = None]
  /\ UNCHANGED result

Next ==
  \/ \E c \in Calls : Put(c)
  \/ \E k \in Keys : Delete(k)
  \/ GiveUp

Spec == Init /\ [][Next]_<<stored, result>>

=============================================================================
