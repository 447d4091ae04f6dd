---------------------------- MODULE MCControlServer ----------------------------
(* Two lines from a client that reads its answers, and one from a client   *)
(* that may not, and whose mount may not end.                              *)
EXTENDS ControlServer

CONSTANTS c1, c2

M(t) == [type |-> t, payload |-> TRUE]
Bare(t) == [type |-> t, payload |-> FALSE]

SaysWhat   == [c \in Conns |-> IF c = c1 THEN {M("set_config"), M("long")}
                                ELSE {M("set_config"), M("blank"), M("mount")}]
LinesSent  == [c \in Conns |-> IF c = c1 THEN 2 ELSE 1]
Remains    == {<<c1, c1, c1>>}
ContentOf  == [c \in Conns |-> IF c = c1 THEN <<c1, c1>> ELSE <<c2>>]

=============================================================================
