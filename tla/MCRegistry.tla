----------------------------- MODULE MCRegistry -----------------------------
(* Two processes that take turns under one name. *)
EXTENDS WorkerRegistry, TLC

CONSTANTS a1, a2, w1

OneName == [a \in {a1, a2} |-> w1]
=============================================================================
