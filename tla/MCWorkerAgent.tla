--------------------------- MODULE MCWorkerAgent ----------------------------
(***************************************************************************)
(* WorkerAgent with the code's defaults, in ticks of seven seconds: the    *)
(* lease of a minute is 9. The call timeout of two minutes is shortened to *)
(* the lease, which a call sent after the last renewal still outlasts.     *)
(***************************************************************************)
EXTENDS WorkerAgent

\* One, two, four, eight and sixteen seconds, rounded to ticks.
DefaultBackoff == <<0, 0, 1, 1, 2>>
=============================================================================
