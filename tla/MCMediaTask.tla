---------------------------- MODULE MCMediaTask ----------------------------
(* Every executor, with trouble of every kind. *)
EXTENDS MediaTask, TLC

Trouble == "storage" :> 2 @@ "host" :> 1 @@ "stop" :> 1
============================================================================
