------------------------------ MODULE MCUpload ------------------------------
(* Small instances of Upload: two uploads, of two parts and of one,
   that compete for one version. *)
EXTENDS UploadInv, TLC

CONSTANTS u1, u2, v1

MCVersionOf == [u \in Uploads |-> v1]
MCSize == u1 :> 3 @@ u2 :> 2
Symmetry == Permutations(Procs) \cup Permutations(Tags)
============================================================================
