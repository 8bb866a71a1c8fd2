--------------------------- MODULE MCControlPlane ---------------------------
(* Two instances of the new release and one of the old one; three retries of  *)
(* one request, and one without a key.                                        *)
EXTENDS ControlPlane, TLC

CONSTANTS r1, r2, r3, r4, k1

MCInstances == {"old", "new1", "new2"}
MCKnown == "old" :> 2 @@ "new1" :> 3 @@ "new2" :> 3
Keys4 == r1 :> k1 @@ r2 :> k1 @@ r3 :> k1 @@ r4 :> NoKey
=============================================================================
