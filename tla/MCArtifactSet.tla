--------------------------- MODULE MCArtifactSet ----------------------------
(* Instances of ArtifactSet: contents of different sizes, which are only compared, *)
(* so contents are as symmetric as outputs.                                        *)
EXTENDS ArtifactSet, FiniteSets, TLC

Sizes == CHOOSE f \in [Contents -> 1 .. Cardinality(Contents)] :
           \A c, d \in Contents : f[c] = f[d] => c = d

Symmetry == Permutations(Outputs) \cup Permutations(Contents)
=============================================================================
