--------------------------- MODULE MCGrowingFile ---------------------------
(* Frame rates for GrowingFile: whole ones and those of NTSC. *)
EXTENDS GrowingFile

FrameRates == {<<24, 1>>, <<25, 1>>, <<30, 1>>, <<60, 1>>,
               <<24000, 1001>>, <<30000, 1001>>, <<60000, 1001>>}
============================================================================
