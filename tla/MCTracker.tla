------------------------------ MODULE MCTracker ------------------------------
(***************************************************************************)
(* Two contracts for ContractCallTracker; the map of A has a gap, and so   *)
(* has the default map.                                                    *)
(***************************************************************************)
EXTENDS ContractCallTracker, TLC

MCIndex == {0, 1}
MCPlace == {"a0", "b0", "b1", "s0", "line1", "line2"}
MCMaps == [c \in {"A", "B"} |->
             IF c = "A" THEN (0 :> "a0" @@ 1 :> None) ELSE (0 :> "b0" @@ 1 :> "b1")]
MCDefaultMap == 0 :> "s0" @@ 1 :> None
MCLineOfIndex == 0 :> "line1" @@ 1 :> "line2"
==============================================================================
