--------------------------- MODULE MC_PaperCycles ---------------------------
(***************************************************************************)
(* Two threads of one process (one owner string) and a worker of another   *)
(* process, a retryable cycle and one that has a window.                   *)
(***************************************************************************)
EXTENDS PaperCycles, TLC

CONSTANTS boot, nav, t1, t2, other

MCCycles == {boot, nav}
MCKind == boot :> "Q1_BOOTSTRAP" @@ nav :> "Q1_NAV_RISK"
MCSched == boot :> 0 @@ nav :> 1
MCOwnerOf == [w \in Workers |-> IF w = other THEN "hostB:7" ELSE "hostA:7"]
MCGrace == [k \in CycleKind |-> 2]
=============================================================================
