--------------------------- MODULE MC_Challengers ---------------------------
(* Two Challengers of one experiment family, judged by different contracts. *)
EXTENDS Challengers

CONSTANTS c1, c2, h1, h2

OneFamily == [c \in Challenger |-> "family"]
BothContracts == (c1 :> "V1") @@ (c2 :> "V2")
HostSymmetry == Permutations(Host) \cup Permutations(Key)
=============================================================================
