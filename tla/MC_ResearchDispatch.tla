------------------------- MODULE MC_ResearchDispatch -------------------------
(* Instances of ResearchDispatch for TLC. *)
EXTENDS ResearchDispatch

CONSTANTS d1, d2, c1, c2, daily, operator, weekly, evidence

SafetyOrder == <<daily, operator>>
SafetyKind == (daily :> "DAILY_AGGREGATION") @@ (operator :> "OPERATOR_DEEP_RESEARCH")

ReuseOrder == <<weekly, evidence>>
ReuseKind == (weekly :> "WEEKLY_DEEP_RESEARCH")
          @@ (evidence :> "EVIDENCE_TRIGGERED_RESEARCH")

ProcessSymmetry == Permutations(Dispatchers) \cup Permutations(Consumers)
=============================================================================
