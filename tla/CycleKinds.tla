----------------------------- MODULE CycleKinds -----------------------------
(***************************************************************************)
(* The kinds of Q1 runtime cycle, the order in which the store offers due  *)
(* cycles to a worker, and the kinds that are never skipped.               *)
(***************************************************************************)
EXTENDS Integers

\* CYCLE_PRIORITY, restricted to the kinds the Q1 worker asks for.
CyclePriority ==
  [Q1_SETTLEMENT |-> 0, Q1_BOOTSTRAP |-> 1, Q1_NAV_RISK |-> 2,
   Q1_STRATEGIC |-> 3, Q1_LLM_REVIEW |-> 4, Q1_EXECUTION |-> 5,
   Q1_DAILY_RESULT |-> 6]

CycleKind == DOMAIN CyclePriority

\* RETRYABLE_KINDS: cycles of these kinds have no missed window.
RetryableKinds == {"Q1_BOOTSTRAP", "Q1_DAILY_RESULT"}

\* Status values that no operation of the store leaves again.
TerminalStatus == {"COMPLETED", "FAILED", "SKIPPED_MISSED_WINDOW"}
CycleStatus == {"PENDING", "RUNNING"} \cup TerminalStatus

\* The ORDER BY of claim_next: scheduled_at, then priority (distinct for
\* distinct Q1 kinds, so the third key, the kind, never decides).
Precedes(schedA, kindA, schedB, kindB) ==
  \/ schedA < schedB
  \/ schedA = schedB /\ CyclePriority[kindA] < CyclePriority[kindB]
=============================================================================
