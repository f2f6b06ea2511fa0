------------------------------ MODULE CycleOnce ------------------------------
(***************************************************************************)
(* What the lease protocol promises to the cycle handlers: a cycle is      *)
(* applied at most once, by one claim, and a dropped cycle never is.       *)
(***************************************************************************)
EXTENDS Naturals

CONSTANTS Cycles

VARIABLES
  outcome,  \* outcome[c]: "open", "applied" or "dropped"
  effects   \* effects[c]: how often its writes were committed

Init ==
  /\ outcome = [c \in Cycles |-> "open"]
  /\ effects = [c \in Cycles |-> 0]

Apply(c) ==
  /\ outcome[c] = "open"
  /\ outcome' = [outcome EXCEPT ![c] = "applied"]
  /\ effects' = [effects EXCEPT ![c] = @ + 1]

Drop(c) ==
  /\ outcome[c] = "open"
  /\ outcome' = [outcome EXCEPT ![c] = "dropped"]
  /\ UNCHANGED effects

Next == \E c \in Cycles : Apply(c) \/ Drop(c)

Spec == Init /\ [][Next]_<<outcome, effects>>
=============================================================================
