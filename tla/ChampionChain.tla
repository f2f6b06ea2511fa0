---------------------------- MODULE ChampionChain ----------------------------
(***************************************************************************)
(* What Champion designation promises: one line of succession.  Every      *)
(* designation replaces the version that was Champion when it happened, no *)
(* version is designated twice, and nothing is ever taken back.            *)
(***************************************************************************)
EXTENDS Sequences, SequencesExt

CONSTANT Version
VARIABLE line    \* the designations so far: who replaced whom

Init == line = << >>

Succeed(old, new) ==
  /\ old # new
  /\ \A d \in ToSet(line) : new \notin {d.old, d.new}
  /\ line # << >> => Last(line).new = old
  /\ line' = Append(line, [old |-> old, new |-> new])

Next == \E old, new \in Version : Succeed(old, new)

Spec == Init /\ [][Next]_line
=============================================================================
