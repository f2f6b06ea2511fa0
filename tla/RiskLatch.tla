----------------------------- MODULE RiskLatch -----------------------------
(***************************************************************************)
(* The risk episode of one arm holding one risky symbol, as the pure       *)
(* functions of risk/state_machine.py plan it.  An episode is a latch: it  *)
(* fixes a target quantity when it activates, can only be escalated from   *)
(* HARD_REDUCE to CRITICAL_EXIT, and is left by a RELEASE event alone.     *)
(***************************************************************************)
EXTENDS Integers

Severity == {"NORMAL", "SOFT_STOP", "HARD_REDUCE", "CRITICAL_EXIT"}
SeverityRank ==
  [NORMAL |-> 0, SOFT_STOP |-> 1, HARD_REDUCE |-> 2, CRITICAL_EXIT |-> 3]
Worse(a, b) == IF SeverityRank[a] >= SeverityRank[b] THEN a ELSE b

Unseen == -1    \* no TARGET_PROGRESS event carries an observed quantity yet

\* An episode cannot be released in the session that activated it, so the
\* session identifies it.
NoEpisode == [sev |-> "NORMAL", target |-> 0, session |-> 0, ev |-> 0, seen |-> Unseen]
Active(ep) == ep.sev # "NORMAL"

\* evaluate_risk_check: a critical reconciliation condition outranks whatever
\* the loss and drawdown thresholds say.
Indicated(market, reconciled) ==
  IF reconciled THEN market ELSE "CRITICAL_EXIT"

\* _build_targets: nothing held, no target; CRITICAL_EXIT sells everything;
\* HARD_REDUCE scales to a cap that depends on prices (any hard \in 0..pos).
TargetQuantity(sev, hard) == IF sev = "CRITICAL_EXIT" THEN 0 ELSE hard

\* _can_release, the facts about the check being passed in.
ReleaseWhenCalm(ep, session, strategic, reconciled, valid, checks, required) ==
  session # ep.session /\ strategic /\ reconciled /\ valid    \* mutant: no streak
CanRelease(ep, session, strategic, reconciled, valid, checks, required) ==
  /\ session # ep.session
  /\ strategic
  /\ reconciled
  /\ checks >= required
  /\ valid

\* The activation or escalation part of plan_risk_transition.
Latched(ep, ind, pos, hard, session) ==
  IF ~Active(ep) /\ ind \in {"HARD_REDUCE", "CRITICAL_EXIT"} /\ pos > 0
  THEN [sev |-> ind, target |-> TargetQuantity(ind, hard),
        session |-> session, ev |-> 1, seen |-> Unseen]
  ELSE IF /\ Active(ep) /\ ep.sev = "HARD_REDUCE"
          /\ ind = "CRITICAL_EXIT" /\ pos > 0
  THEN [ep EXCEPT !.sev = "CRITICAL_EXIT", !.target = 0, !.ev = @ + 1]
  ELSE ep

\* target_progress_events: one event when the held quantity differs from the
\* last one an event recorded.
Progressed(ep, pos) ==
  IF Active(ep) /\ ep.seen # pos
  THEN [ep EXCEPT !.ev = @ + 1, !.seen = pos]
  ELSE ep
=============================================================================
