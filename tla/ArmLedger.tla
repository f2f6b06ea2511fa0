----------------------------- MODULE ArmLedger -----------------------------
(***************************************************************************)
(* One arm's balances and the two append-only ledgers they are derived     *)
(* from.  The share price is one unit of cash and commission is zero: no   *)
(* property here depends on either.  A fill is identified by its order and *)
(* the sequence of the order event it produced; an unsettled receivable is *)
(* the SELL fill it came from, and `due` the session that pays it.         *)
(***************************************************************************)
EXTENDS Integers, FiniteSets, FiniteSetsExt

Fill == [order : Nat, ev : Nat, side : {"BUY", "SELL"}, qty : Nat, at : Nat, due : Nat]
ArmState == [seq : Nat, cash : Nat, pos : Nat, recv : SUBSET Fill]

Bought(F) == {f \in F : f.side = "BUY"}
Sold(F) == {f \in F : f.side = "SELL"}
Total(F) == MapThenSumSet(LAMBDA f : f.qty, F)

\* The chain of Q1ArmState.apply_fill over the fills of one transaction:
\* SELL proceeds become receivables, never cash of the same transaction.
ApplyFills(arm, F) ==
  [seq |-> arm.seq + Cardinality(F),
   cash |-> arm.cash - Total(Bought(F)),
   pos |-> arm.pos + Total(Bought(F)) - Total(Sold(F)),
   recv |-> arm.recv \cup Sold(F)]

\* The chain of Q1ArmState.settle: a receivable the arm does not hold is a
\* no-op.
SettleAll(arm, F) ==
  LET paid == arm.recv \cap F
  IN  [arm EXCEPT !.seq = @ + Cardinality(paid),
                  !.cash = @ + Total(paid),
                  !.recv = @ \ paid]

\* settle_due_receivables: created, not settled yet, due by the session.
DueAgain(fills, settled, session, now) ==    \* mutant: pay what was paid before
  {f \in Sold(fills) : f.at <= now /\ f.due <= session}
DueFills(fills, settled, session, now) ==
  {f \in Sold(fills) : f.at <= now /\ f.due <= session /\ \A e \in settled : e.fill # f}

\* Q1ReconciliationService.check: rebuild the arm from what the ledgers held
\* at the instant.
Rebuilt(open, fills, settled, now) ==
  LET past == {f \in fills : f.at <= now}
      paid == {e.fill : e \in {x \in settled : x.at <= now}}
  IN  [seq |-> open.seq + Cardinality(past) + Cardinality(paid),
       pos |-> open.pos + Total(Bought(past)) - Total(Sold(past)),
       cash |-> open.cash - Total(Bought(past)) + Total(paid),
       recv |-> open.recv \cup (Sold(past) \ paid)]

\* Every balance and the sequence number must agree with the arm's row.
Reconciles(arm, open, fills, settled, now) ==
  arm = Rebuilt(open, fills, settled, now)
=============================================================================
