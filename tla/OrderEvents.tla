---------------------------- MODULE OrderEvents ----------------------------
(***************************************************************************)
(* The event-sourced order: what the reducer derives from an order's       *)
(* append-only event stream, and the four bulk operations that close       *)
(* pending orders.  An order is the aggregate of its stream: the type of   *)
(* its latest event (status), how many events it has (ev), when the latest *)
(* one became available (evat), and the quantity not yet filled (left).    *)
(* An order book is a sequence of orders; the index is the intent's id.    *)
(***************************************************************************)
EXTENDS Naturals, Sequences

Side == {"BUY", "SELL"}
OrderClass == {"NORMAL", "EMERGENCY_REDUCTION"}

TerminalEvent == {"FILLED", "CANCELED_BY_RISK", "SUPERSEDED", "EXPIRED"}
OpenEvent == {"CREATED", "PARTIALLY_FILLED", "BLOCKED"}

Order(Tick, Quantity) ==
  [side : Side, cls : OrderClass, qty : Quantity, left : Quantity \cup {0},
   session : Nat, at : Tick, status : TerminalEvent \cup OpenEvent,
   ev : Nat \ {0}, evat : Tick]

\* The CREATED event: sequence 1, everything still to fill.
NewOrder(side, cls, qty, session, now) ==
  [side |-> side, cls |-> cls, qty |-> qty, left |-> qty, session |-> session,
   at |-> now, status |-> "CREATED", ev |-> 1, evat |-> now]

IsPending(o) == o.status \notin TerminalEvent /\ o.left > 0

\* The aggregate as of an instant.  An order whose latest event came later
\* had not ended before that event, so it was still pending.
PendingAsOf(o, now) == o.at <= now /\ (IsPending(o) \/ o.evat > now)

\* Append one event that moves no quantity.
NextEvent(o, type, now) ==
  [o EXCEPT !.status = type, !.ev = @ + 1, !.evat = now]

\* Append a fill: FILLED consumes the residual, PARTIALLY_FILLED leaves one.
FillWhole(o, q, now) ==    \* mutant: compare with the ordered quantity
  [o EXCEPT !.status = IF q = o.qty THEN "FILLED" ELSE "PARTIALLY_FILLED",
            !.left = @ - q, !.ev = @ + 1, !.evat = now]
FillEvent(o, q, now) ==
  [o EXCEPT !.status = IF q = o.left THEN "FILLED" ELSE "PARTIALLY_FILLED",
            !.left = @ - q, !.ev = @ + 1, !.evat = now]

\* soft_stop_buy_cancellations: pending BUYs only; SELLs stay.
SoftStopUntouched(book, now) ==    \* mutant: only orders without any later event
  [i \in DOMAIN book |->
     IF book[i].status = "CREATED" /\ book[i].side = "BUY"
     THEN NextEvent(book[i], "CANCELED_BY_RISK", now)
     ELSE book[i]]
SoftStop(book, now) ==
  [i \in DOMAIN book |->
     IF IsPending(book[i]) /\ book[i].side = "BUY"
     THEN NextEvent(book[i], "CANCELED_BY_RISK", now)
     ELSE book[i]]

\* supersede_normal_orders for one arm and one symbol, with at most one
\* replacement.  No replacement: inert.  A pending SELL gives way only to a
\* replacement SELL at least as large as what it has left.
Supersede(book, replacements, now) ==
  LET replaced(o) ==
        /\ IsPending(o)
        /\ o.cls = "NORMAL"
        /\ \E r \in replacements :
             o.side = "SELL" => r.side = "SELL" /\ r.qty >= o.left
  IN  [i \in DOMAIN book |->
         IF replaced(book[i]) THEN NextEvent(book[i], "SUPERSEDED", now)
         ELSE book[i]]
=============================================================================
