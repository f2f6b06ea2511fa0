------------------------------- MODULE Q1Desk -------------------------------
(***************************************************************************)
(* The desk of one Q1 arm: the cycles that trade it, run by several        *)
(* workers against one database.  Each cycle takes the instant `now`,      *)
(* reads and plans outside any transaction, then in one transaction locks  *)
(* the newest arm-state row, compares its sequence with the one it planned *)
(* on, and appends.  The row lock is SELECT ... ORDER BY sequence DESC     *)
(* LIMIT 1 FOR UPDATE under READ COMMITTED: the statement chooses its row  *)
(* when it starts, and a transaction that then waits for that row gets it  *)
(* even if a newer row has been committed meanwhile.                       *)
(*                                                                         *)
(* Who may run a cycle, and that it commits at most once, is PaperCycles'  *)
(* subject; here a worker simply starts a cycle and may be lost at any     *)
(* point before it commits.                                                *)
(***************************************************************************)
EXTENDS OrderEvents, RiskLatch, ArmLedger, SequencesExt

CONSTANTS Workers,
          OpenCash, OpenPos,   \* settled cash and shares held at the start
          OpenRecv,            \* proceeds of an earlier SELL, due in session 0
          Sessions,            \* bound: trading sessions 0..Sessions - 1
          ReleaseChecks,       \* release_required_consecutive_checks
          MaxOrders,           \* bound: intents ever created
          MaxEvents            \* bound: events per order before it only ends

ASSUME DeskAssumption ==
  /\ OpenCash \in Nat /\ OpenPos \in Nat /\ OpenRecv \in Nat
  /\ Sessions \in Nat \ {0} /\ ReleaseChecks \in Nat \ {0}
  /\ MaxOrders \in Nat /\ MaxEvents \in Nat

VARIABLES clock,    \* the exchange clock, in ticks
          arm,      \* newest Q1ArmState row
          fills,    \* fill ledger
          settled,  \* settlement events
          orders,   \* order intents with their event streams
          episode,  \* the active risk episode, or NoEpisode
          nav,      \* the NAV rows of the current session, by phase
          done,     \* one-per-session cycles that have committed
          wk        \* the cycle each worker is running

desk == <<arm, fills, settled, orders, episode, nav, done>>
vars == <<clock, desk, wk>>

-----------------------------------------------------------------------------
(* Time.  A session is three ticks: before the order window (09:45), inside *)
(* it (10:00), and after the close.                                        *)

TicksPerSession == 3
Tick == 0 .. Sessions * TicksPerSession - 1
SessionOf(t) == t \div TicksPerSession
PhaseOf(t) == t % TicksPerSession
CloseTick(s) == s * TicksPerSession + 2
SettlementLag == 1

\* How many ticks a cycle's lease outlives the one it starts in.  The order
\* window is far from the close: a strategic cycle's lease ends before it.
LeaseTicks(k) == IF k = "Q1_STRATEGIC" THEN 0 ELSE 1

Kind == {"Q1_SETTLEMENT", "Q1_NAV_RISK", "Q1_STRATEGIC", "Q1_EXECUTION",
         "Q1_DAILY_RESULT"}
OncePerSession == {"Q1_SETTLEMENT", "Q1_STRATEGIC", "Q1_DAILY_RESULT"}
NavRow == {"none", "fresh", "frozen", "invalid"}
Quantity == 1 .. OpenCash + OpenPos + OpenRecv


\* The opening record, and the SELL that has been filled since (order 0).
Open == [seq |-> 0, cash |-> OpenCash, pos |-> OpenPos + OpenRecv, recv |-> {}]
EarlierFills ==
  {[order |-> 0, ev |-> 2, side |-> "SELL", qty |-> q, at |-> 0, due |-> 0] :
     q \in {OpenRecv} \ {0}}

Idle == [pc |-> "idle"]
Phase == 0 .. TicksPerSession - 2
NoRows == [p \in Phase |-> "none"]

\* The phases in which a kind's slots fall due; a daily result may be late.
Scheduled(k, s, t) ==
  \/ k = "Q1_SETTLEMENT" /\ s = SessionOf(t) /\ PhaseOf(t) = 0
  \/ k = "Q1_NAV_RISK" /\ s = SessionOf(t) /\ t < CloseTick(s) /\ nav[PhaseOf(t)] = "none"
  \/ k = "Q1_STRATEGIC" /\ s = SessionOf(t) /\ PhaseOf(t) = 1
  \/ k = "Q1_EXECUTION" /\ s = SessionOf(t)
  \/ k = "Q1_DAILY_RESULT" /\ t >= CloseTick(s)

Runs(w, k, s) == wk[w].pc # "idle" /\ wk[w].kind = k /\ wk[w].session = s

\* claim_next takes the oldest due row that no one holds: a daily result that
\* is still open goes before every cycle of a later session.
Claimable(k, s) ==
  /\ <<k, s>> \notin done
  /\ k \in OncePerSession => \A w \in Workers : ~Runs(w, k, s)
  /\ k = "Q1_NAV_RISK" => \A w \in Workers : Runs(w, k, s) => wk[w].now # clock
  /\ \A p \in 0 .. s - 1 :
       \/ <<"Q1_DAILY_RESULT", p>> \in done
       \/ \E w \in Workers : Runs(w, "Q1_DAILY_RESULT", p)

-----------------------------------------------------------------------------
Init ==
  /\ clock = 0
  /\ arm = ApplyFills(Open, EarlierFills)
  /\ fills = EarlierFills
  /\ settled = {}
  /\ orders = << >>
  /\ episode = NoEpisode
  /\ nav = NoRows
  /\ done = {}
  /\ wk = [w \in Workers |-> Idle]

\* A new session's checks start from nothing: rows of another calendar
\* session are never counted.
AdvanceClock ==
  /\ clock + 1 \in Tick
  /\ clock' = clock + 1
  /\ nav' = IF PhaseOf(clock') = 0 THEN NoRows ELSE nav
  /\ UNCHANGED <<arm, fills, settled, orders, episode, done, wk>>

\* The worker claims the cycle and takes `now`.
Start(w, k, s) ==
  /\ wk[w] = Idle
  /\ Scheduled(k, s, clock)
  /\ Claimable(k, s)
  /\ wk' = [wk EXCEPT ![w] = [pc |-> "read", kind |-> k, session |-> s, now |-> clock]]
  /\ UNCHANGED <<clock, desk>>

\* A crash, a lost lease, a refused check or a rejected append: the
\* transaction rolls back and nothing of the cycle remains.
Abandon(w) ==
  /\ wk[w] # Idle
  /\ wk' = [wk EXCEPT ![w] = Idle]
  /\ UNCHANGED <<clock, desk>>

\* Reading and planning: the plan is what the writer will use later.
Planned(w, plan) ==
  /\ wk[w].pc = "read"
  /\ wk' = [wk EXCEPT ![w] =
       [pc |-> "ready", kind |-> @.kind, session |-> @.session,
        now |-> @.now, row |-> arm, plan |-> plan]]
  /\ UNCHANGED <<clock, desk>>

Reading(w, k) == wk[w].pc = "read" /\ wk[w].kind = k

PendingOrders == {i \in DOMAIN orders : IsPending(orders[i])}
PendingSell == {i \in PendingOrders : orders[i].side = "SELL"}
TotalLeft(S) == MapThenSumSet(LAMBDA i : orders[i].left, S)

\* reduce_order_events refuses an instant before an order's first event.
BookReadable(now) == \A i \in DOMAIN orders : orders[i].at <= now
OrdersAsOf(now) == {i \in DOMAIN orders : PendingAsOf(orders[i], now)}

-----------------------------------------------------------------------------
(* Q1_SETTLEMENT reads nothing before its transaction.                     *)

PlanSettlement(w) ==
  /\ Reading(w, "Q1_SETTLEMENT")
  /\ Planned(w, [locks |-> TRUE])

(* Q1_EXECUTION: expire what has outlived its window, fill or block the    *)
(* rest.  take[i] = 0 stands for every reason to block an order (no quote, *)
(* price guard, no volume, disconnected stream).                           *)

ExpiredAt(i, now, s) ==
  CloseTick(orders[i].session) <= now \/ CloseTick(s) <= now

\* One event per touched order, with the sequence the stream had when read.
Mutation(i, type, q) == [order |-> i, ev |-> orders[i].ev, type |-> type, qty |-> q]

\* SELLs within the position, BUYs within settled cash, over the whole cycle:
\* the working state is carried from one order to the next.
FillEach(take) ==    \* mutant: each order against the state as read
  \A i \in DOMAIN take :
    take[i] <= IF orders[i].side = "SELL" THEN arm.pos ELSE arm.cash
WithinMeans(take) ==
  LET sum(side) == MapThenSumSet(LAMBDA i : take[i], {i \in DOMAIN take : orders[i].side = side})
  IN  sum("SELL") <= arm.pos /\ sum("BUY") <= arm.cash

PlanExecution(w) ==
  LET now == wk[w].now
      s == wk[w].session
      expired == {i \in OrdersAsOf(now) : ExpiredAt(i, now, s)}
      working == {i \in OrdersAsOf(now) \ expired :
                    orders[i].cls = "NORMAL" => PhaseOf(now) # 0}
  IN  /\ Reading(w, "Q1_EXECUTION")
      /\ BookReadable(now)
      /\ \A i \in expired \cup working : IsPending(orders[i])
      /\ \E take \in [working -> {0} \cup Quantity] :
           /\ \A i \in working :
                /\ take[i] <= orders[i].left
                /\ take[i] < orders[i].left => orders[i].ev < MaxEvents
                /\ orders[i].evat > now /\ orders[i].status = "PARTIALLY_FILLED"
                     => take[i] < orders[i].left
           /\ WithinMeans(take)
           /\ Planned(w,
                [locks |-> \E i \in working : take[i] > 0,
                 events |-> {Mutation(i, "EXPIRED", 0) : i \in expired} \cup
                            {Mutation(i, IF take[i] = 0 THEN "BLOCKED" ELSE "FILL", take[i]) :
                               i \in working}])

(* Q1_DAILY_RESULT: closes the session and expires whatever is pending.    *)

Closing(now) == OrdersAsOf(now)

PlanDaily(w) ==
  LET now == wk[w].now
      open == Closing(now)
  IN  /\ Reading(w, "Q1_DAILY_RESULT")
      /\ BookReadable(now)
      /\ \A i \in open : IsPending(orders[i])
      /\ Planned(w, [locks |-> TRUE,
                     events |-> {Mutation(i, "EXPIRED", 0) : i \in open}])

(* Q1_NAV_RISK and Q1_STRATEGIC share the risk check.  `market` is what    *)
(* the loss and drawdown thresholds say, `calm` whether they also satisfy  *)
(* the release thresholds, which lie below the SOFT_STOP ones.             *)

RiskCheck(market, calm) == calm => market = "NORMAL"

ReconciledAsOf(now) == Reconciles(arm, Open, fills, settled, now)

\* A held quantity at or below its target is valued at the trigger price
\* when it has no fresh quote; the severity then stays as it is.
FrozenValuation == Active(episode) /\ arm.pos \in 1 .. episode.target

\* Targets a HARD_REDUCE could fix; irrelevant for any other check.
HardTargets(ind) ==
  IF ind = "HARD_REDUCE" /\ ~Active(episode) THEN 0 .. arm.pos ELSE {0}

EmergencySell(ep, now, s) ==
  LET residual == IF Active(ep) /\ arm.pos > ep.target THEN arm.pos - ep.target ELSE 0
      working == TotalLeft(PendingSell)
  IN  IF now < CloseTick(s) /\ residual > working THEN residual - working ELSE 0

PlanNavRisk(w) ==
  LET now == wk[w].now
      s == wk[w].session
      ok == ReconciledAsOf(now)
  IN  /\ Reading(w, "Q1_NAV_RISK")
      /\ \E market \in Severity, calm \in BOOLEAN, frozen \in BOOLEAN :
           LET ind == Indicated(IF frozen THEN episode.sev ELSE market, ok)
           IN  /\ RiskCheck(market, calm)
               /\ frozen => FrozenValuation /\ market = "NORMAL"
               /\ \E hard \in HardTargets(ind) :
                    LET latched == Latched(episode, ind, arm.pos, hard, s)
                        after == Progressed(latched, arm.pos)
                    IN  Planned(w,
                          [locks |-> TRUE, before |-> episode, after |-> after,
                           cancelBuys |-> Worse(latched.sev, ind) # "NORMAL",
                           sell |-> EmergencySell(after, now, s),
                           row |-> IF ~(calm /\ ok) THEN "invalid"
                                   ELSE IF frozen THEN "frozen" ELSE "fresh"])

\* _consecutive_valid_release_checks: the newest NAV rows of this session up
\* to the first that is not valid.
ValidChecks(now) ==
  LET rows == {p \in Phase : p <= PhaseOf(now) /\ nav[p] # "none"}
  IN  {p \in rows : \A q \in rows : q >= p => nav[q] # "invalid"}

\* plan_normal_orders for one symbol: a BUY within settled cash, a SELL
\* within the position, or nothing.
NormalIntents(s, now) ==
  {{}} \cup {{NewOrder("BUY", "NORMAL", q, s, now)} : q \in 1 .. arm.cash}
       \cup {{NewOrder("SELL", "NORMAL", q, s, now)} : q \in 1 .. arm.pos}

PlanStrategic(w) ==
  LET now == wk[w].now
      s == wk[w].session
      ok == ReconciledAsOf(now)
      checks == Cardinality(ValidChecks(now))
  IN  /\ Reading(w, "Q1_STRATEGIC")
      /\ \E market \in Severity, calm \in BOOLEAN :
           LET ind == Indicated(market, ok)
           IN  /\ RiskCheck(market, calm)
               /\ \E hard \in HardTargets(ind) :
                    LET latched == Latched(episode, ind, arm.pos, hard, s)
                        released == Active(latched) /\
                          CanRelease(latched, s, TRUE, ok, calm, checks, ReleaseChecks)
                        effective == IF released THEN "NORMAL" ELSE Worse(latched.sev, ind)
                        gated == Active(latched) \/ effective # "NORMAL"
                    IN  \E intents \in IF gated THEN {{}} ELSE NormalIntents(s, now) :
                          Planned(w,
                            [locks |-> TRUE, before |-> episode, gated |-> gated,
                             after |-> IF released THEN NoEpisode ELSE latched,
                             intents |-> intents])

-----------------------------------------------------------------------------
(* The transaction.                                                        *)

SameEpisode(before) == episode.session = before.session /\ episode.ev = before.ev

RowHeld(w, seq) ==
  \E v \in Workers \ {w} : wk[v].pc = "locked" /\ wk[v].row.seq = seq

\* The lock statement starts: it settles on the newest row there is, and
\* waits if another transaction holds that row.  The strategic writer has by
\* then read the active episode, without a lock.
RequestLock(w) ==
  /\ wk[w].pc = "ready"
  /\ wk[w].plan.locks
  /\ wk[w].kind # "Q1_SETTLEMENT" => arm.seq = wk[w].row.seq
  /\ wk[w].kind = "Q1_STRATEGIC" => SameEpisode(wk[w].plan.before)
  /\ wk' = [wk EXCEPT ![w].pc = IF RowHeld(w, arm.seq) THEN "wait" ELSE "locked",
                      ![w].row = arm]
  /\ UNCHANGED <<clock, desk>>

\* The holder has ended: the statement returns the row, newest or not.
AcquireLock(w) ==
  /\ wk[w].pc = "wait"
  /\ ~RowHeld(w, wk[w].row.seq)
  /\ wk' = [wk EXCEPT ![w].pc = "locked"]
  /\ UNCHANGED <<clock, desk>>

\* The writer runs and the transaction commits under a live lease.
Commits(w, k) ==
  /\ wk[w].pc = "locked" \/ (wk[w].pc = "ready" /\ ~wk[w].plan.locks)
  /\ wk[w].kind = k
  /\ clock <= wk[w].now + LeaseTicks(k)
  /\ wk' = [wk EXCEPT ![w] = Idle]
  /\ UNCHANGED clock

Completed(w) == done' = done \cup {<<wk[w].kind, wk[w].session>>}

\* append_arm_state reads the newest row again and refuses a gap.
AppendsUnchecked(w) == TRUE    \* mutant: trust the locked row
AppendsTo(w) == arm.seq = wk[w].row.seq

CommitSettlement(w) ==
  LET due == DueFills(fills, settled, wk[w].session, wk[w].now)
  IN  /\ Commits(w, "Q1_SETTLEMENT")
      /\ due # {} => AppendsTo(w)
      /\ arm' = IF due = {} THEN arm ELSE SettleAll(wk[w].row, due)
      /\ settled' = settled \cup {[fill |-> f, at |-> wk[w].now] : f \in due}
      /\ Completed(w)
      /\ UNCHANGED <<fills, orders, episode, nav>>

\* OrderEventRepository.append: an event must follow the stream's last one.
FollowAny(events) == TRUE    \* mutant: append without the sequence check
Follow(events) == \A m \in events : orders[m.order].ev = m.ev

Applied(o, m, now) ==
  IF m.type = "FILL" THEN FillEvent(o, m.qty, now) ELSE NextEvent(o, m.type, now)

WithEvents(events, now) ==
  [i \in DOMAIN orders |->
     IF \E m \in events : m.order = i
     THEN Applied(orders[i], CHOOSE m \in events : m.order = i, now)
     ELSE orders[i]]

\* The fill rows of the execution cycle, due one session after the trade.
NewFills(events, s, now) ==
  {[order |-> m.order, ev |-> m.ev + 1, side |-> orders[m.order].side,
    qty |-> m.qty, at |-> now, due |-> s + SettlementLag] :
     m \in {x \in events : x.type = "FILL"}}

CommitExecution(w) ==
  LET events == wk[w].plan.events
      new == NewFills(events, wk[w].session, wk[w].now)
  IN  /\ Commits(w, "Q1_EXECUTION")
      /\ Follow(events)
      /\ new # {} => AppendsTo(w)
      /\ fills' = fills \cup new
      /\ arm' = IF new = {} THEN arm ELSE ApplyFills(wk[w].row, new)
      /\ orders' = WithEvents(events, wk[w].now)
      /\ UNCHANGED <<settled, episode, nav, done>>

CommitDaily(w) ==
  /\ Commits(w, "Q1_DAILY_RESULT")
  /\ Follow(wk[w].plan.events)
  /\ orders' = WithEvents(wk[w].plan.events, wk[w].now)
  /\ Completed(w)
  /\ UNCHANGED <<arm, fills, settled, episode, nav>>

\* RiskEpisodeRepository: a new episode needs the latch free, an event needs
\* the stream to be where the plan read it; no event, nothing to check.
EpisodeStep(before, after) ==
  /\ after # before =>
       IF Active(before) THEN SameEpisode(before) ELSE ~Active(episode)
  /\ episode' = IF after = before THEN episode ELSE after

CommitNavRisk(w) ==
  LET p == wk[w].plan
      now == wk[w].now
      calmed == IF p.cancelBuys THEN SoftStop(orders, now) ELSE orders
      sell == NewOrder("SELL", "EMERGENCY_REDUCTION", p.sell, wk[w].session, now)
  IN  /\ Commits(w, "Q1_NAV_RISK")
      /\ EpisodeStep(p.before, p.after)
      /\ p.sell > 0 => Len(orders) < MaxOrders
      /\ orders' = IF p.sell > 0 THEN Append(calmed, sell) ELSE calmed
      /\ nav' = [nav EXCEPT ![PhaseOf(now)] = p.row]
      /\ UNCHANGED <<arm, fills, settled, done>>

CommitStrategic(w) ==
  LET p == wk[w].plan
      now == wk[w].now
  IN  /\ Commits(w, "Q1_STRATEGIC")
      /\ EpisodeStep(p.before, p.after)
      /\ Len(orders) + Cardinality(p.intents) <= MaxOrders
      /\ orders' = IF p.gated THEN SoftStop(orders, now)
                   ELSE Supersede(orders, p.intents, now) \o SetToSeq(p.intents)
      /\ Completed(w)
      /\ UNCHANGED <<arm, fills, settled, nav>>

-----------------------------------------------------------------------------
Plan(w) ==
  \/ PlanSettlement(w) \/ PlanExecution(w) \/ PlanDaily(w)
  \/ PlanNavRisk(w) \/ PlanStrategic(w)

Commit(w) ==
  \/ CommitSettlement(w) \/ CommitExecution(w) \/ CommitDaily(w)
  \/ CommitNavRisk(w) \/ CommitStrategic(w)

Next ==
  \/ AdvanceClock
  \/ \E w \in Workers :
       \/ \E k \in Kind, s \in 0 .. Sessions - 1 : Start(w, k, s)
       \/ Plan(w) \/ RequestLock(w) \/ AcquireLock(w) \/ Commit(w)
       \/ Abandon(w)

Spec == Init /\ [][Next]_vars

-----------------------------------------------------------------------------
(* Properties.                                                             *)

\* Every variable keeps its type; in particular no fill, settlement or
\* interleaving of workers drives cash or the position below zero
\* (Q1ArmState's own validation would refuse such a row).
TypeOK ==
  /\ clock \in Tick
  /\ arm \in [seq : Nat, cash : Nat, pos : Nat, recv : SUBSET fills]
  /\ \A f \in fills : f \in Fill /\ f.order \in DOMAIN orders \cup {0}
  /\ \A e \in settled : e.fill \in Sold(fills) /\ e.at \in Tick
  /\ \A i \in DOMAIN orders : orders[i] \in Order(Tick, Quantity)
  /\ episode.sev \in Severity /\ episode.target \in Nat
  /\ nav \in [Phase -> NavRow]
  /\ done \subseteq OncePerSession \X (0 .. Sessions - 1)

\* No update is lost: the newest arm row is what the complete fill and
\* settlement ledgers add up to, whatever order the execution and settlement
\* writers of different workers committed in.
LedgersExplainState ==
  arm = Rebuilt(Open, fills, settled, Sessions * TicksPerSession)

\* An order's event stream and the fill ledger tell the same story: the fills
\* of an order add up to what its events consumed, never more than it asked
\* for, and only a FILLED order has nothing left.
FillsMatchOrders ==
  \A i \in DOMAIN orders :
    /\ Total({f \in fills : f.order = i}) = orders[i].qty - orders[i].left
    /\ (orders[i].left = 0) <=> (orders[i].status = "FILLED")

\* A receivable is paid at most once, and not before the session it is due
\* in, across retries of the settlement cycle and sessions that skipped it.
SettledOnceWhenDue ==
  \A e \in settled :
    /\ SessionOf(e.at) >= e.fill.due
    /\ \A x \in settled : x.fill = e.fill => x = e

\* Once an order's stream has a terminal event nothing is appended to it, and
\* no order disappears: execution, expiry, supersession and risk cancellation
\* planned on an older reading are refused.
TerminalOrdersStay ==
  [][\A i \in DOMAIN orders :
       /\ i \in DOMAIN orders'
       /\ orders[i].status \in TerminalEvent => orders'[i] = orders[i]]_vars

\* A latched episode only tightens: while it is active its severity never
\* falls and its target never rises; it ends only in a strategic cycle of a
\* later session, after the required checks, and that cycle creates no order.
LatchOnlyTightens ==
  [][Active(episode) =>
       \/ /\ Active(episode') /\ episode'.session = episode.session
          /\ SeverityRank[episode'.sev] >= SeverityRank[episode.sev]
          /\ episode'.target <= episode.target
       \/ /\ ~Active(episode')
          /\ SessionOf(clock) > episode.session
          /\ Cardinality({p \in Phase : nav[p] \in {"fresh", "frozen"}}) >= ReleaseChecks
          /\ Len(orders') = Len(orders)]_vars

\* While an episode is active no BUY is pending: activation cancels them and
\* the strategic cycle opens none.
LatchBlocksBuys ==
  Active(episode) => \A i \in PendingOrders : orders[i].side # "BUY"


\* An order expires at its own valid_until, not before: no cycle expires an
\* order whose session has not closed.
OrdersExpireWhenDue ==
  [][\A i \in DOMAIN orders :
       orders[i].status # "EXPIRED" /\ orders'[i].status = "EXPIRED" =>
         clock >= CloseTick(orders[i].session)]_vars


\* A release rests on checks made with fresh quotes: a valuation at the
\* frozen trigger price is no evidence for it.
ReleaseRestsOnFreshQuotes ==
  [][Active(episode) /\ ~Active(episode') =>
       \A p \in ValidChecks(clock) : nav[p] = "fresh"]_vars
=============================================================================
