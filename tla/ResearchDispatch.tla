--------------------------- MODULE ResearchDispatch ---------------------------
(***************************************************************************)
(* The research scheduler: planned work, dispatch receipts and execution.  *)
(*                                                                         *)
(* A dispatcher leases due work (claim_next) and turns the lease into a    *)
(* dispatch receipt (commit_dispatch).  A consumer leases a receipt        *)
(* (claim_execution), lets the local launcher run it while it renews the   *)
(* lease, and records the outcome.  Every step appends one event to the    *)
(* work item's stream; the state of the item is its latest event.          *)
(*                                                                         *)
(* PostgreSQL at READ COMMITTED is modelled.  A claim is one statement     *)
(* that joins the items with their latest events and locks an item row,    *)
(* skipping locked ones.  The item row itself is never updated, so a row   *)
(* that was locked and released since the statement's snapshot is taken    *)
(* without a second look at its events.  Hence a claim is two steps here:  *)
(* the snapshot, and the lock with the append.                             *)
(***************************************************************************)
EXTENDS Integers, Sequences, SequencesExt, TLC

CONSTANTS
  Order,          \* the work items, by scheduled_for, work_kind, work_item_id
  Kind,           \* Kind[w]: work_kind; all items belong to one session
  Dispatchers,    \* schedule-work processes
  Consumers,      \* schedule-consume processes
  Contexts,       \* invocation contexts the launcher may attest
  MaxAttempts,    \* maximum_dispatch_attempts
  MaxSelections,  \* bound: how often the operator selects a Commander
  MaxBusy,        \* bound: how many processes are inside a tick at once
  MaxFaults,      \* bound: crashes, stalls past a lease and lost replies
  None

Works == ToSet(Order)
Processes == Dispatchers \cup Consumers

WorkKind == {"DAILY_AGGREGATION", "OUTCOME_MATURATION",
             "RESEARCH_MEMORY_MATERIALIZATION", "OPERATOR_DEEP_RESEARCH",
             "WEEKLY_DEEP_RESEARCH", "EVIDENCE_TRIGGERED_RESEARCH"}

ASSUME DispatchAssumption ==
  /\ IsInjective(Order) /\ Kind \in [Works -> WorkKind]
  /\ Dispatchers \cap Consumers = {}
  /\ MaxAttempts \in Nat \ {0} /\ MaxSelections \in Nat
  /\ MaxBusy \in Nat \ {0} /\ MaxFaults \in Nat
  /\ None \notin Processes \cup Contexts \cup Works

VARIABLES
  ev,         \* ev[w]: the latest event of the item's stream
  keys,       \* keys[w]: idempotency keys of its events that could recur
  used,       \* context hashes of the SUCCEEDED results
  files,      \* files[w]: request.json and result.json of the last receipt
  selection,  \* version of the Commander selection, 0 when there is none
  proc,       \* proc[p]: what process p is doing
  faults      \* faults left

vars == <<ev, keys, used, files, selection, proc, faults>>

(* The statuses are those of _projected_status; LEASED stands for          *)
(* LEASE_ACQUIRED and LEASE_RECLAIMED, EXECUTING for the three execution   *)
(* lease events.  `live` says that lease_expires_at is still ahead.        *)
Event == [status : {"UNPLANNED", "PENDING", "LEASED", "DISPATCHED",
                    "EXECUTING", "SUCCEEDED", "FAILED"},
          attempt : 0..MaxAttempts, retryable : BOOLEAN,
          holder : Processes \cup {None}, live : BOOLEAN,
          receipt : 0..MaxAttempts]

KeyName == {"lease", "exhausted", "succeeded", "failed"}

File == [sel : (0..MaxSelections) \cup {None}, ctx : Contexts \cup {None},
         written : BOOLEAN]

NoFile == [sel |-> None, ctx |-> None, written |-> FALSE]

Idle == [pc |-> "idle", work |-> None, attempt |-> 0, sel |-> 0,
         ctx |-> None, out |-> None, snap |-> << >>]

Process == [pc : {"idle", "picking", "leased", "running", "finished",
                  "failing", "saving"},
            work : Works \cup {None}, attempt : 0..MaxAttempts,
            sel : 0..MaxSelections, ctx : Contexts \cup {None},
            out : {"DISPATCHED", "SUCCEEDED", "FAILED", None},
            snap : UNION {[S -> 0..MaxAttempts] : S \in SUBSET Works}]

TypeOK ==
  /\ ev \in [Works -> Event]
  /\ keys \in [Works -> SUBSET (KeyName \X (0..MaxAttempts))]
  /\ used \subseteq Contexts
  /\ files \in [Works -> File]
  /\ selection \in 0..MaxSelections
  /\ proc \in [Processes -> Process]
  /\ faults \in 0..MaxFaults

-----------------------------------------------------------------------------
(* _schedule_prerequisite_predicate: the kind whose item must have         *)
(* SUCCEEDED as its latest event.                                          *)
PredecessorKind ==
  ("OUTCOME_MATURATION" :> "DAILY_AGGREGATION") @@
  ("RESEARCH_MEMORY_MATERIALIZATION" :> "OUTCOME_MATURATION") @@
  ("OPERATOR_DEEP_RESEARCH" :> "DAILY_AGGREGATION")

NoPrerequisite(w) == TRUE

PrerequisiteSucceeded(w) ==
  Kind[w] \in DOMAIN PredecessorKind =>
    \E v \in Works : /\ Kind[v] = PredecessorKind[Kind[w]]
                     /\ ev[v].status = "SUCCEEDED"

(* dispatch_target_for: everything but the three maintenance kinds runs a  *)
(* deep research cycle, with a Commander selection and model invocations.  *)
Deep(w) == Kind[w] \notin {"DAILY_AGGREGATION", "OUTCOME_MATURATION",
                           "RESEARCH_MEMORY_MATERIALIZATION"}

(* The where clause of claim_next. *)
Claimable(w) ==
  /\ ev[w].retryable
  /\ \/ ev[w].status \in {"PENDING", "FAILED"}
     \/ ev[w].status = "LEASED" /\ ~ev[w].live
  /\ PrerequisiteSucceeded(w)

(* The where clause of claim_execution. *)
Executable(w) ==
  \/ ev[w].status = "DISPATCHED"
  \/ ev[w].status = "EXECUTING" /\ ~ev[w].live

(* A process between its lease check and its commit holds the item's row. *)
Locked(w) == \E p \in Processes : proc[p].pc = "saving" /\ proc[p].work = w

(* SKIP LOCKED, ORDER BY and LIMIT 1 over the items of a snapshot. *)
FirstUnlocked(snap) ==
  LET open == {i \in DOMAIN Order : Order[i] \in DOMAIN snap /\ ~Locked(Order[i])}
  IN  IF open = {} THEN None
      ELSE Order[CHOOSE i \in open : \A j \in open : i <= j]

(* _append_event, once the row is locked: the sequence number follows the  *)
(* latest event, so only the idempotency key can collide.                  *)
Append1(w, key, e) ==
  /\ ev' = [ev EXCEPT ![w] = e]
  /\ keys' = [keys EXCEPT ![w] = @ \cup {key}]

CanStart(p) ==
  /\ proc[p].pc = "idle"
  /\ Cardinality({q \in Processes : proc[q].pc # "idle"}) < MaxBusy

Become(p, r) == proc' = [proc EXCEPT ![p] = r]

(* _require_active_lease and _require_active_execution_lease.  A process   *)
(* holds one lease at a time, so "its token" is "it appended the lease".   *)
LeaseStands(p, status) ==
  LET w == proc[p].work
  IN  /\ ev[w].status = status /\ ev[w].holder = p
      /\ ev[w].attempt = proc[p].attempt

ActiveLease(p, status) == LeaseStands(p, status) /\ ev[proc[p].work].live

-----------------------------------------------------------------------------
Init ==
  /\ ev = [w \in Works |-> [status |-> "UNPLANNED", attempt |-> 0,
             retryable |-> FALSE, holder |-> None, live |-> FALSE,
             receipt |-> 0]]
  /\ keys = [w \in Works |-> {}]
  /\ used = {}
  /\ files = [w \in Works |-> NoFile]
  /\ selection = 0
  /\ proc = [p \in Processes |-> Idle]
  /\ faults = MaxFaults

(* store_plans: a due item gets its row and its PLANNED event. *)
Plan(w) ==
  /\ ev[w].status = "UNPLANNED"
  /\ ev' = [ev EXCEPT ![w].status = "PENDING", ![w].retryable = TRUE]
  /\ UNCHANGED <<keys, used, files, selection, proc, faults>>

(* The operator selects another Commander. *)
SelectCommander ==
  /\ selection < MaxSelections
  /\ selection' = selection + 1
  /\ UNCHANGED <<ev, keys, used, files, proc, faults>>

(* claim_next, the statement's snapshot. *)
ReadClaimable(d) ==
  /\ CanStart(d)
  /\ \E w \in Works : Claimable(w)
  /\ Become(d, [Idle EXCEPT !.pc = "picking",
                !.snap = [w \in {v \in Works : Claimable(v)} |-> ev[w].attempt]])
  /\ UNCHANGED <<ev, keys, used, files, selection, faults>>

TakeClaimUnkeyed(d) ==
  LET w == FirstUnlocked(proc[d].snap)
      n == proc[d].snap[w] + 1
  IN  /\ proc[d].pc = "picking" /\ w # None /\ n <= MaxAttempts
      /\ Append1(w, <<"lease", n>>,
           [status |-> "LEASED", attempt |-> n, retryable |-> TRUE,
            holder |-> d, live |-> TRUE, receipt |-> 0])
      /\ Become(d, [Idle EXCEPT !.pc = "leased", !.work = w, !.attempt = n])
      /\ UNCHANGED <<used, files, selection, faults>>

TakeClaimUnbounded(d) ==
  LET w == FirstUnlocked(proc[d].snap)
      n == proc[d].snap[w] + 1
  IN  /\ proc[d].pc = "picking" /\ w # None
      /\ <<"lease", n>> \notin keys[w]
      /\ Append1(w, <<"lease", n>>,
           [status |-> "LEASED", attempt |-> n, retryable |-> TRUE,
            holder |-> d, live |-> TRUE, receipt |-> 0])
      /\ Become(d, [Idle EXCEPT !.pc = "leased", !.work = w, !.attempt = n])
      /\ UNCHANGED <<used, files, selection, faults>>

(* claim_next, the lock and the lease event.  The attempt number comes     *)
(* from the snapshot; the unique key of the lease event fences a stale one.*)
TakeClaim(d) ==
  LET w == FirstUnlocked(proc[d].snap)
      n == proc[d].snap[w] + 1
  IN  /\ proc[d].pc = "picking" /\ w # None /\ n <= MaxAttempts
      /\ <<"lease", n>> \notin keys[w]
      /\ Append1(w, <<"lease", n>>,
           [status |-> "LEASED", attempt |-> n, retryable |-> TRUE,
            holder |-> d, live |-> TRUE, receipt |-> 0])
      /\ Become(d, [Idle EXCEPT !.pc = "leased", !.work = w, !.attempt = n])
      /\ UNCHANGED <<used, files, selection, faults>>

(* claim_next, when the item has had its last attempt: it is closed. *)
ExhaustAttempts(d) ==
  LET w == FirstUnlocked(proc[d].snap)
      n == proc[d].snap[w]
  IN  /\ proc[d].pc = "picking" /\ w # None /\ n = MaxAttempts
      /\ <<"exhausted", 0>> \notin keys[w]
      /\ Append1(w, <<"exhausted", 0>>,
           [status |-> "FAILED", attempt |-> n, retryable |-> FALSE,
            holder |-> None, live |-> FALSE, receipt |-> 0])
      /\ Become(d, Idle)
      /\ UNCHANGED <<used, files, selection, faults>>

(* claim_next finds every row locked, or its event's key already taken     *)
(* (the IntegrityError ends the tick): nothing is written.                 *)
MissClaim(d) ==
  LET w == FirstUnlocked(proc[d].snap)
      n == proc[d].snap[w]
  IN  /\ proc[d].pc = "picking"
      /\ \/ w = None
         \/ w # None /\ n < MaxAttempts /\ <<"lease", n + 1>> \in keys[w]
         \/ w # None /\ n = MaxAttempts /\ <<"exhausted", 0>> \in keys[w]
      /\ Become(d, Idle)
      /\ UNCHANGED <<ev, keys, used, files, selection, faults>>

(* commit_dispatch and fail_dispatch up to the lease check, which takes    *)
(* the row lock and keeps it until the commit.                             *)
CheckDispatch(d) ==
  /\ proc[d].pc \in {"leased", "failing"} /\ ~Locked(proc[d].work)
  /\ ActiveLease(d, "LEASED")
  /\ Become(d, [proc[d] EXCEPT !.pc = "saving",
       !.out = IF proc[d].pc = "leased" THEN "DISPATCHED" ELSE "FAILED"])
  /\ UNCHANGED <<ev, keys, used, files, selection, faults>>

(* A stale, expired or reclaimed worker gives up (ResearchScheduleFenceError).*)
FenceDispatch(d) ==
  /\ proc[d].pc \in {"leased", "failing"} /\ ~Locked(proc[d].work)
  /\ ~ActiveLease(d, "LEASED")
  /\ Become(d, Idle)
  /\ UNCHANGED <<ev, keys, used, files, selection, faults>>

(* commit_dispatch: receipt and DISPATCHED event in one transaction.  The  *)
(* receipt is named by its attempt; its row is unique per attempt, and so  *)
(* is the directory of its execution (execution_id).                       *)
CommitDispatch(d) ==
  LET w == proc[d].work
      n == proc[d].attempt
  IN  /\ proc[d].pc = "saving" /\ proc[d].out = "DISPATCHED"
      /\ ev' = [ev EXCEPT ![w] =
           [status |-> "DISPATCHED", attempt |-> n, retryable |-> FALSE,
            holder |-> d, live |-> FALSE, receipt |-> n]]
      /\ files' = [files EXCEPT ![w] = NoFile]
      /\ Become(d, Idle)
      /\ UNCHANGED <<keys, used, selection, faults>>

(* fail_dispatch: the attempt is spent; another may follow.  Its key holds *)
(* the attempt of a lease that no longer stands, so it cannot recur.       *)
FailDispatch(d) ==
  LET w == proc[d].work
      n == proc[d].attempt
  IN  /\ proc[d].pc = "saving" /\ proc[d].out = "FAILED"
      /\ ev' = [ev EXCEPT ![w] =
           [status |-> "FAILED", attempt |-> n, retryable |-> n < MaxAttempts,
            holder |-> d, live |-> FALSE, receipt |-> 0]]
      /\ Become(d, Idle)
      /\ UNCHANGED <<keys, used, files, selection, faults>>

-----------------------------------------------------------------------------
(* claim_execution, the statement's snapshot. *)
ReadExecutable(c) ==
  /\ CanStart(c)
  /\ \E w \in Works : Executable(w)
  /\ Become(c, [Idle EXCEPT !.pc = "picking",
                !.snap = [w \in {v \in Works : Executable(v)} |-> ev[w].receipt]])
  /\ UNCHANGED <<ev, keys, used, files, selection, faults>>

(* claim_execution, the lock and the execution lease.  The only second     *)
(* look at the item is that its latest event still names the receipt.      *)
TakeExecution(c) ==
  LET w == FirstUnlocked(proc[c].snap)
      n == proc[c].snap[w]
  IN  /\ proc[c].pc = "picking" /\ w # None /\ ev[w].receipt = n
      /\ ev' = [ev EXCEPT ![w] =
           [status |-> "EXECUTING", attempt |-> n, retryable |-> TRUE,
            holder |-> c, live |-> TRUE, receipt |-> n]]
      /\ Become(c, [Idle EXCEPT !.pc = "leased", !.work = w, !.attempt = n])
      /\ UNCHANGED <<keys, used, files, selection, faults>>

MissExecution(c) ==
  LET w == FirstUnlocked(proc[c].snap)
  IN  /\ proc[c].pc = "picking"
      /\ w = None \/ (w # None /\ ev[w].receipt # proc[c].snap[w])
      /\ Become(c, Idle)
      /\ UNCHANGED <<ev, keys, used, files, selection, faults>>

(* execution_input, the Commander selection, the request, and request.json,*)
(* which may not change between two executions of one receipt.  A          *)
(* result.json that is already there is adopted; otherwise the launcher    *)
(* starts.                                                                 *)
StartExecution(c) ==
  LET w == proc[c].work
      n == proc[c].attempt
      sel == IF Deep(w) THEN selection ELSE 0
      ready == /\ Deep(w) => selection # 0
               /\ files[w].sel \in {None, sel}
      next == CASE ~ready -> "failing"
                [] ready /\ files[w].written -> "finished"
                [] OTHER -> "running"
  IN  /\ proc[c].pc = "leased" /\ ~Locked(w) /\ ActiveLease(c, "EXECUTING")
      /\ Become(c, [proc[c] EXCEPT !.pc = next, !.sel = sel,
                                   !.ctx = files[w].ctx])
      /\ files' = IF ready THEN [files EXCEPT ![w].sel = sel] ELSE files
      /\ UNCHANGED <<ev, keys, used, selection, faults>>

(* The launcher writes result.json, with the context it attests.  In the   *)
(* directory of an earlier receipt nobody looks any more.                  *)
WriteResult(p, x) ==
  LET w == proc[p].work
  IN  files' = IF proc[p].attempt # ev[w].attempt THEN files
               ELSE [files EXCEPT ![w].ctx = x, ![w].written = TRUE]

Attestable(w) == IF Deep(w) THEN Contexts ELSE {None}

FinishExecution(c) ==
  /\ proc[c].pc = "running"
  /\ \E x \in Attestable(proc[c].work) :
       /\ WriteResult(c, x)
       /\ Become(c, [proc[c] EXCEPT !.pc = "finished", !.ctx = x])
  /\ UNCHANGED <<ev, keys, used, selection, faults>>

(* The launcher times out, exits with an error or writes no valid result. *)
LauncherFails(c) ==
  /\ proc[c].pc = "running"
  /\ Become(c, [proc[c] EXCEPT !.pc = "failing"])
  /\ UNCHANGED <<ev, keys, used, files, selection, faults>>

(* renew_execution_lease by a running consumer.  While the lease is active *)
(* it only puts lease_expires_at ahead again; otherwise the consumer stops.*)
RenewLease(c) ==
  /\ proc[c].pc = "running" /\ ~Locked(proc[c].work)
  /\ ~ActiveLease(c, "EXECUTING")
  /\ Become(c, Idle)
  /\ UNCHANGED <<ev, keys, used, files, selection, faults>>

(* consume_once: the selection is looked at again before the outcome. *)
SelectionDrifted(c) ==
  /\ proc[c].pc = "finished" /\ Deep(proc[c].work)
  /\ selection # proc[c].sel
  /\ Become(c, [proc[c] EXCEPT !.pc = "failing"])
  /\ UNCHANGED <<ev, keys, used, files, selection, faults>>

(* record_execution_outcome up to _require_unused_invocation_contexts: the *)
(* key, the lease and the contexts are checked under the row lock.         *)
OutcomeKey(c) ==
  <<IF proc[c].pc = "finished" THEN "succeeded" ELSE "failed", proc[c].attempt>>

ContextReused(c) ==
  /\ proc[c].pc = "finished" /\ Deep(proc[c].work)
  /\ proc[c].ctx \in used

RecordsOutcome(c) ==
  \/ proc[c].pc = "finished" /\ (Deep(proc[c].work) => selection = proc[c].sel)
  \/ proc[c].pc = "failing"

RecordUnfenced(c) ==
  /\ OutcomeKey(c) \notin keys[proc[c].work]
  /\ ~ContextReused(c)

MayRecord(c) ==
  /\ OutcomeKey(c) \notin keys[proc[c].work]
  /\ ActiveLease(c, "EXECUTING")
  /\ ~ContextReused(c)

CheckOutcome(c) ==
  /\ RecordsOutcome(c) /\ ~Locked(proc[c].work) /\ MayRecord(c)
  /\ Become(c, [proc[c] EXCEPT !.pc = "saving",
       !.out = IF proc[c].pc = "finished" THEN "SUCCEEDED" ELSE "FAILED"])
  /\ UNCHANGED <<ev, keys, used, files, selection, faults>>

(* Every ResearchScheduleFenceError ends consume_once with stale_consumer  *)
(* and no event, one for a reused context included.                        *)
FenceConsumer(c) ==
  /\ ~Locked(proc[c].work)
  /\ \/ proc[c].pc = "leased" /\ ~ActiveLease(c, "EXECUTING")
     \/ RecordsOutcome(c) /\ ~MayRecord(c)
  /\ Become(c, Idle)
  /\ UNCHANGED <<ev, keys, used, files, selection, faults>>

(* record_execution_outcome, the event. *)
RecordSuccess(c) ==
  LET w == proc[c].work
      n == proc[c].attempt
  IN  /\ proc[c].pc = "saving" /\ proc[c].out = "SUCCEEDED"
      /\ Append1(w, <<"succeeded", n>>,
           [status |-> "SUCCEEDED", attempt |-> n, retryable |-> FALSE,
            holder |-> c, live |-> FALSE, receipt |-> n])
      /\ used' = used \cup ({proc[c].ctx} \ {None})
      /\ Become(c, Idle)
      /\ UNCHANGED <<files, selection, faults>>

RecordFailure(c) ==
  LET w == proc[c].work
      n == proc[c].attempt
  IN  /\ proc[c].pc = "saving" /\ proc[c].out = "FAILED"
      /\ Append1(w, <<"failed", n>>,
           [status |-> "FAILED", attempt |-> n, retryable |-> n < MaxAttempts,
            holder |-> c, live |-> FALSE, receipt |-> n])
      /\ Become(c, Idle)
      /\ UNCHANGED <<used, files, selection, faults>>

-----------------------------------------------------------------------------
(* An exception out of commit_dispatch makes the dispatcher call           *)
(* fail_dispatch; out of record_execution_outcome(succeeded) it makes the  *)
(* consumer record a failure.  (When only the reply to a commit is lost,   *)
(* the second call finds its lease gone and gives up: the same as no loss.)*)
TransactionFails(p) ==
  /\ proc[p].pc = "saving" /\ proc[p].out \in {"DISPATCHED", "SUCCEEDED"}
  /\ faults > 0 /\ faults' = faults - 1
  /\ Become(p, [proc[p] EXCEPT !.pc = "failing", !.out = None])
  /\ UNCHANGED <<ev, keys, used, files, selection>>

(* A process dies (one that has claimed nothing yet leaves no trace).  Its open transaction rolls back; a launcher that it    *)
(* leaves behind may still write its result.                               *)
Crash(p) ==
  /\ proc[p].pc \notin {"idle", "picking"} /\ faults > 0 /\ faults' = faults - 1
  /\ Become(p, Idle)
  /\ \/ files' = files
     \/ /\ proc[p].pc = "running"
        /\ \E x \in Attestable(proc[p].work) : WriteResult(p, x)
  /\ UNCHANGED <<ev, keys, used, selection>>

(* The database clock passes lease_expires_at.  A consumer renews its      *)
(* lease three times per lease period, so with its holder still at work    *)
(* this takes a stall.                                                     *)
HolderAtWork(w) ==
  \E p \in Processes : p = ev[w].holder /\ proc[p].work = w

Expire(w) ==
  /\ ev[w].live
  /\ IF HolderAtWork(w) THEN faults > 0 /\ faults' = faults - 1
                        ELSE faults' = faults
  /\ ev' = [ev EXCEPT ![w].live = FALSE]
  /\ UNCHANGED <<keys, used, files, selection, proc>>

Dispatcher(d) ==
  \/ ReadClaimable(d) \/ TakeClaim(d) \/ ExhaustAttempts(d) \/ MissClaim(d)
  \/ CheckDispatch(d) \/ FenceDispatch(d) \/ CommitDispatch(d) \/ FailDispatch(d)

Consumer(c) ==
  \/ ReadExecutable(c) \/ TakeExecution(c) \/ MissExecution(c)
  \/ StartExecution(c) \/ FinishExecution(c) \/ LauncherFails(c)
  \/ RenewLease(c) \/ SelectionDrifted(c) \/ CheckOutcome(c)
  \/ FenceConsumer(c) \/ RecordSuccess(c) \/ RecordFailure(c)

Next ==
  \/ \E w \in Works : Plan(w) \/ Expire(w)
  \/ \E d \in Dispatchers : Dispatcher(d)
  \/ \E c \in Consumers : Consumer(c)
  \/ \E p \in Processes : TransactionFails(p) \/ Crash(p)
  \/ SelectCommander

Spec == Init /\ [][Next]_vars

(* Workers poll at a fixed cadence, so an enabled step of a process is     *)
(* eventually taken; the clock passes an abandoned lease; due work is      *)
(* planned.  Nothing is assumed of faults or of the operator.              *)
Fairness ==
  /\ \A d \in Dispatchers : WF_vars(Dispatcher(d))
  /\ \A c \in Consumers : WF_vars(Consumer(c))
  /\ \A w \in Works : WF_vars(Plan(w)) /\ WF_vars(~HolderAtWork(w) /\ Expire(w))

FairSpec == Spec /\ Fairness

-----------------------------------------------------------------------------
(* "A reclaimed or expired worker cannot append a receipt or outcome": a   *)
(* receipt or an outcome always lies directly on the lease of the process  *)
(* that appends it, whatever was reclaimed, committed or claimed from an   *)
(* old snapshot in between (commit_dispatch, fail_dispatch,                *)
(* record_execution_outcome).                                              *)
AppendsOnOwnLease(w) ==
  /\ ev'[w] # ev[w] /\ ev'[w].status \in {"DISPATCHED", "SUCCEEDED", "FAILED"}
  /\ ev'[w].holder # None
  => /\ ev[w].holder = ev'[w].holder /\ ev[w].attempt = ev'[w].attempt
     /\ ev[w].status = IF ev'[w].status = "DISPATCHED" \/ ev'[w].receipt = 0
                       THEN "LEASED" ELSE "EXECUTING"

OutcomesOnOwnLease == [][\A w \in Works : AppendsOnOwnLease(w)]_vars

(* A dispatch lease always opens the next attempt and no event goes back   *)
(* to an earlier one: two claims never share an attempt number, from which *)
(* receipt_id and execution_id are derived, although claim_next and        *)
(* claim_execution take it from a snapshot.                                *)
AttemptsAdvance ==
  [][\A w \in Works : ev'[w] # ev[w] =>
       IF ev'[w].status = "LEASED" /\ ev'[w].live
       THEN ev'[w].attempt = ev[w].attempt + 1
       ELSE ev'[w].attempt = ev[w].attempt]_vars

(* An item whose kind has a predecessor is only ever leased after the      *)
(* predecessor's item has had a SUCCEEDED event                            *)
(* (_schedule_prerequisite_predicate).                                     *)
DependentsFollowSuccess ==
  \A w \in Works : ev[w].attempt > 0 /\ Kind[w] \in DOMAIN PredecessorKind =>
    \E v \in Works : /\ Kind[v] = PredecessorKind[Kind[w]]
                     /\ \E n \in 1..MaxAttempts : <<"succeeded", n>> \in keys[v]

(* A claimed execution ends in an outcome: operations.md says that context *)
(* reuse fails closed, with the failure stored and bounded retries.        *)
ExecutionsEnd ==
  \A w \in Works : ev[w].status = "EXECUTING" ~> ev[w].status # "EXECUTING"

=============================================================================
