----------------------------- MODULE PaperCycles -----------------------------
(***************************************************************************)
(* The paper-cycle store and the Q1 workers that lease cycles from it.     *)
(*                                                                         *)
(* A worker claims a due cycle (claim_next), prepares its results without  *)
(* holding anything, and commits them in one transaction that first locks  *)
(* the cycle row and checks the lease (require_cycle_fence), then writes   *)
(* the results, then marks the row COMPLETED (complete_fenced_cycle).  A   *)
(* worker may be arbitrarily slow, may crash, and may find its cycle       *)
(* reclaimed.  PostgreSQL is modelled: row locks, SKIP LOCKED on claims,   *)
(* and the database clock `now` for every lease comparison.                *)
(***************************************************************************)
EXTENDS CycleKinds, FiniteSets

CONSTANTS
  Cycles,      \* cycle_id values: the slots ensure_slots has created
  Kind,        \* Kind[c]: cycle_kind
  Sched,       \* Sched[c]: scheduled_at
  Workers,     \* worker processes (and threads of one process)
  OwnerOf,     \* OwnerOf[w]: "hostname:pid", which two workers may share
  Grace,       \* Grace[k]: how late a cycle of kind k may still be claimed
  Lease,       \* lease duration
  MaxTime,     \* bound: the database clock stops here
  MaxFaults,   \* bound: crashes, deferrals and overrun leases, in total
  NoOne        \* no owner, no lock holder, no cycle

ASSUME CyclesAssumption ==
  /\ Kind \in [Cycles -> CycleKind]
  /\ Sched \in [Cycles -> Nat]
  /\ Grace \in [CycleKind -> Nat] /\ Lease \in Nat \ {0}
  /\ MaxTime \in Nat /\ MaxFaults \in Nat
  /\ NoOne \notin Cycles /\ NoOne \notin Workers
  /\ \A w \in Workers : OwnerOf[w] # NoOne

VARIABLES
  now,      \* clock_timestamp()
  row,      \* row[c]: the mutable columns of the paper_cycles row
  lock,     \* lock[c]: the worker whose open transaction locked the row
  pc,       \* pc[w]: where worker w is in its tick
  held,     \* held[w]: the cycle w is processing, and the attempt it claimed
  applied,  \* applied[c]: the claims whose domain writes were committed
  faults    \* faults left

vars == <<now, row, lock, pc, held, applied, faults>>

PcValue == {"idle", "working", "committing", "failing"}
Nothing == [cycle |-> NoOne, attempt |-> 0]

Row == [status : CycleStatus, owner : {OwnerOf[w] : w \in Workers} \cup {NoOne},
        lease : Nat, attempt : Nat]

TypeOK ==
  /\ now \in 0..MaxTime
  /\ row \in [Cycles -> Row]
  /\ lock \in [Cycles -> Workers \cup {NoOne}]
  /\ pc \in [Workers -> PcValue]
  /\ held \in [Workers -> [cycle : Cycles \cup {NoOne}, attempt : Nat]]
  /\ applied \in [Cycles -> SUBSET (Workers \X Nat)]
  /\ faults \in 0..MaxFaults

\* ensure_slots inserted every row PENDING with attempt_count 0.
Init ==
  /\ now = 0
  /\ row = [c \in Cycles |->
              [status |-> "PENDING", owner |-> NoOne, lease |-> 0, attempt |-> 0]]
  /\ lock = [c \in Cycles |-> NoOne]
  /\ pc = [w \in Workers |-> "idle"]
  /\ held = [w \in Workers |-> Nothing]
  /\ applied = [c \in Cycles |-> {}]
  /\ faults = MaxFaults

-----------------------------------------------------------------------------

Claimable(c) ==
  /\ Sched[c] <= now
  /\ \/ row[c].status = "PENDING"
     \/ row[c].status = "RUNNING" /\ row[c].lease <= now

\* The row LIMIT 1 FOR UPDATE SKIP LOCKED returns.
NextDue(c) ==
  /\ Claimable(c) /\ lock[c] = NoOne
  /\ \A d \in Cycles :
       Claimable(d) /\ lock[d] = NoOne /\ d # c
         => Precedes(Sched[c], Kind[c], Sched[d], Kind[d])

MissedWindow(c) ==
  Kind[c] \notin RetryableKinds /\ now > Sched[c] + Grace[Kind[c]]

\* (SkipMissedRenamed: a status the rest of the store does not know.)
SkipMissedRenamed(w) ==
  /\ pc[w] = "idle"
  /\ \E c \in Cycles :
       /\ NextDue(c) /\ MissedWindow(c)
       /\ row' = [row EXCEPT ![c].status = "MISSED_WINDOW"]
  /\ UNCHANGED <<now, lock, pc, held, applied, faults>>

\* One round of the claim loop that closes a cycle nobody claimed in time.
\* The lease columns of the row are left as they are.
SkipMissed(w) ==
  /\ pc[w] = "idle"
  /\ \E c \in Cycles :
       /\ NextDue(c) /\ MissedWindow(c)
       /\ row' = [row EXCEPT ![c].status = "SKIPPED_MISSED_WINDOW"]
  /\ UNCHANGED <<now, lock, pc, held, applied, faults>>

\* claim_next returns a row: RUNNING, leased, one more attempt.
Claim(w) ==
  /\ pc[w] = "idle"
  /\ \E c \in Cycles :
       /\ NextDue(c) /\ ~MissedWindow(c)
       /\ row' = [row EXCEPT ![c] = [status |-> "RUNNING", owner |-> OwnerOf[w],
                                     lease |-> now + Lease,
                                     attempt |-> row[c].attempt + 1]]
       /\ held' = [held EXCEPT ![w] = [cycle |-> c, attempt |-> row[c].attempt + 1]]
  /\ pc' = [pc EXCEPT ![w] = "working"]
  /\ UNCHANGED <<now, lock, applied, faults>>

\* The comparison that require_cycle_fence, _require_cycle_fence and
\* _require_cycle_lease all make, on a row they have locked.
\* (HoldsLeaseOwnerOnly: without the attempt; HoldsLeaseUnchecked: unfenced.)
HoldsLeaseOwnerOnly(w, c) ==
  /\ row[c].status = "RUNNING"
  /\ row[c].owner = OwnerOf[w]
  /\ row[c].lease > now

HoldsLeaseUnchecked(w, c) ==
  TRUE

HoldsLease(w, c) ==
  /\ row[c].status = "RUNNING"
  /\ row[c].owner = OwnerOf[w]
  /\ row[c].attempt = held[w].attempt
  /\ row[c].lease > now

\* Row c with a new status and its lease columns cleared.
Unleased(c, status) ==
  [row EXCEPT ![c] = [status |-> status, owner |-> NoOne, lease |-> 0,
                      attempt |-> row[c].attempt]]

Release(w) ==
  /\ pc' = [pc EXCEPT ![w] = "idle"]
  /\ held' = [held EXCEPT ![w] = Nothing]

\* The processor raised Q1CycleNotReady: defer puts the cycle back, unless the
\* lease is gone, in which case the worker only reports itself stale.
Defer(w) ==
  /\ pc[w] = "working" /\ faults > 0
  /\ faults' = faults - 1
  /\ LET c == held[w].cycle IN
       /\ lock[c] = NoOne
       /\ row' = IF HoldsLease(w, c)
                 THEN Unleased(c, "PENDING") ELSE row
  /\ Release(w)
  /\ UNCHANGED <<now, lock, applied>>

\* The commit transaction opens: require_cycle_fence locks the row and raises
\* Q1StaleWorkerError unless the lease is held.
BeginCommit(w) ==
  /\ pc[w] = "working"
  /\ LET c == held[w].cycle IN
       /\ lock[c] = NoOne
       /\ \/ /\ HoldsLease(w, c)
             /\ lock' = [lock EXCEPT ![c] = w]
             /\ pc' = [pc EXCEPT ![w] = "committing"]
             /\ UNCHANGED held
          \/ /\ ~HoldsLease(w, c)
             /\ Release(w)
             /\ UNCHANGED lock
  /\ UNCHANGED <<now, row, applied, faults>>

\* (FinishCommitOpen: the writer commits but nobody marks the row COMPLETED.)
FinishCommitOpen(w) ==
  /\ pc[w] = "committing"
  /\ applied' = [applied EXCEPT ![held[w].cycle] = @ \cup {<<w, held[w].attempt>>}]
  /\ lock' = [lock EXCEPT ![held[w].cycle] = NoOne]
  /\ Release(w)
  /\ UNCHANGED <<now, row, faults>>

\* The writer and complete_fenced_cycle run and the transaction commits.  The
\* lease may have lapsed since the fence was checked: the row lock protects it.
FinishCommit(w) ==
  /\ pc[w] = "committing"
  /\ LET c == held[w].cycle IN
       /\ row' = Unleased(c, "COMPLETED")
       /\ applied' = [applied EXCEPT ![c] = @ \cup {<<w, held[w].attempt>>}]
       /\ lock' = [lock EXCEPT ![c] = NoOne]
  /\ Release(w)
  /\ UNCHANGED <<now, faults>>

\* Preparation or the writer raised: the transaction, if open, rolls back.
Raise(w) ==
  /\ pc[w] \in {"working", "committing"}
  /\ lock' = [c \in Cycles |-> IF lock[c] = w THEN NoOne ELSE lock[c]]
  /\ pc' = [pc EXCEPT ![w] = "failing"]
  /\ UNCHANGED <<now, row, held, applied, faults>>

\* _fail_cycle: FAILED if the lease is still held, otherwise a stale worker.
Fail(w) ==
  /\ pc[w] = "failing"
  /\ LET c == held[w].cycle IN
       /\ lock[c] = NoOne
       /\ row' = IF HoldsLease(w, c)
                 THEN Unleased(c, "FAILED") ELSE row
  /\ Release(w)
  /\ UNCHANGED <<now, lock, applied, faults>>

\* The process dies; the server rolls back its transaction.
Crash(w) ==
  /\ pc[w] # "idle" /\ faults > 0
  /\ now + Lease <= MaxTime
  /\ faults' = faults - 1
  /\ lock' = [c \in Cycles |-> IF lock[c] = w THEN NoOne ELSE lock[c]]
  /\ Release(w)
  /\ UNCHANGED <<now, row, applied>>

\* Leases that run out at the next instant under a worker still at work.
Overrun == {w \in Workers :
              /\ pc[w] \in {"working", "failing"}
              /\ HoldsLease(w, held[w].cycle)
              /\ row[held[w].cycle].lease = now + 1}

Tick ==
  /\ now < MaxTime
  /\ now' = now + 1
  /\ \/ Overrun = {} /\ UNCHANGED faults
     \/ Overrun # {} /\ faults > 0 /\ faults' = faults - 1
  /\ UNCHANGED <<row, lock, pc, held, applied>>

Step(w) ==
  \/ SkipMissed(w) \/ Claim(w) \/ Defer(w) \/ BeginCommit(w)
  \/ FinishCommit(w) \/ Raise(w) \/ Fail(w) \/ Crash(w)

Next == Tick \/ \E w \in Workers : Step(w)

\* The worker loop never stops polling and every transaction ends.
Fairness ==
  /\ WF_vars(Tick)
  /\ \A w \in Workers :
       /\ WF_vars(SkipMissed(w) \/ Claim(w))
       /\ WF_vars(BeginCommit(w)) /\ WF_vars(FinishCommit(w)) /\ WF_vars(Fail(w))

Spec == Init /\ [][Next]_vars
FairSpec == Spec /\ Fairness

-----------------------------------------------------------------------------
(***************************************************************************)
(* Properties                                                              *)
(***************************************************************************)

\* The domain writes of a cycle are committed at most once, however often the
\* cycle is deferred, reclaimed or retried (require_cycle_fence and
\* complete_fenced_cycle in one transaction).
AppliedOnce ==
  \A c \in Cycles : \A x, y \in applied[c] : x = y

\* The writes are there exactly when the row says COMPLETED: a cycle that was
\* failed or skipped left nothing behind, and none is completed without them.
AppliedIffCompleted ==
  \A c \in Cycles : applied[c] # {} <=> row[c].status = "COMPLETED"

\* Only the newest claim of a cycle ever commits: after a reclaim the previous
\* worker's results are lost, even when both share one "hostname:pid" owner.
OnlyNewestClaimApplies ==
  \A c \in Cycles : \A x \in applied[c] : x[2] = row[c].attempt

\* Two workers never both pass the fence of one cycle: among the workers that
\* still process a cycle at most one would be found to hold its lease.
SoleHolder ==
  \A v, w \in Workers :
    /\ v # w /\ pc[v] # "idle" /\ pc[w] # "idle"
    /\ held[v].cycle = held[w].cycle
    => ~(HoldsLease(v, held[v].cycle) /\ HoldsLease(w, held[w].cycle))

\* No handler, not even a stale worker's late defer or fail, changes a row that
\* reached COMPLETED, FAILED or SKIPPED_MISSED_WINDOW.
ClosedRowsStay ==
  [][\A c \in Cycles : row[c].status \in TerminalStatus => row'[c] = row[c]]_vars


\* What the rest of the system relies on: see CycleOnce.
Outcome == [c \in Cycles |->
              CASE row[c].status = "COMPLETED" -> "applied"
                [] row[c].status \in {"FAILED", "SKIPPED_MISSED_WINDOW"} -> "dropped"
                [] OTHER -> "open"]

Once == INSTANCE CycleOnce WITH outcome <- Outcome,
                                effects <- [c \in Cycles |-> Cardinality(applied[c])]

\* The store and its workers implement CycleOnce: each cycle is opened, then
\* applied with exactly one set of writes, or dropped with none.
ImplementsCycleOnce == Once!Spec
=============================================================================
