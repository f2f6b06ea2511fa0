-------------------------- MODULE PaperCyclesProofs --------------------------
(***************************************************************************)
(* Proofs about PaperCycles for any set of cycles and workers, any owner   *)
(* assignment, any lease, grace, horizon and number of faults.             *)
(***************************************************************************)
EXTENDS PaperCycles, FiniteSetTheorems, TLAPS

\* A row lock belongs to a worker inside the commit of that row's cycle.
LockHeldByCommitter ==
  \A c \in Cycles : lock[c] # NoOne => /\ lock[c] \in Workers
                                       /\ pc[lock[c]] = "committing"
                                       /\ held[lock[c]].cycle = c

\* A worker inside a commit has locked its row, and nobody changed the row
\* since the fence found the worker's claim there.
CommitterIsCurrent ==
  \A w \in Workers : pc[w] = "committing" =>
    /\ held[w].cycle \in Cycles
    /\ lock[held[w].cycle] = w
    /\ row[held[w].cycle].status = "RUNNING"
    /\ row[held[w].cycle].attempt = held[w].attempt

\* A worker at work remembers a claim that really happened.
ClaimsHappened ==
  \A w \in Workers : pc[w] # "idle" =>
    /\ held[w].cycle \in Cycles
    /\ held[w].attempt <= row[held[w].cycle].attempt

\* attempt_count tells two claims of one cycle apart.
ClaimsDistinct ==
  \A v, w \in Workers :
    /\ v # w /\ pc[v] # "idle" /\ pc[w] # "idle"
    /\ held[v].cycle = held[w].cycle
    => held[v].attempt # held[w].attempt

ClaimInv ==
  /\ LockHeldByCommitter
  /\ CommitterIsCurrent
  /\ ClaimsHappened
  /\ ClaimsDistinct

AppliedInv ==
  /\ AppliedOnce
  /\ AppliedIffCompleted
  /\ OnlyNewestClaimApplies

IInv == TypeOK /\ ClaimInv /\ AppliedInv
-----------------------------------------------------------------------------
(***************************************************************************)
(* Typing                                                                  *)
(***************************************************************************)

\* Clearing the lease columns keeps the row well typed.
LEMMA UnleasedType ==
  ASSUME TypeOK, NEW c \in Cycles, NEW s \in CycleStatus
  PROVE  Unleased(c, s) \in [Cycles -> Row]
BY DEF TypeOK, Row, Unleased

\* Every step of the store and of its workers keeps the columns well typed.
LEMMA TypeStep == TypeOK /\ ClaimsHappened /\ [Next]_vars => TypeOK'
<1> SUFFICES ASSUME TypeOK, ClaimsHappened, [Next]_vars PROVE TypeOK'
  OBVIOUS
<1>a. Nothing \in [cycle : Cycles \cup {NoOne}, attempt : Nat]
  BY DEF Nothing
<1>b. /\ "PENDING" \in CycleStatus /\ "RUNNING" \in CycleStatus
      /\ "COMPLETED" \in CycleStatus /\ "FAILED" \in CycleStatus
      /\ "SKIPPED_MISSED_WINDOW" \in CycleStatus
  BY DEF CycleStatus, TerminalStatus
<1>1. ASSUME NEW w \in Workers, SkipMissed(w) PROVE TypeOK'
  <2>1. PICK c \in Cycles : row' = [row EXCEPT ![c].status = "SKIPPED_MISSED_WINDOW"]
    BY <1>1 DEF SkipMissed
  <2>2. row' \in [Cycles -> Row]
    BY <2>1, <1>b DEF TypeOK, Row
  <2> QED BY <1>1, <2>2 DEF SkipMissed, TypeOK
<1>2. ASSUME NEW w \in Workers, Claim(w) PROVE TypeOK'
  BY <1>2, <1>b, CyclesAssumption DEF Claim, TypeOK, Row, PcValue
<1>3. ASSUME NEW w \in Workers, Defer(w) PROVE TypeOK'
  <2>1. held[w].cycle \in Cycles
    BY <1>3 DEF Defer, ClaimsHappened
  <2>2. row' \in [Cycles -> Row]
    BY <1>3, <2>1, <1>b, UnleasedType DEF Defer, TypeOK
  <2> QED BY <1>3, <2>2, <1>a, CyclesAssumption DEF Defer, Release, TypeOK, PcValue
<1>4. ASSUME NEW w \in Workers, BeginCommit(w) PROVE TypeOK'
  BY <1>4, <1>a DEF BeginCommit, Release, TypeOK, PcValue
<1>5. ASSUME NEW w \in Workers, FinishCommit(w) PROVE TypeOK'
  <2>1. held[w].cycle \in Cycles
    BY <1>5 DEF FinishCommit, ClaimsHappened
  <2>2. row' \in [Cycles -> Row]
    BY <1>5, <2>1, <1>b, UnleasedType DEF FinishCommit, TypeOK
  <2>3. applied' \in [Cycles -> SUBSET (Workers \X Nat)]
    <3> DEFINE claim == <<w, held[w].attempt>>
    <3>1. applied' = [applied EXCEPT ![held[w].cycle] = @ \cup {claim}]
      BY <1>5 DEF FinishCommit
    <3>2. claim \in Workers \X Nat
      BY DEF TypeOK
    <3> HIDE DEF claim
    <3> QED BY <3>1, <3>2 DEF TypeOK
  <2> QED BY <1>5, <2>2, <2>3, <1>a DEF FinishCommit, Release, TypeOK, PcValue
<1>6. ASSUME NEW w \in Workers, Raise(w) PROVE TypeOK'
  BY <1>6 DEF Raise, TypeOK, PcValue
<1>7. ASSUME NEW w \in Workers, Fail(w) PROVE TypeOK'
  <2>1. held[w].cycle \in Cycles
    BY <1>7 DEF Fail, ClaimsHappened
  <2>2. row' \in [Cycles -> Row]
    BY <1>7, <2>1, <1>b, UnleasedType DEF Fail, TypeOK
  <2> QED BY <1>7, <2>2, <1>a DEF Fail, Release, TypeOK, PcValue
<1>8. ASSUME NEW w \in Workers, Crash(w) PROVE TypeOK'
  BY <1>8, <1>a, CyclesAssumption DEF Crash, Release, TypeOK, PcValue
<1>9. CASE Tick
  BY <1>9, CyclesAssumption DEF Tick, TypeOK
<1>10. CASE UNCHANGED vars
  BY <1>10 DEF vars, TypeOK
<1> QED BY <1>1, <1>2, <1>3, <1>4, <1>5, <1>6, <1>7, <1>8, <1>9, <1>10 DEF Next, Step

-----------------------------------------------------------------------------
(***************************************************************************)
(* Leases: locks, claims and attempts                                      *)
(***************************************************************************)

\* Every step keeps locks and claims in agreement.
LEMMA ClaimStep == TypeOK /\ ClaimInv /\ [Next]_vars => ClaimInv'
<1> SUFFICES ASSUME TypeOK, ClaimInv, [Next]_vars PROVE ClaimInv'
  OBVIOUS
<1> USE DEF ClaimInv
<1>1. ASSUME NEW w \in Workers, SkipMissed(w) PROVE ClaimInv'
  <2>1. PICK c \in Cycles : /\ lock[c] = NoOne
                            /\ row' = [row EXCEPT ![c].status = "SKIPPED_MISSED_WINDOW"]
    BY <1>1 DEF SkipMissed, NextDue
  <2>2. \A d \in Cycles : /\ row'[d].attempt = row[d].attempt
                          /\ d # c => row'[d] = row[d]
    BY <2>1 DEF TypeOK, Row
  <2>3. UNCHANGED <<lock, pc, held>>
    BY <1>1 DEF SkipMissed
  <2>4. CommitterIsCurrent'
    BY <2>1, <2>2, <2>3, CyclesAssumption DEF CommitterIsCurrent
  <2>5. LockHeldByCommitter' /\ ClaimsHappened' /\ ClaimsDistinct'
    BY <2>2, <2>3 DEF LockHeldByCommitter, ClaimsHappened, ClaimsDistinct
  <2> QED BY <2>4, <2>5
<1>2. ASSUME NEW w \in Workers, Claim(w) PROVE ClaimInv'
  <2>1. PICK c \in Cycles :
          /\ lock[c] = NoOne
          /\ row' = [row EXCEPT ![c] = [status |-> "RUNNING", owner |-> OwnerOf[w],
                                        lease |-> now + Lease,
                                        attempt |-> row[c].attempt + 1]]
          /\ held' = [held EXCEPT ![w] = [cycle |-> c, attempt |-> row[c].attempt + 1]]
    BY <1>2 DEF Claim, NextDue
  <2>2. /\ pc[w] = "idle" /\ pc' = [pc EXCEPT ![w] = "working"] /\ lock' = lock
    BY <1>2 DEF Claim
  <2>3. \A d \in Cycles : /\ row[d].attempt \in Nat
                          /\ row'[d].attempt = IF d = c THEN row[d].attempt + 1
                                               ELSE row[d].attempt
                          /\ d # c => row'[d] = row[d]
    BY <2>1 DEF TypeOK, Row
  <2>4. \A v \in Workers : /\ held[v].attempt \in Nat
                           /\ v # w => held'[v] = held[v] /\ pc'[v] = pc[v]
    BY <2>1, <2>2 DEF TypeOK
  <2>5. /\ held'[w].cycle = c /\ held'[w].attempt = row[c].attempt + 1
        /\ pc'[w] = "working"
    BY <2>1, <2>2 DEF TypeOK
  <2>6. LockHeldByCommitter'
    BY <2>2, <2>4 DEF LockHeldByCommitter
  <2>7. CommitterIsCurrent'
    BY <2>1, <2>2, <2>3, <2>4, <2>5, CyclesAssumption DEF CommitterIsCurrent
  <2>8. ClaimsHappened'
    BY <2>3, <2>4, <2>5 DEF ClaimsHappened
  <2>9. ClaimsDistinct'
    BY <2>3, <2>4, <2>5 DEF ClaimsDistinct, ClaimsHappened
  <2> QED BY <2>6, <2>7, <2>8, <2>9
<1>r. ASSUME NEW w \in Workers, NEW c \in Cycles,
             pc[w] # "committing", Release(w), lock' = lock, lock[c] = NoOne,
             \A d \in Cycles : /\ row'[d].attempt = row[d].attempt
                               /\ d # c => row'[d] = row[d]
      PROVE  ClaimInv'
  <2>1. /\ pc'[w] = "idle"
        /\ \A v \in Workers : v # w => held'[v] = held[v] /\ pc'[v] = pc[v]
    BY <1>r DEF Release, TypeOK
  <2>2. LockHeldByCommitter'
    BY <1>r, <2>1 DEF LockHeldByCommitter
  <2>3. CommitterIsCurrent'
    BY <1>r, <2>1, CyclesAssumption DEF CommitterIsCurrent
  <2>4. ClaimsHappened' /\ ClaimsDistinct'
    BY <1>r, <2>1 DEF ClaimsHappened, ClaimsDistinct
  <2> QED BY <2>2, <2>3, <2>4
<1>u. ASSUME NEW c \in Cycles, NEW s, row' = Unleased(c, s)
      PROVE  \A d \in Cycles : /\ row'[d].attempt = row[d].attempt
                               /\ d # c => row'[d] = row[d]
  BY <1>u DEF Unleased, TypeOK, Row
<1>3. ASSUME NEW w \in Workers, Defer(w) PROVE ClaimInv'
  <2> DEFINE c == held[w].cycle
  <2>1. c \in Cycles /\ pc[w] = "working" /\ lock[c] = NoOne /\ lock' = lock /\ Release(w)
    BY <1>3 DEF Defer, ClaimsHappened
  <2>2. row' = Unleased(c, "PENDING") \/ row' = row
    BY <1>3 DEF Defer
  <2> HIDE DEF c
  <2> QED BY <2>1, <2>2, <1>r, <1>u
<1>4. ASSUME NEW w \in Workers, BeginCommit(w) PROVE ClaimInv'
  <2> DEFINE c == held[w].cycle
  <2>1. c \in Cycles /\ pc[w] = "working" /\ lock[c] = NoOne /\ row' = row
    BY <1>4 DEF BeginCommit, ClaimsHappened
  <2>2. CASE ~HoldsLease(w, c)
    <3>1. Release(w) /\ lock' = lock
      BY <1>4, <2>2 DEF BeginCommit
    <3> HIDE DEF c
    <3> QED BY <2>1, <3>1, <1>r
  <2>3. CASE HoldsLease(w, c)
    <3>1. /\ lock' = [lock EXCEPT ![c] = w]
          /\ pc' = [pc EXCEPT ![w] = "committing"]
          /\ held' = held
      BY <1>4, <2>3 DEF BeginCommit
    <3>2. row[c].status = "RUNNING" /\ row[c].attempt = held[w].attempt
      BY <2>3 DEF HoldsLease
    <3>3. \A d \in Cycles : lock'[d] = IF d = c THEN w ELSE lock[d]
      BY <2>1, <3>1 DEF TypeOK
    <3>4. \A v \in Workers : pc'[v] = IF v = w THEN "committing" ELSE pc[v]
      BY <2>1, <3>1 DEF TypeOK
    <3>5. LockHeldByCommitter'
      BY <3>1, <3>3, <3>4 DEF LockHeldByCommitter
    <3>6. CommitterIsCurrent'
      BY <2>1, <3>1, <3>2, <3>3, <3>4, CyclesAssumption DEF CommitterIsCurrent
    <3>7. ClaimsHappened' /\ ClaimsDistinct'
      BY <2>1, <3>1, <3>4 DEF ClaimsHappened, ClaimsDistinct
    <3> QED BY <3>5, <3>6, <3>7
  <2> QED BY <2>2, <2>3
<1>5. ASSUME NEW w \in Workers, FinishCommit(w) PROVE ClaimInv'
  <2> DEFINE c == held[w].cycle
  <2>1. c \in Cycles /\ pc[w] = "committing" /\ lock[c] = w
    BY <1>5 DEF FinishCommit, CommitterIsCurrent
  <2>2. /\ row' = Unleased(c, "COMPLETED") /\ lock' = [lock EXCEPT ![c] = NoOne]
        /\ Release(w)
    BY <1>5 DEF FinishCommit
  <2>3. /\ pc'[w] = "idle"
        /\ \A v \in Workers : v # w => held'[v] = held[v] /\ pc'[v] = pc[v]
    BY <2>2 DEF Release, TypeOK
  <2>4. \A d \in Cycles : /\ lock'[d] = IF d = c THEN NoOne ELSE lock[d]
                          /\ row'[d].attempt = row[d].attempt
                          /\ d # c => row'[d] = row[d]
    BY <2>1, <2>2, <1>u DEF TypeOK
  <2>5. LockHeldByCommitter'
    BY <2>1, <2>3, <2>4 DEF LockHeldByCommitter
  <2>6. CommitterIsCurrent'
    BY <2>1, <2>3, <2>4 DEF CommitterIsCurrent
  <2>7. ClaimsHappened' /\ ClaimsDistinct'
    BY <2>3, <2>4 DEF ClaimsHappened, ClaimsDistinct
  <2> QED BY <2>5, <2>6, <2>7
<1>l. ASSUME NEW w \in Workers, NEW d \in Cycles,
             lock' = [c \in Cycles |-> IF lock[c] = w THEN NoOne ELSE lock[c]]
      PROVE  lock'[d] = IF lock[d] = w THEN NoOne ELSE lock[d]
  BY <1>l
<1>6. ASSUME NEW w \in Workers, Raise(w) PROVE ClaimInv'
  <2>1. /\ pc[w] \in {"working", "committing"} /\ row' = row /\ held' = held
        /\ \A v \in Workers : pc'[v] = IF v = w THEN "failing" ELSE pc[v]
        /\ \A d \in Cycles : lock'[d] = IF lock[d] = w THEN NoOne ELSE lock[d]
    BY <1>6, <1>l DEF Raise, TypeOK
  <2>2. LockHeldByCommitter'
    BY <2>1 DEF LockHeldByCommitter
  <2>3. CommitterIsCurrent'
    BY <2>1 DEF CommitterIsCurrent
  <2>4. ClaimsHappened' /\ ClaimsDistinct'
    BY <2>1 DEF ClaimsHappened, ClaimsDistinct
  <2> QED BY <2>2, <2>3, <2>4
<1>7. ASSUME NEW w \in Workers, Fail(w) PROVE ClaimInv'
  <2> DEFINE c == held[w].cycle
  <2>1. c \in Cycles /\ pc[w] = "failing" /\ lock[c] = NoOne /\ lock' = lock /\ Release(w)
    BY <1>7 DEF Fail, ClaimsHappened
  <2>2. row' = Unleased(c, "FAILED") \/ row' = row
    BY <1>7 DEF Fail
  <2> HIDE DEF c
  <2> QED BY <2>1, <2>2, <1>r, <1>u
<1>8. ASSUME NEW w \in Workers, Crash(w) PROVE ClaimInv'
  <2>1. /\ row' = row /\ pc'[w] = "idle"
        /\ \A v \in Workers : v # w => held'[v] = held[v] /\ pc'[v] = pc[v]
        /\ \A d \in Cycles : lock'[d] = IF lock[d] = w THEN NoOne ELSE lock[d]
    BY <1>8, <1>l DEF Crash, Release, TypeOK
  <2>2. LockHeldByCommitter'
    BY <2>1 DEF LockHeldByCommitter
  <2>3. CommitterIsCurrent'
    BY <2>1 DEF CommitterIsCurrent
  <2>4. ClaimsHappened' /\ ClaimsDistinct'
    BY <2>1 DEF ClaimsHappened, ClaimsDistinct
  <2> QED BY <2>2, <2>3, <2>4
<1>9. CASE Tick
  BY <1>9 DEF Tick, LockHeldByCommitter, CommitterIsCurrent, ClaimsHappened, ClaimsDistinct
<1>10. CASE UNCHANGED vars
  BY <1>10 DEF vars, LockHeldByCommitter, CommitterIsCurrent, ClaimsHappened, ClaimsDistinct
<1> QED BY <1>1, <1>2, <1>3, <1>4, <1>5, <1>6, <1>7, <1>8, <1>9, <1>10 DEF Next, Step

-----------------------------------------------------------------------------
(***************************************************************************)
(* Closed rows and committed writes                                        *)
(***************************************************************************)

\* What a step does to a row: nothing, or it takes an open row to a status
\* other than COMPLETED, leaving the committed writes alone, or it completes a
\* RUNNING row with the writes of the claim recorded there.
RowStep(c) ==
  \/ row'[c] = row[c] /\ applied'[c] = applied[c]
  \/ /\ row[c].status \in {"PENDING", "RUNNING"}
     /\ row'[c].status \in CycleStatus \ {"COMPLETED"}
     /\ applied'[c] = applied[c]
  \/ /\ row[c].status = "RUNNING"
     /\ row'[c].status = "COMPLETED" /\ row'[c].attempt = row[c].attempt
     /\ \E w \in Workers : applied'[c] = applied[c] \cup {<<w, row[c].attempt>>}

\* Every step treats every row in one of these three ways.
LEMMA RowStepLemma ==
  TypeOK /\ ClaimInv /\ [Next]_vars => \A c \in Cycles : RowStep(c)
<1> SUFFICES ASSUME TypeOK, ClaimInv, [Next]_vars, NEW d \in Cycles PROVE RowStep(d)
  OBVIOUS
<1>s. /\ "PENDING" \in CycleStatus \ {"COMPLETED"} /\ "RUNNING" \in CycleStatus \ {"COMPLETED"}
      /\ "FAILED" \in CycleStatus \ {"COMPLETED"}
      /\ "SKIPPED_MISSED_WINDOW" \in CycleStatus \ {"COMPLETED"}
  BY DEF CycleStatus, TerminalStatus
<1>1. ASSUME NEW w \in Workers, SkipMissed(w) PROVE RowStep(d)
  <2>1. PICK c \in Cycles : /\ row[c].status \in {"PENDING", "RUNNING"}
                            /\ row' = [row EXCEPT ![c].status = "SKIPPED_MISSED_WINDOW"]
    BY <1>1 DEF SkipMissed, NextDue, Claimable
  <2>2. applied' = applied
    BY <1>1 DEF SkipMissed
  <2> QED BY <2>1, <2>2, <1>s DEF RowStep, TypeOK, Row
<1>2. ASSUME NEW w \in Workers, Claim(w) PROVE RowStep(d)
  <2>1. PICK c \in Cycles :
          /\ row[c].status \in {"PENDING", "RUNNING"}
          /\ row' = [row EXCEPT ![c] = [status |-> "RUNNING", owner |-> OwnerOf[w],
                                        lease |-> now + Lease,
                                        attempt |-> row[c].attempt + 1]]
    BY <1>2 DEF Claim, NextDue, Claimable
  <2>2. applied' = applied
    BY <1>2 DEF Claim
  <2> QED BY <2>1, <2>2, <1>s DEF RowStep, TypeOK
<1>3. ASSUME NEW w \in Workers, Defer(w) PROVE RowStep(d)
  <2>1. /\ held[w].cycle \in Cycles /\ applied' = applied
        /\ \/ row' = row
           \/ /\ row[held[w].cycle].status = "RUNNING"
              /\ row' = Unleased(held[w].cycle, "PENDING")
    BY <1>3 DEF Defer, HoldsLease, ClaimInv, ClaimsHappened
  <2> QED BY <2>1, <1>s DEF RowStep, Unleased, TypeOK
<1>4. ASSUME NEW w \in Workers, BeginCommit(w) PROVE RowStep(d)
  BY <1>4 DEF BeginCommit, RowStep
<1>5. ASSUME NEW w \in Workers, FinishCommit(w) PROVE RowStep(d)
  <2> DEFINE c == held[w].cycle
  <2>1. /\ c \in Cycles /\ row[c].status = "RUNNING" /\ row[c].attempt = held[w].attempt
        /\ row' = Unleased(c, "COMPLETED")
        /\ applied' = [applied EXCEPT ![c] = @ \cup {<<w, held[w].attempt>>}]
    BY <1>5 DEF FinishCommit, ClaimInv, CommitterIsCurrent
  <2> HIDE DEF c
  <2>2. CASE d = c
    <3>1. row'[d].status = "COMPLETED" /\ row'[d].attempt = row[d].attempt
      BY <2>1, <2>2 DEF Unleased, TypeOK
    <3>2. applied'[d] = applied[d] \cup {<<w, row[d].attempt>>}
      BY <2>1, <2>2 DEF TypeOK
    <3> QED BY <2>1, <2>2, <3>1, <3>2 DEF RowStep
  <2>3. CASE d # c
    BY <2>1, <2>3 DEF RowStep, Unleased, TypeOK
  <2> QED BY <2>2, <2>3
<1>6. ASSUME NEW w \in Workers, Raise(w) PROVE RowStep(d)
  BY <1>6 DEF Raise, RowStep
<1>7. ASSUME NEW w \in Workers, Fail(w) PROVE RowStep(d)
  <2>1. /\ held[w].cycle \in Cycles /\ applied' = applied
        /\ \/ row' = row
           \/ /\ row[held[w].cycle].status = "RUNNING"
              /\ row' = Unleased(held[w].cycle, "FAILED")
    BY <1>7 DEF Fail, HoldsLease, ClaimInv, ClaimsHappened
  <2> QED BY <2>1, <1>s DEF RowStep, Unleased, TypeOK
<1>8. ASSUME NEW w \in Workers, Crash(w) PROVE RowStep(d)
  BY <1>8 DEF Crash, RowStep
<1>9. CASE Tick
  BY <1>9 DEF Tick, RowStep
<1>10. CASE UNCHANGED vars
  BY <1>10 DEF vars, RowStep
<1> QED BY <1>1, <1>2, <1>3, <1>4, <1>5, <1>6, <1>7, <1>8, <1>9, <1>10 DEF Next, Step

\* The committed writes keep agreeing with the rows; attempt_count never moves
\* once writes are there, because such a row is COMPLETED and closed.
LEMMA AppliedStep ==
  TypeOK /\ ClaimInv /\ AppliedInv /\ [Next]_vars => AppliedInv'
<1> SUFFICES ASSUME TypeOK, ClaimInv, AppliedInv, [Next]_vars PROVE AppliedInv'
  OBVIOUS
<1>1. \A c \in Cycles : RowStep(c)
  BY RowStepLemma
<1>2. ASSUME NEW c \in Cycles
      PROVE  /\ \A x, y \in applied'[c] : x = y
             /\ applied'[c] # {} <=> row'[c].status = "COMPLETED"
             /\ \A x \in applied'[c] : x[2] = row'[c].attempt
  <2>0. /\ \A x, y \in applied[c] : x = y
        /\ applied[c] # {} <=> row[c].status = "COMPLETED"
        /\ \A x \in applied[c] : x[2] = row[c].attempt
    BY DEF AppliedInv, AppliedOnce, AppliedIffCompleted, OnlyNewestClaimApplies
  <2>1. CASE row'[c] = row[c] /\ applied'[c] = applied[c]
    BY <2>0, <2>1
  <2>2. CASE /\ row[c].status \in {"PENDING", "RUNNING"}
             /\ row'[c].status \in CycleStatus \ {"COMPLETED"}
             /\ applied'[c] = applied[c]
    BY <2>0, <2>2
  <2>3. CASE /\ row[c].status = "RUNNING"
             /\ row'[c].status = "COMPLETED" /\ row'[c].attempt = row[c].attempt
             /\ \E w \in Workers : applied'[c] = applied[c] \cup {<<w, row[c].attempt>>}
    <3>1. applied[c] = {}
      BY <2>0, <2>3
    <3>2. PICK w \in Workers : applied'[c] = {<<w, row[c].attempt>>}
      BY <2>3, <3>1
    <3>3. <<w, row[c].attempt>>[2] = row[c].attempt
      OBVIOUS
    <3> DEFINE claim == <<w, row[c].attempt>>
    <3> HIDE DEF claim
    <3>4. applied'[c] = {claim} /\ claim[2] = row[c].attempt
      BY <3>2, <3>3 DEF claim
    <3>5. \A x \in applied'[c] : x = claim
      BY <3>4
    <3>6. /\ \A x, y \in applied'[c] : x = y
          /\ \A x \in applied'[c] : x[2] = row'[c].attempt
      BY <2>3, <3>4, <3>5
    <3>7. applied'[c] # {} /\ row'[c].status = "COMPLETED"
      BY <2>3, <3>4
    <3> QED BY <3>6, <3>7
  <2> QED BY <1>1, <2>1, <2>2, <2>3 DEF RowStep
<1> QED BY <1>2 DEF AppliedInv, AppliedOnce, AppliedIffCompleted, OnlyNewestClaimApplies

-----------------------------------------------------------------------------
(***************************************************************************)
(* The theorems                                                            *)
(***************************************************************************)

\* The inductive invariant holds in every reachable state.
THEOREM Invariance == Spec => []IInv
<1>1. Init => IInv
  <2> SUFFICES ASSUME Init PROVE IInv
    OBVIOUS
  <2>1. TypeOK
    BY CyclesAssumption
       DEF Init, TypeOK, Row, CycleStatus, TerminalStatus, Nothing, PcValue
  <2>2. ClaimInv
    BY DEF Init, ClaimInv, LockHeldByCommitter, CommitterIsCurrent, ClaimsHappened,
           ClaimsDistinct
  <2>3. AppliedInv
    BY DEF Init, AppliedInv, AppliedOnce, AppliedIffCompleted, OnlyNewestClaimApplies
  <2> QED BY <2>1, <2>2, <2>3 DEF IInv
<1>2. IInv /\ [Next]_vars => IInv'
  BY TypeStep, ClaimStep, AppliedStep DEF IInv, ClaimInv
<1> QED BY <1>1, <1>2, PTL DEF Spec

\* The columns, locks and worker states stay well typed.
THEOREM TypeCorrect == Spec => []TypeOK
BY Invariance, PTL DEF IInv

\* The domain writes of a cycle are committed at most once.
THEOREM WritesOnce == Spec => []AppliedOnce
<1>1. IInv => AppliedOnce
  BY DEF IInv, AppliedInv
<1> QED BY <1>1, Invariance, PTL

\* They are committed exactly when the row is COMPLETED.
THEOREM WritesIffCompleted == Spec => []AppliedIffCompleted
<1>1. IInv => AppliedIffCompleted
  BY DEF IInv, AppliedInv
<1> QED BY <1>1, Invariance, PTL

\* They are those of the newest claim: a reclaimed worker's are never committed.
THEOREM NewestClaimWins == Spec => []OnlyNewestClaimApplies
<1>1. IInv => OnlyNewestClaimApplies
  BY DEF IInv, AppliedInv
<1> QED BY <1>1, Invariance, PTL

\* At most one worker of a cycle would pass its fence, shared owners included.
THEOREM FenceAdmitsOne == Spec => []SoleHolder
<1>1. IInv => SoleHolder
  BY DEF IInv, ClaimInv, ClaimsDistinct, SoleHolder, HoldsLease
<1> QED BY <1>1, Invariance, PTL

\* COMPLETED, FAILED and SKIPPED_MISSED_WINDOW rows are never written again.
THEOREM ClosedRowsFinal == Spec => ClosedRowsStay
<1>1. IInv /\ [Next]_vars =>
        \A c \in Cycles : row[c].status \in TerminalStatus => row'[c] = row[c]
  BY RowStepLemma DEF IInv, RowStep, TerminalStatus
<1>2. IInv /\ [Next]_vars =>
        [\A c \in Cycles : row[c].status \in TerminalStatus => row'[c] = row[c]]_vars
  BY <1>1
<1> QED BY <1>2, Invariance, PTL DEF Spec, ClosedRowsStay

-----------------------------------------------------------------------------
(***************************************************************************)
(* Refinement of CycleOnce                                                 *)
(***************************************************************************)

\* A step concerns at most one cycle.
LEMMA OneRowLemma ==
  ASSUME TypeOK, ClaimInv, [Next]_vars
  PROVE  \/ row' = row /\ applied' = applied
         \/ \E c \in Cycles : \A d \in Cycles \ {c} :
              row'[d] = row[d] /\ applied'[d] = applied[d]
<1>1. ASSUME NEW w \in Workers, Step(w)
      PROVE  \/ row' = row /\ applied' = applied
             \/ \E c \in Cycles : \A d \in Cycles \ {c} :
                  row'[d] = row[d] /\ applied'[d] = applied[d]
  <2>1. CASE SkipMissed(w)
    BY <2>1 DEF SkipMissed, TypeOK
  <2>2. CASE Claim(w)
    BY <2>2 DEF Claim, TypeOK
  <2>3. CASE Defer(w) \/ Fail(w)
    <3>1. /\ held[w].cycle \in Cycles /\ applied' = applied
          /\ \/ row' = row
             \/ \E s \in CycleStatus : row' = Unleased(held[w].cycle, s)
      BY <2>3 DEF Defer, Fail, ClaimInv, ClaimsHappened, CycleStatus, TerminalStatus
    <3> QED BY <3>1 DEF Unleased, TypeOK
  <2>4. CASE FinishCommit(w)
    <3>1. /\ held[w].cycle \in Cycles
          /\ row' = Unleased(held[w].cycle, "COMPLETED")
          /\ applied' = [applied EXCEPT ![held[w].cycle] = @ \cup {<<w, held[w].attempt>>}]
      BY <2>4 DEF FinishCommit, ClaimInv, CommitterIsCurrent
    <3>2. \A d \in Cycles \ {held[w].cycle} : row'[d] = row[d] /\ applied'[d] = applied[d]
      BY <3>1 DEF Unleased, TypeOK
    <3> QED BY <3>1, <3>2
  <2>5. CASE BeginCommit(w) \/ Raise(w) \/ Crash(w)
    BY <2>5 DEF BeginCommit, Raise, Crash
  <2> QED BY <1>1, <2>1, <2>2, <2>3, <2>4, <2>5 DEF Step
<1>2. CASE Tick \/ UNCHANGED vars
  BY <1>2 DEF Tick, vars
<1> QED BY <1>1, <1>2 DEF Next

Effects == [c \in Cycles |-> Cardinality(applied[c])]

\* PaperCycles implements CycleOnce.
THEOREM Refinement == Spec => ImplementsCycleOnce
<1>0. Cardinality({}) = 0 /\ \A x : Cardinality({x}) = 1
  BY FS_EmptySet, FS_Singleton
<1>1. Init => Once!Init
  BY <1>0 DEF Init, Once!Init, Outcome
<1>2. ASSUME IInv, IInv', [Next]_vars
      PROVE  [Once!Next]_<<Outcome, Effects>>
  <2>1. \A c \in Cycles : RowStep(c)
    BY <1>2, RowStepLemma DEF IInv
  <2>2. CASE row' = row /\ applied' = applied
    BY <2>2 DEF Outcome, Effects
  <2>3. ASSUME NEW c \in Cycles,
               \A d \in Cycles \ {c} : row'[d] = row[d] /\ applied'[d] = applied[d]
        PROVE  [Once!Next]_<<Outcome, Effects>>
    <3>1. \A d \in Cycles : d # c => Outcome'[d] = Outcome[d] /\ Effects'[d] = Effects[d]
      BY <2>3 DEF Outcome, Effects
    <3>2. CASE Outcome'[c] = Outcome[c] /\ Effects'[c] = Effects[c]
      <4>1. Outcome' = Outcome /\ Effects' = Effects
        BY <3>1, <3>2 DEF Outcome, Effects
      <4> QED BY <4>1
    <3>3. CASE Outcome[c] = "open" /\ Outcome'[c] = "dropped" /\ Effects'[c] = Effects[c]
      <4>1. /\ Outcome' = [Outcome EXCEPT ![c] = "dropped"] /\ Effects' = Effects
        BY <3>1, <3>3 DEF Outcome, Effects
      <4> QED BY <4>1, <3>3 DEF Once!Next, Once!Drop, Effects
    <3>4. CASE /\ Outcome[c] = "open" /\ Outcome'[c] = "applied"
               /\ Effects[c] = 0 /\ Effects'[c] = 1
      <4>1. Outcome' = [Outcome EXCEPT ![c] = "applied"]
        BY <3>1, <3>4 DEF Outcome
      <4>2. /\ Effects = [d \in Cycles |-> Effects[d]]
            /\ Effects' = [d \in Cycles |-> Effects'[d]]
        BY DEF Effects
      <4>3. Effects' = [Effects EXCEPT ![c] = @ + 1]
        BY <3>1, <3>4, <4>2
      <4> QED BY <4>1, <4>3, <3>4 DEF Once!Next, Once!Apply, Effects
    <3>5. RowStep(c)
      BY <2>1
    <3>6. CASE row'[c] = row[c] /\ applied'[c] = applied[c]
      BY <3>2, <3>6 DEF Outcome, Effects
    <3>7. CASE /\ row[c].status \in {"PENDING", "RUNNING"}
               /\ row'[c].status \in CycleStatus \ {"COMPLETED"}
               /\ applied'[c] = applied[c]
      <4>1. Outcome[c] = "open" /\ Outcome'[c] \in {"open", "dropped"}
        BY <3>7 DEF Outcome, CycleStatus, TerminalStatus
      <4>2. Effects'[c] = Effects[c]
        BY <3>7 DEF Effects
      <4> QED BY <4>1, <4>2, <3>2, <3>3
    <3>8. CASE /\ row[c].status = "RUNNING"
               /\ row'[c].status = "COMPLETED" /\ row'[c].attempt = row[c].attempt
               /\ \E w \in Workers : applied'[c] = applied[c] \cup {<<w, row[c].attempt>>}
      <4>1. Outcome[c] = "open" /\ Outcome'[c] = "applied"
        BY <3>8 DEF Outcome
      <4>2. applied[c] = {}
        BY <1>2, <3>8 DEF IInv, AppliedInv, AppliedIffCompleted
      <4>3. \E x : applied'[c] = {x}
        BY <3>8, <4>2
      <4>4. Effects[c] = 0 /\ Effects'[c] = 1
        BY <4>2, <4>3, <1>0 DEF Effects
      <4> QED BY <4>1, <4>4, <3>4
    <3> QED BY <3>5, <3>6, <3>7, <3>8 DEF RowStep
  <2> QED BY <1>2, <2>2, <2>3, OneRowLemma DEF IInv
<1>3. IInv /\ IInv' /\ [Next]_vars => [Once!Next]_<<Outcome, Effects>>
  BY <1>2
<1> QED BY <1>1, <1>3, Invariance, PTL DEF Spec, ImplementsCycleOnce, Once!Spec, Effects
=============================================================================
