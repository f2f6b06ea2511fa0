----------------------------- MODULE Challengers -----------------------------
(***************************************************************************)
(* The Challenger lifecycle: persistence/research.py, the services that    *)
(* call it (research/lifecycle.py, oos_lockbox.py, oos_shadow_operations)  *)
(* and the start of the matched shadow runtime.                            *)
(*                                                                         *)
(* A status is the newest row of an append-only event table.  Writers      *)
(* that lock the manifest row are one atomic step each; so are the ones    *)
(* behind the designation or the budget advisory lock.  What spans several *)
(* transactions is split at the gaps: an OOS evaluation reserves its       *)
(* budget, runs a private worker and stores the result; a promotion        *)
(* evaluation builds its evidence before it takes a lock; a designation    *)
(* carries an expected version that was read earlier and may be sent       *)
(* again; transition_challenger reads the status without any lock.         *)
(***************************************************************************)
EXTENDS Integers, Sequences, FiniteSets, FiniteSetsExt, SequencesExt, TLC

CONSTANTS
  Challenger,        \* challenger_id values; each is its own strategy version
  Base,              \* the version that was Champion before any designation
  Family,            \* Family[c]: experiment_family
  Contract,          \* Contract[c]: "V1" or "V2", the promotion contract
  Host,              \* processes of operators that run multi-step operations
  Key,               \* idempotency keys of designations
  MaxSubmissions,    \* maximum_submissions = maximum_oos_uses
  MaxCycles,         \* bound: matched cycles per shadow run
  None

ASSUME ChallengersAssumption ==
  /\ Base \notin Challenger /\ None \notin Challenger \cup {Base}
  /\ Contract \in [Challenger -> {"V1", "V2"}]
  /\ DOMAIN Family = Challenger
  /\ MaxSubmissions \in Nat \ {0} /\ MaxCycles \in Nat \ {0}

VARIABLES
  status,       \* status[c]: to_status of the newest challenger event
  parent,       \* parent[c]: the proposal's parent version
  gate,         \* gate[c]: the artifact, replay and falsification rows
  reserved,     \* reserved[f]: who holds submission 1, 2, ... of family f
  answer,       \* answer[c]: verdicts the private worker has given
  result,       \* result[c]: stored OOS results, submission |-> verdict
  shadow,       \* shadow[c]: pair registered, runtime started, cycles, summaries
  evaluation,   \* evaluation[c]: trusted evaluations, summary |-> eligible
  approved,     \* Challengers with a MANUALLY_APPROVED decision
  designation,  \* the designation rows in sequence order
  proc          \* proc[h]: the operation host h is in the middle of

registry == <<status, parent, gate>>
oos == <<reserved, answer, result>>
promotion == <<evaluation, approved, designation>>
vars == <<registry, oos, shadow, promotion, proc>>

-----------------------------------------------------------------------------
Version == Challenger \cup {Base}
Submission == 1 .. MaxSubmissions + 1
Verdict == {"PASS", "FAIL"}

\* ALLOWED_TRANSITIONS
AllowedTransitions ==
  [UNREGISTERED |-> {"PROPOSED"},
   PROPOSED |-> {"BUILD_FAILED", "TEST_FAILED", "REPLAY_FAILED",
                 "OOS_REJECTED", "SHADOW_PENDING", "REJECTED"},
   SHADOW_PENDING |-> {"SHADOW_RUNNING", "REJECTED", "RETIRED"},
   SHADOW_RUNNING |-> {"PROMOTION_ELIGIBLE", "REJECTED", "RETIRED"},
   PROMOTION_ELIGIBLE |-> {"PROMOTED", "REJECTED", "RETIRED"},
   PROMOTED |-> {"RETIRED"},
   BUILD_FAILED |-> {}, TEST_FAILED |-> {}, REPLAY_FAILED |-> {},
   OOS_REJECTED |-> {}, REJECTED |-> {}, RETIRED |-> {}]
Status == DOMAIN AllowedTransitions

\* Everything transition_challenger may set: not LIFECYCLE_GATED_TRANSITIONS.
Ungated == {"BUILD_FAILED", "REJECTED", "RETIRED"}

NoGate == [artifact |-> FALSE, replay |-> "none", report |-> "none"]
Gate == [artifact : BOOLEAN, replay : {"none", "match", "mismatch"},
         report : {"none", "passed", "failed"}]
NoShadow == [paired |-> FALSE, running |-> FALSE, cycles |-> 0, summaries |-> {}]
Shadow == [paired : BOOLEAN, running : BOOLEAN, cycles : 0 .. MaxCycles,
           summaries : SUBSET (1 .. MaxCycles)]
Idle == [pc |-> "idle"]
NoneYet == << >>

Current(c) == IF designation = << >> THEN parent[c] ELSE Last(designation).version
PassedFalsification(c) == gate[c].report = "passed"
PassedReplay(c) == gate[c].artifact /\ gate[c].replay = "match"
Eligible(c) == \E s \in DOMAIN evaluation[c] : evaluation[c][s]

\* _append_challenger_transition
Moved(c, to) == to \in AllowedTransitions[status[c]] /\ status' = [status EXCEPT ![c] = to]

-----------------------------------------------------------------------------
Init ==
  /\ status = [c \in Challenger |-> "UNREGISTERED"]
  /\ parent = [c \in Challenger |-> None]
  /\ gate = [c \in Challenger |-> NoGate]
  /\ reserved = [f \in {Family[c] : c \in Challenger} |-> << >>]
  /\ answer = [c \in Challenger |-> NoneYet]
  /\ result = [c \in Challenger |-> NoneYet]
  /\ shadow = [c \in Challenger |-> NoShadow]
  /\ evaluation = [c \in Challenger |-> NoneYet]
  /\ approved = {}
  /\ designation = << >>
  /\ proc = [h \in Host |-> Idle]

-----------------------------------------------------------------------------
(* Registration and the gates before OOS: each a transaction that locks the *)
(* manifest row.                                                           *)

\* register_challenger: the parent is the version the accepted proposal was
\* written against, the Champion of that time.
RegisterUnbound(c, v) ==    \* mutant: the manifest is stored without its parent
  /\ status[c] = "UNREGISTERED"
  /\ v \in {Base} \cup {d.version : d \in ToSet(designation)}
  /\ Moved(c, "PROPOSED")
  /\ UNCHANGED <<parent, gate, oos, shadow, promotion, proc>>
Register(c, v) ==
  /\ status[c] = "UNREGISTERED"
  /\ v \in {Base} \cup {d.version : d \in ToSet(designation)}
  /\ parent' = [parent EXCEPT ![c] = v]
  /\ Moved(c, "PROPOSED")
  /\ UNCHANGED <<gate, oos, shadow, promotion, proc>>

\* register_candidate_artifact: one bundle per Challenger, whatever its status.
RegisterArtifact(c) ==
  /\ status[c] # "UNREGISTERED" /\ ~gate[c].artifact
  /\ gate' = [gate EXCEPT ![c].artifact = TRUE]
  /\ UNCHANGED <<status, parent, oos, shadow, promotion, proc>>

\* record_candidate_test_failure: only before there is an artifact.
RecordTestFailure(c) ==
  /\ status[c] = "PROPOSED" /\ ~gate[c].artifact
  /\ Moved(c, "TEST_FAILED")
  /\ UNCHANGED <<parent, gate, oos, shadow, promotion, proc>>

\* record_replay_artifact: two replays that agree, or do not.
RecordReplay(c, match) ==
  /\ status[c] = "PROPOSED" /\ gate[c].artifact /\ gate[c].replay = "none"
  /\ gate' = [gate EXCEPT ![c].replay = IF match THEN "match" ELSE "mismatch"]
  /\ IF match THEN UNCHANGED status ELSE Moved(c, "REPLAY_FAILED")
  /\ UNCHANGED <<parent, oos, shadow, promotion, proc>>

\* record_falsification_report: bound to the matching replay.
RecordFalsification(c, mandatory) ==
  /\ status[c] = "PROPOSED" /\ PassedReplay(c) /\ gate[c].report = "none"
  /\ gate' = [gate EXCEPT ![c].report = IF mandatory THEN "passed" ELSE "failed"]
  /\ IF mandatory THEN UNCHANGED status ELSE Moved(c, "TEST_FAILED")
  /\ UNCHANGED <<parent, oos, shadow, promotion, proc>>

-----------------------------------------------------------------------------
(* One OOS evaluation of Challenger c as submission n of its family.       *)

\* evaluate_oos_and_register_shadow up to the lockbox: plain reads.
BeginOos(h, c, n) ==
  /\ proc[h] = Idle
  /\ n \notin DOMAIN result[c]
  /\ PassedFalsification(c) /\ PassedReplay(c)
  /\ status[c] = "PROPOSED"
  /\ proc' = [proc EXCEPT ![h] = [pc |-> "reserving", c |-> c, n |-> n]]
  /\ UNCHANGED <<registry, oos, shadow, promotion>>

\* _reserve_oos_budget_once.  The advisory lock on the family makes it one
\* step.  The same submission by the same Challenger finds its reservation.
HoldsReservation(c, n) ==
  n \in DOMAIN reserved[Family[c]] /\ reserved[Family[c]][n] = c
ReserveUncapped(h, c, n) ==    \* mutant: the totals are read before the new event
  /\ proc[h].pc = "reserving" /\ proc[h].c = c /\ proc[h].n = n
  /\ \/ HoldsReservation(c, n) /\ UNCHANGED reserved
     \/ /\ n = Len(reserved[Family[c]]) + 1
        /\ n - 1 <= MaxSubmissions
        /\ reserved' = [reserved EXCEPT ![Family[c]] = Append(@, c)]
  /\ proc' = [proc EXCEPT ![h].pc = "evaluating"]
  /\ UNCHANGED <<registry, answer, result, shadow, promotion>>
Reserve(h, c, n) ==
  /\ proc[h].pc = "reserving" /\ proc[h].c = c /\ proc[h].n = n
  /\ \/ HoldsReservation(c, n) /\ UNCHANGED reserved
     \/ /\ n = Len(reserved[Family[c]]) + 1
        /\ n <= MaxSubmissions
        /\ reserved' = [reserved EXCEPT ![Family[c]] = Append(@, c)]
  /\ proc' = [proc EXCEPT ![h].pc = "evaluating"]
  /\ UNCHANGED <<registry, answer, result, shadow, promotion>>

\* OosProcessClient.evaluate: the worker sees the reservation's own times and
\* pinned data, so it repeats its verdict when it is asked again.
WorkerAnswers(h, v) ==
  /\ proc[h].pc = "evaluating"
  /\ LET c == proc[h].c
         n == proc[h].n
     IN /\ n \in DOMAIN answer[c] => v = answer[c][n]
        /\ answer' = [answer EXCEPT ![c] = (n :> v) @@ @]
        /\ proc' = [proc EXCEPT ![h] = [pc |-> "storing", c |-> c, n |-> n, verdict |-> v]]
  /\ UNCHANGED <<registry, reserved, result, shadow, promotion>>

\* store_oos_result, store_oos_result_v2: result, gate and shadow pair are
\* one transaction.  A result that is there already is left alone.
StoreUnchecked(h, c, n, v) ==    \* mutant: the status is not read again
  /\ proc[h] = [pc |-> "storing", c |-> c, n |-> n, verdict |-> v]
  /\ n \notin DOMAIN result[c]
  /\ result' = [result EXCEPT ![c] = (n :> v) @@ @]
  /\ IF v = "PASS"
     THEN /\ shadow' = [shadow EXCEPT ![c].paired = TRUE]
          /\ status' = [status EXCEPT ![c] = "SHADOW_PENDING"]
     ELSE status' = [status EXCEPT ![c] = "OOS_REJECTED"] /\ UNCHANGED shadow
  /\ proc' = [proc EXCEPT ![h] = Idle]
  /\ UNCHANGED <<parent, gate, reserved, answer, promotion>>
StoreResult(h, c, n, v) ==
  /\ proc[h] = [pc |-> "storing", c |-> c, n |-> n, verdict |-> v]
  /\ PassedFalsification(c) /\ PassedReplay(c)
  /\ n \notin DOMAIN result[c]
  /\ status[c] = "PROPOSED"
  /\ result' = [result EXCEPT ![c] = (n :> v) @@ @]
  /\ IF v = "PASS"
     THEN shadow' = [shadow EXCEPT ![c].paired = TRUE] /\ Moved(c, "SHADOW_PENDING")
     ELSE Moved(c, "OOS_REJECTED") /\ UNCHANGED shadow
  /\ proc' = [proc EXCEPT ![h] = Idle]
  /\ UNCHANGED <<parent, gate, reserved, answer, promotion>>

-----------------------------------------------------------------------------
(* The matched shadow period.                                              *)

\* start_shadow_evaluation, then initialize_from_lifecycle: two transactions
\* of activate_shadow, which a retry resumes.
StartShadow(c) ==
  /\ shadow[c].paired
  /\ status[c] = "SHADOW_PENDING"
  /\ Moved(c, "SHADOW_RUNNING")
  /\ UNCHANGED <<parent, gate, oos, shadow, promotion, proc>>

\* _require_lifecycle_shadow_start
PermitsShadow(c) == status[c] \in {"SHADOW_RUNNING", "PROMOTION_ELIGIBLE"}

InitializeShadow(c) ==
  /\ shadow[c].paired /\ PermitsShadow(c) /\ ~shadow[c].running
  /\ shadow' = [shadow EXCEPT ![c].running = TRUE]
  /\ UNCHANGED <<registry, oos, promotion, proc>>

\* _append_matched_cycle: both arms and the cycle event, or nothing.
AppendMatchedCycle(c) ==
  /\ shadow[c].running /\ PermitsShadow(c)
  /\ shadow[c].cycles < MaxCycles
  /\ shadow' = [shadow EXCEPT ![c].cycles = @ + 1]
  /\ UNCHANGED <<registry, oos, promotion, proc>>

\* record_shadow_performance_summary: the cycles up to some cutoff, once each.
RecordSummary(c, s) ==
  /\ status[c] = "SHADOW_RUNNING"
  /\ s \in 1 .. shadow[c].cycles \ shadow[c].summaries
  /\ shadow' = [shadow EXCEPT ![c].summaries = @ \cup {s}]
  /\ UNCHANGED <<registry, oos, promotion, proc>>

-----------------------------------------------------------------------------
(* Promotion.                                                              *)

\* build_trusted_promotion_evidence: the newest summary, if the Champion it
\* was measured against is still the current one.
BeginEvaluation(h, c) ==
  /\ proc[h] = Idle
  /\ shadow[c].summaries # {}
  /\ PassedFalsification(c) /\ PassedReplay(c)
  /\ Current(c) = parent[c]
  /\ LET s == Max(shadow[c].summaries)
     IN /\ s \notin DOMAIN evaluation[c]
        /\ proc' = [proc EXCEPT ![h] = [pc |-> "recording", c |-> c, s |-> s]]
  /\ UNCHANGED <<registry, oos, shadow, promotion>>

\* record_trusted_promotion_evaluation: V1 compares the Champion again under
\* the designation lock, V2 does not.
RecordEvaluation(h, c, s, eligible) ==
  /\ proc[h] = [pc |-> "recording", c |-> c, s |-> s]
  /\ s \notin DOMAIN evaluation[c]
  /\ status[c] = "SHADOW_RUNNING"
  /\ Contract[c] = "V1" => Current(c) = parent[c]
  /\ evaluation' = [evaluation EXCEPT ![c] = (s :> eligible) @@ @]
  /\ IF eligible THEN Moved(c, "PROMOTION_ELIGIBLE") ELSE UNCHANGED status
  /\ proc' = [proc EXCEPT ![h] = Idle]
  /\ UNCHANGED <<parent, gate, oos, shadow, approved, designation>>

\* record_trusted_manual_promotion_approval
Approve(c) ==
  /\ status[c] = "PROMOTION_ELIGIBLE" /\ Eligible(c)
  /\ Current(c) = parent[c]
  /\ c \notin approved
  /\ approved' = approved \cup {c}
  /\ UNCHANGED <<registry, oos, shadow, evaluation, designation, proc>>

\* The operator decides to designate c, holding the Champion they last saw.
BeginDesignation(h, c, k) ==
  /\ proc[h] = Idle
  /\ c \in approved
  /\ proc' = [proc EXCEPT ![h] =
       [pc |-> "designating", c |-> c, expected |-> Current(c), key |-> k]]
  /\ UNCHANGED <<registry, oos, shadow, promotion>>

\* _designate_champion_once, under the designation lock.  The reply may be
\* lost, and then the operator sends the request again.
DesignateUnfenced(h, c, lost) ==    \* mutant: the expected version is not compared
  /\ proc[h].pc = "designating" /\ proc[h].c = c
  /\ \A d \in ToSet(designation) : d.key # proc[h].key
  /\ status[c] = "PROMOTION_ELIGIBLE" /\ Eligible(c) /\ c \in approved
  /\ designation' = Append(designation,
       [version |-> c, expected |-> proc[h].expected, key |-> proc[h].key])
  /\ Moved(c, "PROMOTED")
  /\ proc' = [proc EXCEPT ![h] = IF lost THEN @ ELSE Idle]
  /\ UNCHANGED <<parent, gate, oos, shadow, evaluation, approved>>
Designate(h, c, lost) ==
  /\ proc[h].pc = "designating" /\ proc[h].c = c
  /\ \A d \in ToSet(designation) : d.key # proc[h].key
  /\ status[c] = "PROMOTION_ELIGIBLE" /\ Eligible(c) /\ c \in approved
  /\ proc[h].expected = Current(c)
  /\ parent[c] = Current(c)
  /\ designation' = Append(designation,
       [version |-> c, expected |-> proc[h].expected, key |-> proc[h].key])
  /\ Moved(c, "PROMOTED")
  /\ proc' = [proc EXCEPT ![h] = IF lost THEN @ ELSE Idle]
  /\ UNCHANGED <<parent, gate, oos, shadow, evaluation, approved>>

-----------------------------------------------------------------------------
(* transition_challenger takes no lock: another transaction may commit     *)
(* between its reading of the status and its reading of the sequence.      *)

BeginTransition(h, c, to) ==
  /\ proc[h] = Idle
  /\ to \in AllowedTransitions[status[c]]
  /\ proc' = [proc EXCEPT ![h] = [pc |-> "moving", c |-> c, to |-> to]]
  /\ UNCHANGED <<registry, oos, shadow, promotion>>

AppendTransition(h) ==
  /\ proc[h].pc = "moving"
  /\ status' = [status EXCEPT ![proc[h].c] = proc[h].to]
  /\ proc' = [proc EXCEPT ![h] = Idle]
  /\ UNCHANGED <<parent, gate, oos, shadow, promotion>>

\* A refused or failed transaction, an expired reservation, a repeated
\* request that finds its row, or a crash: nothing more is written.
GiveUp(h) ==
  /\ proc[h] # Idle
  /\ proc' = [proc EXCEPT ![h] = Idle]
  /\ UNCHANGED <<registry, oos, shadow, promotion>>
-----------------------------------------------------------------------------
Gating(c) ==
  \/ \E v \in Version : Register(c, v)
  \/ RegisterArtifact(c)
  \/ RecordTestFailure(c)
  \/ \E match \in BOOLEAN : RecordReplay(c, match)
  \/ \E mandatory \in BOOLEAN : RecordFalsification(c, mandatory)

Evaluating(h, c) ==
  \/ \E n \in Submission : BeginOos(h, c, n) \/ Reserve(h, c, n)
  \/ \E n \in Submission, v \in Verdict : StoreResult(h, c, n, v)

Shadowing(c) ==
  \/ StartShadow(c)
  \/ InitializeShadow(c)
  \/ AppendMatchedCycle(c)
  \/ \E s \in 1 .. MaxCycles : RecordSummary(c, s)

Promoting(h, c) ==
  \/ BeginEvaluation(h, c)
  \/ \E s \in 1 .. MaxCycles, eligible \in BOOLEAN : RecordEvaluation(h, c, s, eligible)
  \/ \E k \in Key : BeginDesignation(h, c, k)
  \/ \E lost \in BOOLEAN : Designate(h, c, lost)

Next ==
  \/ \E c \in Challenger : Gating(c) \/ Shadowing(c) \/ Approve(c)
  \/ \E h \in Host, c \in Challenger : Evaluating(h, c) \/ Promoting(h, c)
  \/ \E h \in Host, c \in Challenger, to \in Ungated : BeginTransition(h, c, to)
  \/ \E h \in Host : AppendTransition(h) \/ GiveUp(h)
  \/ \E h \in Host, v \in Verdict : WorkerAnswers(h, v)

Spec == Init /\ [][Next]_vars

-----------------------------------------------------------------------------
\* The columns hold values of their types; a registered Challenger is bound to
\* a parent version.
TypeOK ==
  /\ status \in [Challenger -> Status]
  /\ \A c \in Challenger :
       parent[c] \in IF status[c] = "UNREGISTERED" THEN {None} ELSE Version
  /\ gate \in [Challenger -> Gate]
  /\ shadow \in [Challenger -> Shadow]
  /\ \A f \in DOMAIN reserved : reserved[f] \in Seq(Challenger)
  /\ approved \subseteq Challenger
  /\ \A d \in ToSet(designation) :
       d.version \in Challenger /\ d.expected \in Version /\ d.key \in Key

PassedOos(c) == \E n \in DOMAIN result[c] : result[c][n] = "PASS"


\* The OOS budget of a family is never overrun, and every stored result was
\* paid for by a reservation of that Challenger (reserve_oos_budget), although
\* hosts retry, overtake each other and die between reserving and storing.
OosPaidFor ==
  /\ \A f \in DOMAIN reserved : Len(reserved[f]) <= MaxSubmissions
  /\ \A c \in Challenger : \A n \in DOMAIN result[c] : HoldsReservation(c, n)

\* A Challenger is judged once: of several submissions in flight only one is
\* stored, and what is stored is what the worker said (store_oos_result).
JudgedOnce ==
  \A c \in Challenger :
    /\ Cardinality(DOMAIN result[c]) <= 1
    /\ \A n \in DOMAIN result[c] : n \in DOMAIN answer[c] /\ result[c][n] = answer[c][n]


\* Designation is a line of succession (docs/champion-challenger.md: "concurrent
\* requests cannot create two current designations"), also under retries.
Chain == INSTANCE ChampionChain WITH
  line <- [i \in DOMAIN designation |->
            [old |-> designation[i].expected, new |-> designation[i].version]]
ImplementsChampionChain == Chain!Spec
=============================================================================
