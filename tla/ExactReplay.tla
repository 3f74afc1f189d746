---------------------------- MODULE ExactReplay ----------------------------
(***************************************************************************)
(* Exact replay (schedule.py, exact_replay_internal): after an execution   *)
(* has ended, a schedule is presented, with a scenario, to an independent  *)
(* execution that must make every recorded decision again.  The schedule   *)
(* is the one the execution published, that schedule altered in one place, *)
(* or one forged from the decisions of an execution that published none.   *)
(***************************************************************************)
EXTENDS ActorExecution

CONSTANT NoRun   \* no execution has been observed yet

(* What an execution leaves behind.                                        *)
Observations ==
  [scenario : Scenarios, schedule : Evidences \cup {NoSchedule},
   state : States, clock : Clocks, history : Seq(Commits),
   artifacts : Seq(Artifacts)]

ASSUME RunAssumption == NoRun \notin Observations

VARIABLES
  original,  \* what the first execution left behind, or NoRun
  judgement \* none, accepted or rejected

replayVars == <<vars, original, judgement>>

Observed ==
  [scenario |-> scenario, schedule |-> schedule, state |-> state,
   clock |-> clock, history |-> history, artifacts |-> artifacts]

-----------------------------------------------------------------------------
(* Schedules that differ from art in one place.  They are altered as       *)
(* artifacts: the schedule hash is recomputed and the constructor of the   *)
(* artifact still accepts them.                                            *)
WithRecord(art, i, r) == [art EXCEPT !.records[i] = r]

AlteredRecords(art, i) ==
  LET r == art.records[i]
  IN  {WithRecord(art, i, [r EXCEPT !.actor = a]) : a \in r.ready}
      \cup {WithRecord(art, i, [r EXCEPT !.ready = s]) :
              s \in {t \in SUBSET Actors : r.actor \in t}}
      \cup {WithRecord(art, i, [r EXCEPT !.clock = t]) : t \in Clocks}
      \cup {WithRecord(art, i, [r EXCEPT !.historyLength = @ + 1]),
            WithRecord(art, i, [r EXCEPT !.digest = @ + 1])}

(* Another ending: a failure claimed or hidden, of the last record, with   *)
(* another code; a record missing at the end, or one too many.             *)
AlteredEndings(art) ==
  LET n == Len(art.records)
      last == art.records[n]
      FailureOf(code) ==
        [actor |-> last.actor, code |-> code, ordinal |-> last.ordinal]
  IN  IF n = 0 THEN {}
      ELSE {[art EXCEPT !.records[n].outcome = "FAILED",
                        !.classification = "FAILED",
                        !.failure = FailureOf(p)] : p \in {"patch", "emit"}}
           \cup {[art EXCEPT !.records[n].outcome = "COMMITTED",
                             !.classification = "SUCCESS",
                             !.failure = NoFailure],
                 [art EXCEPT !.records = SubSeq(@, 1, n - 1)],
                 [art EXCEPT !.records = Append(@, [last EXCEPT !.ordinal = n])]}

Alterations(art) ==
  AlteredEndings(art)
    \cup (UNION {AlteredRecords(art, i) : i \in 1..Len(art.records)})
    \cup {[art EXCEPT !.seed = s] : s \in Seeds}
    \cup {[art EXCEPT !.actors = s] : s \in SUBSET Actors}

Presented ==
  {art \in
     IF schedule # NoSchedule THEN {schedule} \cup Alterations(schedule)
     ELSE {Evidence(decisions, "SUCCESS", NoFailure)}
            \cup AlteredEndings(Evidence(decisions, "SUCCESS", NoFailure)) :
     IsSchedule(art)}

-----------------------------------------------------------------------------
InitReplay == Init /\ original = NoRun /\ judgement = "none"

(* A step of the execution, or of the execution inside the replay.         *)
ExecuteActors == Next /\ UNCHANGED <<original, judgement>>

(* The checks of exact_replay_internal itself, then a fresh execution of   *)
(* the given scenario with the coordinates of the schedule.                *)
Present ==
  /\ phase = "ended" /\ original = NoRun
  /\ original' = Observed
  /\ \E art \in Presented, sc \in Scenarios :
       IF art.scenario # sc
       THEN judgement' = "rejected" /\ UNCHANGED vars
       ELSE /\ scenario' = sc /\ seed' = art.seed /\ expected' = art
            /\ state' = InitialState(sc) /\ clock' = 0
            /\ history' = <<>> /\ artifacts' = <<>>
            /\ controls' = [a \in Actors |-> InitialControl]
            /\ decisions' = <<>> /\ phase' = "preflight"
            /\ done' = 0 /\ selected' = NoStep
            /\ candidate' = [post |-> InitialState(sc), timestamp |-> 0,
                             emitted |-> <<>>]
            /\ status' = "RUNNING" /\ cause' = "none"
            /\ schedule' = NoSchedule
            /\ UNCHANGED judgement

(* Mutant: an error that is not a mismatch is taken for a failed outcome.  *)
JudgeMismatchOnly ==
  /\ phase = "ended" /\ original # NoRun /\ judgement = "none"
  /\ judgement' = IF status # "MISMATCH" THEN "accepted" ELSE "rejected"
  /\ UNCHANGED <<vars, original>>

(* A completed execution, or the outcome attached to a failed one, is      *)
(* accepted when its schedule is the one presented; an error that carries  *)
(* no outcome rejects the schedule.                                        *)
Judge ==
  /\ phase = "ended" /\ original # NoRun /\ judgement = "none"
  /\ judgement' =
       IF status \in {"SUCCESS", "FAILED"} /\ schedule = expected
       THEN "accepted" ELSE "rejected"
  /\ UNCHANGED <<vars, original>>

NextReplay == ExecuteActors \/ Present \/ Judge

ReplaySpec == InitReplay /\ [][NextReplay]_replayVars

-----------------------------------------------------------------------------
(* Replaying the schedule a run published, of a success or of a failure,   *)
(* is never rejected and ends in the same state, clock, history and        *)
(* artifacts.                                                              *)
GenuineReplayAccepted ==
  judgement # "none" /\ expected # NoSchedule
    /\ expected = original.schedule =>
  /\ judgement = "accepted"
  /\ Observed = original

(* An accepted schedule is the one that an execution of that scenario with *)
(* that seed publishes: no record, ending or failure can be altered, and   *)
(* no schedule can be made up for a run that left none.                    *)
AcceptedReplayIsGenuine ==
  /\ judgement = "accepted"
  /\ original.schedule # NoSchedule => original.schedule.seed = expected.seed
  => expected = original.schedule

(* A replay stops at the first record that differs, before the transition  *)
(* of that record: nothing beyond the agreeing records is ever committed.  *)
NothingUnverifiedCommits ==
  /\ expected # NoSchedule /\ original.schedule # NoSchedule
  /\ expected.seed = original.schedule.seed
  => \A i \in 1..Len(history) :
       /\ i <= Len(expected.records)
       /\ [expected.records[i] EXCEPT !.outcome = "COMMITTED"]
            = [original.schedule.records[i] EXCEPT !.outcome = "COMMITTED"]
=============================================================================
