------------------------------ MODULE Schedule ------------------------------
(***************************************************************************)
(* The scheduler kernel (scheduler.py): a pure function from the           *)
(* coordinates of one decision to the actor that makes the next            *)
(* transition.  SHA-256 over the canonical envelope is the constant        *)
(* operator Digest; the byte order of actor addresses is Rank.             *)
(*                                                                         *)
(* The scenario.schedule/1 artifact (schedule.py): one record per          *)
(* attempted selection and a terminal classification, and the conditions   *)
(* under which the constructor of ScheduleArtifact accepts it.             *)
(***************************************************************************)
EXTENDS Integers, FiniteSets, Sequences

CONSTANTS
  Actors,         \* the canonical addresses of the declared actors
  Rank,           \* position of an address in unsigned UTF-8 byte order
  Seeds,          \* the schedule seeds considered (a subset of 0..2^64-1)
  MaxSelections,  \* MAX_SCHEDULER_SELECTIONS = MAX_SELECTION_ORDINAL + 1
  MaxClock,       \* the last representable instant of the logical clock
  Digest(_)       \* SHA-256 of the canonical coordinate envelope

Clocks == 0..MaxClock

(* The fields of SchedulerInput that vary within one execution; the        *)
(* scenario hash, the resource hashes and the run index are fixed in it.   *)
Coordinates ==
  [seed : Seeds, ordinal : 0..(MaxSelections - 1),
   historyLength : 0..(MaxSelections - 1), clock : Clocks,
   ready : (SUBSET Actors) \ {{}}]

ASSUME ActorsAssumption ==
  /\ IsFiniteSet(Actors) /\ Actors # {}
  /\ Rank \in [Actors -> Nat]
  /\ \A a, b \in Actors : Rank[a] = Rank[b] => a = b

ASSUME BoundsAssumption == MaxSelections \in Nat \ {0} /\ MaxClock \in Nat

ASSUME DigestAssumption == \A c \in Coordinates : Digest(c) \in Nat

(* The index of an actor in the ready list after normalisation.            *)
Position(a, ready) == Cardinality({b \in ready : Rank[b] < Rank[a]})

(* digest modulo the number of ready actors, indexing the sorted list.     *)
SelectActor(c) ==
  CHOOSE a \in c.ready :
    Position(a, c.ready) = Digest(c) % Cardinality(c.ready)

-----------------------------------------------------------------------------
CONSTANTS
  Scenarios,         \* the canonical scenario hashes considered
  ScheduleCapacity,  \* how many records fit MAX_CANONICAL_SCHEDULE_BYTES
  NoFailure          \* a terminal without failure (None)

ASSUME CapacityAssumption == ScheduleCapacity \in Nat

Outcomes == {"COMMITTED", "FAILED"}

(* ScheduleRecord.__post_init__: a nonempty ready set that contains the    *)
(* selected actor, nonnegative counters, a known outcome.                  *)
IsRecord(r) ==
  /\ r.ordinal \in 0..(MaxSelections - 1)
  /\ r.ready \in (SUBSET Actors) \ {{}}
  /\ r.actor \in r.ready
  /\ r.historyLength \in Nat
  /\ r.outcome \in Outcomes

(* ScheduleArtifact.__post_init__ on the records.                          *)
RecordsInOrder(art) ==
  \A i \in 1..Len(art.records) :
    /\ IsRecord(art.records[i])
    /\ art.records[i].ordinal = i - 1
    /\ art.records[i].ready \subseteq art.actors
    /\ art.records[i].outcome = "FAILED" => i = Len(art.records)

(* ... and on the terminal classification.                                 *)
TerminalMatches(art) ==
  \/ /\ art.classification = "SUCCESS"
     /\ art.failure = NoFailure
     /\ \A i \in 1..Len(art.records) : art.records[i].outcome = "COMMITTED"
  \/ /\ art.classification = "FAILED"
     /\ art.records # <<>>
     /\ art.failure # NoFailure
     /\ LET last == art.records[Len(art.records)]
        IN  /\ last.outcome = "FAILED"
            /\ art.failure.actor = last.actor
            /\ art.failure.ordinal = last.ordinal

FitsEvidenceBound(records) == Len(records) <= ScheduleCapacity

IsSchedule(art) ==
  /\ art.scenario \in Scenarios
  /\ art.actors \in (SUBSET Actors) \ {{}}
  /\ Len(art.records) <= MaxSelections
  /\ RecordsInOrder(art)
  /\ TerminalMatches(art)
  /\ FitsEvidenceBound(art.records)
=============================================================================
