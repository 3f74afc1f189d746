-------------------------- MODULE CommandLine_proofs --------------------------
(***************************************************************************)
(* Invocations are safe, for every set of files, contents, commands and    *)
(* fates that is well formed.                                              *)
(*                                                                         *)
(* The invariant follows one invocation: what it has read passed what is   *)
(* refused of it (Loading), the files are those it found until it          *)
(* publishes (Unwritten), what a run prints and leaves is of its scenario  *)
(* and seed (RunPrinted, Publishing), and a replay prints only what it     *)
(* compared (ReplayPrinted).  The history holds runs that went well        *)
(* (KeptIs), so that what they left passes every test of a replay.         *)
(***************************************************************************)
EXTENDS CommandLine, SequenceTheorems, NaturalsInduction, WellFoundedInduction, TLAPS

Scenarios == {"dsl1", "dsl2", "root"}

(* What files and sources hold.                                            *)
Contained ==
  /\ \A p \in Paths : IsContent(files[p])
  /\ loaded \in Seq(Range(loaded)) /\ \A i \in 1..Len(loaded) : IsContent(loaded[i])
  /\ pending \in Seq(Range(pending))
  /\ \A i \in 1..Len(pending) : pending[i].path \in Paths /\ IsContent(pending[i].is)

Loading ==
  /\ phase # "idle" => cmd \in Commands
  /\ phase = "read" => Len(loaded) < Len(cmd.sources)
  /\ phase = "handle" => Len(loaded) = Len(cmd.sources)
  /\ cmd.name = "run" => \A i \in 1..Len(loaded) : loaded[i].kind \in Scenarios

Unwritten ==
  /\ phase \in {"idle", "read", "handle"} => ~executed /\ created = {}
  /\ phase \in {"read", "handle"} => files = before
  /\ phase = "publish" => cmd.name \in {"run", "trace-view"}
  /\ phase = "idle" => loaded = <<>>

(* A run that was executed, up to what is published of it.                 *)
RunPrinted ==
  cmd.name = "run" /\ phase \in {"publish", "print"} =>
    /\ fate[Document.of] = "ok" /\ OptionsFail = Running /\ Document.kind \in Scenarios
    /\ payload = ResultOf(Document, cmd.seed) /\ family = SUCCESS

PathOf(i) == Outputs[i].path
Written(j) ==
  \A p \in Paths :
    \/ \E i \in 1..j : PathOf(i) = p /\ files[p] = Outputs[i].is
    \/ (\A i \in 1..j : PathOf(i) # p) /\ files[p] = before[p]
Published(j) ==
  /\ Written(j) /\ created = {PathOf(i) : i \in 1..j}
  /\ pending = SubSeq(Outputs, j + 1, Len(Outputs))
  /\ j > 0 => /\ \A i, m \in 1..Len(Outputs) : PathOf(i) = PathOf(m) => i = m
              /\ \A i \in 1..Len(Outputs) : before[PathOf(i)] = Absent
Publishing ==
  cmd.name = "run" /\ phase \in {"publish", "print"} =>
    \E j \in 0..Len(Outputs) : Published(j) /\ (phase = "print" => j = Len(Outputs))

ReplayPrinted ==
  cmd.name = "replay" /\ phase = "print" =>
    /\ Artifact.of = Scenario.of /\ Artifact.edit = "none" /\ family = SUCCESS
    /\ payload = IF Artifact.kind = "result2" THEN Artifact ELSE ResultOf(Scenario, Artifact.seed)

(* The history: runs that ended well, and what they left to replay.        *)
KeptIs ==
  \A k \in kept : k.left # <<>> =>
    /\ fate[k.doc.of] = "ok"
    /\ \E seed \in {k.payload.seed} :
         IF k.doc.kind = "dsl2"
         THEN k.payload = Made("result2", k.doc, seed) /\ k.left[1].is = Made("schedule", k.doc, seed)
         ELSE /\ k.doc.kind = "dsl1" /\ k.payload = Made("result1", k.doc, seed)
              /\ k.left[1].is = Made("run", k.doc, seed)

Base ==
  /\ TypeOK /\ family \in SUCCESS..INTERNAL
  /\ files = [p \in Paths |-> files[p]] /\ before = [p \in Paths |-> before[p]]
  /\ Contained /\ Loading /\ Unwritten /\ KeptIs

Middle == RunPrinted /\ Publishing /\ ReplayPrinted
Judged ==
  /\ RoundTrip /\ AcceptedReplayIsOfScenario /\ WrongScenarioIsIncompatible /\ PublishedTogether
  /\ ExitTellsWhatIsLeft

IInv == Base /\ Middle /\ Judged

-----------------------------------------------------------------------------
(* Exit families.                                                          *)
LEMMA LeastElement ==
  ASSUME NEW T, T \subseteq Nat, T # {}
  PROVE  \E x \in T : \A y \in T : ~ (y < x)
<1> DEFINE R == OpToRel(<, Nat)
<1>1. IsWellFoundedOn(R, Nat)
  BY NatLessThanWellFounded
<1> HIDE DEF R
<1>2. \E x \in T : \A y \in T : ~ (<<y, x>> \in R)
  BY <1>1, WFMin
<1> QED
  BY <1>2 DEF R, OpToRel

LEMMA MinIs ==
  ASSUME NEW T \in SUBSET Nat, NEW m \in T, \A x \in T : m <= x
  PROVE  Min(T) = m
<1>1. \A x \in T : (\A y \in T : x =< y) => x = m
  OBVIOUS
<1> QED
  BY <1>1 DEF Min

LEMMA FamiliesAre ==
  /\ DOMAIN Families = 1..9
  /\ \A i \in 1..9 : Families[i].code \in 3..6
BY DEF Families, VALIDATION, EXECUTION, REPLAY_COMPATIBILITY, SECURITY_OR_BOUND

LEMMA MappedIs ==
  ASSUME NEW e
  PROVE  Mapped(e) \in 3..8
<1>1. CASE Hits(e) = {}
  BY <1>1 DEF Mapped, INTERNAL
<1>2. CASE Hits(e) # {}
  <2>1. Hits(e) \in SUBSET Nat /\ \A i \in Hits(e) : i \in 1..9
    BY FamiliesAre DEF Hits
  <2>2. PICK m \in Hits(e) : \A y \in Hits(e) : m <= y
    <3>1. PICK m \in Hits(e) : \A y \in Hits(e) : ~ (y < m)
      BY <1>2, <2>1, LeastElement
    <3> QED
      BY <2>1, <3>1
  <2>3. Min(Hits(e)) = m
    BY <2>1, <2>2, MinIs
  <2>4. Families[m].code \in 3..6
    BY <2>1, <2>2, FamiliesAre
  <2> QED
    BY <1>2, <2>3, <2>4 DEF Mapped
<1> QED
  BY <1>1, <1>2

LEMMA FirstFamily ==
  ASSUME NEW e, NEW m \in 1..9, m \in Hits(e), \A i \in 1..(m - 1) : i \notin Hits(e)
  PROVE  Mapped(e) = Families[m].code
<1>1. Hits(e) \in SUBSET Nat /\ \A i \in Hits(e) : m <= i
  BY FamiliesAre DEF Hits
<1>2. Min(Hits(e)) = m
  BY <1>1, MinIs
<1> QED
  BY <1>2 DEF Mapped

LEMMA BasesAre ==
  ASSUME NEW e, NEW b
  PROVE  b \in Bases(e) <=> b = e \/ \E row \in Hierarchy : e \in row.of /\ b \in row.bases
BY DEF Bases

LEMMA Incompatible ==
  /\ Mapped("ReplayCompatibilityError") = REPLAY_COMPATIBILITY
  /\ Mapped("ScheduleReplayMismatch") = REPLAY_COMPATIBILITY
  /\ Mapped("Engine2ReplayMismatch") = REPLAY_COMPATIBILITY
  /\ Mapped("PluginCompatibilityError") = EXECUTION
  /\ Mapped("OSError") = INTERNAL
<1> DEFINE Of(i) == Families[i].of
<1>1. /\ Families[1].of = {"TraceViewError"}
      /\ Families[2].of = {"UnsupportedReplayContractError", "ReplayCompatibilityError"}
      /\ Families[3].of = {"Engine2ReplayMismatch", "ScheduleReplayMismatch"}
      /\ Families[2].code = REPLAY_COMPATIBILITY /\ Families[3].code = REPLAY_COMPATIBILITY
  BY DEF Families
<1>2. Mapped("ReplayCompatibilityError") = REPLAY_COMPATIBILITY
  <2>1. \A b : b \in Bases("ReplayCompatibilityError") <=> b \in {"ReplayCompatibilityError", "ScenarioEngineError", "ValueError"}
    BY BasesAre DEF Hierarchy, Domain
  <2>2. 2 \in Hits("ReplayCompatibilityError") /\ 1 \notin Hits("ReplayCompatibilityError")
    BY <1>1, <2>1, FamiliesAre DEF Hits
  <2>3. \A i \in 1..(2 - 1) : i \notin Hits("ReplayCompatibilityError")
    BY <2>2
  <2> QED
    BY <1>1, <2>2, <2>3, FirstFamily
<1>3. Mapped("ScheduleReplayMismatch") = REPLAY_COMPATIBILITY
  <2>1. \A b : b \in Bases("ScheduleReplayMismatch") <=> b \in {"ScheduleReplayMismatch", "ScheduleError", "ValueError"}
    BY BasesAre DEF Hierarchy, Domain
  <2>2. 3 \in Hits("ScheduleReplayMismatch") /\ {1, 2} \cap Hits("ScheduleReplayMismatch") = {}
    BY <1>1, <2>1, FamiliesAre DEF Hits
  <2>3. \A i \in 1..(3 - 1) : i \notin Hits("ScheduleReplayMismatch")
    BY <2>2
  <2> QED
    BY <1>1, <2>2, <2>3, FirstFamily
<1>4. Mapped("Engine2ReplayMismatch") = REPLAY_COMPATIBILITY
  <2>1. \A b : b \in Bases("Engine2ReplayMismatch") <=> b \in {"Engine2ReplayMismatch", "Engine2EvidenceError", "ValueError"}
    BY BasesAre DEF Hierarchy, Domain
  <2>2. 3 \in Hits("Engine2ReplayMismatch") /\ {1, 2} \cap Hits("Engine2ReplayMismatch") = {}
    BY <1>1, <2>1, FamiliesAre DEF Hits
  <2>3. \A i \in 1..(3 - 1) : i \notin Hits("Engine2ReplayMismatch")
    BY <2>2
  <2> QED
    BY <1>1, <2>2, <2>3, FirstFamily
<1>5. Mapped("OSError") = INTERNAL
  <2>1. \A b : b \in Bases("OSError") <=> b \in {"OSError"}
    BY BasesAre DEF Hierarchy, Domain
  <2>2. \A i \in 1..9 : "OSError" \notin Families[i].of
    BY DEF Families
  <2> QED
    BY <2>1, <2>2, FamiliesAre DEF Mapped, Hits
<1>6. Mapped("PluginCompatibilityError") = EXECUTION
  <2>1. \A b : b \in Bases("PluginCompatibilityError") <=> b \in {"PluginCompatibilityError", "ScenarioEngineError", "ValueError"}
    BY BasesAre DEF Hierarchy, Domain
  <2>2. Families[8].of = {"ScenarioEngineError"} /\ Families[8].code = EXECUTION
    BY DEF Families
  <2>3. \A i \in 1..7 : "PluginCompatibilityError" \notin Families[i].of /\ "ScenarioEngineError" \notin Families[i].of
                         /\ "ValueError" \notin Families[i].of
    BY DEF Families
  <2>4. 8 \in Hits("PluginCompatibilityError") /\ \A i \in 1..(8 - 1) : i \notin Hits("PluginCompatibilityError")
    BY <2>1, <2>2, <2>3, FamiliesAre DEF Hits
  <2> QED
    BY <2>2, <2>4, FirstFamily
<1> QED
  BY <1>2, <1>3, <1>4, <1>5, <1>6

LEMMA RefusalIs ==
  ASSUME NEW c
  PROVE  /\ Refuses(c) \in Running..INTERNAL
         /\ cmd.name = "run" /\ Refuses(c) = Running => c.kind \in Scenarios
<1> USE DEF Running, USAGE, VALIDATION, SECURITY_OR_BOUND, IO, INTERNAL
<1>1. /\ LoadFails(Source, c) \in Running..INTERNAL
      /\ LoadFails(Source, c) = Running => c.kind \in Scenarios
  BY MappedIs DEF LoadFails, Scenarios
<1>2. ReadFails(c) \in Running..INTERNAL
  BY DEF ReadFails
<1>3. ArtifactFails(c) \in Running..INTERNAL
  BY MappedIs DEF ArtifactFails
<1>4. TraceFails(c) \in Running..INTERNAL
  BY MappedIs DEF TraceFails
<1>5. BatchFails(c) \in Running..INTERNAL
  BY <1>1, MappedIs DEF BatchFails
<1>6. CASE cmd.name \in {"validate", "run", "matrix"}
  BY <1>1, <1>6 DEF Refuses
<1>7. CASE cmd.name \notin {"validate", "run", "matrix"}
  <2>1. Refuses(c) \in {ReadFails(c), ArtifactFails(c), TraceFails(c), BatchFails(c), Running}
    BY <1>7 DEF Refuses
  <2> QED
    BY <1>2, <1>3, <1>4, <1>5, <1>7, <2>1
<1> QED
  BY <1>6, <1>7

-----------------------------------------------------------------------------
(* What holds of no invocation but a run and a replay, or at no other      *)
(* place, holds elsewhere.                                                 *)
LEMMA Elsewhere ==
  ASSUME phase' \notin {"publish", "print", "done"}
  PROVE  Middle' /\ Judged'
BY DEF Middle, Judged, RunPrinted, Publishing, ReplayPrinted, RoundTrip, AcceptedReplayIsOfScenario,
       WrongScenarioIsIncompatible, PublishedTogether, ExitTellsWhatIsLeft

LEMMA NotDone ==
  ASSUME phase' # "done"
  PROVE  Judged'
BY DEF Judged, RoundTrip, AcceptedReplayIsOfScenario, WrongScenarioIsIncompatible, PublishedTogether,
       ExitTellsWhatIsLeft

LEMMA DoneIsNot ==
  ASSUME phase' = "done"
  PROVE  Middle'
BY DEF Middle, RunPrinted, Publishing, ReplayPrinted

LEMMA OtherCommands ==
  ASSUME cmd'.name \notin {"run", "replay"}
  PROVE  Middle' /\ Judged'
BY DEF Middle, Judged, RunPrinted, Publishing, ReplayPrinted, RoundTrip, AcceptedReplayIsOfScenario,
       WrongScenarioIsIncompatible, PublishedTogether, ExitTellsWhatIsLeft

LEMMA KeptStays ==
  ASSUME KeptIs, UNCHANGED <<fate, kept>>
  PROVE  KeptIs'
BY DEF KeptIs

(* What a sequence is a sequence of.                                       *)
LEMMA Sequenced ==
  ASSUME NEW S, NEW s \in Seq(S)
  PROVE  s \in Seq(Range(s))
<1>1. Len(s) \in Nat /\ s \in [1..Len(s) -> Range(s)]
  BY LenProperties DEF Range
<1> QED
  BY <1>1

LEMMA Appended ==
  ASSUME NEW s, s \in Seq(Range(s)), NEW c
  PROVE  /\ Append(s, c) \in Seq(Range(Append(s, c))) /\ Len(s) \in Nat
         /\ Len(Append(s, c)) = Len(s) + 1
         /\ \A i \in 1..(Len(s) + 1) : Append(s, c)[i] = IF i <= Len(s) THEN s[i] ELSE c
<1>1. PICK S : S = Range(s) \cup {c}
  OBVIOUS
<1>2. Len(s) \in Nat /\ s \in [1..Len(s) -> S]
  BY <1>1, LenProperties
<1>3. s \in Seq(S) /\ c \in S
  BY <1>1, <1>2
<1>4. PICK t \in Seq(S) : t = Append(s, c)
  <2>1. Append(s, c) \in Seq(S)
    BY <1>3, AppendProperties
  <2> QED
    BY <2>1
<1>5. /\ Len(t) = Len(s) + 1
      /\ \A i \in 1..(Len(s) + 1) : t[i] = IF i <= Len(s) THEN s[i] ELSE c
  BY <1>2, <1>3, <1>4
<1> QED
  BY <1>2, <1>4, <1>5, Sequenced

LEMMA Tailed ==
  ASSUME NEW s, s \in Seq(Range(s)), s # <<>>
  PROVE  /\ Tail(s) \in Seq(Range(Tail(s))) /\ Len(s) \in Nat /\ Len(s) >= 1
         /\ Len(Tail(s)) = Len(s) - 1
         /\ \A i \in 1..(Len(s) - 1) : Tail(s)[i] = s[i + 1]
<1>1. PICK S : S = Range(s)
  OBVIOUS
<1>2. PICK t \in Seq(S) : t = Tail(s)
  BY <1>1, HeadTailProperties
<1>3. /\ Len(s) \in Nat /\ Len(s) >= 1 /\ Len(t) = Len(s) - 1
      /\ \A i \in 1..(Len(s) - 1) : t[i] = s[i + 1]
  BY <1>1, <1>2, HeadTailProperties
<1> QED
  BY <1>2, <1>3, Sequenced

(* What is decided before anything is printed or published.                *)
LEMMA Ended ==
  ASSUME Base, phase \in {"read", "handle"}, phase' = "done", code' \in SUCCESS..INTERNAL, Keep,
         UNCHANGED <<loaded, pending, created>>, taken' \in BOOLEAN, executed' \in BOOLEAN,
         family' \in SUCCESS..INTERNAL, cmd.name = "run" /\ executed' => fate[Document.of] # "ok"
  PROVE  Base' /\ Middle' /\ PublishedTogether' /\ ExitTellsWhatIsLeft'
<1> USE DEF Base
<1>1. UNCHANGED <<files, fate, invocations, edits, kept, before, cmd>>
  BY DEF Keep, world
<1>2. TypeOK'
  BY <1>1 DEF TypeOK, Running, SUCCESS, INTERNAL
<1>3. Contained'
  BY <1>1 DEF Contained
<1>4. Loading'
  BY <1>1 DEF Loading
<1>5. Unwritten'
  BY <1>1 DEF Unwritten
<1>6. KeptIs'
  BY <1>1, KeptStays
<1>7. PublishedTogether' /\ ExitTellsWhatIsLeft'
  BY <1>1 DEF Unwritten, PublishedTogether, ExitTellsWhatIsLeft, Document
<1>8. Middle'
  BY DoneIsNot
<1>9. files' = [p \in Paths |-> files'[p]] /\ before' = [p \in Paths |-> before'[p]]
  BY <1>1
<1> QED
  BY <1>2, <1>3, <1>4, <1>5, <1>6, <1>7, <1>8, <1>9

(* A payload is shown by what reads only.                                  *)
LEMMA Shown ==
  ASSUME Base, phase = "handle", phase' = "print", family' \in SUCCESS..INTERNAL, Keep,
         cmd.name \notin {"run", "replay"}, executed' \in BOOLEAN, UNCHANGED <<taken, code, loaded,
           pending, created>>
  PROVE  Base' /\ Middle' /\ Judged'
<1> USE DEF Base
<1>1. UNCHANGED <<files, fate, invocations, edits, kept, before, cmd>>
  BY DEF Keep, world
<1>2. TypeOK'
  BY <1>1 DEF TypeOK
<1>3. Contained'
  BY <1>1 DEF Contained
<1>4. Loading'
  BY <1>1 DEF Loading
<1>5. Unwritten'
  BY <1>1 DEF Unwritten
<1>6. KeptIs'
  BY <1>1, KeptStays
<1>7. Middle' /\ Judged'
  BY <1>1, OtherCommands
<1> QED
  BY <1>1, <1>2, <1>3, <1>4, <1>5, <1>6, <1>7

-----------------------------------------------------------------------------
(* The actions, but those of a run and of a replay.                        *)
LEMMA InitHolds ==
  ASSUME CommandsAreWellFormed, Init
  PROVE  IInv
<1> USE DEF Init
<1>1. TypeOK /\ family \in SUCCESS..INTERNAL
  <2>1. DOMAIN FilesAtFirst = Paths /\ MaxInvocations \in Nat /\ MaxEdits \in Nat
    BY DEF CommandsAreWellFormed
  <2>2. Running \in Running..INTERNAL /\ SUCCESS \in SUCCESS..INTERNAL
    BY DEF Running, SUCCESS, INTERNAL
  <2>3. 0 \in 0..MaxInvocations /\ 0 \in 0..MaxEdits
    BY <2>1
  <2>4. code = Running /\ phase = "idle" /\ family = SUCCESS
    OBVIOUS
  <2> QED
    BY <2>1, <2>2, <2>3, <2>4 DEF TypeOK
<1>2. files = [p \in Paths |-> files[p]] /\ before = [p \in Paths |-> before[p]]
  BY DEF CommandsAreWellFormed
<1>3. Contained
  BY DEF Contained, CommandsAreWellFormed
<1>4. Loading /\ Unwritten /\ KeptIs
  BY DEF Loading, Unwritten, KeptIs
<1>5. Middle /\ Judged
  BY DEF Middle, Judged, RunPrinted, Publishing, ReplayPrinted, RoundTrip, AcceptedReplayIsOfScenario,
         WrongScenarioIsIncompatible, PublishedTogether, ExitTellsWhatIsLeft
<1> QED
  BY <1>1, <1>2, <1>3, <1>4, <1>5 DEF IInv, Base

LEMMA InvokeKeeps ==
  ASSUME CommandsAreWellFormed, IInv, NEW c \in Commands, Invoke(c)
  PROVE  IInv'
<1> USE DEF IInv, Base, Invoke, io
<1>1. TypeOK'
  BY DEF TypeOK, CommandsAreWellFormed
<1>2. Contained'
  BY DEF Contained
<1>3. Loading'
  <2>1. Len(c.sources) \in Nat /\ Len(c.sources) > 0
    BY EmptySeq, LenProperties DEF CommandsAreWellFormed
  <2>2. loaded = <<>> /\ Len(loaded) = 0
    BY DEF Unwritten
  <2> QED
    BY <2>1, <2>2 DEF Loading
<1>4. Unwritten'
  BY DEF Unwritten
<1>5. KeptIs'
  BY KeptStays
<1>6. Middle' /\ Judged'
  BY Elsewhere
<1> QED
  BY <1>1, <1>2, <1>3, <1>4, <1>5, <1>6

LEMMA ContentIs ==
  ASSUME CommandsAreWellFormed, Base, phase = "read"
  PROVE  IsContent(ContentOf(Source))
<1>1. Len(loaded) + 1 \in 1..Len(cmd.sources)
  BY LenProperties DEF Base, Loading, Contained, CommandsAreWellFormed
<1>2. Source \in Paths \cup {"-"}
  BY <1>1, ElementOfSeq DEF Base, Loading, Source, CommandsAreWellFormed
<1> QED
  BY <1>2 DEF ContentOf, Base, Contained, CommandsAreWellFormed, IsContent, Nothing

LEMMA ReadKeeps ==
  ASSUME CommandsAreWellFormed, IInv, Read
  PROVE  IInv'
<1> USE DEF IInv, Running, SUCCESS, USAGE, INTERNAL
<1>1. ASSUME Source = "-", taken, Counted, Exit(USAGE), UNCHANGED <<taken, loaded>>
      PROVE  code' \in SUCCESS..INTERNAL /\ phase' = "done" /\ UNCHANGED <<taken, loaded>>
  BY <1>1 DEF Exit
<1>2. ASSUME Refuses(ContentOf(Source)) # Running, Exit(Refuses(ContentOf(Source))),
               UNCHANGED <<taken, loaded>>
      PROVE  code' \in SUCCESS..INTERNAL /\ phase' = "done" /\ UNCHANGED <<taken, loaded>>
  BY <1>2, RefusalIs DEF Exit
<1>3. ASSUME code' \in SUCCESS..INTERNAL, phase' = "done", UNCHANGED <<taken, loaded>>
      PROVE  IInv'
  <2>1. phase = "read" /\ Keep /\ UNCHANGED <<executed, pending, created, payload, family>>
    BY DEF Read
  <2>2. Base' /\ Middle' /\ PublishedTogether' /\ ExitTellsWhatIsLeft'
    BY <1>3, <2>1, Ended DEF Base, TypeOK, Unwritten
  <2>3. UNCHANGED cmd /\ cmd \in Commands /\ ~executed' /\ Len(loaded) < Len(cmd.sources)
    BY <2>1 DEF Keep, Base, Loading, Unwritten
  <2>4. RoundTrip' /\ WrongScenarioIsIncompatible'
    BY <1>3, <2>3 DEF RoundTrip, ReplaysOf, WrongScenarioIsIncompatible, CommandsAreWellFormed
  <2>5. AcceptedReplayIsOfScenario'
    BY <2>3 DEF AcceptedReplayIsOfScenario
  <2> QED
    BY <2>2, <2>4, <2>5 DEF Judged
<1>4. ASSUME Refuses(ContentOf(Source)) = Running, loaded' = Append(loaded, ContentOf(Source)),
             taken' = (taken \/ Source = "-"),
             phase' = IF Len(loaded) + 1 = Len(cmd.sources) THEN "handle" ELSE "read", UNCHANGED code
      PROVE  IInv'
  <2>1. /\ phase = "read" /\ UNCHANGED <<executed, pending, created, payload, family>>
        /\ UNCHANGED <<files, fate, invocations, edits, kept, before, cmd>>
    BY DEF Read, Keep, world
  <2>2. /\ loaded' \in Seq(Range(loaded')) /\ Len(loaded) \in Nat /\ Len(loaded') = Len(loaded) + 1
        /\ \A i \in 1..(Len(loaded) + 1) :
             loaded'[i] = IF i <= Len(loaded) THEN loaded[i] ELSE ContentOf(Source)
    BY <1>4, Appended DEF Base, Contained
  <2>3. TypeOK'
    BY <1>4, <2>1 DEF Base, TypeOK
  <2>4. Contained'
    BY <2>1, <2>2, ContentIs DEF Base, Contained
  <2>5. Loading'
    <3>1. /\ phase' = "read" => Len(loaded') < Len(cmd'.sources)
          /\ phase' = "handle" => Len(loaded') = Len(cmd'.sources)
      <4>1. cmd \in Commands /\ Len(loaded) < Len(cmd.sources) /\ Len(cmd.sources) \in Nat
        BY <2>1, LenProperties DEF Base, Loading, CommandsAreWellFormed
      <4> QED
        BY <1>4, <2>1, <2>2, <4>1
    <3>2. cmd.name = "run" => \A i \in 1..Len(loaded') : loaded'[i].kind \in Scenarios
      BY <1>4, <2>2, RefusalIs DEF Base, Loading
    <3> QED
      BY <1>4, <2>1, <3>1, <3>2 DEF Base, Loading
  <2>6. Unwritten'
    BY <1>4, <2>1 DEF Base, Unwritten
  <2>7. KeptIs'
    BY <2>1, KeptStays DEF Base
  <2>8. Middle' /\ Judged'
    BY <1>4, Elsewhere
  <2> QED
    BY <2>1, <2>3, <2>4, <2>5, <2>6, <2>7, <2>8 DEF Base
<1> QED
  BY <1>1, <1>2, <1>3, <1>4 DEF Read

LEMMA ShowersKeep ==
  ASSUME IInv, Validate \/ Inspect \/ Diff \/ BatchCommand
  PROVE  IInv'
<1> USE DEF Validate, Inspect, Diff, BatchCommand, Shows, SUCCESS, DIFFERENT, EXECUTION, INTERNAL
<1>1. /\ phase = "handle" /\ phase' = "print" /\ family' \in SUCCESS..INTERNAL /\ Keep
      /\ cmd.name \notin {"run", "replay"} /\ UNCHANGED <<taken, code, loaded, pending, created>>
  OBVIOUS
<1>2. executed \in BOOLEAN
  BY DEF IInv, Base, TypeOK
<1>3. executed' \in BOOLEAN
  <2>1. CASE BatchCommand
    <3> HIDE DEF Shows, SUCCESS, EXECUTION
    <3>1. executed' = (Len(loaded) > 1)
      BY <2>1
    <3>2. Len(loaded) \in Nat
      BY LenProperties DEF IInv, Base, Contained
    <3> HIDE DEF BatchCommand, Validate, Inspect, Diff
    <3>3. CASE Len(loaded) > 1
      BY <3>1, <3>3
    <3>4. CASE Len(loaded) <= 1
      BY <3>1, <3>2, <3>4
    <3> QED
      BY <3>2, <3>3, <3>4
  <2>2. CASE ~BatchCommand
    BY <1>2, <2>2
  <2> QED
    BY <2>1, <2>2
<1> QED
  BY <1>1, <1>3, Shown DEF IInv

LEMMA MatrixKeeps ==
  ASSUME IInv, MatrixCommand
  PROVE  IInv'
<1>1. phase = "handle" /\ cmd.name = "matrix" /\ Keep /\ UNCHANGED <<taken, loaded, created>>
  BY DEF MatrixCommand
<1>2. UNCHANGED cmd
  BY <1>1 DEF Keep
<1>3. ASSUME NEW e, Raise(e), UNCHANGED <<pending, payload, family>>, executed' \in BOOLEAN
      PROVE  IInv'
  <2>1. phase' = "done" /\ code' \in SUCCESS..INTERNAL
    BY <1>3, MappedIs DEF Raise, Exit, SUCCESS, INTERNAL
  <2>2. Base' /\ Middle'
    BY <1>1, <1>3, <2>1, Ended DEF IInv, Base, TypeOK
  <2> QED
    BY <1>1, <1>2, <2>2, OtherCommands DEF IInv
<1>4. ASSUME NEW what, Shows(what, SUCCESS), UNCHANGED pending, executed' \in BOOLEAN
      PROVE  IInv'
  <2>1. phase' = "print" /\ family' \in SUCCESS..INTERNAL /\ UNCHANGED code
    BY <1>4 DEF Shows, SUCCESS, INTERNAL
  <2> QED
    BY <1>1, <1>4, <2>1, Shown DEF IInv
<1>5. executed \in BOOLEAN
  BY DEF IInv, Base, TypeOK
<1> QED
  BY <1>3, <1>4, <1>5 DEF MatrixCommand, Executes

-----------------------------------------------------------------------------
(* A run, and what it publishes.                                           *)
LEMMA MadeIsContent ==
  ASSUME NEW kind, kind # "run", NEW doc, NEW seed
  PROVE  IsContent(Made(kind, doc, seed))
BY DEF IsContent, Made

LEMMA OutputIs ==
  ASSUME NEW path, NEW is, NEW o, o = Output(path, is)
  PROVE  /\ o \in Seq(Range(o)) /\ Len(o) \in 0..1 /\ (Len(o) = 0 <=> path = NoPath)
         /\ path # NoPath => o[1].path = path /\ o[1].is = is
<1>1. CASE path = NoPath
  <2>1. o = <<>>
    BY <1>1 DEF Output
  <2> QED
    BY <1>1, <2>1, EmptySeq
<1>2. CASE path # NoPath
  <2>1. PICK r : r = [path |-> path, is |-> is]
    OBVIOUS
  <2>2. o = <<r>>
    BY <1>2, <2>1 DEF Output
  <2>3. o \in Seq({r}) /\ Len(o) = 1 /\ o[1] = r
    BY <2>2
  <2> QED
    BY <1>2, <2>1, <2>3, Sequenced
<1> QED
  BY <1>1, <1>2

(* What a run leaves: of Engine 2 its schedule and then its result, of     *)
(* Engine 1 an artifact of a scenario that is no composition.              *)
OutputsOf(document) ==
  /\ Outputs \in Seq(Range(Outputs)) /\ Len(Outputs) \in 0..2
  /\ \A i \in 1..Len(Outputs) : PathOf(i) \in Paths /\ IsContent(Outputs[i].is)
  /\ document.kind = "dsl2" => Len(Outputs) >= 1 /\ Outputs[1].is = Made("schedule", document, cmd.seed)
  /\ document.kind # "dsl2" =>
       /\ Len(Outputs) <= 1
       /\ Len(Outputs) = 1 => document.kind = "dsl1" /\ Outputs[1].is = Made("run", document, cmd.seed)

LEMMA OutputsAre ==
  ASSUME CommandsAreWellFormed, cmd \in Commands, OptionsFail = Running, Document.kind \in Scenarios
  PROVE  OutputsOf(Document)
<1>1. {cmd.replay_out, cmd.schedule_out, cmd.result_out} \subseteq Paths \cup {NoPath}
  BY DEF CommandsAreWellFormed
<1>2. CASE Document.kind = "dsl2"
  <2>1. cmd.schedule_out # NoPath /\ cmd.schedule_out \in Paths
    BY <1>1, <1>2 DEF OptionsFail, USAGE, Running
  <2>2. PICK x, y : x = Made("schedule", Document, cmd.seed) /\ y = Made("result2", Document, cmd.seed)
    OBVIOUS
  <2>3. PICK a, b : a = Output(cmd.schedule_out, x) /\ b = Output(cmd.result_out, y)
    OBVIOUS
  <2>4. PICK S : S = Range(a) \cup Range(b)
    OBVIOUS
  <2>5. Outputs = a \o b
    BY <1>2, <2>2, <2>3 DEF Outputs
  <2>6. a \in Seq(Range(a)) /\ Len(a) = 1 /\ a[1].path = cmd.schedule_out /\ a[1].is = x
    BY <2>1, <2>3, OutputIs
  <2>7. /\ b \in Seq(Range(b)) /\ Len(b) \in 0..1 /\ (Len(b) = 0 <=> cmd.result_out = NoPath)
        /\ cmd.result_out # NoPath => b[1].path = cmd.result_out /\ b[1].is = y
    BY <2>3, OutputIs
  <2>8. IsContent(x) /\ IsContent(y)
    BY <2>2, MadeIsContent
  <2>9. PICK o \in Seq(S) : /\ o = a \o b /\ Len(o) = Len(a) + Len(b)
                           /\ \A i \in 1..Len(a) + Len(b) : o[i] = IF i <= Len(a) THEN a[i] ELSE b[i - Len(a)]
    <3>1. a \in Seq(S) /\ b \in Seq(S)
      BY <2>4, <2>6, <2>7
    <3>2. /\ a \o b \in Seq(S) /\ Len(a \o b) = Len(a) + Len(b)
          /\ \A i \in 1..Len(a) + Len(b) : (a \o b)[i] = IF i <= Len(a) THEN a[i] ELSE b[i - Len(a)]
      BY <3>1, ConcatProperties
    <3> QED
      BY <3>2
  <2>10. Len(o) = Len(a) + Len(b) /\ o[1] = a[1] /\ (Len(b) = 1 => o[2] = b[1])
    <3>1. Len(o) = Len(a) + Len(b) /\ o[1] = a[1]
      BY <2>6, <2>7, <2>9
    <3>2. ASSUME Len(b) = 1
          PROVE  o[2] = b[1]
      <4>1. 2 \in 1..Len(a) + Len(b) /\ ~ (2 <= Len(a)) /\ 2 - Len(a) = 1
        BY <2>6, <3>2
      <4> QED
        BY <2>9, <4>1
    <3> QED
      BY <3>1, <3>2
  <2>11. Len(o) \in 1..2 /\ (Len(o) = 2 => cmd.result_out # NoPath)
    <3> PICK n \in 0..1 : n = Len(b) /\ (n = 0 <=> cmd.result_out = NoPath)
      BY <2>7
    <3>1. Len(o) = 1 + n
      BY <2>6, <2>10
    <3> QED
      BY <3>1
  <2>12. o \in Seq(Range(o))
    BY <2>9, Sequenced
  <2>13. \A i \in 1..Len(o) : o[i].path \in Paths /\ IsContent(o[i].is)
    BY <1>1, <2>1, <2>6, <2>7, <2>8, <2>10, <2>11
  <2> QED
    BY <1>2, <2>2, <2>5, <2>6, <2>9, <2>10, <2>11, <2>12, <2>13 DEF OutputsOf, PathOf
<1>3. CASE Document.kind # "dsl2"
  <2>1. Outputs = Output(cmd.replay_out, Made("run", Document, cmd.seed))
    BY <1>3 DEF Outputs
  <2>2. cmd.replay_out # NoPath => Document.kind = "dsl1"
    <3>1. OptionsFail = Running => ~ (Composed /\ cmd.replay_out # NoPath)
      BY <1>3, Incompatible, MappedIs DEF OptionsFail, USAGE, Running
    <3> QED
      BY <1>3, <3>1 DEF Composed, Scenarios
  <2>3. IsContent(Made("run", Document, cmd.seed))
    BY DEF IsContent, Made
  <2>4. PICK x : x = Made("run", Document, cmd.seed)
    OBVIOUS
  <2>5. PICK o : o = Output(cmd.replay_out, x)
    OBVIOUS
  <2>6. /\ o \in Seq(Range(o)) /\ Len(o) \in 0..1 /\ (Len(o) = 0 <=> cmd.replay_out = NoPath)
        /\ cmd.replay_out # NoPath => o[1].path = cmd.replay_out /\ o[1].is = x
    BY <2>5, OutputIs
  <2>7. Outputs = o
    BY <2>1, <2>4, <2>5
  <2>8. \A i \in 1..Len(o) : o[i].path \in Paths /\ IsContent(o[i].is)
    BY <1>1, <2>3, <2>4, <2>6
  <2> QED
    BY <1>3, <2>2, <2>4, <2>6, <2>7, <2>8 DEF OutputsOf, PathOf
<1> QED
  BY <1>2, <1>3

LEMMA TraceKeeps ==
  ASSUME CommandsAreWellFormed, IInv, Trace
  PROVE  IInv'
<1> USE DEF IInv, Base
<1>1. /\ phase = "handle" /\ cmd.name = "trace-view" /\ phase' = "publish" /\ family' = SUCCESS
      /\ UNCHANGED <<code, taken, loaded, executed, created>>
      /\ UNCHANGED <<files, fate, invocations, edits, kept, before, cmd>>
      /\ pending' = Output(cmd.out, Made("html", Document, Document.seed))
  BY DEF Trace, Keep, world
<1>2. TypeOK' /\ family' \in SUCCESS..INTERNAL
  BY <1>1 DEF TypeOK, SUCCESS, INTERNAL
<1>3. Contained'
  <2>1. cmd.out \in Paths \cup {NoPath}
    BY <1>1 DEF Loading, CommandsAreWellFormed
  <2>2. PICK x : x = Made("html", Document, Document.seed)
    OBVIOUS
  <2>3. PICK o : o = Output(cmd.out, x)
    OBVIOUS
  <2>4. /\ o \in Seq(Range(o)) /\ Len(o) \in 0..1 /\ (Len(o) = 0 <=> cmd.out = NoPath)
        /\ cmd.out # NoPath => o[1].path = cmd.out /\ o[1].is = x
    BY <2>3, OutputIs
  <2>5. pending' = o
    BY <1>1, <2>2, <2>3
  <2>6. \A i \in 1..Len(o) : o[i].path \in Paths /\ IsContent(o[i].is)
    BY <2>1, <2>2, <2>4, MadeIsContent
  <2> QED
    BY <1>1, <2>4, <2>5, <2>6 DEF Contained
<1>4. Loading' /\ Unwritten'
  BY <1>1 DEF Loading, Unwritten
<1>5. KeptIs'
  BY <1>1, KeptStays
<1>6. Middle' /\ Judged'
  BY <1>1, OtherCommands
<1> QED
  BY <1>1, <1>2, <1>3, <1>4, <1>5, <1>6

LEMMA RunKeeps ==
  ASSUME CommandsAreWellFormed, IInv, Run
  PROVE  IInv'
<1>1. /\ phase = "handle" /\ cmd.name = "run" /\ Keep /\ UNCHANGED <<taken, loaded, created>>
      /\ UNCHANGED <<files, fate, invocations, edits, kept, before, cmd>>
  BY DEF Run, Keep, world
<1>2. ASSUME phase' = "done", code' \in SUCCESS..INTERNAL, UNCHANGED <<pending, payload, family>>,
               executed' \in BOOLEAN, executed' => fate[Document.of] # "ok"
      PROVE  IInv'
  <2>1. Base' /\ Middle' /\ PublishedTogether' /\ ExitTellsWhatIsLeft'
    BY <1>1, <1>2, Ended DEF IInv, Base, TypeOK
  <2>2. RoundTrip' /\ AcceptedReplayIsOfScenario' /\ WrongScenarioIsIncompatible'
    BY <1>1 DEF RoundTrip, AcceptedReplayIsOfScenario, WrongScenarioIsIncompatible
  <2> QED
    BY <2>1, <2>2 DEF IInv, Judged
<1>3. OptionsFail \in Running..INTERNAL
  BY MappedIs DEF OptionsFail, Running, USAGE, INTERNAL
<1>4. CASE OptionsFail # Running
  BY <1>2, <1>3, <1>4 DEF Run, Exit, Running, SUCCESS, INTERNAL, IInv, Base, TypeOK, Unwritten
<1>5. CASE OptionsFail = Running /\ fate[Document.of] # "ok"
  <2>1. Raise(fate[Document.of]) /\ UNCHANGED <<pending, payload, family>> /\ executed' = TRUE
    BY <1>5 DEF Run, Executes
  <2> QED
    BY <1>2, <1>5, <2>1, MappedIs DEF Raise, Exit, SUCCESS, INTERNAL
<1>6. CASE OptionsFail = Running /\ fate[Document.of] = "ok"
  <2>1. /\ executed' = TRUE /\ pending' = Outputs /\ payload' = ResultOf(Document, cmd.seed)
        /\ family' = SUCCESS /\ phase' = "publish" /\ UNCHANGED code
    BY <1>6 DEF Run, Executes
  <2>2. cmd \in Commands /\ Document.kind \in Scenarios
    <3>1. cmd.sources \in Seq(Paths \cup {"-"}) /\ cmd.sources # <<>> /\ Len(loaded) = Len(cmd.sources)
      BY <1>1 DEF IInv, Base, Loading, CommandsAreWellFormed
    <3>2. 1 \in 1..Len(loaded)
      BY <3>1, EmptySeq, LenProperties
    <3> QED
      BY <1>1, <3>2 DEF IInv, Base, Loading, Document
  <2>3. OutputsOf(Document)
    BY <1>6, <2>2, OutputsAre
  <2>4. Outputs' = Outputs /\ Document' = Document /\ OptionsFail' = OptionsFail
    BY <1>1 DEF Outputs, Document, OptionsFail, Composed
  <2>5. Base'
    <3> USE DEF IInv, Base
    <3>1. TypeOK' /\ family' \in SUCCESS..INTERNAL
      BY <1>1, <2>1 DEF TypeOK, SUCCESS, INTERNAL
    <3>2. Contained'
      BY <1>1, <2>1, <2>3 DEF Contained, OutputsOf, PathOf
    <3>3. Loading' /\ Unwritten'
      BY <1>1, <2>1 DEF Loading, Unwritten
    <3>4. KeptIs'
      BY <1>1, KeptStays
    <3> QED
      BY <1>1, <3>1, <3>2, <3>3, <3>4
  <2>6. RunPrinted'
    BY <1>1, <1>6, <2>1, <2>2, <2>4 DEF RunPrinted, ResultOf
  <2>7. Publishing'
    <3>1. Written(0)'
      BY <1>1 DEF Written, IInv, Base, Unwritten
    <3>2. created' = {}
      BY <1>1 DEF IInv, Base, Unwritten
    <3>3. pending' = SubSeq(Outputs, 1, Len(Outputs))
      BY <2>1, <2>3, SubSeqProperties DEF OutputsOf
    <3>4. Published(0)'
      BY <2>4, <3>1, <3>2, <3>3 DEF Published
    <3>5. 0 \in 0..Len(Outputs')
      BY <2>3, <2>4 DEF OutputsOf
    <3> QED
      BY <2>1, <3>4, <3>5 DEF Publishing
  <2>8. ReplayPrinted'
    BY <1>1 DEF ReplayPrinted
  <2>9. Judged'
    BY <2>1, NotDone
  <2> QED
    BY <2>5, <2>6, <2>7, <2>8, <2>9 DEF IInv, Middle
<1> QED
  BY <1>4, <1>5, <1>6

(* The remaining outputs are a suffix of what the run leaves.              *)
Rest(s, j, t) ==
  /\ Len(s) \in Nat /\ t \in Seq(Range(t)) /\ Len(t) = Len(s) - j
  /\ (t = <<>> <=> j = Len(s))
  /\ \A i \in 1..Len(t) : t[i] = s[j + i]
  /\ j < Len(s) => Tail(t) = SubSeq(s, j + 2, Len(s))

LEMMA Remaining ==
  ASSUME NEW s, s \in Seq(Range(s)), NEW j \in 0..Len(s), NEW t, t = SubSeq(s, j + 1, Len(s))
  PROVE  Rest(s, j, t)
<1>1. PICK S : S = Range(s)
  OBVIOUS
<1>2. s \in Seq(S) /\ Len(s) \in Nat
  BY <1>1, LenProperties
<1>3. \A i \in (j + 1)..Len(s) : s[i] \in S
  BY <1>2, ElementOfSeq
<1>4. /\ t \in Seq(S) /\ Len(t) = Len(s) - j
      /\ \A i \in 1..Len(t) : t[i] = s[j + i]
  BY <1>2, <1>3, SubSeqProperties
<1>5. t = <<>> <=> j = Len(s)
  <2>1. t = <<>> <=> Len(t) = 0
    BY <1>4, EmptySeq
  <2> QED
    BY <1>2, <1>4, <2>1
<1>6. ASSUME j < Len(s)
      PROVE  Tail(t) = SubSeq(s, j + 2, Len(s))
  <2>1. \A i \in (j + 2)..Len(s) : s[i] \in S
    BY <1>3
  <2>2. PICK u \in Seq(S) : /\ u = SubSeq(s, j + 2, Len(s)) /\ Len(u) = Len(s) - j - 1
                            /\ \A i \in 1..Len(u) : u[i] = s[j + 1 + i]
    <3> PICK n \in Nat : n = Len(s) /\ j \in 0..n /\ j < n
      BY <1>2, <1>6
    <3>1. /\ j + 2 \in Int /\ Len(s) \in Int /\ j + 2 <= Len(s) + 1
          /\ Len(s) - (j + 2) + 1 = Len(s) - j - 1
      BY <1>2, <1>6
    <3>2. PICK u : u = SubSeq(s, j + 2, Len(s))
      OBVIOUS
    <3>3. /\ u \in Seq(S) /\ Len(u) = IF j + 2 <= Len(s) THEN Len(s) - (j + 2) + 1 ELSE 0
          /\ \A i \in 1..(Len(s) - (j + 2) + 1) : u[i] = s[j + 2 + i - 1]
      BY <2>1, <3>1, <3>2, SubSeqProperties
    <3>4. Len(u) = Len(s) - j - 1
      <4>1. n - (j + 2) + 1 = n - j - 1 /\ (~ (j + 2 <= n) => 0 = n - j - 1)
        OBVIOUS
      <4> QED
        BY <3>3, <4>1
    <3>5. \A i \in 1..Len(u) : u[i] = s[j + 1 + i]
      <4>1. \A i \in 1..(n - j - 1) : i \in 1..(n - (j + 2) + 1) /\ j + 2 + i - 1 = j + 1 + i
        OBVIOUS
      <4> QED
        BY <3>3, <3>4, <4>1
    <3> QED
      BY <3>2, <3>3, <3>4, <3>5
  <2>3. PICK v \in Seq(S) : /\ v = Tail(t) /\ Len(v) = Len(t) - 1
                            /\ \A i \in 1..Len(v) : v[i] = t[i + 1]
    <3>1. t \in Seq(S) /\ t # <<>>
      BY <1>2, <1>4, <1>5, <1>6
    <3>2. /\ Tail(t) \in Seq(S) /\ Len(Tail(t)) = Len(t) - 1
          /\ \A i \in 1..Len(Tail(t)) : Tail(t)[i] = t[i + 1]
      BY <3>1, HeadTailProperties
    <3> QED
      BY <3>2
  <2>4. Len(u) = Len(v) /\ \A i \in 1..Len(u) : u[i] = v[i]
    <3>1. Len(u) = Len(v)
      BY <1>2, <1>4, <2>2, <2>3
    <3> SUFFICES ASSUME NEW i \in 1..Len(u)
                 PROVE  u[i] = v[i]
      BY <3>1
    <3>2. u[i] = s[j + 1 + i] /\ i \in 1..Len(v) /\ v[i] = t[i + 1]
      BY <2>2, <2>3, <3>1
    <3>3. i + 1 \in 1..Len(t) /\ j + (i + 1) = j + 1 + i
      BY <1>2, <1>4, <2>3, <3>2
    <3> QED
      BY <1>4, <3>2, <3>3
  <2>5. u = v
    BY <2>4, SeqEqual
  <2> QED
    BY <2>2, <2>3, <2>5
<1> QED
  BY <1>2, <1>4, <1>5, <1>6, Sequenced DEF Rest

Destinations == [i \in DOMAIN pending |-> pending[i].path]
Occupied == {p \in Range(Destinations) : files[p] # Absent}
Unlinked == IF payload.kind = "result2" THEN created ELSE {pending[1].path}

LEMMA PublishIs ==
  ASSUME Publish
  PROVE  /\ phase = "publish"
         /\ UNCHANGED <<fate, invocations, edits, kept, before, cmd, taken, loaded, executed,
              payload, family>>
         /\ \/ pending = <<>> /\ phase' = "print" /\ UNCHANGED <<files, pending, created, code>>
            \/ /\ pending # <<>> /\ (~IsInjective(Destinations) \/ Occupied # {})
               /\ Exit(IO) /\ UNCHANGED <<files, pending, created>>
            \/ /\ pending # <<>> /\ IsInjective(Destinations) /\ (payload.kind # "result2" \/ Occupied = {})
               /\ files' = Without(Unlinked) /\ created' = {} /\ Exit(IO) /\ UNCHANGED pending
            \/ /\ pending # <<>> /\ IsInjective(Destinations) /\ Occupied = {}
               /\ files' = [files EXCEPT ![pending[1].path] = pending[1].is]
               /\ created' = created \cup {pending[1].path} /\ pending' = Tail(pending)
               /\ UNCHANGED <<phase, code>>
BY DEF Publish, Destinations, Occupied, Unlinked

LEMMA PublishContained ==
  ASSUME Base, Publish
  PROVE  /\ Contained' /\ files' = [p \in Paths |-> files'[p]] /\ DOMAIN files' = Paths
         /\ created' \subseteq Paths
<1> USE DEF Base
<1>1. UNCHANGED loaded
  BY PublishIs
<1>2. Contained
  OBVIOUS
<1>3. CASE UNCHANGED <<files, pending>> /\ created' \in {created, {}}
  BY <1>1, <1>2, <1>3 DEF Contained, TypeOK
<1>4. CASE UNCHANGED pending /\ created' = {} /\ files' = Without(Unlinked)
  <2>1. \A p \in Paths : files'[p] \in {files[p], Absent}
    BY <1>4 DEF Without
  <2>2. \A p \in Paths : IsContent(files'[p])
    BY <1>2, <2>1 DEF Contained, IsContent, Absent
  <2> QED
    BY <1>1, <1>2, <1>4, <2>2 DEF Contained, Without
<1>5. CASE /\ pending # <<>> /\ pending' = Tail(pending) /\ created' = created \cup {pending[1].path}
           /\ files' = [files EXCEPT ![pending[1].path] = pending[1].is]
  <2>1. PICK s : s = pending /\ s \in Seq(Range(s)) /\ s # <<>>
    BY <1>2, <1>5 DEF Contained
  <2>2. PICK t : t = Tail(s)
    OBVIOUS
  <2>3. /\ t \in Seq(Range(t)) /\ Len(s) \in Nat /\ Len(s) >= 1 /\ Len(t) = Len(s) - 1
        /\ \A i \in 1..(Len(s) - 1) : t[i] = s[i + 1]
    BY <2>1, <2>2, Tailed
  <2>4. \A i \in 1..Len(s) : s[i].path \in Paths /\ IsContent(s[i].is)
    BY <1>2, <2>1 DEF Contained
  <2>5. \A i \in 1..Len(t) : t[i].path \in Paths /\ IsContent(t[i].is)
    BY <2>3, <2>4
  <2>6. s[1].path \in Paths /\ IsContent(s[1].is)
    BY <2>3, <2>4
  <2>7. files' = [files EXCEPT ![s[1].path] = s[1].is]
    BY <1>5, <2>1
  <2>8. \A p \in Paths : IsContent(files'[p])
    BY <1>2, <2>6, <2>7 DEF Contained, TypeOK
  <2>9. files' = [p \in Paths |-> files'[p]] /\ DOMAIN files' = Paths
    BY <2>7 DEF TypeOK
  <2>10. created' \subseteq Paths
    BY <1>5, <2>1, <2>6 DEF TypeOK
  <2>11. pending' = t
    BY <1>5, <2>1, <2>2
  <2> QED
    BY <1>1, <1>2, <2>3, <2>5, <2>8, <2>9, <2>10, <2>11 DEF Contained
<1> QED
  BY <1>3, <1>4, <1>5, PublishIs

LEMMA PublishBase ==
  ASSUME Base, Publish
  PROVE  Base'
<1>1. Contained' /\ files' = [p \in Paths |-> files'[p]] /\ DOMAIN files' = Paths /\ created' \subseteq Paths
  BY PublishContained
<1>2. /\ phase = "publish"
      /\ UNCHANGED <<fate, invocations, edits, kept, before, cmd, taken, loaded, executed, payload, family>>
  BY PublishIs
<1>3. \/ phase' \in {"publish", "print"} /\ UNCHANGED code
      \/ phase' = "done" /\ code' = IO
  BY <1>2, PublishIs DEF Exit
<1>4. TypeOK'
  BY <1>1, <1>2, <1>3 DEF Base, TypeOK, Running, IO, INTERNAL
<1>5. Loading' /\ Unwritten'
  BY <1>2, <1>3 DEF Base, Loading, Unwritten
<1>6. KeptIs'
  BY <1>2, KeptStays DEF Base
<1>7. family' \in SUCCESS..INTERNAL /\ before' = [p \in Paths |-> before'[p]]
  BY <1>2 DEF Base
<1> QED
  BY <1>1, <1>4, <1>5, <1>6, <1>7 DEF Base

LEMMA RemainingOutputs ==
  ASSUME OutputsOf(Document), NEW j \in 0..Len(Outputs), Published(j)
  PROVE  Rest(Outputs, j, pending)
<1>1. Outputs \in Seq(Range(Outputs)) /\ pending = SubSeq(Outputs, j + 1, Len(Outputs))
  BY DEF OutputsOf, Published
<1> QED
  BY <1>1, Remaining

LEMMA PublishedStays ==
  ASSUME NEW j, Published(j), Outputs' = Outputs, UNCHANGED <<files, before, created, pending>>
  PROVE  Published(j)'
<1>1. Written(j)'
  BY DEF Published, Written, PathOf
<1>2. \A i : PathOf(i)' = PathOf(i)
  BY DEF PathOf
<1>3. created' = {PathOf(i)' : i \in 1..j}
  BY <1>2 DEF Published
<1> QED
  BY <1>1, <1>2, <1>3 DEF Published

(* What is taken back leaves the files as the invocation found them.       *)
LEMMA TakenBack ==
  ASSUME Base, OutputsOf(Document), NEW j \in 0..Len(Outputs), Published(j),
         files' = Without(created)
  PROVE  files' = before
<1>1. \A p \in Paths : files'[p] = before[p]
  <2> SUFFICES ASSUME NEW p \in Paths
               PROVE  files'[p] = before[p]
    OBVIOUS
  <2>1. files'[p] = IF p \in created THEN Absent ELSE files[p]
    BY DEF Without
  <2>2. CASE p \in created
    <3>1. PICK i \in 1..j : p = PathOf(i)
      BY <2>2 DEF Published
    <3>2. Len(Outputs) \in Nat /\ j > 0 /\ i \in 1..Len(Outputs)
      BY DEF OutputsOf
    <3> QED
      BY <2>1, <2>2, <3>1, <3>2 DEF Published
  <2>3. CASE p \notin created
    <3>1. \A i \in 1..j : PathOf(i) # p
      BY <2>3 DEF Published
    <3> QED
      BY <2>1, <2>3, <3>1 DEF Published, Written
  <2> QED
    BY <2>2, <2>3
<1>2. files' = [p \in Paths |-> files'[p]] /\ before = [p \in Paths |-> before[p]]
  BY DEF Without, Base
<1> QED
  BY <1>1, <1>2

(* A destination that was checked before the first output was published is *)
(* not found taken later.                                                  *)
LEMMA StillFree ==
  ASSUME Base, OutputsOf(Document), NEW j \in 1..Len(Outputs), Published(j)
  PROVE  IsInjective(Destinations) /\ Occupied = {}
<1>1. PICK s : s = Outputs /\ s \in Seq(Range(s))
  BY DEF OutputsOf
<1>2. /\ Len(s) \in Nat /\ Len(pending) = Len(s) - j /\ DOMAIN pending = 1..Len(pending)
      /\ \A i \in 1..Len(pending) : pending[i] = s[j + i]
  <2>1. j \in 0..Len(Outputs)
    BY DEF OutputsOf
  <2>2. /\ Len(s) \in Nat /\ pending \in Seq(Range(pending)) /\ Len(pending) = Len(s) - j
        /\ \A i \in 1..Len(pending) : pending[i] = s[j + i]
    BY <1>1, <2>1, RemainingOutputs DEF Rest
  <2> QED
    BY <2>2, LenProperties
<1>3. \A i \in 1..Len(pending) : j + i \in 1..Len(Outputs) /\ pending[i].path = PathOf(j + i)
  BY <1>1, <1>2 DEF PathOf
<1>4. j > 0
  OBVIOUS
<1>5. /\ \A i, m \in 1..Len(Outputs) : PathOf(i) = PathOf(m) => i = m
      /\ \A i \in 1..Len(Outputs) : before[PathOf(i)] = Absent
  BY <1>4 DEF Published
<1>6. \A a, b \in 1..Len(pending) : pending[a].path = pending[b].path => a = b
  <2> SUFFICES ASSUME NEW a \in 1..Len(pending), NEW b \in 1..Len(pending), pending[a].path = pending[b].path
               PROVE  a = b
    OBVIOUS
  <2>1. j + a = j + b
    BY <1>3, <1>5
  <2> QED
    BY <1>2, <2>1
<1>7. IsInjective(Destinations)
  BY <1>2, <1>6 DEF IsInjective, Destinations
<1>8. \A i \in 1..Len(pending) : files[pending[i].path] = Absent
  <2> SUFFICES ASSUME NEW i \in 1..Len(pending)
               PROVE  files[pending[i].path] = Absent
    OBVIOUS
  <2>1. j + i \in 1..Len(Outputs) /\ pending[i].path = PathOf(j + i) /\ PathOf(j + i) \in Paths
    BY <1>3 DEF OutputsOf
  <2>2. \A m \in 1..j : PathOf(m) # PathOf(j + i)
    BY <1>1, <1>2, <1>5, <2>1
  <2>3. files[PathOf(j + i)] = before[PathOf(j + i)]
    BY <2>1, <2>2 DEF Published, Written
  <2> QED
    BY <1>5, <2>1, <2>3
<1>9. Occupied = {}
  BY <1>2, <1>8 DEF Occupied, Destinations, Range
<1> QED
  BY <1>7, <1>9

(* The next output is published where nothing was.                         *)
LEMMA OneMore ==
  ASSUME Base, OutputsOf(Document), NEW j \in 0..Len(Outputs), Published(j), pending # <<>>,
         IsInjective(Destinations), Occupied = {}, Outputs' = Outputs, UNCHANGED before,
         files' = [files EXCEPT ![pending[1].path] = pending[1].is],
         created' = created \cup {pending[1].path}, pending' = Tail(pending)
  PROVE  j + 1 \in 0..Len(Outputs) /\ Published(j + 1)'
<1>1. PICK s : s = Outputs /\ s \in Seq(Range(s))
  BY DEF OutputsOf
<1>2. pending = SubSeq(s, j + 1, Len(s)) /\ j \in 0..Len(s)
  BY <1>1 DEF Published
<1>3. /\ Len(s) \in Nat /\ pending \in Seq(Range(pending)) /\ Len(pending) = Len(s) - j /\ j # Len(s)
      /\ \A i \in 1..Len(pending) : pending[i] = s[j + i]
      /\ j < Len(s) => Tail(pending) = SubSeq(s, j + 2, Len(s))
  BY <1>1, RemainingOutputs DEF Rest
<1>4. j + 1 \in 1..Len(Outputs) /\ pending[1] = Outputs[j + 1]
        /\ DOMAIN pending = 1..Len(pending) /\ 1 \in 1..Len(pending)
  BY <1>1, <1>2, <1>3, LenProperties
<1>5. pending' = SubSeq(Outputs, j + 2, Len(Outputs))
  BY <1>1, <1>2, <1>3
<1>6. created' = {PathOf(i) : i \in 1..(j + 1)}
  <2>1. 1..(j + 1) = 1..j \cup {j + 1}
    OBVIOUS
  <2> QED
    BY <1>4, <2>1 DEF Published, PathOf
<1>7. PathOf(j + 1) \in Paths /\ files' = [files EXCEPT ![PathOf(j + 1)] = Outputs[j + 1].is]
  BY <1>4 DEF OutputsOf, PathOf
<1>8. \A p \in Paths : \/ \E i \in 1..(j + 1) : PathOf(i) = p /\ files'[p] = Outputs[i].is
                       \/ (\A i \in 1..(j + 1) : PathOf(i) # p) /\ files'[p] = before[p]
  <2> SUFFICES ASSUME NEW p \in Paths
               PROVE  \/ \E i \in 1..(j + 1) : PathOf(i) = p /\ files'[p] = Outputs[i].is
                      \/ (\A i \in 1..(j + 1) : PathOf(i) # p) /\ files'[p] = before[p]
    OBVIOUS
  <2>1. DOMAIN files = Paths
    BY DEF Base, TypeOK
  <2>2. CASE PathOf(j + 1) = p
    <3>1. files'[p] = Outputs[j + 1].is
      BY <1>7, <2>1, <2>2
    <3> QED
      BY <1>4, <2>2, <3>1
  <2>3. CASE PathOf(j + 1) # p
    <3>1. files'[p] = files[p]
      BY <1>7, <2>1, <2>3
    <3>2. \/ \E i \in 1..j : PathOf(i) = p /\ files[p] = Outputs[i].is
          \/ (\A i \in 1..j : PathOf(i) # p) /\ files[p] = before[p]
      BY DEF Published, Written
    <3>3. \A i \in 1..(j + 1) : i \in 1..j \/ i = j + 1
      OBVIOUS
    <3>4. \A i \in 1..j : i \in 1..(j + 1)
      OBVIOUS
    <3> QED
      BY <2>3, <3>1, <3>2, <3>3, <3>4
  <2> QED
    BY <2>2, <2>3
<1>9. /\ \A i, m \in 1..Len(Outputs) : PathOf(i) = PathOf(m) => i = m
      /\ \A i \in 1..Len(Outputs) : before[PathOf(i)] = Absent
  <2>1. CASE j > 0
    BY <2>1 DEF Published
  <2>2. CASE j = 0
    <3>1. \A i \in 1..Len(Outputs) : i \in DOMAIN pending /\ pending[i].path = PathOf(i)
      BY <1>1, <1>3, <1>4, <2>2 DEF PathOf
    <3>2. \A i, m \in 1..Len(Outputs) : PathOf(i) = PathOf(m) => i = m
      BY <3>1 DEF IsInjective, Destinations
    <3>3. \A i \in 1..Len(Outputs) : files[PathOf(i)] = Absent
      BY <3>1 DEF Occupied, Destinations, Range
    <3>4. \A i \in 1..Len(Outputs) : files[PathOf(i)] = before[PathOf(i)]
      BY <2>2 DEF OutputsOf, Published, Written
    <3> QED
      BY <3>2, <3>3, <3>4
  <2> QED
    BY <2>1, <2>2
<1>10. \A i : PathOf(i)' = PathOf(i)
  BY DEF PathOf
<1>11. Written(j + 1)'
  BY <1>8, <1>10 DEF Written
<1>12. j + 1 + 1 = j + 2
  OBVIOUS
<1>13. pending' = SubSeq(Outputs', j + 1 + 1, Len(Outputs'))
  BY <1>5, <1>12
<1> QED
  BY <1>4, <1>6, <1>9, <1>11, <1>13 DEF Published, PathOf

(* The single output of Engine 1 is unlinked where it cannot be written.   *)
LEMMA OnlyOutput ==
  ASSUME OutputsOf(Document), Document.kind # "dsl2", NEW j \in 0..Len(Outputs), Published(j),
         pending # <<>>, files' = Without({pending[1].path})
  PROVE  \A o \in Range(Outputs) : files'[o.path] = Absent
<1>1. PICK s : s = Outputs /\ s \in Seq(Range(s)) /\ Len(s) \in 0..1 /\ DOMAIN s = 1..Len(s)
  BY LenProperties DEF OutputsOf
<1>2. /\ Len(pending) = Len(s) - j /\ (pending = <<>> <=> j = Len(s)) /\ j \in 0..Len(s)
      /\ \A i \in 1..Len(pending) : pending[i] = s[j + i]
  BY <1>1, RemainingOutputs DEF Rest
<1>3. Len(s) = 1 /\ j = 0 /\ pending[1] = s[1]
  <2> PICK n \in 0..1 : n = Len(s)
    BY <1>1
  <2>1. j \in 0..n /\ j # n
    BY <1>2
  <2>2. Len(s) = 1 /\ j = 0
    BY <2>1
  <2>3. 1 \in 1..Len(pending)
    BY <1>2, <2>2
  <2> QED
    BY <1>2, <2>2, <2>3
<1>4. Range(Outputs) = {s[1]} /\ s[1].path \in Paths
  BY <1>1, <1>3 DEF Range, OutputsOf, PathOf
<1> QED
  BY <1>3, <1>4 DEF Without

LEMMA PublishKeeps ==
  ASSUME CommandsAreWellFormed, IInv, Publish
  PROVE  IInv'
<1>1. Base'
  BY PublishBase DEF IInv
<1>2. /\ phase = "publish" /\ cmd.name \in {"run", "trace-view"} /\ cmd \in Commands
      /\ UNCHANGED <<fate, invocations, edits, kept, before, cmd, taken, loaded, executed, payload, family>>
  BY PublishIs DEF IInv, Base, Unwritten, Loading
<1>3. /\ Outputs' = Outputs /\ Document' = Document /\ OptionsFail' = OptionsFail
      /\ phase' \in {"publish", "print", "done"}
  BY <1>2, PublishIs DEF Outputs, Document, OptionsFail, Composed, Exit
<1>4. CASE cmd.name = "trace-view"
  BY <1>1, <1>2, <1>4, OtherCommands DEF IInv
<1>5. CASE cmd.name = "run"
  <2>1. RunPrinted
    BY DEF IInv, Middle
  <2>2. RunPrinted'
    BY <1>2, <1>3, <1>5, <2>1 DEF RunPrinted, ResultOf
  <2>3. ReplayPrinted'
    BY <1>2, <1>5 DEF ReplayPrinted
  <2>4. RoundTrip' /\ AcceptedReplayIsOfScenario' /\ WrongScenarioIsIncompatible'
    BY <1>2, <1>5 DEF RoundTrip, AcceptedReplayIsOfScenario, WrongScenarioIsIncompatible
  <2>5. OutputsOf(Document)
    BY <1>2, <1>5, <2>1, OutputsAre DEF RunPrinted
  <2>6. PICK j \in 0..Len(Outputs) : Published(j)
    BY <1>2, <1>5 DEF IInv, Middle, Publishing
  <2>7. payload.kind = "result2" <=> Document.kind = "dsl2"
    BY <1>2, <1>5, <2>1 DEF RunPrinted, ResultOf, Made
  <2>8. j = 0 => files = before
    <3>1. CASE j = 0
      <4>1. \A p \in Paths : files[p] = before[p]
        BY <2>6, <3>1 DEF Published, Written
      <4> QED
        BY <4>1 DEF IInv, Base
    <3> QED
      BY <3>1
  <2>9. ASSUME Exit(IO),
               \/ files' = before
               \/ Document.kind # "dsl2" /\ \A o \in Range(Outputs) : files'[o.path] = Absent
        PROVE  IInv'
    <3>1. PublishedTogether'
      BY <1>2, <1>3, <2>9 DEF PublishedTogether, Document
    <3>2. ExitTellsWhatIsLeft' /\ phase' = "done"
      BY <1>2, <1>3, <2>9 DEF ExitTellsWhatIsLeft, Exit
    <3> QED
      BY <1>1, <2>4, <3>1, <3>2, DoneIsNot DEF IInv, Judged
  <2>10. ASSUME phase' # "done", NEW m \in 0..Len(Outputs), Published(m)',
               phase' = "print" => m = Len(Outputs)
        PROVE  IInv'
    <3>1. Publishing'
      BY <1>3, <2>10 DEF Publishing
    <3> QED
      BY <1>1, <2>2, <2>3, <2>10, <3>1, NotDone DEF IInv, Middle
  <2>11. CASE pending = <<>> /\ phase' = "print" /\ UNCHANGED <<files, pending, created, code>>
    <3>1. j = Len(Outputs)
      BY <2>5, <2>6, <2>11, RemainingOutputs DEF Rest
    <3>2. Published(j)'
      BY <1>2, <1>3, <2>6, <2>11, PublishedStays
    <3> QED
      BY <2>10, <2>11, <3>1, <3>2
  <2>12. CASE /\ ~IsInjective(Destinations) \/ Occupied # {}
             /\ Exit(IO) /\ UNCHANGED <<files, pending, created>>
    <3>1. j = 0
      <4>1. j \notin 1..Len(Outputs)
        BY <2>5, <2>6, <2>12, StillFree DEF IInv
      <4> QED
        BY <2>5, <4>1 DEF OutputsOf
    <3> QED
      BY <2>8, <2>9, <2>12, <3>1
  <2>13. CASE pending # <<>> /\ files' = Without(Unlinked) /\ Exit(IO)
    <3>1. CASE Document.kind = "dsl2"
      <4>1. files' = Without(created)
        BY <2>7, <2>13, <3>1 DEF Unlinked
      <4>2. files' = before
        BY <2>5, <2>6, <4>1, TakenBack DEF IInv
      <4> QED
        BY <2>9, <2>13, <4>2
    <3>2. CASE Document.kind # "dsl2"
      <4>1. \A o \in Range(Outputs) : files'[o.path] = Absent
        BY <2>5, <2>6, <2>7, <2>13, <3>2, OnlyOutput DEF Unlinked
      <4> QED
        BY <2>9, <2>13, <3>2, <4>1
    <3> QED
      BY <3>1, <3>2
  <2>14. CASE /\ pending # <<>> /\ IsInjective(Destinations) /\ Occupied = {}
              /\ files' = [files EXCEPT ![pending[1].path] = pending[1].is]
              /\ created' = created \cup {pending[1].path} /\ pending' = Tail(pending)
              /\ UNCHANGED <<phase, code>>
    <3>1. j + 1 \in 0..Len(Outputs) /\ Published(j + 1)'
      BY <1>2, <1>3, <2>5, <2>6, <2>14, OneMore DEF IInv
    <3> QED
      BY <1>2, <2>10, <2>14, <3>1
  <2> QED
    BY <2>11, <2>12, <2>13, <2>14, PublishIs
<1> QED
  BY <1>2, <1>4, <1>5

-----------------------------------------------------------------------------
(* A replay.  Its artifact is genuine and of its scenario where it gets to *)
(* execute, but for what a forged result of Engine 2 claims.               *)
LEMMA ReplayLoaded ==
  ASSUME CommandsAreWellFormed, Base, phase = "handle", cmd.name = "replay"
  PROVE  /\ Len(loaded) = 2 /\ IsContent(Artifact) /\ IsContent(Scenario) /\ cmd \in Commands
         /\ files = before /\ ~executed
<1>1. Len(loaded) = 2
  BY DEF Base, Loading, CommandsAreWellFormed
<1> QED
  BY <1>1 DEF Base, Loading, Unwritten, Contained, Artifact, Scenario

(* What a replay prints is the recorded result of what it was given.       *)
LEMMA ReplayShown ==
  ASSUME CommandsAreWellFormed, Base, phase = "handle", cmd.name = "replay", Keep,
         UNCHANGED <<loaded, created, pending, code>>, taken' \in BOOLEAN, executed' \in BOOLEAN,
           phase' = "print",
         family' = SUCCESS, Artifact.of = Scenario.of, Artifact.edit = "none",
         payload' = IF Artifact.kind = "result2" THEN Artifact ELSE ResultOf(Scenario, Artifact.seed)
  PROVE  IInv'
<1> USE DEF Base
<1>1. UNCHANGED <<files, fate, invocations, edits, kept, before, cmd>>
  BY DEF Keep, world
<1>2. TypeOK' /\ family' \in SUCCESS..INTERNAL
  BY <1>1 DEF TypeOK, SUCCESS, INTERNAL
<1>3. Contained'
  BY <1>1 DEF Contained
<1>4. Loading' /\ Unwritten'
  BY <1>1 DEF Loading, Unwritten
<1>5. KeptIs'
  BY <1>1, KeptStays
<1>6. ReplayPrinted'
  BY DEF ReplayPrinted, Artifact, Scenario, ResultOf
<1>7. RunPrinted' /\ Publishing'
  BY <1>1 DEF RunPrinted, Publishing
<1>8. Judged'
  BY NotDone
<1> QED
  BY <1>1, <1>2, <1>3, <1>4, <1>5, <1>6, <1>7, <1>8 DEF IInv, Middle

(* A genuine artifact, and its schedule, on the wrong scenario.            *)
Mismatched ==
  /\ Artifact.edit = "none" /\ Scenario.kind \in {"dsl1", "dsl2"} /\ Artifact.of # Scenario.of
  /\ \/ Artifact.kind = "run" /\ cmd.schedule = NoPath
     \/ /\ Artifact.kind = "result2" /\ cmd.schedule \in Paths
        /\ files[cmd.schedule] = Made("schedule", Artifact, Artifact.seed)

(* Its plugins are looked for before the hashes are compared.              *)
PluginsFirst ==
  /\ Artifact.kind = "run" /\ Scenario.kind = "dsl1" /\ ScenarioId[Artifact.of] = ScenarioId[Scenario.of]
  /\ fate[Scenario.of] = "PluginCompatibilityError"

LEMMA ReplayEnds ==
  ASSUME CommandsAreWellFormed, Base, phase = "handle", cmd.name = "replay", Keep,
         UNCHANGED <<loaded, created, pending>>, taken' \in BOOLEAN, executed' \in BOOLEAN, phase' = "done",
         family' \in SUCCESS..INTERNAL, code' \in SUCCESS..INTERNAL,
         \A k \in kept : ~ReplaysOf(k),
         executed' => Artifact.of = Scenario.of /\ ~Broken(Artifact) /\ code' # SUCCESS,
         Mismatched => ~executed' /\ (code' = REPLAY_COMPATIBILITY \/ (code' = EXECUTION /\ PluginsFirst))
  PROVE  IInv'
<1>1. UNCHANGED <<files, fate, invocations, edits, kept, before, cmd, loaded>>
  BY DEF Keep, world
<1>2. Base' /\ Middle' /\ PublishedTogether' /\ ExitTellsWhatIsLeft'
  BY Ended
<1>3. RoundTrip'
  BY <1>1 DEF RoundTrip, ReplaysOf
<1>4. AcceptedReplayIsOfScenario'
  BY <1>1 DEF AcceptedReplayIsOfScenario, Artifact, Scenario, Broken
<1>5. WrongScenarioIsIncompatible'
  BY <1>1 DEF WrongScenarioIsIncompatible, Mismatched, PluginsFirst, Artifact, Scenario, Made
<1> QED
  BY <1>2, <1>3, <1>4, <1>5 DEF IInv, Judged

(* What is kept of a run replays its artifact of Engine 1 or 2.            *)
LEMMA KeptReplays ==
  ASSUME Base, NEW k \in kept, ReplaysOf(k)
  PROVE  /\ fate[Scenario.of] = "ok" /\ Artifact.of = Scenario.of /\ Artifact.edit = "none"
         /\ \/ Scenario.kind = "dsl1" /\ Artifact.kind = "run" /\ cmd.schedule = NoPath
            \/ /\ Scenario.kind = "dsl2" /\ Artifact.kind = "result2" /\ cmd.schedule \in Paths
               /\ files[cmd.schedule] = Made("schedule", Artifact, Artifact.seed)
         /\ k.payload = IF Artifact.kind = "result2" THEN Artifact ELSE ResultOf(Scenario, Artifact.seed)
<1>1. k.left # <<>> /\ Scenario = k.doc
  BY DEF ReplaysOf, Scenario
<1>2. fate[k.doc.of] = "ok"
  BY <1>1 DEF Base, KeptIs
<1>3. CASE k.doc.kind = "dsl2"
  <2>1. k.payload = Made("result2", k.doc, k.payload.seed)
          /\ k.left[1].is = Made("schedule", k.doc, k.payload.seed)
    BY <1>1, <1>3 DEF Base, KeptIs
  <2>2. Artifact = k.payload /\ cmd.schedule \in Paths /\ files[cmd.schedule] = k.left[1].is
    BY <1>3 DEF ReplaysOf, Artifact
  <2>3. Artifact.kind = "result2" /\ Artifact.of = k.doc.of /\ Artifact.edit = "none"
    BY <2>1, <2>2 DEF Made
  <2>4. files[cmd.schedule] = Made("schedule", Artifact, Artifact.seed)
    BY <2>1, <2>2, <2>3 DEF Made
  <2> QED
    BY <1>1, <1>2, <1>3, <2>2, <2>3, <2>4
<1>4. CASE k.doc.kind # "dsl2"
  <2>1. /\ k.doc.kind = "dsl1" /\ k.payload = Made("result1", k.doc, k.payload.seed)
        /\ k.left[1].is = Made("run", k.doc, k.payload.seed)
    BY <1>1, <1>4 DEF Base, KeptIs
  <2>2. Artifact = k.left[1].is /\ cmd.schedule = NoPath
    BY <1>4 DEF ReplaysOf, Artifact
  <2>3. /\ Artifact.kind = "run" /\ Artifact.of = k.doc.of /\ Artifact.edit = "none"
        /\ Artifact.seed = k.payload.seed
    BY <2>1, <2>2 DEF Made
  <2>4. k.payload = ResultOf(Scenario, Artifact.seed)
    BY <1>1, <2>1, <2>3 DEF ResultOf
  <2> QED
    BY <1>1, <1>2, <2>1, <2>2, <2>3, <2>4
<1> QED
  BY <1>3, <1>4

LEMMA ReplayEngine1Keeps ==
  ASSUME CommandsAreWellFormed, IInv, ReplayEngine1
  PROVE  IInv'
<1> DEFINE fails == IF Artifact.kind = "run" THEN EnvelopeFails ELSE OtherFails
<1>1. /\ phase = "handle" /\ cmd.name = "replay" /\ Artifact.kind # "result2" /\ Keep
      /\ UNCHANGED <<taken, loaded, created>>
  BY DEF ReplayEngine1
<1>2. taken \in BOOLEAN /\ executed \in BOOLEAN /\ family \in SUCCESS..INTERNAL /\ Base
  BY DEF IInv, Base, TypeOK
<1>3. IsContent(Artifact) /\ ~executed
  BY <1>1, <1>2, ReplayLoaded
<1>4. fails = "none" => Artifact.kind = "run" /\ Artifact.of = Scenario.of /\ Artifact.edit = "none"
  BY <1>3 DEF EnvelopeFails, OtherFails, IsContent, Contracts
<1>5. Mismatched =>
        /\ cmd.schedule = NoPath
        /\ fails = "ReplayCompatibilityError" \/ (fails = "PluginCompatibilityError" /\ PluginsFirst)
  BY <1>1 DEF Mismatched, EnvelopeFails, PluginsFirst
<1>6. \A k \in kept : ReplaysOf(k) => cmd.schedule = NoPath /\ fails = "none" /\ fate[Scenario.of] = "ok"
  BY <1>1, <1>2, KeptReplays DEF EnvelopeFails
<1> HIDE DEF fails
<1>7. CASE cmd.schedule # NoPath /\ Exit(USAGE) /\ UNCHANGED <<executed, pending, payload, family>>
  <2>1. phase' = "done" /\ code' \in SUCCESS..INTERNAL /\ ~executed'
    BY <1>3, <1>7 DEF Exit, USAGE, SUCCESS, INTERNAL
  <2> QED
    BY <1>1, <1>2, <1>5, <1>6, <1>7, <2>1, ReplayEnds
<1>8. CASE fails # "none" /\ Raise(fails) /\ UNCHANGED <<executed, pending, payload, family>>
  <2>1. phase' = "done" /\ code' = Mapped(fails) /\ code' \in SUCCESS..INTERNAL /\ ~executed'
    BY <1>3, <1>8, MappedIs DEF Raise, Exit, SUCCESS, INTERNAL
  <2>2. Mismatched => code' = REPLAY_COMPATIBILITY \/ (code' = EXECUTION /\ PluginsFirst)
    BY <1>5, <2>1, Incompatible
  <2> QED
    BY <1>1, <1>2, <1>6, <1>8, <2>1, <2>2, ReplayEnds
<1>9. CASE /\ fails = "none" /\ executed' = TRUE /\ fate[Scenario.of] # "ok"
           /\ Raise(fate[Scenario.of]) /\ UNCHANGED <<pending, payload, family>>
  <2>1. phase' = "done" /\ code' \in SUCCESS..INTERNAL /\ code' # SUCCESS
    BY <1>9, MappedIs DEF Raise, Exit, SUCCESS, INTERNAL
  <2>2. ~Broken(Artifact) /\ Artifact.of = Scenario.of /\ ~Mismatched
    BY <1>4, <1>9 DEF Broken, Mismatched
  <2> QED
    BY <1>1, <1>2, <1>6, <1>9, <2>1, <2>2, ReplayEnds
<1>10. CASE /\ fails = "none" /\ executed' = TRUE
            /\ Shows(ResultOf(Scenario, Artifact.seed), SUCCESS) /\ UNCHANGED pending
  BY <1>1, <1>2, <1>4, <1>10, ReplayShown DEF Shows
<1> QED
  BY <1>7, <1>8, <1>9, <1>10 DEF ReplayEngine1, Executes, fails

(* What ReplayEngine2 reads of the scenario before the schedule.           *)
Unread ==
  IF cmd.schedule = NoPath THEN REPLAY_COMPATIBILITY
  ELSE IF Scenario.kind \notin {"dsl1", "dsl2"} THEN Mapped("DSLError")
  ELSE IF Scenario.kind = "dsl1" THEN REPLAY_COMPATIBILITY ELSE Running

LEMMA Engine2Compares ==
  ASSUME CommandsAreWellFormed, Base, phase = "handle", cmd.name = "replay",
         Artifact.kind = "result2", NEW schedule
  PROVE  /\ Unread \in Running..INTERNAL /\ Engine2Fails(schedule) \in Running..INTERNAL
         /\ Engine2Fails(schedule) = Running => Artifact.of = Scenario.of /\ ~Broken(Artifact)
         /\ Mismatched => Unread \in {Running, REPLAY_COMPATIBILITY}
         /\ Mismatched /\ schedule = files[cmd.schedule] => Engine2Fails(schedule) = REPLAY_COMPATIBILITY
         /\ \A k \in kept : ReplaysOf(k) =>
              /\ Unread = Running
              /\ schedule = files[cmd.schedule] => Engine2Fails(schedule) = Running
<1> USE DEF Running, USAGE, VALIDATION, REPLAY_COMPATIBILITY, SECURITY_OR_BOUND, IO, INTERNAL
<1>1. Unread \in Running..INTERNAL
  BY MappedIs DEF Unread
<1>2. Engine2Fails(schedule) \in Running..INTERNAL
  BY MappedIs DEF Engine2Fails, ReadFails
<1>3. Engine2Fails(schedule) = Running => Artifact.of = Scenario.of /\ ~Broken(Artifact)
  BY MappedIs DEF Engine2Fails, ReadFails
<1>4. NoPath \notin Paths
  BY DEF CommandsAreWellFormed
<1>5. Mismatched => Unread \in {Running, REPLAY_COMPATIBILITY}
  BY <1>4 DEF Mismatched, Unread
<1>6. ASSUME schedule = Made("schedule", Artifact, Artifact.seed), Artifact.edit = "none"
      PROVE  /\ ReadFails(schedule) = Running /\ ~Broken(Artifact) /\ ~Broken(schedule)
             /\ schedule.kind = "schedule" /\ schedule.of = Artifact.of /\ schedule.seed = Artifact.seed
  BY <1>6 DEF ReadFails, Broken, Made, Absent
<1>7. ASSUME Mismatched, schedule = files[cmd.schedule]
      PROVE  Engine2Fails(schedule) = REPLAY_COMPATIBILITY
  <2>1. schedule = Made("schedule", Artifact, Artifact.seed) /\ Artifact.edit = "none"
          /\ Artifact.of # Scenario.of
    BY <1>7 DEF Mismatched
  <2> QED
    BY <1>6, <2>1, Incompatible DEF Engine2Fails
<1>8. ASSUME NEW k \in kept, ReplaysOf(k)
      PROVE  /\ Unread = Running
             /\ schedule = files[cmd.schedule] => Engine2Fails(schedule) = Running
  <2>1. /\ Scenario.kind = "dsl2" /\ cmd.schedule \in Paths /\ Artifact.of = Scenario.of
        /\ Artifact.edit = "none" /\ fate[Scenario.of] = "ok"
        /\ files[cmd.schedule] = Made("schedule", Artifact, Artifact.seed)
    BY <1>8, KeptReplays
  <2>2. Unread = Running
    BY <1>4, <2>1 DEF Unread
  <2>3. schedule = files[cmd.schedule] => Engine2Fails(schedule) = Running
    BY <1>6, <2>1 DEF Engine2Fails
  <2> QED
    BY <2>2, <2>3
<1> QED
  BY <1>1, <1>2, <1>3, <1>5, <1>7, <1>8

LEMMA ReplayEngine2Keeps ==
  ASSUME CommandsAreWellFormed, IInv, ReplayEngine2
  PROVE  IInv'
<1>1. PICK fails : fails = Engine2Fails(ContentOf(cmd.schedule))
  OBVIOUS
<1>2. /\ phase = "handle" /\ cmd.name = "replay" /\ Artifact.kind = "result2" /\ Keep
      /\ UNCHANGED <<loaded, created>> /\ taken' = (taken \/ (Unread = Running /\ cmd.schedule = "-"))
      /\ \/ Unread # Running /\ Exit(Unread) /\ UNCHANGED <<executed, pending, payload, family>>
         \/ /\ Unread = Running /\ fails # Running
            /\ Exit(fails) /\ UNCHANGED <<executed, pending, payload, family>>
         \/ /\ Unread = Running /\ fails = Running
            /\ executed' = TRUE /\ fate[Scenario.of] # "ok"
            /\ Raise("ScheduleReplayMismatch") /\ UNCHANGED <<pending, payload, family>>
         \/ /\ Unread = Running /\ fails = Running
            /\ executed' = TRUE /\ Artifact.edit = "forged"
            /\ Raise("Engine2ReplayMismatch") /\ UNCHANGED <<pending, payload, family>>
         \/ /\ Unread = Running /\ fails = Running
            /\ executed' = TRUE /\ Artifact.edit # "forged" /\ Shows(Artifact, SUCCESS) /\ UNCHANGED pending
  BY <1>1 DEF ReplayEngine2, Compares, Unread
<1>3. taken' \in BOOLEAN /\ executed \in BOOLEAN /\ family \in SUCCESS..INTERNAL /\ Base
  BY <1>2 DEF IInv, Base, TypeOK
<1>4. ~executed
  BY <1>2, <1>3, ReplayLoaded
<1>5. cmd.schedule \in Paths => ContentOf(cmd.schedule) = files[cmd.schedule]
  BY DEF ContentOf, CommandsAreWellFormed
<1>6. /\ Unread \in Running..INTERNAL /\ fails \in Running..INTERNAL
      /\ fails = Running => Artifact.of = Scenario.of /\ ~Broken(Artifact)
      /\ Mismatched => Unread \in {Running, REPLAY_COMPATIBILITY} /\ fails = REPLAY_COMPATIBILITY
      /\ \A k \in kept : ReplaysOf(k) => Unread = Running /\ fails = Running
  <2>1. Mismatched => cmd.schedule \in Paths
    BY <1>2 DEF Mismatched
  <2>2. \A k \in kept : ReplaysOf(k) => cmd.schedule \in Paths
    BY <1>2, <1>3, KeptReplays
  <2> QED
    BY <1>1, <1>2, <1>3, <1>5, <2>1, <2>2, Engine2Compares
<1>7. \A k \in kept : ReplaysOf(k) => fate[Scenario.of] = "ok" /\ Artifact.edit = "none"
  BY <1>3, KeptReplays
<1>8. Running \notin SUCCESS..INTERNAL /\ \A c \in Running..INTERNAL : c # Running => c \in SUCCESS..INTERNAL
  BY DEF Running, SUCCESS, INTERNAL
<1>9. \A e : Mapped(e) \in SUCCESS..INTERNAL /\ Mapped(e) # SUCCESS
  BY MappedIs DEF SUCCESS, INTERNAL
<1>10. fails = Running => ~Mismatched
  BY <1>6 DEF Mismatched
<1>11. CASE Unread # Running /\ Exit(Unread) /\ UNCHANGED <<executed, pending, payload, family>>
  <2>1. phase' = "done" /\ code' = Unread /\ code' \in SUCCESS..INTERNAL /\ ~executed'
    BY <1>4, <1>6, <1>8, <1>11 DEF Exit
  <2>2. /\ Mismatched => code' = REPLAY_COMPATIBILITY
        /\ \A k \in kept : ~ReplaysOf(k)
    BY <1>6, <1>11, <2>1
  <2> QED
    BY <1>2, <1>3, <1>11, <2>1, <2>2, ReplayEnds
<1>12. CASE Unread = Running /\ fails # Running /\ Exit(fails)
         /\ UNCHANGED <<executed, pending, payload, family>>
  <2>1. phase' = "done" /\ code' = fails /\ code' \in SUCCESS..INTERNAL /\ ~executed'
    BY <1>4, <1>6, <1>8, <1>12 DEF Exit
  <2>2. /\ Mismatched => code' = REPLAY_COMPATIBILITY
        /\ \A k \in kept : ~ReplaysOf(k)
    BY <1>6, <1>12, <2>1
  <2> QED
    BY <1>2, <1>3, <1>12, <2>1, <2>2, ReplayEnds
<1>13. ASSUME fails = Running, executed' = TRUE, UNCHANGED <<pending, payload, family>>, NEW e, Raise(e),
              fate[Scenario.of] # "ok" \/ Artifact.edit = "forged"
       PROVE  IInv'
  <2>1. phase' = "done" /\ code' \in SUCCESS..INTERNAL /\ code' # SUCCESS
    BY <1>9, <1>13 DEF Raise, Exit
  <2>2. \A k \in kept : ~ReplaysOf(k)
    BY <1>7, <1>13
  <2>3. ~Mismatched /\ Artifact.of = Scenario.of /\ ~Broken(Artifact)
    BY <1>6, <1>10, <1>13
  <2> QED
    BY <1>2, <1>3, <1>13, <2>1, <2>2, <2>3, ReplayEnds
<1>14. CASE /\ fails = Running /\ executed' = TRUE /\ Artifact.edit # "forged"
            /\ Shows(Artifact, SUCCESS) /\ UNCHANGED pending
  <2>1. Artifact.of = Scenario.of /\ Artifact.edit = "none"
    BY <1>6, <1>14 DEF Broken
  <2>2. phase' = "print" /\ family' = SUCCESS /\ payload' = Artifact /\ UNCHANGED code
    BY <1>14 DEF Shows
  <2> QED
    BY <1>2, <1>3, <1>14, <2>1, <2>2, ReplayShown
<1> QED
  BY <1>2, <1>11, <1>12, <1>13, <1>14

-----------------------------------------------------------------------------
(* The end of an invocation, and what happens between invocations.         *)
LEMMA WriteOutIs ==
  ASSUME IInv, WriteOut
  PROVE  /\ phase = "print" /\ phase' = "done" /\ code' \in {family, SECURITY_OR_BOUND, INTERNAL}
         /\ UNCHANGED <<files, fate, invocations, edits, before, cmd, taken, loaded, executed,
              pending, created, payload, family>>
         /\ kept' = kept \/ (cmd.name = "run" /\ kept' = kept \cup {[doc |-> Document, payload |-> payload, left |-> Outputs]})
BY Incompatible DEF WriteOut, Keeps, Exit, Raise, io

LEMMA WriteOutKeepsKept ==
  ASSUME CommandsAreWellFormed, IInv, WriteOut
  PROVE  KeptIs'
<1>1. KeptIs /\ UNCHANGED fate
  BY WriteOutIs DEF IInv, Base
<1>2. CASE kept' = kept
  BY <1>1, <1>2 DEF KeptIs
<1>3. ASSUME cmd.name = "run", NEW k, k = [doc |-> Document, payload |-> payload, left |-> Outputs], k.left # <<>>
      PROVE  /\ fate[k.doc.of] = "ok"
             /\ IF k.doc.kind = "dsl2"
                THEN k.payload = Made("result2", k.doc, k.payload.seed)
                  /\ k.left[1].is = Made("schedule", k.doc, k.payload.seed)
                ELSE /\ k.doc.kind = "dsl1" /\ k.payload = Made("result1", k.doc, k.payload.seed)
                     /\ k.left[1].is = Made("run", k.doc, k.payload.seed)
  <2>1. phase = "print"
    BY WriteOutIs
  <2>2. /\ fate[Document.of] = "ok" /\ OptionsFail = Running /\ Document.kind \in Scenarios
        /\ payload = ResultOf(Document, cmd.seed) /\ cmd \in Commands
    BY <1>3, <2>1 DEF IInv, Base, Loading, Middle, RunPrinted
  <2>3. OutputsOf(Document)
    BY <2>2, OutputsAre
  <2>4. payload.seed = cmd.seed
    BY <2>2 DEF ResultOf, Made
  <2>5. k.doc = Document /\ k.payload = payload /\ k.left = Outputs
    BY <1>3
  <2>6. Len(Outputs) >= 1
    BY <1>3, <2>3, <2>5, EmptySeq DEF OutputsOf
  <2>7. CASE Document.kind = "dsl2"
    <3>1. Outputs[1].is = Made("schedule", Document, cmd.seed)
      BY <2>3, <2>7 DEF OutputsOf
    <3>2. payload = Made("result2", Document, cmd.seed)
      BY <2>2, <2>7 DEF ResultOf
    <3> QED
      BY <2>2, <2>4, <2>5, <2>7, <3>1, <3>2
  <2>8. CASE Document.kind # "dsl2"
    <3>1. Len(Outputs) = 1
      <4>1. Len(Outputs) \in 0..2 /\ Len(Outputs) <= 1
        BY <2>3, <2>8 DEF OutputsOf
      <4> QED
        BY <2>6, <4>1
    <3>2. Document.kind = "dsl1" /\ Outputs[1].is = Made("run", Document, cmd.seed)
      BY <2>3, <2>8, <3>1 DEF OutputsOf
    <3> QED
      BY <2>2, <2>4, <2>5, <2>8, <3>2 DEF ResultOf
  <2> QED
    BY <2>7, <2>8
<1>4. CASE cmd.name = "run" /\ kept' = kept \cup {[doc |-> Document, payload |-> payload, left |-> Outputs]}
  BY <1>1, <1>3, <1>4 DEF KeptIs
<1> QED
  BY <1>2, <1>4, WriteOutIs

(* All that a run leaves is there, each output at its own destination.     *)
LEMMA AllPublished ==
  ASSUME Base, OutputsOf(Document), Published(Len(Outputs)), Document.kind = "dsl2"
  PROVE  files = [p \in Paths |-> IF \E i \in DOMAIN Outputs : Outputs[i].path = p
                                  THEN (CHOOSE o \in Range(Outputs) : o.path = p).is ELSE before[p]]
<1>1. PICK s : s = Outputs /\ s \in Seq(Range(s)) /\ Len(s) \in 1..2 /\ DOMAIN s = 1..Len(s)
  BY LenProperties DEF OutputsOf
<1>2. \A i, m \in 1..Len(s) : s[i].path = s[m].path => i = m
  BY <1>1 DEF Published, PathOf
<1>3. ASSUME NEW p \in Paths
      PROVE  files[p] = IF \E i \in DOMAIN s : s[i].path = p
                        THEN (CHOOSE o \in Range(s) : o.path = p).is ELSE before[p]
  <2>1. \/ \E i \in 1..Len(s) : s[i].path = p /\ files[p] = s[i].is
        \/ (\A i \in 1..Len(s) : s[i].path # p) /\ files[p] = before[p]
    BY <1>1 DEF Published, Written, PathOf
  <2>2. CASE \E i \in 1..Len(s) : s[i].path = p
    <3>1. PICK i \in 1..Len(s) : s[i].path = p /\ files[p] = s[i].is
      BY <2>1, <2>2
    <3>2. s[i] \in Range(s) /\ \A o \in Range(s) : o.path = p => o = s[i]
      BY <1>1, <1>2, <3>1 DEF Range
    <3>3. (CHOOSE o \in Range(s) : o.path = p) = s[i]
      BY <3>1, <3>2
    <3> QED
      BY <1>1, <2>2, <3>1, <3>3
  <2>3. CASE \A i \in 1..Len(s) : s[i].path # p
    BY <1>1, <2>1, <2>3
  <2> QED
    BY <2>2, <2>3
<1> QED
  BY <1>1, <1>3 DEF Base

(* It is there where nothing was.                                          *)
LEMMA AllAreThere ==
  ASSUME OutputsOf(Document), Published(Len(Outputs))
  PROVE  \A o \in Range(Outputs) : before[o.path] = Absent /\ files[o.path] = o.is
<1>1. PICK s : s = Outputs /\ s \in Seq(Range(s)) /\ Len(s) \in 0..2 /\ DOMAIN s = 1..Len(s)
  BY LenProperties DEF OutputsOf
<1>2. ASSUME NEW i \in 1..Len(s)
      PROVE  before[s[i].path] = Absent /\ files[s[i].path] = s[i].is
  <2>1. /\ \A a, b \in 1..Len(s) : s[a].path = s[b].path => a = b
        /\ before[s[i].path] = Absent
    BY <1>1, <1>2 DEF Published, PathOf
  <2>2. s[i].path \in Paths
    BY <1>1, <1>2 DEF OutputsOf, PathOf
  <2>3. PICK m \in 1..Len(s) : s[m].path = s[i].path /\ files[s[i].path] = s[m].is
    BY <1>1, <1>2, <2>2 DEF Published, Written, PathOf
  <2> QED
    BY <2>1, <2>3
<1> QED
  BY <1>1, <1>2 DEF Range

LEMMA WriteOutKeeps ==
  ASSUME CommandsAreWellFormed, IInv, WriteOut
  PROVE  IInv'
<1>1. /\ phase = "print" /\ phase' = "done" /\ code' \in {family, SECURITY_OR_BOUND, INTERNAL}
      /\ UNCHANGED <<files, fate, invocations, edits, before, cmd, taken, loaded, executed,
           pending, created, payload, family>>
      /\ cmd.name # "run" => kept' = kept
  BY WriteOutIs
<1>2. Base'
  <2> USE DEF IInv, Base
  <2>1. TypeOK'
    BY <1>1 DEF TypeOK, Running, SUCCESS, SECURITY_OR_BOUND, INTERNAL
  <2>2. Contained' /\ Loading' /\ Unwritten'
    BY <1>1 DEF Contained, Loading, Unwritten
  <2>3. KeptIs'
    BY WriteOutKeepsKept
  <2> QED
    BY <1>1, <2>1, <2>2, <2>3
<1>3. Middle'
  BY <1>1, DoneIsNot
<1>4. CASE cmd.name \notin {"run", "replay"}
  BY <1>1, <1>2, <1>4, OtherCommands DEF IInv
<1>5. CASE cmd.name = "run"
  <2>1. RoundTrip' /\ AcceptedReplayIsOfScenario' /\ WrongScenarioIsIncompatible'
    BY <1>1, <1>5 DEF RoundTrip, AcceptedReplayIsOfScenario, WrongScenarioIsIncompatible
  <2>2. /\ Base /\ cmd \in Commands /\ OptionsFail = Running /\ Document.kind \in Scenarios
        /\ family = SUCCESS /\ Published(Len(Outputs))
    BY <1>1, <1>5 DEF IInv, Base, Loading, Middle, RunPrinted, Publishing
  <2>3. OutputsOf(Document)
    BY <2>2, OutputsAre
  <2>4. Outputs' = Outputs
    BY <1>1 DEF Outputs, Document
  <2>5. ExitTellsWhatIsLeft'
    <3>1. code' # IO
      BY <1>1, <2>2 DEF SUCCESS, SECURITY_OR_BOUND, INTERNAL, IO
    <3> QED
      BY <1>1, <2>2, <2>3, <2>4, <3>1, AllAreThere DEF ExitTellsWhatIsLeft
  <2>6. PublishedTogether'
    <3>1. CASE Document.kind # "dsl2"
      BY <1>1, <3>1 DEF PublishedTogether, Document
    <3>2. CASE Document.kind = "dsl2"
      <4>1. files = [p \in Paths |-> IF \E i \in DOMAIN Outputs : Outputs[i].path = p
                                     THEN (CHOOSE o \in Range(Outputs) : o.path = p).is ELSE before[p]]
        BY <2>2, <2>3, <3>2, AllPublished
      <4> QED
        BY <1>1, <2>4, <4>1 DEF PublishedTogether
    <3> QED
      BY <3>1, <3>2
  <2> QED
    BY <1>2, <1>3, <2>1, <2>6, <2>5 DEF IInv, Judged
<1>6. CASE cmd.name = "replay"
  <2>1. /\ Artifact.of = Scenario.of /\ Artifact.edit = "none" /\ family = SUCCESS
        /\ payload = IF Artifact.kind = "result2" THEN Artifact ELSE ResultOf(Scenario, Artifact.seed)
    BY <1>1, <1>6 DEF IInv, Middle, ReplayPrinted
  <2>2. RoundTrip'
    <3>1. \A k \in kept : ReplaysOf(k) => payload = k.payload
      BY <2>1, KeptReplays DEF IInv
    <3>2. \A k \in kept : ReplaysOf(k)' = ReplaysOf(k)
      BY <1>1 DEF ReplaysOf
    <3> QED
      BY <1>1, <1>6, <2>1, <3>1, <3>2 DEF RoundTrip
  <2>3. AcceptedReplayIsOfScenario'
    BY <1>1, <2>1 DEF AcceptedReplayIsOfScenario, Artifact, Scenario, Broken
  <2>4. WrongScenarioIsIncompatible'
    BY <1>1, <2>1 DEF WrongScenarioIsIncompatible, Artifact, Scenario
  <2>5. PublishedTogether' /\ ExitTellsWhatIsLeft'
    BY <1>1, <1>6 DEF PublishedTogether, ExitTellsWhatIsLeft
  <2> QED
    BY <1>2, <1>3, <2>2, <2>3, <2>4, <2>5 DEF IInv, Judged
<1> QED
  BY <1>4, <1>5, <1>6

LEMMA ReturnKeeps ==
  ASSUME CommandsAreWellFormed, IInv, Return
  PROVE  IInv'
<1> USE DEF IInv, Base
<1>1. /\ phase' = "idle" /\ code' = Running /\ taken' = FALSE /\ loaded' = <<>> /\ executed' = FALSE
      /\ pending' = <<>> /\ created' = {} /\ payload' = Nothing /\ family' = SUCCESS
      /\ UNCHANGED <<files, fate, invocations, edits, kept, before, cmd>>
  BY DEF Return, Keep, world
<1>2. TypeOK'
  <2>1. Running \in Running..INTERNAL
    BY DEF Running, INTERNAL
  <2> QED
    BY <1>1, <2>1 DEF TypeOK
<1>3. family' \in SUCCESS..INTERNAL
  BY <1>1 DEF SUCCESS, INTERNAL
<1>4. Contained'
  BY <1>1 DEF Contained
<1>5. Loading' /\ Unwritten'
  BY <1>1 DEF Loading, Unwritten
<1>6. KeptIs'
  BY <1>1, KeptStays
<1>7. Middle' /\ Judged'
  BY <1>1, Elsewhere
<1> QED
  BY <1>1, <1>2, <1>3, <1>4, <1>5, <1>6, <1>7

LEMMA EditKeeps ==
  ASSUME CommandsAreWellFormed, IInv, NEW p \in Paths, Edit(p)
  PROVE  IInv'
<1> USE DEF IInv, Base
<1>1. PICK c \in Contents : files' = [files EXCEPT ![p] = c]
  BY DEF Edit
<1>2. /\ phase = "idle" /\ edits < MaxEdits /\ edits' = edits + 1 /\ IsContent(c)
      /\ UNCHANGED <<fate, invocations, kept, before, cmd, phase, taken, loaded, executed, pending,
           created, payload, family, code>>
  BY DEF Edit, io, CommandsAreWellFormed
<1>3. TypeOK'
  BY <1>1, <1>2 DEF TypeOK, CommandsAreWellFormed
<1>4. files' = [q \in Paths |-> files'[q]] /\ \A q \in Paths : IsContent(files'[q])
  BY <1>1, <1>2 DEF Contained
<1>5. Contained'
  BY <1>2, <1>4 DEF Contained
<1>6. Loading' /\ Unwritten'
  BY <1>2 DEF Loading, Unwritten
<1>7. KeptIs'
  BY <1>2, KeptStays
<1>8. Middle' /\ Judged'
  BY <1>2, Elsewhere
<1> QED
  BY <1>2, <1>3, <1>4, <1>5, <1>6, <1>7, <1>8

LEMMA StutterKeeps ==
  ASSUME IInv, UNCHANGED vars
  PROVE  IInv'
<1>1. /\ UNCHANGED <<files, fate, invocations, edits, kept, before, cmd, phase, code>>
      /\ UNCHANGED <<taken, loaded, executed, pending, created, payload, family>>
  BY DEF vars, world, io
<1>2. /\ Outputs' = Outputs /\ Document' = Document /\ OptionsFail' = OptionsFail
      /\ Artifact' = Artifact /\ Scenario' = Scenario
  BY <1>1 DEF Outputs, Document, OptionsFail, Composed, Artifact, Scenario
<1>3. Base'
  <2> USE DEF IInv, Base
  <2>1. TypeOK' /\ Contained' /\ Loading' /\ Unwritten'
    BY <1>1 DEF TypeOK, Contained, Loading, Unwritten
  <2>2. KeptIs'
    BY <1>1, KeptStays
  <2> QED
    BY <1>1, <2>1, <2>2
<1>4. Middle'
  <2>1. RunPrinted' /\ ReplayPrinted'
    BY <1>1, <1>2 DEF IInv, Middle, RunPrinted, ReplayPrinted, ResultOf
  <2>2. \A j : Published(j) => Published(j)'
    BY <1>1, <1>2, PublishedStays
  <2>3. Publishing'
    BY <1>1, <1>2, <2>2 DEF IInv, Middle, Publishing
  <2> QED
    BY <2>1, <2>3 DEF Middle
<1>5. Judged'
  BY <1>1, <1>2 DEF IInv, Judged, RoundTrip, ReplaysOf, AcceptedReplayIsOfScenario,
                    WrongScenarioIsIncompatible, PublishedTogether, ExitTellsWhatIsLeft
<1> QED
  BY <1>3, <1>4, <1>5 DEF IInv

-----------------------------------------------------------------------------
LEMMA NextKeeps ==
  ASSUME CommandsAreWellFormed, IInv, [Next]_vars
  PROVE  IInv'
<1>1. ASSUME NEW c \in Commands, Invoke(c)
      PROVE  IInv'
  BY <1>1, InvokeKeeps
<1>2. CASE Read
  BY <1>2, ReadKeeps
<1>3. CASE Validate \/ Inspect \/ Diff \/ BatchCommand
  BY <1>3, ShowersKeep
<1>4. CASE Run
  BY <1>4, RunKeeps
<1>5. CASE MatrixCommand
  BY <1>5, MatrixKeeps
<1>6. CASE Trace
  BY <1>6, TraceKeeps
<1>7. CASE Publish
  BY <1>7, PublishKeeps
<1>8. CASE ReplayEngine1
  BY <1>8, ReplayEngine1Keeps
<1>9. CASE ReplayEngine2
  BY <1>9, ReplayEngine2Keeps
<1>10. CASE WriteOut
  BY <1>10, WriteOutKeeps
<1>11. CASE Return
  BY <1>11, ReturnKeeps
<1>12. ASSUME NEW p \in Paths, Edit(p)
       PROVE  IInv'
  BY <1>12, EditKeeps
<1>13. CASE UNCHANGED vars
  BY <1>13, StutterKeeps
<1> QED
  BY <1>1, <1>2, <1>3, <1>4, <1>5, <1>6, <1>7, <1>8, <1>9, <1>10, <1>11, <1>12, <1>13 DEF Next, Handle

(* What invocations leave can be replayed, by themselves and as what it is:*)
(* a replay of what a run left (its schedule and result, or its artifact)  *)
(* prints what the run printed and is refused for no contract; nothing is  *)
(* executed for an artifact of another scenario; an artifact on the wrong  *)
(* scenario ends in REPLAY_COMPATIBILITY, unless the plugins of a scenario *)
(* of the recorded name are missing; the outputs of a run of Engine 2 are  *)
(* all there or none is; and the exit family of a run that executed well   *)
(* tells whether its outputs are there (cli/main.py, _run, _replay, _write,*)
(* _publish_engine2_outputs).                                              *)
THEOREM InvocationsSafe ==
  ASSUME CommandsAreWellFormed
  PROVE  Spec => []InvocationsAreSafe
<1>1. Init => IInv
  BY InitHolds
<1>2. IInv /\ [Next]_vars => IInv'
  BY NextKeeps
<1>3. IInv => InvocationsAreSafe
  BY DEF IInv, Base, Judged, InvocationsAreSafe
<1> QED
  BY <1>1, <1>2, <1>3, PTL DEF Spec
=============================================================================
