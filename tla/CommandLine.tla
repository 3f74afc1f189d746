------------------------------ MODULE CommandLine ------------------------------
(***************************************************************************)
(* Invocations of the command line (cli/main.py) one after another over    *)
(* the same files: what each reads, in which order it refuses, what it     *)
(* executes, publishes and prints, and the exit family it ends with.       *)
(* Between invocations somebody may edit a file.                           *)
(*                                                                         *)
(* What a run computes depends on the scenario and the seed alone; that an *)
(* engine is deterministic, and what exact replay verifies, are the        *)
(* subjects of ActorExecution and ExactReplay.                             *)
(***************************************************************************)
EXTENDS Integers, SequencesExt, FiniteSetsExt

CONSTANTS
  Paths,           \* the files; "-" is the standard input
  Contents,        \* what may be in a file or in the standard input
  FilesAtFirst, Piped,
  Commands,        \* the invocations that are tried
  Fates,           \* what executing a scenario ends with
  ScenarioId,      \* of each version of a scenario
  MaxInvocations, MaxEdits

(* A content is of a kind, of a version of the scenario and of a seed.     *)
(* "edit" says what of it was tampered with: a field a reader checks or, in*)
(* one that is "forged", an observation with every hash made anew.         *)
Absent == [kind |-> "absent", of |-> 0, seed |-> 0, edit |-> "none"]
Nothing == [kind |-> "empty", of |-> 0, seed |-> 0, edit |-> "none"]
Made(kind, doc, seed) == [kind |-> kind, of |-> doc.of, seed |-> seed, edit |-> "none"]
Broken(c) == c.edit \notin {"none", "forged"}
NoPath == "none"

(* What may be in a file, and what is asked: a run that is published is    *)
(* tampered with in a field its reader checks; a replay names an artifact  *)
(* and a scenario; outputs go to files.                                    *)
Contracts == {"schema", "model", "child", "contract", "identity", "context"}
IsContent(c) ==
  /\ c = [kind |-> c.kind, of |-> c.of, seed |-> c.seed, edit |-> c.edit]
  /\ c.kind = "run" => c.edit \in Contracts \cup {"none"}

CommandsAreWellFormed ==
  /\ "-" \notin Paths /\ NoPath \notin Paths /\ MaxInvocations \in Nat /\ MaxEdits \in Nat
  /\ FilesAtFirst = [p \in Paths |-> FilesAtFirst[p]] /\ IsContent(Piped)
  /\ \A c \in Contents \cup {FilesAtFirst[p] : p \in Paths} : IsContent(c)
  /\ \A c \in Commands :
       /\ c.sources \in Seq(Paths \cup {"-"}) /\ c.sources # <<>>
       /\ c.name = "replay" => Len(c.sources) = 2
       /\ {c.replay_out, c.schedule_out, c.result_out, c.out} \subseteq Paths \cup {NoPath}

VARIABLES
  files, fate,
  invocations, edits,
  cmd, phase,
  taken,              \* the standard input has been read
  loaded,             \* contents of the sources read so far
  executed,           \* a scenario was executed
  pending, created,   \* outputs to publish, and the paths published
  payload, family,    \* what is to be printed, and the exit family then
  code,
  kept, before        \* history: the runs that went well, and the files at the invocation

world == <<files, fate, invocations, edits, kept, before>>
io == <<taken, loaded, executed, pending, created, payload, family>>
vars == <<world, cmd, phase, io, code>>

SUCCESS == 0
DIFFERENT == 1
USAGE == 2
VALIDATION == 3
EXECUTION == 4
REPLAY_COMPATIBILITY == 5
SECURITY_OR_BOUND == 6
IO == 7
INTERNAL == 8
Running == -1

-----------------------------------------------------------------------------
(* The bases of the exceptions a handler may let through.                  *)
Domain == {"ScenarioEngineError", "ValueError"}
Hierarchy ==
  {[of |-> {"DSLError", "SuiteSerializationError", "ArtifactReadError", "ReplayCompatibilityError",
            "ExpressionEvaluationError", "ResourceResolutionError", "PluginCompatibilityError", "BatchError", "MatrixError", "CompositionError"}, bases |-> Domain],
   [of |-> {"UnsupportedReplayContractError"}, bases |-> Domain \cup {"ReplayCompatibilityError"}],
   [of |-> {"CompositionBoundError", "CompositionPathError"}, bases |-> Domain \cup {"CompositionError"}],
   [of |-> {"Engine2EvidenceError", "ScheduleError", "TraceViewError"}, bases |-> {"ValueError"}],
   [of |-> {"Engine2ReplayMismatch"}, bases |-> {"Engine2EvidenceError", "ValueError"}],
   [of |-> {"ScheduleReplayMismatch"}, bases |-> {"ScheduleError", "ValueError"}],
   [of |-> {"UnsupportedDiffTargetError"}, bases |-> {"DiffError", "ScenarioEngineError", "TypeError"}]}
Bases(e) == {e} \cup UNION {row.bases : row \in {row \in Hierarchy : e \in row.of}}

Families == <<
  [of |-> {"TraceViewError"}, code |-> VALIDATION],
  [of |-> {"UnsupportedReplayContractError", "ReplayCompatibilityError"}, code |-> REPLAY_COMPATIBILITY],
  [of |-> {"Engine2ReplayMismatch", "ScheduleReplayMismatch"}, code |-> REPLAY_COMPATIBILITY],
  [of |-> {"Engine2EvidenceError", "ScheduleError"}, code |-> VALIDATION],
  [of |-> {"CompositionBoundError", "CompositionPathError"}, code |-> SECURITY_OR_BOUND],
  [of |-> {"DSLError", "CompositionError", "ArtifactReadError", "SuiteSerializationError"}, code |-> VALIDATION],
  [of |-> {"MatrixError", "BatchError", "DiffError"}, code |-> VALIDATION],
  [of |-> {"ScenarioEngineError"}, code |-> EXECUTION],
  [of |-> {"TypeError", "ValueError"}, code |-> VALIDATION]>>

Hits(e) == {i \in DOMAIN Families : Families[i].of \cap Bases(e) # {}}

(* Mutant: the families are tried from the most general one.               *)
MappedGenerally(e) == IF Hits(e) = {} THEN INTERNAL ELSE Families[Max(Hits(e))].code

(* _mapped: the first family an exception belongs to.                      *)
Mapped(e) == IF Hits(e) = {} THEN INTERNAL ELSE Families[Min(Hits(e))].code

(* Mutant: the family of the error is not returned.                        *)
ExitSilently(c) == phase' = "done" /\ UNCHANGED code

Exit(c) == phase' = "done" /\ code' = c
Raise(e) == Exit(Mapped(e))
Keep == UNCHANGED <<world, cmd>>

-----------------------------------------------------------------------------
Invoke(c) ==
  /\ phase = "idle" /\ invocations < MaxInvocations
  /\ invocations' = invocations + 1 /\ cmd' = c /\ phase' = "read"
  /\ before' = files
  /\ UNCHANGED <<files, fate, edits, kept, io, code>>

(* The sources in the order in which they are read: those of a batch are   *)
(* its plan and the scenarios that the plan names.  Only the commands that *)
(* compare keep count of the standard input.                               *)
Counted == cmd.name = "diff"
Source == cmd.sources[Len(loaded) + 1]
ContentOf(path) == IF path # "-" THEN files[path] ELSE IF taken THEN Nothing ELSE Piped

(* _load_target: a document that does not parse may be the root of a       *)
(* composition; where it is not, the error is that of the document.        *)
LoadFails(path, content) ==
  IF path = "-" /\ cmd.root THEN SECURITY_OR_BOUND
  ELSE IF cmd.root /\ content = Absent THEN Mapped("CompositionPathError")
  ELSE IF content = Absent THEN IO
  ELSE IF content.edit = "long" THEN SECURITY_OR_BOUND
  ELSE IF content.kind = "root" /\ path # "-" THEN Running
  ELSE IF cmd.root THEN Mapped("CompositionError")
  ELSE IF content.kind \notin {"dsl1", "dsl2"} THEN Mapped("DSLError")
  ELSE Running

ReadFails(content) ==
  IF content = Absent THEN IO ELSE IF content.edit = "long" THEN SECURITY_OR_BOUND ELSE Running

(* What is refused before the next source is read.                         *)
Results == {"result1", "result2"}
ArtifactFails(content) ==
  IF content.kind \notin Results THEN Mapped("ArtifactReadError")
  ELSE IF Broken(content) THEN Mapped("Engine2EvidenceError") ELSE Running

TraceFails(content) ==
  IF loaded = <<>>
  THEN IF content.kind \notin Results \cup {"run"} \/ Broken(content) \/
          (content.kind # "result2" /\ Len(cmd.sources) = 2)
       THEN Mapped("TraceViewError") ELSE Running
  ELSE IF content.kind # "schedule" \/ Broken(content) \/ <<content.of, content.seed>> # <<loaded[1].of, loaded[1].seed>>
  THEN Mapped("TraceViewError") ELSE Running

BatchFails(content) ==
  IF loaded = <<>> THEN IF content.kind # "plan" THEN VALIDATION ELSE Running
  ELSE IF LoadFails(Source, content) # Running THEN LoadFails(Source, content)
  ELSE IF content.kind = "dsl2" THEN Mapped("BatchError") ELSE Running

Refuses(content) ==
  IF cmd.name \in {"validate", "run", "matrix"} THEN LoadFails(Source, content)
  ELSE IF ReadFails(content) # Running THEN ReadFails(content)
  ELSE IF cmd.name \in {"diff", "inspect"} THEN ArtifactFails(content)
  ELSE IF cmd.name = "trace-view" THEN TraceFails(content)
  ELSE IF cmd.name = "batch" THEN BatchFails(content) ELSE Running

(* Mutant: what was read is not kept.                                      *)
ReadAgain ==
  /\ phase = "read" /\ Refuses(ContentOf(Source)) = Running /\ taken' = (taken \/ Source = "-")
  /\ Keep /\ UNCHANGED <<phase, code, loaded, executed, pending, created, payload, family>>

Read ==
  /\ phase = "read"
  /\ IF Source = "-" /\ taken /\ Counted THEN Exit(USAGE) /\ UNCHANGED <<taken, loaded>>
     ELSE IF Refuses(ContentOf(Source)) # Running THEN Exit(Refuses(ContentOf(Source))) /\ UNCHANGED <<taken, loaded>>
     ELSE /\ loaded' = Append(loaded, ContentOf(Source)) /\ taken' = (taken \/ Source = "-")
          /\ phase' = IF Len(loaded) + 1 = Len(cmd.sources) THEN "handle" ELSE "read"
          /\ UNCHANGED code
  /\ Keep /\ UNCHANGED <<executed, pending, created, payload, family>>

-----------------------------------------------------------------------------
Document == loaded[1]
Composed == Document.kind = "root"
Shows(what, c) == payload' = what /\ family' = c /\ phase' = "print" /\ UNCHANGED code

(* _validate and _hash, which differ in what they call the identity.       *)
Validate ==
  /\ phase = "handle" /\ cmd.name = "validate"
  /\ Shows(Made("identity", Document, 0), SUCCESS)
  /\ Keep /\ UNCHANGED <<taken, loaded, executed, pending, created>>

Inspect ==
  /\ phase = "handle" /\ cmd.name = "inspect"
  /\ Shows(Made("inspection", Document, Document.seed), SUCCESS)
  /\ Keep /\ UNCHANGED <<taken, loaded, executed, pending, created>>

(* The options of _run are looked at once the scenario is loaded.          *)
OptionsFail ==
  IF Document.kind = "dsl2"
  THEN IF cmd.schedule_seed # "valid" \/ cmd.replay_out # NoPath \/ cmd.schedule_out = NoPath THEN USAGE ELSE Running
  ELSE IF cmd.schedule_seed # "none" \/ cmd.schedule_out # NoPath \/ cmd.result_out # NoPath THEN USAGE
  ELSE IF Composed /\ cmd.replay_out # NoPath THEN Mapped("UnsupportedReplayContractError") ELSE Running

Output(path, is) == IF path = NoPath THEN <<>> ELSE <<[path |-> path, is |-> is]>>
Outputs ==
  IF Document.kind = "dsl2"
  THEN Output(cmd.schedule_out, Made("schedule", Document, cmd.seed)) \o Output(cmd.result_out, Made("result2", Document, cmd.seed))
  ELSE Output(cmd.replay_out, Made("run", Document, cmd.seed))

ResultOf(doc, seed) == Made(IF doc.kind = "dsl2" THEN "result2" ELSE "result1", doc, seed)

(* Executes a scenario, and goes on to what follows where it ends well.    *)
Executes(doc, goes) ==
  /\ executed' = TRUE
  /\ IF fate[doc.of] # "ok" THEN Raise(fate[doc.of]) /\ UNCHANGED <<pending, payload, family>> ELSE goes

Run ==
  /\ phase = "handle" /\ cmd.name = "run"
  /\ IF OptionsFail # Running THEN Exit(OptionsFail) /\ UNCHANGED <<executed, pending, payload, family>>
     ELSE Executes(Document, /\ pending' = Outputs /\ payload' = ResultOf(Document, cmd.seed)
                             /\ family' = SUCCESS /\ phase' = "publish" /\ UNCHANGED code)
  /\ Keep /\ UNCHANGED <<taken, loaded, created>>

(* Cases are described, or executed until one fails.                       *)
MatrixCommand ==
  /\ phase = "handle" /\ cmd.name = "matrix"
  /\ IF Document.kind = "dsl2" THEN Raise("MatrixError") /\ UNCHANGED <<executed, pending, payload, family>>
     ELSE IF cmd.describe THEN Shows(Made("cases", Document, 0), SUCCESS) /\ UNCHANGED <<executed, pending>>
     ELSE Executes(Document, Shows(Made("matrix", Document, 0), SUCCESS) /\ UNCHANGED pending)
  /\ Keep /\ UNCHANGED <<taken, loaded, created>>

(* A run of a batch that fails, whatever it raises, is a failure recorded. *)
BatchCommand ==
  /\ phase = "handle" /\ cmd.name = "batch" /\ executed' = (Len(loaded) > 1)
  /\ Shows(Made("batch", Document, 0),
           IF \E i \in 2..Len(loaded) : fate[loaded[i].of] # "ok" THEN EXECUTION ELSE SUCCESS)
  /\ Keep /\ UNCHANGED <<taken, loaded, pending, created>>

Trace ==
  /\ phase = "handle" /\ cmd.name = "trace-view"
  /\ pending' = Output(cmd.out, Made("html", Document, Document.seed))
  /\ payload' = Made("summary", Document, 0) /\ family' = SUCCESS /\ phase' = "publish"
  /\ Keep /\ UNCHANGED <<code, taken, loaded, executed, created>>

(* Mutant: what was published before is left there.                        *)
WithoutKept(paths) == files

Without(paths) == [p \in Paths |-> IF p \in paths THEN Absent ELSE files[p]]

(* The destinations of Engine 2 are looked at before the first is written, *)
(* and one that cannot be written takes those before it with it; a single  *)
(* destination is unlinked itself (what that may remove: FilePublication). *)
Publish ==
  /\ phase = "publish"
  /\ IF pending = <<>> THEN phase' = "print" /\ UNCHANGED <<files, pending, created, code>>
     ELSE LET paths == [i \in DOMAIN pending |-> pending[i].path]
              taken_ == {p \in Range(paths) : files[p] # Absent}
              unlinked == IF payload.kind = "result2" THEN created ELSE {pending[1].path}
          IN \/ /\ ~IsInjective(paths) \/ taken_ # {}
                /\ Exit(IO) /\ UNCHANGED <<files, pending, created>>
             \/ /\ IsInjective(paths) /\ (payload.kind # "result2" \/ taken_ = {})
                /\ files' = Without(unlinked) /\ created' = {} /\ Exit(IO) /\ UNCHANGED pending
             \/ /\ IsInjective(paths) /\ taken_ = {}
                /\ files' = [files EXCEPT ![pending[1].path] = pending[1].is]
                /\ created' = created \cup {pending[1].path} /\ pending' = Tail(pending)
                /\ UNCHANGED <<phase, code>>
  /\ UNCHANGED <<fate, invocations, edits, kept, before, cmd, taken, loaded, executed, payload, family>>

-----------------------------------------------------------------------------
Artifact == loaded[1]
Scenario == loaded[2]

(* Mutant: the scenario's identity is left to the manifest.                *)
EnvelopeFailsUnlessChild ==
  IF Artifact.edit \in {"schema", "model", "child", "contract", "context"} THEN "ReplayCompatibilityError"
  ELSE IF Scenario.kind \notin {"dsl1", "dsl2"} THEN "DSLError" ELSE "none"

(* Mutant: the coordinates are compared with the defaults of a run.        *)
EnvelopeFailsOffDefaults ==
  IF Artifact.edit # "none" \/ Artifact.of # Scenario.of \/ Artifact.seed # 0 THEN "ReplayCompatibilityError"
  ELSE IF Scenario.kind # "dsl1" THEN "DSLError" ELSE "none"

(* The contracts of a suite.run/1 artifact, in the order they are checked: *)
(* schema, model, child manifest, engine, then the name of the scenario    *)
(* and the coordinates.  replay_scenario resolves the resources and looks  *)
(* for the plugins, of which the command line has none, before it compares *)
(* the manifest with the scenario.                                         *)
EnvelopeFails ==
  IF Artifact.edit \in {"schema", "model", "child", "contract"} THEN "ReplayCompatibilityError"
  ELSE IF Scenario.kind \notin {"dsl1", "dsl2"} THEN "DSLError"
  ELSE IF Scenario.kind = "dsl2" \/ Artifact.edit \in {"identity", "context"} THEN "ReplayCompatibilityError"
  ELSE IF ScenarioId[Artifact.of] # ScenarioId[Scenario.of] THEN "ReplayCompatibilityError"
  ELSE IF fate[Scenario.of] = "ResourceResolutionError" THEN "ReplayCompatibilityError"
  ELSE IF fate[Scenario.of] = "PluginCompatibilityError" THEN "PluginCompatibilityError"
  ELSE IF Artifact.of # Scenario.of THEN "ReplayCompatibilityError" ELSE "none"

(* What is no envelope is tried as a result and as a manifest of version 1.*)
OtherFails == IF Artifact.kind = "result1" THEN "UnsupportedReplayContractError" ELSE "ArtifactReadError"

ReplayEngine1 ==
  /\ phase = "handle" /\ cmd.name = "replay" /\ Artifact.kind # "result2"
  /\ LET fails == IF Artifact.kind = "run" THEN EnvelopeFails ELSE OtherFails
     IN IF cmd.schedule # NoPath THEN Exit(USAGE) /\ UNCHANGED <<executed, pending, payload, family>>
        ELSE IF fails # "none" THEN Raise(fails) /\ UNCHANGED <<executed, pending, payload, family>>
        ELSE Executes(Scenario, Shows(ResultOf(Scenario, Artifact.seed), SUCCESS) /\ UNCHANGED pending)
  /\ Keep /\ UNCHANGED <<taken, loaded, created>>

(* read_result2, read_schedule, their coordinates, then the scenario and   *)
(* its resources.                                                          *)
Engine2Fails(schedule) ==
  IF ReadFails(schedule) # Running THEN ReadFails(schedule)
  ELSE IF Broken(Artifact) THEN Mapped("Engine2EvidenceError")
  ELSE IF schedule.kind # "schedule" \/ Broken(schedule) THEN Mapped("ScheduleError")
  ELSE IF <<schedule.of, schedule.seed>> # <<Artifact.of, Artifact.seed>> THEN Mapped("Engine2ReplayMismatch")
  ELSE IF schedule.of # Scenario.of THEN Mapped("ScheduleReplayMismatch")
  ELSE IF fate[Scenario.of] = "ResourceResolutionError" THEN Mapped("ResourceResolutionError")
  ELSE Running

(* exact_replay_internal and the comparison of what it observed: a failure *)
(* is a mismatch, or what the evidence tells.                              *)
Compares ==
  /\ executed' = TRUE
  /\ \/ /\ fate[Scenario.of] # "ok" /\ Raise("ScheduleReplayMismatch")
        /\ UNCHANGED <<pending, payload, family>>
     \/ /\ Artifact.edit = "forged" /\ Raise("Engine2ReplayMismatch")
        /\ UNCHANGED <<pending, payload, family>>
     \/ Artifact.edit # "forged" /\ Shows(Artifact, SUCCESS) /\ UNCHANGED pending

ReplayEngine2 ==
  /\ phase = "handle" /\ cmd.name = "replay" /\ Artifact.kind = "result2"
  /\ LET unread == IF cmd.schedule = NoPath THEN REPLAY_COMPATIBILITY
                   ELSE IF Scenario.kind \notin {"dsl1", "dsl2"} THEN Mapped("DSLError")
                   ELSE IF Scenario.kind = "dsl1" THEN REPLAY_COMPATIBILITY ELSE Running
         fails == Engine2Fails(ContentOf(cmd.schedule))
     IN /\ taken' = (taken \/ (unread = Running /\ cmd.schedule = "-"))
        /\ IF unread # Running THEN Exit(unread) /\ UNCHANGED <<executed, pending, payload, family>>
           ELSE IF fails # Running THEN Exit(fails) /\ UNCHANGED <<executed, pending, payload, family>>
           ELSE Compares
  /\ Keep /\ UNCHANGED <<loaded, created>>

(* Results of the two engines have inspections of the same contract.       *)
Diff ==
  /\ phase = "handle" /\ cmd.name = "diff"
  /\ Shows(Made("diff", Document, 0), IF loaded[1] = loaded[2] THEN SUCCESS ELSE DIFFERENT)
  /\ Keep /\ UNCHANGED <<taken, loaded, executed, pending, created>>

-----------------------------------------------------------------------------
(* _write comes last; it may find the payload too long or the output gone. *)
(* What was published by then stays.                                       *)
Keeps == IF cmd.name = "run" THEN {[doc |-> Document, payload |-> payload, left |-> Outputs]} ELSE {}

(* Mutant: output that fails has the family of a destination that fails.   *)
WriteOutAsPublished ==
  /\ phase = "print" /\ kept' = kept \cup Keeps
  /\ Exit(family) \/ Exit(SECURITY_OR_BOUND) \/ Exit(IO)
  /\ UNCHANGED <<files, fate, invocations, edits, before, cmd, io>>

WriteOut ==
  /\ phase = "print" /\ kept' = kept \cup Keeps
  /\ Exit(family) \/ Exit(SECURITY_OR_BOUND) \/ Raise("OSError")
  /\ UNCHANGED <<files, fate, invocations, edits, before, cmd, io>>

Return ==
  /\ phase = "done" /\ phase' = "idle" /\ code' = Running
  /\ taken' = FALSE /\ loaded' = <<>> /\ executed' = FALSE /\ pending' = <<>> /\ created' = {}
  /\ payload' = Nothing /\ family' = SUCCESS /\ Keep

(* Somebody edits a file: another scenario, or a field of an artifact.     *)
Edit(p) ==
  /\ phase = "idle" /\ edits < MaxEdits /\ files[p] # Absent
  /\ files' \in {[files EXCEPT ![p] = c] : c \in {c \in Contents : c.kind = files[p].kind} \ {files[p]}}
  /\ edits' = edits + 1
  /\ UNCHANGED <<fate, invocations, kept, before, cmd, phase, io, code>>

Init ==
  /\ files = FilesAtFirst /\ fate \in Fates /\ invocations = 0 /\ edits = 0 /\ kept = {}
  /\ before = FilesAtFirst
  /\ cmd = [name |-> "none"] /\ phase = "idle" /\ code = Running
  /\ taken = FALSE /\ loaded = <<>> /\ executed = FALSE /\ pending = <<>> /\ created = {}
  /\ payload = Nothing /\ family = SUCCESS

Handle ==
  \/ Read \/ Validate \/ Inspect \/ Run \/ MatrixCommand \/ BatchCommand \/ Trace \/ Publish
  \/ ReplayEngine1 \/ ReplayEngine2 \/ Diff \/ WriteOut

Next == (\E c \in Commands : Invoke(c)) \/ Handle \/ Return \/ (\E p \in Paths : Edit(p))

Spec == Init /\ [][Next]_vars /\ WF_vars(Handle)
-----------------------------------------------------------------------------
TypeOK ==
  /\ DOMAIN files = Paths /\ DOMAIN before = Paths /\ invocations \in 0..MaxInvocations /\ edits \in 0..MaxEdits
  /\ phase \in {"idle", "read", "handle", "publish", "print", "done"}
  /\ code \in Running..INTERNAL /\ (code = Running <=> phase # "done")
  /\ taken \in BOOLEAN /\ executed \in BOOLEAN /\ created \subseteq Paths

(* A replay of what a run left behind, with the scenario it was run on (and*)
(* its schedule), is never refused, and prints what the run printed:       *)
(* _run and _replay agree on every contract, in both engines.              *)
ReplaysOf(k) ==
  /\ Len(loaded) = 2 /\ loaded[2] = k.doc /\ k.left # <<>>
  /\ IF k.doc.kind = "dsl2"
     THEN loaded[1] = k.payload /\ cmd.schedule \in Paths /\ files[cmd.schedule] = k.left[1].is
     ELSE loaded[1] = k.left[1].is /\ cmd.schedule = NoPath

RoundTrip ==
  phase = "done" /\ cmd.name = "replay" =>
    \A k \in kept : ReplaysOf(k) =>
      code \in {SUCCESS, SECURITY_OR_BOUND, INTERNAL} /\ payload = k.payload

(* Nothing is executed in the name of an artifact of another scenario, and *)
(* what replays well is genuine: _replay validates before it executes, and *)
(* the result of Engine 2 once more afterwards.                            *)
AcceptedReplayIsOfScenario ==
  phase = "done" /\ cmd.name = "replay" /\ executed =>
    /\ loaded[1].of = loaded[2].of /\ ~Broken(loaded[1])
    /\ code = SUCCESS => loaded[1].edit = "none"

(* A genuine artifact on the wrong scenario is an incompatible replay, not *)
(* an invalid input nor a failed execution, whichever engine recorded it:  *)
(* the families of the exceptions overlap, and their order decides.  Only  *)
(* a scenario of the recorded name whose plugins are missing ends as a     *)
(* failed execution, because they are looked for before it is compared.    *)
(* Nothing is executed.                                                    *)
WrongScenarioIsIncompatible ==
  (/\ phase = "done" /\ cmd.name = "replay" /\ Len(loaded) = 2
   /\ loaded[1].edit = "none" /\ loaded[2].kind \in {"dsl1", "dsl2"} /\ loaded[1].of # loaded[2].of
   /\ \/ loaded[1].kind = "run" /\ cmd.schedule = NoPath
      \/ /\ loaded[1].kind = "result2" /\ cmd.schedule \in Paths
         /\ files[cmd.schedule] = Made("schedule", loaded[1], loaded[1].seed))
  => /\ ~executed
     /\ \/ code = REPLAY_COMPATIBILITY
        \/ /\ code = EXECUTION /\ loaded[1].kind = "run" /\ loaded[2].kind = "dsl1"
           /\ ScenarioId[loaded[1].of] = ScenarioId[loaded[2].of]
           /\ fate[loaded[2].of] = "PluginCompatibilityError"

(* The schedule and the result of one execution are published together or  *)
(* the files are as they were: _publish_engine2_outputs takes back what it *)
(* had published when a later destination fails.                           *)
PublishedTogether ==
  phase = "done" /\ cmd.name = "run" /\ executed /\ loaded[1].kind = "dsl2" =>
    \/ files = before
    \/ files = [p \in Paths |-> IF \E i \in DOMAIN Outputs : Outputs[i].path = p
                               THEN (CHOOSE o \in Range(Outputs) : o.path = p).is ELSE before[p]]

(* The exit family of a run that executed well tells what it left.  I/O:   *)
(* no output of it.  Any other, also when nothing could be printed: all of *)
(* it, at destinations that were free, so that the same command is refused *)
(* from then on and what is there can be replayed (RoundTrip).             *)
ExitTellsWhatIsLeft ==
  phase = "done" /\ cmd.name = "run" /\ executed /\ fate[Document.of] = "ok" =>
    \A o \in Range(Outputs) :
      IF code = IO THEN files[o.path] \in {before[o.path], Absent}
      ELSE before[o.path] = Absent /\ files[o.path] = o.is

(* What invocations leave can be replayed, by themselves and as what it    *)
(* is, and nothing else is; and what they leave is told by how they end.   *)
InvocationsAreSafe ==
  /\ TypeOK /\ RoundTrip /\ AcceptedReplayIsOfScenario
  /\ WrongScenarioIsIncompatible /\ PublishedTogether /\ ExitTellsWhatIsLeft

(* Every invocation ends with an exit family (main).                       *)
EveryInvocationEnds == phase = "read" ~> phase = "done"
=============================================================================
