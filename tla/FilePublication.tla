-------------------------- MODULE FilePublication --------------------------
(***************************************************************************)
(* How artifacts reach files: the temporary file, fsync, hard link and     *)
(* unlink of suite/publication.py and adapters/json_file.py, and the       *)
(* callers in cli/main.py that publish two outputs or clean up after an    *)
(* error.  Operations run concurrently in different processes on one file  *)
(* system; a system call may fail, a process may be interrupted or killed, *)
(* and the machine may lose power.                                         *)
(*                                                                         *)
(* The kinds of operation:                                                 *)
(*   outputs   _publish_engine2_outputs (schedule and result of one run)   *)
(*   single    _write_replay_artifact and _trace_view                      *)
(*   guarded   write_result_json                                           *)
(*   replace   write_result_json with overwrite=True                       *)
(***************************************************************************)
EXTENDS Integers, Sequences, FiniteSets

CONSTANTS
  Casts,     \* functions from operations to [kind, targets]
  Paths,
  MayExist,  \* the paths that may be occupied at the start
  MaxFaults, \* bound: failing system calls of one operation
  Absent, Other

ASSUME MaxFaultsAssumption == MaxFaults \in Nat

(* Only a run of Engine 2 has two outputs, at different paths.             *)
ASSUME CastsAssumption ==
  \A c \in Casts : \A p \in DOMAIN c :
    /\ c[p].kind \in {"outputs", "single", "guarded", "replace"}
    /\ c[p].targets \in Seq(Paths)
    /\ Len(c[p].targets) \in 1..2
    /\ Len(c[p].targets) = 2 =>
         c[p].kind = "outputs" /\ c[p].targets[1] # c[p].targets[2]

ASSUME NoFileAssumption ==
  \A c \in Casts : \A p \in DOMAIN c, i \in 1..2 : <<p, i>> \notin {Absent, Other}

VARIABLES
  cast,
  entry,     \* the file at each path: Absent, Other or a file of an operation
  seen,      \* everything that has been at each path
  temp,      \* the temporary name of each operation
  content,   \* of the files: "none", "part" or "whole"
  synced,    \* the files whose content was forced to the disk
  pc,
  at,        \* the position in the targets
  why,       \* the exception that is being handled
  failed,    \* the system calls of each operation that failed
  crashed

files == <<entry, seen, temp, content, synced>>
control == <<pc, at, why, failed>>
vars == <<cast, files, control, crashed>>

Operations == DOMAIN cast
Files == {<<p, i>> : p \in Operations, i \in 1..2}

Kind(p) == cast[p].kind
Target(p) == cast[p].targets[at[p]]
File(p) == <<p, at[p]>>
Put(path, file) ==
  /\ entry' = [entry EXCEPT ![path] = file]
  /\ seen' = [seen EXCEPT ![path] = @ \cup {file}]

At(p, label) == ~crashed /\ pc[p] = label
Goto(p, label) == pc' = [pc EXCEPT ![p] = label]

(* The labels inside the try statement of the publication.                 *)
Publishing == {"create", "write", "sync", "publish", "unlink", "next"}
Ended == {"returned", "raised", "interrupted", "killed"}

-----------------------------------------------------------------------------
(* The existence checks in front of the first system call that writes.     *)
Check(p) ==
  /\ At(p, "check")
  /\ IF entry[Target(p)] # Absent THEN Goto(p, "raised") /\ at' = at
     ELSE IF at[p] = Len(cast[p].targets)
     THEN Goto(p, "create") /\ at' = [at EXCEPT ![p] = 1]
     ELSE at' = [at EXCEPT ![p] = @ + 1] /\ pc' = pc
  /\ UNCHANGED <<files, why, failed>>

Create(p) ==
  /\ At(p, "create") /\ Goto(p, "write")
  /\ temp' = [temp EXCEPT ![p] = File(p)]
  /\ content' = [content EXCEPT ![File(p)] = "part"]
  /\ UNCHANGED <<entry, seen, synced, at, why, failed>>

Write(p) ==
  /\ At(p, "write") /\ Goto(p, "sync")
  /\ content' = [content EXCEPT ![File(p)] = "whole"]
  /\ UNCHANGED <<entry, seen, temp, synced, at, why, failed>>

(* Mutant: the content is flushed and not forced to the disk.              *)
FlushOnly(p) ==
  /\ At(p, "sync") /\ Goto(p, "publish")
  /\ UNCHANGED <<files, at, why, failed>>

Sync(p) ==
  /\ At(p, "sync") /\ Goto(p, "publish")
  /\ synced' = synced \cup {File(p)}
  /\ UNCHANGED <<entry, seen, temp, content, at, why, failed>>

(* Mutant: the existence check is relied on and the name is taken.         *)
LinkOver(p) ==
  /\ At(p, "publish") /\ Kind(p) # "replace"
  /\ Goto(p, "unlink")
  /\ Put(Target(p), File(p))
  /\ UNCHANGED <<temp, content, synced, at, why, failed>>

(* os.link refuses a name that exists: FileExistsError.                    *)
Link(p) ==
  /\ At(p, "publish") /\ Kind(p) # "replace"
  /\ IF entry[Target(p)] = Absent
     THEN /\ Goto(p, "unlink") /\ why' = why
          /\ Put(Target(p), File(p))
     ELSE /\ Goto(p, "clean") /\ why' = [why EXCEPT ![p] = "exists"]
          /\ UNCHANGED <<entry, seen>>
  /\ UNCHANGED <<temp, content, synced, at, failed>>

(* os.replace moves the temporary name onto the target.                    *)
Replace(p) ==
  /\ At(p, "publish") /\ Kind(p) = "replace" /\ Goto(p, "next")
  /\ Put(Target(p), File(p))
  /\ temp' = [temp EXCEPT ![p] = Absent]
  /\ UNCHANGED <<content, synced, at, why, failed>>

Unlink(p) ==
  /\ At(p, "unlink") /\ Goto(p, "next")
  /\ temp' = [temp EXCEPT ![p] = Absent]
  /\ UNCHANGED <<entry, seen, content, synced, at, why, failed>>

(* Mutant: the loop runs once too often.                                   *)
AdvanceBeyond(p) ==
  /\ At(p, "next")
  /\ IF at[p] > Len(cast[p].targets) THEN Goto(p, "returned") /\ at' = at
     ELSE Goto(p, "create") /\ at' = [at EXCEPT ![p] = @ + 1]
  /\ UNCHANGED <<files, why, failed>>

(* published.append(path), and the next output if there is one.            *)
Advance(p) ==
  /\ At(p, "next")
  /\ IF at[p] = Len(cast[p].targets) THEN Goto(p, "returned") /\ at' = at
     ELSE Goto(p, "create") /\ at' = [at EXCEPT ![p] = @ + 1]
  /\ UNCHANGED <<files, why, failed>>

-----------------------------------------------------------------------------
(* A system call fails, or KeyboardInterrupt is raised.                    *)
Fault(p) == failed' = [failed EXCEPT ![p] = @ \cup {pc[p]}]
MayFail(p) == ~crashed /\ Cardinality(failed[p]) < MaxFaults

Error(p) ==
  /\ MayFail(p) /\ pc[p] \in Publishing \ {"next"}
  /\ Fault(p) /\ Goto(p, "clean") /\ why' = [why EXCEPT ![p] = "error"]
  /\ UNCHANGED <<files, at>>

Interrupt(p) ==
  /\ ~crashed /\ pc[p] \in Publishing
  /\ Goto(p, "clean") /\ why' = [why EXCEPT ![p] = "interrupt"]
  /\ UNCHANGED <<files, at, failed>>

(* Mutant: the outputs already published are not rolled back.              *)
HandlerForgotten(p, reason) ==
  IF reason = "interrupt" THEN "interrupted"
  ELSE IF Kind(p) = "single" /\ reason = "error" THEN "rollback"
  ELSE "raised"

(* The except clauses of the callers: who undoes what for which exception. *)
Handler(p, reason) ==
  IF reason = "interrupt" THEN "interrupted"
  ELSE IF Kind(p) = "outputs" \/ (Kind(p) = "single" /\ reason = "error")
  THEN "rollback"
  ELSE "raised"

(* finally: the temporary name is removed if it is still there.            *)
Clean(p) ==
  /\ At(p, "clean") /\ Goto(p, Handler(p, why[p]))
  /\ temp' = [temp EXCEPT ![p] = Absent]
  /\ UNCHANGED <<entry, seen, content, synced, at, why, failed>>

(* An error of this unlink takes the place of the exception.               *)
CleanError(p) ==
  /\ At(p, "clean") /\ MayFail(p) /\ temp[p] # Absent
  /\ Fault(p) /\ why' = [why EXCEPT ![p] = "error"]
  /\ Goto(p, Handler(p, "error"))
  /\ UNCHANGED <<files, at>>

(* One output after the other is unlinked by its path, the last one first. *)
RollBack(p) ==
  /\ At(p, "rollback") /\ Kind(p) = "outputs"
  /\ IF at[p] = 1
     THEN Goto(p, "raised") /\ UNCHANGED <<entry, seen, at>>
     ELSE /\ Put(cast[p].targets[at[p] - 1], Absent)
          /\ at' = [at EXCEPT ![p] = @ - 1]
          /\ pc' = pc
  /\ UNCHANGED <<temp, content, synced, why, failed>>

(* After FileExistsError an error of the rollback escapes; after an error  *)
(* the rollback goes on with the next output.                              *)
RollBackError(p) ==
  /\ At(p, "rollback") /\ MayFail(p) /\ Fault(p)
  /\ Kind(p) # "single" => at[p] > 1
  /\ IF Kind(p) = "single" \/ why[p] = "exists"
     THEN Goto(p, "raised") /\ at' = at
     ELSE at' = [at EXCEPT ![p] = @ - 1] /\ pc' = pc
  /\ UNCHANGED <<files, why>>

(* A single output is unlinked by its path after an error.                 *)
RemoveTarget(p) ==
  /\ At(p, "rollback") /\ Kind(p) = "single" /\ Goto(p, "raised")
  /\ Put(Target(p), Absent)
  /\ UNCHANGED <<temp, content, synced, at, why, failed>>

-----------------------------------------------------------------------------
(* The surroundings.                                                       *)
Kill(p) ==
  /\ ~crashed /\ pc[p] \notin Ended /\ Goto(p, "killed")
  /\ UNCHANGED <<files, at, why, failed>>

(* Directories are not forced to the disk: a path has what it had at some  *)
(* earlier time.  Content that was not forced to the disk may be torn.     *)
LosePower ==
  /\ ~crashed /\ crashed' = TRUE
  /\ entry' \in [Paths -> {Absent, Other} \cup Files]
  /\ \A path \in Paths : entry'[path] \in seen[path]
  /\ \E torn \in SUBSET {f \in Files \ synced : content[f] = "whole"} :
       content' = [f \in Files |-> IF f \in torn THEN "part" ELSE content[f]]
  /\ pc' = [p \in Operations |-> IF pc[p] \in Ended THEN pc[p] ELSE "killed"]
  /\ UNCHANGED <<cast, seen, temp, synced, at, why, failed>>

FirstLabel(p) == IF Kind(p) \in {"outputs", "guarded"} THEN "check" ELSE "create"

Init ==
  /\ cast \in Casts
  /\ entry \in [Paths -> {Absent, Other}]
  /\ \A path \in Paths \ MayExist : entry[path] = Absent
  /\ seen = [path \in Paths |-> {entry[path]}]
  /\ temp = [p \in Operations |-> Absent]
  /\ content = [f \in Files |-> "none"]
  /\ synced = {}
  /\ pc = [p \in Operations |-> FirstLabel(p)]
  /\ at = [p \in Operations |-> 1]
  /\ why = [p \in Operations |-> "none"]
  /\ failed = [p \in Operations |-> {}]
  /\ crashed = FALSE

Step(p) ==
  \/ Check(p) \/ Create(p) \/ Write(p) \/ Sync(p) \/ Link(p) \/ Replace(p)
  \/ Unlink(p) \/ Advance(p)
  \/ Error(p) \/ Interrupt(p) \/ Clean(p) \/ CleanError(p)
  \/ RollBack(p) \/ RollBackError(p) \/ RemoveTarget(p)

Next ==
  \/ /\ UNCHANGED <<cast, crashed>>
     /\ \E p \in Operations : Step(p) \/ Kill(p)
  \/ LosePower

Spec == Init /\ [][Next]_vars

-----------------------------------------------------------------------------
TypeOK ==
  /\ cast \in Casts
  /\ entry \in [Paths -> {Absent, Other} \cup Files]
  /\ seen \in [Paths -> SUBSET ({Absent, Other} \cup Files)]
  /\ temp \in [Operations -> {Absent} \cup Files]
  /\ content \in [Files -> {"none", "part", "whole"}]
  /\ synced \subseteq Files
  /\ pc \in [Operations -> Publishing \cup Ended \cup {"check", "clean", "rollback"}]
  /\ at \in [Operations -> Nat]
  /\ \A p \in Operations : at[p] \in 1..Len(cast[p].targets)
  /\ why \in [Operations -> {"none", "exists", "error", "interrupt"}]
  /\ failed \in [Operations -> SUBSET (Publishing \cup {"clean", "rollback"})]
  /\ \A p \in Operations : Cardinality(failed[p]) <= MaxFaults
  /\ crashed \in BOOLEAN

(* A reader never finds a part of an artifact at a path, whatever else     *)
(* publishes there, whoever is killed, and after a loss of power, when the *)
(* directory entry may have reached the disk before or without the steps   *)
(* that follow it (fsync in front of link and replace).                    *)
TargetsAreWhole ==
  \A path \in Paths :
    entry[path] \notin {Absent, Other} => content[entry[path]] = "whole"

LeftBehind(p) ==
  \/ temp[p] # Absent
  \/ \E path \in Paths : \E i \in 1..2 : entry[path] = <<p, i>>

(* The unlinks that the clean-up of an operation rests on.                 *)
CleaningSteps(p) ==
  {"clean", "rollback"} \cup (IF Kind(p) = "single" THEN {} ELSE {"unlink"})

(* An operation that raised leaves neither a temporary file nor one of its *)
(* publications behind, whichever system call failed and whatever others   *)
(* did meanwhile, unless an unlink that it needs for this failed.          *)
RaisedLeavesNothing ==
  \A p \in Operations :
    pc[p] = "raised" /\ failed[p] \cap CleaningSteps(p) = {} /\ ~crashed
      => ~LeftBehind(p)

(* Seen from outside, publications appear at absent paths, are replaced by *)
(* none but the overwriting writer, are withdrawn only by the operation    *)
(* that made them and never after it reported success, and an operation    *)
(* that reports success has published everything.                          *)
Promise == INSTANCE AbsentPublication WITH
  returned <- {p \in Operations : pc[p] = "returned"}
PublicationSpec == Promise!Spec

(* What that takes for granted.  A clean-up unlinks by path whatever it    *)
(* finds there: an operation that publishes one file does so where nothing *)
(* is and nobody else publishes, and the first of two outputs, the one     *)
(* that can be rolled back, is not at a path that others overwrite.        *)
CleanUpMeetsOwnFiles ==
  \A c \in Casts : \A p \in DOMAIN c :
    /\ c[p].kind = "single" =>
         /\ c[p].targets[1] \notin MayExist
         /\ \A q \in DOMAIN c \ {p} : \A i \in 1..Len(c[q].targets) :
              c[q].targets[i] # c[p].targets[1]
    /\ Len(c[p].targets) = 2 =>
         \A q \in DOMAIN c :
           c[q].kind = "replace" => c[q].targets[1] # c[p].targets[1]

(* The test of an existing replay destination: the operation is refused    *)
(* and what was there is still there, whatever the operation does.         *)
ExistingIsPreserved ==
  [][\A path \in Paths :
       entry[path] = Other /\ ~crashed' => entry'[path] = Other]_vars
=============================================================================
