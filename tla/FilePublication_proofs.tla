----------------------- MODULE FilePublication_proofs -----------------------
(***************************************************************************)
(* Proofs about the publication of files, for every set of operations,     *)
(* paths and faults.  What has ever been at a path is the content it had   *)
(* before, or a file that was forced to the disk while it was whole; and   *)
(* no operation writes to a file again that it has forced to the disk.     *)
(***************************************************************************)
EXTENDS FilePublication, FiniteSetTheorems, TLAPS

(* A file forced to the disk is whole, and only those have been at a path. *)
WholeOnDisk ==
  /\ \A f \in synced : content[f] = "whole"
  /\ \A path \in Paths :
       entry[path] \in seen[path] /\ seen[path] \subseteq synced \cup {Absent, Other}

(* Where an operation is, relative to its files on the disk.               *)
ProgressOf(p) ==
  /\ pc[p] = "check" => \A i \in 1..2 : <<p, i>> \notin synced
  /\ pc[p] \in {"create", "write", "sync"} =>
       \A i \in 1..2 : i >= at[p] => <<p, i>> \notin synced
  /\ pc[p] \in {"publish", "unlink", "next"} =>
       \A i \in 1..2 : i > at[p] => <<p, i>> \notin synced
  /\ pc[p] = "sync" => content[<<p, at[p]>>] = "whole"
  /\ pc[p] = "publish" => <<p, at[p]>> \in synced

Progress == \A p \in Operations : ProgressOf(p)

IInv == TypeOK /\ WholeOnDisk /\ Progress

-----------------------------------------------------------------------------
(* Facts about the parameters and the position of an operation.            *)
LEMMA Positions ==
  ASSUME TypeOK, NEW p \in Operations
  PROVE  /\ at[p] \in 1..2 /\ Len(cast[p].targets) \in 1..2
         /\ Target(p) \in Paths /\ File(p) \in Files
         /\ at[p] > 1 => cast[p].targets[at[p] - 1] \in Paths
<1>1. /\ cast[p].targets \in Seq(Paths)
      /\ Len(cast[p].targets) \in 1..2
      /\ at[p] \in 1..Len(cast[p].targets)
  BY CastsAssumption DEF TypeOK, Operations
<1>2. at[p] \in 1..2
  <2>1. \A n \in 1..2 : 1..n \subseteq 1..2
    OBVIOUS
  <2> QED
    BY <1>1, <2>1
<1>3. File(p) \in Files
  BY <1>2 DEF File, Files
<1>4. \A i \in 1..Len(cast[p].targets) : cast[p].targets[i] \in Paths
  BY <1>1
<1>5. at[p] > 1 => at[p] - 1 \in 1..Len(cast[p].targets)
  BY <1>1
<1> QED
  BY <1>1, <1>2, <1>3, <1>4, <1>5 DEF Target

LEMMA FourElements ==
  ASSUME NEW a, NEW b, NEW c, NEW d
  PROVE  IsFiniteSet({a, b, c, d})
<1>1. IsFiniteSet({} \cup {a})
  BY FS_EmptySet, FS_AddElement
<1>2. IsFiniteSet({a} \cup {b})
  BY <1>1, FS_AddElement, {} \cup {a} = {a}
<1>3. IsFiniteSet({a, b} \cup {c})
  BY <1>2, FS_AddElement, {a} \cup {b} = {a, b}
<1>4. IsFiniteSet({a, b, c} \cup {d})
  BY <1>3, FS_AddElement, {a, b} \cup {c} = {a, b, c}
<1> QED
  BY <1>4, {a, b, c} \cup {d} = {a, b, c, d}

(* One more system call failed.                                            *)
LEMMA OneFault ==
  ASSUME TypeOK, NEW p \in Operations, MayFail(p), Fault(p),
         pc[p] \in Publishing \cup {"clean", "rollback"}
  PROVE  /\ failed' \in [Operations -> SUBSET (Publishing \cup {"clean", "rollback"})]
         /\ \A q \in Operations : Cardinality(failed'[q]) <= MaxFaults
<1> DEFINE Calls == Publishing \cup {"clean", "rollback"}
<1>1. failed' \in [Operations -> SUBSET Calls]
  BY DEF TypeOK, Fault
<1>2. IsFiniteSet(Calls)
  <2>1. Calls = {"create", "write", "sync", "publish"}
                  \cup {"unlink", "next", "clean", "rollback"}
    BY DEF Publishing
  <2>2. /\ IsFiniteSet({"create", "write", "sync", "publish"})
        /\ IsFiniteSet({"unlink", "next", "clean", "rollback"})
    BY FourElements
  <2> QED
    BY <2>1, <2>2, FS_Union
<1>3. /\ IsFiniteSet(failed[p]) /\ Cardinality(failed[p]) \in Nat
      /\ Cardinality(failed[p]) < MaxFaults
  <2>1. failed[p] \in SUBSET Calls
    BY DEF TypeOK
  <2>2. IsFiniteSet(failed[p])
    BY <1>2, <2>1, FS_Subset
  <2> QED
    BY <2>2, FS_CardinalityType DEF MayFail
<1>4. Cardinality(failed[p] \cup {pc[p]}) <= Cardinality(failed[p]) + 1
  <2>1. \/ Cardinality(failed[p] \cup {pc[p]}) = Cardinality(failed[p])
        \/ Cardinality(failed[p] \cup {pc[p]}) = Cardinality(failed[p]) + 1
    BY <1>3, FS_AddElement
  <2> QED
    BY <1>3, <2>1
<1>5. failed'[p] = failed[p] \cup {pc[p]}
  BY DEF TypeOK, Fault
<1>6. Cardinality(failed'[p]) <= MaxFaults
  <2>1. Cardinality(failed[p] \cup {pc[p]}) \in Nat
    BY <1>3, FS_AddElement, FS_CardinalityType
  <2> QED
    BY <1>3, <1>4, <1>5, <2>1, MaxFaultsAssumption
<1>7. \A q \in Operations \ {p} : failed'[q] = failed[q]
  BY DEF TypeOK, Fault
<1> QED
  BY <1>1, <1>6, <1>7 DEF TypeOK

LEMMA Handlers ==
  ASSUME NEW p, NEW reason
  PROVE  Handler(p, reason) \in {"interrupted", "rollback", "raised"}
BY DEF Handler

-----------------------------------------------------------------------------
(* Types.                                                                  *)
Values == {Absent, Other} \cup Files
FilesTyped ==
  /\ entry \in [Paths -> Values] /\ seen \in [Paths -> SUBSET Values]
  /\ temp \in [Operations -> {Absent} \cup Files]
  /\ content \in [Files -> {"none", "part", "whole"}]
  /\ synced \subseteq Files

Labels == Publishing \cup Ended \cup {"check", "clean", "rollback"}
ControlTyped ==
  /\ pc \in [Operations -> Labels]
  /\ at \in [Operations -> Nat]
  /\ \A p \in Operations : at[p] \in 1..Len(cast[p].targets)
  /\ why \in [Operations -> {"none", "exists", "error", "interrupt"}]

LEMMA PutTyped ==
  ASSUME TypeOK, NEW path \in Paths, NEW file \in Values, Put(path, file)
  PROVE  entry' \in [Paths -> Values] /\ seen' \in [Paths -> SUBSET Values]
<1>1. /\ entry \in [Paths -> Values] /\ seen \in [Paths -> SUBSET Values]
  BY DEF TypeOK, Values
<1>2. entry' \in [Paths -> Values]
  BY <1>1 DEF Put
<1>3. seen[path] \cup {file} \in SUBSET Values
  BY <1>1
<1> QED
  BY <1>1, <1>2, <1>3 DEF Put

LEMMA StepFiles ==
  ASSUME TypeOK, NEW p \in Operations, Step(p), UNCHANGED cast
  PROVE  FilesTyped'
<1> USE Positions
<1>0. FilesTyped /\ UNCHANGED Operations /\ UNCHANGED Files /\ UNCHANGED Values
  BY DEF TypeOK, FilesTyped, Values, Operations, Files
<1>1. CASE UNCHANGED files
  BY <1>0, <1>1 DEF files, FilesTyped
<1>2. CASE Create(p)
  BY <1>0, <1>2 DEF Create, FilesTyped
<1>3. CASE Write(p)
  BY <1>0, <1>3 DEF Write, FilesTyped
<1>4. CASE Sync(p)
  BY <1>0, <1>4 DEF Sync, FilesTyped
<1>5. CASE Link(p) /\ entry[Target(p)] = Absent
  <2>1. entry' \in [Paths -> Values] /\ seen' \in [Paths -> SUBSET Values]
    BY <1>5, PutTyped DEF Link, Values
  <2> QED
    BY <1>0, <1>5, <2>1 DEF Link, FilesTyped
<1>6. CASE Replace(p)
  <2>1. entry' \in [Paths -> Values] /\ seen' \in [Paths -> SUBSET Values]
    BY <1>6, PutTyped DEF Replace, Values
  <2> QED
    BY <1>0, <1>6, <2>1 DEF Replace, FilesTyped
<1>7. CASE Unlink(p) \/ Clean(p)
  BY <1>0, <1>7 DEF Unlink, Clean, FilesTyped
<1>8. CASE RollBack(p) /\ at[p] # 1
  <2>1. at[p] > 1
    BY <1>8
  <2>2. entry' \in [Paths -> Values] /\ seen' \in [Paths -> SUBSET Values]
    BY <1>8, <2>1, PutTyped DEF RollBack, Values
  <2> QED
    BY <1>0, <1>8, <2>2 DEF RollBack, FilesTyped
<1>9. CASE RemoveTarget(p)
  <2>1. entry' \in [Paths -> Values] /\ seen' \in [Paths -> SUBSET Values]
    BY <1>9, PutTyped DEF RemoveTarget, Values
  <2> QED
    BY <1>0, <1>9, <2>1 DEF RemoveTarget, FilesTyped
<1>10. \/ UNCHANGED files
       \/ Create(p) \/ Write(p) \/ Sync(p)
       \/ Link(p) /\ entry[Target(p)] = Absent
       \/ Replace(p) \/ Unlink(p) \/ Clean(p)
       \/ RollBack(p) /\ at[p] # 1
       \/ RemoveTarget(p)
  BY DEF Step, Check, Link, Advance, Error, Interrupt, CleanError, RollBack,
     RollBackError, files
<1> QED
  BY <1>1, <1>2, <1>3, <1>4, <1>5, <1>6, <1>7, <1>8, <1>9, <1>10

LEMMA StepControl ==
  ASSUME TypeOK, NEW p \in Operations, Step(p), UNCHANGED cast
  PROVE  ControlTyped' /\ \A q \in Operations \ {p} : pc'[q] = pc[q] /\ at'[q] = at[q]
<1> USE Positions, Handlers
<1>0. ControlTyped /\ UNCHANGED Operations
  BY DEF TypeOK, ControlTyped, Labels, Operations
<1>1. \E label \in Labels : Goto(p, label) \/ UNCHANGED pc
  BY DEF Step, Check, Create, Write, Sync, Link, Replace, Unlink, Advance, Error,
     Interrupt, Clean, CleanError, RollBack, RollBackError, RemoveTarget, Labels,
     Publishing, Ended
<1>2. pc' \in [Operations -> Labels] /\ \A q \in Operations \ {p} : pc'[q] = pc[q]
  BY <1>0, <1>1 DEF Goto, ControlTyped
<1>3. \E reason \in {"exists", "error", "interrupt"} :
        why' = [why EXCEPT ![p] = reason] \/ UNCHANGED why
  BY DEF Step, Check, Create, Write, Sync, Link, Replace, Unlink, Advance, Error,
     Interrupt, Clean, CleanError, RollBack, RollBackError, RemoveTarget
<1>4. why' \in [Operations -> {"none", "exists", "error", "interrupt"}]
  BY <1>0, <1>3 DEF ControlTyped
<1>5. at[p] \in 1..Len(cast[p].targets) /\ Len(cast[p].targets) \in 1..2
  BY <1>0 DEF ControlTyped
<1>6. \/ UNCHANGED at
      \/ at' = [at EXCEPT ![p] = 1]
      \/ at[p] # Len(cast[p].targets) /\ at' = [at EXCEPT ![p] = @ + 1]
      \/ at[p] # 1 /\ at' = [at EXCEPT ![p] = @ - 1]
  <2>1. CASE RollBackError(p)
    BY <1>5, <2>1 DEF RollBackError
  <2> QED
    BY <2>1 DEF Step, Check, Create, Write, Sync, Link, Replace, Unlink, Advance,
       Error, Interrupt, Clean, CleanError, RollBack, RemoveTarget
<1>7. /\ 1 \in 1..Len(cast[p].targets)
      /\ at[p] # Len(cast[p].targets) => at[p] + 1 \in 1..Len(cast[p].targets)
      /\ at[p] # 1 => at[p] - 1 \in 1..Len(cast[p].targets)
  BY <1>5
<1>8. \E n \in 1..Len(cast[p].targets) :
        at' = [at EXCEPT ![p] = n] \/ UNCHANGED at
  BY <1>6, <1>7
<1>9. /\ at' \in [Operations -> Nat]
      /\ \A q \in Operations : at'[q] \in 1..Len(cast[q].targets)
      /\ \A q \in Operations \ {p} : at'[q] = at[q]
  <2>1. PICK n \in 1..Len(cast[p].targets) :
          at' = [at EXCEPT ![p] = n] \/ UNCHANGED at
    BY <1>8
  <2>2. n \in Nat
    BY <1>5, <2>1
  <2> QED
    BY <1>0, <2>1, <2>2 DEF ControlTyped
<1> QED
  BY <1>0, <1>2, <1>4, <1>9 DEF ControlTyped

LEMMA StepFaults ==
  ASSUME TypeOK, NEW p \in Operations, Step(p)
  PROVE  /\ failed' \in [Operations -> SUBSET (Publishing \cup {"clean", "rollback"})]
         /\ \A q \in Operations : Cardinality(failed'[q]) <= MaxFaults
<1>1. \/ UNCHANGED failed
      \/ /\ MayFail(p) /\ Fault(p)
         /\ pc[p] \in Publishing \cup {"clean", "rollback"}
  BY DEF Step, Check, Create, Write, Sync, Link, Replace, Unlink, Advance, Error,
     Interrupt, Clean, CleanError, RollBack, RollBackError, RemoveTarget, At
<1> QED
  BY <1>1, OneFault DEF TypeOK

LEMMA TypeStep ==
  ASSUME TypeOK, [Next]_vars
  PROVE  TypeOK'
<1>0. UNCHANGED cast /\ UNCHANGED Operations /\ UNCHANGED Files
  BY DEF Next, LosePower, vars, Operations, Files
<1>1. CASE \E p \in Operations : Step(p) /\ UNCHANGED crashed
  <2>1. PICK p \in Operations : Step(p) /\ UNCHANGED crashed
    BY <1>1
  <2>2. FilesTyped' /\ ControlTyped'
    BY <1>0, <2>1, StepFiles, StepControl
  <2>3. /\ failed' \in [Operations -> SUBSET (Publishing \cup {"clean", "rollback"})]
        /\ \A q \in Operations : Cardinality(failed'[q]) <= MaxFaults
    BY <2>1, StepFaults
  <2> QED
    BY <1>0, <2>1, <2>2, <2>3 DEF TypeOK, FilesTyped, ControlTyped, Values, Labels
<1>2. CASE \E p \in Operations : Kill(p) /\ UNCHANGED crashed
  BY <1>0, <1>2 DEF TypeOK, Kill, Goto, files, Ended
<1>3. CASE LosePower
  <2>1. content' \in [Files -> {"none", "part", "whole"}]
    BY <1>3 DEF LosePower, TypeOK
  <2>2. pc' \in [Operations -> Publishing \cup Ended \cup {"check", "clean", "rollback"}]
    BY <1>3 DEF LosePower, TypeOK, Ended
  <2> QED
    BY <1>0, <1>3, <2>1, <2>2 DEF LosePower, TypeOK
<1>4. CASE UNCHANGED vars
  BY <1>0, <1>4 DEF TypeOK, vars, files, control
<1> QED
  BY <1>1, <1>2, <1>3, <1>4 DEF Next

LEMMA TypeInit == Init => TypeOK
<1> SUFFICES ASSUME Init PROVE TypeOK
  OBVIOUS
<1>1. \A p \in Operations : Len(cast[p].targets) \in 1..2
  BY CastsAssumption DEF Init, Operations
<1>2. \A p \in Operations : 1 \in 1..Len(cast[p].targets)
  BY <1>1
<1>3. at \in [Operations -> Nat] /\ \A p \in Operations : at[p] = 1
  BY DEF Init
<1>4. \A p \in Operations : failed[p] = {} /\ Cardinality(failed[p]) <= MaxFaults
  BY FS_EmptySet, MaxFaultsAssumption DEF Init
<1> QED
  BY <1>2, <1>3, <1>4 DEF Init, TypeOK, FirstLabel, Publishing, Ended

(* Every operation stays within its targets and its faults, and no path    *)
(* ever has anything but a publication of a known operation or what was    *)
(* there before, for every set of operations (TypeOK).                     *)
THEOREM TypeCorrect == Spec => []TypeOK
BY TypeInit, TypeStep, PTL DEF Spec

-----------------------------------------------------------------------------
(* Whole content.                                                          *)

(* Forced files stay as they are, and what appears at a path is forced.    *)
LEMMA WholeStep ==
  ASSUME IInv, [Next]_vars
  PROVE  WholeOnDisk'
<1> USE Positions DEF IInv
<1>0. UNCHANGED cast /\ UNCHANGED Operations /\ UNCHANGED Files
  BY DEF Next, LosePower, vars, Operations, Files
<1>1. CASE \E p \in Operations : Step(p)
  <2>1. PICK p \in Operations : Step(p)
    BY <1>1
  <2>2. CASE UNCHANGED <<entry, seen, content, synced>>
    BY <2>2 DEF WholeOnDisk
  <2>3. CASE Create(p)
    <3>1. File(p) \notin synced
      <4>1. at[p] \in 1..2 /\ at[p] >= at[p]
        OBVIOUS
      <4> QED
        BY <2>3, <4>1 DEF Create, At, Progress, ProgressOf, File
    <3> QED
      BY <2>3, <3>1 DEF Create, WholeOnDisk, TypeOK
  <2>4. CASE Write(p)
    BY <2>4 DEF Write, WholeOnDisk, TypeOK
  <2>5. CASE Sync(p)
    <3>1. content[File(p)] = "whole"
      BY <2>1, <2>5 DEF Sync, At, Progress, ProgressOf, File
    <3> QED
      BY <2>5, <3>1 DEF Sync, WholeOnDisk
  <2>6. CASE \E path \in Paths, file \in synced \cup {Absent, Other} :
               Put(path, file) /\ UNCHANGED <<content, synced>>
    BY <2>6 DEF Put, WholeOnDisk, TypeOK
  <2>7. CASE (Link(p) /\ entry[Target(p)] = Absent) \/ Replace(p)
    <3>1. File(p) \in synced
      BY <2>7 DEF Link, Replace, At, Progress, ProgressOf, File
    <3> QED
      BY <2>6, <2>7, <3>1 DEF Link, Replace
  <2>8. CASE (RollBack(p) /\ at[p] # 1) \/ RemoveTarget(p)
    <3>1. at[p] # 1 => at[p] > 1
      OBVIOUS
    <3> QED
      BY <2>6, <2>8, <3>1 DEF RollBack, RemoveTarget
  <2> QED
    BY <2>1, <2>2, <2>3, <2>4, <2>5, <2>7, <2>8
    DEF Step, Check, Link, Unlink, Advance, Error, Interrupt, Clean, CleanError,
        RollBack, RollBackError, files
<1>2. CASE \E p \in Operations : Kill(p)
  BY <1>2 DEF WholeOnDisk, Kill, files
<1>3. CASE LosePower
  <2>1. PICK torn \in SUBSET {f \in Files \ synced : content[f] = "whole"} :
          content' = [f \in Files |-> IF f \in torn THEN "part" ELSE content[f]]
    BY <1>3 DEF LosePower
  <2>2. \A f \in synced : content'[f] = content[f]
    BY <2>1 DEF TypeOK
  <2> QED
    BY <1>3, <2>2 DEF LosePower, WholeOnDisk
<1>4. CASE UNCHANGED vars
  BY <1>4 DEF WholeOnDisk, vars, files
<1> QED
  BY <1>1, <1>2, <1>3, <1>4 DEF Next

(* The operation that takes a step.                                        *)
LEMMA OwnProgress ==
  ASSUME IInv, NEW p \in Operations, Step(p), UNCHANGED cast
  PROVE  ProgressOf(p)'
<1> USE Positions DEF IInv, ProgressOf
<1>0. /\ pc \in [Operations -> Labels] /\ at \in [Operations -> Nat]
      /\ content \in [Files -> {"none", "part", "whole"}]
  BY DEF TypeOK, Labels
<1>1. CASE Check(p)
  BY <1>0, <1>1 DEF Check, At, Goto, Progress, files
<1>2. CASE Create(p)
  BY <1>0, <1>2 DEF Create, At, Goto, Progress
<1>3. CASE Write(p)
  BY <1>0, <1>3 DEF Write, At, Goto, Progress, File
<1>4. CASE Sync(p)
  <2>1. pc[p] = "sync" /\ pc'[p] = "publish" /\ at'[p] = at[p]
    BY <1>0, <1>4 DEF Sync, At, Goto
  <2>2. synced' = synced \cup {<<p, at[p]>>}
    BY <1>4 DEF Sync, File
  <2>3. \A i \in 1..2 : i > at[p] => i # at[p] /\ i >= at[p] /\ <<p, i>> # <<p, at[p]>>
    OBVIOUS
  <2>4. \A i \in 1..2 : i > at[p] => <<p, i>> \notin synced'
    BY <2>1, <2>2, <2>3 DEF Progress
  <2> QED
    BY <2>1, <2>2, <2>4
<1>5. CASE Link(p)
  BY <1>0, <1>5 DEF Link, At, Goto, Progress
<1>6. CASE Replace(p) \/ Unlink(p)
  BY <1>0, <1>6 DEF Replace, Unlink, At, Goto, Progress
<1>7. CASE Advance(p)
  BY <1>0, <1>7 DEF Advance, At, Goto, Progress, files
<1>8. CASE pc'[p] \in Ended \cup {"clean", "rollback"}
  BY <1>8 DEF Ended
<1>9. CASE Error(p) \/ Interrupt(p) \/ Clean(p) \/ CleanError(p)
  <2>1. pc'[p] \in Ended \cup {"clean", "rollback"}
    BY <1>0, <1>9, Handlers DEF Error, Interrupt, Clean, CleanError, Goto, Ended
  <2> QED
    BY <1>8, <2>1
<1>10. CASE RollBack(p) \/ RollBackError(p) \/ RemoveTarget(p)
  <2>1. pc'[p] \in Ended \cup {"clean", "rollback"}
    BY <1>0, <1>10 DEF RollBack, RollBackError, RemoveTarget, Goto, At, Ended
  <2> QED
    BY <1>8, <2>1
<1> QED
  BY <1>1, <1>2, <1>3, <1>4, <1>5, <1>6, <1>7, <1>9, <1>10 DEF Step

(* An operation changes neither the content nor the state of a file of     *)
(* another one.                                                            *)
LEMMA OthersFiles ==
  ASSUME IInv, NEW p \in Operations, Step(p),
         NEW q \in Operations \ {p}, NEW i \in 1..2
  PROVE  /\ <<q, i>> \in synced' <=> <<q, i>> \in synced
         /\ content'[<<q, i>>] = content[<<q, i>>]
<1>1. File(p) # <<q, i>> /\ <<q, i>> \in Files
  BY DEF File, Files
<1>2. synced' = synced \/ synced' = synced \cup {File(p)}
  BY DEF Step, Check, Create, Write, Sync, Link, Replace, Unlink, Advance, Error,
     Interrupt, Clean, CleanError, RollBack, RollBackError, RemoveTarget, files
<1>3. \/ UNCHANGED content
      \/ \E c : content' = [content EXCEPT ![File(p)] = c]
  BY DEF Step, Check, Create, Write, Sync, Link, Replace, Unlink, Advance, Error,
     Interrupt, Clean, CleanError, RollBack, RollBackError, RemoveTarget, files
<1> QED
  BY <1>1, <1>2, <1>3 DEF IInv, TypeOK

LEMMA ProgressStep ==
  ASSUME IInv, [Next]_vars
  PROVE  Progress'
<1> USE DEF IInv
<1>0. UNCHANGED cast /\ UNCHANGED Operations
  BY DEF Next, LosePower, vars, Operations
<1> SUFFICES ASSUME NEW q \in Operations PROVE ProgressOf(q)'
  BY <1>0 DEF Progress
<1>q. ProgressOf(q)
  BY DEF Progress
<1>1. CASE \E p \in Operations : Step(p)
  <2>1. PICK p \in Operations : Step(p)
    BY <1>1
  <2>2. CASE p = q
    BY <1>0, <2>1, <2>2, OwnProgress
  <2>3. CASE p # q
    <3>1. pc'[q] = pc[q] /\ at'[q] = at[q] /\ at[q] \in 1..2
      BY <1>0, <2>1, <2>3, StepControl, Positions
    <3>2. \A i \in 1..2 : /\ <<q, i>> \in synced' <=> <<q, i>> \in synced
                          /\ content'[<<q, i>>] = content[<<q, i>>]
      BY <2>1, <2>3, OthersFiles
    <3> QED
      BY <1>q, <3>1, <3>2 DEF ProgressOf
  <2> QED
    BY <2>2, <2>3
<1>2. CASE \E p \in Operations : Kill(p)
  BY <1>q, <1>2 DEF ProgressOf, Kill, Goto, files, TypeOK
<1>3. CASE LosePower
  <2>1. pc'[q] \in Ended
    BY <1>3 DEF LosePower, Ended
  <2> QED
    BY <2>1 DEF ProgressOf, Ended
<1>4. CASE UNCHANGED vars
  BY <1>q, <1>4 DEF ProgressOf, vars, files, control
<1> QED
  BY <1>1, <1>2, <1>3, <1>4 DEF Next

LEMMA InvariantHolds == Spec => []IInv
<1>1. Init => IInv
  <2> SUFFICES ASSUME Init PROVE WholeOnDisk /\ Progress
    BY TypeInit DEF IInv
  <2>1. WholeOnDisk
    BY DEF Init, WholeOnDisk
  <2>2. Progress
    BY DEF Init, Progress, ProgressOf, FirstLabel
  <2> QED
    BY <2>1, <2>2
<1>2. IInv /\ [Next]_vars => IInv'
  BY TypeStep, WholeStep, ProgressStep DEF IInv
<1> QED
  BY <1>1, <1>2, PTL DEF Spec

(* No reader ever finds a part of an artifact at a path: not while other   *)
(* operations publish there, not after one was killed or interrupted, and  *)
(* not after a loss of power, for every set of operations (TargetsAreWhole,*)
(* fsync in front of link and replace).                                    *)
THEOREM PublishedIsWhole == Spec => []TargetsAreWhole
<1>1. IInv => TargetsAreWhole
  BY DEF IInv, TypeOK, WholeOnDisk, TargetsAreWhole
<1> QED
  BY <1>1, InvariantHolds, PTL

-----------------------------------------------------------------------------
(* What an operation that raised leaves behind.                            *)
Left(p, i) == \E path \in Paths : entry[path] = <<p, i>>

(* A publication is only at its own target; only the outputs of Engine 2   *)
(* have more than one.                                                     *)
Placed ==
  \A p \in Operations : \A i \in 1..2 : \A path \in Paths :
    entry[path] = <<p, i>> =>
      i <= Len(cast[p].targets) /\ path = cast[p].targets[i]

TempOf(p) ==
  temp[p] # Absent =>
    \/ pc[p] \in {"write", "sync", "publish", "unlink", "clean"}
    \/ pc[p] \in {"killed", "interrupted"}
    \/ "clean" \in failed[p]

(* Why publication i of an operation may still be there.                   *)
Excused(p, i) ==
  /\ pc[p] # "check"
  /\ pc[p] \in {"create", "write", "sync", "publish"} => i < at[p]
  /\ pc[p] \in {"unlink", "next"} => i <= at[p]
  /\ pc[p] = "clean" =>
       \/ i < at[p] \/ why[p] = "interrupt"
       \/ why[p] = "error" /\ "unlink" \in failed[p]
  /\ pc[p] = "rollback" =>
       \/ i < at[p] \/ Kind(p) = "single"
       \/ failed[p] \cap {"clean", "unlink", "rollback"} # {}
  /\ pc[p] = "raised" => failed[p] \cap CleaningSteps(p) # {}

LeftOf(p) == \A i \in 1..2 : Left(p, i) => Excused(p, i)

Cleaned ==
  ~crashed => Placed /\ \A p \in Operations : TempOf(p) /\ LeftOf(p)

CInv == TypeOK /\ Cleaned

(* What a step does at the paths.                                          *)
LEMMA EntryStep ==
  ASSUME TypeOK, NEW p \in Operations, Step(p)
  PROVE  \/ UNCHANGED entry
         \/ /\ pc'[p] \in {"unlink", "next"} /\ at'[p] = at[p]
            /\ entry' = [entry EXCEPT ![Target(p)] = File(p)]
         \/ \E path \in Paths : entry' = [entry EXCEPT ![path] = Absent]
<1> USE Positions
<1>0. pc \in [Operations -> Labels] /\ at \in [Operations -> Nat]
  BY DEF TypeOK, Labels
<1>1. CASE Link(p)
  BY <1>0, <1>1 DEF Link, Put, Goto
<1>2. CASE Replace(p)
  BY <1>0, <1>2 DEF Replace, Put, Goto
<1>3. CASE RollBack(p)
  <2>1. at[p] # 1 => at[p] > 1
    OBVIOUS
  <2> QED
    BY <1>3, <2>1 DEF RollBack, Put
<1>4. CASE RemoveTarget(p)
  BY <1>4 DEF RemoveTarget, Put
<1> QED
  BY <1>1, <1>2, <1>3, <1>4
  DEF Step, Check, Create, Write, Sync, Unlink, Advance, Error, Interrupt, Clean,
      CleanError, RollBackError, files

LEMMA NoFile ==
  ASSUME TypeOK, NEW p \in Operations, NEW i \in 1..2
  PROVE  <<p, i>> # Absent
BY NoFileAssumption DEF TypeOK, Operations

LEMMA PlacedStep ==
  ASSUME TypeOK, Placed, NEW p \in Operations, Step(p), UNCHANGED cast
  PROVE  Placed'
<1> USE Positions
<1>0. entry \in [Paths -> {Absent, Other} \cup Files] /\ UNCHANGED Operations
  BY DEF TypeOK, Operations
<1> SUFFICES ASSUME NEW q \in Operations, NEW i \in 1..2, NEW path \in Paths,
                    entry'[path] = <<q, i>>
             PROVE  i <= Len(cast[q].targets) /\ path = cast[q].targets[i]
  BY <1>0 DEF Placed
<1>1. CASE entry[path] = <<q, i>>
  BY <1>1 DEF Placed
<1>2. CASE entry'[path] # entry[path]
  <2>1. path = Target(p) /\ entry'[path] = File(p)
    BY <1>0, <1>2, EntryStep, NoFile
  <2>2. q = p /\ i = at[p]
    BY <2>1 DEF File
  <2>3. at[p] <= Len(cast[p].targets)
    BY DEF TypeOK
  <2> QED
    BY <2>1, <2>2, <2>3 DEF Target
<1> QED
  BY <1>1, <1>2

(* Publications of an operation are added by its own steps only.           *)
LEMMA LeftStep ==
  ASSUME TypeOK, NEW p \in Operations, Step(p),
         NEW q \in Operations, NEW i \in 1..2, Left(q, i)'
  PROVE  Left(q, i) \/ (q = p /\ i = at[p] /\ at'[p] = at[p] /\ pc'[p] \in {"unlink", "next"})
<1> USE Positions
<1>0. entry \in [Paths -> {Absent, Other} \cup Files]
  BY DEF TypeOK
<1>1. PICK path \in Paths : entry'[path] = <<q, i>>
  BY DEF Left
<1>2. CASE entry[path] = <<q, i>>
  BY <1>2 DEF Left
<1>3. CASE entry'[path] # entry[path]
  <2>1. /\ entry'[path] = File(p)
        /\ at'[p] = at[p] /\ pc'[p] \in {"unlink", "next"}
    BY <1>0, <1>1, <1>3, EntryStep, NoFile
  <2>2. q = p /\ i = at[p]
    BY <1>1, <2>1 DEF File
  <2> QED
    BY <2>1, <2>2
<1> QED
  BY <1>1, <1>2, <1>3

LEMMA OthersCleaned ==
  ASSUME TypeOK, NEW p \in Operations, Step(p), UNCHANGED cast,
         NEW q \in Operations \ {p}, TempOf(q), LeftOf(q)
  PROVE  TempOf(q)' /\ LeftOf(q)'
<1>1. pc'[q] = pc[q] /\ at'[q] = at[q]
  BY StepControl
<1>2. why'[q] = why[q] /\ temp'[q] = temp[q] /\ failed'[q] = failed[q]
  <2>1. UNCHANGED why \/ \E reason : why' = [why EXCEPT ![p] = reason]
    BY DEF Step, Check, Create, Write, Sync, Link, Replace, Unlink, Advance, Error,
     Interrupt, Clean, CleanError, RollBack, RollBackError, RemoveTarget
  <2>2. UNCHANGED temp \/ \E t : temp' = [temp EXCEPT ![p] = t]
    BY DEF Step, Check, Create, Write, Sync, Link, Replace, Unlink, Advance, Error,
     Interrupt, Clean, CleanError, RollBack, RollBackError, RemoveTarget, files
  <2>3. UNCHANGED failed \/ Fault(p)
    BY DEF Step, Check, Create, Write, Sync, Link, Replace, Unlink, Advance, Error,
     Interrupt, Clean, CleanError, RollBack, RollBackError, RemoveTarget
  <2> QED
    BY <2>1, <2>2, <2>3 DEF TypeOK, Fault
<1>3. \A i \in 1..2 : Left(q, i)' => Left(q, i)
  BY LeftStep
<1>4. Kind(q)' = Kind(q) /\ CleaningSteps(q)' = CleaningSteps(q)
  BY DEF Kind, CleaningSteps
<1>5. TempOf(q)'
  BY <1>1, <1>2 DEF TempOf
<1>6. LeftOf(q)'
  BY <1>1, <1>2, <1>3, <1>4 DEF LeftOf, Excused
<1> QED
  BY <1>5, <1>6

LEMMA OwnTemp ==
  ASSUME TypeOK, NEW p \in Operations, Step(p), TempOf(p)
  PROVE  TempOf(p)'
<1>0. /\ pc \in [Operations -> Labels] /\ temp \in [Operations -> {Absent} \cup Files]
      /\ failed \in [Operations -> SUBSET (Publishing \cup {"clean", "rollback"})]
  BY DEF TypeOK, Labels
<1>1. failed[p] \subseteq failed'[p]
  <2>1. UNCHANGED failed \/ Fault(p)
    BY DEF Step, Check, Create, Write, Sync, Link, Replace, Unlink, Advance, Error,
     Interrupt, Clean, CleanError, RollBack, RollBackError, RemoveTarget
  <2> QED
    BY <1>0, <2>1 DEF Fault
<1>2. CASE temp'[p] = Absent \/ "clean" \in failed'[p]
  BY <1>2 DEF TempOf
<1>3. CASE Create(p) \/ Write(p) \/ Sync(p) \/ Link(p) \/ Error(p) \/ Interrupt(p)
  <2>1. pc'[p] \in {"write", "sync", "publish", "unlink", "clean"}
    BY <1>0, <1>3 DEF Create, Write, Sync, Link, Error, Interrupt, Goto
  <2> QED
    BY <2>1 DEF TempOf
<1>4. CASE Replace(p) \/ Unlink(p) \/ Clean(p)
  <2>1. temp'[p] = Absent
    BY <1>0, <1>4 DEF Replace, Unlink, Clean
  <2> QED
    BY <1>2, <2>1
<1>5. CASE CleanError(p)
  <2>1. "clean" \in failed'[p]
    BY <1>0, <1>5 DEF CleanError, Fault, At
  <2> QED
    BY <1>2, <2>1
<1>6. CASE Check(p) \/ Advance(p) \/ RollBack(p) \/ RollBackError(p) \/ RemoveTarget(p)
  <2>1. pc[p] \in {"check", "next", "rollback"} /\ temp'[p] = temp[p]
    BY <1>6 DEF Check, Advance, RollBack, RollBackError, RemoveTarget, At, files
  <2>2. temp[p] = Absent \/ "clean" \in failed[p]
    BY <2>1 DEF TempOf
  <2> QED
    BY <1>1, <1>2, <2>1, <2>2
<1> QED
  BY <1>3, <1>4, <1>5, <1>6 DEF Step

(* The operation that takes a step: what it still has at its targets.      *)
LEMMA OwnLeft ==
  ASSUME TypeOK, Placed, NEW p \in Operations, Step(p), UNCHANGED cast, LeftOf(p)
  PROVE  LeftOf(p)'
<1> USE Positions
<1>0. /\ pc \in [Operations -> Labels] /\ at \in [Operations -> Nat]
      /\ why \in [Operations -> {"none", "exists", "error", "interrupt"}]
      /\ failed \in [Operations -> SUBSET (Publishing \cup {"clean", "rollback"})]
      /\ at[p] <= Len(cast[p].targets)
  BY DEF TypeOK, Labels
<1>k. /\ Kind(p)' = Kind(p) /\ CleaningSteps(p)' = CleaningSteps(p)
      /\ {"clean", "rollback"} \subseteq CleaningSteps(p)
      /\ Kind(p) # "single" => "unlink" \in CleaningSteps(p)
  BY DEF Kind, CleaningSteps
<1>l. Kind(p) # "outputs" => Len(cast[p].targets) = 1 /\ at[p] = 1
  <2>1. Len(cast[p].targets) = 2 => Kind(p) = "outputs"
    BY CastsAssumption DEF TypeOK, Operations, Kind
  <2>2. Len(cast[p].targets) \in {1, 2}
    OBVIOUS
  <2>3. Len(cast[p].targets) = 1 => at[p] = 1
    <3>1. at[p] \in 1..Len(cast[p].targets)
      BY DEF TypeOK
    <3>2. 1..1 = {1}
      OBVIOUS
    <3> QED
      BY <3>1, <3>2
  <2> QED
    BY <2>1, <2>2, <2>3
<1> SUFFICES ASSUME NEW i \in 1..2, Left(p, i)'
             PROVE  Excused(p, i)'
  BY DEF LeftOf
<1>h. \/ Left(p, i) /\ Excused(p, i)
      \/ i = at[p] /\ at'[p] = at[p] /\ pc'[p] \in {"unlink", "next"}
  BY LeftStep DEF LeftOf
<1>1. CASE i = at[p] /\ at'[p] = at[p] /\ pc'[p] \in {"unlink", "next"}
  BY <1>1 DEF Excused
<1>2. CASE Check(p)
  BY <1>0, <1>h, <1>2 DEF Excused, Check, At, Goto
<1>3. CASE Create(p) \/ Write(p) \/ Sync(p)
  BY <1>0, <1>h, <1>3 DEF Excused, Create, Write, Sync, At, Goto
<1>4. CASE Link(p) \/ Replace(p) \/ Unlink(p)
  <2>1. CASE Link(p)
    BY <1>0, <1>h, <1>1, <2>1 DEF Excused, Link, At, Goto
  <2>2. CASE Replace(p) \/ Unlink(p)
    BY <1>0, <1>h, <1>1, <2>2 DEF Excused, Replace, Unlink, At, Goto
  <2> QED
    BY <1>4, <2>1, <2>2
<1>5. CASE Advance(p)
  <2>1. pc[p] = "next" /\ pc'[p] \in {"returned", "create"}
    BY <1>0, <1>5 DEF Advance, At, Goto
  <2>2. pc'[p] = "create" => at'[p] = at[p] + 1
    BY <1>0, <1>5, <2>1 DEF Advance, Goto
  <2>3. i <= at[p] /\ at[p] \in 1..2
    BY <1>h, <2>1 DEF Excused
  <2> QED
    BY <2>1, <2>2, <2>3 DEF Excused
<1>6. CASE Error(p)
  <2>1. /\ pc[p] \in {"create", "write", "sync", "publish", "unlink"}
        /\ pc'[p] = "clean" /\ why'[p] = "error" /\ at'[p] = at[p]
        /\ failed'[p] = failed[p] \cup {pc[p]}
    BY <1>0, <1>6 DEF Error, Goto, Fault, Publishing
  <2> QED
    BY <1>h, <2>1 DEF Excused
<1>7. CASE Interrupt(p)
  BY <1>0, <1>7 DEF Excused, Interrupt, Goto
<1>8. CASE Clean(p)
  <2>1. /\ pc[p] = "clean" /\ pc'[p] = Handler(p, why[p])
        /\ at'[p] = at[p] /\ failed'[p] = failed[p]
    BY <1>0, <1>8 DEF Clean, At, Goto
  <2>2. Left(p, i) /\ Excused(p, i) /\ pc'[p] \in {"interrupted", "rollback", "raised"}
    BY <1>h, <2>1, Handlers
  <2>3. pc'[p] # "interrupted" => why[p] # "interrupt"
    BY <2>1 DEF Handler
  <2>4. CASE pc'[p] = "rollback"
    BY <1>k, <2>1, <2>2, <2>3, <2>4 DEF Excused
  <2>5. CASE pc'[p] = "raised"
    <3>1. Kind(p) # "outputs" /\ (Kind(p) = "single" => why[p] # "error")
      BY <2>1, <2>5 DEF Handler
    <3>2. ~(i < at[p])
      BY <1>l, <3>1
    <3>3. why[p] = "error" /\ "unlink" \in failed[p]
      BY <2>1, <2>2, <2>3, <2>5, <3>2 DEF Excused
    <3> QED
      BY <1>k, <2>1, <2>5, <3>1, <3>3 DEF Excused
  <2> QED
    BY <2>2, <2>4, <2>5 DEF Excused
<1>9. CASE CleanError(p)
  <2>1. "clean" \in failed'[p] /\ pc'[p] \in {"interrupted", "rollback", "raised"}
    BY <1>0, <1>9, Handlers DEF CleanError, Fault, Goto, At
  <2> QED
    BY <1>k, <2>1 DEF Excused
<1>10. CASE RollBack(p)
  <2>1. /\ pc[p] = "rollback" /\ Kind(p) = "outputs" /\ failed'[p] = failed[p]
        /\ Left(p, i) /\ Excused(p, i)
    BY <1>0, <1>h, <1>10 DEF RollBack, At, Goto
  <2>2. CASE at[p] = 1
    <3>1. pc'[p] = "raised"
      BY <1>0, <1>10, <2>2 DEF RollBack, Goto
    <3>2. failed[p] \cap {"clean", "unlink", "rollback"} # {}
      BY <2>1, <2>2 DEF Excused
    <3> QED
      BY <1>k, <2>1, <3>1, <3>2 DEF Excused
  <2>3. CASE at[p] # 1
    <3>1. /\ pc'[p] = "rollback" /\ at'[p] = at[p] - 1 /\ at[p] = 2
          /\ entry' = [entry EXCEPT ![cast[p].targets[1]] = Absent]
      BY <1>0, <1>10, <2>1, <2>3 DEF RollBack, Put
    <3>2. i # 1
      <4> SUFFICES ASSUME i = 1 PROVE FALSE
        OBVIOUS
      <4>1. PICK path \in Paths : entry'[path] = <<p, 1>>
        BY DEF Left
      <4>2. entry[path] = <<p, 1>> /\ path # cast[p].targets[1]
        BY <3>1, <4>1, NoFile DEF TypeOK
      <4> QED
        BY <4>2 DEF Placed
    <3>3. failed[p] \cap {"clean", "unlink", "rollback"} # {}
      BY <2>1, <3>1, <3>2 DEF Excused
    <3> QED
      BY <2>1, <3>1, <3>3 DEF Excused
  <2> QED
    BY <2>2, <2>3
<1>11. CASE RollBackError(p)
  <2>1. "rollback" \in failed'[p] /\ pc'[p] \in {"rollback", "raised"}
    BY <1>0, <1>11 DEF RollBackError, Fault, Goto, At
  <2> QED
    BY <1>k, <2>1 DEF Excused
<1>12. CASE RemoveTarget(p)
  <2>1. PICK path \in Paths : entry'[path] = <<p, i>>
    BY DEF Left
  <2>2. entry' = [entry EXCEPT ![Target(p)] = Absent] /\ at[p] = 1
        /\ Len(cast[p].targets) = 1
    BY <1>l, <1>12 DEF RemoveTarget, Put
  <2>3. entry[path] = <<p, i>> /\ path # Target(p)
    BY <2>1, <2>2, NoFile DEF TypeOK
  <2>4. i <= 1 /\ path = cast[p].targets[i]
    BY <2>2, <2>3 DEF Placed
  <2> QED
    BY <2>2, <2>3, <2>4 DEF Target
<1> QED
  BY <1>2, <1>3, <1>4, <1>5, <1>6, <1>7, <1>8, <1>9, <1>10, <1>11, <1>12 DEF Step

LEMMA CleanedStep ==
  ASSUME CInv, [Next]_vars
  PROVE  Cleaned'
<1> USE DEF CInv
<1> SUFFICES ASSUME ~crashed' PROVE Placed' /\ \A q \in Operations' : TempOf(q)' /\ LeftOf(q)'
  BY DEF Cleaned
<1>0. UNCHANGED cast /\ UNCHANGED Operations /\ ~crashed
  BY DEF Next, LosePower, vars, Operations
<1>c. Placed /\ \A q \in Operations : TempOf(q) /\ LeftOf(q)
  BY <1>0 DEF Cleaned
<1>1. CASE \E p \in Operations : Step(p)
  <2>1. PICK p \in Operations : Step(p)
    BY <1>1
  <2>2. Placed'
    BY <1>0, <1>c, <2>1, PlacedStep
  <2>3. TempOf(p)' /\ LeftOf(p)'
    BY <1>0, <1>c, <2>1, OwnTemp, OwnLeft
  <2>4. \A q \in Operations \ {p} : TempOf(q)' /\ LeftOf(q)'
    BY <1>0, <1>c, <2>1, OthersCleaned
  <2> QED
    BY <1>0, <2>2, <2>3, <2>4
<1>2. CASE \E p \in Operations : Kill(p)
  <2>1. PICK p \in Operations : Kill(p)
    BY <1>2
  <2>2. /\ UNCHANGED files /\ UNCHANGED <<at, why, failed>>
        /\ pc'[p] = "killed" /\ \A q \in Operations \ {p} : pc'[q] = pc[q]
    BY <2>1 DEF Kill, Goto, TypeOK
  <2>3. Placed'
    BY <1>0, <1>c, <2>2 DEF Placed, files
  <2>4. \A q \in Operations : TempOf(q)'
    BY <1>c, <2>2 DEF TempOf, files
  <2>5. \A q \in Operations : LeftOf(q)'
    BY <1>0, <1>c, <2>2 DEF LeftOf, Left, Excused, Kind, CleaningSteps, files
  <2> QED
    BY <1>0, <2>3, <2>4, <2>5
<1>3. CASE UNCHANGED vars
  BY <1>c, <1>3 DEF vars, files, control, Placed, TempOf, LeftOf, Left, Excused,
     Kind, CleaningSteps, Operations
<1> QED
  BY <1>1, <1>2, <1>3 DEF Next, LosePower

LEMMA CleanInvariance == (Init => CInv) /\ (CInv /\ [Next]_vars => CInv')
<1>1. Init => CInv
  <2> SUFFICES ASSUME Init PROVE Cleaned
    BY TypeInit DEF CInv
  <2>1. \A p \in Operations, i \in 1..2 : \A path \in Paths : entry[path] # <<p, i>>
    BY NoFileAssumption DEF Init, Operations
  <2> QED
    BY <2>1 DEF Init, Cleaned, Placed, TempOf, LeftOf, Left
<1>2. CInv /\ [Next]_vars => CInv'
  BY TypeStep, CleanedStep DEF CInv
<1> QED
  BY <1>1, <1>2

(* An operation that raised leaves neither a temporary file nor one of its *)
(* publications behind unless an unlink it needs failed, for every set of  *)
(* operations and whatever the others do (RaisedLeavesNothing).            *)
THEOREM RaisedCleansUp == Spec => []RaisedLeavesNothing
<1>1. Init => CInv
  BY CleanInvariance
<1>2. CInv /\ [Next]_vars => CInv'
  BY CleanInvariance
<1>3. CInv => RaisedLeavesNothing
  <2> SUFFICES ASSUME CInv, NEW p \in Operations, pc[p] = "raised",
                      failed[p] \cap CleaningSteps(p) = {}, ~crashed
               PROVE  ~LeftBehind(p)
    BY DEF RaisedLeavesNothing
  <2>1. "clean" \notin failed[p]
    BY DEF CleaningSteps
  <2>2. temp[p] = Absent
    BY <2>1 DEF CInv, Cleaned, TempOf
  <2>3. \A i \in 1..2 : ~Left(p, i)
    BY DEF CInv, Cleaned, LeftOf, Excused
  <2> QED
    BY <2>2, <2>3 DEF LeftBehind, Left
<1> QED
  BY <1>1, <1>2, <1>3, PTL DEF Spec

-----------------------------------------------------------------------------
(* What publication promises to those who look at the paths.               *)

(* Publication i of an operation is out and not yet withdrawn.             *)
IsOut(p, i) ==
  \/ pc[p] \in {"unlink", "next"} /\ i <= at[p]
  \/ pc[p] \in {"create", "write", "sync", "publish", "clean", "rollback"} /\ i < at[p]

Overwritten(p, i) ==
  \E q \in Operations \ {p} :
    Kind(q) = "replace" /\ entry[cast[p].targets[i]] = <<q, 1>>

(* It is where it was put, or an overwriting writer came later; and only   *)
(* the operation itself puts something where a single file is published.   *)
HeldBy(p) ==
  /\ \A i \in 1..Len(cast[p].targets) :
       IsOut(p, i) => entry[cast[p].targets[i]] = <<p, i>> \/ Overwritten(p, i)
  /\ Kind(p) = "single" => entry[cast[p].targets[1]] \in {Absent, <<p, 1>>}

Held == ~crashed => \A p \in Operations : HeldBy(p)

PInv == CInv /\ Held

LEMMA Targets ==
  ASSUME TypeOK, NEW p \in Operations
  PROVE  LET n == Len(cast[p].targets)
         IN  /\ n \in {1, 2} /\ at[p] \in 1..n
             /\ \A i \in 1..n : i \in 1..2 /\ cast[p].targets[i] \in Paths
             /\ Kind(p) # "outputs" => n = 1 /\ at[p] = 1
             /\ n = 2 => cast[p].targets[1] # cast[p].targets[2]
<1> DEFINE n == Len(cast[p].targets)
<1>1. /\ cast[p].targets \in Seq(Paths) /\ n \in 1..2
      /\ n = 2 => Kind(p) = "outputs" /\ cast[p].targets[1] # cast[p].targets[2]
      /\ at[p] \in 1..n
  BY CastsAssumption DEF TypeOK, Operations, Kind
<1>2. n \in {1, 2}
  BY <1>1
<1>3. \A i \in 1..n : i \in 1..2 /\ cast[p].targets[i] \in Paths
  <2>1. \A m \in 1..2 : 1..m \subseteq 1..2
    OBVIOUS
  <2>2. \A i \in 1..n : cast[p].targets[i] \in Paths
    BY <1>1
  <2> QED
    BY <1>1, <2>1, <2>2
<1>4. n = 1 => at[p] = 1
  <2>1. 1..1 = {1}
    OBVIOUS
  <2> QED
    BY <1>1, <2>1
<1> QED
  BY <1>1, <1>2, <1>3, <1>4

(* The three steps that are seen at the paths.                             *)
PutsOut(p) ==
  /\ pc[p] = "publish" /\ pc'[p] \in {"unlink", "next"} /\ at'[p] = at[p]
  /\ entry[Target(p)] = Absent \/ Kind(p) = "replace"
  /\ entry' = [entry EXCEPT ![Target(p)] = File(p)]

TakesBack(p) ==
  /\ pc[p] = "rollback" /\ pc'[p] = "rollback" /\ Kind(p) = "outputs"
  /\ at[p] = 2 /\ at'[p] = 1
  /\ entry' = [entry EXCEPT ![cast[p].targets[1]] = Absent]

Removes(p) ==
  /\ pc[p] = "rollback" /\ pc'[p] = "raised" /\ Kind(p) = "single"
  /\ at'[p] = at[p]
  /\ entry' = [entry EXCEPT ![Target(p)] = Absent]

LEMMA SeenStep ==
  ASSUME TypeOK, NEW p \in Operations, Step(p)
  PROVE  entry' = entry \/ PutsOut(p) \/ TakesBack(p) \/ Removes(p)
<1> USE Positions
<1>0. pc \in [Operations -> Labels] /\ at \in [Operations -> Nat]
  BY DEF TypeOK, Labels
<1>1. CASE Link(p)
  BY <1>0, <1>1 DEF Link, Put, Goto, At, PutsOut
<1>2. CASE Replace(p)
  BY <1>0, <1>2 DEF Replace, Put, Goto, At, PutsOut
<1>3. CASE RollBack(p)
  <2>1. at[p] # 1 => at[p] = 2 /\ at[p] - 1 = 1
    OBVIOUS
  <2> QED
    BY <1>0, <1>3, <2>1 DEF RollBack, Put, At, TakesBack
<1>4. CASE RemoveTarget(p)
  BY <1>0, <1>4 DEF RemoveTarget, Put, Goto, At, Removes
<1> QED
  BY <1>1, <1>2, <1>3, <1>4
  DEF Step, Check, Create, Write, Sync, Unlink, Advance, Error, Interrupt, Clean,
      CleanError, RollBackError, files

(* An operation puts out one publication at a time.                        *)
LEMMA OutStep ==
  ASSUME TypeOK, NEW p \in Operations, Step(p), UNCHANGED cast,
         NEW i \in 1..2, IsOut(p, i)'
  PROVE  IsOut(p, i) \/ (i = at[p] /\ PutsOut(p))
<1> USE Positions
<1>0. pc \in [Operations -> Labels] /\ at \in [Operations -> Nat]
  BY DEF TypeOK, Labels
<1>1. CASE Check(p)
  <2>1. pc'[p] = "check" \/ pc'[p] = "raised" \/ (pc'[p] = "create" /\ at'[p] = 1)
    BY <1>0, <1>1 DEF Check, Goto, At
  <2>2. ~ (i < 1)
    OBVIOUS
  <2> QED
    BY <2>1, <2>2 DEF IsOut
<1>2. CASE Create(p) \/ Write(p) \/ Sync(p)
  BY <1>0, <1>2 DEF Create, Write, Sync, Goto, At, IsOut
<1>3. CASE Link(p)
  <2>1. CASE entry[Target(p)] = Absent
    <3>1. PutsOut(p) /\ pc[p] = "publish"
      BY <1>0, <1>3, <2>1 DEF Link, Put, Goto, At, PutsOut
    <3>2. i <= at[p]
      BY <3>1 DEF PutsOut, IsOut
    <3> QED
      BY <3>1, <3>2 DEF IsOut
  <2>2. CASE entry[Target(p)] # Absent
    BY <1>0, <1>3, <2>2 DEF Link, Goto, At, IsOut
  <2> QED
    BY <2>1, <2>2
<1>4. CASE Replace(p)
  <2>1. PutsOut(p) /\ pc[p] = "publish"
    BY <1>0, <1>4 DEF Replace, Put, Goto, At, PutsOut
  <2>2. i <= at[p]
    BY <2>1 DEF PutsOut, IsOut
  <2> QED
    BY <2>1, <2>2 DEF IsOut
<1>5. CASE Unlink(p)
  BY <1>0, <1>5 DEF Unlink, Goto, At, IsOut
<1>6. CASE Advance(p)
  <2>1. /\ pc[p] = "next"
        /\ \/ pc'[p] = "returned"
           \/ pc'[p] = "create" /\ at'[p] = at[p] + 1
    BY <1>0, <1>6 DEF Advance, Goto, At
  <2> QED
    BY <2>1 DEF IsOut
<1>7. CASE Error(p) \/ Interrupt(p)
  BY <1>0, <1>7 DEF Error, Interrupt, Goto, Publishing, IsOut
<1>8. CASE Clean(p) \/ CleanError(p)
  <2>1. pc[p] = "clean" /\ at'[p] = at[p] /\ pc'[p] \in {"interrupted", "rollback", "raised"}
    BY <1>0, <1>8, Handlers DEF Clean, CleanError, Goto, At
  <2> QED
    BY <2>1 DEF IsOut
<1>9. CASE RollBack(p) \/ RollBackError(p)
  <2>1. /\ pc[p] = "rollback" /\ pc'[p] \in {"raised", "rollback"}
        /\ at'[p] = at[p] \/ at'[p] = at[p] - 1
    BY <1>0, <1>9 DEF RollBack, RollBackError, Goto, At
  <2> QED
    BY <2>1 DEF IsOut
<1>10. CASE RemoveTarget(p)
  <2>1. pc'[p] = "raised"
    BY <1>0, <1>10 DEF RemoveTarget, Goto
  <2> QED
    BY <2>1 DEF IsOut
<1> QED
  BY <1>1, <1>2, <1>3, <1>4, <1>5, <1>6, <1>7, <1>8, <1>9, <1>10 DEF Step

(* The first of two outputs is not overwritten.                            *)
LEMMA OwnFirstOutput ==
  ASSUME PInv, ~crashed, CleanUpMeetsOwnFiles, NEW p \in Operations,
         Len(cast[p].targets) = 2
  PROVE  ~Overwritten(p, 1)
<1> SUFFICES ASSUME NEW r \in Operations, Kind(r) = "replace",
                    entry[cast[p].targets[1]] = <<r, 1>>
             PROVE  FALSE
  BY DEF Overwritten
<1>0. TypeOK /\ Placed
  BY DEF PInv, CInv, Cleaned
<1>1. cast[p].targets[1] \in Paths
  BY <1>0, Targets
<1>2. cast[p].targets[1] = cast[r].targets[1]
  BY <1>0, <1>1 DEF Placed
<1> QED
  BY <1>0, <1>2 DEF CleanUpMeetsOwnFiles, TypeOK, Operations, Kind

(* What was put out stays what the operation, or an overwriting writer,    *)
(* put there.                                                              *)
LEMMA HeldStep ==
  ASSUME PInv, ~crashed, CleanUpMeetsOwnFiles, NEW p \in Operations, Step(p),
         UNCHANGED cast, NEW q \in Operations
  PROVE  HeldBy(q)'
<1> DEFINE n == Len(cast[q].targets)
           path(i) == cast[q].targets[i]
<1>0. /\ TypeOK /\ Placed /\ UNCHANGED Operations
      /\ entry \in [Paths -> {Absent, Other} \cup Files]
      /\ \A r \in Operations : HeldBy(r) /\ Kind(r)' = Kind(r)
  BY DEF PInv, CInv, Cleaned, Held, TypeOK, Operations, Kind
<1>n. \A r \in Operations, i \in 1..2 : <<r, i>> # Absent
  BY <1>0, NoFile
<1>p. /\ n \in {1, 2} /\ \A i \in 1..n : i \in 1..2 /\ path(i) \in Paths
      /\ n = 2 => path(1) # path(2)
      /\ path(1) \in Paths
  <2>1. /\ n \in {1, 2} /\ \A i \in 1..n : i \in 1..2 /\ path(i) \in Paths
        /\ n = 2 => path(1) # path(2)
    BY <1>0, Targets
  <2>2. 1 \in 1..n
    BY <2>1
  <2> QED
    BY <2>1, <2>2
<1>a. Target(p) \in Paths /\ at[p] \in 1..2
  BY <1>0, Positions
<1>o. \A i \in 1..n : IsOut(q, i)' => IsOut(q, i) \/ (q = p /\ i = at[p] /\ PutsOut(p))
  <2> SUFFICES ASSUME NEW i \in 1..n, IsOut(q, i)'
               PROVE  IsOut(q, i) \/ (q = p /\ i = at[p] /\ PutsOut(p))
    OBVIOUS
  <2>1. CASE q = p
    BY <1>0, <1>p, <2>1, OutStep
  <2>2. CASE q # p
    <3>1. pc'[q] = pc[q] /\ at'[q] = at[q]
      BY <1>0, <2>2, StepControl
    <3> QED
      BY <3>1 DEF IsOut
  <2> QED
    BY <2>1, <2>2
(* What happens at another path is none of its business.                   *)
<1>u. ASSUME NEW i \in 1..n, IsOut(q, i), entry'[path(i)] = entry[path(i)]
      PROVE  entry'[path(i)] = <<q, i>> \/ Overwritten(q, i)'
  <2>1. entry[path(i)] = <<q, i>> \/ Overwritten(q, i)
    BY <1>0, <1>u DEF HeldBy
  <2>2. Overwritten(q, i) => Overwritten(q, i)'
    BY <1>0, <1>u DEF Overwritten
  <2> QED
    BY <1>u, <2>1, <2>2
<1>v. Kind(q) = "single" => entry[path(1)] \in {Absent, <<q, 1>>}
  BY <1>0 DEF HeldBy
<1> SUFFICES /\ \A i \in 1..n : IsOut(q, i)' =>
                  entry'[path(i)] = <<q, i>> \/ Overwritten(q, i)'
             /\ Kind(q) = "single" => entry'[path(1)] \in {Absent, <<q, 1>>}
  BY <1>0 DEF HeldBy
<1>1. CASE entry' = entry /\ ~PutsOut(p)
  BY <1>o, <1>u, <1>v, <1>1
<1>2. CASE PutsOut(p)
  <2>0. entry' = [entry EXCEPT ![Target(p)] = <<p, at[p]>>]
    BY <1>2 DEF PutsOut, File
  <2>1. \A t \in Paths : entry'[t] = IF t = Target(p) THEN <<p, at[p]>> ELSE entry[t]
    BY <1>0, <2>0
  <2>2. ASSUME NEW i \in 1..n, IsOut(q, i)'
        PROVE  entry'[path(i)] = <<q, i>> \/ Overwritten(q, i)'
    <3>1. CASE path(i) # Target(p)
      <4>1. IsOut(q, i)
        BY <1>o, <2>2, <3>1 DEF Target
      <4>2. entry'[path(i)] = entry[path(i)]
        BY <1>p, <2>1, <3>1
      <4> QED
        BY <1>u, <4>1, <4>2
    <3>2. CASE path(i) = Target(p) /\ q = p
      <4>1. at[p] \in 1..n /\ path(at[p]) = path(i)
        BY <1>0, <3>2, Targets DEF Target
      <4>2. i \in {1, 2} /\ at[p] \in {1, 2} /\ (n = 1 => i = 1 /\ at[p] = 1)
        BY <1>p, <4>1
      <4>3. i = at[p]
        BY <1>p, <4>1, <4>2
      <4> QED
        BY <1>p, <2>1, <3>2, <4>3
    <3>3. CASE path(i) = Target(p) /\ q # p
      <4>1. entry[path(i)] = <<q, i>> \/ Overwritten(q, i)
        BY <1>0, <1>o, <2>2, <3>3 DEF HeldBy
      <4>2. entry[Target(p)] # Absent
        <5>1. i \in 1..2 /\ 1 \in 1..2
          BY <1>p
        <5>2. <<q, i>> # Absent /\ \A r \in Operations : <<r, 1>> # Absent
          BY <1>n, <5>1
        <5>3. path(i) = Target(p)
          BY <3>3
        <5>4. CASE Overwritten(q, i)
          BY <5>2, <5>3, <5>4 DEF Overwritten
        <5> QED
          BY <4>1, <5>2, <5>3, <5>4
      <4>3. Kind(p) = "replace" /\ at[p] = 1
        BY <1>0, <1>2, <4>2, Targets DEF PutsOut
      <4>4. entry'[path(i)] = <<p, 1>>
        BY <1>p, <2>1, <3>3, <4>3
      <4> QED
        BY <1>0, <3>3, <4>3, <4>4 DEF Overwritten
    <3> QED
      BY <3>1, <3>2, <3>3
  <2>3. ASSUME Kind(q) = "single"
        PROVE  entry'[path(1)] \in {Absent, <<q, 1>>}
    <3>1. CASE q = p
      <4>1. at[p] = 1 /\ path(1) = Target(p)
        BY <1>0, <2>3, <3>1, Targets DEF Target
      <4> QED
        BY <1>a, <2>1, <3>1, <4>1
    <3>2. CASE q # p
      <4>1. at[p] \in 1..Len(cast[p].targets)
        BY <1>0, Targets
      <4>2. Target(p) # path(1)
        BY <1>0, <2>3, <3>2, <4>1 DEF CleanUpMeetsOwnFiles, TypeOK, Operations, Kind, Target
      <4> QED
        BY <1>p, <1>v, <2>1, <2>3, <4>2
    <3> QED
      BY <3>1, <3>2
  <2> QED
    BY <2>2, <2>3
<1>3. CASE TakesBack(p)
  <2> DEFINE s == cast[p].targets[1]
  <2>1. /\ pc[p] = "rollback" /\ pc'[p] = "rollback" /\ at[p] = 2 /\ at'[p] = 1
        /\ Kind(p) = "outputs" /\ entry' = [entry EXCEPT ![s] = Absent]
    BY <1>3 DEF TakesBack
  <2>2. Len(cast[p].targets) = 2 /\ s \in Paths
    BY <1>0, <2>1, Targets
  <2>3. \A t \in Paths : entry'[t] = IF t = s THEN Absent ELSE entry[t]
    BY <1>0, <2>1, <2>2
  <2>4. entry[s] = <<p, 1>>
    <3>1. IsOut(p, 1)
      BY <2>1 DEF IsOut
    <3>2. entry[s] = <<p, 1>> \/ Overwritten(p, 1)
      BY <1>0, <2>2, <3>1 DEF HeldBy
    <3>3. ~Overwritten(p, 1)
      BY <2>2, OwnFirstOutput
    <3> QED
      BY <3>2, <3>3
  <2>5. ASSUME NEW i \in 1..n, IsOut(q, i)'
        PROVE  entry'[path(i)] = <<q, i>> \/ Overwritten(q, i)'
    <3>1. IsOut(q, i)
      BY <1>o, <2>1, <2>5 DEF PutsOut
    <3>2. q # p
      BY <1>p, <2>1, <2>5 DEF IsOut
    <3>3. path(i) # s
      <4> SUFFICES ASSUME path(i) = s PROVE FALSE
        OBVIOUS
      <4>1. entry[path(i)] = <<q, i>> \/ Overwritten(q, i)
        BY <1>0, <3>1 DEF HeldBy
      <4> QED
        BY <2>1, <2>4, <3>2, <4>1 DEF Overwritten
    <3>4. entry'[path(i)] = entry[path(i)]
      BY <1>p, <2>3, <3>3
    <3> QED
      BY <1>u, <3>1, <3>4
  <2> QED
    BY <1>p, <1>v, <2>3, <2>5
<1>4. CASE Removes(p)
  <2>1. /\ pc'[p] = "raised" /\ Kind(p) = "single"
        /\ entry' = [entry EXCEPT ![Target(p)] = Absent]
    BY <1>4 DEF Removes
  <2>2. \A t \in Paths : entry'[t] = IF t = Target(p) THEN Absent ELSE entry[t]
    BY <1>0, <1>a, <2>1
  <2>3. Target(p) = cast[p].targets[1]
    BY <1>0, <2>1, Targets DEF Target
  <2>4. q # p => \A i \in 1..n : path(i) # Target(p)
    BY <1>0, <2>1, <2>3 DEF CleanUpMeetsOwnFiles, TypeOK, Operations, Kind
  <2>5. ASSUME NEW i \in 1..n, IsOut(q, i)'
        PROVE  entry'[path(i)] = <<q, i>> \/ Overwritten(q, i)'
    <3>1. q # p
      BY <2>1, <2>5 DEF IsOut
    <3>2. IsOut(q, i)
      BY <1>o, <2>5, <3>1
    <3>3. entry'[path(i)] = entry[path(i)]
      BY <1>p, <2>2, <2>4, <3>1
    <3> QED
      BY <1>u, <3>2, <3>3
  <2> QED
    BY <1>p, <1>v, <2>2, <2>5
<1> QED
  BY <1>0, <1>1, <1>2, <1>3, <1>4, SeenStep

LEMMA PublicationInvariance ==
  ASSUME CleanUpMeetsOwnFiles
  PROVE  (Init => PInv) /\ (PInv /\ [Next]_vars => PInv')
<1>1. ASSUME Init PROVE PInv
  <2>1. CInv
    BY <1>1, CleanInvariance
  <2>2. TypeOK
    BY <2>1 DEF CInv
  <2> SUFFICES ASSUME NEW p \in Operations PROVE HeldBy(p)
    BY <2>1 DEF PInv, Held
  <2>3. \A i \in 1..Len(cast[p].targets) : ~IsOut(p, i)
    BY <1>1 DEF Init, FirstLabel, IsOut
  <2>4. Kind(p) = "single" => entry[cast[p].targets[1]] = Absent
    <3> SUFFICES ASSUME Kind(p) = "single" PROVE entry[cast[p].targets[1]] = Absent
      OBVIOUS
    <3>1. cast[p].targets[1] \in Paths \ MayExist
      BY <2>2, Targets DEF CleanUpMeetsOwnFiles, TypeOK, Operations, Kind
    <3> QED
      BY <1>1, <3>1 DEF Init
  <2> QED
    BY <2>3, <2>4 DEF HeldBy
<1>2. ASSUME PInv, [Next]_vars PROVE PInv'
  <2>1. CInv' /\ CInv /\ TypeOK
    BY <1>2, CleanInvariance DEF PInv, CInv
  <2> SUFFICES ASSUME ~crashed', NEW q \in Operations' PROVE HeldBy(q)'
    BY <2>1 DEF PInv, Held
  <2>2. UNCHANGED cast /\ UNCHANGED Operations /\ ~crashed
    BY <1>2 DEF Next, LosePower, vars, Operations
  <2>3. q \in Operations /\ HeldBy(q)
    BY <1>2, <2>2 DEF PInv, Held
  <2>4. CASE \E p \in Operations : Step(p)
    BY <1>2, <2>2, <2>3, <2>4, HeldStep
  <2>5. CASE \E p \in Operations : Kill(p)
    <3>1. PICK p \in Operations : Kill(p)
      BY <2>5
    <3>2. /\ UNCHANGED <<entry, at>> /\ pc'[p] = "killed"
          /\ \A r \in Operations \ {p} : pc'[r] = pc[r]
      BY <2>1, <3>1 DEF Kill, Goto, TypeOK, files
    <3>3. \A i \in 1..Len(cast[q].targets) : IsOut(q, i)' => IsOut(q, i)
      BY <2>3, <3>2 DEF IsOut
    <3>4. \A i \in 1..Len(cast[q].targets) : Overwritten(q, i)' <=> Overwritten(q, i)
      BY <2>2, <3>2 DEF Overwritten, Kind
    <3> QED
      BY <2>2, <2>3, <3>2, <3>3, <3>4 DEF HeldBy, Kind
  <2>6. CASE UNCHANGED vars
    BY <2>3, <2>6 DEF vars, files, control, HeldBy, IsOut, Overwritten, Kind, Operations
  <2> QED
    BY <1>2, <2>2, <2>4, <2>5, <2>6 DEF Next, LosePower
<1> QED
  BY <1>1, <1>2

(* Success is reported after the last output, and nothing follows it.      *)
LEMMA ReturnStep ==
  ASSUME TypeOK, NEW p \in Operations, Step(p)
  PROVE  /\ ~crashed /\ pc[p] # "returned"
         /\ pc'[p] = "returned" =>
              pc[p] = "next" /\ at[p] = Len(cast[p].targets) /\ UNCHANGED entry
<1>0. pc \in [Operations -> Labels]
  BY DEF TypeOK, Labels
<1>1. CASE Check(p) \/ Create(p) \/ Write(p) \/ Sync(p) \/ Link(p) \/ Replace(p) \/ Unlink(p)
  BY <1>0, <1>1 DEF Check, Create, Write, Sync, Link, Replace, Unlink, At, Goto
<1>2. CASE Advance(p)
  BY <1>0, <1>2 DEF Advance, At, Goto, files
<1>3. CASE Error(p) \/ Interrupt(p)
  BY <1>0, <1>3 DEF Error, Interrupt, MayFail, Goto, Publishing
<1>4. CASE Clean(p) \/ CleanError(p)
  BY <1>0, <1>4, Handlers DEF Clean, CleanError, At, Goto
<1>5. CASE RollBack(p) \/ RollBackError(p) \/ RemoveTarget(p)
  BY <1>0, <1>5 DEF RollBack, RollBackError, RemoveTarget, At, Goto
<1> QED
  BY <1>1, <1>2, <1>3, <1>4, <1>5 DEF Step

Returned == {p \in Operations : pc[p] = "returned"}

(* Each step of an operation is a step of the promise or is not seen.      *)
LEMMA PromiseStep ==
  ASSUME PInv, CleanUpMeetsOwnFiles, NEW p \in Operations, Step(p), UNCHANGED <<cast, crashed>>
  PROVE  [Promise!Next]_(Promise!vars)
<1>0. /\ TypeOK /\ ~crashed /\ HeldBy(p) /\ UNCHANGED Operations
      /\ entry \in [Paths -> {Absent, Other} \cup Files]
      /\ p \notin Returned
  BY ReturnStep DEF PInv, CInv, Held, TypeOK, Operations, Returned
<1>1. \A q \in Operations \ {p} : pc'[q] = pc[q]
  BY <1>0, StepControl
<1>2. pc'[p] # "returned" => UNCHANGED Returned
  BY <1>0, <1>1 DEF Returned
<1>3. \A i \in 1..Len(cast[p].targets) : i \in DOMAIN cast[p].targets
  BY <1>0, CastsAssumption DEF TypeOK, Operations
<1>4. at[p] \in 1..Len(cast[p].targets)
  BY <1>0, Targets
<1>a. ASSUME \/ \E i \in DOMAIN cast[p].targets : Promise!Publish(p, i) \/ Promise!Withdraw(p, i)
             \/ Promise!Return(p)
      PROVE  Promise!Next
  BY <1>0, <1>a DEF Promise!Next, Promise!Operations, Operations
<1>5. CASE pc'[p] = "returned"
  <2>1. pc[p] = "next" /\ at[p] = Len(cast[p].targets) /\ UNCHANGED entry
    BY <1>0, <1>5, ReturnStep
  <2>2. \A i \in 1..Len(cast[p].targets) :
          entry[cast[p].targets[i]] = <<p, i>> \/ Overwritten(p, i)
    <3> SUFFICES ASSUME NEW i \in 1..Len(cast[p].targets)
                 PROVE  entry[cast[p].targets[i]] = <<p, i>> \/ Overwritten(p, i)
      OBVIOUS
    <3>1. i <= at[p]
      <4>1. Len(cast[p].targets) \in {1, 2}
        BY <1>0, Targets
      <4> QED
        BY <2>1, <4>1
    <3>2. IsOut(p, i)
      BY <2>1, <3>1 DEF IsOut
    <3> QED
      BY <1>0, <3>2 DEF HeldBy
  <2>3. Returned' = Returned \cup {p}
    BY <1>0, <1>1, <1>5 DEF Returned
  <2>4. Promise!Return(p)
    BY <2>1, <2>2, <2>3 DEF Promise!Return, Promise!Publication, Promise!Overwrites,
       Promise!Operations, Operations, Overwritten, Kind, Returned
  <2> QED
    BY <1>a, <2>4
<1>6. CASE PutsOut(p)
  <2>1. UNCHANGED Returned
    BY <1>2, <1>6 DEF PutsOut
  <2>2. Promise!Publish(p, at[p])
    BY <1>0, <1>6, <2>1 DEF PutsOut, Promise!Publish, Promise!Publication,
       Promise!Overwrites, Returned, Target, File, Kind
  <2> QED
    BY <1>3, <1>4, <1>a, <2>2
<1>7. CASE TakesBack(p)
  <2>1. UNCHANGED Returned
    BY <1>2, <1>7 DEF TakesBack
  <2>2. Len(cast[p].targets) = 2 /\ IsOut(p, 1)
    BY <1>0, <1>7, Targets DEF TakesBack, IsOut
  <2>3. entry[cast[p].targets[1]] = <<p, 1>>
    <3>1. entry[cast[p].targets[1]] = <<p, 1>> \/ Overwritten(p, 1)
      BY <1>0, <2>2 DEF HeldBy
    <3>2. ~Overwritten(p, 1)
      BY <1>0, <2>2, OwnFirstOutput
    <3> QED
      BY <3>1, <3>2
  <2>4. Promise!Withdraw(p, 1)
    BY <1>0, <1>7, <2>1, <2>3 DEF TakesBack, Promise!Withdraw, Promise!Publication, Returned
  <2> QED
    BY <1>3, <1>a, <2>2, <2>4
<1>8. CASE Removes(p)
  <2>1. UNCHANGED Returned
    BY <1>2, <1>8 DEF Removes
  <2>2. /\ Target(p) = cast[p].targets[1] /\ Len(cast[p].targets) = 1
        /\ entry[Target(p)] \in {Absent, <<p, 1>>}
    BY <1>0, <1>8, Targets DEF Removes, HeldBy, Target
  <2>3. CASE entry[Target(p)] = Absent
    <3>1. entry' = entry
      BY <1>0, <1>8, <2>3, Positions DEF Removes
    <3> QED
      BY <2>1, <3>1 DEF Promise!vars, Returned
  <2>4. CASE entry[Target(p)] = <<p, 1>>
    <3>1. Promise!Withdraw(p, 1)
      BY <1>0, <1>8, <2>1, <2>2, <2>4
      DEF Removes, Promise!Withdraw, Promise!Publication, Returned
    <3> QED
      BY <1>3, <1>a, <2>2, <3>1
  <2> QED
    BY <2>2, <2>3, <2>4
<1>9. CASE entry' = entry /\ pc'[p] # "returned"
  BY <1>2, <1>9 DEF Promise!vars, Returned
<1> QED
  BY <1>0, <1>5, <1>6, <1>7, <1>8, <1>9, SeenStep

(* Whoever looks at the paths sees that publications appear where nothing  *)
(* is, are replaced by the overwriting writer only, are withdrawn only by  *)
(* their own operation before it reports success, and that success means   *)
(* everything is published: for every set of operations, under whatever    *)
(* interleaving, faults and interruptions (PublicationSpec).  What it      *)
(* takes for granted is that a clean-up finds nobody else's file.          *)
THEOREM ImplementsAbsentPublication ==
  ASSUME CleanUpMeetsOwnFiles
  PROVE  Spec => PublicationSpec
<1>1. Init => Promise!Init
  BY DEF Init, Promise!Init, FirstLabel
<1>2. PInv /\ [Next]_vars => [Promise!Next]_(Promise!vars)
  <2> SUFFICES ASSUME PInv, [Next]_vars PROVE [Promise!Next]_(Promise!vars)
    OBVIOUS
  <2>0. TypeOK
    BY DEF PInv, CInv
  <2>1. CASE UNCHANGED vars
    BY <2>1 DEF vars, files, control, Promise!vars, Operations
  <2>2. CASE \E p \in Operations : Step(p) /\ UNCHANGED <<cast, crashed>>
    BY <2>2, PromiseStep
  <2>3. CASE \E p \in Operations : Kill(p) /\ UNCHANGED <<cast, crashed>>
    <3>1. PICK p \in Operations : Kill(p) /\ UNCHANGED <<cast, crashed>>
      BY <2>3
    <3>2. /\ UNCHANGED entry /\ pc[p] # "returned" /\ pc'[p] = "killed"
          /\ \A r \in Operations \ {p} : pc'[r] = pc[r]
      BY <2>0, <3>1 DEF Kill, Goto, TypeOK, files, Ended
    <3>3. UNCHANGED Operations
      BY <3>1 DEF Operations
    <3>4. UNCHANGED Returned
      BY <3>2, <3>3 DEF Returned
    <3> QED
      BY <3>1, <3>2, <3>4 DEF Promise!vars, Returned
  <2>4. CASE LosePower
    <3>1. UNCHANGED cast /\ UNCHANGED Operations
      BY <2>4 DEF LosePower, Operations
    <3>2. \A p \in Operations : pc'[p] = IF pc[p] \in Ended THEN pc[p] ELSE "killed"
      BY <2>4 DEF LosePower
    <3>3. UNCHANGED Returned
      BY <3>1, <3>2 DEF Returned, Ended
    <3>4. Promise!LosePower
      <4>1. crashed' = TRUE /\ entry' \in [Paths -> {Absent, Other} \cup Files]
        BY <2>4 DEF LosePower
      <4>2. Files = {Promise!Publication(p, i) : p \in Promise!Operations, i \in 1..2}
        BY DEF Promise!Publication, Promise!Operations, Operations, Files
      <4> QED
        BY <3>3, <4>1, <4>2 DEF Promise!LosePower, Returned
    <3> QED
      BY <2>4, <3>1, <3>4 DEF LosePower, Promise!Next
  <2> QED
    BY <2>1, <2>2, <2>3, <2>4 DEF Next
<1>3. Init => PInv
  BY PublicationInvariance
<1>4. PInv /\ [Next]_vars => PInv'
  BY PublicationInvariance
<1> QED
  BY <1>1, <1>2, <1>3, <1>4, PTL DEF Spec, PublicationSpec, Promise!Spec

=============================================================================
