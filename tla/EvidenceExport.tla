--------------------------- MODULE EvidenceExport ---------------------------
(***************************************************************************)
(* The three operations that publish a directory of evidence: the export   *)
(* of a bundle (evidence/export.py), of fixtures (evidence/fixture.py) and *)
(* the migration of one artifact (evidence/migration.py), which copies its *)
(* source to a scratch directory and exports that.  Each fills a staging   *)
(* directory beside its destination, validates it and renames it.          *)
(*                                                                         *)
(* Beside them, other programs edit the sources in place and make          *)
(* directories.  What is inside the staging and scratch directories is     *)
(* left alone by others.  A file is its sequence of chunks, and a digest   *)
(* tells different files apart.                                            *)
(***************************************************************************)
EXTENDS Integers, SequencesExt

CONSTANTS
  Casts,      \* functions from operations to jobs
  Sources,    \* the files the jobs read
  Contents,   \* what a source may contain
  Original,   \* what it contains at first
  Paths,      \* the destinations
  MaxEdits,   \* bound on the edits by other programs
  NoDigest    \* a descriptor without source_sha256

(* A job: kind, target, the files it reads (or the payloads of fixtures),  *)
(* the digests declared for them, and the limit on their bytes.            *)
Kinds == {"bundle", "fixtures", "migration"}

CONSTANTS Absent, Empty, Occupied   \* nothing, an empty directory, anything else

VARIABLES
  cast,
  source, stamp,  \* content of each source; what os.stat tells of it
  dest,           \* what is at each destination, or the operation that put it there
  pc, at,         \* where an operation is, and at which of its files
  preflight,      \* the metadata seen by the preflight
  opened, got,    \* metadata of the open file, and the chunks read from it
  scratch,        \* what a migration copied
  staged,         \* the files in the staging directory
  left,           \* directories not yet removed
  edits

world == <<source, stamp, edits>>
reading == <<preflight, opened, got>>
files == <<scratch, staged, left>>
vars == <<cast, world, dest, pc, at, reading, files>>

Operations == DOMAIN cast
Target(p) == cast[p].target
Files(p) == DOMAIN cast[p].files
HasFiles(p) == cast[p].files # <<>>

(* Mutant: the loops over the files run once too often.                    *)
AtEndBeyond(p) == at[p] > Len(cast[p].files)

AtEnd(p) == at[p] = Len(cast[p].files)

-----------------------------------------------------------------------------
(* What an operation reads: an external file, or what it has itself.       *)
External(p) == cast[p].kind = "bundle" \/ pc[p] \in {"copying", "verifying"}
Current(p) ==
  IF External(p) THEN source[cast[p].files[at[p]]]
  ELSE IF cast[p].kind = "fixtures" THEN cast[p].files[at[p]]
  ELSE scratch[p]
Metadata(p) == IF External(p) THEN stamp[cast[p].files[at[p]]] ELSE 0

(* The digest an entry declares: a migration declares what it copied.      *)
Declared(p, i) ==
  IF cast[p].kind = "migration" THEN scratch[p] ELSE cast[p].declared[i]

(* Mutant: sizes are compared and digests are not.                         *)
MatchesSize(content, declared) == Len(content) = Len(declared)

Matches(content, declared) == content = declared

(* The sizes of the first n files are bounded together.  (The index that   *)
(* fixtures count with them is left out.)                                  *)
OverLimit(p, n) ==
  FoldSeq(+, 0, [i \in 1..n |-> Len(Declared(p, i))]) > cast[p].limit

Goto(p, label) == pc' = [pc EXCEPT ![p] = label]
Stay == UNCHANGED <<dest, at, reading, files>>

-----------------------------------------------------------------------------
(* _destination: nothing may be there yet.  A migration passes this gate   *)
(* once more when it exports its copy.  Fixtures are weighed before it.    *)
Gate(p) ==
  /\ pc[p] \in {"gate", "regate"} /\ Stay
  /\ Goto(p, IF \/ dest[Target(p)] # Absent
                \/ cast[p].kind = "fixtures" /\ OverLimit(p, Len(cast[p].files))
             THEN "clean"
             ELSE CASE cast[p].kind = "fixtures" -> "staging"
                    [] cast[p].kind = "migration" /\ pc[p] = "gate" -> "scratch"
                    [] OTHER -> IF HasFiles(p) THEN "preflight" ELSE "staging")

MakeScratch(p) ==
  /\ pc[p] = "scratch" /\ Goto(p, "copying")
  /\ left' = [left EXCEPT ![p] = @ \cup {"scratch"}]
  /\ UNCHANGED <<dest, at, reading, scratch, staged>>

(* _verified_copy and _copy_entry read chunk after chunk.                  *)
Read(p) ==
  /\ pc[p] \in {"copying", "reading"}
  /\ LET n == Len(got[p]) IN
       IF n < Len(Current(p))
       THEN got' = [got EXCEPT ![p] = Append(@, Current(p)[n + 1])] /\ UNCHANGED pc
       ELSE Goto(p, IF pc[p] = "copying" THEN "verifying" ELSE "closing")
            /\ UNCHANGED got
  /\ UNCHANGED <<dest, at, preflight, opened, files>>

(* The digest of what was read against the descriptor's, if it has one.    *)
VerifyCopy(p) ==
  /\ pc[p] = "verifying"
  /\ IF cast[p].declared[1] # NoDigest /\ ~Matches(got[p], cast[p].declared[1])
     THEN Goto(p, "clean") /\ UNCHANGED <<got, scratch>>
     ELSE /\ Goto(p, "regate") /\ scratch' = [scratch EXCEPT ![p] = got[p]]
          /\ got' = [got EXCEPT ![p] = <<>>]
  /\ UNCHANGED <<dest, at, preflight, opened, staged, left>>

(* One file after the other is opened and its metadata compared.           *)
Preflight(p) ==
  /\ pc[p] = "preflight"
  /\ preflight' = [preflight EXCEPT ![p] = Append(@, Metadata(p))]
  /\ IF Len(Current(p)) # Len(Declared(p, at[p])) \/ OverLimit(p, at[p])
     THEN Goto(p, "clean") /\ UNCHANGED at
     ELSE IF AtEnd(p)
     THEN Goto(p, "staging") /\ at' = [at EXCEPT ![p] = 1]
     ELSE at' = [at EXCEPT ![p] = @ + 1] /\ UNCHANGED pc
  /\ UNCHANGED <<dest, opened, got, files>>

MakeStaging(p) ==
  /\ pc[p] = "staging" /\ left' = [left EXCEPT ![p] = @ \cup {"staging"}]
  /\ Goto(p, IF ~HasFiles(p) THEN "validating"
             ELSE IF cast[p].kind = "fixtures" THEN "writing" ELSE "opening")
  /\ UNCHANGED <<dest, at, reading, scratch, staged>>

(* _copy_entry: the file must be the one the preflight saw ...             *)
Open(p) ==
  /\ pc[p] = "opening"
  /\ opened' = [opened EXCEPT ![p] = Metadata(p)]
  /\ Goto(p, IF Metadata(p) = preflight[p][at[p]] THEN "reading" ELSE "clean")
  /\ UNCHANGED <<dest, at, preflight, got, files>>

(* The next file, or the index and its validation once all are staged.     *)
NextFile(p, content) ==
  /\ staged' = [staged EXCEPT ![p] = Append(@, content)]
  /\ IF AtEnd(p) THEN Goto(p, "validating") /\ UNCHANGED at
     ELSE /\ at' = [at EXCEPT ![p] = @ + 1]
          /\ Goto(p, IF cast[p].kind = "fixtures" THEN "writing" ELSE "opening")

(* ... and still be it at the end, with the declared digest.               *)
Close(p) ==
  /\ pc[p] = "closing" /\ got' = [got EXCEPT ![p] = <<>>]
  /\ IF opened[p] = Metadata(p) /\ Matches(got[p], Declared(p, at[p]))
     THEN NextFile(p, got[p])
     ELSE Goto(p, "clean") /\ UNCHANGED <<at, staged>>
  /\ UNCHANGED <<dest, preflight, opened, scratch, left>>

(* A fixture is written from memory.                                       *)
WriteFixture(p) ==
  /\ pc[p] = "writing" /\ NextFile(p, Current(p))
  /\ UNCHANGED <<dest, reading, scratch, left>>

(* The index is written, and everything staged is read again.              *)
Validate(p) ==
  /\ pc[p] = "validating"
  /\ Goto(p, IF \A i \in Files(p) : Matches(staged[p][i], Declared(p, i))
             THEN "renaming" ELSE "clean")
  /\ Stay

(* Mutant: what is at the destination is moved away.                       *)
RenameOver(p) ==
  /\ pc[p] = "renaming"
  /\ dest' = [dest EXCEPT ![Target(p)] = p]
  /\ left' = [left EXCEPT ![p] = @ \ {"staging"}]
  /\ Goto(p, "leaving")
  /\ UNCHANGED <<at, reading, scratch, staged>>

(* Mutant: an error of the rename is taken for success.                    *)
RenameReported(p) ==
  /\ pc[p] = "renaming" /\ Goto(p, "leaving")
  /\ dest' = IF dest[Target(p)] \in {Absent, Empty}
              THEN [dest EXCEPT ![Target(p)] = p] ELSE dest
  /\ UNCHANGED <<at, reading, files>>

(* os.rename replaces nothing but an empty directory.                      *)
Rename(p) ==
  /\ pc[p] = "renaming"
  /\ IF dest[Target(p)] \in {Absent, Empty}
     THEN /\ dest' = [dest EXCEPT ![Target(p)] = p]
          /\ left' = [left EXCEPT ![p] = @ \ {"staging"}]
          /\ Goto(p, "leaving")
     ELSE Goto(p, "clean") /\ UNCHANGED <<dest, left>>
  /\ UNCHANGED <<at, reading, scratch, staged>>

-----------------------------------------------------------------------------
(* finally: rmtree(ignore_errors=True) of every directory still there,     *)
(* taken to succeed.                                                       *)
Cleaning == {"clean", "interrupted", "leaving"}

(* Mutant: only the staging directory is removed.                          *)
CleanStaging(p) ==
  /\ pc[p] \in Cleaning
  /\ left' = [left EXCEPT ![p] = @ \ {"staging"}]
  /\ Goto(p, CASE pc[p] = "clean" -> "raised" [] pc[p] = "leaving" -> "returned"
               [] OTHER -> "stopped")
  /\ UNCHANGED <<dest, at, reading, scratch, staged>>

Clean(p) ==
  /\ pc[p] \in Cleaning
  /\ left' = [left EXCEPT ![p] = {}]
  /\ Goto(p, CASE pc[p] = "clean" -> "raised" [] pc[p] = "leaving" -> "returned"
               [] OTHER -> "stopped")
  /\ UNCHANGED <<dest, at, reading, scratch, staged>>

Ended == {"returned", "raised", "stopped", "killed"}
Working(p) == pc[p] \notin Ended \cup Cleaning

(* A system call fails before the rename, KeyboardInterrupt is raised, or  *)
(* the process is killed.                                                  *)
Error(p) == Working(p) /\ Goto(p, "clean") /\ Stay
Interrupt(p) ==
  (Working(p) \/ pc[p] = "leaving") /\ Goto(p, "interrupted") /\ Stay
Kill(p) == pc[p] \notin Ended /\ Goto(p, "killed") /\ Stay

(* Another program writes to a source in place.  Its size and its time of  *)
(* modification tell, unless the size is the same and the clock is coarse. *)
Edit(f, content) ==
  /\ edits < MaxEdits /\ edits' = edits + 1 /\ content # source[f]
  /\ source' = [source EXCEPT ![f] = content]
  /\ stamp' \in {[stamp EXCEPT ![f] = edits + 1]}
                \cup (IF Len(content) = Len(source[f]) THEN {stamp} ELSE {})
  /\ UNCHANGED <<dest, pc, at, reading, files>>

(* Another program makes or fills a directory at a destination.            *)
Make(path) ==
  /\ \/ dest[path] = Absent /\ dest' = [dest EXCEPT ![path] = Empty]
     \/ dest[path] \in {Absent, Empty} /\ dest' = [dest EXCEPT ![path] = Occupied]
  /\ UNCHANGED <<world, pc, at, reading, files>>

-----------------------------------------------------------------------------
Init ==
  /\ cast \in Casts
  /\ source = [f \in Sources |-> Original] /\ stamp = [f \in Sources |-> 0]
  /\ dest = [path \in Paths |-> Absent] /\ edits = 0
  /\ pc = [p \in Operations |-> "gate"] /\ at = [p \in Operations |-> 1]
  /\ preflight = [p \in Operations |-> <<>>] /\ opened = [p \in Operations |-> 0]
  /\ got = [p \in Operations |-> <<>>] /\ scratch = [p \in Operations |-> <<>>]
  /\ staged = [p \in Operations |-> <<>>] /\ left = [p \in Operations |-> {}]

Step(p) ==
  \/ Gate(p) \/ MakeScratch(p) \/ Read(p) \/ VerifyCopy(p) \/ Preflight(p)
  \/ MakeStaging(p) \/ Open(p) \/ Close(p) \/ WriteFixture(p) \/ Validate(p)
  \/ Rename(p) \/ Clean(p) \/ Error(p) \/ Interrupt(p) \/ Kill(p)

Next ==
  /\ UNCHANGED cast
  /\ \/ UNCHANGED world /\ \E p \in Operations : Step(p)
     \/ \E f \in Sources, content \in Contents : Edit(f, content)
     \/ \E path \in Paths : Make(path)

Spec == Init /\ [][Next]_vars

-----------------------------------------------------------------------------
(* Jobs as callers can state them, over files of such chunks: a bundle or  *)
(* a collection of fixtures may be empty, a migration has one artifact.    *)
JobsAreWellFormed(Chunks) ==
  /\ MaxEdits \in Nat /\ Original \in Contents /\ Contents \subseteq Seq(Chunks)
  /\ \A c \in Casts : \A p \in DOMAIN c :
       /\ p \notin {Absent, Empty, Occupied}
       /\ c[p].kind \in Kinds /\ c[p].target \in Paths
       /\ c[p].files \in Seq(IF c[p].kind = "fixtures" THEN Seq(Chunks) ELSE Sources)
       /\ c[p].kind = "migration" => Len(c[p].files) = 1

TypeOK ==
  /\ cast \in Casts
  /\ source \in [Sources -> Contents] /\ stamp \in [Sources -> 0..MaxEdits]
  /\ dest \in [Paths -> {Absent, Empty, Occupied} \cup Operations]
  /\ \A p \in Operations :
       /\ at[p] \in Files(p) \cup {1}
       /\ Len(preflight[p]) <= Len(cast[p].files)
       /\ Len(staged[p]) <= Len(cast[p].files)
       /\ left[p] \subseteq {"scratch", "staging"}
  /\ edits \in 0..MaxEdits

(* A directory at a destination is complete, and its files are the ones    *)
(* that the bundle, the fixtures or the descriptor declared, whatever was  *)
(* edited meanwhile and whoever failed or was killed.                      *)
PublishedAsDeclared ==
  \A path \in Paths : dest[path] \in Operations =>
    LET p == dest[path] IN
      /\ Len(staged[p]) = Len(cast[p].files)
      /\ \A i \in Files(p) :
           cast[p].declared[i] # NoDigest => staged[p][i] = cast[p].declared[i]

(* Of several publications at one destination one reports success, and it  *)
(* is the one that is there: neither the gate nor the rename may be passed *)
(* twice.                                                                  *)
ReturnedIsThere ==
  \A p \in Operations : pc[p] = "returned" => dest[Target(p)] = p

(* docs/phase3-architecture.md:541: a failure removes what was staged and  *)
(* leaves the destination without it.                                      *)
RaisedLeavesNothing ==
  \A p \in Operations : pc[p] = "raised" =>
    left[p] = {} /\ dest[Target(p)] # p

(* What is at a destination, an empty directory apart, is never replaced.  *)
KeepsOccupied ==
  \A path \in Paths : dest[path] \notin {Absent, Empty} => dest'[path] = dest[path]
OccupiedIsKept == [][KeepsOccupied]_vars

(* What appears at a destination is whole, or nothing does.                *)
ExportIsWhole == TypeOK /\ PublishedAsDeclared /\ ReturnedIsThere /\ RaisedLeavesNothing
=============================================================================
