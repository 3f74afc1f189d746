------------------------------ MODULE MCEvidence ------------------------------
(***************************************************************************)
(* What leaves the program: rows in a database, bundles handed to an       *)
(* adapter, directories exported, artifacts migrated.  The four are        *)
(* independent; a behaviour is one of one of them, and the variables of    *)
(* the others rest.                                                        *)
(***************************************************************************)
EXTENDS Materializer

CONSTANTS
  Plans, MaxWorkers, MaxWindow, Limits, Size,
  Casts, Sources, Contents, Original, Paths, MaxEdits, NoDigest,
  Absent, Empty, Occupied,
  Subjects, Knowledge, Targets, Built,
  Chunks       \* what files are read by

VARIABLES
  component,
  plan, workers, window, limit, phase, exhausted, taken, call, held,
  receipts, aggregate, error,
  cast, source, stamp, dest, step, at, preflight, opened, got, scratch,
  staged, left, edits,
  subject, local, capabilities, migration, submitted

Publication == INSTANCE AdapterPublication
Export == INSTANCE EvidenceExport WITH pc <- step
Migration == INSTANCE Compatibility WITH report <- capabilities, plan <- migration

rows == <<result, db, pc, inserted, attempts, report>>
publications ==
  <<plan, workers, window, limit, phase, exhausted, taken, call, held,
    receipts, aggregate, error>>
exports ==
  <<cast, source, stamp, dest, step, at, preflight, opened, got, scratch,
    staged, left, edits>>
migrations == <<subject, local, capabilities, migration, submitted>>

-----------------------------------------------------------------------------
(* Rows in common, in either order, a row that is refused, rows without a  *)
(* key, rows that leave it to the database, and nothing to do.             *)
MCGood(k) == Row("none", k)
MCResults ==
  {<<MCGood(1), MCGood(2), MCGood(3)>>, <<MCGood(3), Row("other", NoKey), MCGood(1)>>,
   <<MCGood(4), MCGood(4)>>, <<MCGood(5), Row("column", 6)>>, <<MCGood(5), Row("none", NoKey)>>,
   <<Row("other", NoKey)>>, <<Row("none", NoKey)>>,
   <<Row("none", Null), Row("none", Null)>>, <<Row("none", Null), MCGood(3)>>}

(* All plans of up to three bundles, and plans of five in which one bundle *)
(* may be anything, so that the window slides past its first position.     *)
Delivered == {"published", "refused"}
Offered == Delivered \cup {"oversized", "wrongtype", "escapes", "notbundle", "broken"}
OneOddBundle ==
  {[i \in 1..5 |-> IF i = odd THEN kind ELSE "published"] : odd \in 1..5, kind \in Offered}
MCPlans == UNION {[1..n -> Offered] : n \in 0..3} \cup OneOddBundle
MCSize == [kind \in Delivered |-> IF kind = "published" THEN 2 ELSE 1]

(* Files of up to two chunks.  Every kind of job by itself, over two       *)
(* files, while they are edited; and pairs of jobs for one destination.    *)
MCOriginal == <<"a", "a">>
MCContents == {<<"a", "a">>, <<"b", "b">>, <<"a">>}
Job(kind, inputs, declared, most) ==
  [kind |-> kind, target |-> "evidence", files |-> inputs, declared |-> declared, limit |-> most]
Bundle(most) == Job("bundle", <<"f", "g">>, <<MCOriginal, MCOriginal>>, most)
OneFile == Job("bundle", <<"f">>, <<MCOriginal>>, 4)
Fixtures(most) == Job("fixtures", <<<<"a", "a">>, <<"b">>>>, <<<<"a", "a">>, <<"b">>>>, most)
Migrated(digest) == Job("migration", <<"f">>, <<digest>>, 4)
MCCasts ==
  {<<Bundle(4)>>, <<Bundle(3)>>, <<Fixtures(2)>>, <<Migrated(MCOriginal)>>,
   <<OneFile, Fixtures(4)>>, <<Fixtures(4), Migrated(NoDigest)>>,
   <<Job("bundle", <<>>, <<>>, 0)>>, <<Job("fixtures", <<>>, <<>>, 0)>>}

(* The tables of the code, which are the same whatever callers ask.        *)
Tables == INSTANCE Compatibility
            WITH report <- capabilities, plan <- migration,
                 Subjects <- {}, Knowledge <- {}, Targets <- {}, Built <- {}

(* Artifacts of every rule, of a major version no rule knows and of an     *)
(* unknown schema; callers who miss or mistake one coordinate.             *)
MCSubjects ==
  {r.subject : r \in Tables!Rules}
    \cup {Tables!Subject("suite", "suite.manifest/1", 1), Tables!Subject("suite", "other/1", 2)}
Required == {Tables!Requirements[i] : i \in DOMAIN Tables!Requirements}
MCKnowledge ==
  {[n \in Required |-> IF n = p THEN v ELSE Tables!Same] : p \in Required, v \in Tables!Locals}
MCBuilt ==
  {<<Tables!Wrapper("scenario.result/1", "wrap-v1-result")>>,
   <<Tables!Wrapper("suite.manifest/1", "wrap-v1-result")>>,
   <<[id |-> "unwrap", source |-> "scenario.result/1", target |-> "other/1"],
     Tables!Wrapper("other/1", "wrap-v1-result")>>}

(* The jobs, the options and what is known are such as the components are  *)
(* made for.                                                               *)
ASSUME JobsAssumption == Export!JobsAreWellFormed(Chunks)
ASSUME OptionsAssumption == Publication!OptionsAreWellFormed
ASSUME KnowledgeAssumption == Migration!KnowledgeIsWellFormed

-----------------------------------------------------------------------------
Resting == "resting"
RowsRest == Init /\ result = [c \in Callers |-> CHOOSE r \in Results : TRUE]
PublicationsRest ==
  /\ plan = Resting /\ workers = Resting /\ window = Resting
  /\ limit = Resting /\ phase = Resting /\ exhausted = Resting
  /\ taken = Resting /\ call = Resting /\ held = Resting
  /\ receipts = Resting /\ aggregate = Resting /\ error = Resting
ExportsRest ==
  /\ cast = Resting /\ source = Resting /\ stamp = Resting
  /\ dest = Resting /\ step = Resting /\ at = Resting
  /\ preflight = Resting /\ opened = Resting /\ got = Resting
  /\ scratch = Resting /\ staged = Resting /\ left = Resting
  /\ edits = Resting
MigrationsRest ==
  /\ subject = Resting /\ local = Resting /\ capabilities = Resting
  /\ migration = Resting /\ submitted = Resting

EvidenceInit ==
  \/ component = "rows" /\ Init /\ PublicationsRest /\ ExportsRest /\ MigrationsRest
  \/ component = "publication" /\ Publication!Init /\ RowsRest /\ ExportsRest /\ MigrationsRest
  \/ component = "export" /\ Export!Init /\ RowsRest /\ PublicationsRest /\ MigrationsRest
  \/ component = "migration" /\ Migration!Init /\ RowsRest /\ PublicationsRest /\ ExportsRest

EvidenceNext ==
  \/ /\ component = "rows" /\ Next
     /\ UNCHANGED <<component, publications, exports, migrations>>
  \/ /\ component = "publication" /\ Publication!Next
     /\ UNCHANGED <<component, rows, exports, migrations>>
  \/ /\ component = "export" /\ Export!Next
     /\ UNCHANGED <<component, rows, publications, migrations>>
  \/ /\ component = "migration" /\ Migration!Next
     /\ UNCHANGED <<component, rows, publications, exports>>

(* The fairness of AdapterPublication; the others are checked for safety.  *)
EvidenceSpec ==
  /\ EvidenceInit
  /\ [][EvidenceNext]_<<component, rows, publications, exports, migrations>>
  /\ WF_publications(component = "publication" /\ Publication!Caller)
  /\ WF_publications(component = "publication" /\ Publication!Threads)
-----------------------------------------------------------------------------
(* Publication (docs/phase3-architecture.md, 23): receipts and error do not *)
(* depend on the concurrency of the workers, no more than a window is      *)
(* without a receipt, and nothing is published afterwards.                 *)
PublicationIsOrdered == component = "publication" => Publication!PublicationIsOrdered

(* A publication ends, and the receipt it waits for was always asked for.  *)
PublicationsEnd == component = "publication" => Publication!Ends

(* Export: what is at a destination is complete and as declared, the one   *)
(* of several that returned is there, one that raised left nothing, and    *)
(* nothing but an empty directory is ever replaced.                        *)
ExportIsWhole ==
  /\ [](component = "export" => Export!ExportIsWhole)
  /\ [][component = "export" => Export!KeepsOccupied]_exports

(* Migration: the planner's tables and the executor's agree, capabilities  *)
(* imply one another, and learning a coordinate loses none.                *)
PromisesAreKept ==
  /\ [](component = "migration" => Migration!PromisesAreKept)
  /\ [][component = "migration" => Migration!LosesNothing]_migrations
=============================================================================
