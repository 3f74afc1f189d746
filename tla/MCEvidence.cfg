\* Two callers of the materializer with three attempts each; up to five
\* bundles, two threads and a window of three, with receipts of one or two
\* bytes against bounds that are reached and never reached; two exports at
\* one destination and two edits of their sources; every artifact the
\* compatibility tables know, and two they do not.
SPECIFICATION EvidenceSpec
CONSTANTS
  Callers = {c1, c2}
  Results <- MCResults
  NoKey = NoKey
  Null = Null
  MaxAttempts = 3
  Plans <- MCPlans
  MaxWorkers = 2
  MaxWindow = 3
  Limits = {3, 10}
  Size <- MCSize
  Casts <- MCCasts
  Sources = {"f", "g"}
  Contents <- MCContents
  Original <- MCOriginal
  Paths = {"evidence"}
  MaxEdits = 2
  NoDigest = NoDigest
  Absent = Absent
  Empty = Empty
  Occupied = Occupied
  Subjects <- MCSubjects
  Knowledge <- MCKnowledge
  Targets = {"evidence.bundle/1", "other/1"}
  Built <- MCBuilt
  Chunks = {"a", "b"}
INVARIANTS
  RowsAreMaterializedOnce
  PublicationIsOrdered
PROPERTIES
  PublicationsEnd
  ExportIsWhole
  PromisesAreKept
\* Operations end.
CHECK_DEADLOCK FALSE
