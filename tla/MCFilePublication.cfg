\* Two operations on the paths of a schedule, a result and a replay
\* artifact; up to two failing system calls in each.
SPECIFICATION Spec
CONSTANTS
  Casts <- MCCasts
  Paths = {"schedule", "result", "replay"}
  MayExist = {"schedule", "result"}
  MaxFaults = 2
  Absent = Absent
  Other = Other
INVARIANTS
  TargetsAreWhole
  RaisedLeavesNothing
PROPERTIES
  PublicationSpec
\* Operations end.
CHECK_DEADLOCK FALSE
