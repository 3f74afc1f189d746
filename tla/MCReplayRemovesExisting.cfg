\* One replay artifact for a path that exists; one failing system call.
SPECIFICATION Spec
CONSTANTS
  Casts <- OneReplay
  Paths = {"schedule", "result", "replay"}
  MayExist = {"replay"}
  MaxFaults = 1
  Absent = Absent
  Other = Other
PROPERTY
  ExistingIsPreserved
\* Operations end.
CHECK_DEADLOCK FALSE
