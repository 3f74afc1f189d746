\* Whatever is invoked, three times, with one edit in between or before.
SPECIFICATION Spec
CONSTANTS
  Paths <- MCPaths
  Contents <- MCContents
  FilesAtFirst <- MCFiles
  Piped <- MCPiped
  Commands <- MCAll
  Fates <- MCFates
  ScenarioId <- MCScenarioId
  MaxInvocations = 3
  MaxEdits = 1

  
PROPERTY
  EveryInvocationEnds
\* After the last invocation nothing is left to do.
CHECK_DEADLOCK FALSE
