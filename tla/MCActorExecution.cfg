\* The coordinator over 30 scenarios and every sequence of selections.
SPECIFICATION FairSpec
CONSTANTS
  Actors <- MCActors
  Rank <- MCRank
  Seeds <- MCSeeds
  MaxSelections = 5
  MaxClock = 2
  Digest <- MCDigest
  Scenarios <- MCScenarios
  ScheduleCapacity = 4
  NoFailure = NoFailure
  States <- MCStates
  InitialState <- MCInitialState
  Controls <- MCControls
  InitialControl <- MCInitialControl
  Terminal <- MCTerminal
  Steps <- MCSteps
  Route <- MCRoute
  Post <- MCPost
  Advance <- MCAdvance
  Artifacts <- MCArtifacts
  Emits <- MCEmits
  Raises <- MCRaises
  NoSchedule = NoSchedule
  NoStep = NoStep
  RoutingLimit = 8
  NoFlow = NoFlow
  NoScope = NoScope
  Undefined = Undefined
INVARIANTS
  TypeOK
  RunnerMatchesHistory
  NothingFailedCommits
  PositionsFollowHistory
  EvidenceIsSound
  SchedulesAreWellFormed
PROPERTIES
  SerialSpec
  Termination
