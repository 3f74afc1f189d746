\* A published, altered or forged schedule is replayed.
SPECIFICATION ReplaySpec
CONSTANTS
  Actors <- MCActors
  Rank <- MCRank
  Seeds <- MCSeeds
  MaxSelections = 4
  MaxClock = 2
  Digest <- MCDigest
  Scenarios <- MCReplayScenarios
  ScheduleCapacity = 4
  NoRun = NoRun
  NoFailure = NoFailure
  States <- MCStates
  InitialState <- MCInitialState
  Controls <- MCControls
  InitialControl <- MCInitialControl
  Terminal <- MCTerminal
  Steps <- MCSteps
  Route <- MCRoute
  Post <- MCPost
  Advance <- MCAdvance
  Artifacts <- MCArtifacts
  Emits <- MCEmits
  Raises <- MCRaises
  NoSchedule = NoSchedule
  NoStep = NoStep
  RoutingLimit = 8
  NoFlow = NoFlow
  NoScope = NoScope
  Undefined = Undefined
INVARIANTS
  GenuineReplayAccepted
  AcceptedReplayIsGenuine
  NothingUnverifiedCommits
