\* A fault before validation in a scenario of Engine 2.
SPECIFICATION DefinitionsSpec
CONSTANTS
  Layouts <- MCLayouts
  MaxModules = 2
  MaxFile = 2
  MaxAggregate = 4
  Programs <- MCPrograms
  Root = "$"
  MaxDepth = 2
  Derivations <- MCDerivations
  Documents <- MCDocuments
  InputSets <- MCInputSets
  MaxHits = 2
  Seeds = {1, 2, 3}
  Worlds <- MCWorlds
  Plans <- MCPlans
  Sweeps <- MCSweeps
  MaxCases = 3
  MaxInput = 3
  MaxCaseSelections = 2
  MaxSelections = 4
  MaxRetained = 3
INVARIANT
  FaultsPrecedeScheduling
CHECK_DEADLOCK FALSE
