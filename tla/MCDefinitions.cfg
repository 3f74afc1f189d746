\* Layouts of a root and up to two modules; all call graphs of three
\* subflows; nested expressions in every place; documents of three
\* resources under every set of inputs, replayed under every other; suites
\* whose budgets two or three of the cases exhaust.
SPECIFICATION DefinitionsSpec
CONSTANTS
  Layouts <- MCLayouts
  MaxModules = 2
  MaxFile = 2
  MaxAggregate = 4
  Programs <- MCPrograms
  Root = "$"
  MaxDepth = 2
  Derivations <- MCDerivations
  Documents <- MCDocuments
  InputSets <- MCInputSets
  MaxHits = 2
  Seeds = {1, 2, 3}
  Worlds <- MCWorlds
  Plans <- MCPlans
  Sweeps <- MCSweeps
  MaxCases = 3
  MaxInput = 3
  MaxCaseSelections = 2
  MaxSelections = 4
  MaxRetained = 3
INVARIANTS
  CompositionIsFaithful
  FrontEndIsSound
  PreparationIsFaithful
  SuiteIsGenuine
PROPERTIES
  CompilationEnds
\* Loading, compilation, judgement, preparation and suites end.
CHECK_DEADLOCK FALSE
