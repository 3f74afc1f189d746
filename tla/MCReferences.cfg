\* Expressions of up to five operators on a stack of two; matrices whose
\* bounds are reached from below and exceeded; every flow table from every
\* state; every pair of definitions, traced in any order.
SPECIFICATION ReferencesSpec
CONSTANTS
  Literals <- MCLiterals
  Fields = {"f"}
  Places = 1
  MaxStack = 2
  MaxSteps = 5
  Axes <- MCAxes
  Comparands <- MCComparands
  Inputs = {1, 7}
  MaxDimensions = 3
  MaxRaw = 7
  MaxRetained = 4
  RoutingLimit = 9
  Truth <- MCTruth
  CountOf <- MCCount
  Binding <- MCBinding
  Effect <- MCEffect
  NoFlow = NoFlow
  NoScope = NoScope
  Undefined = Undefined
  Pairs <- MCComparisons
  MaxChanges = 7
  MaxNodes = 37
  MaxEdges = 40
  MaxPath = 10
  MaxRecords = 48
INVARIANTS
  EvaluationIsSound
  MatrixIsExact
  ComparisonIsSound
PROPERTY
  WalksAsEngineOne
\* Evaluations, matrices and comparisons end.
CHECK_DEADLOCK FALSE
