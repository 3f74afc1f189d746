\* An impact report over a path that is cut at the bound of the search.
SPECIFICATION ReferencesSpec
CONSTANTS
  Literals <- MCLiterals
  Fields = {"f"}
  Places = 1
  MaxStack = 2
  MaxSteps = 5
  Axes <- MCAxes
  Comparands <- MCComparands
  Inputs = {1, 7}
  MaxDimensions = 3
  MaxRaw = 7
  MaxRetained = 4
  RoutingLimit = 9
  Truth <- MCTruth
  CountOf <- MCCount
  Binding <- MCBinding
  Effect <- MCEffect
  NoFlow = NoFlow
  NoScope = NoScope
  Undefined = Undefined
  Pairs <- MCComparisons
  MaxChanges = 7
  MaxNodes = 37
  MaxEdges = 40
  MaxPath = 10
  MaxRecords = 48
INVARIANT
  FindingsAreClassified
CHECK_DEADLOCK FALSE
