\* The greedy search over three actors under every kind of limit.
SPECIFICATION FairSpec
CONSTANTS
  Order <- MCOrder
  Oracles <- MCOracles
  LimitChoices <- MCLimits
  Repetitions = 3
INVARIANTS
  TypeOK
  EveryEvaluationCounted
  WithheldForAReason
PROPERTIES
  ReductionSpec
  SearchEnds
\* The search stops for good.
CHECK_DEADLOCK FALSE
