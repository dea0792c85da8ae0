SPECIFICATION Spec
CONSTANTS
  n1 = n1
  n2 = n2
  o1 = o1
  q1 = q1
  d1 = d1
  d2 = d2
  v1 = v1
  v2 = v2
  none = none
  s1 = s1
  Nodes <- MCNodes
  Operators = {o1}
  Providers = {q1}
  Dcs <- MCDcs
  TooLong <- MCTooLong
  Versions <- MCVersions
  Measured <- MCMeasured
  Settings <- MCSettings
  EmptyList = none
  NoRecord = NoRecord
  Registries <- MCRegistries
  MaxMoves = 1
INVARIANTS
  TypeOK
  NoOpChangesNothing
  CleanTakesEffect
  DoneIsFlagged
  SubmittedDeployIsElected
  CleanFailsLoudly
\* A command ends.
CHECK_DEADLOCK FALSE
