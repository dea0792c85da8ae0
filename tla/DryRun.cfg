\* A command ends.
CHECK_DEADLOCK FALSE
SPECIFICATION Spec
CONSTANTS
  s1 = s1
  nns = nns
  n1 = n1
  n2 = n2
  n3 = n3
  o1 = o1
  o2 = o2
  p1 = p1
  p2 = p2
  d1 = d1
  d2 = d2
  v1 = v1
  v2 = v2
  h1 = h1
  seed_s = seed_s
  seed_n = seed_n
  seed_o = seed_o
  seed_d = seed_d
  seed_v = seed_v
  None = None
  Subnets <- MCSubnets
  Nodes <- MCNodes
  Operators <- MCOperators
  Providers <- MCProviders
  Dcs <- MCDcs
  Versions <- MCVersions
  HostVersions <- MCHostVersions
  System = nns
  SeedSubnet = seed_s
  SeedNode = seed_n
  SeedOperator = seed_o
  SeedDc = seed_d
  SeedVersion = seed_v
  Actions <- MCActions
  Histories <- MCHistories
INVARIANTS
  TypeOK
  SoundTargetIsMirrored
  BatchIsAccepted
  OkMeansResolved
  CallsRunOnce
  NoServerLeftBehind
PROPERTY
  Terminates
