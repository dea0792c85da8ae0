\* A command ends.
CHECK_DEADLOCK FALSE
SPECIFICATION Spec
CONSTANTS
  s1 = s1
  n1 = n1
  n2 = n2
  n3 = n3
  o1 = o1
  o2 = o2
  p1 = p1
  p2 = p2
  d1 = d1
  r1 = r1
  r2 = r2
  v1 = v1
  v2 = v2
  c1 = c1
  c2 = c2
  a1 = a1
  None = None
  Subnets <- MCSubnets
  Nodes <- MCNodes
  Operators <- MCOperators
  Providers <- MCProviders
  Dcs <- MCDcs
  Regions <- MCRegions
  Versions <- MCVersions
  ChipIds <- MCChips
  Admins <- MCAdmins
  Configs <- MCConfigs
  Histories <- MCHistories
  Vouched = {c1}
  Slots = 2
INVARIANTS
  TypeOK
  CleanReportWasTrue
  
  UnelectedIsReal
PROPERTY
  ReportEnds
