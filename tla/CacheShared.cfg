CONSTANTS
  Procs = {p1, p2}
  Releases = {r1, r2}
  ShortTars = {r2}
  InTar <- Tars
  EnvSets <- FewEnvs
  Absent = Absent
  Partial = Partial
  Corrupt = Corrupt
SPECIFICATION Spec
INVARIANTS
  TypeOK
  CachedIsPinned
  UsesPinned
  FetchesOnlyWhatIsMissing
  ReturnsClean
SYMMETRY Symmetry
