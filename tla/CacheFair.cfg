CONSTANTS
  Procs = {p1}
  Releases = {r1}
  ShortTars = {}
  InTar <- Tars
  EnvSets <- SomeEnvs
  Absent = Absent
  Partial = Partial
  Corrupt = Corrupt
SPECIFICATION FairSpec
INVARIANTS FetchesOnlyWhatIsMissing
PROPERTIES CacheFills
