CONSTANTS
  Names = {n1}
  Payloads = {p1}
  Pids = {1, 2}
  Hosts = {mainnet}
  Mainnet = mainnet
  NoEntry = NoEntry
  NoOutcome = NoOutcome
  Others = Others
  ChipIds = {c1, c2}
  Genuine = {c1}
  Lines = 3
  LineOf <- MCLineOf
  c1 = c1
  Procs = {a}
  Commands = {"apply", "status", "reconcile"}
  MaxLate = 1
SPECIFICATION FairSpec
INVARIANTS
  ChipsAreGenuine
PROPERTIES
  
  
  StatusSettles
