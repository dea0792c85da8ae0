CONSTANTS
  Names = {n1}
  Payloads = {p1}
  Pids = {1, 2}
  Hosts = {mainnet}
  Mainnet = mainnet
  NoEntry = NoEntry
  NoOutcome = NoOutcome
  Others = Others
  ChipIds = {}
  Genuine = {}
  Lines = 1
  LineOf <- NoLineOf
  c1 = c1
  Procs = {a, b}
  Commands = {"apply", "status"}
  MaxLate = 1
SYMMETRY ProcSymmetry
SPECIFICATION Spec
INVARIANTS
  TerminalIsTrue
  
