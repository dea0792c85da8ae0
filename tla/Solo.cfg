CONSTANTS
  Names = {n1}
  Payloads = {p1, p2}
  Pids = {1, 2}
  Hosts = {mainnet}
  Mainnet = mainnet
  NoEntry = NoEntry
  NoOutcome = NoOutcome
  Others = Others
  ChipIds = {}
  Genuine = {}
  Lines = 1
  LineOf <- NoLineOf
  c1 = c1
  Procs = {a}
  Commands = {"apply", "import", "status"}
  MaxLate = 1
SPECIFICATION Spec
INVARIANTS
  TypeOK
  RecordedWasSubmitted
  

  
  
