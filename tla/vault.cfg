SPECIFICATION DepthSpec
CONSTANTS
  desk1 = desk1
  desk2 = desk2
  cli = cli
  server = server
  console = console
  nobody = nobody
  noImage = noImage
  noKey = noKey
  emptyKey = emptyKey
  photo = photo
  scan = scan
  Nobody = nobody
  NoImage = noImage
  NoKey = noKey
  EmptyKey = emptyKey
  Clients <- ThreeClients
  Processes <- BothProcesses
  ProcessOf <- Hosts
  Images <- OneImage
  MaxPackages = 1
  MaxFaults = 1
  Server = server
  MaxRuns = 1
SYMMETRY Symmetry
INVARIANTS
  ExportsVerifiable
  PackagesCoverReport
  SerializedPerProcess
  HalfWrittenNeedsFault
  DerivativesPacked
PROPERTY KeyNeverReplaced
