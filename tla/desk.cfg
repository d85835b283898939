SPECIFICATION FairDeckSpec
CONSTANTS
  none = none
  free = free
  c1 = c1
  c2 = c2
  c3 = c3
  NoCase = none
  NoClient = free
  Clients <- ThreeClients
  MaxWorkers = 2
  MaxFaults = 1
  Requests <- MixedRequests
  StoredClaims = 1
  MaxRequests = 2
INVARIANTS
  SlotsAccounted
  AnswersTruthful
  UnfiledExplained
  FiledWhereChanged
  ReportsReadable
PROPERTY SlotsComeBack
