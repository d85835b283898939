SPECIFICATION Spec
CONSTANTS
  t1 = t1
  t2 = t2
  ocr = ocr
  depth = depth
  morning = morning
  evening = evening
  torn = torn
  none = none
  status = status
  Unversioned = none
  StatusOnly = status
  Agents <- BothAgents
  Contents <- Valid
  Broken <- Torn
  Subscribed <- EverySubscriber
  Enabled <- OneEnabled
  Threads <- TwoThreads
  MaxEdits = 1
  MaxReports = 1
SYMMETRY Symmetry
INVARIANTS
  AgentsWereRouted
  CalmVersionsExact
  CalmRequestsHonoured
