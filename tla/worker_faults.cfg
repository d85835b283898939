SPECIFICATION WorkerSpec
CONSTANTS
  NoThread = none
  NoEngine = noEngine
  EmptyResult = empty
  Unconfirmed = unconfirmed
  NoError = noError
  none = none
  noEngine = noEngine
  noError = noError
  empty = empty
  unconfirmed = unconfirmed
  text = text
  crash = crash
  ocr = ocr
  t1 = t1
  t2 = t2
  keyA = keyA
  keyB = keyB
  keyC = keyC
  Results <- ResultObjects
  ErrorTypes <- ErrorType
  Engines <- OcrOnly
  Confirmed <- ConfirmedA
  MaxEvents <- NoEventLimit
  Threads <- TwoThreads
  Keys <- OneKey
  Requests <- OneRequest
  Routes <- OneRoute
  Engine <- AllOcr
  ApiActions <- OperatorActions
  AttemptLimits = {2}
  MaxRequests = 5
  MaxKeys = 1
  MaxFaults = 2
SYMMETRY Symmetry
INVARIANTS
  WorkerTypeOK
  LocksMatchInference
  ReportedRunStored
  TimelineBacked
  OrphansNeedFault
