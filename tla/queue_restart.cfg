SPECIFICATION Spec
CONSTANTS
  NoThread = none
  EmptyResult = empty
  NoError = noError
  none = none
  noError = noError
  empty = empty
  found = found
  crash = crash
  t1 = t1
  t2 = t2
  keyA = keyA
  keyB = keyB
  Results <- ResultObjects
  ErrorTypes <- ErrorType
  Threads <- TwoThreads
  Keys <- OneKey
  Requests <- SingleRequests
  Routes <- Single
  AttemptLimits = {1, 2}
  MaxEvents <- Five
PROPERTY FinalNeverRestarted
