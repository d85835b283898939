SPECIFICATION Spec
CONSTANTS
  NoThread = none
  EmptyResult = empty
  NoError = noError
  none = none
  noError = noError
  empty = empty
  found = found
  crash = crash
  t1 = t1
  t2 = t2
  keyA = keyA
  keyB = keyB
  Results <- ResultObjects
  ErrorTypes <- ErrorType
  Threads <- OneThread
  Keys <- TwoKeys
  Requests <- FanOutRequests
  Routes <- FanOut
  AttemptLimits = {1, 2}
  MaxEvents <- Seven
INVARIANTS
  RowCoherent
PROPERTIES
  FollowsLifecycle
