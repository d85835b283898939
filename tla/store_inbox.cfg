SPECIFICATION Spec
CONSTANTS
  Server = Server
  tool = tool
  t1 = t1
  t2 = t2
  ada = ada
  bob = bob
  byAda = byAda
  byBob = byBob
  bad = bad
  risky = risky
  Clis <- NoTool
  Handles <- TwoHandles
  HandleOf <- Authors
  Mentions <- BobNamesAda
  Threads <- OneThread
  Items <- TwoItems
  Unsafe <- NoItem
  Malformed <- NoItem
  Payloads <- Pair
  Samples <- NoDemoData
  Legacies <- NewStore
  MaxCases = 2
  MaxObservations = 2
  MaxCommands = 1
INVARIANT InboxOnlyUnassigned
