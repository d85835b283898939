SPECIFICATION Spec
CONSTANTS
  Server = Server
  tool = tool
  t1 = t1
  t2 = t2
  ada = ada
  bob = bob
  byAda = byAda
  byBob = byBob
  bad = bad
  risky = risky
  Clis <- OneTool
  Handles <- TwoHandles
  HandleOf <- Authors
  Mentions <- BobNamesAda
  Threads <- TwoThreads
  Items <- AllItems
  Unsafe <- Risky
  Malformed <- Bad
  Payloads <- MixedPayloads
  Samples <- DemoData
  Legacies <- OldOrNewStore
  MaxCases = 2
  MaxObservations = 3
  MaxCommands = 3
SYMMETRY Symmetry
CONSTRAINT ThirdCommandEarly
INVARIANTS
  Auditable
  ScoresCurrent
  BatchesAccount
  ImportsRecorded
  SeedsBounded
