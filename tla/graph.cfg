SPECIFICATION ViewerSpec
CONSTANTS
  ann = ann
  ben = ben
  cal = cal
  dan = dan
  reader1 = reader1
  blank = blank
  Actors <- FourActors
  Cases <- TwoCases
  Fields <- Bio
  Blank = blank
  Payloads <- MixedPayloads
  MaxObservations = 4
  Readers <- OneReader
  HandleOf <- Handle
  Questions <- GraphQuestions
INVARIANTS
  EntriesJustified
  OrderlyExact
  PathsShortest
  CommunitiesExact
