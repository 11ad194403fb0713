SPECIFICATION Spec
CONSTANTS
  Responses <- MCResponses
  BufSize = 3
  PartSize = 4
  MaxFaults = 2
INVARIANTS TypeOK   OnlyIfAsked
PROPERTIES OtaEnds UpdateIsAtomic
