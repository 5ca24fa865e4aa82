CONSTANTS
  MaxNodes = 1
  Streams <- MCStreams
  MaxFaults = 1
SPECIFICATION FairSpec
CHECK_DEADLOCK FALSE
INVARIANTS
  TypeOK
  PersisterAccountsForAll
  ConsumersAgree
  ToldTheTruth
PROPERTIES
  EveryReaderEnds
  WritesAreLicensed
