SPECIFICATION FairSpec
CONSTANTS
  p1 = p1
  p2 = p2
  x = x
  None = None
  Requests = {p1, p2}
  OldModels = 1
  MaxModels = 2
  MaxFields = 2
  MaxOrders = 3
  Codes = {x}
  Kinds = {"many_to_one", "one_to_many", "many_to_many"}
  Statuses = {"published", "disabled"}
  MaxFaults = 1
CHECK_DEADLOCK FALSE
INVARIANTS
  TypeOK
  MetadataMatchesSchema
  RegistryCurrentUnlessOvertaken
  RecordsReachTheirTables
PROPERTIES
  VerdictsAreTrue
  EveryRequestEnds
