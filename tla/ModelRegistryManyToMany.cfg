SPECIFICATION Spec
CONSTANTS
  p1 = p1
  p2 = p2
  x = x
  None = None
  Requests = {p1, p2}
  OldModels = 2
  MaxModels = 2
  MaxFields = 2
  MaxOrders = 1
  Codes = {x}
  Kinds = {"scalar", "many_to_one", "one_to_many", "many_to_many"}
  Statuses = {"published", "disabled"}
  MaxFaults = 0
CHECK_DEADLOCK FALSE
INVARIANT
  BuiltModelsAreServed
