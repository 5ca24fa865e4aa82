SPECIFICATION Spec
CONSTANTS
  Plans <- MCPlans
  Cancellers = {c1}
  Resumers = {}
  MaxFailures = 0
  MaxCrashes = 0
PROPERTIES OnlyAllowedTransitions
CHECK_DEADLOCK FALSE
