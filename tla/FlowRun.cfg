SPECIFICATION FairSpec
CONSTANTS
  Plans <- MCPlans
  Cancellers = {c1}
  Resumers = {r1, r2}
  MaxFailures = 1
  MaxCrashes = 1
INVARIANTS TypeOK WaitingHasCheckpoint SucceededCoversPlan ClosedHasTerminal StopsAfterCancel
PROPERTIES EndedShellIsFinal WritesAreLicensed RunSettles
CHECK_DEADLOCK FALSE
