SPECIFICATION Spec
CONSTANTS
  r1 = r1
  Run <- oneRun
  Requests <- anyWork
  RepoBefore <- anyRepo
  MaxChanged = 2
  AllowMissingTests = TRUE
  Enabled <- toPush
  HasToken = TRUE
  HasOwner = TRUE
  MaxFaults = 1
  MaxGrants = 2
INVARIANTS
  TypeOK
  RefusedStaysHome
  ProposedMeansReviewed
  FeatureShipsWhatWasTested
  StatusTellsOutcome
PROPERTIES
  WorkIsKept
CHECK_DEADLOCK FALSE
