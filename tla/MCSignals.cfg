SPECIFICATION FairSpec
CONSTANTS
  daemon = daemon
  caller = caller
  s1 = s1
  s2 = s2
  Daemon <- daemon
  Requester <- callers
  MayCall <- calls
  Subject <- subjects
  Worlds <- worlds
  Policies <- policies
  Threshold = 1
  MaxStamp <- once
  MaxResends = 1
  MaxFaults = 1
INVARIANTS
  TypeOK
  OneRunPerSignal
  OneOpportunityPerIssue
  NoRunIsForgotten
PROPERTIES
  EverySignalIsTriaged
CHECK_DEADLOCK FALSE
