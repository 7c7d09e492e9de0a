SPECIFICATION FairSpec
CONSTANTS
  s1 = s1
  s2 = s2
  s3 = s3
  c1 = c1
  c2 = c2
  c3 = c3
  c4 = c4
  o1 = o1
  k1 = k1
  k2 = k2
  Writer <- writers
  Session = {s1, s2, s3}
  Call = {c1, c2, c3, c4}
  SessionOf <- sessionOf
  Owner = {o1}
  Completer = {k1, k2}
  MaxLogins = 2
  MaxPairs = 3
  MaxIssued = 3
  Chains <- chains
  EnvPair = 1
  Casts <- casts
  MaxFaults = 1
INVARIANTS
  CredentialSurvives
  RedirectIsServed
PROPERTY EveryCallSettles
CHECK_DEADLOCK FALSE
