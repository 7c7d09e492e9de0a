SPECIFICATION Spec

CONSTANTS
  Approval = {a1, a2}
  Action = {x1}
  NoApproval = none
  MaxStalls = 1
  d1 = d1
  d2 = d2
  Doc = {d1, d2}
  MaxWrites <- Edits
  s1 = s1
  s2 = s2
  Search = {s1, s2}
  Kinds <- Queries
  NoFile = none
  HasSqlite = {TRUE, FALSE}
  Recorder = {owner}
  Scanner = {scan}
  Engine = engine
  MaxPatches = 1
  RecordsRuns = {TRUE, FALSE}
  Memories <- Logs
  c1 = c1
  q1 = q1
  q2 = q2
  o1 = o1
  o2 = o2
  r1 = r1
  r2 = r2
  Client = {c1}
  Project = {q1, q2}
  Deal = {o1, o2}
  Pass = {r1, r2}
  Services <- Offers
  Companies <- Offices
  MaxSelected = 2
  Verdicts = {"won"}
  Rewritten = {"brand"}
  MaxEdits = 1

INVARIANTS
  TypeOK
  SearchTellsTheTruth
  LedgerAndRunAgree
  BooksTellTheTruth

PROPERTIES
  ScreenCatchesUp

CHECK_DEADLOCK FALSE
