SPECIFICATION Spec
CONSTANTS
  a2 = a2  a3 = a3  a4 = a4
  c1 = c1  c2 = c2  c3 = c3
  daemon = daemon  cli = cli
  star = star
  Approval = {a1, a2, a3, a4}
  Filed = {a1}
  Call = {c1, c2, c3}
  Process = {daemon}
  ProcOf <- MCOneProcess
  Grant <- MCGrant
  Ask <- MCCapabilityAsk
  AnyValue = star
  NoScope = NoScope
  None = None
  MaxTime = 0
  MaxFaults = 0
  AlwaysHuman = {}
  Governed = {"open_pr", "create_repo", "launch_ads"}
  Enabled = {}
  StandingOnly = {}
  Gated = {}
INVARIANT OneOffAuthorizesOnce
CHECK_DEADLOCK FALSE
