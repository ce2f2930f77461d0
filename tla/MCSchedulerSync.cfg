CONSTANTS
  a = a
  b = b
  home = home
  team = team
  t = t
  u = u
  None = None
  Insts = {a, b}
  Tasks = {t, u}
  Templates = {u}
  Bundles = {home, team}
  BundlesOf <- MCBundlesOf
  Primary <- MCPrimary
  Versions = {"v1", "v2"}
  Files0 <- MCFiles
  Rows0 <- MCRows
  Enabled0 <- MCEnabled
  MaxEdits = 3
  MaxFaults = 1
  SetupOn = {a}
SPECIFICATION FairSpec
CHECK_DEADLOCK FALSE
INVARIANTS
  PlanIsCurrent
PROPERTIES
  ForeignRowsKept
  WantedRowsKept
  FirstChoiceKeepsRows
  Converges
