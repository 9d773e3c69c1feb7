SPECIFICATION Spec
CONSTANTS
  Pid = {p1, p2}
  NoPid = NoPid
  Host = Host
  NoReading = NoReading
  Guard = 82
  Release = 76
  FullCapacity = 2
  StartCapacity = 1
  Slew = 1
  EcoEnter = 0
  EcoExit = 2
  ResponsiveEnter = 2
  ResponsiveExit = 1
  EcoRamEnter = 92
  Dwell = 2
  AllowAboveNormal = FALSE
  Budgets <- SmallBudgets
  Temps = {NoReading, 76, 82}
  Rams = {80, 90}
  Modes = {"Performance"}
SYMMETRY PidSymmetry
INVARIANTS TypeOK AskedIsApplied
PROPERTIES HotIsProtected EcoReentryIsSlow
