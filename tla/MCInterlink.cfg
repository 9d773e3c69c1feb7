SPECIFICATION Spec
CONSTANTS
  Pid = {p1, p2}
  NoPid = NoPid
  Image = {i1}
  NoImage = NoImage
  Unhashed = Unhashed
  TTL = 0
  Dwell = 1
  AllowAboveNormal = FALSE
  Supported = TRUE
  PartialWrites = TRUE
  StartClasses = {"Normal"}
  Requests = {"Eco"}
  InFlight = 1
SYMMETRY PidSymmetry
INVARIANTS TypeOK OneScope GovernedTargetWasVerified GovernorFollowsTarget
