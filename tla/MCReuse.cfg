SPECIFICATION Spec
CONSTANTS
  Pid = {p1}
  NoPid = NoPid
  Image = {i1, i2}
  NoImage = NoImage
  Unhashed = Unhashed
  TTL = 0
  Dwell = 1
  AllowAboveNormal = FALSE
  Supported = TRUE
  PartialWrites = TRUE
  StartClasses = {"Normal"}
  Requests = {"Eco", "Responsive"}
  InFlight = 2
INVARIANTS ArmedOnlyWhileActive ContractMatchesTransitions
PROPERTY FollowsLadder
