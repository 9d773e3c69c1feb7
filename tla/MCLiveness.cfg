SPECIFICATION FairSpec
CONSTANTS
  Pid = {p1}
  NoPid = NoPid
  Image = {i1}
  NoImage = NoImage
  Unhashed = Unhashed
  TTL = 0
  Dwell = 1
  AllowAboveNormal = FALSE
  Supported = TRUE
  PartialWrites = FALSE
  StartClasses = {"Normal"}
  Requests = {"Eco"}
  InFlight = 1
PROPERTIES ExitedTargetLosesActive StaleReceiptLosesActive PausedTargetIsReleased
