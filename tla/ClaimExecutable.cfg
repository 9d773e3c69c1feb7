SPECIFICATION Spec
CONSTANTS
  Pid = {p1}
  NoPid = NoPid
  Image = {i1, i2}
  NoImage = NoImage
  Unhashed = Unhashed
  TTL = 1
  Dwell = 1
  AllowAboveNormal = FALSE
  Supported = TRUE
  PartialWrites = FALSE
  StartClasses = {"Normal"}
  Requests = {"Eco"}
  InFlight = 1
PROPERTY SampleSeesTheExecutable
