SPECIFICATION Spec
CONSTANTS
  MinDwell = 2
  EnoughForAbstain = 1
  MaxConcurrency = 3
  MinSamples = 3
  Interval = 2
  HomeostasisSamples = 1
  AllowBounded = TRUE
  MaxGain = 2
  Step = 1
  Tunings = {1}
  Readings <- SomeReadings
  Stages <- SomeStages
INVARIANT HoldEndsWithDwell
