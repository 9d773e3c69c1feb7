SPECIFICATION Spec
CONSTANTS
  MinDwell = 2
  EnoughForAbstain = 1
  MaxConcurrency = 3
  MinSamples = 3
  Interval = 2
  HomeostasisSamples = 1
  AllowBounded = TRUE
  MaxGain = 1
  Step = 1
  Tunings = {1}
  Readings <- SomeReadings
  Stages <- SomeStages
INVARIANTS TypeOK FaultContracts StaleEvidenceIsShortLived
PROPERTIES ReturnToLocalWaits AdaptationIsPaced
