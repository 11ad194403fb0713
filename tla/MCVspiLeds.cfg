SPECIFICATION Spec
CONSTANTS
  SpiFaults = {"initialize"}
  I2cFaults = {"lost", "landed"}
  AppPowerCalls = FALSE
INVARIANTS TypeOK OneOwner EinkGetsTheBus RailFollowsUsers SentIsPowered
