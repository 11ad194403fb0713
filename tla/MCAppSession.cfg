SPECIFICATION Spec
CONSTANTS
  Keys = {"splash", "fixlvl", "mixer_ctl_0", "mixer_ctl_1"}
  None = None
  MaxFaults = 3
  Apps = {"app", "sdcard app"}
  Stripped <- MCStripped
  MaxActs = 3
INVARIANTS TypeOK AckedSettingStays StartsWhatWasAsked BadSplashForgotten MixerComplete
PROPERTY IdleBadgeSleeps
CHECK_DEADLOCK FALSE
