CONSTANTS
  Envs = {TRUE}
  Limit <- Bounds
  MaxTotal = 3
SPECIFICATION SettingsSpec
INVARIANT EnvNotWritten
CHECK_DEADLOCK FALSE
