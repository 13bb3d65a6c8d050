SPECIFICATION MinerSpec
CONSTANTS
  ErraticConfig <- MCErraticConfig
  SteadyConfig <- MCSteadyConfig
  Configs <- MCConfigs
  MaxPerTick = 1
  Suggestions = {1, 4}
  Rates = {2, 9, 21}
  Slack = 40
PROPERTIES
  RetargetsAgreeWithWork
  Rests
CHECK_DEADLOCK FALSE
