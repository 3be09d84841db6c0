SPECIFICATION FairSpec
CONSTANTS
  Subs <- MCSubs
  Platforms <- MCPlatforms
  Platform <- OwnPlatform
  TradeSubs = {1}
  Interval <- MCInterval
  Pauses = {1}
  Cooldown = 1
  Alerter = TRUE
  MaxRestarts = 0
  MaxLate = 0
PROPERTY HeartbeatsContinue
