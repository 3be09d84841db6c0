SPECIFICATION Spec
CONSTANTS
  Subs <- MCSubs
  Platforms <- MCOnePlatform
  Platform <- SamePlatform
  TradeSubs = {1}
  Interval <- MCInterval
  Pauses = {1, 2}
  Cooldown = 2
  Alerter = TRUE
  MaxRestarts = 1
  MaxLate = 2
INVARIANTS TypeOK NobodyLeftInTheDark
