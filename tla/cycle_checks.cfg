SPECIFICATION FairSpec
CONSTANTS
  Subs <- MCThreeSubs
  Platforms <- MCOnePlatform
  Platform <- SamePlatform
  TradeSubs = {1}
  Interval <- MCInterval
  Pauses = {1}
  Cooldown = 1
  Alerter = TRUE
  MaxRestarts = 0
  MaxLate = 0
PROPERTIES EachSubscriptionChecked HeartbeatsUnlessNtfyFails
