SPECIFICATION Spec
CONSTANTS
  Subs <- MCSubs
  ExternalIds <- MCManyIds
  Platforms <- MCPlatforms
  Platform <- OnePlatform
  Malformed <- MCMalformedX
  InitialLimit = 1
  CatchupLimit = 2
  UploadLimit = 2
  PollSeconds = 2
  MaxRetryDelay = 4
  MaxLost = 0
  MaxCrashes = 1
INVARIANTS OldestFirst
PROPERTIES NeverRequeued HandoffSpec
