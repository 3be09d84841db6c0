SPECIFICATION FairSpec
CONSTANTS
  Subs <- MCSubs
  ExternalIds <- MCIds
  Platforms <- MCPlatforms
  Platform <- TwoPlatforms
  Malformed <- MCMalformed
  InitialLimit = 1
  CatchupLimit = 2
  UploadLimit = 2
  PollSeconds = 2
  MaxRetryDelay = 4
  MaxLost = 1
  MaxCrashes = 1
INVARIANTS TypeOK NothingLost DeadLettersDeserved
PROPERTY OutboxDrains
