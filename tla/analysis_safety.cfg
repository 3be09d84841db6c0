SPECIFICATION Spec
CONSTANTS
  Posts <- MCPosts
  Rules <- MCRules
  Batches = {"trades", "quiet"}
  Batch <- TradesAround
  NoBatch = "none"
  Silent = {"quiet"}
  Wants <- WantMost
  Ingestable = {2}
  Refused = {2}
  Limit = 2
  RetryLimit = 1
  MaxAttempts = 3
  Outages = TRUE
  MaxFaults = 1
  MaxUnanswered = 1
INVARIANTS TypeOK OneOutcome NotificationOwed NotGivenUpEarly TwiceOnlyUnrecorded
PROPERTIES SentIsFinal BatchTogether
