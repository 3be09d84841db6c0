SPECIFICATION Spec
CONSTANTS
  Posts <- MCPosts
  Rules <- MCRules
  Batches = {"trades", "quiet"}
  Batch <- TradesAround
  NoBatch = "none"
  Silent = {"quiet"}
  Wants <- WantMost
  Ingestable = {}
  Refused = {2}
  Limit = 2
  RetryLimit = 1
  MaxAttempts = 2
  Outages = FALSE
  MaxFaults = 1
  MaxUnanswered = 0
INVARIANT AnalysisFailureCounted
