SPECIFICATION FairSpec
CONSTANTS
  Posts <- MCFewPosts
  Rules <- MCOneRule
  Batches = {"trades", "quiet"}
  Batch <- TradesAround
  NoBatch = "none"
  Silent = {"quiet"}
  Wants <- WantFew
  Ingestable = {2}
  Refused = {}
  Limit = 1
  RetryLimit = 1
  MaxAttempts = 2
  Outages = FALSE
  MaxFaults = 1
  MaxUnanswered = 1
PROPERTIES EveryPostAnalysed RetriesSettle
