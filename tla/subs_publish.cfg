SPECIFICATION SSpec
CONSTANTS
  Filters <- WildFilters
  MaxInserts = 4
  MaxActions = 1
  Calls <- RollBack
  Careful = TRUE
  Topics <- AllTopics
CHECK_DEADLOCK FALSE
INVARIANTS  SubackTopicIsLive PublishReachesMatches
