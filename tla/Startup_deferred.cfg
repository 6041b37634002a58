SPECIFICATION LiveSpec
CONSTANTS
  Tasks = {"migrations", "token_totals", "embeddings"}
PROPERTIES
  DeferredTasksRun
CHECK_DEADLOCK FALSE
