CONSTANTS
  j1 = j1
  j2 = j2
  Jobs = {j1, j2}
  MaxDepth = 2
  Concurrency = 1
  Capacity = 1
  PollsOf <- MCPollsOf
  MaxRestarts = 1
SPECIFICATION Spec
CHECK_DEADLOCK FALSE
INVARIANTS
  JobsAreFollowed
  RecordsAgree
PROPERTIES
  OutcomeIsFinal
  StoppedJobsEnd
