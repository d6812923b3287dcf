SPECIFICATION FairSpec
CONSTANTS
  Clients = {c1, c2}
  Jobs <- LivenessJobs
PROPERTIES
  TimedClientsExit
  OnlyHangsBlock
CHECK_DEADLOCK FALSE
