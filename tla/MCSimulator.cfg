\* Up to three cores and four jobs: a job waits, is preempted, or goes round.
CONSTANTS
  Inputs <- InputsMC
SPECIFICATION Spec
INVARIANTS IInv Agree Statistics
PROPERTIES RoundRobin FollowsSchedule
