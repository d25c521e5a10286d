SPECIFICATION FairSpec
CONSTANTS
  Users = {ann, bob}
  MaxPendingWrites = 2
  MaxWrites = 4
  MaxDisruptions = 2
INVARIANTS PipelineIsQueuePrefix AnswersMatch AckedWasApplied AppliedInOrder NobodyWaitsInVain
PROPERTIES WaitsForAll SettlesInOrder QueueDrains
CHECK_DEADLOCK FALSE
