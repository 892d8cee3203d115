CONSTANTS
  bad = bad
  flaky = flaky
  Messages = {bad, flaky}
  Malformed = {bad}
  Flaky = {flaky}
  Transient = {flaky}
  MAX_RETRIES = 2
  SenderMayDrop = TRUE
  MaxStarts = 2
  MaxFaults = 2
SPECIFICATION FairSpec
CHECK_DEADLOCK FALSE
INVARIANTS TypeOK AtLeastOnce DeadLetteredOnlyAfterRetries OneLoopPerMessage NoReprocessingInRun ConsumerInv
PROPERTIES ImplementsContract MainQueueDrains ConsumersStop
