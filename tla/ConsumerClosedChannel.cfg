CONSTANTS
  bad = bad
  flaky = flaky
  Messages = {bad, flaky}
  Malformed = {bad}
  Flaky = {flaky}
  Transient = {}
  MAX_RETRIES = 2
  SenderMayDrop = FALSE
  MaxStarts = 1
  MaxFaults = 1
SPECIFICATION FairSpec
CHECK_DEADLOCK FALSE
PROPERTIES ClosedChannelStops
