CONSTANTS
  Signals <- Unix
  HandlersMayFail = TRUE
  MayPanic <- AllJoined
SPECIFICATION FairSpec
CHECK_DEADLOCK FALSE
INVARIANTS TypeOK DeliveriesFinish StopsOnlyWhenTold NobodyLeftUntold CompleteForAReason
PROPERTIES SignalEndsProcess
