SPECIFICATION FairSpec
CONSTANTS
  call0 = call0
  call1 = call1
  NoCall = NoCall
  CallId <- OneCall
  HasVideo = TRUE
  RingTimeouts = {TRUE}
  DialErrors = FALSE
  Works = {{"ring", "dog"}}
  MaxTx = 1
INVARIANTS VideoRemovedOnce WatchdogKept RingTimerScheduledOnce
PROPERTIES RingingEnds DeadVideoIsGivenUp
