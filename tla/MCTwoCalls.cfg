SPECIFICATION Spec
CONSTANTS
  call0 = call0
  call1 = call1
  NoCall = NoCall
  CallId <- TwoCalls
  HasVideo = FALSE
  RingTimeouts = {TRUE}
  DialErrors = TRUE
  Works = {{"ring"}, {"report"}}
  MaxTx = 1
SYMMETRY Slots
INVARIANTS CurrentCallIsLive RingTimerKept
