\* Two slots and three addresses, so that slots are reused by timers at the
\* same and at other addresses; a queue short enough to fill up.
CONSTANTS
  Entry = {e1, e2, e3}
  NULL = NULL
  USDL2_TIMER_MAX = 2
  Depth = 2
SPECIFICATION Spec
INVARIANT TypeOK
INVARIANT SlotsMatchList
INVARIANT ArmedAllocated
INVARIANT PendingMeansQueued
PROPERTY TimersKeepTicking
