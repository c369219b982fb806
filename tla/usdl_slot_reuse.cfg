\* A slot is reused while a dispatch of its former timer is still queued.
CONSTANTS
  Entry = {e1, e2, e3}
  NULL = NULL
  USDL2_TIMER_MAX = 2
  Depth = 2
SPECIFICATION Spec
INVARIANT AtMostOneQueued
