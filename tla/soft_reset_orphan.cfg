\* An SDK call fails after the panel is allocated, before the mirror holds it.
CONSTANTS
  Module = {m1, m2, m3}
  Transient = {}
  NULL = NULL
  DISPLAYIF_SOFT_RESET_MAX = 3
  Faults = {"setup_fails"}
SPECIFICATION Spec
INVARIANT NothingOrphaned
