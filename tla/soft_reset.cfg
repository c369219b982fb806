\* Three modules, two of which unregister themselves as they are torn down,
\* in a table with no room to spare.
CONSTANTS
  Module = {m1, m2, m3}
  Transient = {m1, m2}
  NULL = NULL
  DISPLAYIF_SOFT_RESET_MAX = 3
  Faults = {}
SPECIFICATION Spec
INVARIANT TypeOK
INVARIANT RegistryOK
INVARIANT MirroredIsRegistered
INVARIANT QuietAtSweep
