\* The scanout keeps to refresh()'s assumptions: a frame boundary never falls
\* between reading the counter and draw_bitmap(), and never misses the deadline.
CONSTANTS
  W = 2
  H = 2
  Color = {black, white}
  Black = black
  Faults = {}
  UseGui = FALSE
SPECIFICATION Spec
INVARIANT TypeOK
PROPERTY NeverPaintsLive
PROPERTY ImplementsFrameDisplay
