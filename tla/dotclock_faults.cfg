\* Every fault: boundaries too early and too late, a scanout that stalls, and a
\* driver that refuses the buffer.
CONSTANTS
  W = 2
  H = 2
  Color = {black, white}
  Black = black
  Faults = {"early_wrap", "late_wrap", "draw_fails"}
  UseGui = TRUE
SPECIFICATION Spec
INVARIANT BuffersAgree
PROPERTY RefreshReturns
