\* A frame boundary may fall between reading the counter and draw_bitmap().
CONSTANTS
  W = 2
  H = 2
  Color = {black, white}
  Black = black
  Faults = {"early_wrap"}
  UseGui = FALSE
SPECIFICATION Spec
PROPERTY NeverPaintsLive
