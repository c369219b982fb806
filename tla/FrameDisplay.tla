---------------------------- MODULE FrameDisplay ----------------------------
(***************************************************************************)
(* What a double-buffered display promises the program that draws on it,   *)
(* with no buffers in sight: there is one canvas the program paints, and   *)
(* one picture on the glass.  The glass changes only when a requested      *)
(* present takes effect, and then shows exactly the canvas as it was       *)
(* painted; and when the present is over the program finds its canvas as   *)
(* it left it.  DotClockPresent implements this with two frame buffers.    *)
(***************************************************************************)
CONSTANTS Frame,    \* the pictures a frame buffer can hold
          Blank     \* the picture of a freshly cleared display

VARIABLES canvas,   \* what the program has painted
          shown,    \* what the panel shows
          phase     \* "drawing"; or, while presenting, "asked" and "shown"

vars == <<canvas, shown, phase>>

Init == /\ canvas = Blank
        /\ shown = Blank
        /\ phase = "drawing"

Paint == /\ phase = "drawing"
         /\ canvas' \in Frame
         /\ UNCHANGED <<shown, phase>>

Ask == /\ phase = "drawing"
       /\ phase' = "asked"
       /\ UNCHANGED <<canvas, shown>>

Show == /\ phase = "asked"
        /\ shown' = canvas
        /\ phase' = "shown"
        /\ UNCHANGED canvas

DrawOn == /\ phase = "shown"
          /\ phase' = "drawing"
          /\ UNCHANGED <<canvas, shown>>

Next == Paint \/ Ask \/ Show \/ DrawOn

Spec == Init /\ [][Next]_vars /\ WF_vars(Show) /\ WF_vars(DrawOn)
=============================================================================
