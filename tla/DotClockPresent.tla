--------------------------- MODULE DotClockPresent ---------------------------
(***************************************************************************)
(* The tear-free present of the ESP32 DotClockFramebuffer                  *)
(* (src/src/ports/esp32/mod_dotclockframebuffer.c).                        *)
(*                                                                         *)
(* The RGB panel owns two frame buffers.  The program paints the one       *)
(* draw_index names, with fill_rect() and blit(), and refresh() promotes   *)
(* it: it hands the buffer to the LCD driver, waits until the scanout ISR  *)
(* has wrapped to it, makes the other buffer the paint target and copies   *)
(* into it the bounding box of what was painted since the last present.    *)
(* A GUI library may instead paint the two panel buffers itself            *)
(* (framebuffers()), alternating them once per refresh().                  *)
(*                                                                         *)
(* Two more actors are outside the file and modelled from how it uses      *)
(* them: the LCD driver's bounce scanout, which adopts the promoted        *)
(* buffer at a frame boundary and then calls the counting ISR, and the     *)
(* GUI library.  Faults lists what the driver may do to refresh():         *)
(*   "early_wrap"  a frame boundary falls between refresh()'s reading of   *)
(*                 the frame counter and its draw_bitmap() call;           *)
(*   "late_wrap"   the boundary misses refresh()'s 100 ms deadline, or the *)
(*                 scanout stalls and it never comes;                      *)
(*   "draw_fails"  draw_bitmap() returns an error and refresh() raises.    *)
(***************************************************************************)
EXTENDS Integers

CONSTANTS W, H,     \* the panel's size in pixels
          Color,    \* pixel values
          Black,    \* the value memset leaves
          Faults,   \* what the driver may do, see above
          UseGui    \* whether a GUI may take the panel buffers

ASSUME SizeAssumption == W \in Nat \ {0} /\ H \in Nat \ {0}
ASSUME ColorAssumption == Black \in Color
ASSUME FaultsAssumption ==
  Faults \subseteq {"early_wrap", "late_wrap", "draw_fails"}
ASSUME GuiAssumption == UseGui \in BOOLEAN

Buffers == {0, 1}
NoGui == 2                       \* no GUI has asked for the panel buffers
Pixels == (0 .. W-1) \X (0 .. H-1)
Frame == [Pixels -> Color]
Blank == [p \in Pixels |-> Black]

VARIABLES
  fbs,           \* the contents of the two panel frame buffers
  draw_index,    \* the buffer fill_rect(), blit() and buf write
  dirty,         \* something was painted since the last present
  box,           \* the painted bounding box, half open
  pc,            \* where the program is: "idle", or inside refresh()
  presented,     \* refresh()'s local of that name
  frame_seen,    \* s_dcfb_frame_count # start_frames, inside refresh()
  cur_fb_index,  \* LCD driver: the buffer it was last handed
  bb_fb_index,   \* LCD driver: the buffer the scanout is reading
  gui            \* the buffer the GUI paints next, or NoGui

vars == <<fbs, draw_index, dirty, box, pc, presented, frame_seen,
          cur_fb_index, bb_fb_index, gui>>
painting == <<fbs, dirty, box>>
scanout == <<cur_fb_index, bb_fb_index>>

-----------------------------------------------------------------------------
(* Rectangles.                                                             *)

\* displayif_fb_rect_ok(), and the same test spelled out in blit().
RectOkLoose(x, y, w, h) ==   \* mutant: off by one at the right edge
  x >= 0 /\ y >= 0 /\ w > 0 /\ h > 0 /\ x + w <= W + 1 /\ y + h <= H
RectOk(x, y, w, h) == /\ x >= 0 /\ y >= 0
                      /\ w > 0 /\ h > 0
                      /\ x + w <= W /\ y + h <= H

InRect(p, x, y, w, h) == /\ x <= p[1] /\ p[1] < x + w
                         /\ y <= p[2] /\ p[2] < y + h

InBox(p) == /\ box.x0 <= p[1] /\ p[1] < box.x1
            /\ box.y0 <= p[2] /\ p[2] < box.y1

NoBox == [x0 |-> 0, y0 |-> 0, x1 |-> 0, y1 |-> 0]

Lesser(a, b) == IF a < b THEN a ELSE b
Greater(a, b) == IF a > b THEN a ELSE b

\* The box mark_dirty() leaves: the rectangle alone, or the smallest box
\* around it and the box so far.
MarkedReplacing(x, y, w, h) ==   \* mutant: forgets the earlier box
  [x0 |-> x, y0 |-> y, x1 |-> x + w, y1 |-> y + h]
Marked(x, y, w, h) ==
  IF dirty THEN [x0 |-> Lesser(x, box.x0), y0 |-> Lesser(y, box.y0),
                 x1 |-> Greater(x + w, box.x1), y1 |-> Greater(y + h, box.y1)]
           ELSE [x0 |-> x, y0 |-> y, x1 |-> x + w, y1 |-> y + h]

\* Frame f with the rectangle overwritten by the same rectangle of src.
Overlaid(f, src, x, y, w, h) ==
  [p \in Pixels |-> IF InRect(p, x, y, w, h) THEN src[p] ELSE f[p]]

-----------------------------------------------------------------------------
(* dotclockframebuffer_init_panel(): both buffers cleared, the kick        *)
(* draw_bitmap leaves buffer 0 scanning, painting starts on buffer 1.      *)
Init == /\ fbs = [i \in Buffers |-> Blank]
        /\ draw_index = 1
        /\ dirty = FALSE
        /\ box = NoBox
        /\ pc = "idle"
        /\ presented = 0
        /\ frame_seen = FALSE
        /\ cur_fb_index = 0
        /\ bb_fb_index = 0
        /\ gui = NoGui

\* What blit() and fill_rect() share: write the rectangle into the paint
\* target, then mark_dirty().
PaintRect(src, x, y, w, h) ==
  /\ pc = "idle"
  /\ gui = NoGui
  /\ RectOk(x, y, w, h)
  /\ fbs' = [fbs EXCEPT ![draw_index] = Overlaid(@, src, x, y, w, h)]
  /\ dirty' = TRUE
  /\ box' = Marked(x, y, w, h)
  /\ UNCHANGED <<draw_index, pc, presented, frame_seen, scanout, gui>>

Blit(x, y, w, h) == \E src \in Frame : PaintRect(src, x, y, w, h)

FillRect(x, y, w, h) ==
  \E color \in Color : PaintRect([p \in Pixels |-> color], x, y, w, h)

-----------------------------------------------------------------------------
(* refresh(), cut where the scanout ISR can come in between.               *)

\* Lines 640-641: pick the buffer and read the frame counter.
RefreshBegin == /\ pc = "idle"
                /\ pc' = "read"
                /\ presented' = draw_index
                /\ frame_seen' = FALSE
                /\ UNCHANGED <<painting, draw_index, scanout, gui>>

\* Lines 642-643: hand the buffer to the driver.
DrawBitmap == /\ pc = "read"
              /\ pc' = "wait"
              /\ cur_fb_index' = presented
              /\ UNCHANGED <<painting, draw_index, presented, frame_seen,
                             bb_fb_index, gui>>

\* The driver refuses it and refresh() raises: nothing was presented, and a
\* GUI's flush callback does not get to swap.
DrawRefused == /\ pc = "read"
               /\ "draw_fails" \in Faults
               /\ pc' = "idle"
               /\ UNCHANGED <<painting, draw_index, presented, frame_seen,
                              scanout, gui>>

\* A GUI's flush callback has returned: it goes on to its other buffer.
GuiSwapped == IF gui = NoGui THEN NoGui ELSE 1 - gui

\* Lines 647-650: the deadline passes with the counter unchanged.
TimeoutNever == /\ FALSE            \* mutant: no deadline, the loop only spins
                /\ UNCHANGED vars
Timeout == /\ pc = "wait"
           /\ ~frame_seen
           /\ "late_wrap" \in Faults
           /\ pc' = "idle"
           /\ gui' = GuiSwapped
           /\ UNCHANGED <<painting, draw_index, presented, frame_seen, scanout>>

\* Lines 659-675: flip the paint target, copy the painted box into it.
AdvanceUncopied ==                  \* mutant: flips without copying the box
  /\ pc = "wait"
  /\ frame_seen
  /\ draw_index' = 1 - presented
  /\ dirty' = FALSE
  /\ box' = NoBox
  /\ pc' = "idle"
  /\ gui' = GuiSwapped
  /\ UNCHANGED <<fbs, presented, frame_seen, scanout>>
AdvanceUnwaited ==                  \* mutant: does not wait for the frame
  /\ pc = "wait"
  /\ draw_index' = 1 - presented
  /\ fbs' = [fbs EXCEPT ![1 - presented] =
               [p \in Pixels |-> IF dirty /\ InBox(p) THEN fbs[presented][p]
                                                      ELSE @[p]]]
  /\ dirty' = FALSE
  /\ box' = NoBox
  /\ pc' = "idle"
  /\ gui' = GuiSwapped
  /\ UNCHANGED <<presented, frame_seen, scanout>>
Advance ==
  /\ pc = "wait"
  /\ frame_seen
  /\ draw_index' = 1 - presented
  /\ fbs' = [fbs EXCEPT ![1 - presented] =
               [p \in Pixels |-> IF dirty /\ InBox(p) THEN fbs[presented][p]
                                                      ELSE @[p]]]
  /\ dirty' = FALSE
  /\ box' = NoBox
  /\ pc' = "idle"
  /\ gui' = GuiSwapped
  /\ UNCHANGED <<presented, frame_seen, scanout>>

-----------------------------------------------------------------------------
(* The scanout, in the LCD driver: at a frame boundary the bounce refill   *)
(* goes on with the buffer last handed over, and dcfb_on_frame_buf_complete *)
(* counts the frame.                                                       *)
BounceWrap == /\ pc = "read" => "early_wrap" \in Faults
              /\ bb_fb_index' = cur_fb_index
              /\ frame_seen' = (pc # "idle")
              /\ UNCHANGED <<painting, draw_index, pc, presented, cur_fb_index,
                             gui>>

-----------------------------------------------------------------------------
(* A double-buffered GUI (LVGL DIRECT).                                    *)

\* framebuffers() returns the views in paint order, so the GUI starts on
\* the buffer refresh() presents next.
Framebuffers == /\ UseGui
                /\ pc = "idle"
                /\ gui = NoGui
                /\ gui' = draw_index
                /\ UNCHANGED <<painting, draw_index, pc, presented, frame_seen,
                               scanout>>

\* The GUI renders into, or brings up to date, the buffer it holds.
GuiPaint(x, y, w, h) ==
  /\ pc = "idle"
  /\ gui \in Buffers
  /\ RectOk(x, y, w, h)
  /\ \E src \in Frame :
       fbs' = [fbs EXCEPT ![gui] = Overlaid(@, src, x, y, w, h)]
  /\ UNCHANGED <<dirty, box, draw_index, pc, presented, frame_seen, scanout,
                 gui>>

-----------------------------------------------------------------------------
Refresh == RefreshBegin \/ DrawBitmap \/ DrawRefused \/ Timeout \/ Advance

Next == \/ \E x \in 0 .. W-1, y \in 0 .. H-1, w \in 1 .. W, h \in 1 .. H :
             Blit(x, y, w, h) \/ FillRect(x, y, w, h) \/ GuiPaint(x, y, w, h)
        \/ Refresh
        \/ BounceWrap
        \/ Framebuffers

\* refresh() runs on once started, and frame boundaries keep coming unless
\* the model admits a scanout that stalls.  Painting is never owed.
Fairness == /\ WF_vars(DrawBitmap)
            /\ WF_vars(Advance \/ Timeout)
            /\ "late_wrap" \notin Faults => WF_vars(BounceWrap)

Spec == Init /\ [][Next]_vars /\ Fairness

-----------------------------------------------------------------------------
(* Properties.                                                             *)

\* The type invariant.
TypeOK == /\ fbs \in [Buffers -> Frame]
          /\ draw_index \in Buffers
          /\ dirty \in BOOLEAN
          /\ box \in [x0 : 0 .. W, y0 : 0 .. H, x1 : 0 .. W, y1 : 0 .. H]
          /\ pc \in {"idle", "read", "wait"}
          /\ presented \in Buffers
          /\ frame_seen \in BOOLEAN
          /\ cur_fb_index \in Buffers
          /\ bb_fb_index \in Buffers
          /\ gui \in Buffers \cup {NoGui}

\* A program that paints with fill_rect() and blit() sees one picture, not
\* two: away from what it painted since the last present the two buffers
\* agree, so a flip never brings back an older picture.  This is what the
\* copy in refresh() is for, and it must survive presents that time out or
\* are refused.
BuffersAgree ==
  gui = NoGui =>
    \A p \in Pixels : ~(dirty /\ InBox(p)) => fbs[0][p] = fbs[1][p]

\* refresh() waits "until bounce wraps onto the new front so the old front
\* is idle": no paint, copy or GUI write changes the buffer being scanned.
PaintsLive == \E i \in Buffers : fbs'[i] # fbs[i] /\ i = bb_fb_index
NeverPaintsLive == [][~PaintsLive]_vars

\* A GUI that swaps its buffers once per refresh() stays on the buffer the
\* next refresh() presents.
GuiInStep == pc = "idle" /\ gui # NoGui => gui = draw_index

\* refresh() returns, even if the scanout stalls for good.
RefreshReturns == pc # "idle" ~> pc = "idle"

\* Implements FrameDisplay: the canvas is the paint target, the glass is the
\* buffer being scanned, and a present takes effect when the scanout wraps.
\* The flip to the other buffer leaves no trace on the canvas.
Display == INSTANCE FrameDisplay WITH
             canvas <- fbs[draw_index],
             shown <- fbs[bb_fb_index],
             phase <- IF pc = "idle" THEN "drawing"
                      ELSE IF pc = "wait" /\ frame_seen THEN "shown"
                      ELSE "asked"
ImplementsFrameDisplay == Display!Spec
=============================================================================
