------------------------ MODULE DotClockPresent_proofs ------------------------
(***************************************************************************)
(* What holds of the tear-free present for every panel size, every set of  *)
(* pixel values and every scanout timing, and what holds of it when the    *)
(* scanout keeps to refresh()'s assumptions.                               *)
(***************************************************************************)
EXTENDS DotClockPresent, TLAPS

(***************************************************************************)
(* The actions of Next with their parameters, named so that each proof     *)
(* splits Next in the same way.                                            *)
(***************************************************************************)
LEMMA NextCases ==
  ASSUME Next
  PROVE  \/ \E src \in Frame : \E x \in 0 .. W-1, y \in 0 .. H-1,
                                  w \in 1 .. W, h \in 1 .. H :
              PaintRect(src, x, y, w, h)
         \/ RefreshBegin \/ DrawBitmap \/ DrawRefused \/ Timeout \/ Advance
         \/ BounceWrap \/ Framebuffers
         \/ \E x \in 0 .. W-1, y \in 0 .. H-1, w \in 1 .. W, h \in 1 .. H :
              GuiPaint(x, y, w, h)
<1>1. CASE \E x \in 0 .. W-1, y \in 0 .. H-1, w \in 1 .. W, h \in 1 .. H :
             Blit(x, y, w, h) \/ FillRect(x, y, w, h) \/ GuiPaint(x, y, w, h)
  <2>1. PICK x \in 0 .. W-1, y \in 0 .. H-1, w \in 1 .. W, h \in 1 .. H :
             Blit(x, y, w, h) \/ FillRect(x, y, w, h) \/ GuiPaint(x, y, w, h)
    BY <1>1
  <2>2. CASE Blit(x, y, w, h)
    BY <2>2 DEF Blit
  <2>3. CASE FillRect(x, y, w, h)
    <3>1. PICK color \in Color : PaintRect([p \in Pixels |-> color], x, y, w, h)
      BY <2>3 DEF FillRect
    <3>2. [p \in Pixels |-> color] \in Frame
      BY DEF Frame
    <3> QED
      BY <3>1, <3>2
  <2>4. CASE GuiPaint(x, y, w, h)
    BY <2>4
  <2> QED
    BY <2>1, <2>2, <2>3, <2>4
<1> QED
  BY <1>1 DEF Next, Refresh

\* Overwriting part of a frame with part of another gives a frame.
LEMMA OverlaidIsFrame ==
  ASSUME NEW f \in Frame, NEW src \in Frame, NEW x, NEW y, NEW w, NEW h
  PROVE  Overlaid(f, src, x, y, w, h) \in Frame
BY DEF Overlaid, Frame

-----------------------------------------------------------------------------
(* Types.                                                                  *)

\* The type invariant holds: in particular the painted box never leaves the
\* panel, so the copy in refresh() stays inside the frame buffers.
THEOREM Typing == Spec => []TypeOK
<1> USE SizeAssumption, ColorAssumption
<1>1. Init => TypeOK
  <2>1. Blank \in Frame
    BY DEF Blank, Frame
  <2>2. NoBox \in [x0 : 0 .. W, y0 : 0 .. H, x1 : 0 .. W, y1 : 0 .. H]
    BY DEF NoBox
  <2>3. [i \in Buffers |-> Blank] \in [Buffers -> Frame]
    BY <2>1
  <2> QED
    BY <2>2, <2>3 DEF Init, TypeOK, Buffers, NoGui
<1>2. TypeOK /\ [Next]_vars => TypeOK'
  <2> SUFFICES ASSUME TypeOK, [Next]_vars PROVE TypeOK'
    OBVIOUS
  <2>1. CASE \E src \in Frame : \E x \in 0 .. W-1, y \in 0 .. H-1,
                                   w \in 1 .. W, h \in 1 .. H :
               PaintRect(src, x, y, w, h)
    <3>1. PICK src \in Frame, x \in 0 .. W-1, y \in 0 .. H-1,
               w \in 1 .. W, h \in 1 .. H : PaintRect(src, x, y, w, h)
      BY <2>1
    <3>2. fbs' \in [Buffers -> Frame]
      <4>1. Overlaid(fbs[draw_index], src, x, y, w, h) \in Frame
        BY OverlaidIsFrame DEF TypeOK
      <4> QED
        BY <3>1, <4>1 DEF PaintRect, TypeOK
    <3>3. box' \in [x0 : 0 .. W, y0 : 0 .. H, x1 : 0 .. W, y1 : 0 .. H]
      <4>1. x + w <= W /\ y + h <= H /\ box' = Marked(x, y, w, h)
        BY <3>1 DEF PaintRect, RectOk
      <4>2. box \in [x0 : 0 .. W, y0 : 0 .. H, x1 : 0 .. W, y1 : 0 .. H]
        BY DEF TypeOK
      <4> QED
        BY <4>1, <4>2 DEF Marked, Lesser, Greater
    <3> QED
      BY <3>1, <3>2, <3>3 DEF PaintRect, TypeOK, scanout
  <2>2. CASE RefreshBegin
    BY <2>2 DEF RefreshBegin, TypeOK, painting, scanout
  <2>3. CASE DrawBitmap
    BY <2>3 DEF DrawBitmap, TypeOK, painting
  <2>4. CASE Timeout
    BY <2>4 DEF Timeout, TypeOK, painting, scanout, GuiSwapped, Buffers, NoGui
  <2>5. CASE Advance
    <3>1. 1 - presented \in Buffers
      BY DEF TypeOK, Buffers
    <3>2. [p \in Pixels |-> IF dirty /\ InBox(p) THEN fbs[presented][p]
                                             ELSE fbs[1 - presented][p]]
            \in Frame
      BY <3>1 DEF TypeOK, Frame
    <3>3. fbs' \in [Buffers -> Frame]
      BY <2>5, <3>1, <3>2 DEF Advance, TypeOK
    <3>4. box' \in [x0 : 0 .. W, y0 : 0 .. H, x1 : 0 .. W, y1 : 0 .. H]
      <4>1. 0 \in 0 .. W /\ 0 \in 0 .. H
        OBVIOUS
      <4> QED
        BY <2>5, <4>1 DEF Advance, NoBox
    <3>5. gui' \in Buffers \cup {NoGui}
      BY <2>5 DEF Advance, TypeOK, GuiSwapped, Buffers, NoGui
    <3> QED
      BY <2>5, <3>1, <3>3, <3>4, <3>5 DEF Advance, TypeOK, scanout
  <2>6. CASE BounceWrap
    BY <2>6 DEF BounceWrap, TypeOK, painting
  <2>7. CASE Framebuffers
    BY <2>7 DEF Framebuffers, TypeOK, painting, scanout
  <2>8. CASE \E x \in 0 .. W-1, y \in 0 .. H-1, w \in 1 .. W, h \in 1 .. H :
               GuiPaint(x, y, w, h)
    <3>1. PICK x \in 0 .. W-1, y \in 0 .. H-1, w \in 1 .. W, h \in 1 .. H :
            GuiPaint(x, y, w, h)
      BY <2>8
    <3>2. PICK src \in Frame :
            fbs' = [fbs EXCEPT ![gui] = Overlaid(@, src, x, y, w, h)]
      BY <3>1 DEF GuiPaint
    <3>3. Overlaid(fbs[gui], src, x, y, w, h) \in Frame
      BY <3>1, OverlaidIsFrame DEF GuiPaint, TypeOK
    <3>4. fbs' \in [Buffers -> Frame]
      BY <3>2, <3>3 DEF TypeOK
    <3> QED
      BY <3>1, <3>4 DEF GuiPaint, TypeOK, scanout
  <2>9. CASE UNCHANGED vars
    BY <2>9 DEF vars, TypeOK
  <2>10. CASE DrawRefused
    BY <2>10 DEF DrawRefused, TypeOK, painting, scanout
  <2> QED
    BY <2>1, <2>2, <2>3, <2>4, <2>5, <2>6, <2>7, <2>8, <2>9, <2>10, NextCases
<1> QED
  BY <1>1, <1>2, PTL DEF Spec

-----------------------------------------------------------------------------
(* The two buffers stay one picture.                                       *)

\* The box mark_dirty() leaves covers the rectangle just painted and
\* everything the box covered before it.
LEMMA MarkedCovers ==
  ASSUME TypeOK,
         NEW x \in 0 .. W-1, NEW y \in 0 .. H-1, NEW w \in 1 .. W, NEW h \in 1 .. H,
         dirty' = TRUE, box' = Marked(x, y, w, h),
         NEW p \in Pixels,
         InRect(p, x, y, w, h) \/ (dirty /\ InBox(p))
  PROVE  dirty' /\ InBox(p)'
<1>1. p[1] \in Int /\ p[2] \in Int
  BY SizeAssumption DEF Pixels
<1>2. box \in [x0 : 0 .. W, y0 : 0 .. H, x1 : 0 .. W, y1 : 0 .. H]
  BY DEF TypeOK
<1>3. W \in Int /\ H \in Int
  BY SizeAssumption
<1> QED
  BY <1>1, <1>2, <1>3 DEF Marked, InRect, InBox, Lesser, Greater

\* BuffersAgree is inductive on its own: painting only widens the box, and
\* a flip copies exactly the box.  No assumption on the scanout is used, so
\* presents that time out or return early do not make the buffers diverge.
THEOREM Agreement == Spec => []BuffersAgree
<1>1. Init => BuffersAgree
  BY DEF Init, BuffersAgree, Buffers
<1>2. TypeOK /\ BuffersAgree /\ [Next]_vars => BuffersAgree'
  <2> SUFFICES ASSUME TypeOK, BuffersAgree, [Next]_vars,
                      gui' = NoGui,
                      NEW p \in Pixels, ~(dirty' /\ InBox(p)')
               PROVE  fbs'[0][p] = fbs'[1][p]
    BY DEF BuffersAgree
  <2>1. CASE \E src \in Frame : \E x \in 0 .. W-1, y \in 0 .. H-1,
                                   w \in 1 .. W, h \in 1 .. H :
               PaintRect(src, x, y, w, h)
    <3>1. PICK src \in Frame, x \in 0 .. W-1, y \in 0 .. H-1,
               w \in 1 .. W, h \in 1 .. H : PaintRect(src, x, y, w, h)
      BY <2>1
    <3>2. dirty' = TRUE /\ box' = Marked(x, y, w, h)
      BY <3>1 DEF PaintRect
    <3>3. ~InRect(p, x, y, w, h) /\ ~(dirty /\ InBox(p))
      BY <3>2, MarkedCovers
    <3>4. fbs[0][p] = fbs[1][p]
      BY <3>1, <3>3 DEF PaintRect, BuffersAgree
    <3>5. \A i \in Buffers : fbs'[i][p] = fbs[i][p]
      <4>1. fbs' = [fbs EXCEPT ![draw_index] =
                      Overlaid(fbs[draw_index], src, x, y, w, h)]
        BY <3>1 DEF PaintRect
      <4>2. Overlaid(fbs[draw_index], src, x, y, w, h)[p] = fbs[draw_index][p]
        BY <3>3 DEF Overlaid
      <4> QED
        BY <4>1, <4>2 DEF TypeOK
    <3> QED
      BY <3>4, <3>5 DEF Buffers
  <2>2. CASE RefreshBegin
    BY <2>2 DEF RefreshBegin, BuffersAgree, painting, InBox
  <2>3. CASE DrawBitmap
    BY <2>3 DEF DrawBitmap, BuffersAgree, painting, InBox
  <2>4. CASE Timeout
    <3>1. gui = NoGui
      BY <2>4 DEF Timeout, GuiSwapped, TypeOK, Buffers, NoGui
    <3> QED
      BY <2>4, <3>1 DEF Timeout, BuffersAgree, painting, InBox
  <2>5. CASE Advance
    <3>1. gui = NoGui
      BY <2>5 DEF Advance, GuiSwapped, TypeOK, Buffers, NoGui
    <3>2. 1 - presented \in Buffers /\ presented \in Buffers
          /\ presented # 1 - presented
      BY DEF TypeOK, Buffers
    <3>3. fbs'[presented][p] = fbs[presented][p]
      BY <2>5, <3>2 DEF Advance, TypeOK
    <3>4. fbs'[1 - presented][p] = IF dirty /\ InBox(p)
                                   THEN fbs[presented][p]
                                   ELSE fbs[1 - presented][p]
      BY <2>5, <3>2 DEF Advance, TypeOK
    <3>5. ~(dirty /\ InBox(p)) => fbs[0][p] = fbs[1][p]
      BY <3>1 DEF BuffersAgree
    <3> QED
      BY <3>2, <3>3, <3>4, <3>5 DEF Buffers
  <2>6. CASE BounceWrap
    BY <2>6 DEF BounceWrap, BuffersAgree, painting, InBox
  <2>7. CASE Framebuffers
    BY <2>7 DEF Framebuffers, Buffers, NoGui, TypeOK
  <2>8. CASE \E x \in 0 .. W-1, y \in 0 .. H-1, w \in 1 .. W, h \in 1 .. H :
               GuiPaint(x, y, w, h)
    BY <2>8 DEF GuiPaint, Buffers, NoGui
  <2>9. CASE UNCHANGED vars
    BY <2>9 DEF vars, BuffersAgree, InBox
  <2>10. CASE DrawRefused
    BY <2>10 DEF DrawRefused, BuffersAgree, painting, InBox
  <2> QED
    BY <2>1, <2>2, <2>3, <2>4, <2>5, <2>6, <2>7, <2>8, <2>9, <2>10, NextCases
<1> QED
  BY <1>1, <1>2, Typing, PTL DEF Spec

-----------------------------------------------------------------------------
(* The GUI and the driver stay on the same buffer.                         *)

\* GuiInStep strengthened to the whole of refresh(): the buffer being
\* presented is still the paint target, and the GUI holds it throughout.
InStep == /\ pc # "idle" => presented = draw_index
          /\ gui # NoGui => gui = draw_index

\* As long as no present times out, a GUI that swaps once per refresh()
\* holds the buffer the next refresh() presents, even when a frame boundary
\* makes refresh() return early.
THEOREM GuiStaysInStep ==
  ASSUME "late_wrap" \notin Faults
  PROVE  Spec => []GuiInStep
<1>1. Init => InStep
  BY DEF Init, InStep
<1>2. TypeOK /\ InStep /\ [Next]_vars => InStep'
  <2> SUFFICES ASSUME TypeOK, InStep, [Next]_vars PROVE InStep'
    OBVIOUS
  <2>1. CASE \E src \in Frame : \E x \in 0 .. W-1, y \in 0 .. H-1,
                                   w \in 1 .. W, h \in 1 .. H :
               PaintRect(src, x, y, w, h)
    BY <2>1 DEF PaintRect, InStep
  <2>2. CASE RefreshBegin
    BY <2>2 DEF RefreshBegin, InStep
  <2>3. CASE DrawBitmap
    BY <2>3 DEF DrawBitmap, InStep
  <2>4. CASE Timeout
    BY <2>4 DEF Timeout
  <2>5. CASE Advance
    BY <2>5 DEF Advance, InStep, GuiSwapped
  <2>6. CASE BounceWrap
    BY <2>6 DEF BounceWrap, InStep
  <2>7. CASE Framebuffers
    BY <2>7 DEF Framebuffers, InStep
  <2>8. CASE \E x \in 0 .. W-1, y \in 0 .. H-1, w \in 1 .. W, h \in 1 .. H :
               GuiPaint(x, y, w, h)
    BY <2>8 DEF GuiPaint, InStep
  <2>9. CASE UNCHANGED vars
    BY <2>9 DEF vars, InStep
  <2>10. CASE DrawRefused
    BY <2>10 DEF DrawRefused, InStep
  <2> QED
    BY <2>1, <2>2, <2>3, <2>4, <2>5, <2>6, <2>7, <2>8, <2>9, <2>10, NextCases
<1>3. InStep => GuiInStep
  BY DEF InStep, GuiInStep
<1> QED
  BY <1>1, <1>2, <1>3, Typing, PTL DEF Spec

-----------------------------------------------------------------------------
(* The buffer on the glass is left alone.                                  *)

\* Where the scanout is in each phase of refresh(), when every frame
\* boundary comes inside the wait: between presents it reads the buffer the
\* program does not paint; from draw_bitmap() to the boundary the driver
\* holds the new buffer and the scanout still reads the old one.
Phase ==
  /\ pc \in {"idle", "read"} => bb_fb_index = cur_fb_index
                                /\ cur_fb_index = 1 - draw_index
  /\ pc = "read" => ~frame_seen
  /\ pc = "wait" => cur_fb_index = draw_index
                    /\ bb_fb_index = IF frame_seen THEN draw_index
                                                   ELSE 1 - draw_index
  /\ InStep

\* Phase is inductive.
LEMMA PhaseInductive ==
  ASSUME Faults = {}
  PROVE  (Init => Phase) /\ (TypeOK /\ Phase /\ [Next]_vars => Phase')
<1>1. Init => Phase
  BY DEF Init, Phase, InStep
<1>2. ASSUME TypeOK, Phase, [Next]_vars PROVE Phase'
  <2>1. CASE \E src \in Frame : \E x \in 0 .. W-1, y \in 0 .. H-1,
                                   w \in 1 .. W, h \in 1 .. H :
               PaintRect(src, x, y, w, h)
    BY <1>2, <2>1 DEF PaintRect, Phase, InStep, scanout
  <2>2. CASE RefreshBegin
    BY <1>2, <2>2 DEF RefreshBegin, Phase, InStep, scanout
  <2>3. CASE DrawBitmap
    BY <1>2, <2>3 DEF DrawBitmap, Phase, InStep
  <2>4. CASE Timeout
    BY <2>4 DEF Timeout
  <2>5. CASE Advance
    BY <1>2, <2>5
    DEF Advance, Phase, InStep, GuiSwapped, scanout, TypeOK, Buffers
  <2>6. CASE BounceWrap
    BY <1>2, <2>6 DEF BounceWrap, Phase, InStep, TypeOK, Buffers
  <2>7. CASE Framebuffers
    BY <1>2, <2>7 DEF Framebuffers, Phase, InStep, scanout
  <2>8. CASE \E x \in 0 .. W-1, y \in 0 .. H-1, w \in 1 .. W, h \in 1 .. H :
               GuiPaint(x, y, w, h)
    BY <1>2, <2>8 DEF GuiPaint, Phase, InStep, scanout
  <2>9. CASE UNCHANGED vars
    BY <1>2, <2>9 DEF vars, Phase, InStep
  <2>10. CASE DrawRefused
    BY <2>10 DEF DrawRefused
  <2> QED
    BY <1>2, <2>1, <2>2, <2>3, <2>4, <2>5, <2>6, <2>7, <2>8, <2>9, <2>10,
       NextCases
<1> QED
  BY <1>1, <1>2

\* A step changes a frame buffer only if the scanout is reading the other.
LEMMA StepSparesGlass ==
  ASSUME TypeOK, Phase, Next
  PROVE  ~PaintsLive
<1> SUFFICES ASSUME NEW i \in Buffers, fbs'[i] # fbs[i]
             PROVE  i # bb_fb_index
  BY DEF PaintsLive
<1>1. CASE \E src \in Frame : \E x \in 0 .. W-1, y \in 0 .. H-1,
                                 w \in 1 .. W, h \in 1 .. H :
             PaintRect(src, x, y, w, h)
  <2>1. i = draw_index /\ pc = "idle"
    BY <1>1 DEF PaintRect, TypeOK
  <2> QED
    BY <2>1 DEF Phase, TypeOK, Buffers
<1>2. CASE RefreshBegin \/ DrawBitmap \/ DrawRefused \/ Timeout
           \/ BounceWrap \/ Framebuffers
  BY <1>2
  DEF RefreshBegin, DrawBitmap, DrawRefused, Timeout, BounceWrap, Framebuffers,
      painting
<1>3. CASE Advance
  <2>1. i = 1 - presented /\ pc = "wait" /\ frame_seen
    BY <1>3 DEF Advance, TypeOK
  <2> QED
    BY <2>1 DEF Phase, InStep, TypeOK, Buffers
<1>4. CASE \E x \in 0 .. W-1, y \in 0 .. H-1, w \in 1 .. W, h \in 1 .. H :
             GuiPaint(x, y, w, h)
  <2>1. i = gui /\ pc = "idle" /\ gui \in Buffers
    BY <1>4 DEF GuiPaint, TypeOK
  <2> QED
    BY <2>1 DEF Phase, InStep, TypeOK, Buffers, NoGui
<1> QED
  BY <1>1, <1>2, <1>3, <1>4, NextCases

\* When every frame boundary comes inside refresh()'s wait, no paint, copy
\* or GUI write ever touches the buffer on the glass: the picture cannot
\* tear, whatever the panel's size.
THEOREM NoTearing ==
  ASSUME Faults = {}
  PROVE  Spec => NeverPaintsLive
<1>1. TypeOK /\ Phase /\ [Next]_vars => [~PaintsLive]_vars
  BY StepSparesGlass
<1> QED
  BY <1>1, PhaseInductive, Typing, PTL DEF Spec, NeverPaintsLive

-----------------------------------------------------------------------------
(* The implementation of FrameDisplay.                                     *)

NoGuiYet == gui = NoGui

\* Without a GUI library nobody takes the panel buffers.
LEMMA NobodyTakesTheBuffers ==
  ASSUME UseGui = FALSE
  PROVE  Spec => []NoGuiYet
<1> USE DEF NoGuiYet
<1>1. Init => NoGuiYet
  BY DEF Init
<1>2. NoGuiYet /\ [Next]_vars => NoGuiYet'
  <2> SUFFICES ASSUME NoGuiYet, [Next]_vars PROVE NoGuiYet'
    OBVIOUS
  <2>1. CASE Next
    BY <2>1, NextCases
    DEF PaintRect, RefreshBegin, DrawBitmap, DrawRefused, Timeout, Advance,
        BounceWrap, Framebuffers, GuiPaint, GuiSwapped
  <2> QED
    BY <2>1 DEF vars
<1> QED
  BY <1>1, <1>2, PTL DEF Spec

\* A step of the driver is a step of FrameDisplay or changes nothing there.
LEMMA StepRefines ==
  ASSUME Faults = {}, TypeOK, TypeOK', Phase, BuffersAgree, BuffersAgree',
         NoGuiYet, NoGuiYet', [Next]_vars
  PROVE  [Display!Next]_(Display!vars)
<1> USE DEF Display!Next, Display!Paint, Display!Ask, Display!Show,
            Display!DrawOn, Display!vars, NoGuiYet
<1>1. CASE \E src \in Frame : \E x \in 0 .. W-1, y \in 0 .. H-1,
                                 w \in 1 .. W, h \in 1 .. H :
             PaintRect(src, x, y, w, h)
  <2>1. PICK src \in Frame, x \in 0 .. W-1, y \in 0 .. H-1,
             w \in 1 .. W, h \in 1 .. H : PaintRect(src, x, y, w, h)
    BY <1>1
  <2>2. pc = "idle" /\ pc' = "idle" /\ draw_index' = draw_index
        /\ bb_fb_index' = bb_fb_index
    BY <2>1 DEF PaintRect, scanout
  <2>3. fbs'[draw_index'] \in Frame
    BY <2>2 DEF TypeOK
  <2>4. bb_fb_index # draw_index
    BY <2>2 DEF Phase, TypeOK, Buffers
  <2>5. fbs'[bb_fb_index'] = fbs[bb_fb_index]
    BY <2>1, <2>2, <2>4 DEF PaintRect, TypeOK
  <2>6. Display!Paint
    BY <2>2, <2>3, <2>5
  <2> QED
    BY <2>6
<1>2. CASE RefreshBegin
  BY <1>2 DEF RefreshBegin, painting, scanout
<1>3. CASE DrawBitmap
  <2>1. ~frame_seen
    BY <1>3 DEF DrawBitmap, Phase
  <2> QED
    BY <1>3, <2>1 DEF DrawBitmap, painting
<1>4. CASE Timeout
  BY <1>4 DEF Timeout
<1>5. CASE Advance
  <2>1. presented = draw_index /\ bb_fb_index = draw_index
        /\ pc = "wait" /\ frame_seen /\ pc' = "idle"
    BY <1>5 DEF Advance, Phase, InStep
  <2>2. 1 - presented \in Buffers /\ presented \in Buffers
        /\ presented # 1 - presented
    BY DEF TypeOK, Buffers
  <2>3. fbs'[presented] = fbs[presented] /\ bb_fb_index' = bb_fb_index
        /\ draw_index' = 1 - presented /\ dirty' = FALSE
    BY <1>5, <2>2 DEF Advance, TypeOK, scanout
  <2>4. \A p \in Pixels : fbs'[1 - presented][p] = fbs'[presented][p]
    BY <2>2, <2>3 DEF BuffersAgree, Buffers
  <2>5. fbs'[1 - presented] \in Frame /\ fbs'[presented] \in Frame
    BY <2>2 DEF TypeOK
  <2>6. fbs'[1 - presented] = fbs'[presented]
    BY <2>4, <2>5 DEF Frame
  <2> QED
    BY <2>1, <2>3, <2>6
<1>6. CASE BounceWrap
  <2>1. CASE pc = "idle"
    BY <1>6, <2>1 DEF BounceWrap, Phase, painting
  <2>2. CASE pc = "read"
    BY <1>6, <2>2 DEF BounceWrap
  <2>3. CASE pc = "wait" /\ ~frame_seen
    BY <1>6, <2>3 DEF BounceWrap, Phase, painting
  <2>4. CASE pc = "wait" /\ frame_seen
    BY <1>6, <2>4 DEF BounceWrap, Phase, painting
  <2> QED
    BY <2>1, <2>2, <2>3, <2>4 DEF TypeOK
<1>7. CASE Framebuffers
  BY <1>7 DEF Framebuffers, TypeOK, Buffers, NoGui
<1>8. CASE \E x \in 0 .. W-1, y \in 0 .. H-1, w \in 1 .. W, h \in 1 .. H :
             GuiPaint(x, y, w, h)
  BY <1>8 DEF GuiPaint, Buffers, NoGui
<1>9. CASE UNCHANGED vars
  BY <1>9 DEF vars
<1>10. CASE DrawRefused
  BY <1>10 DEF DrawRefused
<1> QED
  BY <1>1, <1>2, <1>3, <1>4, <1>5, <1>6, <1>7, <1>8, <1>9, <1>10, NextCases

\* The two buffers, the flip and the copied box implement one canvas and
\* one glass: every present shows exactly what was painted, all of it, and
\* nothing else changes the glass.  (That a present is eventually shown is
\* liveness, and checked by TLC.)
THEOREM Refinement ==
  ASSUME Faults = {}, UseGui = FALSE
  PROVE  Spec => Display!Init /\ [][Display!Next]_(Display!vars)
<1>1. Init => Display!Init
  BY DEF Init, Display!Init, Buffers
<1>2. Spec => [](TypeOK /\ Phase /\ BuffersAgree /\ NoGuiYet)
  BY PhaseInductive, Typing, Agreement, NobodyTakesTheBuffers, PTL DEF Spec
<1>3. /\ TypeOK /\ Phase /\ BuffersAgree /\ NoGuiYet
      /\ (TypeOK /\ Phase /\ BuffersAgree /\ NoGuiYet)'
      /\ [Next]_vars
      => [Display!Next]_(Display!vars)
  BY StepRefines
<1> QED
  BY <1>1, <1>2, <1>3, PTL DEF Spec
=============================================================================
