----------------------------- MODULE Protomatter -----------------------------
(***************************************************************************)
(* The Protomatter core (src/src/ports/common/rgbmatrix/protomatter/       *)
(* core.c): a timer interrupt that refreshes a HUB75 panel.                *)
(*                                                                         *)
(* Each interrupt shows the bit plane the one before it shifted into the   *)
(* panel, for a time that doubles with the plane, and shifts in the next   *)
(* plane; after the planes of the last row it takes a requested swap of    *)
(* the two screen buffers.  A screen buffer is abstracted to the picture   *)
(* in each of its row pairs; what the converter writes for one row pair    *)
(* and what a burst clocks out is the business of Hub75.                   *)
(*                                                                         *)
(* This module is the core alone, as the interrupt and the entry points    *)
(* RgbMatrix calls.                                                        *)
(***************************************************************************)
EXTENDS Integers, FiniteSets

CONSTANTS numAddressLines,  \* address lines of the panel
          numPlanes,        \* bit planes of a pixel
          Image,            \* the pictures a program can draw
          Dark,             \* a cleared screen buffer, a cleared panel
          minPeriod,        \* shortest time of plane 0, in timer ticks
          maxPeriod,        \* longest time of plane 0, or of a burst
          Elapsed           \* ticks one burst can take

ASSUME PanelAssumption == /\ numAddressLines \in Nat \ {0}
                          /\ numPlanes \in Nat \ {0}
                          /\ Dark \notin Image
ASSUME TimeAssumption == /\ minPeriod \in Nat /\ maxPeriod \in Nat
                         /\ minPeriod <= maxPeriod
                         /\ Elapsed \subseteq 0 .. maxPeriod

Lines == 0 .. numAddressLines - 1
numRowPairs == 2 ^ numAddressLines
Rows == 0 .. numRowPairs - 1
Planes == 0 .. numPlanes - 1

\* True of every power of two; stated for the provers, which know no powers.
ASSUME RowPairsAssumption == numRowPairs \in Nat \ {0, 1}

Picture == Image \cup {Dark}

VARIABLES
  pm,      \* the core structure
  screen,  \* screenData: its two buffers, a picture per row pair
  timer,   \* the refresh timer runs
  active,  \* the interrupt finds the core through its pointer
  panel,   \* the panel: what its shift registers and latches hold, and pins
  base     \* the plane 0 times the planes of the row on show were lit with

pmvars == <<pm, screen, timer, active, panel, base>>

\* Address lines a row number drives high, and the lines a register toggle
\* or a line-by-line update leaves high.
Bits(r) == {l \in Lines : (r \div 2 ^ l) % 2 = 1}
Differ(S, T) == (S \ T) \cup (T \ S)
Toggled(high, from, to) == Differ(high, Differ(Bits(to), Bits(from)))
OneByOne(high, from, to) ==
  LET changed == Differ(Bits(to), Bits(from))
  IN (high \ changed) \cup (Bits(to) \cap changed)

Nothing == [row |-> 0, plane |-> 0, picture |-> Dark]
Zeroed == [ready |-> FALSE, rows |-> FALSE, addr |-> "null", double |-> FALSE,
           single |-> FALSE, plane |-> 0, row |-> 0, prevRow |-> 0,
           swapBuffers |-> FALSE, activeBuffer |-> 0, bitZeroPeriod |-> 0]
Cleared == [b \in 0 .. 1 |-> [r \in Rows |-> Dark]]

PmInit == /\ pm = Zeroed
          /\ screen = Cleared
          /\ timer = FALSE
          /\ active = FALSE
          /\ panel = [shift |-> Nothing, shown |-> Nothing, high |-> {},
                      lit |-> FALSE, time |-> 0]
          /\ base = {}

-----------------------------------------------------------------------------
(* Entry points.  Each describes a core, or the panel pins, before and     *)
(* after; RgbMatrix makes its steps of them.                               *)

\* _PM_init(): the pin lists are copied; the screen is allocated later.
Inited(double) == [Zeroed EXCEPT !.addr = "held", !.double = double]

\* _PM_resume(): the counters one step before row 0, plane 0.
Resumed(p) ==
  [p EXCEPT !.plane = numPlanes - 1,
            !.row = numRowPairs - 1,
            !.prevRow = IF numRowPairs > 1 THEN numRowPairs - 2 ELSE 1,
            !.swapBuffers = FALSE]

\* _PM_begin(): a cleared screen, the pins in their first state, and the
\* timer started.  single: one toggle register serves all address lines.
Begun(p, single) ==
  Resumed([p EXCEPT !.ready = TRUE, !.rows = TRUE, !.single = single,
                    !.activeBuffer = 0, !.bitZeroPeriod = minPeriod])

ResetFM6126A == [shift |-> Nothing, shown |-> Nothing, lit |-> FALSE,
                 high |-> Bits(numRowPairs - 2), time |-> 0]

Begin(p, single) ==
  /\ pm' = Begun(p, single)
  /\ screen' = Cleared
  /\ panel' = ResetFM6126A
  /\ timer' = TRUE
  /\ base' = {}

\* _PM_stop(): waits for a pending swap; then a dark panel, its shift
\* registers cleared.  Nothing happens when begin() never allocated.
StopWaits == pm.ready /\ pm.swapBuffers
Stopped == IF pm.ready THEN [panel EXCEPT !.shift = Nothing, !.shown = Nothing,
                                          !.lit = FALSE, !.time = 0]
           ELSE panel

\* _PM_deallocate(): frees what the structure names, and forgets the RGB
\* pin list only.
FreesTwice == pm.addr = "freed"
Deallocated(p) == [p EXCEPT !.addr = IF @ = "null" THEN "null" ELSE "freed"]

-----------------------------------------------------------------------------
(* The row handler.                                                        *)

\* Plane 0 has just been loaded: the address lines move on to its row.
NextHighEarly ==                        \* mutant: a plane too early
  IF pm.plane # numPlanes - 1 THEN panel.high
  ELSE IF pm.single THEN Toggled(panel.high, pm.prevRow, pm.row)
  ELSE OneByOne(panel.high, pm.prevRow, pm.row)
NextHigh == IF pm.plane # 0 THEN panel.high
            ELSE IF pm.single THEN Toggled(panel.high, pm.prevRow, pm.row)
            ELSE OneByOne(panel.high, pm.prevRow, pm.row)

\* Advance the plane, the row, and at the end of a frame the buffer.
LastPlane == pm.plane + 1 >= numPlanes
LastRow == pm.row + 1 >= numRowPairs
EndOfFrame == LastPlane /\ LastRow
SwapOnRow ==                            \* mutant: swaps at the end of a row
  [pm EXCEPT !.plane = IF LastPlane THEN 0 ELSE @ + 1,
             !.row = IF ~LastPlane THEN @ ELSE IF LastRow THEN 0 ELSE @ + 1,
             !.prevRow = IF pm.plane = 0 THEN pm.row ELSE @,
             !.activeBuffer = IF LastPlane /\ pm.swapBuffers THEN 1 - @ ELSE @,
             !.swapBuffers = IF LastPlane THEN FALSE ELSE @]
SwapUntold ==                           \* mutant: the swap is not reported
  [pm EXCEPT !.plane = IF LastPlane THEN 0 ELSE @ + 1,
             !.row = IF ~LastPlane THEN @ ELSE IF LastRow THEN 0 ELSE @ + 1,
             !.prevRow = IF pm.plane = 0 THEN pm.row ELSE @,
             !.activeBuffer = IF EndOfFrame /\ pm.swapBuffers THEN 1 - @ ELSE @]
Advanced ==
  [pm EXCEPT !.plane = IF LastPlane THEN 0 ELSE @ + 1,
             !.row = IF ~LastPlane THEN @ ELSE IF LastRow THEN 0 ELSE @ + 1,
             !.prevRow = IF pm.plane = 0 THEN pm.row ELSE @,
             !.activeBuffer = IF EndOfFrame /\ pm.swapBuffers THEN 1 - @ ELSE @,
             !.swapBuffers = IF EndOfFrame THEN FALSE ELSE @]

\* The data burst for the plane advanced to.
Burst(p) == [row |-> p.row, plane |-> p.plane,
             picture |-> screen[IF p.double THEN p.activeBuffer ELSE 0][p.row]]

\* The time of plane 0 follows the measured time of a burst.
NudgedDrifting(period, elapsed) ==      \* mutant: weighs nine eighths
  LET filtered == (period * 8 + elapsed + 4) \div 8
  IN IF filtered < minPeriod THEN minPeriod ELSE filtered
Nudged(period, elapsed) ==
  LET filtered == (period * 7 + elapsed + 4) \div 8
  IN IF filtered < minPeriod THEN minPeriod ELSE filtered

EveryPlane(p, elapsed) == Nudged(p.bitZeroPeriod, elapsed)  \* mutant
NewPeriod(p, elapsed) ==
  IF numPlanes > 1 /\ p.plane = 0 THEN Nudged(p.bitZeroPeriod, elapsed)
  ELSE p.bitZeroPeriod

\* _PM_row_handler().
RowHandler ==
  /\ timer /\ active
  /\ \E elapsed \in Elapsed :
       pm' = [Advanced EXCEPT !.bitZeroPeriod = NewPeriod(Advanced, elapsed)]
  /\ panel' = [shift |-> Burst(Advanced), shown |-> panel.shift,
               high |-> NextHigh, lit |-> TRUE,
               time |-> pm.bitZeroPeriod * 2 ^ pm.plane]
  /\ base' = (IF pm.plane = 0 THEN {} ELSE base) \cup {pm.bitZeroPeriod}
  /\ UNCHANGED <<screen, timer, active>>

-----------------------------------------------------------------------------
\* The core, the screen and the panel stay in their types.
PmTypeOK ==
  /\ pm \in [ready : BOOLEAN, rows : BOOLEAN, addr : {"null", "held", "freed"},
             double : BOOLEAN, single : BOOLEAN, plane : Planes, row : Rows,
             prevRow : Rows, swapBuffers : BOOLEAN, activeBuffer : 0 .. 1,
             bitZeroPeriod : {0} \cup minPeriod .. maxPeriod]
  /\ screen \in [0 .. 1 -> [Rows -> Picture]]
  /\ timer \in BOOLEAN /\ active \in BOOLEAN
  /\ panel.shift \in [row : Rows, plane : Planes, picture : Picture]
  /\ panel.shown \in [row : Rows, plane : Planes, picture : Picture]
  /\ panel.high \subseteq Lines /\ panel.lit \in BOOLEAN

\* While the LEDs are lit, the address lines select the row whose data the
\* panel latched, and the time they stay lit is the weight of the latched
\* plane: the row, the address and the time come from counters the handler
\* advances in between, and the lines may be toggled rather than written.
RowsInPlace ==
  panel.lit /\ panel.shown.picture # Dark =>
     /\ panel.high = Bits(panel.shown.row)
     /\ \E t \in base : panel.time = t * 2 ^ panel.shown.plane

\* All the planes of a row are lit with one plane 0 time, so that the
\* brightness of a pixel is its binary value: the time is adjusted only
\* between rows.
BinaryWeights == Cardinality(base) <= 1
=============================================================================
