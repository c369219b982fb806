------------------------------- MODULE DviTiming -------------------------------
(***************************************************************************)
(* Where the beam is, and what the DMA sends on each of the three TMDS     *)
(* lanes while it draws one line                                           *)
(* (src/src/ports/rp2/picodvi/libdvi/dvi_timing.c).                        *)
(*                                                                         *)
(* A line is four control blocks on the sync lane and two on each of the   *)
(* others; a block repeats or reads its source for a number of words.  One *)
(* block, the sync lane's back porch, raises the interrupt that has to     *)
(* supply the next line.                                                   *)
(***************************************************************************)
EXTENDS Integers, Sequences

CONSTANTS
  VFront, VSync, VBack, VActive,   \* lines of each vertical region
  HFront, HSync, HBack, HActive,   \* pixels of each horizontal region
  VPolarity, HPolarity             \* v_sync_polarity, h_sync_polarity

ASSUME LinesAssumption == {VFront, VSync, VBack, VActive} \subseteq Nat \ {0}
\* DVI_SYMBOLS_PER_WORD divides every horizontal timing of the tables.
ASSUME PixelsAssumption == /\ {HFront, HSync, HBack, HActive} \subseteq Nat \ {0}
                           /\ \A p \in {HFront, HSync, HBack, HActive} : p % 2 = 0
ASSUME PolarityAssumption == {VPolarity, HPolarity} \subseteq BOOLEAN

Lanes == 0 .. 2
SyncLane == 0
Regions == <<"front", "sync", "back", "active">>
LinesOf == [front |-> VFront, sync |-> VSync, back |-> VBack, active |-> VActive]
FollowingRegion == [front |-> "sync", sync |-> "back", back |-> "active",
                    active |-> "front"]
Beams == {b \in [region : {Regions[k] : k \in 1 .. 4},
                 line : 0 .. VFront + VSync + VBack + VActive] :
            b.line < LinesOf[b.region]}

FirstBeam == [region |-> "front", line |-> 0]
NextBeam(b) ==
  IF b.line + 1 = LinesOf[b.region]
    THEN [region |-> FollowingRegion[b.region], line |-> 0]
    ELSE [b EXCEPT !.line = @ + 1]

-----------------------------------------------------------------------------
(* Control blocks.  A source is a control symbol, a lane's third of a TMDS *)
(* buffer, or the solid red that stands for a line that is not ready.      *)

Ctrl(vsync, hsync) == <<"ctrl", vsync, hsync>>
Block(source, pixels, irq) ==
  [source |-> source, words |-> pixels \div 2, irq |-> irq]

SyncPorches(vsync) ==
  << Block(Ctrl(vsync, ~HPolarity), HFront, FALSE),
     Block(Ctrl(vsync,  HPolarity), HSync,  FALSE),
     Block(Ctrl(vsync, ~HPolarity), HBack,  TRUE) >>
PlainPorchesShort == <<Block(Ctrl(FALSE, FALSE), HSync + HBack, FALSE)>>  \* mutant: no front porch
PlainPorches == <<Block(Ctrl(FALSE, FALSE), HFront + HSync + HBack, FALSE)>>

\* dvi_setup_scanline_for_vblank()
VblankLane(asserted, lane) ==
  LET vsync == VPolarity = asserted IN
  IF lane = SyncLane
    THEN Append(SyncPorches(vsync), Block(Ctrl(vsync, ~HPolarity), HActive, FALSE))
    ELSE Append(PlainPorches, Block(Ctrl(FALSE, FALSE), HActive, FALSE))

\* dvi_setup_scanline_for_active(), dvi_update_scanline_data_dma()
ActiveLane(source, lane) ==
  Append(IF lane = SyncLane THEN SyncPorches(~VPolarity) ELSE PlainPorches,
         Block(Append(source, lane), HActive, FALSE))

\* The four lists of an instance; only the active one is rewritten.
BlankLine == [list |-> "nosync", buf |-> 0]
SyncLine == [list |-> "sync", buf |-> 0]
ErrorLine == [list |-> "error", buf |-> 0]
BufferLine(b) == [list |-> "active", buf |-> b]

LaneBlocks(line, lane) ==
  CASE line.list = "nosync" -> VblankLane(FALSE, lane)
    [] line.list = "sync" -> VblankLane(TRUE, lane)
    [] line.list = "error" -> ActiveLane(<<"red">>, lane)
    [] line.list = "active" -> ActiveLane(<<"tmds", line.buf>>, lane)

\* The words a lane has sent after its first k blocks.
WordsSent(blocks) ==
  LET sent[k \in 0 .. Len(blocks)] ==
        IF k = 0 THEN 0 ELSE sent[k - 1] + blocks[k].words
  IN sent
=============================================================================
