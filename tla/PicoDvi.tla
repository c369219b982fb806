-------------------------------- MODULE PicoDvi --------------------------------
(***************************************************************************)
(* picodvi.Framebuffer on the RP2040: the vendored libdvi                  *)
(* (picodvi/libdvi/dvi.c) and the port's two ends of it                    *)
(* (picodvi_rp2040.c).                                                     *)
(*                                                                         *)
(* Core 1 runs two things.  Its main loop, the encoder, takes the number   *)
(* of a framebuffer row from q_colour_valid and a buffer from q_tmds_free, *)
(* encodes the row and hands the buffer to q_tmds_valid.  The DMA          *)
(* interrupt, once a line, preempts it: it points the DMA at the list for  *)
(* the next line, recycles buffers, and on every second line calls back    *)
(* to queue the next row.  Core 0 builds and takes down the whole.         *)
(*                                                                         *)
(* A row stands for its pixels and `content' for what a buffer decodes to. *)
(* The interrupt is atomic, except that the callback's blocking add may    *)
(* wait for ever: nothing on core 1 runs under it.                         *)
(*                                                                         *)
(* Assumed about time: the encoder falls at most MaxLate rows behind, and  *)
(* core 0 has queued the first two rows before the first active line.      *)
(*                                                                         *)
(* dvi_init() mallocs NBuf buffers of its own and the constructor adds     *)
(* NBuf that it has tagged.  The encoder reads the tag of both; that of    *)
(* dvi_init()'s lies one word past the allocation, and TrailingWords are   *)
(* the outcomes considered: "self" equals the framebuffer's address,       *)
(* "other" does not and gives an index out of range.                       *)
(***************************************************************************)
EXTENDS DviTiming, FiniteSets

CONSTANTS
  Objects, None,
  Height,          \* the framebuffer's rows
  NBuf,            \* DVI_N_TMDS_BUFFERS
  QCap,            \* element_count of the four queues
  MaxLate,
  TrailingWords,
  Pios             \* the chip's PIO blocks

\* The constructor's two rows are there: it queues them without a wrap.
ASSUME SizesAssumption == /\ {NBuf, QCap, Height} \subseteq Nat \ {0}
                          /\ Height > 2
                          /\ 2 * NBuf <= QCap
                          /\ MaxLate \in Nat
ASSUME TrailingAssumption == TrailingWords \subseteq {"self", "other"}
ASSUME PiosAssumption == Pios \subseteq Nat
ASSUME NoneAssumption == None \notin Objects /\ None \notin Nat

Repeat == 2                    \* DVI_VERTICAL_REPEAT
LastRepeat(b) == b.line % Repeat = Repeat - 1
Buffers == 1 .. 2 * NBuf
Tagged == NBuf + 1 .. 2 * NBuf  \* the constructor's
Rows == 0 .. Height - 1

VARIABLES
  beam,             \* timing_state
  loaded,           \* the line the control channels will load next
  sent,             \* the line being sent, and where on the screen
  colourValid, colourFree, tmdsValid, tmdsFree,
  releaseNext, release,
  late,             \* late_scanline_ctr
  irq,              \* "off", "on", "blocked" in the callback, or "panic"
  nextScanline,
  encoder,          \* core 1's main loop
  content,          \* the row each buffer holds
  trailing,         \* the word past dvi_init()'s buffers
  ctor,             \* core 0: "idle", or the constructor's step
  active,           \* active_picodvi
  fb,               \* the objects with a framebuffer
  sms               \* state machines claimed in each PIO

beamVars == <<beam, loaded, sent>>
queues == <<colourValid, colourFree, tmdsValid, tmdsFree>>
irqVars == <<releaseNext, release, late, irq, nextScanline>>
core0 == <<ctor, active, fb, sms>>
vars == <<beamVars, queues, irqVars, encoder, content, trailing, core0>>

IdleEncoder == [pc |-> "off", row |-> 0, buf |-> 0]
NothingSent == [line |-> BlankLine, at |-> FirstBeam]

Init ==
  /\ beam = FirstBeam /\ loaded = BlankLine /\ sent = NothingSent
  /\ colourValid = <<>> /\ colourFree = <<>>
  /\ tmdsValid = <<>> /\ tmdsFree = <<>>
  /\ releaseNext = None /\ release = None
  /\ late = 0 /\ irq = "off" /\ nextScanline = 0
  /\ encoder = IdleEncoder
  /\ content = [b \in Buffers |-> None]
  /\ trailing \in TrailingWords
  /\ ctor = "idle" /\ active = None /\ fb = {}
  /\ sms = [p \in Pios |-> 0]

-----------------------------------------------------------------------------
(* The interrupt, once a line.                                             *)

\* The buffer of two lines ago goes back; a full queue panics.
RecycledEarly == IF releaseNext = None THEN tmdsFree   \* mutant: one line too soon
                 ELSE Append(tmdsFree, releaseNext)
Recycled == IF release = None THEN tmdsFree ELSE Append(tmdsFree, release)
Panics == release # None /\ Len(tmdsFree) = QCap

\* Encoded rows whose place has passed go back unseen.
DropsNone == 0  \* mutant: a late row is shown where the beam is
Dropped == IF late < Len(tmdsValid) THEN late ELSE Len(tmdsValid)
StillValid == SubSeq(tmdsValid, Dropped + 1, Len(tmdsValid))
FreeAgain == Recycled \o SubSeq(tmdsValid, 1, Dropped)

\* dvi_dma_irq_handler()'s choice for the line at b.
ChosenLine(b) ==
  CASE b.region = "sync" -> SyncLine
    [] b.region \in {"front", "back"} -> BlankLine
    [] b.region = "active" -> IF StillValid = <<>> THEN ErrorLine
                                                   ELSE BufferLine(Head(StillValid))
Taken(b) == b.region = "active" /\ LastRepeat(b) /\ StillValid # <<>>
Missed(b) == b.region = "active" /\ LastRepeat(b) /\ StillValid = <<>>

\* picodvi_core1_scanline_callback(), on the second of a row's lines
CallsOnEach(b) == b.region = "active"  \* mutant
CallsBack(b) == b.region = "active" /\ LastRepeat(b)
NextRowPastEnd == IF nextScanline >= Height THEN 0 ELSE nextScanline + 1  \* mutant
NextRow == IF nextScanline + 1 >= Height THEN 0 ELSE nextScanline + 1
Callback ==
  IF Len(colourValid) = QCap
    THEN irq' = "blocked" /\ UNCHANGED <<colourValid, colourFree, nextScanline>>
    ELSE /\ colourValid' = Append(colourValid, nextScanline)
         /\ colourFree' = <<>>
         /\ nextScanline' = NextRow
         /\ irq' = irq
LateAfter(b) == late - Dropped + (IF Missed(b) THEN 1 ELSE 0)

StartsInTime(b) == b.region = "active" => ctor = "idle"
KeepsUp(b) == LateAfter(b) <= MaxLate

DmaIrq ==
  LET b == NextBeam(beam) IN
  /\ irq = "on"
  /\ StartsInTime(b) /\ KeepsUp(b)
  /\ IF Panics
       THEN /\ irq' = "panic"
            /\ UNCHANGED <<beamVars, queues, releaseNext, release, late, nextScanline>>
       ELSE /\ beam' = b
            /\ sent' = [line |-> loaded, at |-> beam]
            /\ loaded' = ChosenLine(b)
            /\ tmdsFree' = FreeAgain
            /\ tmdsValid' = IF Taken(b) THEN Tail(StillValid) ELSE StillValid
            /\ release' = releaseNext
            /\ releaseNext' = IF Taken(b) THEN Head(StillValid) ELSE None
            /\ late' = LateAfter(b)
            /\ IF CallsBack(b)
                 THEN Callback
                 ELSE UNCHANGED <<colourValid, colourFree, nextScanline, irq>>
  /\ UNCHANGED <<encoder, content, trailing, core0>>

-----------------------------------------------------------------------------
(* The encoder: picodvi_core1_main().                                      *)

Runs == irq # "blocked" /\ irq # "panic"

\* The first row starts the DMA and the serialiser.
StartDvi ==
  /\ encoder.pc = "boot" /\ colourValid # <<>>
  /\ encoder' = [encoder EXCEPT !.pc = "row"]
  /\ irq' = "on"
  /\ UNCHANGED <<beamVars, queues, releaseNext, release, late, nextScanline,
                 content, trailing, core0>>

TakeRow ==
  /\ Runs /\ encoder.pc = "row" /\ colourValid # <<>>
  /\ encoder' = [encoder EXCEPT !.pc = "buffer", !.row = Head(colourValid)]
  /\ colourValid' = Tail(colourValid)
  /\ UNCHANGED <<beamVars, colourFree, tmdsValid, tmdsFree, irqVars, content,
                 trailing, core0>>

\* The tag says whether the framebuffer has moved since.
TagMatches(b) == b \in Tagged \/ trailing = "self"
TakeBuffer ==
  /\ Runs /\ encoder.pc = "buffer" /\ tmdsFree # <<>>
  /\ LET b == Head(tmdsFree) IN
       IF TagMatches(b)
         THEN /\ encoder' = [encoder EXCEPT !.pc = "encode", !.buf = b]
              /\ content' = [content EXCEPT ![b] = None]
         ELSE /\ encoder' = [encoder EXCEPT !.pc = "hang", !.buf = b]
              /\ UNCHANGED content
  /\ tmdsFree' = Tail(tmdsFree)
  /\ UNCHANGED <<beamVars, colourValid, colourFree, tmdsValid, irqVars,
                 trailing, core0>>

Encode ==
  /\ Runs /\ encoder.pc = "encode" /\ Len(tmdsValid) < QCap
  /\ content' = [content EXCEPT ![encoder.buf] = encoder.row]
  /\ tmdsValid' = Append(tmdsValid, encoder.buf)
  /\ encoder' = [encoder EXCEPT !.pc = "give", !.buf = 0]
  /\ UNCHANGED <<beamVars, colourValid, colourFree, tmdsFree, irqVars,
                 trailing, core0>>

GiveRow ==
  /\ Runs /\ encoder.pc = "give" /\ Len(colourFree) < QCap
  /\ colourFree' = Append(colourFree, encoder.row)
  /\ encoder' = [encoder EXCEPT !.pc = "row"]
  /\ UNCHANGED <<beamVars, colourValid, tmdsValid, tmdsFree, irqVars, content,
                 trailing, core0>>

-----------------------------------------------------------------------------
(* Core 0.                                                                 *)

\* picodvi_hw_stop(): core 1 is reset holding neither queue's lock, then the
\* DMA channels are aborted.  The state machines stay claimed.
Stopped ==
  /\ active' = None
  /\ irq' = "off" /\ encoder' = IdleEncoder
  /\ beam' = FirstBeam /\ loaded' = BlankLine /\ sent' = NothingSent
HwStop ==
  /\ IF active # None
       THEN Stopped
       ELSE UNCHANGED <<active, irq, encoder, beamVars>>
  /\ UNCHANGED <<queues, releaseNext, release, late, nextScanline, trailing, content>>

\* dvi_init() and the constructor's buffers
ClearQueues ==
  /\ colourValid' = <<>> /\ colourFree' = <<>> /\ tmdsValid' = <<>>
  /\ tmdsFree' = [k \in Buffers |-> k]
  /\ releaseNext' = None /\ release' = None /\ late' = 0 /\ nextScanline' = 0
  /\ content' = [b \in Buffers |-> None]

FreePios == {p \in Pios : 4 - sms[p] >= 3}
FirstPio == CHOOSE p \in FreePios : \A q \in FreePios : p <= q

\* picodvi_rp2040_construct(), up to the launch of core 1: a bad argument or
\* the lack of state machines is found once the old hardware is down.
ConstructFails ==
  /\ ctor = "idle"
  /\ HwStop
  /\ UNCHANGED <<ctor, fb, sms>>
Construct(o) ==
  /\ ctor = "idle" /\ o \notin fb /\ FreePios # {}
  /\ sms' = [sms EXCEPT ![FirstPio] = @ + 3]
  /\ ClearQueues
  /\ irq' = "off" /\ beam' = FirstBeam /\ loaded' = BlankLine /\ sent' = NothingSent
  /\ encoder' = [IdleEncoder EXCEPT !.pc = "boot"]
  /\ trailing' \in TrailingWords
  /\ ctor' = "first" /\ active' = o /\ fb' = fb \cup {o}

QueueRow(step, following) ==
  /\ ctor = step
  /\ colourValid' = Append(colourValid, nextScanline)
  /\ nextScanline' = nextScanline + 1
  /\ ctor' = following
  /\ UNCHANGED <<beamVars, colourFree, tmdsValid, tmdsFree, releaseNext, release,
                 late, irq, encoder, content, trailing, active, fb, sms>>
QueueFirst == QueueRow("first", "second")
QueueSecond == QueueRow("second", "spin")

\* The constructor returns once core 1 has taken a row.
Ready ==
  /\ ctor = "spin" /\ Len(colourValid) # 2
  /\ ctor' = "idle"
  /\ UNCHANGED <<beamVars, queues, irqVars, encoder, content, trailing, active, fb, sms>>

\* deinit() of any object that still has its framebuffer stops the hardware.
DeinitOfOther(o) ==   \* mutant: the comparison with the active object is inverted
  /\ ctor = "idle" /\ o \in fb
  /\ IF active # o THEN HwStop
       ELSE UNCHANGED <<active, beamVars, queues, irqVars, encoder, content, trailing>>
  /\ fb' = fb \ {o}
  /\ UNCHANGED <<ctor, sms>>
Deinit(o) ==
  /\ ctor = "idle" /\ o \in fb
  /\ HwStop
  /\ fb' = fb \ {o}
  /\ UNCHANGED <<ctor, sms>>

\* The teardown runs before the heap is swept.
SoftReset ==
  /\ ctor = "idle" /\ fb # {}
  /\ HwStop
  /\ fb' = {}
  /\ UNCHANGED <<ctor, sms>>

Next == \/ DmaIrq \/ StartDvi \/ TakeRow \/ TakeBuffer \/ Encode \/ GiveRow
        \/ ConstructFails \/ QueueFirst \/ QueueSecond \/ Ready \/ SoftReset
        \/ \E o \in Objects : Construct(o) \/ Deinit(o)

Spec == Init /\ [][Next]_vars

-----------------------------------------------------------------------------
(* Properties.                                                             *)

Lines == {BlankLine, SyncLine, ErrorLine} \cup {BufferLine(b) : b \in Buffers}

TypeOK ==
  /\ beam \in Beams /\ loaded \in Lines
  /\ sent \in [line : Lines, at : Beams]
  /\ colourValid \in Seq(Rows) /\ colourFree \in Seq(Rows)
  /\ tmdsValid \in Seq(Buffers) /\ tmdsFree \in Seq(Buffers)
  /\ \A q \in {colourValid, colourFree, tmdsValid, tmdsFree} : Len(q) <= QCap
  /\ {releaseNext, release} \subseteq Buffers \cup {None}
  /\ late \in 0 .. MaxLate
  /\ irq \in {"off", "on", "blocked", "panic"}
  /\ nextScanline \in Rows
  /\ encoder \in [pc : {"off", "boot", "row", "buffer", "encode", "give", "hang"},
                  row : Rows, buf : 0 .. 2 * NBuf]
  /\ content \in [Buffers -> Rows \cup {None}]
  /\ trailing \in TrailingWords
  /\ ctor \in {"idle", "first", "second", "spin"}
  /\ active \in Objects \cup {None} /\ fb \subseteq Objects
  /\ sms \in [Pios -> 0 .. 4]

\* What the DMA sends for a line of the screen is that line's: the sync or
\* the blank list in the blanking, and in the active lines the framebuffer's
\* row, whole, or the error line, however late the encoder is.  Rows encoded
\* too late are dropped and no buffer is written while the beam is in it.
LineInPlace ==
  /\ sent.line.list = "sync" <=> sent.at.region = "sync"
  /\ sent.line.list = "nosync" <=> sent.at.region \in {"front", "back"}
  /\ sent.line.list = "active" =>
       content[sent.line.buf] = sent.at.line \div Repeat

\* A TMDS buffer is never lost and never in two places: while core 1 runs,
\* each is in one queue, with the encoder, or on its way back from the beam.
Held(b) ==
  Cardinality({k \in DOMAIN tmdsFree : tmdsFree[k] = b})
    + Cardinality({k \in DOMAIN tmdsValid : tmdsValid[k] = b})
    + (IF encoder.buf = b THEN 1 ELSE 0)
    + (IF releaseNext = b THEN 1 ELSE 0) + (IF release = b THEN 1 ELSE 0)
BuffersConserved == active # None => \A b \in Buffers : Held(b) = 1

\* The interrupt never waits for the loop it preempts and never panics, as
\* long as the encoder is at most MaxLate rows behind.
IrqServes == irq \notin {"blocked", "panic"}

\* For every line sent, the three lanes carry equally many words before and
\* after the active region starts, and one interrupt is raised, by the sync
\* lane, just before it: the lanes cannot drift apart.
LanesInStep ==
  LET blocks(l) == LaneBlocks(sent.line, l)
      words(l) == WordsSent(blocks(l))
      last(l) == Len(blocks(l))
  IN \A l \in Lanes :
       /\ words(l)[last(l)] = words(SyncLane)[last(SyncLane)]
       /\ words(l)[last(l) - 1] = words(SyncLane)[last(SyncLane) - 1]
       /\ {k \in 1 .. last(l) : blocks(l)[k].irq}
            = IF l = SyncLane THEN {last(l) - 1} ELSE {}

\* What core 1 and the DMA read and write is allocated: the object they work
\* for still has its framebuffer.
ScansAllocated == active # None => active \in fb
=============================================================================
