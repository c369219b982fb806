------------------------------ MODULE PicoDviHstx ------------------------------
(***************************************************************************)
(* picodvi.Framebuffer on the RP2350                                       *)
(* (src/src/ports/rp2/picodvi_rp2350.c): a list of DMA commands for a      *)
(* frame, a command channel that copies each into the pixel channel's      *)
(* registers, the pixel channel that feeds the HSTX and chains back, and   *)
(* an interrupt at the list's end that starts it anew.                     *)
(*                                                                         *)
(* A block stands for an object's frame buffer and command list, which are *)
(* freed together.  The program is taken to keep a reference to an object  *)
(* it has not deinited: active_picodvi is no root of the collector.        *)
(***************************************************************************)
EXTENDS Naturals, Sequences, FiniteSets, SequencesExt

CONSTANTS Objects,  \* the program's variables for objects
          None,     \* NULL, and no object
          Blocks,   \* GC heap blocks
          Channels, \* the chip's DMA channels
          Claimed,  \* the sets of them tried that other code has claimed
          Depths,   \* the color_depth arguments tried
          VFront, VSync, VBack, VActive,  \* the lines of the output mode
          OutputWidth                     \* and its pixels per line

VARIABLES
  host,   \* s_hw and active_picodvi
  live,   \* the blocks allocated and the channels claimed, and which of the
          \* latter are other code's or lost (history)
  objs,   \* each object's block, or None when deinited
  call,   \* the call in progress, or None
  scan    \* the two channels, the interrupt and the list they work from

vars == <<host, live, objs, call, scan>>

-----------------------------------------------------------------------------
(* The command list.                                                       *)

\* picodvi_rp2350_preflight(): the output mode in full, halves and quarters.
Preflight(width, height, depth) ==
  \E scaling \in {1, 2, 4} :
    /\ width * scaling = OutputWidth /\ height * scaling = VActive
    /\ depth \in IF scaling = 1 THEN {1, 2, 4, 8} ELSE {8, 16, 32}

Modes == {m \in [width : 1 .. OutputWidth, height : 1 .. VActive, depth : Depths] :
            Preflight(m.width, m.height, m.depth)}

Scaling(m) == OutputWidth \div m.width
Pitch(m) == ((m.width * m.depth) \div 8 + 3) \div 4      \* words
TotalLines == VFront + VSync + VBack + VActive
CommandWords(m) == IF Scaling(m) > 1 THEN 4 ELSE 2
CommandsLen(m) ==
  (VFront + VSync + VBack + 2 * VActive + 1) * CommandWords(m)

Header(what) == [what |-> what, row |-> None, count |-> None, bits |-> 32]
NullCommand == Header("null")

\* A row of pixels: one transfer for each pixel, or for each word.
RowUnscaled(m, v) ==           \* mutant: the row is not divided
  [what |-> "row", row |-> v - (VSync + VBack),
   count |-> IF Scaling(m) > 1 THEN m.width ELSE Pitch(m),
   bits |-> IF Scaling(m) > 1 THEN m.depth ELSE 32]
RowCommand(m, v) ==
  [what |-> "row", row |-> (v - (VSync + VBack)) \div Scaling(m),
   count |-> IF Scaling(m) > 1 THEN m.width ELSE Pitch(m),
   bits |-> IF Scaling(m) > 1 THEN m.depth ELSE 32]

LineCommands(m, v) ==
  IF v < VSync THEN <<Header("sync")>>
  ELSE IF v < VSync + VBack \/ v >= TotalLines - VFront
    THEN <<Header("blank")>>
    ELSE <<Header("active"), RowCommand(m, v)>>

FrameList(m) ==
  FlattenSeq([k \in 1 .. TotalLines |-> LineCommands(m, k - 1)])
    \o <<NullCommand>>

-----------------------------------------------------------------------------
(* The hardware.                                                           *)

\* again: what the pixel channel works on it was given after it was stopped
\* (history).
Px == [en |-> FALSE, at |-> None, again |-> FALSE]
Off == [px |-> Px, cmd |-> [en |-> FALSE, at |-> None, next |-> 1],
        irq |-> FALSE, on |-> FALSE, from |-> None, mode |-> None, list |-> << >>]

\* The command channel copies a command.  A scaled mode's holds the control
\* word too, and enables the pixel channel; one that is disabled ignores the
\* rest.  The null command raises the interrupt.
Load ==
  /\ scan.cmd.at # None
  /\ LET command == scan.list[scan.cmd.at]
         en == scan.px.en \/ Scaling(scan.mode) > 1
     IN scan' = [scan EXCEPT
          !.px = [en |-> en,
                  at |-> IF en /\ command.what # "null" THEN scan.cmd.at
                                                        ELSE None,
                  again |-> <<"dma", host.px>> \notin live],
          !.irq = @ \/ command.what = "null",
          !.cmd.at = None,
          !.cmd.next = scan.cmd.at + 1]
  /\ UNCHANGED <<host, live, objs, call>>

\* The pixel channel is done with a command and chains.
Chain ==
  /\ scan.px.at # None
  /\ scan' = [scan EXCEPT !.px.at = None, !.px.again = FALSE,
                          !.cmd.at = IF scan.cmd.en THEN scan.cmd.next
                                                    ELSE @]
  /\ UNCHANGED <<host, live, objs, call>>

\* dma_irq_handler().
Restarted(s) == [s EXCEPT !.irq = FALSE,
                          !.cmd.at = IF s.cmd.en THEN 1 ELSE @]
DmaIrq ==
  /\ scan.irq /\ scan.on /\ host.active # None
  /\ scan' = Restarted(scan)
  /\ UNCHANGED <<host, live, objs, call>>

-----------------------------------------------------------------------------
(* The calls.                                                              *)

HwStop == IF host.live THEN <<"pixel_off", "command_off", "irq_off">>
                       ELSE << >>

Begin(op, self, mode, steps) ==
  call' = [op |-> op, self |-> self, mode |-> mode, block |-> None,
           px |-> None, cmd |-> None, steps |-> steps]
Step(s) == call # None /\ call.steps # << >> /\ Head(call.steps) = s
Continue == call' = [call EXCEPT !.steps = Tail(@)]

Construct(o, m) ==
  /\ call = None
  /\ objs[o] = None
  /\ Begin("construct", o, m, HwStop \o <<"malloc", "claim", "start">>)
  /\ UNCHANGED <<host, live, objs, scan>>

Deinit ==
  \E o \in Objects :
    /\ call = None
    /\ objs[o] # None
    /\ Begin("deinit", o, None, HwStop \o <<"free">>)
    /\ UNCHANGED <<host, live, objs, scan>>

\* The hook, then the sweep of the whole heap.
SoftReset ==
  /\ call = None
  /\ Begin("soft_reset", None, None, HwStop \o <<"sweep">>)
  /\ UNCHANGED <<host, live, objs, scan>>

\* _turn_off_dma(), for the one channel and for the other.
PixelOff ==
  /\ Step("pixel_off")
  /\ scan' = [scan EXCEPT !.px = Px]
  /\ live' = live \ {<<"dma", host.px>>}
  /\ Continue
  /\ UNCHANGED <<host, objs>>

CommandOff ==
  /\ Step("command_off")
  /\ scan' = [scan EXCEPT !.cmd.en = FALSE, !.cmd.at = None]
  /\ live' = live \ {<<"dma", host.cmd>>}
  /\ Continue
  /\ UNCHANGED <<host, objs>>

\* A pixel channel that was started again goes on.
Stopped == IF scan.px.at = None THEN Off ELSE [scan EXCEPT !.on = FALSE]
IrqOffStaysLive ==      \* mutant: hw_live is not reset
  /\ Step("irq_off")
  /\ scan' = Stopped
  /\ host' = [host EXCEPT !.active = None]
  /\ Continue
  /\ UNCHANGED <<live, objs>>
IrqOff ==
  /\ Step("irq_off")
  /\ scan' = Stopped
  /\ host' = [host EXCEPT !.active = None, !.live = FALSE]
  /\ Continue
  /\ UNCHANGED <<live, objs>>

Malloc ==
  /\ Step("malloc")
  /\ \/ \E b \in Blocks :
          /\ <<"block", b>> \notin live
          /\ live' = live \cup {<<"block", b>>}
          /\ call' = [call EXCEPT !.steps = Tail(@), !.block = b]
     \/ call' = None /\ UNCHANGED live
  /\ UNCHANGED <<host, objs, scan>>

\* The lowest free channel and the next; or a raise that frees the block
\* and, since the hardware is not live yet, loses the one there was.
Claim ==
  /\ Step("claim")
  /\ LET Free == {c \in Channels : <<"dma", c>> \notin live}
         Lowest(C) == CHOOSE c \in C : \A d \in C : c <= d
         p == Lowest(Free)
         c == Lowest(Free \ {p})
     IN IF Cardinality(Free) >= 2
          THEN /\ live' = live \cup {<<"dma", p>>, <<"dma", c>>}
               /\ call' = [call EXCEPT !.steps = Tail(@), !.px = p, !.cmd = c]
          ELSE /\ live' = (live \cup ({"dma", "lost"} \X Free))
                            \ {<<"block", call.block>>}
               /\ call' = None
  /\ UNCHANGED <<host, objs, scan>>

\* The list, both channels and the first call of the interrupt handler.
Start ==
  /\ Step("start")
  /\ host' = [live |-> TRUE, px |-> call.px, cmd |-> call.cmd,
              active |-> call.self]
  /\ scan' = Restarted([scan EXCEPT !.px.en = Scaling(call.mode) = 1,
                                    !.cmd.en = TRUE, !.on = TRUE,
                                    !.from = call.block, !.mode = call.mode,
                                    !.list = FrameList(call.mode)])
  /\ Continue
  /\ UNCHANGED <<live, objs>>

Free ==
  /\ Step("free")
  /\ live' = live \ {<<"block", objs[call.self]>>}
  /\ Continue
  /\ UNCHANGED <<host, objs, scan>>

Sweep ==
  /\ Step("sweep")
  /\ live' = live \ {<<"block", b>> : b \in Blocks}
  /\ Continue
  /\ UNCHANGED <<host, objs, scan>>

Return ==
  /\ call # None
  /\ call.steps = << >>
  /\ objs' = CASE call.op = "construct" ->
                    [objs EXCEPT ![call.self] = call.block]
               [] call.op = "deinit" -> [objs EXCEPT ![call.self] = None]
               [] OTHER -> [o \in Objects |-> None]
  /\ call' = None
  /\ UNCHANGED <<host, live, scan>>

Init == /\ host = [live |-> FALSE, px |-> None, cmd |-> None, active |-> None]
        /\ \E others \in Claimed :
             live = {<<k, c>> : k \in {"dma", "other"}, c \in others}
        /\ objs = [o \in Objects |-> None]
        /\ call = None
        /\ scan = Off

Next == \/ Load \/ Chain \/ DmaIrq
        \/ \E o \in Objects, m \in Modes : Construct(o, m)
        \/ Deinit \/ SoftReset
        \/ PixelOff \/ CommandOff \/ IrqOff
        \/ Malloc \/ Claim \/ Start \/ Free \/ Sweep \/ Return

-----------------------------------------------------------------------------
(* Properties.                                                             *)

\* The list fills its allocation and has one null command, its last.  The
\* screen's line l shows the row it is on: its second command reads, within
\* that row of the frame buffer, as many pixels as a line of the output has.
RowRight(m, l) ==
  LET command == scan.list[VSync + VBack + 2 * (l + 1)]
  IN /\ command.row \in 0 .. m.height - 1
     /\ l \in command.row * Scaling(m) .. (command.row + 1) * Scaling(m) - 1
     /\ command.count * command.bits <= Pitch(m) * 32
     /\ IF Scaling(m) > 1 THEN command.count * Scaling(m) = OutputWidth
                          ELSE command.count * 32 >= OutputWidth * m.depth
FrameListRight ==
  scan.mode # None =>
    /\ Len(scan.list) * CommandWords(scan.mode) = CommandsLen(scan.mode)
    /\ \A k \in DOMAIN scan.list :
         scan.list[k] = NullCommand <=> k = Len(scan.list)
    /\ \A l \in 0 .. VActive - 1 : RowRight(scan.mode, l)

\* Neither channel reads freed memory or runs unclaimed, at any point of a
\* teardown, but for the line that the pixel channel of a scaled mode may be
\* given again between its own stop and the command channel's.
ScanRight ==
  /\ scan.cmd.at # None => {<<"dma", host.cmd>>, <<"block", scan.from>>} \subseteq live
  /\ scan.px.at # None =>
       \/ {<<"dma", host.px>>, <<"block", scan.from>>} \subseteq live
       \/ scan.px.again

\* Between calls the channels claimed are the mirror's two while it is live,
\* other code's and those that were lost, no two of which share one, so that
\* no channel is unclaimed under another owner; the blocks allocated are the
\* objects', one each.
ReleasedOnce ==
  call = None =>
    /\ \A c \in Channels :
         <<"dma", c>> \in live <=> \/ host.live /\ c \in {host.px, host.cmd}
                                \/ <<"other", c>> \in live
                                \/ <<"lost", c>> \in live
    /\ host.live => /\ host.px # host.cmd
                    /\ {<<k, c>> : k \in {"other", "lost"},
                                   c \in {host.px, host.cmd}} \cap live = {}
    /\ \A b \in Blocks : <<"block", b>> \in live <=> \E o \in Objects : objs[o] = b
    /\ \A o, p \in Objects : o # p /\ objs[o] # None => objs[o] # objs[p]
=============================================================================
