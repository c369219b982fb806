------------------------------- MODULE MCHosts -------------------------------
(***************************************************************************)
(* The ports that drive a panel without the CPU's help: one of them is     *)
(* chosen at the start, and what is checked of all of them is that memory  *)
(* and hardware are released once, after the last use, whatever objects    *)
(* are made, made stale and deinited, and that what is shown is right.     *)
(*                                                                         *)
(* The RP2040's port has variables of its own; the others, of which each   *)
(* is a host mirror, allocations, objects, a call in progress and a        *)
(* scanning engine, share theirs.                                          *)
(***************************************************************************)
EXTENDS PicoDvi, TLC

\* The RP2040's two PIO blocks.
MCPios == {0, 1}

\* Either other code has claimed no DMA channel or all but one.
MCClaimed == {{}, {1}}

CONSTANTS Buses, DsiBuses, Blocks, Handles, Channels,
          HstxClaimed, HstxDepths, HstxFront, HstxSync, HstxBack, HstxActive,
          HstxWidth

VARIABLES which, host, live, objs, call, scan

shared == <<host, live, objs, call, scan>>

\* The ESP32-P4's cache lines are no multiple of a row.
Mipidsi == INSTANCE EspMipidsi
             WITH Displays <- Objects, LineSize <- 4, Stride <- 3, Height <- 2
I80 == INSTANCE EspI80
Pio == INSTANCE PioI80 WITH StateMachines <- {0, 1}
ElcdifPort == INSTANCE Elcdif
Dsi == INSTANCE Rt1176Dsi WITH Buses <- DsiBuses, Displays <- Objects
Hstx == INSTANCE PicoDviHstx
          WITH Claimed <- HstxClaimed, Depths <- HstxDepths, VFront <- HstxFront,
               VSync <- HstxSync, VBack <- HstxBack, VActive <- HstxActive,
               OutputWidth <- HstxWidth

\* The output modes' widths, 640 and 720, are multiples of eight.
ASSUME HstxAssumption ==
  /\ {HstxFront, HstxSync, HstxBack} \subseteq Nat
  /\ {HstxActive, HstxWidth} \subseteq Nat \ {0} /\ HstxWidth % 8 = 0
  /\ HstxDepths \subseteq Nat /\ HstxClaimed \subseteq SUBSET Channels

\* NULL is no address and no call, and the variables of two kinds of object
\* are different ones.  The SDK claims channels by number.
Named == Objects \cup Buses \cup DsiBuses \cup {None}
Op == {"make", "bus_make", "display_make", "construct", "raise", "deinit",
       "soft_reset"}
Stage == {"teardown", "malloc", "init", "free", "sweep", "display_stop",
          "bus_deinit", "bus_init", "display_start", "lcdif_start",
          "pixel_off", "command_off", "irq_off", "claim", "start"}
HandleStage ==
  [do : {"delete", "new", "try"},
   what : Mipidsi!Kind \cup I80!Kind
            \cup {"init_sequence", "panel_init", "draw_bitmap"}]
ASSUME NullAssumption ==
  /\ None \notin Blocks /\ None \notin Handles
  /\ None \notin Pio!Resource /\ None \notin {"i80", "other", "lost"}
  /\ None \notin Hstx!Modes
  /\ None \notin [op : Op, self : Named, steps : Seq(HandleStage)]
  /\ None \notin [op : Op, self : Named, steps : Seq(HandleStage),
                  made : [I80!Kind -> Handles \cup {None}]]
  /\ None \notin [op : Op, self : Named, buf : Blocks \cup {None},
                  steps : Seq(Stage)]
  /\ None \notin [op : Op, self : Named, mode : Hstx!Modes \cup {None},
                  block : Blocks \cup {None}, px : Channels \cup {None},
                  cmd : Channels \cup {None}, steps : Seq(Stage)]
ASSUME NamesAssumption == /\ (Buses \cup DsiBuses) \cap Objects = {}
                          /\ Channels \subseteq Nat /\ IsFiniteSet(Channels)

HostsInit ==
  /\ Init
  /\ \/ /\ which = "rp2040"
        /\ host = None /\ live = {} /\ objs = None /\ call = None /\ scan = None
     \/ /\ trailing = "self"
        /\ \/ which = "mipidsi" /\ Mipidsi!Init
           \/ which = "i80" /\ I80!Init /\ scan = None
           \/ which = "pio" /\ Pio!Init /\ call = None /\ scan = None
           \/ which = "elcdif" /\ ElcdifPort!Init
           \/ which = "dsi" /\ Dsi!Init
           \/ which = "rp2350" /\ Hstx!Init

HostsNext ==
  /\ UNCHANGED which
  /\ \/ which = "rp2040" /\ Next /\ UNCHANGED shared
     \/ /\ UNCHANGED vars
        /\ \/ which = "mipidsi" /\ Mipidsi!Next
           \/ which = "i80" /\ I80!Next /\ UNCHANGED scan
           \/ which = "pio" /\ Pio!Next /\ UNCHANGED <<call, scan>>
           \/ which = "elcdif" /\ ElcdifPort!Next
           \/ which = "dsi" /\ Dsi!Next
           \/ which = "rp2350" /\ Hstx!Next

HostsSpec == HostsInit /\ [][HostsNext]_<<which, shared, vars>>

-----------------------------------------------------------------------------
\* Which variable an object is in and what a handle's address is do not
\* matter.
Interchangeable ==
  Permutations(Objects) \cup Permutations(Buses) \cup Permutations(Handles)

\* What a port has acquired it releases once.  Handles, state machines and
\* DMA channels are acquired while the mirror (or a running constructor) names
\* them, and a usable object names them too; beyond its reach is only what a
\* constructor that raised has lost, on the two i80 buses and the RP2350.  A
\* frame buffer that an object names, on the two RT ports and the RP2350, is
\* allocated and is no other object's.
ReleasedOnce ==
  CASE which = "mipidsi" -> Mipidsi!ReleasedOnce
    [] which = "i80" -> I80!ReleasedOnce
    [] which = "pio" -> Pio!ReleasedOnce
    [] which = "elcdif" -> ElcdifPort!ReleasedOnce
    [] which = "dsi" -> Dsi!ReleasedOnce
    [] which = "rp2350" -> Hstx!ReleasedOnce
    [] OTHER -> TRUE

\* What a scanning engine reads is allocated, and, where there is a cache,
\* is what was drawn.  Excepted are, on the ESP32-P4, a program that has used
\* a stale object, and, in the RP2350's scaled modes, a line after the stop.
ScanRight ==
  CASE which = "mipidsi" -> Mipidsi!ScanRight
    [] which = "elcdif" -> ElcdifPort!ScanRight
    [] which = "dsi" -> Dsi!ScanRight
    [] which = "rp2350" -> Hstx!ScanRight
    [] OTHER -> TRUE

\* The RP2350's command list paints its frame, line by line.
FrameListRight == which = "rp2350" => Hstx!FrameListRight
=============================================================================
