------------------------------- MODULE Rt1176Dsi -------------------------------
(***************************************************************************)
(* mipidsi on the i.MX RT1176 (src/src/ports/mimxrt/mod_mipidsi.c over     *)
(* mimxrt1176_dsi_display.c): one DSI host and one LCDIFv2, with a flag    *)
(* each, and Bus and Display objects of which any may be stale.            *)
(*                                                                         *)
(* The program is taken to keep a reference to a Display it has not        *)
(* deinited: the type has no finaliser, so a dropped object's buffer is    *)
(* swept while the LCDIFv2 may be reading it.                              *)
(***************************************************************************)
EXTENDS Naturals, Sequences

CONSTANTS Buses, Displays,  \* the program's variables for objects
          None,             \* NULL, and no object
          Blocks            \* GC heap blocks for frame buffers

VARIABLES
  host,   \* s_dsi_bus_ready and s_dsi_display_ready
  live,   \* the blocks that are allocated
  objs,   \* the objects
  call,   \* the call in progress, or None
  scan    \* the blocks the LCDIFv2 may be reading

vars == <<host, live, objs, call, scan>>

Begin(op, self, steps) ==
  call' = [op |-> op, self |-> self, buf |-> None, steps |-> steps]
Step(s) == call # None /\ call.steps # << >> /\ Head(call.steps) = s
Continue == call' = [call EXCEPT !.steps = Tail(@)]

\* mipidsi_host_teardown().
BusFirst == <<"bus_deinit", "display_stop">>
HostTeardown == <<"display_stop", "bus_deinit">>

BusMake(b) ==
  /\ call = None
  /\ objs[b] # None => objs[b].deinited
  /\ Begin("bus_make", b, HostTeardown \o <<"bus_init">>)
  /\ UNCHANGED <<host, live, objs, scan>>

\* The guard asks the Bus object, not the host, whether there is a bus.
DisplayMake(d, b) ==
  /\ call = None
  /\ objs[d] # None => objs[d].deinited
  /\ objs[b] # None /\ ~objs[b].deinited
  /\ Begin("display_make", d, <<"display_stop", "malloc", "display_start",
                                "lcdif_start">>)
  /\ UNCHANGED <<host, live, objs, scan>>

\* Bus.deinit() takes a display down with the bus; Display.deinit() stops
\* whatever is shown and frees its own buffer.
Deinit(o) ==
  /\ call = None
  /\ objs[o] # None /\ ~objs[o].deinited
  /\ Begin("deinit", o, IF o \in Buses THEN HostTeardown
                                       ELSE <<"display_stop", "free">>)
  /\ UNCHANGED <<host, live, objs, scan>>

\* The hook, then the sweep of the whole heap.
SoftReset ==
  /\ call = None
  /\ Begin("soft_reset", None, HostTeardown \o <<"sweep">>)
  /\ UNCHANGED <<host, live, objs, scan>>

-----------------------------------------------------------------------------
(* The steps.                                                              *)

DisplayStop ==
  /\ Step("display_stop")
  /\ host' = [host EXCEPT !.display = FALSE]
  /\ scan' = IF host.display THEN {} ELSE scan
  /\ Continue
  /\ UNCHANGED <<live, objs>>

BusDeinit ==
  /\ Step("bus_deinit")
  /\ host' = [host EXCEPT !.bus = FALSE]
  /\ Continue
  /\ UNCHANGED <<live, objs, scan>>

BusInit ==
  /\ Step("bus_init")
  /\ host' = [host EXCEPT !.bus = TRUE]
  /\ Continue
  /\ UNCHANGED <<live, objs, scan>>

Malloc ==
  /\ Step("malloc")
  /\ \/ \E block \in Blocks \ live :
          /\ live' = live \cup {block}
          /\ call' = [call EXCEPT !.steps = Tail(@), !.buf = block]
     \/ call' = None /\ UNCHANGED live
  /\ UNCHANGED <<host, objs, scan>>

\* displayif_mimxrt1176_dsi_display_start(): the bus may be down, or the
\* panel or the bridge refuse a command; the buffer is then garbage.
DisplayStart ==
  /\ Step("display_start")
  /\ \/ /\ host.bus
        /\ host' = [host EXCEPT !.display = TRUE]
        /\ Continue
        /\ UNCHANGED live
     \/ /\ live' = live \ {call.buf}
        /\ call' = None
        /\ UNCHANGED host
  /\ UNCHANGED <<objs, scan>>

LcdifStart ==
  /\ Step("lcdif_start")
  /\ scan' = IF host.bus THEN {call.buf} ELSE scan
  /\ Continue
  /\ UNCHANGED <<host, live, objs>>

Free ==
  /\ Step("free")
  /\ live' = live \ {objs[call.self].buf}
  /\ Continue
  /\ UNCHANGED <<host, objs, scan>>

Sweep ==
  /\ Step("sweep")
  /\ live' = {}
  /\ Continue
  /\ UNCHANGED <<host, objs, scan>>

Return ==
  /\ call # None
  /\ call.steps = << >>
  /\ objs' = CASE call.op \in {"bus_make", "display_make"} ->
                    [objs EXCEPT ![call.self] = [buf |-> call.buf,
                                                 deinited |-> FALSE]]
               [] call.op = "deinit" ->
                    [objs EXCEPT ![call.self] = [buf |-> None,
                                                 deinited |-> TRUE]]
               [] OTHER -> [o \in Buses \cup Displays |-> None]
  /\ call' = None
  /\ UNCHANGED <<host, live, scan>>

\* refresh(): the cache is cleaned over the whole buffer, which is then
\* shown if a display runs, whosever it is.
Refresh(d) ==
  /\ call = None
  /\ objs[d] # None /\ ~objs[d].deinited /\ objs[d].buf # None
  /\ scan' = IF host.display THEN scan \cup {objs[d].buf} ELSE scan
  /\ UNCHANGED <<host, live, objs, call>>

\* The end of a frame.
Latched ==
  /\ \E block \in scan : scan' = {block}
  /\ UNCHANGED <<host, live, objs, call>>

Init == /\ host = [bus |-> FALSE, display |-> FALSE]
        /\ live = {}
        /\ objs = [o \in Buses \cup Displays |-> None]
        /\ call = None
        /\ scan = {}

Next == \/ \E b \in Buses : BusMake(b)
        \/ \E d \in Displays, b \in Buses : DisplayMake(d, b)
        \/ \E o \in Buses \cup Displays : Deinit(o)
        \/ SoftReset
        \/ DisplayStop \/ BusDeinit \/ BusInit \/ Malloc \/ DisplayStart
        \/ LcdifStart \/ Free \/ Sweep \/ Return
        \/ \E d \in Displays : Refresh(d)
        \/ Latched

-----------------------------------------------------------------------------
\* The LCDIFv2 reads allocated blocks only, and only while both flags say it
\* may: a flag that is wrong would let the next teardown pass it over.
ScanRight == /\ scan \subseteq live
             /\ scan # {} => host.bus /\ host.display

\* A Display that is not deinited owns its block: none is freed twice.
ReleasedOnce ==
  /\ \A d \in Displays : objs[d] # None /\ ~objs[d].deinited /\ call = None
                          => objs[d].buf \in live
  /\ \A d, e \in Displays :
       d # e /\ objs[d] # None /\ objs[e] # None /\ objs[d].buf # None
         => objs[d].buf # objs[e].buf
=============================================================================
