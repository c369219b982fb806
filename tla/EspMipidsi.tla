------------------------------ MODULE EspMipidsi ------------------------------
(***************************************************************************)
(* mipidsi on the ESP32-P4 (src/src/ports/esp32/mod_mipidsi.c): a Bus and  *)
(* a Display object over one host mirror, s_host, which every constructor, *)
(* every deinit() and the soft-reset hook tear down.                       *)
(*                                                                         *)
(* A call is the sequence of its steps: SDK handles deleted and acquired,  *)
(* with the panel free to read the frame buffer between any two of them.   *)
(* Any acquisition may fail and raise.  An object has no finaliser, so     *)
(* dropping it, or binding its name anew, does nothing to the host.        *)
(*                                                                         *)
(* An object is stale once another one's constructor or deinit() has torn  *)
(* down what it names; the code does not notice, and the object goes on to *)
(* use handles that are gone.  All Displays have one geometry.             *)
(***************************************************************************)
EXTENDS Naturals, Sequences

CONSTANTS
  Buses, Displays,  \* the program's variables for objects
  None,             \* NULL, and no object
  Handles,          \* addresses the SDK and the heap may hand out, per kind
  LineSize,         \* MIPIDSI_CACHE_LINE
  Stride, Height    \* bytes of a row, and rows

VARIABLES
  host,   \* s_host
  live,   \* the handles that are allocated, with their kind
  objs,   \* the objects
  call,   \* the call in progress, or None
  scan    \* what the panel reads, the cache lines memory does not have, and
          \* whether a handle has been used that was gone (history)

vars == <<host, live, objs, call, scan>>

Kind == {"panel", "io", "buf", "dsi", "ldo"}
NoHost == [k \in Kind |-> None]
DeadBus == [dsi |-> None, deinited |-> TRUE]
DeadDisplay == [panel |-> None, buf |-> None, deinited |-> TRUE]

-----------------------------------------------------------------------------
(* The frame buffer and the cache: blit() and fill_rect() write rows and   *)
(* then sync the lines the rows lie on.                                    *)

AlignUp(n) == LineSize * ((n + LineSize - 1) \div LineSize)
Size == Stride * Height
Lines == 0 .. AlignUp(Size) \div LineSize - 1

\* The lines bytes first to last - 1 lie on.
Touched(first, last) ==
  {l \in Lines : l * LineSize < last /\ first < (l + 1) * LineSize}
RowLines(y, h) == Touched(y * Stride, (y + h) * Stride)

\* mipidsi_msync_rows(): whole lines, from the one the first row starts on.
MsyncUnaligned(y, h) ==      \* mutant: rounds the end of the rows down
  LET end == (y + h) * Stride
      synced == y * Stride - ((y * Stride) % LineSize)
  IN {l \in Lines : synced <= l * LineSize
                    /\ (l + 1) * LineSize <= end}
MsyncRows(y, h) ==
  LET end == (y + h) * Stride
      synced == y * Stride - ((y * Stride) % LineSize)
      sync_end == IF AlignUp(end) > Size THEN AlignUp(Size) ELSE AlignUp(end)
  IN {l \in 0 .. AlignUp(Size) : synced <= l * LineSize
                                  /\ l * LineSize < sync_end}

Quiet == [buf |-> None, unsynced |-> {}, raw |-> {}, stray |-> FALSE]
QuietNow == [Quiet EXCEPT !.stray = scan.stray]

Gone(k, h) == <<k, h>> \notin live

-----------------------------------------------------------------------------
(* The calls, as the steps they take.                                      *)

Delete(k) == [do |-> "delete", what |-> k]
New(k) == [do |-> "new", what |-> k]
Try(what) == [do |-> "try", what |-> what]

\* mipidsi_display_deinit_internal() and mipidsi_host_teardown().
BufferFirst == <<Delete("buf"), Delete("panel"), Delete("io")>>     \* mutant
DisplayTeardown == <<Delete("panel"), Delete("io"), Delete("buf")>>
HostTeardown == DisplayTeardown \o <<Delete("dsi"), Delete("ldo")>>

Begin(op, self, steps) ==
  call' = [op |-> op, self |-> self, steps |-> steps]

BusMake(b) ==
  /\ call = None
  /\ Begin("bus_make", b, HostTeardown \o <<New("ldo"), New("dsi")>>)
  /\ UNCHANGED <<host, live, objs, scan>>

\* The guard looks at the host's bus as well as at the object's, but not
\* whether they are the same.
DisplayMake(d, b) ==
  /\ call = None
  /\ objs[b] # None
  /\ ~objs[b].deinited /\ objs[b].dsi # None /\ host.dsi # None
  /\ Begin("display_make", d,
           DisplayTeardown \o
           <<New("io"), Try("init_sequence"), New("panel"),
             Try("panel_init"), New("buf"), Try("draw_bitmap")>>)
  /\ scan' = [scan EXCEPT !.stray = @ \/ Gone("dsi", objs[b].dsi)]
  /\ UNCHANGED <<host, live, objs>>

Deinit(o) ==
  /\ call = None
  /\ objs[o] # None
  /\ ~objs[o].deinited
  /\ Begin("deinit", o, IF o \in Buses THEN HostTeardown
                                       ELSE DisplayTeardown)
  /\ UNCHANGED <<host, live, objs, scan>>

SoftReset ==
  /\ call = None
  /\ Begin("soft_reset", None, HostTeardown)
  /\ UNCHANGED <<host, live, objs, scan>>

Step(do) == call # None /\ call.steps # << >> /\ Head(call.steps).do = do
What == Head(call.steps).what
Continue == call' = [call EXCEPT !.steps = Tail(@)]

\* Deletes what the mirror names, if it names something, and clears it.
DeleteStep ==
  /\ Step("delete")
  /\ live' = live \ {<<What, host[What]>>}
  /\ host' = [host EXCEPT ![What] = None]
  /\ scan' = IF What = "panel" /\ host.panel # None THEN QuietNow ELSE scan
  /\ Continue
  /\ UNCHANGED objs

\* Mirrored as soon as it is acquired.  A failure raises; without a frame
\* buffer the display's pieces are torn down first.
MirrorLate ==                \* mutant: mirrored only when the call returns
  /\ Step("new")
  /\ \/ \E h \in Handles :
          /\ <<What, h>> \notin live
          /\ live' = live \cup {<<What, h>>}
          /\ host' = IF What = "panel" THEN host ELSE [host EXCEPT ![What] = h]
          /\ Continue
     \/ /\ call' = None
        /\ UNCHANGED <<host, live>>
  /\ UNCHANGED <<objs, scan>>
NewStep ==
  /\ Step("new")
  /\ \/ \E h \in Handles :
          /\ <<What, h>> \notin live
          /\ live' = live \cup {<<What, h>>}
          /\ host' = [host EXCEPT ![What] = h]
          /\ Continue
     \/ /\ IF What = "buf" THEN Begin("raise", None, DisplayTeardown)
                           ELSE call' = None
        /\ UNCHANGED <<host, live>>
  /\ UNCHANGED <<objs, scan>>

\* Calls that may raise: the last one syncs the cleared buffer and gives it
\* to the panel.
TryStep ==
  /\ Step("try")
  /\ \/ /\ scan' = IF What = "draw_bitmap"
                     THEN [QuietNow EXCEPT !.buf = host.buf] ELSE scan
        /\ Continue
     \/ /\ call' = None
        /\ UNCHANGED scan
  /\ UNCHANGED <<host, live, objs>>

Return ==
  /\ call # None
  /\ call.steps = << >>
  /\ objs' =
       CASE call.op = "bus_make" ->
              [objs EXCEPT ![call.self] = [dsi |-> host.dsi,
                                           deinited |-> FALSE]]
         [] call.op = "display_make" ->
              [objs EXCEPT ![call.self] = [panel |-> host.panel,
                                           buf |-> host.buf,
                                           deinited |-> FALSE]]
         [] call.op = "deinit" ->
              [objs EXCEPT ![call.self] = IF call.self \in Buses
                                            THEN DeadBus ELSE DeadDisplay]
         [] call.op = "soft_reset" -> [o \in Buses \cup Displays |-> None]
         [] OTHER -> objs
  /\ call' = None
  /\ UNCHANGED <<host, live, scan>>

-----------------------------------------------------------------------------
(* Drawing.                                                                *)

Drawable(d) ==
  /\ call = None
  /\ objs[d] # None
  /\ ~objs[d].deinited /\ objs[d].panel # None /\ objs[d].buf # None

\* blit() and fill_rect().
Paint(d, y, h) ==
  /\ Drawable(d)
  /\ scan' = [scan EXCEPT !.unsynced = (@ \cup RowLines(y, h))
                                         \ MsyncRows(y, h),
                          !.raw = @ \ MsyncRows(y, h),
                          !.stray = @ \/ Gone("buf", objs[d].buf)]
  /\ UNCHANGED <<host, live, objs, call>>

\* The program writes rows through the buffer protocol.
RawWrite(d, y) ==
  /\ Drawable(d)
  /\ scan' = [scan EXCEPT !.unsynced = @ \cup RowLines(y, 1),
                          !.raw = @ \cup RowLines(y, 1),
                          !.stray = @ \/ Gone("buf", objs[d].buf)]
  /\ UNCHANGED <<host, live, objs, call>>

\* refresh_rect() syncs its rows, refresh() all of them.
Refresh(d, y, h) ==
  /\ Drawable(d)
  /\ scan' = [buf |-> objs[d].buf,
              unsynced |-> scan.unsynced \ MsyncRows(y, h),
              raw |-> scan.raw \ MsyncRows(y, h),
              stray |-> \/ scan.stray
                        \/ Gone("panel", objs[d].panel)
                        \/ Gone("buf", objs[d].buf)]
  /\ UNCHANGED <<host, live, objs, call>>

-----------------------------------------------------------------------------
Init == /\ host = NoHost
        /\ live = {}
        /\ objs = [o \in Buses \cup Displays |-> None]
        /\ call = None
        /\ scan = Quiet

Bands == {yh \in (0 .. Height - 1) \X (1 .. Height) : yh[1] + yh[2] <= Height}

Next == \/ \E b \in Buses : BusMake(b)
        \/ \E d \in Displays, b \in Buses : DisplayMake(d, b)
        \/ \E o \in Buses \cup Displays : Deinit(o)
        \/ SoftReset
        \/ DeleteStep \/ NewStep \/ TryStep \/ Return
        \/ \E d \in Displays, yh \in Bands : \/ Paint(d, yh[1], yh[2])
                                             \/ Refresh(d, yh[1], yh[2])
        \/ \E d \in Displays, y \in 0 .. Height - 1 : RawWrite(d, y)

-----------------------------------------------------------------------------
(* Properties.                                                             *)

\* What the mirror names is allocated and the mirror names all that is
\* allocated: nothing is deleted twice and nothing is out of its reach,
\* whatever fails.  The bus outlives what was made on it, the PHY's supply
\* the bus, and a usable Bus names the mirror's.  (Stale objects name handles
\* that are gone.)
ReleasedOnce ==
  /\ live = {kh \in Kind \X Handles : host[kh[1]] = kh[2]}
  /\ host.panel # None \/ host.io # None => host.dsi # None
  /\ host.dsi # None => host.ldo # None
  /\ call = None /\ host.dsi # None =>
       \E b \in Buses : objs[b] = [dsi |-> host.dsi, deinited |-> FALSE]

\* Until the program has used a stale object: the panel reads a buffer that
\* is allocated and that a usable Display draws to, and in which memory has
\* all that blit() and fill_rect() have written to the cache.  A sync always
\* covers whole lines of the allocation and no more.
ScanRight ==
  /\ ~scan.stray =>
       /\ scan.buf # None => <<"buf", scan.buf>> \in live
       /\ scan.buf # None /\ call = None =>
            \E d \in Displays :
              objs[d] = [panel |-> host.panel, buf |-> scan.buf,
                         deinited |-> FALSE]
       /\ scan.unsynced \subseteq scan.raw
  /\ \A yh \in Bands : MsyncRows(yh[1], yh[2]) \subseteq Lines
=============================================================================
