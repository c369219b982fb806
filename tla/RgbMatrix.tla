------------------------------ MODULE RgbMatrix ------------------------------
(***************************************************************************)
(* rgbmatrix.RGBMatrix on its Protomatter backend                          *)
(* (src/src/ports/common/rgbmatrix/mod_rgbmatrix.c, and rgbmatrix_pm.c of  *)
(* the ports).                                                             *)
(*                                                                         *)
(* One core in static memory serves every RGBMatrix object: a constructor  *)
(* tears down what runs and starts its own.  An object knows only that it  *)
(* was started once, not that a later one took the core over.  The         *)
(* program's thread constructs, draws, refreshes and deinitialises; the    *)
(* row handler interrupts it between any two steps, so a conversion is a   *)
(* step per row pair.  A constructor may raise where the port has no       *)
(* timer, an allocation fails, or the pins are not on one port.            *)
(***************************************************************************)
EXTENDS Protomatter

CONSTANTS Matrix,    \* RGBMatrix objects
          NoMatrix   \* no object

ASSUME MatrixAssumption == NoMatrix \notin Matrix

VARIABLES
  single,   \* the port toggles its address lines through one register
  matrix,   \* the objects: their life, pm_started, and what they have drawn
  started,  \* s_pm_host.pm_started
  owner,    \* history: the object whose start the core's state is from
  pc,       \* what the program's thread is in
  frame,    \* history: the pictures burst in the frame so far
  faults    \* history: what went wrong in memory

hostvars == <<single, matrix, started, owner, pc, frame, faults>>
vars == <<pmvars, hostvars>>

Idle == [at |-> "idle", self |-> NoMatrix, row |-> 0, target |-> 0,
         making |-> FALSE]
Absent == [life |-> "absent", started |-> FALSE, double |-> FALSE,
           drawn |-> Dark]

Init == /\ PmInit
        /\ single \in BOOLEAN
        /\ matrix = [m \in Matrix |-> Absent]
        /\ started = FALSE
        /\ owner = NoMatrix
        /\ pc = Idle
        /\ frame = {}
        /\ faults = {}

\* The buffer _PM_convert_565() writes: the one not on show.
FrontBuffer(p) == IF p.double THEN p.activeBuffer ELSE 0     \* mutant
BackBuffer(p) == IF p.double THEN 1 - p.activeBuffer ELSE 0
Converting(m, p, making) ==
  [at |-> "convert", self |-> m, row |-> 0, target |-> BackBuffer(p),
   making |-> making]

-----------------------------------------------------------------------------
(* The program's thread.                                                   *)

\* rgbmatrix_host_teardown(): only what the host recorded as started.
TornDown == IF started THEN Zeroed ELSE pm
MayTearDown == started => ~StopWaits

\* rgbmatrix_make(), up to the conversion of its first picture: a cleared
\* draw buffer, the host torn down, and the core begun anew.
Make(m, double) ==
  /\ pc = Idle /\ matrix[m].life = "absent" /\ MayTearDown
  /\ Begin(Inited(double), single)
  /\ active' = TRUE
  /\ matrix' = [matrix EXCEPT ![m] = [life |-> "live", started |-> FALSE,
                                      double |-> double, drawn |-> Dark]]
  /\ started' = FALSE
  /\ owner' = m
  /\ pc' = Converting(m, Begun(Inited(double), single), TRUE)
  /\ frame' = {}
  /\ UNCHANGED <<single, faults>>

\* The core a constructor leaves behind when it raises.
LeftBehind(why, double) ==
  CASE why = "timer" -> TornDown
    [] why = "init" -> [Zeroed EXCEPT !.double = double]
    [] why = "pins" -> Deallocated(Inited(double))
    [] why = "screen" -> [Inited(double) EXCEPT !.rows = TRUE]

\* rgbmatrix_make() raising in rgbmatrix_pm_start(): no timer; m_malloc() in
\* _PM_init(); pins on two ports; m_malloc() in _PM_begin().
MakeRaises(m, double, why) ==
  /\ pc = Idle /\ matrix[m].life = "absent" /\ MayTearDown
  /\ pm' = LeftBehind(why, double)
  /\ timer' = IF started THEN FALSE ELSE timer
  /\ active' = CASE why \in {"timer", "init"} -> IF started THEN FALSE ELSE active
                 [] why = "pins" -> FALSE
                 [] why = "screen" -> TRUE
  /\ panel' = IF started THEN Stopped ELSE panel
  /\ started' = FALSE
  /\ owner' = NoMatrix
  /\ frame' = {}
  /\ UNCHANGED <<screen, base, single, matrix, pc, faults>>

\* rgbmatrix_fill_rect(), or a write through the buffer protocol.
Draw(m, i) ==
  /\ pc = Idle /\ matrix[m].life = "live"
  /\ matrix' = [matrix EXCEPT ![m].drawn = i]
  /\ UNCHANGED <<pmvars, single, started, owner, pc, frame, faults>>

\* rgbmatrix_refresh(): into the core, whoever it belongs to by now.
Refresh(m) ==
  /\ pc = Idle /\ matrix[m].life = "live" /\ matrix[m].started
  /\ pc' = Converting(m, pm, FALSE)
  /\ UNCHANGED <<pmvars, single, matrix, started, owner, frame, faults>>

\* _PM_convert_565(): one row pair.  A core with row pairs and no screen has
\* its picture written through a null pointer.
ConvertRow ==
  /\ pc.at = "convert" /\ pm.rows /\ pc.row < numRowPairs
  /\ screen' = IF pm.ready
               THEN [screen EXCEPT ![pc.target][pc.row] = matrix[pc.self].drawn]
               ELSE screen
  /\ faults' = faults \cup (IF pm.ready THEN {} ELSE {"null write"})
  /\ pc' = [pc EXCEPT !.row = @ + 1]
  /\ UNCHANGED <<pm, timer, active, panel, base, single, matrix, started,
                 owner, frame>>

\* The end of rgbmatrix_refresh(), or of rgbmatrix_pm_start().
Returned ==
  /\ pc' = Idle
  /\ matrix' = IF pc.making THEN [matrix EXCEPT ![pc.self].started = TRUE]
               ELSE matrix
  /\ started' = (started \/ pc.making)

SwapAndGo ==                            \* mutant: does not wait for the swap
  /\ pc.at = "convert" /\ (pm.rows => pc.row = numRowPairs)
  /\ pm' = [pm EXCEPT !.swapBuffers = @ \/ pm.double]
  /\ Returned
  /\ UNCHANGED <<screen, timer, active, panel, base, single, owner, frame,
                 faults>>

\* _PM_swapbuffer_maybe(): with two buffers, ask for a swap and wait.
SwapMaybe ==
  /\ pc.at = "convert" /\ (pm.rows => pc.row = numRowPairs)
  /\ pm' = [pm EXCEPT !.swapBuffers = @ \/ pm.double]
  /\ IF pm.double
     THEN pc' = [pc EXCEPT !.at = "spin"] /\ UNCHANGED <<matrix, started>>
     ELSE Returned
  /\ UNCHANGED <<screen, timer, active, panel, base, single, owner, frame,
                 faults>>
SpinDone ==
  /\ pc.at = "spin" /\ ~pm.swapBuffers
  /\ Returned
  /\ UNCHANGED <<pmvars, single, owner, frame, faults>>

\* _PM_stop() and _PM_deallocate() on the core, which is then cleared.
ReleaseUnnoted ==                       \* mutant: the host flag stays up
  /\ ~StopWaits
  /\ pm' = Zeroed
  /\ panel' = Stopped
  /\ timer' = FALSE
  /\ active' = FALSE
  /\ owner' = NoMatrix
  /\ frame' = {}
  /\ faults' = faults \cup (IF FreesTwice THEN {"freed twice"} ELSE {})
  /\ UNCHANGED <<screen, base, started>>
Release ==
  /\ ~StopWaits
  /\ pm' = Zeroed
  /\ panel' = Stopped
  /\ timer' = FALSE
  /\ active' = FALSE
  /\ started' = FALSE
  /\ owner' = NoMatrix
  /\ frame' = {}
  /\ faults' = faults \cup (IF FreesTwice THEN {"freed twice"} ELSE {})
  /\ UNCHANGED <<screen, base>>

\* rgbmatrix_deinit_internal(): rgbmatrix_pm_stop() stops the one core when
\* this object was ever started.
Deinit(m) ==
  /\ pc = Idle /\ matrix[m].life = "live"
  /\ matrix' = [matrix EXCEPT ![m] = [life |-> "deinited", started |-> FALSE,
                                      double |-> @.double, drawn |-> Dark]]
  /\ IF matrix[m].started THEN Release
     ELSE UNCHANGED <<pmvars, started, owner, frame, faults>>
  /\ UNCHANGED <<single, pc>>

\* Soft reset: rgbmatrix_host_teardown(), then the heap is swept.
SoftReset ==
  /\ pc = Idle
  /\ \E m \in Matrix : matrix[m].life # "absent"
  /\ IF started THEN Release
     ELSE UNCHANGED <<pmvars, started, owner, frame, faults>>
  /\ matrix' = [m \in Matrix |-> Absent]
  /\ UNCHANGED <<single, pc>>

-----------------------------------------------------------------------------
(* The interrupt.                                                          *)

Interrupt ==
  /\ RowHandler
  /\ frame' = (IF Advanced.row = 0 /\ Advanced.plane = 0 THEN {} ELSE frame)
              \cup {Burst(Advanced).picture}
  /\ UNCHANGED <<single, matrix, started, owner, pc, faults>>

Next == \/ \E m \in Matrix, double \in BOOLEAN :
             \/ Make(m, double)
             \/ \E why \in {"timer", "init", "pins", "screen"} :
                  MakeRaises(m, double, why)
        \/ \E m \in Matrix : \/ Refresh(m)
                             \/ Deinit(m)
                             \/ \E i \in Image : Draw(m, i)
        \/ ConvertRow \/ SwapMaybe \/ SpinDone
        \/ SoftReset
        \/ Interrupt

\* The timer keeps interrupting, and the program's thread runs on in C.
Spec == /\ Init /\ [][Next]_vars
        /\ WF_vars(Interrupt)
        /\ WF_vars(ConvertRow) /\ WF_vars(SwapMaybe) /\ WF_vars(SpinDone)

-----------------------------------------------------------------------------
\* Objects, host flags and the program's thread stay in their types.
TypeOK ==
  /\ PmTypeOK
  /\ single \in BOOLEAN /\ started \in BOOLEAN
  /\ matrix \in [Matrix -> [life : {"absent", "live", "deinited"},
                            started : BOOLEAN, double : BOOLEAN,
                            drawn : Picture]]
  /\ owner \in Matrix \cup {NoMatrix}
  /\ pc.at \in {"idle", "convert", "spin"}
  /\ pc.self \in Matrix \cup {NoMatrix}
  /\ pc.row \in 0 .. numRowPairs /\ pc.target \in 0 .. 1
  /\ frame \subseteq Picture
  /\ faults \subseteq {"null write", "freed twice"}

\* With two buffers a frame on the panel is one picture: the interrupt never
\* bursts from a buffer that a conversion is part way through, because a
\* refresh returns only when the swap has been taken.
WholeFrames == pm.double => Cardinality(frame) <= 1

\* Between calls the host's flag tells whether the core runs, and no swap is
\* pending.  Soft reset goes by the flag alone before it sweeps the heap the
\* interrupt reads, and would wait for the swap with the interrupt disabled.
HostKnows == pc = Idle => /\ timer <=> started
                          /\ started => active /\ pm.ready
                          /\ ~StopWaits

\* A refresh of the object the core belongs to returns, and so does a
\* constructor: the interrupt takes the swap it spins on.
OwnerReturns ==
  \A m \in Matrix : (pc.self = m /\ owner = m) ~> (pc = Idle)

\* deinit() is "idempotent; safe if never fully constructed / already
\* deinited" (docs/idempotent-lifecycle.md:113): it releases no block twice.
\* Not so after a constructor that finds the pins on two ports, since
\* _PM_deallocate() leaves its pointers in the shared core.
DeinitSafe == "freed twice" \notin faults
=============================================================================
