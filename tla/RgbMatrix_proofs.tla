---------------------------- MODULE RgbMatrix_proofs ----------------------------
(***************************************************************************)
(* What holds of rgbmatrix and its core for every number of objects, of    *)
(* address lines and of planes, and every time a burst may take.           *)
(***************************************************************************)
EXTENDS RgbMatrix, FiniteSetTheorems, TLAPS

Period == {0} \cup minPeriod .. maxPeriod
Core == [ready : BOOLEAN, rows : BOOLEAN, addr : {"null", "held", "freed"},
         double : BOOLEAN, single : BOOLEAN, plane : Planes, row : Rows,
         prevRow : Rows, swapBuffers : BOOLEAN, activeBuffer : 0 .. 1,
         bitZeroPeriod : Period]
Shifted == [row : Rows, plane : Planes, picture : Picture]
Object == [life : {"absent", "live", "deinited"}, started : BOOLEAN,
           double : BOOLEAN, drawn : Picture]

\* The panel is a record; how long it is lit is a product the types leave open.
Panel == [shift : Shifted, shown : Shifted, high : SUBSET Lines,
          lit : BOOLEAN, time : {panel.time}]
CoreOK == /\ pm \in Core /\ screen \in [0 .. 1 -> [Rows -> Picture]]
          /\ timer \in BOOLEAN /\ active \in BOOLEAN
          /\ panel \in Panel
HostOK == /\ single \in BOOLEAN /\ started \in BOOLEAN
          /\ matrix \in [Matrix -> Object]
          /\ owner \in Matrix \cup {NoMatrix}
          /\ frame \subseteq Picture
          /\ faults \subseteq {"null write", "freed twice"}

\* The program's thread: at rest it is in no object's call.
Thread == [at : {"idle", "convert", "spin"}, self : Matrix \cup {NoMatrix},
           row : 0 .. numRowPairs, target : 0 .. 1, making : BOOLEAN]
ThreadOK == /\ pc \in Thread
            /\ pc.at = "idle" => pc = Idle
            /\ pc.at # "idle" => pc.self \in Matrix

TypeInv == CoreOK /\ HostOK /\ ThreadOK

-----------------------------------------------------------------------------
(* What one interrupt does to the core and the panel.                      *)

LEMMA Periods ==
  ASSUME NEW p \in Period, NEW elapsed \in Elapsed
  PROVE  Nudged(p, elapsed) \in Period
<1>1. /\ p \in Nat /\ p <= maxPeriod /\ elapsed \in Nat /\ elapsed <= maxPeriod
      /\ minPeriod \in Nat /\ maxPeriod \in Nat /\ minPeriod <= maxPeriod
  BY TimeAssumption DEF Period
<1>2. /\ (p * 7 + elapsed + 4) \div 8 \in Nat
      /\ (p * 7 + elapsed + 4) \div 8 <= maxPeriod
  BY <1>1
<1> QED
  BY <1>1, <1>2 DEF Nudged, Period

LEMMA Advancing ==
  ASSUME pm \in Core
  PROVE  /\ Advanced \in Core
         /\ Advanced.plane = IF LastPlane THEN 0 ELSE pm.plane + 1
         /\ Advanced.row = IF ~LastPlane THEN pm.row
                           ELSE IF LastRow THEN 0 ELSE pm.row + 1
         /\ Advanced.prevRow = IF pm.plane = 0 THEN pm.row ELSE pm.prevRow
         /\ Advanced.activeBuffer = IF EndOfFrame /\ pm.swapBuffers
                                    THEN 1 - pm.activeBuffer ELSE pm.activeBuffer
         /\ EndOfFrame => Advanced.swapBuffers = FALSE
         /\ ~EndOfFrame => Advanced.swapBuffers = pm.swapBuffers
         /\ Advanced.ready = pm.ready /\ Advanced.rows = pm.rows
         /\ Advanced.double = pm.double
         /\ Advanced.bitZeroPeriod = pm.bitZeroPeriod
<1>1. /\ numPlanes \in Nat \ {0} /\ numRowPairs \in Nat \ {0, 1}
  BY PanelAssumption, RowPairsAssumption
<1>2. /\ pm.plane \in Planes /\ pm.row \in Rows /\ pm.prevRow \in Rows
      /\ pm.activeBuffer \in 0 .. 1
  BY DEF Core
<1>3. /\ (IF LastPlane THEN 0 ELSE pm.plane + 1) \in Planes
      /\ (IF ~LastPlane THEN pm.row ELSE IF LastRow THEN 0 ELSE pm.row + 1) \in Rows
      /\ (IF pm.plane = 0 THEN pm.row ELSE pm.prevRow) \in Rows
      /\ (IF EndOfFrame /\ pm.swapBuffers THEN 1 - pm.activeBuffer
          ELSE pm.activeBuffer) \in 0 .. 1
  BY <1>1, <1>2 DEF LastPlane, LastRow, Planes, Rows
<1>4. (IF EndOfFrame THEN FALSE ELSE pm.swapBuffers) \in BOOLEAN
  BY DEF Core
<1> QED
  BY <1>3, <1>4 DEF Advanced, Core

LEMMA Handled ==
  ASSUME pm \in Core, RowHandler
  PROVE  /\ pm' \in Core
         /\ pm'.plane = Advanced.plane /\ pm'.row = Advanced.row
         /\ pm'.prevRow = Advanced.prevRow
         /\ pm'.activeBuffer = Advanced.activeBuffer
         /\ pm'.swapBuffers = Advanced.swapBuffers
         /\ pm'.ready = pm.ready /\ pm'.rows = pm.rows /\ pm'.double = pm.double
         /\ numPlanes = 1 \/ pm'.plane # 0 => pm'.bitZeroPeriod = pm.bitZeroPeriod
<1>1. PICK elapsed \in Elapsed :
        pm' = [Advanced EXCEPT !.bitZeroPeriod = NewPeriod(Advanced, elapsed)]
  BY DEF RowHandler
<1>2. NewPeriod(Advanced, elapsed) \in Period
  BY Advancing, Periods DEF NewPeriod, Core
<1>3. numPlanes = 1 \/ Advanced.plane # 0
        => NewPeriod(Advanced, elapsed) = pm.bitZeroPeriod
  BY Advancing DEF NewPeriod
<1> QED
  BY <1>1, <1>2, <1>3, Advancing DEF Core

-----------------------------------------------------------------------------
(* Types.                                                                  *)

LEMMA Typed == TypeInv => TypeOK
<1>1. CoreOK => PmTypeOK
  BY DEF CoreOK, PmTypeOK, Core, Period, Panel, Shifted
<1> QED
  BY <1>1 DEF TypeInv, HostOK, ThreadOK, TypeOK, Object, Thread

\* The cores the entry points leave, and the panel they leave it with.
LEMMA Cores ==
  ASSUME single \in BOOLEAN
  PROVE  /\ Zeroed \in Core
         /\ \A double \in BOOLEAN :
              /\ Begun(Inited(double), single) \in Core
              /\ Deallocated(Inited(double)) \in Core
              /\ [Zeroed EXCEPT !.double = double] \in Core
              /\ [Inited(double) EXCEPT !.rows = TRUE] \in Core
         /\ Cleared \in [0 .. 1 -> [Rows -> Picture]]
         /\ Nothing \in Shifted
<1> USE PanelAssumption, TimeAssumption, RowPairsAssumption
<1>1. 0 \in Planes /\ 0 \in Rows /\ numPlanes - 1 \in Planes
      /\ numRowPairs - 1 \in Rows /\ numRowPairs > 1 /\ numRowPairs - 2 \in Rows
      /\ 0 \in Period /\ minPeriod \in Period
  BY DEF Planes, Rows, Period
<1>2. Zeroed \in Core
  BY <1>1 DEF Zeroed, Core
<1>3. ASSUME NEW double \in BOOLEAN
      PROVE  /\ Begun(Inited(double), single) \in Core
             /\ Deallocated(Inited(double)) \in Core
             /\ [Zeroed EXCEPT !.double = double] \in Core
             /\ [Inited(double) EXCEPT !.rows = TRUE] \in Core
  <2>1. Inited(double) \in Core
    BY <1>2 DEF Inited, Core
  <2>2. Begun(Inited(double), single) \in Core
    <3>1. ASSUME NEW q \in Core, NEW s, s \in BOOLEAN
          PROVE  [q EXCEPT !.ready = TRUE, !.rows = TRUE, !.single = s,
                           !.activeBuffer = 0, !.bitZeroPeriod = minPeriod]
                   \in Core
      <4>1. [q EXCEPT !.ready = TRUE, !.rows = TRUE, !.single = s] \in Core
        BY <3>1 DEF Core
      <4>2. ASSUME NEW c \in Core PROVE [c EXCEPT !.activeBuffer = 0] \in Core
        BY DEF Core
      <4>3. ASSUME NEW c \in Core
            PROVE  [c EXCEPT !.bitZeroPeriod = minPeriod] \in Core
        BY <1>1 DEF Core
      <4> QED
        BY <4>1, <4>2, <4>3
    <3>2. ASSUME NEW q \in Core PROVE Resumed(q) \in Core
      BY <1>1, <3>2 DEF Resumed, Core
    <3> QED
      BY <2>1, <3>1, <3>2 DEF Begun
  <2>3. Deallocated(Inited(double)) \in Core
    BY <2>1 DEF Deallocated, Core
  <2>4. [Zeroed EXCEPT !.double = double] \in Core
    BY <1>2 DEF Core
  <2>5. [Inited(double) EXCEPT !.rows = TRUE] \in Core
    BY <2>1 DEF Core
  <2> QED
    BY <2>1, <2>2, <2>3, <2>4, <2>5
<1>4. Cleared \in [0 .. 1 -> [Rows -> Picture]]
  BY DEF Cleared, Picture
<1>5. Nothing \in Shifted
  BY <1>1 DEF Nothing, Shifted, Picture
<1> QED
  BY <1>2, <1>3, <1>4, <1>5

LEMMA Pins ==
  /\ \A r \in Rows : Bits(r) \subseteq Lines
  /\ CoreOK => NextHigh \subseteq Lines
<1>1. \A r : Bits(r) \subseteq Lines
  BY DEF Bits
<1>2. CoreOK => panel.high \subseteq Lines
  BY DEF CoreOK, Panel
<1> QED
  BY <1>1, <1>2 DEF NextHigh, Toggled, OneByOne, Differ

LEMMA InterruptTyped ==
  ASSUME CoreOK, HostOK, Interrupt
  PROVE  CoreOK' /\ HostOK'
<1>1. pm \in Core /\ Advanced \in Core
  BY Advancing DEF CoreOK
<1>2. pm' \in Core
  BY <1>1, Handled DEF Interrupt
<1>3. Burst(Advanced) \in Shifted
  <2>1. (IF Advanced.double THEN Advanced.activeBuffer ELSE 0) \in 0 .. 1
    BY <1>1 DEF Core
  <2>2. screen \in [0 .. 1 -> [Rows -> Picture]]
    BY DEF CoreOK
  <2>3. Advanced.row \in Rows /\ Advanced.plane \in Planes
    BY <1>1 DEF Core
  <2>4. screen[IF Advanced.double THEN Advanced.activeBuffer ELSE 0][Advanced.row]
          \in Picture
    BY <2>1, <2>2, <2>3
  <2> QED
    BY <2>3, <2>4 DEF Burst, Shifted
<1>4. NextHigh \subseteq Lines /\ panel.shift \in Shifted
  BY Pins DEF CoreOK, Panel
<1>5. frame' \subseteq Picture
  <2>1. Burst(Advanced).picture \in Picture
    BY <1>3 DEF Shifted
  <2> QED
    BY <2>1 DEF Interrupt, HostOK
<1>6. (panel \in Panel)'
  BY <1>3, <1>4 DEF Interrupt, RowHandler, Panel
<1>7. UNCHANGED <<screen, timer, active, single, matrix, started, owner, faults>>
  BY DEF Interrupt, RowHandler
<1> QED
  BY <1>2, <1>5, <1>6, <1>7 DEF CoreOK, HostOK

LEMMA TypeStep ==
  ASSUME TypeInv, [Next]_vars
  PROVE  TypeInv'
<1> USE DEF TypeInv
<1>1. single \in BOOLEAN /\ pm \in Core /\ matrix \in [Matrix -> Object]
      /\ screen \in [0 .. 1 -> [Rows -> Picture]] /\ panel \in Panel
      /\ numRowPairs \in Nat \ {0, 1}
  BY RowPairsAssumption DEF CoreOK, HostOK
<1>2. Dark \in Picture /\ Idle \in Thread
  BY <1>1 DEF Picture, Idle, Thread
\* What stays as it is stays in its type.
<1>3. UNCHANGED pmvars => CoreOK'
  BY DEF pmvars, CoreOK, Panel
<1>4. pc' = pc => ThreadOK'
  BY DEF ThreadOK, Thread, Idle
<1>5. pc' = Idle => ThreadOK'
  BY <1>2 DEF ThreadOK, Thread, Idle
\* A conversion, and a stopped core.
<1>6. ASSUME NEW m \in Matrix, NEW c \in Core, NEW making \in BOOLEAN,
             pc' = Converting(m, c, making)
      PROVE  ThreadOK'
  <2>1. Converting(m, c, making) \in Thread
    BY <1>1 DEF Converting, BackBuffer, Thread, Core
  <2> QED
    BY <1>6, <2>1 DEF ThreadOK, Converting, Thread
<1>7. Stopped \in [shift : Shifted, shown : Shifted, high : SUBSET Lines,
                   lit : BOOLEAN, time : {Stopped.time}]
  BY <1>1, Cores DEF Stopped, Panel
<1>8. ASSUME NEW m \in Matrix, NEW double \in BOOLEAN, Make(m, double)
      PROVE  TypeInv'
  <2>1. pm' \in Core /\ screen' \in [0 .. 1 -> [Rows -> Picture]]
        /\ timer' = TRUE /\ active' = TRUE
    BY <1>1, <1>8, Cores DEF Make, Begin
  <2>2. (panel \in Panel)'
    <3>1. Bits(numRowPairs - 2) \subseteq Lines
      BY <1>1, Pins DEF Rows
    <3> QED
      BY <1>1, <1>8, <3>1, Cores DEF Make, Begin, ResetFM6126A, Panel
  <2>3. matrix' \in [Matrix -> Object]
    BY <1>1, <1>2, <1>8 DEF Make, Object
  <2>4. HostOK'
    BY <1>8, <2>3 DEF Make, HostOK
  <2>5. pc' = Converting(m, Begun(Inited(double), single), TRUE)
        /\ Begun(Inited(double), single) \in Core
    BY <1>1, <1>8, Cores DEF Make
  <2> QED
    BY <1>6, <2>1, <2>2, <2>4, <2>5 DEF CoreOK
<1>9. ASSUME NEW m \in Matrix, NEW double \in BOOLEAN,
             NEW why \in {"timer", "init", "pins", "screen"},
             MakeRaises(m, double, why)
      PROVE  TypeInv'
  <2>1. pm' \in Core
    BY <1>1, <1>9, Cores DEF MakeRaises, LeftBehind, TornDown
  <2>2. timer' \in BOOLEAN /\ active' \in BOOLEAN
    BY <1>9 DEF MakeRaises, CoreOK
  <2>3. (panel \in Panel)'
    BY <1>1, <1>7, <1>9 DEF MakeRaises, Panel
  <2>4. /\ started' = FALSE /\ owner' = NoMatrix /\ frame' = {}
        /\ UNCHANGED <<screen, single, matrix, faults>> /\ pc' = pc
    BY <1>9 DEF MakeRaises
  <2>5. HostOK'
    BY <2>4 DEF HostOK
  <2>6. CoreOK'
    BY <1>1, <2>1, <2>2, <2>3, <2>4 DEF CoreOK
  <2> QED
    BY <1>4, <2>4, <2>5, <2>6
<1>10. ASSUME NEW m \in Matrix, NEW i \in Image, Draw(m, i)
      PROVE  TypeInv'
  <2>1. matrix' \in [Matrix -> Object]
    BY <1>1, <1>10 DEF Draw, Object, Picture
  <2>2. HostOK'
    BY <1>10, <2>1 DEF Draw, HostOK
  <2> QED
    BY <1>3, <1>4, <1>10, <2>2 DEF Draw
<1>11. ASSUME NEW m \in Matrix, Refresh(m)
       PROVE  TypeInv'
  <2>1. HostOK' /\ UNCHANGED pmvars /\ pc' = Converting(m, pm, FALSE)
    BY <1>11 DEF Refresh, HostOK
  <2> QED
    BY <1>1, <1>3, <1>6, <2>1
<1>12. CASE ConvertRow
  <2>1. matrix[pc.self].drawn \in Picture
    BY <1>1, <1>12 DEF ConvertRow, ThreadOK, Object
  <2>2. screen' \in [0 .. 1 -> [Rows -> Picture]]
    BY <1>1, <1>12, <2>1 DEF ConvertRow
  <2>3. ThreadOK'
    <3>1. pc \in Thread /\ pc.at = "convert" /\ pc.self \in Matrix
      BY <1>12 DEF ConvertRow, ThreadOK
    <3>2. pc.row + 1 \in 0 .. numRowPairs /\ pc' = [pc EXCEPT !.row = pc.row + 1]
      <4>1. pc.row \in 0 .. numRowPairs
        BY <3>1 DEF Thread
      <4>2. pc.row < numRowPairs /\ pc' = [pc EXCEPT !.row = pc.row + 1]
        BY <1>12 DEF ConvertRow
      <4> QED
        BY <1>1, <4>1, <4>2
    <3>3. pc' \in Thread
      BY <3>1, <3>2 DEF Thread
    <3>4. pc'.at = "convert" /\ pc'.self \in Matrix
      BY <3>1, <3>2 DEF Thread
    <3> QED
      BY <3>3, <3>4 DEF ThreadOK
  <2>4. HostOK'
    BY <1>12 DEF ConvertRow, HostOK
  <2>5. CoreOK'
    BY <1>12, <2>2 DEF ConvertRow, CoreOK, Panel
  <2> QED
    BY <2>3, <2>4, <2>5
\* The end of a call, for the host and the thread.
<1>13. ASSUME Returned, UNCHANGED <<single, owner, frame, faults>>
       PROVE  HostOK' /\ ThreadOK'
  <2>1. matrix' \in [Matrix -> Object]
    BY <1>1, <1>13 DEF Returned, Object
  <2>2. started' \in BOOLEAN
    BY <1>13 DEF Returned
  <2>3. HostOK'
    BY <1>13, <2>1, <2>2 DEF HostOK
  <2> QED
    BY <1>5, <1>13, <2>3 DEF Returned
<1>14. CASE SwapMaybe
  <2>1. pm' \in Core
    <3>1. (pm.swapBuffers \/ pm.double) \in BOOLEAN
      OBVIOUS
    <3>2. ASSUME NEW b \in BOOLEAN PROVE [pm EXCEPT !.swapBuffers = b] \in Core
      BY <1>1 DEF Core
    <3> QED
      BY <1>14, <3>1, <3>2 DEF SwapMaybe
  <2>2. CoreOK'
    BY <1>14, <2>1 DEF SwapMaybe, CoreOK, Panel
  <2>3. UNCHANGED <<single, owner, frame, faults>>
    BY <1>14 DEF SwapMaybe
  <2>4. CASE Returned
    BY <1>13, <2>2, <2>3, <2>4
  <2>5. CASE pc' = [pc EXCEPT !.at = "spin"] /\ UNCHANGED <<matrix, started>>
    <3>1. ThreadOK'
      BY <1>14, <2>5 DEF SwapMaybe, ThreadOK, Thread
    <3> QED
      BY <2>2, <2>3, <2>5, <3>1 DEF HostOK
  <2> QED
    BY <1>14, <2>4, <2>5 DEF SwapMaybe
<1>15. CASE SpinDone
  BY <1>3, <1>13, <1>15 DEF SpinDone
<1>16. ASSUME Release, single' = single, matrix' \in [Matrix -> Object]
       PROVE  CoreOK' /\ HostOK'
  <2>1. (panel \in Panel)'
    BY <1>7, <1>16 DEF Release, Panel
  <2>2. faults' \subseteq {"null write", "freed twice"}
    BY <1>16 DEF Release, HostOK
  <2>3. HostOK'
    BY <1>16, <2>2 DEF Release, HostOK
  <2> QED
    BY <1>1, <1>16, <2>1, <2>3, Cores DEF Release, CoreOK
<1>17. ASSUME Release \/ UNCHANGED <<pmvars, started, owner, frame, faults>>,
              UNCHANGED <<single, pc>>, matrix' \in [Matrix -> Object]
       PROVE  TypeInv'
  <2>1. CASE Release
    BY <1>4, <1>16, <1>17, <2>1
  <2>2. CASE UNCHANGED <<pmvars, started, owner, frame, faults>>
    <3>1. HostOK'
      BY <1>17, <2>2 DEF HostOK
    <3> QED
      BY <1>3, <1>4, <1>17, <2>2, <3>1
  <2> QED
    BY <1>17, <2>1, <2>2
<1>18. ASSUME NEW m \in Matrix, Deinit(m)
       PROVE  TypeInv'
  <2>1. matrix' \in [Matrix -> Object]
    BY <1>1, <1>2, <1>18 DEF Deinit, Object
  <2> QED
    BY <1>17, <1>18, <2>1 DEF Deinit
<1>19. CASE SoftReset
  <2>1. matrix' \in [Matrix -> Object]
    BY <1>2, <1>19 DEF SoftReset, Absent, Object
  <2> QED
    BY <1>17, <1>19, <2>1 DEF SoftReset
<1>20. CASE Interrupt
  BY <1>4, <1>20, InterruptTyped DEF Interrupt
<1>21. CASE UNCHANGED vars
  <2>1. HostOK' /\ UNCHANGED pmvars /\ pc' = pc
    BY <1>21 DEF vars, hostvars, HostOK
  <2> QED
    BY <1>3, <1>4, <2>1
<1> QED
  BY <1>8, <1>9, <1>10, <1>11, <1>12, <1>14, <1>15, <1>18, <1>19, <1>20, <1>21
     DEF Next

LEMMA InitTyped == Init => TypeInv
<1> SUFFICES ASSUME Init PROVE TypeInv
  OBVIOUS
<1>1. single \in BOOLEAN
  BY DEF Init
<1>2. CoreOK
  BY <1>1, Cores DEF Init, PmInit, CoreOK, Panel
<1>3. HostOK
  BY <1>1 DEF Init, HostOK, Absent, Object, Picture
<1>4. ThreadOK
  BY RowPairsAssumption DEF Init, Idle, ThreadOK, Thread
<1> QED
  BY <1>2, <1>3, <1>4 DEF TypeInv

\* The type invariant, for every panel and every number of objects: the row,
\* plane and buffer the interrupt indexes with never leave their ranges.
THEOREM Typing == Spec => []TypeOK
BY InitTyped, TypeStep, Typed, PTL DEF Spec

-----------------------------------------------------------------------------
(* The host's flag and the steps.                                          *)

\* The timer runs on a core that is ready, and is known to the host, but for
\* the constructor that started it; a swap is pending only while a call waits
\* for it.
HostRuns ==
  /\ started => timer
  /\ timer => active /\ pm.ready /\ pm.rows
  /\ timer => started \/ (pc.at # "idle" /\ pc.making)
  /\ pc.at # "idle" /\ pc.making => timer
  /\ pm.ready /\ pm.swapBuffers => pc.at = "spin"

LEMMA HostStep ==
  ASSUME TypeInv, HostRuns, [Next]_vars
  PROVE  HostRuns'
<1>1. pm \in Core /\ pc \in Thread
  BY DEF TypeInv, CoreOK, ThreadOK
<1>2. ASSUME UNCHANGED <<pmvars, started, pc>> PROVE HostRuns'
  BY <1>2 DEF HostRuns, pmvars
<1>3. ASSUME Release, pc = Idle, pc' = pc PROVE HostRuns'
  BY <1>3 DEF Release, HostRuns, Zeroed, Idle
<1>4. ASSUME NEW m \in Matrix, NEW double \in BOOLEAN, Make(m, double)
      PROVE  HostRuns'
  <2>1. /\ pm'.ready = TRUE /\ pm'.rows = TRUE /\ pm'.swapBuffers = FALSE
    BY <1>4 DEF Make, Begin, Begun, Resumed, Inited, Zeroed
  <2>2. pc'.at = "convert" /\ pc'.making = TRUE
    BY <1>4 DEF Make, Converting
  <2> QED
    BY <1>4, <2>1, <2>2 DEF Make, Begin, HostRuns
<1>5. ASSUME NEW m \in Matrix, NEW double \in BOOLEAN,
             NEW why \in {"timer", "init", "pins", "screen"},
             MakeRaises(m, double, why)
      PROVE  HostRuns'
  <2>1. pc.at = "idle" /\ pc' = pc /\ started' = FALSE
    BY <1>5 DEF MakeRaises, Idle
  <2>2. timer' = FALSE
    BY <1>5, <2>1 DEF MakeRaises, HostRuns
  <2>3. ~(pm'.ready /\ pm'.swapBuffers)
    BY <1>1, <1>5, <2>1 DEF MakeRaises, HostRuns, LeftBehind, TornDown, Zeroed,
       Inited, Deallocated
  <2> QED
    BY <2>1, <2>2, <2>3 DEF HostRuns
<1>6. ASSUME NEW m \in Matrix, Refresh(m) PROVE HostRuns'
  <2>1. pc.at = "idle" /\ pc'.at = "convert" /\ pc'.making = FALSE
    BY <1>6 DEF Refresh, Converting, Idle
  <2> QED
    BY <1>6, <2>1 DEF Refresh, HostRuns, pmvars
<1>7. CASE ConvertRow
  <2>1. pc'.at = pc.at /\ pc'.making = pc.making
    BY <1>1, <1>7 DEF ConvertRow, Thread
  <2> QED
    BY <1>7, <2>1 DEF ConvertRow, HostRuns
\* A call ends with no swap pending.
<1>8. ASSUME Returned, pc.at # "idle", UNCHANGED <<timer, active>>,
             pm'.ready = pm.ready, pm'.rows = pm.rows,
             ~(pm'.ready /\ pm'.swapBuffers)
      PROVE  HostRuns'
  <2>1. pc'.at = "idle"
    BY <1>8 DEF Returned, Idle
  <2> QED
    BY <1>8, <2>1 DEF Returned, HostRuns
<1>9. CASE SwapMaybe
  <2>1. /\ pm'.ready = pm.ready /\ pm'.rows = pm.rows
        /\ pm'.swapBuffers = (pm.swapBuffers \/ pm.double)
        /\ pc.at = "convert"
    BY <1>1, <1>9 DEF SwapMaybe, Core
  <2>2. CASE pm.double
    <3>1. pc'.at = "spin" /\ pc'.making = pc.making /\ started' = started
      BY <1>1, <1>9, <2>2 DEF SwapMaybe, Thread
    <3> QED
      BY <1>9, <2>1, <3>1 DEF SwapMaybe, HostRuns
  <2>3. CASE ~pm.double
    BY <1>8, <1>9, <2>1, <2>3 DEF SwapMaybe, HostRuns
  <2> QED
    BY <2>2, <2>3
<1>10. CASE SpinDone
  BY <1>8, <1>10 DEF SpinDone, pmvars
<1>11. CASE Interrupt
  <2>1. pm'.ready = pm.ready /\ pm'.rows = pm.rows
        /\ (pm'.swapBuffers => pm.swapBuffers)
    BY <1>1, <1>11, Handled, Advancing DEF Interrupt
  <2> QED
    BY <1>11, <2>1 DEF Interrupt, RowHandler, HostRuns
<1>12. ASSUME NEW m \in Matrix, NEW i \in Image, Draw(m, i) PROVE HostRuns'
  BY <1>2, <1>12 DEF Draw
<1>13. ASSUME NEW m \in Matrix, Deinit(m) PROVE HostRuns'
  BY <1>2, <1>3, <1>13 DEF Deinit
<1>14. CASE SoftReset
  BY <1>2, <1>3, <1>14 DEF SoftReset
<1>15. CASE UNCHANGED vars
  BY <1>2, <1>15 DEF vars, hostvars
<1> QED
  BY <1>4, <1>5, <1>6, <1>7, <1>9, <1>10, <1>11, <1>12, <1>13, <1>14, <1>15
     DEF Next

LEMMA HostInit == Init => HostRuns
BY DEF Init, PmInit, HostRuns, Idle, Zeroed

LEMMA Invariants == Spec => [](TypeInv /\ HostRuns)
<1>1. TypeInv /\ HostRuns /\ [Next]_vars => (TypeInv /\ HostRuns)'
  BY TypeStep, HostStep
<1> QED
  BY <1>1, InitTyped, HostInit, PTL DEF Spec

\* HostKnows: soft reset may trust the host's flag, whatever constructors
\* have failed and whichever objects have been made stale.
THEOREM FlagTells == Spec => []HostKnows
<1>1. HostRuns => HostKnows
  BY DEF HostRuns, HostKnows, Idle, StopWaits
<1> QED
  BY <1>1, Invariants, PTL

-----------------------------------------------------------------------------
(* Rows, addresses and times.                                              *)

\* Seen from the panel a step starts the core, stops it, or is an interrupt;
\* the others leave what the panel shows, and the counters, alone.
Kept == /\ UNCHANGED <<timer, panel, base>>
        /\ pm'.plane = pm.plane /\ pm'.row = pm.row
        /\ pm'.prevRow = pm.prevRow /\ pm'.bitZeroPeriod = pm.bitZeroPeriod
Halts == timer' = FALSE /\ base' = base /\ (panel' = panel \/ panel' = Stopped)

LEMMA PanelSteps ==
  ASSUME TypeInv, HostRuns, [Next]_vars
  PROVE  \/ \E m \in Matrix, double \in BOOLEAN : Make(m, double)
         \/ Halts \/ Kept \/ Interrupt
<1>1. pm \in Core
  BY DEF TypeInv, CoreOK
<1>2. UNCHANGED pmvars => Kept
  BY DEF pmvars, Kept
<1>3. Release => Halts
  BY DEF Release, Halts
<1>4. ASSUME NEW m \in Matrix, NEW double \in BOOLEAN,
             NEW why \in {"timer", "init", "pins", "screen"},
             MakeRaises(m, double, why)
      PROVE  Halts
  <2>1. pc.at = "idle"
    BY <1>4 DEF MakeRaises, Idle
  <2> QED
    BY <1>4, <2>1 DEF MakeRaises, HostRuns, Halts
<1>5. ConvertRow => Kept
  BY DEF ConvertRow, Kept
<1>6. SwapMaybe => Kept
  BY <1>1 DEF SwapMaybe, Kept, Core
<1>7. ASSUME NEW m \in Matrix, NEW i \in Image, Draw(m, i) PROVE Kept
  BY <1>2, <1>7 DEF Draw
<1>8. ASSUME NEW m \in Matrix, Deinit(m) PROVE Halts \/ Kept
  BY <1>2, <1>3, <1>8 DEF Deinit
<1>9. SoftReset => Halts \/ Kept
  BY <1>2, <1>3 DEF SoftReset
<1>10. ASSUME NEW m \in Matrix, Refresh(m) PROVE Kept
  BY <1>2, <1>10 DEF Refresh
<1>11. SpinDone \/ UNCHANGED vars => Kept
  BY <1>2 DEF SpinDone, vars
<1> QED
  BY <1>4, <1>5, <1>6, <1>7, <1>8, <1>9, <1>10, <1>11 DEF Next

\* Toggling the lines that differ, or writing them one by one, turns one row
\* number into another.
LEMMA Addressed ==
  ASSUME panel.high = Bits(pm.prevRow)
  PROVE  NextHigh = IF pm.plane # 0 THEN Bits(pm.prevRow) ELSE Bits(pm.row)
<1>1. Toggled(panel.high, pm.prevRow, pm.row) = Bits(pm.row)
  BY DEF Toggled, Differ
<1>2. OneByOne(panel.high, pm.prevRow, pm.row) = Bits(pm.row)
  BY DEF OneByOne, Differ
<1> QED
  BY <1>1, <1>2 DEF NextHigh

\* While the timer runs: a burst is of the row and plane the counters are at;
\* the address lines follow a row behind until plane 0 has been latched; and
\* they have caught up by then, but for the first, dark burst.
Follows ==
  timer =>
    /\ panel.shift.picture # Dark => /\ panel.shift.row = pm.row
                                     /\ panel.shift.plane = pm.plane
    /\ panel.high = Bits(pm.prevRow)
    /\ pm.plane # 0 => \/ pm.prevRow = pm.row
                       \/ pm.plane = numPlanes - 1 /\ panel.shift.picture = Dark

LEMMA FollowStep ==
  ASSUME TypeInv, HostRuns, Follows, [Next]_vars
  PROVE  Follows'
<1>1. pm \in Core /\ numPlanes \in Nat \ {0} /\ pm.plane \in Planes
  BY PanelAssumption DEF TypeInv, CoreOK, Core
<1>2. ASSUME NEW m \in Matrix, NEW double \in BOOLEAN, Make(m, double)
      PROVE  Follows'
  <2>1. pm' = Begun(Inited(double), single) /\ panel' = ResetFM6126A
    BY <1>2 DEF Make, Begin
  <2>2. pm'.plane = numPlanes - 1 /\ pm'.prevRow = numRowPairs - 2
    BY <2>1, RowPairsAssumption DEF Begun, Resumed, Inited, Zeroed
  <2> QED
    BY <2>1, <2>2 DEF ResetFM6126A, Nothing, Follows
<1>3. CASE Halts
  BY <1>3 DEF Halts, Follows
<1>4. CASE Kept
  BY <1>4 DEF Kept, Follows
<1>5. CASE Interrupt
  <2>1. /\ timer /\ panel'.shift = Burst(Advanced) /\ panel'.high = NextHigh
    BY <1>5 DEF Interrupt, RowHandler
  <2>2. /\ pm'.plane = IF LastPlane THEN 0 ELSE pm.plane + 1
        /\ ~LastPlane => pm'.row = pm.row
        /\ pm'.prevRow = IF pm.plane = 0 THEN pm.row ELSE pm.prevRow
        /\ Advanced.row = pm'.row /\ Advanced.plane = pm'.plane
    BY <1>1, <1>5, Handled, Advancing DEF Interrupt
  <2>3. panel'.shift.row = pm'.row /\ panel'.shift.plane = pm'.plane
    BY <2>1, <2>2 DEF Burst
  <2>4. panel'.high = Bits(pm'.prevRow)
    BY <2>1, <2>2, Addressed DEF Follows
  <2>5. ASSUME pm'.plane # 0 PROVE pm'.prevRow = pm'.row
    <3>1. ~LastPlane
      BY <2>2, <2>5
    <3>2. pm.plane # numPlanes - 1
      BY <1>1, <3>1 DEF LastPlane, Planes
    <3> QED
      BY <2>1, <2>2, <3>1, <3>2 DEF Follows
  <2> QED
    BY <2>3, <2>4, <2>5 DEF Follows
<1> QED
  BY <1>2, <1>3, <1>4, <1>5, PanelSteps

\* RowsInPlace, for every number of address lines and planes: the row the
\* panel latched, the row its address lines select and the time it is lit
\* come from counters advanced in different interrupts, and agree.
THEOREM Placed == Spec => []RowsInPlace
<1>1. Init => Follows /\ RowsInPlace
  BY DEF Init, PmInit, Follows, RowsInPlace
<1>2. TypeInv /\ HostRuns /\ Follows /\ RowsInPlace /\ [Next]_vars => RowsInPlace'
  <2> SUFFICES ASSUME TypeInv, HostRuns, Follows, RowsInPlace, [Next]_vars
               PROVE  RowsInPlace'
    OBVIOUS
  <2>1. panel \in Panel
    BY DEF TypeInv, CoreOK
  <2>2. ASSUME NEW m \in Matrix, NEW double \in BOOLEAN, Make(m, double)
        PROVE  RowsInPlace'
    BY <2>2 DEF Make, Begin, ResetFM6126A, RowsInPlace
  <2>3. CASE Halts
    <3>1. Stopped = panel \/ Stopped.lit = FALSE
      BY <2>1 DEF Stopped, Panel
    <3> QED
      BY <2>3, <3>1 DEF Halts, RowsInPlace
  <2>4. CASE Kept
    BY <2>4 DEF Kept, RowsInPlace
  <2>5. CASE Interrupt
    <3>1. /\ timer /\ panel'.shown = panel.shift /\ panel'.high = NextHigh
          /\ panel'.time = pm.bitZeroPeriod * 2 ^ pm.plane
          /\ pm.bitZeroPeriod \in base'
      BY <2>5 DEF Interrupt, RowHandler
    <3>2. ASSUME panel.shift.picture # Dark
          PROVE  NextHigh = Bits(panel.shift.row)
      BY <3>1, <3>2, Addressed DEF Follows
    <3> QED
      BY <3>1, <3>2 DEF Follows, RowsInPlace
  <2> QED
    BY <2>2, <2>3, <2>4, <2>5, PanelSteps
<1> QED
  BY <1>1, <1>2, FollowStep, Invariants, PTL DEF Spec

LEMMA AtMostOne ==
  ASSUME NEW S, NEW t, S \subseteq {t}
  PROVE  Cardinality(S) <= 1
<1>1. S = {} \/ S = {t}
  OBVIOUS
<1>2. Cardinality({}) = 0 /\ Cardinality({t}) = 1
  BY FS_EmptySet, FS_Singleton
<1>3. Cardinality(S) = 0 \/ Cardinality(S) = 1
  BY <1>1, <1>2
<1> QED
  BY <1>3

\* The plane 0 time is adjusted only when the last plane of a row has gone.
OneTime == /\ \E t : base \subseteq {t}
           /\ timer /\ pm.plane # 0 => base \subseteq {pm.bitZeroPeriod}

\* BinaryWeights, for every number of planes and every time of a burst: the
\* planes of a row are lit for one plane 0 time and its doubles.
THEOREM Weighed == Spec => []BinaryWeights
<1>1. Init => OneTime
  BY DEF Init, PmInit, OneTime
<1>2. TypeInv /\ HostRuns /\ OneTime /\ [Next]_vars => OneTime'
  <2> SUFFICES ASSUME TypeInv, HostRuns, OneTime, [Next]_vars PROVE OneTime'
    OBVIOUS
  <2>1. pm \in Core /\ numPlanes \in Nat \ {0} /\ pm.plane \in Planes
    BY PanelAssumption DEF TypeInv, CoreOK, Core
  <2>2. ASSUME NEW m \in Matrix, NEW double \in BOOLEAN, Make(m, double)
        PROVE  OneTime'
    BY <2>2 DEF Make, Begin, OneTime
  <2>3. CASE Halts
    BY <2>3 DEF Halts, OneTime
  <2>4. CASE Kept
    BY <2>4 DEF Kept, OneTime
  <2>5. CASE Interrupt
    <3>1. timer /\ base' = (IF pm.plane = 0 THEN {} ELSE base) \cup {pm.bitZeroPeriod}
      BY <2>5 DEF Interrupt, RowHandler
    <3>2. base' \subseteq {pm.bitZeroPeriod}
      BY <3>1 DEF OneTime
    <3>3. pm'.plane # 0 => pm'.bitZeroPeriod = pm.bitZeroPeriod
      BY <2>1, <2>5, Handled DEF Interrupt
    <3> QED
      BY <3>2, <3>3 DEF OneTime
  <2> QED
    BY <2>2, <2>3, <2>4, <2>5, PanelSteps
<1>3. OneTime => BinaryWeights
  <2> SUFFICES ASSUME NEW t, base \subseteq {t} PROVE Cardinality(base) <= 1
    BY DEF OneTime, BinaryWeights
  <2> QED
    BY AtMostOne
<1> QED
  BY <1>1, <1>2, <1>3, Invariants, PTL DEF Spec

-----------------------------------------------------------------------------
(* Pictures.                                                               *)

\* With two buffers: the one on show holds one picture in all rows, of which
\* the frame is being burst; the other too, but while a conversion fills it.
Uniform(b) == \E i : \A r \in Rows : screen[b][r] = i
Filled == /\ pc.target = 1 - pm.activeBuffer
          /\ \A r \in Rows : r < pc.row => screen[pc.target][r] = matrix[pc.self].drawn
OnShow == \E i : /\ \A r \in Rows : screen[pm.activeBuffer][r] = i
                 /\ frame \subseteq {i}
Whole ==
  pm.double => /\ ~timer => frame = {}
               /\ timer => OnShow
               /\ timer => IF pc.at = "convert" THEN Filled
                           ELSE Uniform(1 - pm.activeBuffer)

LEMMA WholeStep ==
  ASSUME TypeInv, HostRuns, Whole, [Next]_vars
  PROVE  Whole'
<1>1. /\ pm \in Core /\ pc \in Thread /\ numRowPairs \in Nat \ {0, 1}
      /\ screen \in [0 .. 1 -> [Rows -> Picture]] /\ pm.activeBuffer \in 0 .. 1
  BY RowPairsAssumption DEF TypeInv, CoreOK, ThreadOK, Core
<1>2. ASSUME UNCHANGED <<pmvars, frame, pc>>, pc.at # "convert" \/ UNCHANGED matrix
      PROVE  Whole'
  BY <1>2 DEF pmvars, Whole, OnShow, Filled, Uniform
<1>3. Release => Whole'
  BY DEF Release, Zeroed, Whole
<1>4. ASSUME NEW m \in Matrix, NEW double \in BOOLEAN, Make(m, double)
      PROVE  Whole'
  <2>1. /\ pm'.double = double /\ pm'.activeBuffer = 0 /\ screen' = Cleared
        /\ frame' = {} /\ timer' = TRUE
    BY <1>4 DEF Make, Begin, Begun, Resumed, Inited, Zeroed
  <2>2. pc'.at = "convert" /\ pc'.row = 0
        /\ pc'.target = BackBuffer(Begun(Inited(double), single))
    BY <1>4 DEF Make, Converting
  <2>3. double => BackBuffer(Begun(Inited(double), single)) = 1
    BY DEF BackBuffer, Begun, Resumed, Inited, Zeroed
  <2>4. OnShow'
    BY <2>1 DEF OnShow, Cleared
  <2>5. double => Filled'
    <3>1. ASSUME NEW r \in Rows PROVE ~(r < 0)
      BY <1>1 DEF Rows
    <3>2. double => pc'.target = 1 - pm'.activeBuffer
      <4>1. pm'.activeBuffer = 0 /\ (double => pc'.target = 1)
        BY <2>1, <2>2, <2>3, Zenon
      <4>2. 1 = 1 - 0
        OBVIOUS
      <4> QED
        BY <4>1, <4>2, Zenon
    <3> QED
      BY <2>2, <3>1, <3>2 DEF Filled
  <2> QED
    BY <2>1, <2>2, <2>4, <2>5 DEF Whole
<1>5. ASSUME NEW m \in Matrix, NEW double \in BOOLEAN,
             NEW why \in {"timer", "init", "pins", "screen"},
             MakeRaises(m, double, why)
      PROVE  Whole'
  <2>1. pc.at = "idle" /\ frame' = {}
    BY <1>5 DEF MakeRaises, Idle
  <2>2. timer' = FALSE
    BY <1>5, <2>1 DEF MakeRaises, HostRuns
  <2> QED
    BY <2>1, <2>2 DEF Whole
<1>6. ASSUME NEW m \in Matrix, NEW i \in Image, Draw(m, i) PROVE Whole'
  BY <1>2, <1>6 DEF Draw, Idle
<1>7. ASSUME NEW m \in Matrix, Refresh(m) PROVE Whole'
  <2>1. /\ UNCHANGED <<pmvars, frame>>
        /\ pc'.at = "convert" /\ pc'.row = 0 /\ pc'.target = BackBuffer(pm)
    BY <1>7 DEF Refresh, Converting
  <2>2. pm.double => Filled'
    BY <1>1, <2>1 DEF BackBuffer, Filled, Rows, pmvars
  <2> QED
    BY <2>1, <2>2 DEF pmvars, Whole, OnShow
<1>8. CASE ConvertRow
  <2>1. /\ pc.at = "convert" /\ pc.row < numRowPairs /\ pc'.at = "convert"
        /\ pc'.row = pc.row + 1 /\ pc'.target = pc.target /\ pc'.self = pc.self
        /\ UNCHANGED <<pm, timer, frame, matrix>>
    BY <1>1, <1>8 DEF ConvertRow, Thread
  <2> SUFFICES ASSUME timer, pm.double PROVE OnShow' /\ Filled'
    BY <2>1 DEF Whole
  <2>2. OnShow /\ Filled
    BY <2>1 DEF Whole
  <2>3. screen' = [screen EXCEPT ![pc.target][pc.row] = matrix[pc.self].drawn]
    BY <1>8 DEF ConvertRow, HostRuns
  <2>4. pc.row \in Nat /\ pc.row \in Rows /\ pc.target \in 0 .. 1
    BY <1>1, <2>1 DEF Thread, Rows
  <2>5. pc.target # pm.activeBuffer
    BY <1>1, <2>2 DEF Filled
  <2>6. screen'[pm.activeBuffer] = screen[pm.activeBuffer]
    BY <1>1, <2>3, <2>5
  <2>7. OnShow'
    BY <2>1, <2>2, <2>6 DEF OnShow
  <2>8. ASSUME NEW r \in Rows, r < pc.row + 1
        PROVE  screen'[pc.target][r] = matrix[pc.self].drawn
    <3>1. r = pc.row \/ r < pc.row
      BY <1>1, <2>4, <2>8 DEF Rows
    <3>2. screen[pc.target] \in [Rows -> Picture]
      BY <1>1, <2>4
    <3> QED
      BY <1>1, <2>2, <2>3, <2>4, <3>1, <3>2 DEF Filled
  <2> QED
    BY <2>1, <2>2, <2>7, <2>8 DEF Filled
\* The conversion has filled every row: the back buffer is uniform.
<1>9. CASE SwapMaybe
  <2>1. /\ UNCHANGED <<screen, timer, frame>> /\ pc.at = "convert"
        /\ pm'.double = pm.double /\ pm'.activeBuffer = pm.activeBuffer
    BY <1>1, <1>9 DEF SwapMaybe, Core
  <2> SUFFICES ASSUME pm.double, timer PROVE Whole'
    BY <2>1 DEF Whole
  <2>2. OnShow /\ Filled
    BY <2>1 DEF Whole
  <2>3. pc.row = numRowPairs /\ pc'.at = "spin"
    BY <1>1, <1>9 DEF SwapMaybe, HostRuns, Thread
  <2>4. \A r \in Rows : screen[1 - pm.activeBuffer][r] = matrix[pc.self].drawn
    BY <1>1, <2>2, <2>3 DEF Filled, Rows
  <2>5. OnShow'
    BY <2>1, <2>2 DEF OnShow
  <2>6. Uniform(1 - pm.activeBuffer)'
    BY <2>1, <2>4 DEF Uniform
  <2> QED
    BY <2>1, <2>3, <2>5, <2>6 DEF Whole
<1>10. CASE SpinDone
  <2>1. UNCHANGED <<pmvars, frame>> /\ pc.at = "spin" /\ pc'.at = "idle"
    BY <1>10 DEF SpinDone, Returned, Idle
  <2> QED
    BY <2>1 DEF pmvars, Whole, OnShow, Uniform
<1>11. ASSUME NEW m \in Matrix, Deinit(m) PROVE Whole'
  BY <1>2, <1>3, <1>11 DEF Deinit, Idle
<1>12. CASE SoftReset
  BY <1>2, <1>3, <1>12 DEF SoftReset, Idle
\* A swap is taken only while a call waits for it, with both buffers uniform.
<1>13. CASE Interrupt
  <2>1. /\ timer /\ UNCHANGED <<screen, timer, pc, matrix>>
        /\ frame' = (IF Advanced.row = 0 /\ Advanced.plane = 0 THEN {} ELSE frame)
                    \cup {Burst(Advanced).picture}
    BY <1>13 DEF Interrupt, RowHandler
  <2>2. /\ pm'.double = pm.double /\ pm'.activeBuffer = Advanced.activeBuffer
        /\ Advanced.double = pm.double /\ Advanced.row \in Rows
        /\ Advanced.activeBuffer = IF EndOfFrame /\ pm.swapBuffers
                                   THEN 1 - pm.activeBuffer ELSE pm.activeBuffer
        /\ EndOfFrame => Advanced.row = 0 /\ Advanced.plane = 0
    <3>1. /\ Advanced \in Core
          /\ Advanced.plane = IF LastPlane THEN 0 ELSE pm.plane + 1
          /\ Advanced.row = IF ~LastPlane THEN pm.row
                            ELSE IF LastRow THEN 0 ELSE pm.row + 1
          /\ Advanced.activeBuffer = IF EndOfFrame /\ pm.swapBuffers
                                     THEN 1 - pm.activeBuffer ELSE pm.activeBuffer
          /\ Advanced.double = pm.double
      BY <1>1, Advancing
    <3>2. pm'.double = pm.double /\ pm'.activeBuffer = Advanced.activeBuffer
      BY <1>1, <1>13, Handled DEF Interrupt
    <3>3. Advanced.row \in Rows
      BY <3>1 DEF Core
    <3> QED
      BY <3>1, <3>2, <3>3 DEF EndOfFrame
  <2> SUFFICES ASSUME pm.double
               PROVE  OnShow' /\ IF pc.at = "convert" THEN Filled'
                                 ELSE Uniform(1 - pm.activeBuffer)'
    BY <2>1, <2>2 DEF Whole
  <2>3. Burst(Advanced).picture = screen[Advanced.activeBuffer][Advanced.row]
    BY <2>2 DEF Burst
  <2>4. CASE EndOfFrame /\ pm.swapBuffers
    <3>1. pc.at = "spin"
      BY <2>1, <2>4 DEF HostRuns
    <3>2. OnShow /\ Uniform(1 - pm.activeBuffer)
      BY <2>1, <3>1 DEF Whole
    <3>3. pm'.activeBuffer = 1 - pm.activeBuffer
          /\ 1 - pm'.activeBuffer = pm.activeBuffer
      BY <1>1, <2>2, <2>4
    <3>4. Uniform(1 - pm.activeBuffer)'
      BY <2>1, <3>2, <3>3 DEF OnShow, Uniform
    <3>5. PICK i : \A r \in Rows : screen[1 - pm.activeBuffer][r] = i
      BY <3>2 DEF Uniform
    <3>6. frame' = {i}
      BY <2>1, <2>2, <2>3, <2>4, <3>5
    <3>7. OnShow'
      BY <2>1, <3>3, <3>5, <3>6 DEF OnShow
    <3> QED
      BY <3>1, <3>4, <3>7
  <2>5. CASE ~(EndOfFrame /\ pm.swapBuffers)
    <3>1. pm'.activeBuffer = pm.activeBuffer
      BY <2>2, <2>5
    <3>2. PICK i : /\ \A r \in Rows : screen[pm.activeBuffer][r] = i
                   /\ frame \subseteq {i}
      BY <2>1 DEF Whole, OnShow
    <3>3. frame' \subseteq {i}
      BY <2>1, <2>2, <2>3, <2>5, <3>2
    <3>4. OnShow'
      BY <2>1, <3>1, <3>2, <3>3 DEF OnShow
    <3>5. IF pc.at = "convert" THEN Filled' ELSE Uniform(1 - pm.activeBuffer)'
      BY <2>1, <3>1 DEF Whole, Filled, Uniform
    <3> QED
      BY <3>4, <3>5
  <2> QED
    BY <2>4, <2>5
<1>14. CASE UNCHANGED vars
  BY <1>2, <1>14 DEF vars, hostvars
<1> QED
  BY <1>4, <1>5, <1>6, <1>7, <1>8, <1>9, <1>10, <1>11, <1>12, <1>13, <1>14
     DEF Next

\* WholeFrames, for every number of objects, live or stale, and every panel:
\* with two buffers no frame mixes two pictures.
THEOREM FramesWhole == Spec => []WholeFrames
<1>1. Init => Whole
  BY DEF Init, PmInit, Zeroed, Whole
<1>2. TypeInv /\ HostRuns /\ Whole => WholeFrames
  <2> SUFFICES ASSUME Whole, pm.double PROVE Cardinality(frame) <= 1
    BY DEF WholeFrames
  <2>1. \E i : frame \subseteq {i}
    BY DEF Whole, OnShow
  <2> QED
    BY <2>1, AtMostOne
<1> QED
  BY <1>1, <1>2, WholeStep, Invariants, PTL DEF Spec
=============================================================================
