--------------------------- MODULE UsdlTimers_proofs ---------------------------
(***************************************************************************)
(* What holds of the desktop timers for every number of timers and slots,  *)
(* every depth of the scheduler queue and every interleaving of SDL's      *)
(* thread with the VM's.                                                   *)
(***************************************************************************)
EXTENDS UsdlTimers, TLAPS

\* The trampoline's steps keep the type of its state.
LEMMA TickStep ==
  ASSUME TypeOK,
         \/ tick' = NotTicking
         \/ \E p \in {"set", "full"} : tick' = [tick EXCEPT !.pc = p]
  PROVE  tick' \in [pc : {"out", "entered", "set", "full"},
                   entry : Entry \cup {NULL}, stale : BOOLEAN]
<1> DEFINE T == [pc : {"out", "entered", "set", "full"},
                 entry : Entry \cup {NULL}, stale : BOOLEAN]
<1>1. NotTicking \in T
  BY Zenon DEF NotTicking
<1>2. \A p \in {"set", "full"} : [tick EXCEPT !.pc = p] \in T
  <2> SUFFICES ASSUME NEW p \in {"set", "full"}
               PROVE  [tick EXCEPT !.pc = p] \in T
    OBVIOUS
  <2>1. tick \in T
    BY DEF TypeOK
  <2> QED
    BY <2>1
<1> QED
  BY <1>1, <1>2, Zenon

\* The type invariant: in particular a new timer always gets a slot of the
\* table, and the queue never outgrows the scheduler's depth.
THEOREM Typing == Spec => []TypeOK
<1> USE NullAssumption, SizeAssumption
<1>1. Init => TypeOK
  BY DEF Init, TypeOK, NotTicking, Slot, BadSlot
<1>2. TypeOK /\ [Next]_vars => TypeOK'
  <2> SUFFICES ASSUME TypeOK, [Next]_vars PROVE TypeOK'
    OBVIOUS
  <2>1. ASSUME NEW e \in Entry, AddTimer(e) PROVE TypeOK'
    <3>1. PICK s \in Slot :
            /\ usdl2_timer_by_slot' = [usdl2_timer_by_slot EXCEPT ![s] = e]
            /\ slot' = [slot EXCEPT ![e] = s]
      BY <2>1 DEF AddTimer, AllocSlot, FreeSlots
    <3> QED
      BY <2>1, <3>1 DEF AddTimer, TypeOK
  <2>2. ASSUME NEW e \in Entry, RemoveTimer(e) PROVE TypeOK'
    BY <2>2 DEF RemoveTimer, TypeOK
  <2>11. CASE Link
    BY <2>11 DEF Link, TypeOK
  <2>3. ASSUME NEW e \in Entry, Enter(e) PROVE TypeOK'
    BY <2>3 DEF Enter, TypeOK, entries
  <2>4. CASE Dispatch
    <3>1. sched' \in Seq(Slot \cup {BadSlot}) /\ Len(sched') <= Depth
      BY <2>4 DEF Dispatch, TypeOK
    <3>2. pending' \in [Entry -> BOOLEAN]
      BY <2>4 DEF Dispatch
    <3> QED
      BY <2>4, <3>1, <3>2 DEF Dispatch, TypeOK, entries
  <2>5. CASE Teardown
    BY <2>5 DEF Teardown, TypeOK
  <2>6. CASE SdlQuit
    BY <2>6 DEF SdlQuit, TypeOK, entries
  <2>7. CASE TestAndSet
    <3>1. pending' \in [Entry -> BOOLEAN]
      BY <2>7 DEF TestAndSet, TypeOK
    <3>2. \/ tick' = NotTicking
          \/ tick' = [tick EXCEPT !.pc = "set"]
      BY <2>7 DEF TestAndSet, Return
    <3>3. tick' \in [pc : {"out", "entered", "set", "full"},
                    entry : Entry \cup {NULL}, stale : BOOLEAN]
      BY <3>2, TickStep
    <3>4. armed' \subseteq Entry
      BY <2>7 DEF TestAndSet, Return, TypeOK
    <3> QED
      BY <2>7, <3>1, <3>3, <3>4, SMTT(40) DEF TestAndSet, TypeOK, entries
  <2>8. CASE Schedule
    <3>1. sched' \in Seq(Slot \cup {BadSlot}) /\ Len(sched') <= Depth
      BY <2>8 DEF Schedule, TypeOK
    <3>2. tick' \in [pc : {"out", "entered", "set", "full"},
                    entry : Entry \cup {NULL}, stale : BOOLEAN]
      BY <2>8, TickStep DEF Schedule, Return
    <3> QED
      BY <2>8, <3>1, <3>2 DEF Schedule, TypeOK, entries, Return
  <2>9. CASE GiveUp
    BY <2>9 DEF GiveUp, TypeOK, entries, Return, NotTicking
  <2>10. CASE UNCHANGED vars
    BY <2>10 DEF vars, TypeOK
  <2> QED
    BY <2>1, <2>2, <2>3, <2>4, <2>5, <2>6, <2>7, <2>8, <2>9, <2>10, <2>11
       DEF Next, Trampoline
<1> QED
  BY <1>1, <1>2, PTL DEF Spec

-----------------------------------------------------------------------------
(* The table and the list.                                                 *)

\* SlotsMatchList: the slot table names the allocated entries, however
\* addresses and slots are reused.  It is inductive: a slot is handed out only
\* when no entry has it.
THEOREM TableAndList == Spec => []SlotsMatchList
<1> USE NullAssumption, SizeAssumption
<1>1. Init => SlotsMatchList
  BY DEF Init, SlotsMatchList, Allocated
<1>2. TypeOK /\ SlotsMatchList /\ [Next]_vars => SlotsMatchList'
  <2> SUFFICES ASSUME TypeOK, SlotsMatchList, [Next]_vars
               PROVE  SlotsMatchList'
    OBVIOUS
  <2>1. ASSUME NEW e \in Entry, AddTimer(e) PROVE SlotsMatchList'
    <3>1. PICK s \in Slot :
            /\ usdl2_timer_by_slot[s] = NULL
            /\ usdl2_timer_by_slot' = [usdl2_timer_by_slot EXCEPT ![s] = e]
            /\ slot' = [slot EXCEPT ![e] = s]
      BY <2>1 DEF AddTimer, AllocSlot, FreeSlots
    <3>2. /\ Allocated = usdl2_timer_list
          /\ Allocated' = usdl2_timer_list \cup {e}
      BY <2>1 DEF AddTimer, Idle, Allocated
    <3>3. \A f \in usdl2_timer_list : f \in Entry /\ f # e /\ slot[f] # s
      BY <2>1, <3>1, <3>2 DEF AddTimer, SlotsMatchList, TypeOK
    <3> QED
      BY <2>1, <3>1, <3>2, <3>3 DEF SlotsMatchList, TypeOK
  <2>2. ASSUME NEW e \in Entry, RemoveTimer(e) PROVE SlotsMatchList'
    <3>1. /\ Allocated = usdl2_timer_list
          /\ Allocated' = usdl2_timer_list \ {e}
      BY <2>2 DEF RemoveTimer, Idle, Allocated
    <3>2. \A f \in usdl2_timer_list : f # e => slot[f] # slot[e]
      BY <2>2, <3>1 DEF RemoveTimer, SlotsMatchList
    <3> QED
      BY <2>2, <3>1, <3>2 DEF RemoveTimer, SlotsMatchList, TypeOK
  <2>3. CASE Teardown
    BY <2>3 DEF Teardown, Idle, SlotsMatchList, Allocated
  <2>4. CASE UNCHANGED entries
    BY <2>4 DEF entries, SlotsMatchList, Allocated
  <2>6. CASE Link
    <3>1. Allocated' = Allocated
      BY <2>6 DEF Link, Allocated
    <3> QED
      BY <2>6, <3>1 DEF Link, SlotsMatchList
  <2>5. ASSUME NEW e \in Entry, Enter(e) PROVE SlotsMatchList'
    BY <2>4, <2>5 DEF Enter
  <2> QED
    BY <2>1, <2>2, <2>3, <2>4, <2>5, <2>6 DEF Next, Trampoline, Dispatch, SdlQuit,
       TestAndSet, Schedule, GiveUp, vars, entries
<1> QED
  BY <1>1, <1>2, Typing, PTL DEF Spec

\* ArmedAllocated: SDL never starts the trampoline of a freed entry.
THEOREM NoFreedEntryTicks == Spec => []ArmedAllocated
<1> USE NullAssumption
<1>1. Init => ArmedAllocated
  BY DEF Init, ArmedAllocated
<1>2. ArmedAllocated /\ [Next]_vars => ArmedAllocated'
  <2> SUFFICES ASSUME ArmedAllocated, [Next]_vars PROVE ArmedAllocated'
    OBVIOUS
  <2>1. ASSUME NEW e \in Entry, AddTimer(e) \/ RemoveTimer(e)
        PROVE  ArmedAllocated'
    BY <2>1 DEF ArmedAllocated, Allocated, AddTimer, RemoveTimer, Idle
  <2>2. ASSUME Link \/ Teardown \/ SdlQuit PROVE ArmedAllocated'
    BY <2>2 DEF ArmedAllocated, Allocated, Link, Teardown, SdlQuit, Idle,
       entries
  <2>3. ASSUME armed' \subseteq armed, UNCHANGED entries PROVE ArmedAllocated'
    BY <2>3 DEF ArmedAllocated, Allocated, entries
  <2>4. CASE Trampoline
    BY <2>3, <2>4 DEF Trampoline, TestAndSet, Schedule, GiveUp, Return
  <2>5. ASSUME Dispatch \/ (\E e \in Entry : Enter(e)) \/ UNCHANGED vars
        PROVE  ArmedAllocated'
    BY <2>3, <2>5 DEF Dispatch, Enter, vars, entries
  <2> QED
    BY <2>1, <2>2, <2>4, <2>5 DEF Next
<1> QED
  BY <1>1, <1>2, PTL DEF Spec

-----------------------------------------------------------------------------
(* The pending mark.                                                       *)

\* PendingMeansQueued: no timer is left marked with nothing queued for it, in
\* spite of a trampoline that writes to an entry freed and allocated again, of
\* dispatches of removed timers that find their slot reused, and of a full
\* queue.  What the mark rests on is that an entry's slot leads back to it.
THEOREM NoTimerSwallowed == Spec => []PendingMeansQueued
<1> USE NullAssumption, SizeAssumption
<1>1. Init => PendingMeansQueued
  BY DEF Init, PendingMeansQueued, Allocated
<1>2. TypeOK /\ SlotsMatchList /\ PendingMeansQueued /\ [Next]_vars
        => PendingMeansQueued'
  <2> SUFFICES ASSUME TypeOK, SlotsMatchList, PendingMeansQueued, [Next]_vars,
                      NEW f \in Allocated', pending'[f]
               PROVE  \/ \E j \in 1 .. Len(sched') : sched'[j] = slot'[f]
                      \/ tick'.entry = f /\ tick'.pc \in {"set", "full"}
    BY DEF PendingMeansQueued
  <2> DEFINE Queued(q, s) == \E j \in 1 .. Len(q) : q[j] = s
             Way == \/ Queued(sched', slot'[f])
                    \/ tick'.entry = f /\ tick'.pc \in {"set", "full"}
  <2>1. \/ f \notin Allocated \/ ~pending[f]
        \/ Queued(sched, slot[f])
        \/ tick.entry = f /\ tick.pc \in {"set", "full"}
    BY DEF PendingMeansQueued
  \* A step that leaves the marks, the queue and the trampoline alone.
  <2>2. ASSUME pending'[f] = pending[f], slot'[f] = slot[f],
               f \in Allocated, sched' = sched, tick'.entry = tick.entry,
               tick'.pc = tick.pc
        PROVE  Way
    BY <2>1, <2>2
  <2>13. ASSUME UNCHANGED entries PROVE Allocated' = Allocated
    BY <2>13 DEF entries, Allocated
  <2>3. ASSUME NEW e \in Entry, AddTimer(e) PROVE Way
    <3>1. f # e
      BY <2>3 DEF AddTimer, TypeOK
    <3>2. f \in Allocated /\ pending'[f] = pending[f]
          /\ slot'[f] = slot[f]
      BY <2>3, <3>1 DEF AddTimer, TypeOK, Allocated
    <3> QED
      BY <2>2, <2>3, <3>2 DEF AddTimer
  <2>4. ASSUME NEW e \in Entry, RemoveTimer(e) PROVE Way
    <3>1. f \in Allocated
      BY <2>4 DEF RemoveTimer, Allocated
    <3>2. tick'.entry = tick.entry /\ tick'.pc = tick.pc
      BY <2>4 DEF RemoveTimer, TypeOK
    <3> QED
      BY <2>2, <2>4, <3>1, <3>2 DEF RemoveTimer
  <2>14. CASE Link
    BY <2>2, <2>14 DEF Link, Allocated
  <2>5. ASSUME NEW e \in Entry, Enter(e) PROVE Way
    BY <2>1, <2>5, <2>13 DEF Enter, entries
  \* A dispatch for the slot of f clears the mark of f and of no other entry.
  <2>6. CASE Dispatch
    <3>1. f \in Allocated /\ f \in Entry /\ slot[f] \in Slot
      BY <2>6, <2>13 DEF Dispatch, TypeOK, Allocated
    <3>2. pending[f] /\ Head(sched) # slot[f]
      <4>1. usdl2_timer_by_slot[slot[f]] = f
        BY <3>1 DEF SlotsMatchList
      <4> QED
        BY <2>6, <3>1, <4>1 DEF Dispatch
    <3>3. sched \in Seq(Slot \cup {BadSlot}) /\ sched # <<>>
      BY <2>6 DEF Dispatch, TypeOK
    <3>4. CASE Queued(sched, slot[f])
      <4>1. PICK j \in 1 .. Len(sched) : sched[j] = slot[f]
        BY <3>4
      <4>2. j # 1
        BY <3>2, <3>3, <4>1
      <4>3. j - 1 \in 1 .. Len(sched') /\ sched'[j - 1] = slot[f]
        BY <2>6, <3>3, <4>1, <4>2 DEF Dispatch
      <4> QED
        BY <2>6, <4>3 DEF Dispatch, entries
    <3> QED
      BY <2>1, <2>6, <3>1, <3>2, <3>4 DEF Dispatch
  <2>7. CASE Teardown
    BY <2>7 DEF Teardown, Idle, Allocated
  <2>8. CASE SdlQuit
    BY <2>2, <2>8, <2>13 DEF SdlQuit, entries
  <2>9. CASE TestAndSet
    <3>1. /\ Allocated' = Allocated /\ slot' = slot
          /\ sched' = sched /\ tick.pc = "entered"
      BY <2>9, <2>13 DEF TestAndSet, entries
    <3>2. CASE Queued(sched, slot[f])
      BY <3>1, <3>2
    <3>3. CASE ~pending[f]
      <4>1. /\ pending' = [pending EXCEPT ![tick.entry] = TRUE]
            /\ tick' = [tick EXCEPT !.pc = "set"]
        BY <2>9, <3>3 DEF TestAndSet
      <4>2. tick.entry = f
        BY <3>3, <4>1 DEF TypeOK
      <4>3. tick'.entry = tick.entry /\ tick'.pc = "set"
        BY <4>1 DEF TypeOK
      <4> QED
        BY <4>2, <4>3
    <3> QED
      BY <2>1, <3>1, <3>2, <3>3
  \* A live entry is queued under its own slot.
  <2>10. CASE Schedule
    <3>1. /\ f \in Allocated /\ slot' = slot /\ pending[f]
          /\ sched \in Seq(Slot \cup {BadSlot})
      BY <2>10, <2>13 DEF Schedule, entries, TypeOK
    <3>2. CASE Queued(sched, slot[f])
      <4>1. PICK j \in 1 .. Len(sched) : sched[j] = slot[f]
        BY <3>2
      <4>2. j \in 1 .. Len(sched') /\ sched'[j] = sched[j]
        BY <2>10, <3>1, <4>1 DEF Schedule
      <4> QED
        BY <3>1, <4>1, <4>2
    <3>3. CASE tick.entry = f /\ Len(sched) < Depth
      <4>1. sched' = Append(sched, slot[f])
        BY <2>10, <3>1, <3>3 DEF Schedule, Freed
      <4>2. /\ Len(sched') = Len(sched) + 1 /\ Len(sched) \in Nat
            /\ sched'[Len(sched) + 1] = slot[f]
        BY <3>1, <4>1
      <4> QED
        BY <3>1, <4>2
    <3>4. CASE tick.entry = f /\ ~(Len(sched) < Depth)
      BY <2>10, <3>4 DEF Schedule, TypeOK
    <3> QED
      BY <2>1, <3>1, <3>2, <3>3, <3>4
  <2>11. CASE GiveUp
    <3>1. f \in Allocated /\ f \in Entry /\ slot' = slot /\ sched' = sched
      BY <2>11, <2>13 DEF GiveUp, entries, Allocated, TypeOK
    <3>2. f # tick.entry /\ pending[f]
      BY <2>11, <3>1 DEF GiveUp, TypeOK
    <3> QED
      BY <2>1, <3>1, <3>2
  <2>12. CASE UNCHANGED vars
    BY <2>2, <2>12, <2>13 DEF vars, entries
  <2> QED
    BY <2>3, <2>4, <2>5, <2>6, <2>7, <2>8, <2>9, <2>10, <2>11, <2>12, <2>14
       DEF Next, Trampoline
<1> QED
  BY <1>1, <1>2, Typing, TableAndList, PTL DEF Spec
=============================================================================
