------------------------------ MODULE UsdlTimers ------------------------------
(***************************************************************************)
(* The desktop backend's SDL timers (src/src/ports/desktop/usdl2/          *)
(* usdl2_mp.c).                                                            *)
(*                                                                         *)
(* Two threads share the timer entries.  SDL's timer thread runs the       *)
(* trampoline of each armed timer: it marks the entry pending and queues   *)
(* a dispatch, which names the entry by its slot, on the MicroPython       *)
(* scheduler.  The VM thread adds and removes timers, and drains the       *)
(* scheduler: a dispatch looks its slot up, clears pending and calls the   *)
(* Python callback.                                                        *)
(*                                                                         *)
(* SDL and the scheduler are modelled from how the file uses them.         *)
(* SDL_RemoveTimer() does not wait for a trampoline already running, so    *)
(* one may go on with an entry that has been freed, or freed and allocated *)
(* again; what it then reads of a freed entry is arbitrary.  A trampoline   *)
(* that returns an interval of 0 ends its timer: it ticks no more, and      *)
(* SDL_RemoveTimer() does not find it.                                     *)
(***************************************************************************)
EXTENDS Integers, Sequences

CONSTANTS Entry,          \* the addresses malloc() hands out
          NULL,           \* the null pointer
          USDL2_TIMER_MAX, \* timer slots
          Depth           \* MICROPY_SCHEDULER_DEPTH

ASSUME NullAssumption == NULL \notin Entry
ASSUME SizeAssumption == USDL2_TIMER_MAX \in Nat \ {0} /\ Depth \in Nat \ {0}

Slot == 0 .. USDL2_TIMER_MAX - 1
BadSlot == USDL2_TIMER_MAX      \* any slot number a dispatch refuses

VARIABLES
  usdl2_timer_list,     \* the linked entries, as a set
  adding,               \* usdl2_add_timer()'s entry, armed but not linked
  usdl2_timer_by_slot,  \* the entry in each slot, or NULL
  slot,                 \* entry->slot
  pending,              \* entry->pending
  once,                 \* the allocated entries whose interval is 0
  armed,                \* SDL: the entries whose timer will tick
  tick,                 \* SDL's timer thread: the trampoline it is in
  sched,                \* scheduler: the queued dispatches, as slots
  vm                    \* "run", or "quit" while SDL_Quit() joins the thread

vars == <<usdl2_timer_list, usdl2_timer_by_slot, adding, slot, once, pending,
          armed, tick, sched, vm>>
entries == <<usdl2_timer_list, usdl2_timer_by_slot, adding, slot, once>>

\* What malloc() has handed out and not got back.
Allocated == usdl2_timer_list \cup ({adding} \ {NULL})

\* The trampoline of a timer that has been removed meanwhile is stale.
NotTicking == [pc |-> "out", entry |-> NULL, stale |-> FALSE]

Init == /\ usdl2_timer_list = {}
        /\ usdl2_timer_by_slot = [s \in Slot |-> NULL]
        /\ adding = NULL
        /\ slot = [e \in Entry |-> 0]
        /\ once = {}
        /\ pending = [e \in Entry |-> FALSE]
        /\ armed = {}
        /\ tick = NotTicking
        /\ sched = <<>>
        /\ vm = "run"

-----------------------------------------------------------------------------
(* The VM thread.                                                          *)

Idle == vm = "run" /\ adding = NULL

\* usdl2_timer_alloc_slot(): the first free slot.
LastSlotToo == 0 .. USDL2_TIMER_MAX    \* mutant: scans one slot too many
FreeSlots == {s \in Slot : usdl2_timer_by_slot[s] = NULL}
FreeSlotOrLast(s) ==
  /\ s \in LastSlotToo
  /\ s \in Slot => usdl2_timer_by_slot[s] = NULL
  /\ \A t \in Slot : t < s => usdl2_timer_by_slot[t] # NULL
AllocSlot(s) == /\ s \in FreeSlots
                /\ \A t \in FreeSlots : s <= t

\* usdl2_add_timer(), up to SDL_AddTimer().  When no slot is free it raises,
\* and when SDL_AddTimer() fails it gives the slot back: nothing is left
\* behind.
AddTimer(e) ==
  /\ Idle
  /\ e \notin usdl2_timer_list
  /\ \E s \in 0 .. USDL2_TIMER_MAX :
       /\ AllocSlot(s)
       /\ usdl2_timer_by_slot' = [usdl2_timer_by_slot EXCEPT ![s] = e]
       /\ slot' = [slot EXCEPT ![e] = s]
  /\ pending' = [pending EXCEPT ![e] = FALSE]
  /\ once' \in {once, once \cup {e}}
  /\ armed' = armed \cup {e}
  /\ adding' = e
  /\ UNCHANGED <<usdl2_timer_list, tick, sched, vm>>

\* The timer ticks already when the entry is linked.
Link ==
  /\ adding # NULL
  /\ usdl2_timer_list' = usdl2_timer_list \cup {adding}
  /\ adding' = NULL
  /\ UNCHANGED <<usdl2_timer_by_slot, slot, once, pending, armed, tick, sched,
                 vm>>

\* usdl2_remove_timer(): SDL_RemoveTimer(), then usdl2_timer_unlink(), which
\* frees the slot and the entry.  Of a timer that has ended the former
\* returns false, and the entry stays where it is.
RemoveTimerKeepingSlot(e) ==   \* mutant: the slot is not given back
  /\ Idle
  /\ e \in usdl2_timer_list /\ e \in armed
  /\ armed' = armed \ {e}
  /\ usdl2_timer_list' = usdl2_timer_list \ {e}
  /\ tick' = [tick EXCEPT !.stale = @ \/ tick.entry = e]
  /\ once' = once \ {e}
  /\ UNCHANGED <<usdl2_timer_by_slot, adding, slot, pending, sched, vm>>
RemoveTimer(e) ==
  /\ Idle
  /\ e \in usdl2_timer_list /\ e \in armed
  /\ armed' = armed \ {e}
  /\ usdl2_timer_list' = usdl2_timer_list \ {e}
  /\ usdl2_timer_by_slot' = [usdl2_timer_by_slot EXCEPT ![slot[e]] = NULL]
  /\ tick' = [tick EXCEPT !.stale = @ \/ tick.entry = e]
  /\ once' = once \ {e}
  /\ UNCHANGED <<adding, slot, pending, sched, vm>>

\* usdl2_timer_dispatch(), as usdl2_scheduler_drain() runs it from
\* SDL_PollEvent() and SDL_PumpEvents().  The callback it calls may add and
\* remove timers; those are steps of their own.
DispatchUncleared ==           \* mutant: pending is not cleared
  /\ Idle
  /\ sched # <<>>
  /\ sched' = Tail(sched)
  /\ UNCHANGED <<entries, pending, armed, tick, vm>>
Dispatch ==
  /\ Idle
  /\ sched # <<>>
  /\ sched' = Tail(sched)
  /\ pending' = [e \in Entry |->
                   /\ pending[e]
                   /\ ~ (/\ Head(sched) \in Slot
                         /\ usdl2_timer_by_slot[Head(sched)] = e)]
  /\ UNCHANGED <<entries, armed, tick, vm>>

\* usdl2_host_teardown(), from SDL_Quit() and soft reset: every entry is
\* disarmed and freed, then SDL_Quit() waits for the timer thread.
TeardownStillArmed ==          \* mutant: frees entries SDL still ticks
  /\ Idle
  /\ usdl2_timer_list' = {}
  /\ usdl2_timer_by_slot' = [s \in Slot |-> NULL]
  /\ once' = {}
  /\ vm' = "quit"
  /\ UNCHANGED <<adding, slot, pending, armed, tick, sched>>
Teardown ==
  /\ Idle
  /\ armed' = armed \ usdl2_timer_list
  /\ usdl2_timer_list' = {}
  /\ usdl2_timer_by_slot' = [s \in Slot |-> NULL]
  /\ once' = {}
  /\ vm' = "quit"
  /\ UNCHANGED <<adding, slot, pending, tick, sched>>

SdlQuit == /\ vm = "quit"
           /\ tick.pc = "out"
           /\ armed' = {}
           /\ vm' = "run"
           /\ UNCHANGED <<entries, pending, tick, sched>>

-----------------------------------------------------------------------------
(* SDL's timer thread: usdl2_timer_trampoline(), cut at its atomic         *)
(* sections.                                                               *)

Freed(e) == e \notin Allocated

\* The trampoline returns entry->interval, and SDL ends a timer on a 0.
Return == /\ tick' = NotTicking
          /\ armed' = IF tick.entry \in once /\ ~tick.stale
                      THEN armed \ {tick.entry} ELSE armed

\* SDL finds the timer due and not cancelled, and calls the trampoline.
Enter(e) == /\ tick.pc = "out"
            /\ e \in armed
            /\ tick' = [pc |-> "entered", entry |-> e, stale |-> FALSE]
            /\ UNCHANGED <<entries, pending, armed, sched, vm>>

\* Lines 837-843: return if a dispatch is pending, else claim it.
TestAndSet ==
  /\ tick.pc = "entered"
  /\ \E seen \in BOOLEAN :
       /\ ~Freed(tick.entry) => seen = pending[tick.entry]
       /\ IF seen THEN Return /\ UNCHANGED pending
                  ELSE /\ tick' = [tick EXCEPT !.pc = "set"]
                       /\ pending' = [pending EXCEPT ![tick.entry] = TRUE]
                       /\ UNCHANGED armed
  /\ UNCHANGED <<entries, sched, vm>>

\* Lines 845-847: mp_sched_schedule() of the entry's slot.
Schedule ==
  /\ tick.pc = "set"
  /\ \/ /\ Len(sched) < Depth
        /\ \E s \in Slot \cup {BadSlot} :
             /\ ~Freed(tick.entry) => s = slot[tick.entry]
             /\ sched' = Append(sched, s)
        /\ Return
     \/ /\ Len(sched) >= Depth
        /\ tick' = [tick EXCEPT !.pc = "full"]
        /\ UNCHANGED <<armed, sched>>
  /\ UNCHANGED <<entries, pending, vm>>

\* Lines 848-850: the queue was full, this tick is dropped.
GiveUpPending ==               \* mutant: the dropped tick stays pending
  /\ tick.pc = "full"
  /\ Return
  /\ UNCHANGED <<entries, pending, sched, vm>>
GiveUp == /\ tick.pc = "full"
          /\ pending' = [pending EXCEPT ![tick.entry] = FALSE]
          /\ Return
          /\ UNCHANGED <<entries, sched, vm>>

-----------------------------------------------------------------------------
Trampoline == TestAndSet \/ Schedule \/ GiveUp

Next == \/ \E e \in Entry : AddTimer(e) \/ RemoveTimer(e) \/ Enter(e)
        \/ Link \/ Dispatch \/ Teardown \/ SdlQuit
        \/ Trampoline

\* The timer thread finishes a trampoline it is in, the program pumps events
\* time and again between other calls, usdl2_add_timer() returns, and so does
\* SDL_Quit() once the thread is out.
Fairness == /\ WF_vars(Trampoline) /\ WF_vars(Link) /\ WF_vars(SdlQuit)
            /\ SF_vars(Dispatch)

Spec == Init /\ [][Next]_vars /\ Fairness

-----------------------------------------------------------------------------
(* Properties.                                                             *)

\* The type invariant.
TypeOK == /\ usdl2_timer_list \subseteq Entry
          /\ usdl2_timer_by_slot \in [Slot -> Entry \cup {NULL}]
          /\ adding \in Entry \cup {NULL}
          /\ slot \in [Entry -> Slot]
          /\ once \subseteq Entry
          /\ pending \in [Entry -> BOOLEAN]
          /\ armed \subseteq Entry
          /\ tick \in [pc : {"out", "entered", "set", "full"},
                       entry : Entry \cup {NULL}, stale : BOOLEAN]
          /\ sched \in Seq(Slot \cup {BadSlot}) /\ Len(sched) <= Depth
          /\ vm \in {"run", "quit"}

\* The slot table names the entries that are linked or about to be, and no
\* other, so a dispatch never finds a freed entry and no slot is lost to a
\* timer that has been removed.
SlotsMatchList ==
  /\ \A e \in Allocated : usdl2_timer_by_slot[slot[e]] = e
  /\ \A s \in Slot : usdl2_timer_by_slot[s] # NULL =>
       /\ usdl2_timer_by_slot[s] \in Allocated
       /\ slot[usdl2_timer_by_slot[s]] = s

\* SDL never starts the trampoline of a freed entry.
ArmedAllocated == armed \subseteq Allocated

\* A pending entry has a dispatch on its way: one is queued for its slot, or
\* the timer thread is about to queue it or to take the mark back.  An entry
\* left pending with nothing queued would swallow all its later ticks.
PendingMeansQueued ==
  \A e \in Allocated : pending[e] =>
    \/ \E i \in 1 .. Len(sched) : sched[i] = slot[e]
    \/ tick.entry = e /\ tick.pc \in {"set", "full"}

\* A timer whose tick was coalesced becomes ready for the next one, unless
\* it is removed first, whatever is queued before it and however slots are
\* reused.
TimersKeepTicking ==
  \A e \in Entry :
    e \in Allocated /\ pending[e] ~> e \notin Allocated \/ ~pending[e]

\* "At most one queued dispatch per timer (SDL thread vs VM drain)", as the
\* trampoline's comment has it: at most one queued dispatch runs an entry's
\* callback.
AtMostOneQueued ==
  \A e \in Allocated : \A i, j \in 1 .. Len(sched) :
    sched[i] = slot[e] /\ sched[j] = slot[e] => i = j
=============================================================================
