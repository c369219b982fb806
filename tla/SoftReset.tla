------------------------------- MODULE SoftReset -------------------------------
(***************************************************************************)
(* The soft-reset registry (src/src/ports/common/soft_reset.c) and the     *)
(* host resources it tears down.                                           *)
(*                                                                         *)
(* Every module that owns hardware mirrors its handles in static storage,  *)
(* registers a teardown once, and runs the same teardown from deinit(),    *)
(* from its next constructor and from soft reset.  A soft reset runs the   *)
(* port's hook, takes LVGL down, walks a snapshot of the registered        *)
(* teardowns, sweeps the heap, and walks the registry a second time from   *)
(* mp_deinit().                                                            *)
(*                                                                         *)
(* soft_reset_all() allows a teardown to unregister itself ("Walk a        *)
(* snapshot so a teardown that unregisters itself is safe").  None of the  *)
(* tree's does so yet; the modules in Transient stand for those that may.  *)
(*                                                                         *)
(* A module stands here for its teardown function.  The constructor's      *)
(* order is the ESP32 DotClockFramebuffer's: tear down, register, allocate *)
(* the panel from the SDK, set it up, and only then fill in the mirror.    *)
(* Faults may hold "setup_fails": an SDK call fails between the allocation *)
(* and the mirror.                                                         *)
(***************************************************************************)
EXTENDS Integers, FiniteSets

CONSTANTS Module,       \* the modules that own host resources
          Transient,    \* those whose teardown unregisters itself
          NULL,         \* no function
          DISPLAYIF_SOFT_RESET_MAX,
          Faults

ASSUME ModuleAssumption == /\ NULL \notin Module
                           /\ Transient \subseteq Module
ASSUME MaxAssumption == DISPLAYIF_SOFT_RESET_MAX \in Nat
ASSUME CapacityAssumption == /\ IsFiniteSet(Module)
                             /\ Cardinality(Module) <= DISPLAYIF_SOFT_RESET_MAX
ASSUME FaultsAssumption == Faults \subseteq {"setup_fails"}

Index == 0 .. DISPLAYIF_SOFT_RESET_MAX - 1

VARIABLES
  s_fns, s_count,   \* the registry
  flag,             \* each module's s_soft_reset_registered
  held,             \* the modules whose hardware unit is allocated
  mirror,           \* the modules whose s_host holds the handle
  timers,           \* a machine.Timer is armed
  lvgl,             \* LVGL is initialised
  pc,               \* "run", or the step of the soft reset
  local, n, i       \* displayif_soft_reset_all()'s locals

vars == <<s_fns, s_count, flag, held, mirror, timers, lvgl, pc, local, n, i>>
registry == <<s_fns, s_count, flag>>
host == <<held, mirror>>
session == <<timers, lvgl>>
walk == <<local, n, i>>

Init == /\ s_fns = [j \in Index |-> NULL]
        /\ s_count = 0
        /\ flag = [m \in Module |-> FALSE]
        /\ held = {}
        /\ mirror = {}
        /\ timers = FALSE
        /\ lvgl = FALSE
        /\ pc = "run"
        /\ local = [j \in Index |-> NULL]
        /\ n = 0
        /\ i = 0

-----------------------------------------------------------------------------
(* The registry.                                                           *)

Registered(fn) == \E j \in Index : j < s_count /\ s_fns[j] = fn

\* displayif_register_soft_reset(): a full table drops the function.
Register(fn) ==
  IF ~Registered(fn) /\ s_count < DISPLAYIF_SOFT_RESET_MAX
    THEN /\ s_fns' = [s_fns EXCEPT ![s_count] = fn]
         /\ s_count' = s_count + 1
    ELSE UNCHANGED <<s_fns, s_count>>

\* displayif_unregister_soft_reset(): the last entry takes the free place.
UnregisterHole(fn) ==     \* mutant: does not move the last entry
  IF Registered(fn)
    THEN /\ \E j \in Index : /\ j < s_count /\ s_fns[j] = fn
                             /\ s_fns' = [s_fns EXCEPT ![j] = NULL]
         /\ s_count' = s_count - 1
    ELSE UNCHANGED <<s_fns, s_count>>
Unregister(fn) ==
  IF Registered(fn)
    THEN /\ \E j \in Index :
              /\ j < s_count /\ s_fns[j] = fn
              /\ s_fns' = [s_fns EXCEPT ![j] = s_fns[s_count - 1],
                                        ![s_count - 1] = NULL]
         /\ s_count' = s_count - 1
    ELSE UNCHANGED <<s_fns, s_count>>

-----------------------------------------------------------------------------
(* A module between resets.                                                *)

\* The host teardown: release what the mirror holds, if anything.
AfterTeardown(m) == IF m \in mirror THEN held \ {m} ELSE held

\* The constructor.  It tears the old panel down, registers, and allocates;
\* the SDK refuses a unit that is still taken, arguments and memory can fail
\* before the allocation, and SDK calls after it.
ConstructUnregistered(m) ==   \* mutant: never registers
  /\ pc = "run"
  /\ held' = held \cup {m}
  /\ mirror' = mirror \cup {m}
  /\ flag' = [flag EXCEPT ![m] = TRUE]
  /\ UNCHANGED <<s_fns, s_count, session, pc, walk>>
Construct(m) ==
  /\ pc = "run"
  /\ IF flag[m] THEN UNCHANGED registry
                ELSE Register(m) /\ flag' = [flag EXCEPT ![m] = TRUE]
  /\ \/ held' = AfterTeardown(m) /\ mirror' = mirror \ {m}
     \/ /\ m \notin AfterTeardown(m)
        /\ held' = AfterTeardown(m) \cup {m}
        /\ mirror' = mirror \cup {m}
     \/ /\ "setup_fails" \in Faults
        /\ m \notin AfterTeardown(m)
        /\ held' = AfterTeardown(m) \cup {m}
        /\ mirror' = mirror \ {m}
  /\ UNCHANGED <<session, pc, walk>>

\* deinit().
Deinit(m) == /\ pc = "run"
             /\ held' = AfterTeardown(m)
             /\ mirror' = mirror \ {m}
             /\ UNCHANGED <<registry, session, pc, walk>>

\* The program arms timers and starts LVGL.
Session == /\ pc = "run"
           /\ timers' \in BOOLEAN
           /\ lvgl' \in BOOLEAN
           /\ UNCHANGED <<registry, host, pc, walk>>

-----------------------------------------------------------------------------
(* The soft reset: __wrap_gc_sweep_all(), then __wrap_mp_deinit().         *)

\* displayif_port_pre_gc_sweep() on ESP32: stop every machine.Timer.
PreGcSweep == /\ pc = "run"
              /\ timers' = FALSE
              /\ pc' = "lvgl"
              /\ UNCHANGED <<registry, host, lvgl, walk>>

\* lv_deinit(), if LVGL is linked and initialised.
LvDeinit == /\ pc = "lvgl"
            /\ lvgl' = FALSE
            /\ pc' = "snapshot"
            /\ UNCHANGED <<registry, host, timers, walk>>

\* displayif_soft_reset_all(): the snapshot, taken before the sweep and
\* again before mp_deinit().
SnapshotPastEnd ==        \* mutant: one entry too many
  /\ pc \in {"snapshot", "swept"}
  /\ local' = s_fns
  /\ n' = s_count + 1
  /\ i' = 0
  /\ pc' = IF pc = "snapshot" THEN "walk" ELSE "rewalk"
  /\ UNCHANGED <<registry, host, session>>
Snapshot == /\ pc \in {"snapshot", "swept"}
            /\ local' = s_fns
            /\ n' = s_count
            /\ i' = 0
            /\ pc' = IF pc = "snapshot" THEN "walk" ELSE "rewalk"
            /\ UNCHANGED <<registry, host, session>>

\* One teardown of the walk.  One that unregisters itself also forgets that
\* it was registered.
Call(m) == /\ m # NULL
           /\ held' = AfterTeardown(m)
           /\ mirror' = mirror \ {m}
           /\ IF m \in Transient
                THEN Unregister(m) /\ flag' = [flag EXCEPT ![m] = FALSE]
                ELSE UNCHANGED registry

WalkTable ==     \* mutant: walks the table itself, not the snapshot
  /\ pc \in {"walk", "rewalk"}
  /\ i < n
  /\ IF i < s_count THEN Call(s_fns[i]) ELSE UNCHANGED <<registry, host>>
  /\ i' = i + 1
  /\ UNCHANGED <<session, pc, local, n>>
WalkOn == /\ pc \in {"walk", "rewalk"}
          /\ i < n
          /\ \/ Call(local[i])
             \/ local[i] = NULL /\ UNCHANGED <<registry, host>>
          /\ i' = i + 1
          /\ UNCHANGED <<session, pc, local, n>>

\* The walk ends; the first goes on to sweep the heap.
WalkEnd == /\ pc \in {"walk", "rewalk"}
           /\ i >= n
           /\ pc' = IF pc = "walk" THEN "sweep" ELSE "run"
           /\ UNCHANGED <<registry, host, session, walk>>

\* The sweep frees every Python object; static storage keeps its values.
GcSweep == /\ pc = "sweep"
           /\ pc' = "swept"
           /\ UNCHANGED <<registry, host, session, walk>>

-----------------------------------------------------------------------------
Reset == LvDeinit \/ Snapshot \/ WalkOn \/ WalkEnd \/ GcSweep

Next == \/ \E m \in Module : Construct(m) \/ Deinit(m)
        \/ Session
        \/ PreGcSweep
        \/ Reset

Spec == Init /\ [][Next]_vars

-----------------------------------------------------------------------------
(* Properties.                                                             *)

\* The type invariant.
TypeOK == /\ s_fns \in [Index -> Module \cup {NULL}]
          /\ s_count \in 0 .. DISPLAYIF_SOFT_RESET_MAX
          /\ flag \in [Module -> BOOLEAN]
          /\ held \subseteq Module
          /\ mirror \subseteq Module
          /\ timers \in BOOLEAN
          /\ lvgl \in BOOLEAN
          /\ pc \in {"run", "lvgl", "snapshot", "walk", "sweep", "swept",
                     "rewalk"}
          /\ local \in [Index -> Module \cup {NULL}]
          /\ n \in 0 .. DISPLAYIF_SOFT_RESET_MAX
          /\ i \in 0 .. DISPLAYIF_SOFT_RESET_MAX

\* "Register fn once (idempotent)": the table has no gap and no function
\* twice, through registration and through teardowns that unregister
\* themselves during the walk.
RegistryOK ==
  /\ \A j \in Index : j < s_count <=> s_fns[j] # NULL
  /\ \A j, k \in Index : j < s_count /\ k < s_count /\ s_fns[j] = s_fns[k]
                           => j = k

\* Between resets, a module that owns hardware is in the table, where the
\* next reset's walk finds it, although each module asks to be registered
\* only once and a full table would drop it without a word.
MirroredIsRegistered ==
  pc = "run" => \A m \in mirror : Registered(m)

\* When the heap is swept nothing is left that could touch it: no timer is
\* armed, LVGL is down, and no module's hardware runs.  The teardowns are
\* what the next session's constructors rely on.
QuietAtSweep == pc = "sweep" => ~timers /\ ~lvgl /\ held = {}

\* "After teardown, a subsequent constructor must behave like first boot":
\* between operations, allocated hardware is always in the mirror, where the
\* next teardown finds it.
NothingOrphaned == held \subseteq mirror
=============================================================================
