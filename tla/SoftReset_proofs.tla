--------------------------- MODULE SoftReset_proofs ---------------------------
(***************************************************************************)
(* What holds of the soft-reset registry for every table size and every    *)
(* set of modules that fits it, whichever of them unregister themselves.   *)
(***************************************************************************)
EXTENDS SoftReset, FiniteSetTheorems, TLAPS

LEMMA RegisterTyped ==
  ASSUME TypeOK, NEW m \in Module, Register(m)
  PROVE  /\ s_fns' \in [Index -> Module \cup {NULL}]
         /\ s_count' \in 0 .. DISPLAYIF_SOFT_RESET_MAX
BY MaxAssumption DEF Register, TypeOK, Index

LEMMA UnregisterTyped ==
  ASSUME TypeOK, NEW m \in Module, Unregister(m)
  PROVE  /\ s_fns' \in [Index -> Module \cup {NULL}]
         /\ s_count' \in 0 .. DISPLAYIF_SOFT_RESET_MAX
<1> USE MaxAssumption
<1>1. CASE Registered(m)
  <2>1. s_count - 1 \in Index /\ s_count' = s_count - 1
    BY <1>1 DEF Registered, Unregister, TypeOK, Index
  <2> QED
    BY <1>1, <2>1 DEF Unregister, TypeOK, Index
<1> QED
  BY <1>1 DEF Unregister, TypeOK

LEMMA TypeStep ==
  ASSUME TypeOK, [Next]_vars
  PROVE  TypeOK'
<1> USE MaxAssumption
<1>1. ASSUME NEW m \in Module, Construct(m) PROVE TypeOK'
  <2>1. /\ s_fns' \in [Index -> Module \cup {NULL}]
        /\ s_count' \in 0 .. DISPLAYIF_SOFT_RESET_MAX
    BY <1>1, RegisterTyped DEF Construct, registry, TypeOK
  <2>2. flag' \in [Module -> BOOLEAN]
    BY <1>1 DEF Construct, registry, TypeOK
  <2>3. held' \subseteq Module /\ mirror' \subseteq Module
    BY <1>1 DEF Construct, AfterTeardown, TypeOK
  <2> QED
    BY <1>1, <2>1, <2>2, <2>3 DEF Construct, session, walk, TypeOK
<1>2. ASSUME NEW m \in Module, Deinit(m) PROVE TypeOK'
  BY <1>2 DEF Deinit, AfterTeardown, registry, session, walk, TypeOK
<1>3. CASE Session
  BY <1>3 DEF Session, registry, host, walk, TypeOK
<1>4. CASE PreGcSweep
  BY <1>4 DEF PreGcSweep, registry, host, session, walk, TypeOK
<1>5. CASE LvDeinit
  BY <1>5 DEF LvDeinit, registry, host, walk, TypeOK
<1>6. CASE Snapshot
  BY <1>6 DEF Snapshot, registry, host, session, TypeOK
<1>7. CASE WalkOn
  <2>1. i \in Index /\ i' \in 0 .. DISPLAYIF_SOFT_RESET_MAX
    BY <1>7 DEF WalkOn, TypeOK, Index
  <2>2. CASE Call(local[i])
    <3>1. local[i] \in Module
      BY <2>1, <2>2 DEF Call, TypeOK
    <3>2. /\ s_fns' \in [Index -> Module \cup {NULL}]
          /\ s_count' \in 0 .. DISPLAYIF_SOFT_RESET_MAX
      BY <2>2, <3>1, UnregisterTyped DEF Call, registry, TypeOK
    <3>3. flag' \in [Module -> BOOLEAN]
      BY <2>2 DEF Call, registry, TypeOK
    <3>4. held' \subseteq Module /\ mirror' \subseteq Module
      BY <2>2 DEF Call, AfterTeardown, TypeOK
    <3> QED
      BY <1>7, <2>1, <3>2, <3>3, <3>4 DEF WalkOn, session, TypeOK
  <2>3. CASE UNCHANGED <<registry, host>>
    BY <1>7, <2>1, <2>3 DEF WalkOn, registry, host, session, TypeOK
  <2> QED
    BY <1>7, <2>2, <2>3 DEF WalkOn
<1>8. CASE WalkEnd
  BY <1>8 DEF WalkEnd, registry, host, session, walk, TypeOK
<1>9. CASE GcSweep
  BY <1>9 DEF GcSweep, registry, host, session, walk, TypeOK
<1>10. CASE UNCHANGED vars
  BY <1>10 DEF vars, TypeOK
<1> QED
  BY <1>1, <1>2, <1>3, <1>4, <1>5, <1>6, <1>7, <1>8, <1>9, <1>10 DEF Next, Reset

\* The type invariant: the table is never written past its end.
THEOREM Typing == Spec => []TypeOK
<1>1. Init => TypeOK
  <2>1. Init => flag \in [Module -> BOOLEAN] /\ timers \in BOOLEAN /\ lvgl \in BOOLEAN
    BY DEF Init
  <2>2. Init => /\ s_fns \in [Index -> Module \cup {NULL}]
                /\ local \in [Index -> Module \cup {NULL}]
    BY DEF Init
  <2>3. 0 \in 0 .. DISPLAYIF_SOFT_RESET_MAX
    BY MaxAssumption
  <2> QED
    BY <2>1, <2>2, <2>3 DEF Init, TypeOK
<1> QED
  BY <1>1, TypeStep, PTL DEF Spec

-----------------------------------------------------------------------------
(* The table.  Only registering and unregistering write it.                *)

LEMMA RegistrySteps ==
  ASSUME TypeOK, [Next]_vars
  PROVE  \/ UNCHANGED <<s_fns, s_count>>
         \/ \E m \in Module : Register(m)
         \/ \E m \in Module : Unregister(m) /\ Registered(m)
<1>1. ASSUME NEW m \in Module, Construct(m)
      PROVE  UNCHANGED <<s_fns, s_count>> \/ Register(m)
  BY <1>1 DEF Construct, registry
<1>2. CASE WalkOn
  <2>1. CASE Call(local[i])
    <3>1. i \in Index
      BY <1>2, MaxAssumption DEF WalkOn, TypeOK, Index
    <3>2. local[i] \in Module
      BY <2>1, <3>1 DEF Call, TypeOK
    <3> QED
      BY <2>1, <3>2 DEF Call, Unregister, registry
  <2> QED
    BY <1>2, <2>1 DEF WalkOn, registry
<1> QED
  BY <1>1, <1>2 DEF Next, Reset, Deinit, Session, PreGcSweep, LvDeinit,
     Snapshot, WalkEnd, GcSweep, vars, registry

\* RegistryOK: no gap and no function twice.
LEMMA RegistryStep ==
  ASSUME TypeOK, RegistryOK, [Next]_vars
  PROVE  RegistryOK'
<1> USE ModuleAssumption, MaxAssumption
<1>1. CASE UNCHANGED <<s_fns, s_count>>
  BY <1>1 DEF RegistryOK
<1>2. ASSUME NEW m \in Module, Register(m) PROVE RegistryOK'
  <2>1. CASE ~Registered(m) /\ s_count < DISPLAYIF_SOFT_RESET_MAX
    BY <1>2, <2>1 DEF Register, Registered, RegistryOK, TypeOK, Index
  <2> QED
    BY <1>1, <1>2, <2>1 DEF Register
<1>3. ASSUME NEW m \in Module, Unregister(m), Registered(m) PROVE RegistryOK'
  <2>1. PICK j \in Index :
          /\ j < s_count /\ s_fns[j] = m
          /\ s_fns' = [s_fns EXCEPT ![j] = s_fns[s_count - 1],
                                    ![s_count - 1] = NULL]
          /\ s_count' = s_count - 1
    BY <1>3 DEF Unregister
  <2>2. s_count - 1 \in Index
    BY <2>1 DEF TypeOK, Index
  <2> QED
    BY <2>1, <2>2 DEF RegistryOK, TypeOK, Index
<1> QED
  BY <1>1, <1>2, <1>3, RegistrySteps

\* RegistryOK: registering and unregistering keep the table dense and without
\* duplicates, also from a teardown that the walk itself calls.
THEOREM TableWellFormed == Spec => []RegistryOK
<1>1. Init => RegistryOK
  BY DEF Init, RegistryOK, Index
<1> QED
  BY <1>1, RegistryStep, Typing, PTL DEF Spec

-----------------------------------------------------------------------------
(* The modules.                                                            *)

\* What a module's own flag and mirror say of the table, at every step of a
\* walk as well as between resets.
FlagTold == \A m \in Module : flag[m] => Registered(m)
MirrorTold == \A m \in mirror : flag[m]

\* The table has room for a module that is not in it.
LEMMA RoomLeft ==
  ASSUME TypeOK, RegistryOK, NEW m \in Module, ~Registered(m)
  PROVE  s_count < DISPLAYIF_SOFT_RESET_MAX
<1> USE MaxAssumption, ModuleAssumption, CapacityAssumption
<1> DEFINE Used == 0 .. s_count - 1
           fn == [j \in Used |-> s_fns[j]]
<1>1. s_count \in Nat /\ s_count <= DISPLAYIF_SOFT_RESET_MAX
  BY DEF TypeOK
<1>2. Used \subseteq Index
  BY <1>1 DEF Index
<1>3. \A j \in Used : j < s_count /\ s_fns[j] \in Module \ {m}
  <2>1. \A j \in Used : j < s_count
    BY <1>1
  <2> QED
    BY <1>2, <2>1 DEF RegistryOK, Registered, TypeOK
<1>4. fn \in Injection(Used, Module \ {m})
  <2>1. \A j, k \in Used : fn[j] = fn[k] => j = k
    BY <1>2, <1>3 DEF RegistryOK
  <2> QED
    BY <1>3, <2>1, SMT DEF Injection, IsInjective
<1>5. /\ IsFiniteSet(Module \ {m})
      /\ Cardinality(Module \ {m}) = Cardinality(Module) - 1
  BY FS_RemoveElement
<1>6. Cardinality(Used) <= Cardinality(Module \ {m})
  BY <1>4, <1>5, FS_Injection
<1>7. Cardinality(Used) = s_count
  BY <1>1, FS_Interval
<1>8. Cardinality(Module) \in Nat
  BY FS_CardinalityType
<1> HIDE DEF Used
<1> QED
  BY <1>1, <1>5, <1>6, <1>7, <1>8

LEMMA RegisterKeeps ==
  ASSUME TypeOK, RegistryOK, NEW m \in Module, Register(m)
  PROVE  /\ Registered(m)'
         /\ \A k \in Module : Registered(k) => Registered(k)'
<1> USE MaxAssumption, ModuleAssumption
<1>1. CASE Registered(m)
  BY <1>1 DEF Register, Registered
<1>2. CASE ~Registered(m)
  <2>1. /\ s_count \in Index
        /\ s_fns' = [s_fns EXCEPT ![s_count] = m] /\ s_count' = s_count + 1
    BY <1>2, RoomLeft DEF Register, TypeOK, Index
  <2> QED
    BY <2>1 DEF Registered, TypeOK, Index
<1> QED
  BY <1>1, <1>2

\* Only the function itself leaves the table.
LEMMA UnregisterKeeps ==
  ASSUME TypeOK, RegistryOK, NEW m \in Module, Unregister(m),
         NEW k \in Module, k # m, Registered(k)
  PROVE  Registered(k)'
<1> USE MaxAssumption
<1>1. CASE ~Registered(m)
  BY <1>1 DEF Unregister, Registered
<1>2. CASE Registered(m)
  <2>1. PICK j \in Index :
          /\ j < s_count /\ s_fns[j] = m
          /\ s_fns' = [s_fns EXCEPT ![j] = s_fns[s_count - 1],
                                    ![s_count - 1] = NULL]
          /\ s_count' = s_count - 1
    BY <1>2 DEF Unregister
  <2>2. PICK l \in Index : l < s_count /\ s_fns[l] = k
    BY DEF Registered
  <2>3. s_count - 1 \in Index /\ l # j
    BY <2>1, <2>2 DEF TypeOK, Index
  <2>4. CASE l = s_count - 1
    <3>1. s_fns'[j] = k /\ j < s_count'
      BY <2>1, <2>2, <2>3, <2>4 DEF TypeOK, Index
    <3> QED
      BY <3>1 DEF Registered
  <2>5. CASE l # s_count - 1
    <3>1. s_fns'[l] = k /\ l < s_count'
      BY <2>1, <2>2, <2>3, <2>5 DEF TypeOK, Index
    <3> QED
      BY <3>1 DEF Registered
  <2> QED
    BY <2>4, <2>5
<1> QED
  BY <1>1, <1>2

LEMMA ToldStep ==
  ASSUME TypeOK, RegistryOK, FlagTold, MirrorTold, [Next]_vars
  PROVE  FlagTold' /\ MirrorTold'
<1>1. ASSUME NEW m \in Module, Construct(m) PROVE FlagTold' /\ MirrorTold'
  <2>1. flag' = [flag EXCEPT ![m] = TRUE]
    BY <1>1 DEF Construct, registry, TypeOK
  <2>2. CASE flag[m]
    <3>1. UNCHANGED <<s_fns, s_count, flag>>
      BY <1>1, <2>2 DEF Construct, registry
    <3> QED
      BY <1>1, <2>2, <3>1 DEF Construct, FlagTold, MirrorTold, Registered
  <2>3. CASE ~flag[m]
    <3>1. Register(m)
      BY <1>1, <2>3 DEF Construct
    <3> QED
      BY <1>1, <2>1, <3>1, RegisterKeeps
         DEF Construct, FlagTold, MirrorTold, TypeOK
  <2> QED
    BY <2>2, <2>3
<1>2. ASSUME UNCHANGED <<s_fns, s_count, flag>>, mirror' \subseteq mirror
      PROVE  FlagTold' /\ MirrorTold'
  BY <1>2 DEF FlagTold, MirrorTold, Registered
<1>3. ASSUME NEW m \in Module, Deinit(m) PROVE FlagTold' /\ MirrorTold'
  BY <1>2, <1>3 DEF Deinit, registry
<1>4. CASE WalkOn
  <2>1. ASSUME Call(local[i]) PROVE FlagTold' /\ MirrorTold'
    <3> DEFINE m == local[i]
    <3>1. i \in Index /\ m \in Module
      BY <1>4, <2>1, MaxAssumption DEF WalkOn, Call, TypeOK, Index
    <3>2. mirror' = mirror \ {m}
      BY <2>1 DEF Call
    <3>3. CASE m \in Transient
      <4>1. Unregister(m) /\ flag' = [flag EXCEPT ![m] = FALSE]
        BY <2>1, <3>3 DEF Call
      <4>2. \A k \in Module : flag'[k] => k # m /\ flag[k]
        BY <3>1, <4>1 DEF TypeOK
      <4>3. FlagTold'
        BY <3>1, <4>1, <4>2, UnregisterKeeps DEF FlagTold
      <4>4. MirrorTold'
        BY <3>1, <3>2, <4>1 DEF MirrorTold, TypeOK
      <4> QED
        BY <4>3, <4>4
    <3>4. CASE m \notin Transient
      BY <1>2, <2>1, <3>2, <3>4 DEF Call, registry
    <3> QED
      BY <3>3, <3>4
  <2> QED
    BY <1>2, <1>4, <2>1 DEF WalkOn, registry, host
<1>5. CASE Session \/ PreGcSweep \/ LvDeinit \/ Snapshot \/ WalkEnd \/ GcSweep
  BY <1>2, <1>5 DEF Session, PreGcSweep, LvDeinit, Snapshot, WalkEnd, GcSweep,
     registry, host
<1>6. CASE UNCHANGED vars
  BY <1>2, <1>6 DEF vars
<1> QED
  BY <1>1, <1>3, <1>4, <1>5, <1>6 DEF Next, Reset

\* A module that believes it is registered is, and one that owns hardware
\* believes it.
THEOREM Told == Spec => [](FlagTold /\ MirrorTold)
<1>1. Init => FlagTold /\ MirrorTold
  BY DEF Init, FlagTold, MirrorTold
<1> QED
  BY <1>1, ToldStep, Typing, TableWellFormed, PTL DEF Spec

\* MirroredIsRegistered: the hardware a module owns is always one the next
\* reset's walk finds, since a table the modules fit in never turns one away,
\* and a module that leaves the table forgets that it was in it.
THEOREM MirroredFound == Spec => []MirroredIsRegistered
<1>1. TypeOK /\ FlagTold /\ MirrorTold => MirroredIsRegistered
  BY DEF TypeOK, FlagTold, MirrorTold, MirroredIsRegistered
<1> QED
  BY <1>1, Typing, Told, PTL

-----------------------------------------------------------------------------
(* The sweep.                                                              *)

\* What has been taken down at each step of a reset.  Until the walk has come
\* to it, everything mirrored lies ahead of it in the snapshot.
Ahead(m) == \E j \in Index : i <= j /\ j < n /\ local[j] = m
TornDown == /\ pc \in {"lvgl", "snapshot", "walk", "sweep"} => timers = FALSE
            /\ pc \in {"snapshot", "walk", "sweep"} => lvgl = FALSE
            /\ pc = "walk" => \A m \in mirror : Ahead(m)
            /\ pc = "sweep" => mirror = {}

\* Without a failure between the allocation and the mirror, hardware that is
\* allocated is mirrored.
LEMMA OrphanStep ==
  ASSUME Faults = {}, NothingOrphaned, [Next]_vars
  PROVE  NothingOrphaned'
BY DEF NothingOrphaned, Next, Reset, Construct, Deinit, Session, PreGcSweep,
   LvDeinit, Snapshot, WalkOn, Call, WalkEnd, GcSweep, AfterTeardown, host, vars

LEMMA TornDownStep ==
  ASSUME TypeOK, FlagTold, MirrorTold, TornDown, [Next]_vars
  PROVE  TornDown'
<1>1. ASSUME NEW m \in Module, Construct(m) \/ Deinit(m) PROVE TornDown'
  BY <1>1 DEF Construct, Deinit, TornDown
<1>2. CASE Session
  BY <1>2 DEF Session, TornDown
<1>3. CASE PreGcSweep
  BY <1>3 DEF PreGcSweep, TornDown
<1>4. CASE LvDeinit
  BY <1>4 DEF LvDeinit, TornDown
<1>5. CASE Snapshot
  <2>1. \A m \in mirror : Registered(m)
    BY DEF TypeOK, FlagTold, MirrorTold
  <2>2. \A m \in mirror' : Ahead(m)'
    BY <1>5, <2>1, MaxAssumption DEF Snapshot, Registered, Ahead, Index, host
  <2> QED
    BY <1>5, <2>2 DEF Snapshot, TornDown, session
<1>6. CASE WalkOn
  <2>1. mirror' \subseteq mirror /\ \A m \in mirror' : m # local[i]
    BY <1>6, ModuleAssumption DEF WalkOn, Call, host, TypeOK
  <2>2. ASSUME pc = "walk", NEW m \in mirror' PROVE Ahead(m)'
    <3>1. PICK j \in Index : i <= j /\ j < n /\ local[j] = m
      BY <2>1, <2>2 DEF TornDown, Ahead
    <3>2. j # i
      BY <2>1, <3>1
    <3>3. i + 1 <= j
      BY <3>1, <3>2, MaxAssumption DEF TypeOK, Index
    <3> QED
      BY <1>6, <3>1, <3>3 DEF WalkOn, Ahead
  <2> QED
    BY <1>6, <2>2 DEF WalkOn, TornDown, session
<1>7. CASE WalkEnd
  <2>1. pc = "walk" => mirror = {}
    BY <1>7, MaxAssumption DEF WalkEnd, TornDown, Ahead, TypeOK, Index
  <2> QED
    BY <1>7, <2>1 DEF WalkEnd, TornDown, host, session
<1>8. CASE GcSweep
  BY <1>8 DEF GcSweep, TornDown
<1>9. CASE UNCHANGED vars
  BY <1>9 DEF vars, TornDown, Ahead
<1> QED
  BY <1>1, <1>2, <1>3, <1>4, <1>5, <1>6, <1>7, <1>8, <1>9 DEF Next, Reset

\* QuietAtSweep: where set-up does not fail half way, no timer, no LVGL and no
\* module's hardware is left when the heap is swept.
THEOREM Quiet ==
  ASSUME Faults = {}
  PROVE  Spec => []QuietAtSweep
<1>1. Init => NothingOrphaned /\ TornDown
  BY DEF Init, NothingOrphaned, TornDown
<1>2. NothingOrphaned /\ TornDown => QuietAtSweep
  BY DEF NothingOrphaned, TornDown, QuietAtSweep
<1>3. NothingOrphaned /\ [Next]_vars => NothingOrphaned'
  BY OrphanStep
<1> QED
  BY <1>1, <1>2, <1>3, TornDownStep, Typing, Told, PTL DEF Spec
=============================================================================
