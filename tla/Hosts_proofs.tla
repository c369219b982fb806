----------------------------- MODULE Hosts_proofs -----------------------------
(***************************************************************************)
(* Proofs about the ports that MCHosts composes: an inductive invariant of *)
(* each port, for every number of objects, frame buffers, handles and      *)
(* channels, what it says of all of them, and the RP2350's command list.   *)
(***************************************************************************)
EXTENDS MCHosts, FiniteSetTheorems, SequenceTheorems, WellFoundedInduction,
        TLAPS

\* NULL is no address, no resource and no owner.
LEMMA NullApart ==
  /\ None \notin Blocks /\ None \notin Handles /\ None \notin Channels
  /\ None \notin Pio!Resource /\ None # "i80" /\ None # "other" /\ None # "lost"
  /\ None \notin Objects /\ None \notin Nat
BY NullAssumption, NamesAssumption, NoneAssumption

-----------------------------------------------------------------------------
(* i80bus on RP2.                                                          *)

PioTyped ==
  /\ host \in [sm : Pio!Resource \cup {None}, dma : Pio!Resource \cup {None},
               loaded : BOOLEAN]
  /\ live \in [Pio!Resource -> {None, "i80", "lost", "other"}]
  /\ objs \in [Objects -> [sm : Pio!Resource, dma : Pio!Resource] \cup {None}]

PioKept == PioTyped /\ Pio!ReleasedOnce

LEMMA PioInit == Pio!Init => PioKept
<1> SUFFICES ASSUME Pio!Init PROVE PioKept
  OBVIOUS
<1>1. PioTyped
  BY DEF Pio!Init, PioTyped
<1>2. \A r \in Pio!Resource : live[r] # "i80"
  BY NullApart DEF Pio!Init
<1> QED
  BY <1>1, <1>2 DEF Pio!Init, PioKept, Pio!ReleasedOnce

\* What the bus has claimed, resource by resource.
LEMMA PioClaims ==
  Pio!ReleasedOnce <=>
    /\ \A r \in Pio!Resource : live[r] = "i80" <=> r = host.sm \/ r = host.dma
    /\ {host.sm, host.dma} \ {None} \subseteq Pio!Resource
    /\ host.sm = None <=> host.dma = None
    /\ host.sm # None =>
         \E o \in Objects : objs[o] = [sm |-> host.sm, dma |-> host.dma]
BY NullApart DEF Pio!ReleasedOnce

LEMMA PioStep == PioKept /\ Pio!Next => PioKept'
<1> SUFFICES ASSUME PioKept, Pio!Next PROVE PioKept'
  OBVIOUS
<1>0. /\ \A r \in Pio!Resource : live[r] = "i80" <=> r = host.sm \/ r = host.dma
      /\ host.sm = None <=> host.dma = None
  BY PioClaims DEF PioKept
<1>1. ASSUME Pio!HostTeardown,
             objs' \in [Objects -> [sm : Pio!Resource, dma : Pio!Resource] \cup {None}]
      PROVE  PioKept'
  <2>1. PioTyped'
    BY <1>1 DEF PioKept, PioTyped, Pio!HostTeardown
  <2>2. host'.sm = None /\ host'.dma = None
    BY <1>1 DEF PioKept, PioTyped, Pio!HostTeardown
  <2>3. \A r \in Pio!Resource : live'[r] # "i80"
    BY <1>0, <1>1, NullApart DEF Pio!HostTeardown
  <2> QED
    BY <2>1, <2>2, <2>3 DEF PioKept, Pio!ReleasedOnce
\* The mirror names what has just been claimed, or nothing, and then what has
\* been claimed is lost.
<1>2. ASSUME NEW o \in Objects, Pio!MakeOk(o) PROVE PioKept'
  <2>1. PICK s, d \in {r \in Pio!Resource : Pio!After(r)} :
          \/ /\ live' = Pio!ClaimedBy("i80", s, d)
             /\ host' = [sm |-> s, dma |-> d, loaded |-> TRUE]
             /\ objs' = [objs EXCEPT ![o] = [sm |-> s, dma |-> d]]
          \/ /\ live' = Pio!ClaimedBy("lost", s, d)
             /\ host' = [sm |-> None, dma |-> None, loaded |-> TRUE]
             /\ UNCHANGED objs
    BY <1>2 DEF Pio!MakeOk
  <2>2. s \in Pio!Resource /\ d \in Pio!Resource
    OBVIOUS
  <2>3. ASSUME NEW who \in {"i80", "lost"}, live' = Pio!ClaimedBy(who, s, d)
        PROVE  /\ live' \in [Pio!Resource -> {None, "i80", "lost", "other"}]
               /\ \A r \in Pio!Resource :
                    live'[r] = "i80" <=> who = "i80" /\ (r = s \/ r = d)
    BY <1>0, <2>2, <2>3, NullApart DEF PioKept, PioTyped, Pio!ClaimedBy
  <2>4. CASE /\ live' = Pio!ClaimedBy("i80", s, d)
             /\ host' = [sm |-> s, dma |-> d, loaded |-> TRUE]
             /\ objs' = [objs EXCEPT ![o] = [sm |-> s, dma |-> d]]
    <3>1. PioTyped'
      BY <2>2, <2>3, <2>4 DEF PioKept, PioTyped
    <3>2. host'.sm = s /\ host'.dma = d /\ s # None /\ d # None
      BY <2>2, <2>4, NullApart
    <3>3. objs'[o] = [sm |-> s, dma |-> d]
      BY <2>4 DEF PioKept, PioTyped
    <3>4. {r \in Pio!Resource : live'[r] = "i80"} = {s, d} \ {None}
      BY <2>2, <2>3, <2>4, <3>2
    <3> QED
      BY <3>1, <3>2, <3>3, <3>4 DEF PioKept, Pio!ReleasedOnce
  <2>5. CASE /\ live' = Pio!ClaimedBy("lost", s, d)
             /\ host' = [sm |-> None, dma |-> None, loaded |-> TRUE]
             /\ UNCHANGED objs
    <3>1. PioTyped'
      BY <2>2, <2>3, <2>5 DEF PioKept, PioTyped
    <3>2. \A r \in Pio!Resource : live'[r] # "i80"
      BY <2>3, <2>5
    <3> QED
      BY <2>5, <3>1, <3>2 DEF PioKept, Pio!ReleasedOnce
  <2> QED
    BY <2>1, <2>4, <2>5
<1>3. ASSUME Pio!Panic PROVE PioKept'
  <2>1. \A r \in Pio!Resource : live'[r] # "i80"
    BY <1>3, NullApart DEF Pio!Panic
  <2> QED
    BY <1>3, <2>1 DEF PioKept, PioTyped, Pio!Panic, Pio!ReleasedOnce
\* Other code claims only what nobody has, and gives back only its own.
<1>4. ASSUME Pio!OtherClaim \/ Pio!OtherRelease PROVE PioKept'
  <2>1. PICK r \in Pio!Resource, who \in {"other", None} :
          live[r] # "i80" /\ live' = [live EXCEPT ![r] = who]
    BY <1>4, NullApart DEF Pio!OtherClaim, Pio!OtherRelease, Pio!Free
  <2>2. UNCHANGED <<host, objs>>
    BY <1>4 DEF Pio!OtherClaim, Pio!OtherRelease
  <2>3. PioTyped'
    BY <2>1, <2>2 DEF PioKept, PioTyped
  <2>4. \A q \in Pio!Resource : live'[q] = "i80" <=> live[q] = "i80"
    BY <2>1, NullApart DEF PioKept, PioTyped
  <2> QED
    BY <2>2, <2>3, <2>4 DEF PioKept, Pio!ReleasedOnce
<1>5. ASSUME NEW o \in Objects, Pio!Deinit(o) PROVE PioKept'
  <2>1. objs' \in [Objects -> [sm : Pio!Resource, dma : Pio!Resource] \cup {None}]
    BY <1>5 DEF PioKept, PioTyped, Pio!Deinit
  <2> QED
    BY <1>1, <1>5, <2>1 DEF Pio!Deinit
<1>6. CASE Pio!SoftReset
  <2>1. objs' \in [Objects -> [sm : Pio!Resource, dma : Pio!Resource] \cup {None}]
    BY <1>6 DEF Pio!SoftReset
  <2> QED
    BY <1>1, <1>6, <2>1 DEF Pio!SoftReset
<1>7. CASE Pio!MakeUnloaded
  <2>1. objs' \in [Objects -> [sm : Pio!Resource, dma : Pio!Resource] \cup {None}]
    BY <1>7 DEF PioKept, PioTyped, Pio!MakeUnloaded
  <2> QED
    BY <1>1, <1>7, <2>1 DEF Pio!MakeUnloaded
<1> QED
  BY <1>2, <1>3, <1>4, <1>5, <1>6, <1>7 DEF Pio!Next, Pio!Make

-----------------------------------------------------------------------------
(* The buffers of the ports whose objects own one each.                    *)

\* An object and its buffer.
Made(o) == objs[o] # None
Owns(o) == Made(o) /\ ~objs[o].deinited
Field == [buf : Blocks \cup {None}, deinited : BOOLEAN]

Done == << >>

\* The buffers a call has freed already.
Released(o) ==
  /\ call # None /\ call.steps = Done
  /\ \/ call.op = "soft_reset"
     \/ call.op = "deinit" /\ call.self = o

Owners ==
  /\ \A o \in Objects : Made(o) /\ objs[o].deinited => objs[o].buf = None
  /\ \A o \in Objects : Owns(o) => objs[o].buf # None
  /\ \A o \in Objects : Owns(o) /\ ~Released(o) => objs[o].buf \in live
  /\ \A o, p \in Objects : o # p /\ Made(o) /\ Made(p) /\ objs[o].buf # None
                             => objs[o].buf # objs[p].buf

\* A constructor returns: its buffer is allocated and nobody else's.
LEMMA OwnerMade ==
  ASSUME NEW D, Objects \subseteq D, NEW self \in Objects, NEW buf \in live,
         live \subseteq Blocks, objs \in [D -> Field \cup {None}], Owners,
         \A o \in Objects : ~Released(o),
         \A o \in Objects : Made(o) => objs[o].buf # buf,
         objs' = [objs EXCEPT ![self] = [buf |-> buf, deinited |-> FALSE]],
         UNCHANGED live
  PROVE  objs' \in [D -> Field \cup {None}] /\ Owners'
<1>1. objs' \in [D -> Field \cup {None}]
  BY DEF Field
<1>2. /\ objs'[self] = [buf |-> buf, deinited |-> FALSE]
      /\ \A o \in Objects : o # self => objs'[o] = objs[o]
  OBVIOUS
<1>3. \A o \in Objects : o # self => (Made(o)' <=> Made(o)) /\ (Owns(o)' <=> Owns(o))
  BY <1>2 DEF Made, Owns
<1>4. objs'[self].buf = buf /\ ~objs'[self].deinited /\ buf # None
  BY <1>2, NullApart
<1>5. \A o \in Objects : Made(o)' /\ objs'[o].deinited => objs'[o].buf = None
  BY <1>2, <1>3, <1>4 DEF Owners
<1>6. \A o \in Objects : Owns(o)' => objs'[o].buf # None /\ objs'[o].buf \in live
  BY <1>2, <1>3, <1>4 DEF Owners
<1>7. ASSUME NEW o \in Objects, NEW p \in Objects, o # p,
             Made(o)', Made(p)', objs'[o].buf # None
      PROVE  objs'[o].buf # objs'[p].buf
  BY <1>2, <1>3, <1>4, <1>7 DEF Owners
<1> QED
  BY <1>1, <1>5, <1>6, <1>7 DEF Owners

\* deinit() returns: the object has no buffer.
LEMMA OwnerDeinited ==
  ASSUME NEW D, Objects \subseteq D, NEW self \in D,
         objs \in [D -> Field \cup {None}], Owners,
         \A o \in Objects : o # self => ~Released(o),
         objs' = [objs EXCEPT ![self] = [buf |-> None, deinited |-> TRUE]],
         UNCHANGED live
  PROVE  objs' \in [D -> Field \cup {None}] /\ Owners'
<1>1. objs' \in [D -> Field \cup {None}]
  BY DEF Field
<1>2. /\ objs'[self] = [buf |-> None, deinited |-> TRUE]
      /\ \A o \in Objects : o # self => objs'[o] = objs[o]
  OBVIOUS
<1>3. \A o \in Objects : o # self => (Made(o)' <=> Made(o)) /\ (Owns(o)' <=> Owns(o))
  BY <1>2 DEF Made, Owns
<1>4. \A o \in Objects : o = self => objs'[o].buf = None /\ ~Owns(o)'
  BY <1>2 DEF Owns
<1>5. \A o \in Objects : Made(o)' /\ objs'[o].deinited => objs'[o].buf = None
  BY <1>2, <1>3, <1>4 DEF Owners
<1>6. \A o \in Objects : Owns(o)' => objs'[o].buf # None /\ objs'[o].buf \in live
  BY <1>2, <1>3, <1>4 DEF Owners
<1>7. ASSUME NEW o \in Objects, NEW p \in Objects, o # p,
             Made(o)', Made(p)', objs'[o].buf # None
      PROVE  objs'[o].buf # objs'[p].buf
  BY <1>2, <1>3, <1>4, <1>7 DEF Owners
<1> QED
  BY <1>1, <1>5, <1>6, <1>7 DEF Owners

\* A call of a port whose calls carry a buffer.
Calls(ops, paths) ==
  [op : ops, self : Named, buf : Blocks \cup {None}, steps : paths]
LEMMA CallIsNotNull ==
  ASSUME NEW c \in Calls(Op, Seq(Stage)) PROVE c # None
BY NullAssumption DEF Calls

-----------------------------------------------------------------------------
(* dotclockframebuffer on the i.MX RT.                                     *)

\* What is left of a call.
Making == <<"teardown", "malloc", "init">>
Allocating == <<"malloc", "init">>
Starting == <<"init">>
Deiniting == <<"teardown", "free">>
Freeing == <<"free">>
Resetting == <<"teardown", "sweep">>
Sweeping == <<"sweep">>

LEMMA ElcdifPaths ==
  /\ Head(Making) = "teardown" /\ Tail(Making) = Allocating
  /\ Head(Allocating) = "malloc" /\ Tail(Allocating) = Starting
  /\ Head(Starting) = "init" /\ Tail(Starting) = Done
  /\ Head(Deiniting) = "teardown" /\ Tail(Deiniting) = Freeing
  /\ Head(Freeing) = "free" /\ Tail(Freeing) = Done
  /\ Head(Resetting) = "teardown" /\ Tail(Resetting) = Sweeping
  /\ Head(Sweeping) = "sweep" /\ Tail(Sweeping) = Done
BY DEF Making, Allocating, Starting, Deiniting, Freeing, Resetting, Sweeping, Done

ElcdifPath == {Making, Allocating, Starting, Deiniting, Freeing, Resetting,
               Sweeping, Done}
LEMMA ElcdifPathType == /\ \A s \in ElcdifPath : s \in Seq(Stage)
                  /\ Done \notin {Making, Allocating, Starting, Deiniting, Freeing,
                               Resetting, Sweeping}
<1>1. /\ Making \in Seq(Stage) /\ Allocating \in Seq(Stage)
      /\ Starting \in Seq(Stage) /\ Deiniting \in Seq(Stage)
      /\ Freeing \in Seq(Stage) /\ Resetting \in Seq(Stage)
      /\ Sweeping \in Seq(Stage) /\ Done \in Seq(Stage)
  BY DEF Making, Allocating, Starting, Deiniting, Freeing, Resetting, Sweeping,
         Done, Stage
<1>2. /\ Making # << >> /\ Allocating # << >> /\ Starting # << >>
      /\ Deiniting # << >> /\ Freeing # << >> /\ Resetting # << >>
      /\ Sweeping # << >>
  BY DEF Making, Allocating, Starting, Deiniting, Freeing, Resetting, Sweeping
<1>3. \A s \in ElcdifPath : s \in Seq(Stage)
  BY <1>1 DEF ElcdifPath
<1>4. Done = << >>
  BY DEF Done
<1> QED
  BY <1>2, <1>3, <1>4

ElcdifOps == {"make", "deinit", "soft_reset"}
ElcdifCalls == Calls(ElcdifOps, ElcdifPath)
LEMMA ElcdifNotNull == ASSUME NEW c \in ElcdifCalls PROVE c # None
BY CallIsNotNull, ElcdifPathType DEF ElcdifCalls, Calls, ElcdifOps, Op

LEMMA ElcdifGoesOn ==
  ASSUME call \in ElcdifCalls, ElcdifPort!Continue
  PROVE  call' = [op |-> call.op, self |-> call.self, buf |-> call.buf,
                   steps |-> Tail(call.steps)]
BY DEF ElcdifCalls, Calls, ElcdifPort!Continue

ElcdifTyped ==
  /\ host \in BOOLEAN /\ live \subseteq Blocks
  /\ objs \in [Objects -> Field \cup {None}]
  /\ call = None \/ call \in ElcdifCalls

\* Between the steps of a call nothing else starts, and the eLCDIF, once
\* stopped, reads nothing until the call starts it.
ElcdifCall ==
  call # None =>
    /\ call.op = "make" => /\ call.steps \in {Making, Allocating, Starting, Done}
                           /\ call.self \in Objects /\ ~Owns(call.self)
    /\ call.op = "deinit" => /\ call.steps \in {Deiniting, Freeing, Done}
                             /\ call.self \in Objects /\ Owns(call.self)
    /\ call.op = "soft_reset" => call.steps \in {Resetting, Sweeping, Done}
    /\ call.steps \in {Allocating, Starting, Freeing, Sweeping} => scan = {}

\* The new object's buffer is nobody else's.
ElcdifFresh ==
  call # None /\ call.op = "make" /\ call.steps \in {Starting, Done} =>
    /\ call.buf \in live
    /\ \A o \in Objects : Made(o) => objs[o].buf # call.buf

ElcdifKept == /\ ElcdifTyped /\ ElcdifCall /\ ElcdifFresh /\ Owners
              /\ ElcdifPort!ScanRight

LEMMA ElcdifInit == ElcdifPort!Init => ElcdifKept
BY DEF ElcdifPort!Init, ElcdifKept, ElcdifTyped, ElcdifCall, ElcdifFresh,
       Owners, ElcdifPort!ScanRight, Made, Owns, Released

\* A call begins.
LEMMA ElcdifBegin ==
  ASSUME ElcdifKept, call = None, UNCHANGED <<host, live, objs, scan>>,
         NEW op \in ElcdifOps, NEW self \in Objects \cup {None}, NEW steps,
         ElcdifPort!Begin(op, self, steps),
         op = "make" => self \in Objects /\ ~Owns(self) /\ steps = Making,
         op = "deinit" => self \in Objects /\ Owns(self) /\ steps = Deiniting,
         op = "soft_reset" => steps = Resetting
  PROVE  ElcdifKept'
<1>1. call' = [op |-> op, self |-> self, buf |-> None, steps |-> steps]
  BY DEF ElcdifPort!Begin
<1>2. steps \in {Making, Deiniting, Resetting}
  BY DEF ElcdifOps
<1>3. call' \in ElcdifCalls
  BY <1>1, <1>2 DEF ElcdifCalls, Calls, ElcdifPath, Named
<1>4. steps \notin {Allocating, Starting, Freeing, Sweeping, Done}
  BY <1>2, ElcdifPaths, ElcdifPathType
<1>5. \A o \in Objects : (Made(o)' <=> Made(o)) /\ (Owns(o)' <=> Owns(o))
  BY DEF Made, Owns
<1>6. ElcdifCall'
  BY <1>1, <1>2, <1>4, <1>5 DEF ElcdifCall
<1>7. Owners'
  BY <1>1, <1>5 DEF ElcdifKept, Owners, Released
<1> QED
  BY <1>1, <1>3, <1>4, <1>6, <1>7
     DEF ElcdifKept, ElcdifTyped, ElcdifFresh, ElcdifPort!ScanRight

\* Where a call is when it is at a step.
LEMMA ElcdifAt ==
  ASSUME ElcdifKept, NEW s, ElcdifPort!Step(s)
  PROVE  /\ call # None /\ call \in ElcdifCalls
         /\ s = "teardown" => call.steps \in {Making, Deiniting, Resetting}
         /\ s = "malloc" => call.op = "make" /\ call.steps = Allocating
         /\ s = "init" => call.op = "make" /\ call.steps = Starting
         /\ s = "free" => call.op = "deinit" /\ call.steps = Freeing
         /\ s = "sweep" => call.op = "soft_reset" /\ call.steps = Sweeping
         /\ call.steps # Done
<1>1. /\ call # None /\ call \in ElcdifCalls
      /\ call.steps # Done /\ Head(call.steps) = s
  BY DEF ElcdifPort!Step, ElcdifKept, ElcdifTyped, Done
<1>2. call.op \in ElcdifOps
  BY <1>1 DEF ElcdifCalls, Calls
<1>3. \/ call.op = "make" /\ call.steps \in {Making, Allocating, Starting}
      \/ call.op = "deinit" /\ call.steps \in {Deiniting, Freeing}
      \/ call.op = "soft_reset" /\ call.steps \in {Resetting, Sweeping}
  BY <1>1, <1>2 DEF ElcdifKept, ElcdifCall, ElcdifOps
<1> QED
  BY <1>1, <1>3, ElcdifPaths

LEMMA ElcdifTeardown ==
  ASSUME ElcdifKept, ElcdifPort!Teardown PROVE ElcdifKept'
<1>1. /\ call # None /\ call \in ElcdifCalls
      /\ call.steps \in {Making, Deiniting, Resetting}
  BY ElcdifAt DEF ElcdifPort!Teardown
<1>2. call' = [op |-> call.op, self |-> call.self, buf |-> call.buf,
               steps |-> Tail(call.steps)]
  BY <1>1, ElcdifGoesOn DEF ElcdifPort!Teardown
<1>3. scan' = {} /\ host' \in BOOLEAN /\ UNCHANGED <<live, objs>>
  BY DEF ElcdifPort!Teardown, ElcdifKept, ElcdifTyped, ElcdifPort!ScanRight
<1>4. /\ call.op = "make" => Tail(call.steps) = Allocating
      /\ call.op = "deinit" => Tail(call.steps) = Freeing
      /\ call.op = "soft_reset" => Tail(call.steps) = Sweeping
      /\ Tail(call.steps) \in {Allocating, Freeing, Sweeping}
  BY <1>1, ElcdifPaths, ElcdifPathType DEF ElcdifKept, ElcdifCall
<1>5. call' \in ElcdifCalls
  BY <1>1, <1>2, <1>4 DEF ElcdifCalls, Calls, ElcdifPath
<1>6. \A o \in Objects : (Made(o)' <=> Made(o)) /\ (Owns(o)' <=> Owns(o))
  BY <1>3 DEF Made, Owns
<1>7. ElcdifCall'
  BY <1>1, <1>2, <1>3, <1>4, <1>6, ElcdifPathType DEF ElcdifKept, ElcdifCall
<1>8. Tail(call.steps) \notin {Starting, Done} /\ call.steps # Done
  BY <1>1, <1>4, ElcdifPaths, ElcdifPathType
<1>9. Owners'
  BY <1>2, <1>3, <1>6, <1>8 DEF ElcdifKept, Owners, Released
<1> QED
  BY <1>2, <1>3, <1>5, <1>7, <1>8, <1>9
     DEF ElcdifKept, ElcdifTyped, ElcdifFresh, ElcdifPort!ScanRight

LEMMA ElcdifMalloc ==
  ASSUME ElcdifKept, ElcdifPort!Malloc PROVE ElcdifKept'
<1>1. /\ call # None /\ call \in ElcdifCalls
      /\ call.op = "make" /\ call.steps = Allocating
  BY ElcdifAt DEF ElcdifPort!Malloc
<1>2. UNCHANGED <<host, objs, scan>>
  BY DEF ElcdifPort!Malloc
<1>3. \A o \in Objects : (Made(o)' <=> Made(o)) /\ (Owns(o)' <=> Owns(o))
  BY <1>2 DEF Made, Owns
<1>4. ASSUME NEW block \in Blocks \ live, live' = live \cup {block},
             call' = [call EXCEPT !.steps = Tail(@), !.buf = block]
      PROVE  ElcdifKept'
  <2>1. call' = [op |-> call.op, self |-> call.self, buf |-> block,
                 steps |-> Starting]
    BY <1>1, <1>4, ElcdifPaths DEF ElcdifCalls, Calls
  <2>2. call' \in ElcdifCalls
    BY <1>1, <2>1 DEF ElcdifCalls, Calls, ElcdifPath
  <2>3. ElcdifCall'
    BY <1>1, <1>2, <1>3, <2>1 DEF ElcdifKept, ElcdifCall
  <2>4. \A o \in Objects : ~Released(o) /\ ~Released(o)'
    BY <1>1, <2>1, ElcdifPathType DEF Released
  <2>5. Owners'
    BY <1>2, <1>3, <1>4, <2>4 DEF ElcdifKept, Owners
  \* A buffer that has an owner is not allocated again.
  <2>6. \A o \in Objects : Made(o) => objs[o].buf # block
    BY <1>4, <2>4, NullApart DEF ElcdifKept, Owners, Owns
  <2> QED
    BY <1>2, <1>3, <1>4, <2>1, <2>2, <2>3, <2>5, <2>6
       DEF ElcdifKept, ElcdifTyped, ElcdifFresh, ElcdifPort!ScanRight
<1>5. CASE call' = None /\ UNCHANGED live
  <2>1. \A o \in Objects : ~Released(o) /\ ~Released(o)'
    BY <1>1, <1>5, ElcdifPathType DEF Released
  <2>2. Owners'
    BY <1>2, <1>3, <1>5, <2>1 DEF ElcdifKept, Owners
  <2> QED
    BY <1>2, <1>5, <2>2
       DEF ElcdifKept, ElcdifTyped, ElcdifCall, ElcdifFresh, ElcdifPort!ScanRight
<1> QED
  BY <1>4, <1>5 DEF ElcdifPort!Malloc

LEMMA ElcdifInitElcdif ==
  ASSUME ElcdifKept, ElcdifPort!InitElcdif PROVE ElcdifKept'
<1>1. /\ call # None /\ call \in ElcdifCalls
      /\ call.op = "make" /\ call.steps = Starting
  BY ElcdifAt DEF ElcdifPort!InitElcdif
<1>2. /\ call.buf \in live /\ scan = {}
      /\ \A o \in Objects : Made(o) => objs[o].buf # call.buf
  BY <1>1 DEF ElcdifKept, ElcdifFresh, ElcdifCall
<1>3. UNCHANGED objs
  BY DEF ElcdifPort!InitElcdif
<1>4. \A o \in Objects : (Made(o)' <=> Made(o)) /\ (Owns(o)' <=> Owns(o))
  BY <1>3 DEF Made, Owns
<1>5. \A o \in Objects : ~Released(o)
  BY <1>1 DEF Released
<1>6. ASSUME host' = TRUE, scan' = scan \cup {call.buf}, ElcdifPort!Continue,
             UNCHANGED live
      PROVE  ElcdifKept'
  <2>1. call' = [op |-> call.op, self |-> call.self, buf |-> call.buf,
                 steps |-> Done]
    BY <1>1, <1>6, ElcdifGoesOn, ElcdifPaths
  <2>2. call' \in ElcdifCalls
    BY <1>1, <2>1 DEF ElcdifCalls, Calls, ElcdifPath
  <2>3. ElcdifCall'
    BY <1>1, <1>4, <2>1, ElcdifPathType DEF ElcdifKept, ElcdifCall
  <2>4. \A o \in Objects : ~Released(o)'
    BY <1>1, <2>1 DEF Released
  <2>5. Owners'
    BY <1>3, <1>4, <1>5, <1>6, <2>4 DEF ElcdifKept, Owners
  <2>6. ElcdifPort!ScanRight'
    BY <1>2, <1>6 DEF ElcdifPort!ScanRight
  <2> QED
    BY <1>2, <1>3, <1>4, <1>6, <2>1, <2>2, <2>3, <2>5, <2>6
       DEF ElcdifKept, ElcdifTyped, ElcdifFresh
\* The buffer that becomes garbage has no owner and is not read.
<1>7. CASE live' = live \ {call.buf} /\ call' = None /\ UNCHANGED <<host, scan>>
  <2>1. \A o \in Objects : ~Released(o)'
    BY <1>7 DEF Released
  <2>2. \A o \in Objects : Owns(o) => objs[o].buf \in live'
    BY <1>2, <1>5, <1>7 DEF ElcdifKept, Owners, Owns
  <2>3. Owners'
    BY <1>3, <1>4, <2>1, <2>2 DEF ElcdifKept, Owners
  <2> QED
    BY <1>2, <1>3, <1>7, <2>3
       DEF ElcdifKept, ElcdifTyped, ElcdifCall, ElcdifFresh, ElcdifPort!ScanRight
<1> QED
  BY <1>6, <1>7 DEF ElcdifPort!InitElcdif

LEMMA ElcdifFree ==
  ASSUME ElcdifKept, ElcdifPort!Free PROVE ElcdifKept'
<1>1. /\ call # None /\ call \in ElcdifCalls
      /\ call.op = "deinit" /\ call.steps = Freeing
  BY ElcdifAt DEF ElcdifPort!Free
<1>2. /\ live' = live \ {objs[call.self].buf} /\ UNCHANGED <<host, objs, scan>>
      /\ scan = {} /\ call.self \in Objects /\ Owns(call.self)
  BY <1>1 DEF ElcdifPort!Free, ElcdifKept, ElcdifCall
<1>3. call' = [op |-> call.op, self |-> call.self, buf |-> call.buf,
               steps |-> Done]
  BY <1>1, ElcdifGoesOn, ElcdifPaths DEF ElcdifPort!Free
<1>4. call' \in ElcdifCalls
  BY <1>1, <1>3 DEF ElcdifCalls, Calls, ElcdifPath
<1>5. \A o \in Objects : (Made(o)' <=> Made(o)) /\ (Owns(o)' <=> Owns(o))
  BY <1>2 DEF Made, Owns
<1>6. ElcdifCall'
  BY <1>1, <1>2, <1>3, <1>5, ElcdifPathType DEF ElcdifKept, ElcdifCall
<1>7. call' # None
  BY <1>4, ElcdifNotNull
<1>8. \A o \in Objects : ~Released(o) /\ (Released(o)' <=> o = call.self)
  BY <1>1, <1>3, <1>7, ElcdifPathType DEF Released
<1>9. \A o \in Objects : Owns(o) /\ o # call.self => objs[o].buf \in live'
  BY <1>2, <1>8 DEF ElcdifKept, Owners, Owns
<1>10. Owners'
  BY <1>2, <1>5, <1>8, <1>9 DEF ElcdifKept, Owners
<1> QED
  BY <1>1, <1>2, <1>3, <1>4, <1>6, <1>10
     DEF ElcdifKept, ElcdifTyped, ElcdifFresh, ElcdifPort!ScanRight

LEMMA ElcdifSweep ==
  ASSUME ElcdifKept, ElcdifPort!Sweep PROVE ElcdifKept'
<1>1. /\ call # None /\ call \in ElcdifCalls
      /\ call.op = "soft_reset" /\ call.steps = Sweeping
  BY ElcdifAt DEF ElcdifPort!Sweep
<1>2. live' = {} /\ UNCHANGED <<host, objs, scan>> /\ scan = {}
  BY <1>1 DEF ElcdifPort!Sweep, ElcdifKept, ElcdifCall
<1>3. call' = [op |-> call.op, self |-> call.self, buf |-> call.buf,
               steps |-> Done]
  BY <1>1, ElcdifGoesOn, ElcdifPaths DEF ElcdifPort!Sweep
<1>4. call' \in ElcdifCalls
  BY <1>1, <1>3 DEF ElcdifCalls, Calls, ElcdifPath
<1>5. \A o \in Objects : (Made(o)' <=> Made(o)) /\ (Owns(o)' <=> Owns(o))
  BY <1>2 DEF Made, Owns
<1>6. ElcdifCall'
  BY <1>1, <1>2, <1>3, <1>5, ElcdifPathType DEF ElcdifKept, ElcdifCall
<1>7. call' # None
  BY <1>4, ElcdifNotNull
<1>8. \A o \in Objects : Released(o)'
  BY <1>1, <1>3, <1>7 DEF Released
<1>9. Owners'
  BY <1>2, <1>5, <1>8 DEF ElcdifKept, Owners
<1> QED
  BY <1>1, <1>2, <1>3, <1>4, <1>6, <1>9
     DEF ElcdifKept, ElcdifTyped, ElcdifFresh, ElcdifPort!ScanRight

LEMMA ElcdifReturn ==
  ASSUME ElcdifKept, ElcdifPort!Return PROVE ElcdifKept'
<1>1. /\ call # None /\ call \in ElcdifCalls /\ call.steps = Done
      /\ call' = None /\ UNCHANGED <<host, live, scan>>
  BY DEF ElcdifPort!Return, ElcdifKept, ElcdifTyped, Done
<1>2. SUFFICES objs' \in [Objects -> Field \cup {None}] /\ Owners'
  BY <1>1 DEF ElcdifKept, ElcdifTyped, ElcdifCall, ElcdifFresh, ElcdifPort!ScanRight
<1>3. objs \in [Objects -> Field \cup {None}] /\ Owners /\ live \subseteq Blocks
  BY DEF ElcdifKept, ElcdifTyped
<1>4. CASE call.op = "make"
  <2>1. /\ call.self \in Objects /\ call.buf \in live
        /\ \A o \in Objects : Made(o) => objs[o].buf # call.buf
    BY <1>1, <1>4 DEF ElcdifKept, ElcdifCall, ElcdifFresh
  <2>2. objs' = [objs EXCEPT ![call.self] = [buf |-> call.buf,
                                             deinited |-> FALSE]]
    BY <1>4 DEF ElcdifPort!Return
  <2>3. \A o \in Objects : ~Released(o)
    BY <1>4 DEF Released
  <2> QED
    BY <1>1, <1>3, <2>1, <2>2, <2>3, OwnerMade
<1>5. CASE call.op = "deinit"
  <2>1. call.self \in Objects
    BY <1>1, <1>5 DEF ElcdifKept, ElcdifCall
  <2>2. objs' = [objs EXCEPT ![call.self] = [buf |-> None, deinited |-> TRUE]]
    BY <1>5 DEF ElcdifPort!Return
  <2>3. \A o \in Objects : o # call.self => ~Released(o)
    BY <1>5 DEF Released
  <2> QED
    BY <1>1, <1>3, <2>1, <2>2, <2>3, OwnerDeinited
<1>6. CASE call.op = "soft_reset"
  <2>1. objs' = [o \in Objects |-> None]
    BY <1>6 DEF ElcdifPort!Return
  <2> QED
    BY <2>1 DEF Owners, Made, Owns
<1> QED
  BY <1>1, <1>4, <1>5, <1>6 DEF ElcdifCalls, Calls, ElcdifOps

LEMMA ElcdifStep == ElcdifKept /\ ElcdifPort!Next => ElcdifKept'
<1> SUFFICES ASSUME ElcdifKept, ElcdifPort!Next PROVE ElcdifKept'
  OBVIOUS
<1>1. ASSUME NEW o \in Objects, ElcdifPort!Make(o) PROVE ElcdifKept'
  BY <1>1, ElcdifBegin DEF ElcdifPort!Make, ElcdifOps, Owns, Made, Making
<1>2. CASE ElcdifPort!Deinit
  BY <1>2, ElcdifBegin DEF ElcdifPort!Deinit, ElcdifOps, Owns, Made, Deiniting
<1>3. CASE ElcdifPort!SoftReset
  BY <1>3, ElcdifBegin DEF ElcdifPort!SoftReset, ElcdifOps, Resetting
\* What is shown now or next has an owner.
<1>4. ASSUME NEW o \in Objects, ElcdifPort!Refresh(o) PROVE ElcdifKept'
  <2>1. Owns(o) /\ call = None /\ UNCHANGED <<host, live, objs, call>>
    BY <1>4 DEF ElcdifPort!Refresh, Owns, Made
  <2>2. objs[o].buf \in live
    BY <2>1 DEF ElcdifKept, Owners, Released
  <2>3. ElcdifPort!ScanRight'
    BY <1>4, <2>1, <2>2 DEF ElcdifPort!Refresh, ElcdifKept, ElcdifPort!ScanRight
  <2> QED
    BY <2>1, <2>3 DEF ElcdifKept, ElcdifTyped, ElcdifCall, ElcdifFresh,
                      Owners, Made, Owns, Released
<1>5. CASE ElcdifPort!Latched
  <2>1. UNCHANGED <<host, live, objs, call>> /\ scan # {} /\ scan' \subseteq scan
    BY <1>5 DEF ElcdifPort!Latched
  <2>2. ElcdifPort!ScanRight'
    BY <2>1 DEF ElcdifKept, ElcdifPort!ScanRight
  <2>3. ElcdifCall'
    BY <2>1 DEF ElcdifKept, ElcdifCall, Made, Owns
  <2> QED
    BY <2>1, <2>2, <2>3
       DEF ElcdifKept, ElcdifTyped, ElcdifFresh, Owners, Made, Owns, Released
<1> QED
  BY <1>1, <1>2, <1>3, <1>4, <1>5, ElcdifTeardown, ElcdifMalloc, ElcdifInitElcdif,
     ElcdifFree, ElcdifSweep, ElcdifReturn DEF ElcdifPort!Next

LEMMA ElcdifRight ==
  ASSUME ElcdifKept PROVE ElcdifPort!ReleasedOnce /\ ElcdifPort!ScanRight
BY DEF ElcdifKept, Owners, ElcdifPort!ReleasedOnce, Made, Owns, Released

-----------------------------------------------------------------------------
(* mipidsi on the i.MX RT1176.                                             *)

\* What is left of a call.
BusMaking == <<"display_stop", "bus_deinit", "bus_init">>
BusRemaking == <<"bus_deinit", "bus_init">>
BusStarting == <<"bus_init">>
PanelMaking == <<"display_stop", "malloc", "display_start", "lcdif_start">>
PanelAllocating == <<"malloc", "display_start", "lcdif_start">>
PanelStarting == <<"display_start", "lcdif_start">>
PanelScanning == <<"lcdif_start">>
BusDeiniting == <<"display_stop", "bus_deinit">>
BusStopping == <<"bus_deinit">>
PanelDeiniting == <<"display_stop", "free">>
DsiResetting == <<"display_stop", "bus_deinit", "sweep">>
DsiClearing == <<"bus_deinit", "sweep">>

LEMMA DsiPaths ==
  /\ Head(BusMaking) = "display_stop" /\ Tail(BusMaking) = BusRemaking
  /\ Head(BusRemaking) = "bus_deinit" /\ Tail(BusRemaking) = BusStarting
  /\ Head(BusStarting) = "bus_init" /\ Tail(BusStarting) = Done
  /\ Head(PanelMaking) = "display_stop" /\ Tail(PanelMaking) = PanelAllocating
  /\ Head(PanelAllocating) = "malloc" /\ Tail(PanelAllocating) = PanelStarting
  /\ Head(PanelStarting) = "display_start" /\ Tail(PanelStarting) = PanelScanning
  /\ Head(PanelScanning) = "lcdif_start" /\ Tail(PanelScanning) = Done
  /\ Head(BusDeiniting) = "display_stop" /\ Tail(BusDeiniting) = BusStopping
  /\ Head(BusStopping) = "bus_deinit" /\ Tail(BusStopping) = Done
  /\ Head(PanelDeiniting) = "display_stop" /\ Tail(PanelDeiniting) = Freeing
  /\ Head(Freeing) = "free" /\ Tail(Freeing) = Done
  /\ Head(DsiResetting) = "display_stop" /\ Tail(DsiResetting) = DsiClearing
  /\ Head(DsiClearing) = "bus_deinit" /\ Tail(DsiClearing) = Sweeping
  /\ Head(Sweeping) = "sweep" /\ Tail(Sweeping) = Done
BY DEF BusMaking, BusRemaking, BusStarting, PanelMaking, PanelAllocating,
       PanelStarting, PanelScanning, BusDeiniting, BusStopping, PanelDeiniting,
       Freeing, DsiResetting, DsiClearing, Sweeping, Done

DsiPath == {BusMaking, BusRemaking, BusStarting, PanelMaking, PanelAllocating,
            PanelStarting, PanelScanning, BusDeiniting, BusStopping,
            PanelDeiniting, Freeing, DsiResetting, DsiClearing, Sweeping, Done}
LEMMA DsiPathType == /\ \A s \in DsiPath : s \in Seq(Stage)
                     /\ Done \notin {BusMaking, BusRemaking, BusStarting, PanelMaking,
                          PanelAllocating, PanelStarting, PanelScanning,
                          BusDeiniting, BusStopping, PanelDeiniting, Freeing,
                          DsiResetting, DsiClearing, Sweeping}
<1>1. /\ BusMaking \in Seq(Stage) /\ BusRemaking \in Seq(Stage)
      /\ BusStarting \in Seq(Stage) /\ PanelMaking \in Seq(Stage)
      /\ PanelAllocating \in Seq(Stage) /\ PanelStarting \in Seq(Stage)
      /\ PanelScanning \in Seq(Stage) /\ BusDeiniting \in Seq(Stage)
      /\ BusStopping \in Seq(Stage) /\ PanelDeiniting \in Seq(Stage)
      /\ Freeing \in Seq(Stage) /\ DsiResetting \in Seq(Stage)
      /\ DsiClearing \in Seq(Stage) /\ Sweeping \in Seq(Stage)
      /\ Done \in Seq(Stage)
  BY DEF BusMaking, BusRemaking, BusStarting, PanelMaking, PanelAllocating,
         PanelStarting, PanelScanning, BusDeiniting, BusStopping, PanelDeiniting,
         Freeing, DsiResetting, DsiClearing, Sweeping, Done, Stage
<1>2. /\ BusMaking # << >> /\ BusRemaking # << >> /\ BusStarting # << >>
      /\ PanelMaking # << >> /\ PanelAllocating # << >> /\ PanelStarting # << >>
      /\ PanelScanning # << >> /\ BusDeiniting # << >> /\ BusStopping # << >>
      /\ PanelDeiniting # << >> /\ Freeing # << >> /\ DsiResetting # << >>
      /\ DsiClearing # << >> /\ Sweeping # << >>
  BY DEF BusMaking, BusRemaking, BusStarting, PanelMaking, PanelAllocating,
         PanelStarting, PanelScanning, BusDeiniting, BusStopping, PanelDeiniting,
         Freeing, DsiResetting, DsiClearing, Sweeping
<1>3. \A s \in DsiPath : s \in Seq(Stage)
  BY <1>1 DEF DsiPath
<1>4. Done = << >>
  BY DEF Done
<1> QED
  BY <1>2, <1>3, <1>4

\* Before the display is stopped, and after.
DsiStopping == {BusMaking, PanelMaking, BusDeiniting, PanelDeiniting, DsiResetting}
DsiStopped == {BusRemaking, BusStarting, PanelAllocating, PanelStarting,
               PanelScanning, BusStopping, Freeing, DsiClearing, Sweeping}
LEMMA DsiDistinct ==
  /\ \A s \in DsiStopping : s \notin DsiStopped /\ s # Done
  /\ \A s \in DsiStopped : s # Done
  /\ Freeing # BusStopping /\ BusMaking # PanelDeiniting
  /\ PanelDeiniting # BusDeiniting
  /\ PanelAllocating \notin {PanelStarting, PanelScanning}
  /\ PanelStarting # PanelScanning
  /\ \A s \in {BusRemaking, BusStarting, BusStopping, Freeing, DsiClearing, Sweeping} :
       s # PanelScanning
<1>1. \A s \in DsiStopping : Head(s) = "display_stop"
  BY DsiPaths DEF DsiStopping
<1>2. \A s \in DsiStopped : Head(s) # "display_stop"
  BY DsiPaths DEF DsiStopped
<1>3. \A s \in DsiStopping \cup DsiStopped : s # Done
  BY DsiPathType DEF DsiStopping, DsiStopped
<1>4. \A s \in DsiStopping : s \notin DsiStopped
  BY <1>1, <1>2
<1>5. /\ Freeing # BusStopping
      /\ PanelAllocating # PanelStarting /\ PanelAllocating # PanelScanning
      /\ PanelStarting # PanelScanning
  BY DsiPaths
<1>6. PanelDeiniting # BusDeiniting /\ BusMaking # PanelDeiniting
  BY DsiPaths, <1>5
<1>7. \A s \in {BusRemaking, BusStarting, BusStopping, Freeing, DsiClearing, Sweeping} :
        s # PanelScanning
  <2>1. Head(PanelScanning) = "lcdif_start"
    BY DsiPaths
  <2>2. /\ Head(BusRemaking) = "bus_deinit" /\ Head(BusStarting) = "bus_init"
        /\ Head(BusStopping) = "bus_deinit" /\ Head(Freeing) = "free"
        /\ Head(DsiClearing) = "bus_deinit" /\ Head(Sweeping) = "sweep"
    BY DsiPaths
  <2> QED
    BY <2>1, <2>2
<1> QED
  BY <1>3, <1>4, <1>5, <1>6, <1>7

\* The calls begin with these.
\* Two sequences in one.
LEMMA Joined ==
  ASSUME NEW S, NEW s \in Seq(S), NEW t \in Seq(S), NEW u \in Seq(S),
         Len(u) = Len(s) + Len(t),
         \A k \in 1 .. Len(s) : u[k] = s[k],
         \A k \in 1 .. Len(t) : u[k + Len(s)] = t[k]
  PROVE  s \o t = u
<1> DEFINE r == s \o t
<1>1. /\ r \in Seq(S) /\ Len(r) = Len(s) + Len(t)
      /\ \A k \in 1 .. Len(s) + Len(t) :
           r[k] = IF k <= Len(s) THEN s[k] ELSE t[k - Len(s)]
  BY ConcatProperties, Zenon
<1>2. Len(s) \in Nat /\ Len(t) \in Nat
  OBVIOUS
<1> HIDE DEF r
<1>3. ASSUME NEW k \in 1 .. Len(r) PROVE r[k] = u[k]
  <2>1. CASE k <= Len(s)
    BY <1>1, <1>2, <2>1
  <2>2. CASE ~(k <= Len(s))
    <3>1. k - Len(s) \in 1 .. Len(t) /\ (k - Len(s)) + Len(s) = k
      BY <1>1, <1>2, <2>2
    <3> QED
      BY <1>1, <2>2, <3>1
  <2> QED
    BY <2>1, <2>2
<1>4. r = u
  BY <1>1, <1>3, SeqEqual
<1> QED
  BY <1>4 DEF r

LEMMA Concatenated ==
  ASSUME NEW a, NEW b, NEW c PROVE <<a, b>> \o <<c>> = <<a, b, c>>
<1> DEFINE S == {a, b, c}
<1>1. <<a, b>> \in Seq(S) /\ <<c>> \in Seq(S) /\ <<a, b, c>> \in Seq(S)
  OBVIOUS
<1>2. /\ Len(<<a, b, c>>) = Len(<<a, b>>) + Len(<<c>>)
      /\ \A k \in 1 .. Len(<<a, b>>) : <<a, b, c>>[k] = <<a, b>>[k]
      /\ \A k \in 1 .. Len(<<c>>) : <<a, b, c>>[k + Len(<<a, b>>)] = <<c>>[k]
  OBVIOUS
<1> QED
  BY <1>1, <1>2, Joined

LEMMA DsiCallsBegin ==
  /\ Dsi!HostTeardown = BusDeiniting
  /\ Dsi!HostTeardown \o <<"bus_init">> = BusMaking
  /\ Dsi!HostTeardown \o <<"sweep">> = DsiResetting
BY Concatenated DEF Dsi!HostTeardown, BusDeiniting, BusMaking, DsiResetting

DsiOps == {"bus_make", "display_make", "deinit", "soft_reset"}
DsiCalls == Calls(DsiOps, DsiPath)
LEMMA DsiNotNull == ASSUME NEW c \in DsiCalls PROVE c # None
BY CallIsNotNull, DsiPathType DEF DsiCalls, Calls, DsiOps, Op

LEMMA DsiGoesOn ==
  ASSUME call \in DsiCalls, Dsi!Continue
  PROVE  call' = [op |-> call.op, self |-> call.self, buf |-> call.buf,
                  steps |-> Tail(call.steps)]
BY DEF DsiCalls, Calls, Dsi!Continue

DsiTyped ==
  /\ host \in [bus : BOOLEAN, display : BOOLEAN] /\ live \subseteq Blocks
  /\ objs \in [DsiBuses \cup Objects -> Field \cup {None}]
  /\ call = None \/ call \in DsiCalls

\* A call that has stopped the display reads no buffer until it starts it,
\* which it does only over a bus.
DsiCall ==
  call # None =>
    /\ call.op = "bus_make" =>
         /\ call.steps \in {BusMaking, BusRemaking, BusStarting, Done}
         /\ call.self \in DsiBuses
    /\ call.op = "display_make" =>
         /\ call.steps \in {PanelMaking, PanelAllocating, PanelStarting,
                            PanelScanning, Done}
         /\ call.self \in Objects /\ ~Owns(call.self)
    /\ call.op = "deinit" =>
         /\ call.steps \in {BusDeiniting, BusStopping, PanelDeiniting, Freeing, Done}
         /\ call.self \in DsiBuses \cup Objects
         /\ call.steps \in {PanelDeiniting, Freeing} =>
              call.self \in Objects /\ Owns(call.self)
         /\ call.steps \in {BusDeiniting, BusStopping} => call.self \in DsiBuses
    /\ call.op = "soft_reset" =>
         call.steps \in {DsiResetting, DsiClearing, Sweeping, Done}
    /\ call.steps \in DsiStopped => scan = {}
    /\ call.steps \in DsiStopped => (host.display <=> call.steps = PanelScanning)

\* The new Display's buffer is nobody else's.
DsiFresh ==
  call # None /\ call.op = "display_make"
    /\ call.steps \in {PanelStarting, PanelScanning, Done} =>
    /\ call.buf \in live
    /\ \A o \in Objects : Made(o) => objs[o].buf # call.buf

\* A display runs over a bus.
DsiOverBus == host.display => host.bus

DsiKept == /\ DsiTyped /\ DsiCall /\ DsiFresh /\ Owners
           /\ DsiOverBus /\ Dsi!ScanRight

LEMMA DsiInit == Dsi!Init => DsiKept
BY DEF Dsi!Init, DsiKept, DsiTyped, DsiCall, DsiFresh, Owners, DsiOverBus,
       Dsi!ScanRight, Made, Owns, Released

\* A call begins.
LEMMA DsiBegin ==
  ASSUME DsiKept, call = None, UNCHANGED <<host, live, objs, scan>>,
         NEW op \in DsiOps, NEW self \in Named, NEW steps,
         Dsi!Begin(op, self, steps),
         op = "bus_make" => self \in DsiBuses /\ steps = BusMaking,
         op = "display_make" => self \in Objects /\ ~Owns(self) /\ steps = PanelMaking,
         op = "deinit" => \/ self \in DsiBuses /\ steps = BusDeiniting
                          \/ self \in Objects /\ Owns(self) /\ steps = PanelDeiniting,
         op = "soft_reset" => steps = DsiResetting
  PROVE  DsiKept'
<1>1. call' = [op |-> op, self |-> self, buf |-> None, steps |-> steps]
  BY DEF Dsi!Begin
<1>2. steps \in {BusMaking, PanelMaking, BusDeiniting, PanelDeiniting, DsiResetting}
  BY DEF DsiOps
<1>3. call' \in DsiCalls
  BY <1>1, <1>2 DEF DsiCalls, Calls, DsiPath
<1>4. /\ steps \notin DsiStopped /\ steps # Done
      /\ steps \notin {PanelStarting, PanelScanning, BusStopping, Freeing}
  BY <1>2, DsiDistinct DEF DsiStopping, DsiStopped
<1>5. \A o \in Objects : (Made(o)' <=> Made(o)) /\ (Owns(o)' <=> Owns(o))
  BY DEF Made, Owns
<1>6. /\ op = "deinit" /\ steps = BusDeiniting => self \in DsiBuses
      /\ op = "deinit" /\ steps = PanelDeiniting => self \in Objects /\ Owns(self)
  BY DsiDistinct
<1>7. DsiCall'
  BY <1>1, <1>2, <1>4, <1>5, <1>6 DEF DsiCall
<1>8. Owners'
  BY <1>1, <1>4, <1>5 DEF DsiKept, Owners, Released
<1> QED
  BY <1>1, <1>3, <1>4, <1>7, <1>8
     DEF DsiKept, DsiTyped, DsiFresh, DsiOverBus, Dsi!ScanRight

\* Where a call is when it is at a step.
LEMMA DsiAt ==
  ASSUME DsiKept, NEW s, Dsi!Step(s)
  PROVE  /\ call # None /\ call \in DsiCalls /\ call.steps # Done
         /\ s = "display_stop" =>
              \/ call.op = "bus_make" /\ call.steps = BusMaking
              \/ call.op = "display_make" /\ call.steps = PanelMaking
              \/ call.op = "deinit" /\ call.steps \in {BusDeiniting, PanelDeiniting}
              \/ call.op = "soft_reset" /\ call.steps = DsiResetting
         /\ s = "bus_deinit" =>
              \/ call.op = "bus_make" /\ call.steps = BusRemaking
              \/ call.op = "deinit" /\ call.steps = BusStopping
              \/ call.op = "soft_reset" /\ call.steps = DsiClearing
         /\ s = "bus_init" => call.op = "bus_make" /\ call.steps = BusStarting
         /\ s = "malloc" => call.op = "display_make" /\ call.steps = PanelAllocating
         /\ s = "display_start" => call.op = "display_make" /\ call.steps = PanelStarting
         /\ s = "lcdif_start" => call.op = "display_make" /\ call.steps = PanelScanning
         /\ s = "free" => call.op = "deinit" /\ call.steps = Freeing
         /\ s = "sweep" => call.op = "soft_reset" /\ call.steps = Sweeping
<1>1. /\ call # None /\ call \in DsiCalls
      /\ call.steps # Done /\ Head(call.steps) = s
  BY DEF Dsi!Step, DsiKept, DsiTyped, Done
<1>2. call.op \in DsiOps
  BY <1>1 DEF DsiCalls, Calls
<1>3. \/ call.op = "bus_make" /\ call.steps \in {BusMaking, BusRemaking, BusStarting}
      \/ /\ call.op = "display_make"
         /\ call.steps \in {PanelMaking, PanelAllocating, PanelStarting, PanelScanning}
      \/ /\ call.op = "deinit"
         /\ call.steps \in {BusDeiniting, BusStopping, PanelDeiniting, Freeing}
      \/ call.op = "soft_reset" /\ call.steps \in {DsiResetting, DsiClearing, Sweeping}
  BY <1>1, <1>2 DEF DsiKept, DsiCall, DsiOps
<1> QED
  BY <1>1, <1>3, DsiPaths

\* A step that leaves the buffers and the objects alone and, if it is not the
\* one that stops the display, comes when it has been stopped.
LEMMA DsiQuietStep ==
  ASSUME DsiKept, call # None, call \in DsiCalls, Dsi!Continue, scan' = {},
         UNCHANGED <<live, objs>>,
         host' \in [bus : BOOLEAN, display : BOOLEAN], ~host'.display,
         \/ call.op = "bus_make" /\ call.steps \in {BusMaking, BusRemaking, BusStarting}
         \/ call.op = "display_make" /\ call.steps = PanelMaking
         \/ call.op = "deinit" /\ call.steps \in {BusDeiniting, BusStopping, PanelDeiniting}
         \/ call.op = "soft_reset" /\ call.steps \in {DsiResetting, DsiClearing}
  PROVE  DsiKept'
<1>1. call' = [op |-> call.op, self |-> call.self, buf |-> call.buf,
               steps |-> Tail(call.steps)]
  BY DsiGoesOn
<1>2. \A o \in Objects : (Made(o)' <=> Made(o)) /\ (Owns(o)' <=> Owns(o))
  BY DEF Made, Owns
<1>3. SUFFICES call' \in DsiCalls /\ DsiCall' /\ DsiFresh'
               /\ \A o \in Objects : ~Released(o) /\ ~Released(o)'
  BY <1>2 DEF DsiKept, DsiTyped, DsiOverBus, Owners, Dsi!ScanRight
<1>4. call.steps # Done
  BY DsiDistinct DEF DsiStopping, DsiStopped
<1>5. CASE call.op = "bus_make"
  <2>1. call.self \in DsiBuses /\ Tail(call.steps) \in {BusRemaking, BusStarting, Done}
    BY <1>5, DsiPaths DEF DsiKept, DsiCall
  <2>2. Tail(call.steps) # PanelScanning
    BY <2>1, DsiDistinct DEF DsiStopped
  <2> QED
    BY <1>1, <1>4, <1>5, <2>1, <2>2
       DEF DsiCalls, Calls, DsiPath, DsiCall, DsiFresh, Released
<1>6. CASE call.op = "display_make"
  <2>1. call.self \in Objects /\ ~Owns(call.self) /\ Tail(call.steps) = PanelAllocating
    BY <1>6, DsiPaths DEF DsiKept, DsiCall
  <2>2. PanelAllocating \notin {PanelStarting, PanelScanning, Done}
    BY DsiDistinct DEF DsiStopped
  <2> QED
    BY <1>1, <1>2, <1>4, <1>6, <2>1, <2>2
       DEF DsiCalls, Calls, DsiPath, DsiCall, DsiFresh, Released
<1>7. CASE call.op = "deinit" /\ call.steps = PanelDeiniting
  <2>1. call.self \in Objects /\ Owns(call.self) /\ Tail(call.steps) = Freeing
    BY <1>7, DsiPaths DEF DsiKept, DsiCall
  <2>2. Freeing \notin {BusStopping, BusDeiniting, PanelScanning, Done}
    BY DsiDistinct DEF DsiStopping, DsiStopped
  <2> QED
    BY <1>1, <1>2, <1>4, <1>7, <2>1, <2>2
       DEF DsiCalls, Calls, DsiPath, DsiCall, DsiFresh, Released
<1>8. CASE call.op = "deinit" /\ call.steps \in {BusDeiniting, BusStopping}
  <2>1. call.self \in DsiBuses /\ Tail(call.steps) \in {BusStopping, Done}
    BY <1>8, DsiPaths DEF DsiKept, DsiCall
  <2>2. /\ BusStopping \notin {PanelDeiniting, Freeing, PanelScanning, Done}
        /\ Done \notin {PanelDeiniting, Freeing, PanelScanning}
    BY DsiDistinct DEF DsiStopping, DsiStopped
  <2>3. call.self \notin Objects
    BY <2>1, NamesAssumption
  <2> QED
    BY <1>1, <1>4, <1>8, <2>1, <2>2, <2>3
       DEF DsiCalls, Calls, DsiPath, DsiCall, DsiFresh, Released
<1>9. CASE call.op = "soft_reset"
  <2>1. Tail(call.steps) \in {DsiClearing, Sweeping}
    BY <1>9, DsiPaths
  <2>2. Tail(call.steps) \notin {PanelScanning, Done}
    BY <2>1, DsiDistinct DEF DsiStopped
  <2> QED
    BY <1>1, <1>4, <1>9, <2>1, <2>2
       DEF DsiCalls, Calls, DsiPath, DsiCall, DsiFresh, Released
<1> QED
  BY <1>5, <1>6, <1>7, <1>8, <1>9

LEMMA DsiStops ==
  ASSUME DsiKept, Dsi!DisplayStop \/ Dsi!BusDeinit \/ Dsi!BusInit
  PROVE  DsiKept'
<1>1. host \in [bus : BOOLEAN, display : BOOLEAN] /\ Dsi!ScanRight
  BY DEF DsiKept, DsiTyped
<1>2. CASE Dsi!DisplayStop
  <2>1. scan' = {}
    BY <1>1, <1>2 DEF Dsi!DisplayStop, Dsi!ScanRight
  <2>2. host' \in [bus : BOOLEAN, display : BOOLEAN] /\ ~host'.display
    BY <1>1, <1>2 DEF Dsi!DisplayStop
  <2>3. Dsi!Step("display_stop") /\ Dsi!Continue /\ UNCHANGED <<live, objs>>
    BY <1>2 DEF Dsi!DisplayStop
  <2>4. call # None /\ call \in DsiCalls
    BY <2>3, DsiAt
  <2>5. \/ call.op = "bus_make" /\ call.steps = BusMaking
        \/ call.op = "display_make" /\ call.steps = PanelMaking
        \/ call.op = "deinit" /\ call.steps \in {BusDeiniting, PanelDeiniting}
        \/ call.op = "soft_reset" /\ call.steps = DsiResetting
    BY <2>3, DsiAt
  <2> QED
    BY <2>1, <2>2, <2>3, <2>4, <2>5, DsiQuietStep
<1>3. CASE Dsi!BusDeinit
  <2>1. Dsi!Step("bus_deinit") /\ Dsi!Continue /\ UNCHANGED <<live, objs, scan>>
    BY <1>3 DEF Dsi!BusDeinit
  <2>2. call # None /\ call \in DsiCalls
    BY <2>1, DsiAt
  <2>3. \/ call.op = "bus_make" /\ call.steps = BusRemaking
        \/ call.op = "deinit" /\ call.steps = BusStopping
        \/ call.op = "soft_reset" /\ call.steps = DsiClearing
    BY <2>1, DsiAt
  <2>4. scan' = {} /\ ~host.display
    BY <2>1, <2>2, <2>3, DsiDistinct DEF DsiKept, DsiCall, DsiStopped
  <2>5. host' \in [bus : BOOLEAN, display : BOOLEAN] /\ ~host'.display
    BY <1>1, <1>3, <2>4 DEF Dsi!BusDeinit
  <2> QED
    BY <2>1, <2>2, <2>3, <2>4, <2>5, DsiQuietStep
<1>4. CASE Dsi!BusInit
  <2>1. Dsi!Step("bus_init") /\ Dsi!Continue /\ UNCHANGED <<live, objs, scan>>
    BY <1>4 DEF Dsi!BusInit
  <2>2. call # None /\ call \in DsiCalls
        /\ call.op = "bus_make" /\ call.steps = BusStarting
    BY <2>1, DsiAt
  <2>3. scan' = {} /\ ~host.display
    BY <2>1, <2>2, DsiDistinct DEF DsiKept, DsiCall, DsiStopped
  <2>4. host' \in [bus : BOOLEAN, display : BOOLEAN] /\ ~host'.display
    BY <1>1, <1>4, <2>3 DEF Dsi!BusInit
  <2> QED
    BY <2>1, <2>2, <2>3, <2>4, DsiQuietStep
<1> QED
  BY <1>2, <1>3, <1>4

LEMMA DsiMalloc ==
  ASSUME DsiKept, Dsi!Malloc PROVE DsiKept'
<1>1. /\ call # None /\ call \in DsiCalls
      /\ call.op = "display_make" /\ call.steps = PanelAllocating
  BY DsiAt DEF Dsi!Malloc
<1>2. UNCHANGED <<host, objs, scan>> /\ scan = {} /\ ~host.display
      /\ call.self \in Objects /\ ~Owns(call.self)
  BY <1>1, DsiDistinct DEF Dsi!Malloc, DsiKept, DsiCall, DsiStopped
<1>3. \A o \in Objects : (Made(o)' <=> Made(o)) /\ (Owns(o)' <=> Owns(o))
  BY <1>2 DEF Made, Owns
<1>4. \A o \in Objects : ~Released(o)
  BY <1>1 DEF Released
<1>5. ASSUME NEW block \in Blocks \ live, live' = live \cup {block},
             call' = [call EXCEPT !.steps = Tail(@), !.buf = block]
      PROVE  DsiKept'
  <2>1. call' = [op |-> call.op, self |-> call.self, buf |-> block,
                 steps |-> PanelStarting]
    BY <1>1, <1>5, DsiPaths DEF DsiCalls, Calls
  <2>2. call' \in DsiCalls
    BY <1>1, <2>1 DEF DsiCalls, Calls, DsiPath
  <2>3. DsiCall'
    BY <1>1, <1>2, <1>3, <2>1, DsiDistinct DEF DsiCall
  <2>4. \A o \in Objects : ~Released(o)'
    BY <1>1, <2>1 DEF Released
  <2>5. Owners'
    BY <1>2, <1>3, <1>4, <1>5, <2>4 DEF DsiKept, Owners
  <2>6. \A o \in Objects : Made(o) => objs[o].buf # block
    BY <1>4, <1>5, NullApart DEF DsiKept, Owners, Owns
  <2>7. DsiFresh'
    BY <1>2, <1>3, <1>5, <2>1, <2>6 DEF DsiFresh
  <2> QED
    BY <1>2, <1>5, <2>2, <2>3, <2>5, <2>7 DEF DsiKept, DsiTyped, DsiOverBus, Dsi!ScanRight
<1>6. CASE call' = None /\ UNCHANGED live
  <2>1. Owners'
    BY <1>2, <1>3, <1>4, <1>6 DEF DsiKept, Owners, Released
  <2> QED
    BY <1>2, <1>6, <2>1 DEF DsiKept, DsiTyped, DsiCall, DsiFresh, DsiOverBus, Dsi!ScanRight
<1> QED
  BY <1>5, <1>6 DEF Dsi!Malloc

LEMMA DsiDisplayStart ==
  ASSUME DsiKept, Dsi!DisplayStart PROVE DsiKept'
<1>1. /\ call # None /\ call \in DsiCalls
      /\ call.op = "display_make" /\ call.steps = PanelStarting
  BY DsiAt DEF Dsi!DisplayStart
<1>2. /\ call.buf \in live /\ scan = {} /\ UNCHANGED <<objs, scan>>
      /\ call.self \in Objects /\ ~Owns(call.self)
      /\ \A o \in Objects : Made(o) => objs[o].buf # call.buf
  BY <1>1 DEF DsiKept, DsiFresh, DsiCall, DsiStopped, Dsi!DisplayStart
<1>3. \A o \in Objects : (Made(o)' <=> Made(o)) /\ (Owns(o)' <=> Owns(o))
  BY <1>2 DEF Made, Owns
<1>4. \A o \in Objects : ~Released(o)
  BY <1>1 DEF Released
<1>5. host \in [bus : BOOLEAN, display : BOOLEAN]
  BY DEF DsiKept, DsiTyped
<1>6. CASE /\ host.bus /\ host' = [host EXCEPT !.display = TRUE]
           /\ Dsi!Continue /\ UNCHANGED live
  <2>1. call' = [op |-> call.op, self |-> call.self, buf |-> call.buf,
                 steps |-> PanelScanning]
    BY <1>1, <1>6, DsiGoesOn, DsiPaths
  <2>2. call' \in DsiCalls
    BY <1>1, <2>1 DEF DsiCalls, Calls, DsiPath
  <2>3. host' \in [bus : BOOLEAN, display : BOOLEAN] /\ host'.display /\ host'.bus
    BY <1>5, <1>6
  <2>4. DsiCall'
    BY <1>1, <1>2, <1>3, <2>1, <2>3 DEF DsiCall
  <2>5. \A o \in Objects : ~Released(o)'
    BY <1>1, <2>1 DEF Released
  <2>6. Owners'
    BY <1>2, <1>3, <1>4, <1>6, <2>5 DEF DsiKept, Owners
  <2>7. DsiFresh'
    BY <1>2, <1>3, <1>6, <2>1 DEF DsiFresh
  <2> QED
    BY <1>2, <1>6, <2>2, <2>3, <2>4, <2>6, <2>7 DEF DsiKept, DsiTyped, DsiOverBus, Dsi!ScanRight
\* The buffer that becomes garbage has no owner and is not read.
<1>7. CASE live' = live \ {call.buf} /\ call' = None /\ UNCHANGED host
  <2>1. \A o \in Objects : Owns(o) => objs[o].buf \in live'
    BY <1>2, <1>4, <1>7 DEF DsiKept, Owners, Owns
  <2>2. Owners'
    BY <1>2, <1>3, <2>1 DEF DsiKept, Owners
  <2> QED
    BY <1>2, <1>7, <2>2 DEF DsiKept, DsiTyped, DsiCall, DsiFresh, DsiOverBus, Dsi!ScanRight
<1> QED
  BY <1>6, <1>7 DEF Dsi!DisplayStart

LEMMA DsiLcdifStart ==
  ASSUME DsiKept, Dsi!LcdifStart PROVE DsiKept'
<1>1. /\ call # None /\ call \in DsiCalls
      /\ call.op = "display_make" /\ call.steps = PanelScanning
  BY DsiAt DEF Dsi!LcdifStart
<1>2. /\ call.buf \in live /\ scan = {} /\ host.display
      /\ UNCHANGED <<host, live, objs>>
      /\ call.self \in Objects /\ ~Owns(call.self)
      /\ \A o \in Objects : Made(o) => objs[o].buf # call.buf
  BY <1>1 DEF DsiKept, DsiFresh, DsiCall, DsiStopped, Dsi!LcdifStart
<1>3. \A o \in Objects : (Made(o)' <=> Made(o)) /\ (Owns(o)' <=> Owns(o))
  BY <1>2 DEF Made, Owns
<1>4. call' = [op |-> call.op, self |-> call.self, buf |-> call.buf,
               steps |-> Done]
  BY <1>1, DsiGoesOn, DsiPaths DEF Dsi!LcdifStart
<1>5. call' \in DsiCalls
  BY <1>1, <1>4 DEF DsiCalls, Calls, DsiPath
<1>6. DsiCall'
  BY <1>1, <1>2, <1>3, <1>4, DsiDistinct DEF DsiCall, DsiStopped
<1>7. \A o \in Objects : ~Released(o) /\ ~Released(o)'
  BY <1>1, <1>4 DEF Released
<1>8. Owners'
  BY <1>2, <1>3, <1>7 DEF DsiKept, Owners
<1>9. DsiFresh'
  BY <1>2, <1>3, <1>4 DEF DsiFresh
<1>10. Dsi!ScanRight'
  BY <1>2 DEF Dsi!LcdifStart, Dsi!ScanRight
<1> QED
  BY <1>2, <1>5, <1>6, <1>8, <1>9, <1>10 DEF DsiKept, DsiTyped, DsiOverBus

LEMMA DsiFree ==
  ASSUME DsiKept, Dsi!Free PROVE DsiKept'
<1>1. /\ call # None /\ call \in DsiCalls
      /\ call.op = "deinit" /\ call.steps = Freeing
  BY DsiAt DEF Dsi!Free
<1>2. /\ live' = live \ {objs[call.self].buf} /\ UNCHANGED <<host, objs, scan>>
      /\ scan = {} /\ call.self \in Objects /\ Owns(call.self)
  BY <1>1 DEF Dsi!Free, DsiKept, DsiCall, DsiStopped
<1>3. call' = [op |-> call.op, self |-> call.self, buf |-> call.buf,
               steps |-> Done]
  BY <1>1, DsiGoesOn, DsiPaths DEF Dsi!Free
<1>4. call' \in DsiCalls
  BY <1>1, <1>3 DEF DsiCalls, Calls, DsiPath
<1>5. \A o \in Objects : (Made(o)' <=> Made(o)) /\ (Owns(o)' <=> Owns(o))
  BY <1>2 DEF Made, Owns
<1>6. DsiCall'
  BY <1>1, <1>2, <1>3, <1>5, DsiDistinct DEF DsiCall, DsiStopping, DsiStopped
<1>7. call' # None
  BY <1>4, DsiNotNull
<1>8. \A o \in Objects : ~Released(o) /\ (Released(o)' <=> o = call.self)
  BY <1>1, <1>3, <1>7, DsiPathType DEF Released
<1>9. \A o \in Objects : Owns(o) /\ o # call.self => objs[o].buf \in live'
  BY <1>2, <1>8 DEF DsiKept, Owners, Owns
<1>10. Owners'
  BY <1>2, <1>5, <1>8, <1>9 DEF DsiKept, Owners
<1> QED
  BY <1>1, <1>2, <1>3, <1>4, <1>6, <1>10
     DEF DsiKept, DsiTyped, DsiFresh, DsiOverBus, Dsi!ScanRight

LEMMA DsiSweep ==
  ASSUME DsiKept, Dsi!Sweep PROVE DsiKept'
<1>1. /\ call # None /\ call \in DsiCalls
      /\ call.op = "soft_reset" /\ call.steps = Sweeping
  BY DsiAt DEF Dsi!Sweep
<1>2. live' = {} /\ UNCHANGED <<host, objs, scan>> /\ scan = {}
  BY <1>1 DEF Dsi!Sweep, DsiKept, DsiCall, DsiStopped
<1>3. call' = [op |-> call.op, self |-> call.self, buf |-> call.buf,
               steps |-> Done]
  BY <1>1, DsiGoesOn, DsiPaths DEF Dsi!Sweep
<1>4. call' \in DsiCalls
  BY <1>1, <1>3 DEF DsiCalls, Calls, DsiPath
<1>5. \A o \in Objects : (Made(o)' <=> Made(o)) /\ (Owns(o)' <=> Owns(o))
  BY <1>2 DEF Made, Owns
<1>6. DsiCall'
  BY <1>1, <1>2, <1>3, <1>5, DsiDistinct DEF DsiCall, DsiStopped
<1>7. call' # None
  BY <1>4, DsiNotNull
<1>8. \A o \in Objects : Released(o)'
  BY <1>1, <1>3, <1>7 DEF Released
<1>9. Owners'
  BY <1>2, <1>5, <1>8 DEF DsiKept, Owners
<1> QED
  BY <1>1, <1>2, <1>3, <1>4, <1>6, <1>9
     DEF DsiKept, DsiTyped, DsiFresh, DsiOverBus, Dsi!ScanRight

LEMMA DsiReturn ==
  ASSUME DsiKept, Dsi!Return PROVE DsiKept'
<1> DEFINE D == DsiBuses \cup Objects
<1>1. /\ call # None /\ call \in DsiCalls /\ call.steps = Done
      /\ call' = None /\ UNCHANGED <<host, live, scan>>
  BY DEF Dsi!Return, DsiKept, DsiTyped, Done
<1>2. SUFFICES objs' \in [D -> Field \cup {None}] /\ Owners'
  BY <1>1 DEF DsiKept, DsiTyped, DsiCall, DsiFresh, DsiOverBus, Dsi!ScanRight
<1>3. /\ objs \in [D -> Field \cup {None}] /\ Owners
      /\ live \subseteq Blocks /\ Objects \subseteq D
  BY DEF DsiKept, DsiTyped
\* A Bus has no buffer, and is no Display.
<1>4. CASE call.op = "bus_make"
  <2>1. call.self \in DsiBuses /\ call.self \notin Objects
        /\ call.buf \in Blocks \cup {None}
    BY <1>1, <1>4, NamesAssumption DEF DsiKept, DsiCall, DsiCalls, Calls
  <2>2. objs' = [objs EXCEPT ![call.self] = [buf |-> call.buf,
                                             deinited |-> FALSE]]
    BY <1>4 DEF Dsi!Return
  <2>3. objs' \in [D -> Field \cup {None}]
    BY <1>3, <2>1, <2>2 DEF Field
  <2>4. \A o \in Objects : objs'[o] = objs[o]
    BY <1>3, <2>1, <2>2
  <2>5. \A o \in Objects : (Made(o)' <=> Made(o)) /\ (Owns(o)' <=> Owns(o))
    BY <2>4 DEF Made, Owns
  <2>6. \A o \in Objects : ~Released(o) /\ ~Released(o)'
    BY <1>1, <1>4 DEF Released
  <2> QED
    BY <1>1, <1>3, <2>3, <2>4, <2>5, <2>6 DEF Owners
<1>5. CASE call.op = "display_make"
  <2>1. /\ call.self \in Objects /\ call.buf \in live
        /\ \A o \in Objects : Made(o) => objs[o].buf # call.buf
    BY <1>1, <1>5 DEF DsiKept, DsiCall, DsiFresh
  <2>2. objs' = [objs EXCEPT ![call.self] = [buf |-> call.buf,
                                             deinited |-> FALSE]]
    BY <1>5 DEF Dsi!Return
  <2>3. \A o \in Objects : ~Released(o)
    BY <1>5 DEF Released
  <2> QED
    BY <1>1, <1>3, <2>1, <2>2, <2>3, OwnerMade
<1>6. CASE call.op = "deinit"
  <2>1. call.self \in D
    BY <1>1, <1>6 DEF DsiKept, DsiCall
  <2>2. objs' = [objs EXCEPT ![call.self] = [buf |-> None, deinited |-> TRUE]]
    BY <1>6 DEF Dsi!Return
  <2>3. \A o \in Objects : o # call.self => ~Released(o)
    BY <1>6 DEF Released
  <2> QED
    BY <1>1, <1>3, <2>1, <2>2, <2>3, OwnerDeinited
<1>7. CASE call.op = "soft_reset"
  <2>1. objs' = [o \in D |-> None]
    BY <1>7 DEF Dsi!Return
  <2> QED
    BY <1>3, <2>1 DEF Owners, Made, Owns
<1> QED
  BY <1>1, <1>4, <1>5, <1>6, <1>7 DEF DsiCalls, Calls, DsiOps

LEMMA DsiStep == DsiKept /\ Dsi!Next => DsiKept'
<1> SUFFICES ASSUME DsiKept, Dsi!Next PROVE DsiKept'
  OBVIOUS
<1>1. ASSUME NEW b \in DsiBuses, Dsi!BusMake(b) PROVE DsiKept'
  <2>1. /\ call = None /\ UNCHANGED <<host, live, objs, scan>>
        /\ Dsi!Begin("bus_make", b, BusMaking)
    BY <1>1, DsiCallsBegin DEF Dsi!BusMake
  <2> QED
    BY <2>1, DsiBegin DEF DsiOps, Named
<1>2. ASSUME NEW d \in Objects, NEW b \in DsiBuses, Dsi!DisplayMake(d, b)
      PROVE  DsiKept'
  <2>1. /\ call = None /\ UNCHANGED <<host, live, objs, scan>> /\ ~Owns(d)
        /\ Dsi!Begin("display_make", d, PanelMaking)
    BY <1>2 DEF Dsi!DisplayMake, PanelMaking, Owns, Made
  <2> QED
    BY <2>1, DsiBegin DEF DsiOps, Named
<1>3. ASSUME NEW o \in DsiBuses \cup Objects, Dsi!Deinit(o) PROVE DsiKept'
  <2>1. call = None /\ UNCHANGED <<host, live, objs, scan>> /\ Owns(o)
    BY <1>3 DEF Dsi!Deinit, Owns, Made
  <2>2. CASE o \in DsiBuses
    <3>1. Dsi!Begin("deinit", o, BusDeiniting)
      BY <1>3, <2>2, DsiCallsBegin DEF Dsi!Deinit
    <3> QED
      BY <2>1, <2>2, <3>1, DsiBegin DEF DsiOps, Named
  <2>3. CASE o \notin DsiBuses
    <3>1. Dsi!Begin("deinit", o, PanelDeiniting)
      BY <1>3, <2>3 DEF Dsi!Deinit, PanelDeiniting
    <3> QED
      BY <2>1, <2>3, <3>1, DsiBegin DEF DsiOps, Named
  <2> QED
    BY <2>2, <2>3
<1>4. CASE Dsi!SoftReset
  <2>1. /\ call = None /\ UNCHANGED <<host, live, objs, scan>>
        /\ Dsi!Begin("soft_reset", None, DsiResetting)
    BY <1>4, DsiCallsBegin DEF Dsi!SoftReset
  <2> QED
    BY <2>1, DsiBegin DEF DsiOps, Named
\* What is shown now or next has an owner.
<1>5. ASSUME NEW o \in Objects, Dsi!Refresh(o) PROVE DsiKept'
  <2>1. Owns(o) /\ call = None /\ UNCHANGED <<host, live, objs, call>>
    BY <1>5 DEF Dsi!Refresh, Owns, Made
  <2>2. objs[o].buf \in live
    BY <2>1 DEF DsiKept, Owners, Released
  <2>3. Dsi!ScanRight'
    BY <1>5, <2>1, <2>2 DEF Dsi!Refresh, DsiKept, DsiOverBus, Dsi!ScanRight
  <2> QED
    BY <2>1, <2>3 DEF DsiKept, DsiTyped, DsiCall, DsiFresh, DsiOverBus, Owners,
                      Made, Owns, Released
<1>6. CASE Dsi!Latched
  <2>1. UNCHANGED <<host, live, objs, call>> /\ scan # {} /\ scan' \subseteq scan
    BY <1>6 DEF Dsi!Latched
  <2>2. Dsi!ScanRight'
    BY <2>1 DEF DsiKept, Dsi!ScanRight
  <2>3. DsiCall'
    BY <2>1 DEF DsiKept, DsiCall, Made, Owns
  <2> QED
    BY <2>1, <2>2, <2>3
       DEF DsiKept, DsiTyped, DsiFresh, DsiOverBus, Owners, Made, Owns, Released
<1> QED
  BY <1>1, <1>2, <1>3, <1>4, <1>5, <1>6, DsiStops, DsiMalloc, DsiDisplayStart,
     DsiLcdifStart, DsiFree, DsiSweep, DsiReturn DEF Dsi!Next

LEMMA DsiRight ==
  ASSUME DsiKept PROVE Dsi!ReleasedOnce /\ Dsi!ScanRight
BY DEF DsiKept, Owners, Dsi!ReleasedOnce, Made, Owns, Released

-----------------------------------------------------------------------------
(* i80bus on ESP32.                                                        *)

\* What is left of a call.
I80Making == <<I80!Delete("io"), I80!Delete("bus"), I80!New("bus"), I80!New("io")>>
I80Remaking == <<I80!Delete("bus"), I80!New("bus"), I80!New("io")>>
I80Building == <<I80!New("bus"), I80!New("io")>>
I80Attaching == <<I80!New("io")>>
I80Stopping == <<I80!Delete("io"), I80!Delete("bus")>>
I80Closing == <<I80!Delete("bus")>>

LEMMA I80Paths ==
  /\ Head(I80Making) = I80!Delete("io") /\ Tail(I80Making) = I80Remaking
  /\ Head(I80Remaking) = I80!Delete("bus") /\ Tail(I80Remaking) = I80Building
  /\ Head(I80Building) = I80!New("bus") /\ Tail(I80Building) = I80Attaching
  /\ Head(I80Attaching) = I80!New("io") /\ Tail(I80Attaching) = Done
  /\ Head(I80Stopping) = I80!Delete("io") /\ Tail(I80Stopping) = I80Closing
  /\ Head(I80Closing) = I80!Delete("bus") /\ Tail(I80Closing) = Done
BY DEF I80Making, I80Remaking, I80Building, I80Attaching, I80Stopping, I80Closing,
       Done

LEMMA I80Heads ==
  ASSUME NEW k
  PROVE  /\ I80!Delete(k).do = "delete" /\ I80!New(k).do = "new"
         /\ I80!Delete(k).what = k /\ I80!New(k).what = k
BY DEF I80!Delete, I80!New

LEMMA I80Distinct ==
  /\ Done \notin {I80Making, I80Remaking, I80Building, I80Attaching, I80Stopping,
                  I80Closing}
  /\ I80Making # I80Remaking /\ I80Making # I80Building /\ I80Making # I80Attaching
  /\ I80Remaking # I80Building /\ I80Remaking # I80Attaching
  /\ I80Building # I80Attaching /\ I80Stopping # I80Closing
<1>1. Done \notin {I80Making, I80Remaking, I80Building, I80Attaching, I80Stopping,
                   I80Closing}
  BY DEF I80Making, I80Remaking, I80Building, I80Attaching, I80Stopping, I80Closing,
         Done
<1>2. /\ I80!Delete("io") # I80!Delete("bus") /\ I80!New("io") # I80!New("bus")
      /\ I80!Delete("io") # I80!New("io") /\ I80!Delete("io") # I80!New("bus")
      /\ I80!Delete("bus") # I80!New("io") /\ I80!Delete("bus") # I80!New("bus")
  BY I80Heads
<1> QED
  BY <1>1, <1>2, I80Paths

LEMMA ConcatenatedTwo ==
  ASSUME NEW a, NEW b, NEW c, NEW d PROVE <<a, b>> \o <<c, d>> = <<a, b, c, d>>
<1> DEFINE S == {a, b, c, d}
<1>1. <<a, b>> \in Seq(S) /\ <<c, d>> \in Seq(S) /\ <<a, b, c, d>> \in Seq(S)
  OBVIOUS
<1>2. /\ Len(<<a, b, c, d>>) = Len(<<a, b>>) + Len(<<c, d>>)
      /\ \A k \in 1 .. Len(<<a, b>>) : <<a, b, c, d>>[k] = <<a, b>>[k]
      /\ \A k \in 1 .. Len(<<c, d>>) :
           <<a, b, c, d>>[k + Len(<<a, b>>)] = <<c, d>>[k]
  OBVIOUS
<1> QED
  BY <1>1, <1>2, Joined

LEMMA I80CallsBegin ==
  /\ I80!HostTeardown = I80Stopping
  /\ I80!HostTeardown \o <<I80!New("bus"), I80!New("io")>> = I80Making
BY ConcatenatedTwo DEF I80!HostTeardown, I80Stopping, I80Making

I80Ops == {"make", "deinit", "soft_reset"}
I80Path == {I80Making, I80Remaking, I80Building, I80Attaching, I80Stopping,
            I80Closing, Done}
I80Mirror == [I80!Kind -> Handles \cup {None}]
I80Calls == [op : I80Ops, self : Named, steps : I80Path, made : I80Mirror]

I80Typed ==
  /\ host \in I80Mirror /\ live \subseteq (I80!Kind \cup {"lost"}) \X Handles
  /\ call = None \/ call \in I80Calls
  /\ objs = [o \in Objects |-> objs[o]]

LEMMA I80PathType == I80Path \subseteq Seq(HandleStage)
<1>1. \A k \in I80!Kind : I80!Delete(k) \in HandleStage /\ I80!New(k) \in HandleStage
  BY DEF I80!Delete, I80!New, HandleStage
<1>2. {"io", "bus"} = I80!Kind
  BY DEF I80!Kind
<1> QED
  BY <1>1, <1>2 DEF I80Path, I80Making, I80Remaking, I80Building, I80Attaching,
     I80Stopping, I80Closing, Done

LEMMA I80NotNull == ASSUME NEW c \in I80Calls PROVE c # None
BY NullAssumption, I80PathType DEF I80Calls, I80Ops, I80Mirror, Op

\* The IO goes before the bus, the constructor starts from an empty mirror, and
\* what it has made so far is none, the bus, or both.
Both(f) == f["io"] # None /\ f["bus"] # None
Neither(f) == f["io"] = None /\ f["bus"] = None
I80Call ==
  call # None =>
    /\ call.op = "make" => /\ call.self \in Objects
                           /\ call.steps \in {I80Making, I80Remaking, I80Building,
                                              I80Attaching, Done}
    /\ call.op # "make" => call.steps \in {I80Stopping, I80Closing, Done}
    /\ call.steps \in {I80Remaking, I80Closing} => host["io"] = None
    /\ call.steps \in {I80Building, I80Attaching, Done} => Neither(host)
    /\ call.op # "make" \/ call.steps \notin {I80Attaching, Done}
         => Neither(call.made)
    /\ call.steps = I80Attaching => call.made["io"] = None /\ call.made["bus"] # None
    /\ call.op = "make" /\ call.steps = Done => Both(call.made)

I80Kept == I80Typed /\ I80Call /\ I80!ReleasedOnce

LEMMA I80Init == I80!Init => I80Kept
BY NullApart DEF I80!Init, I80!NoHost, I80!Kind, I80Kept, I80Typed, I80Mirror,
   I80Call, I80!ReleasedOnce, I80!Holds

\* Steps after which a call is in progress need not show an object.
LEMMA I80Goes ==
  ASSUME I80Kept, call' \in I80Calls, host' \in I80Mirror,
         live' \subseteq (I80!Kind \cup {"lost"}) \X Handles,
         objs' = objs, I80Call', host'["io"] # None => host'["bus"] # None,
         \A k \in I80!Kind, h \in Handles :
           <<k, h>> \in live' <=>
             I80!Holds(k, h)' \/ (k = "bus" /\ <<"lost", h>> \in live'),
         \A h \in Handles : <<"lost", h>> \in live' => ~I80!Holds("bus", h)'
  PROVE  I80Kept'
<1>1. call' # None
  BY I80NotNull
<1> QED
  BY <1>1 DEF I80Kept, I80Typed, I80!ReleasedOnce

LEMMA I80Begin ==
  ASSUME I80Kept, call = None, UNCHANGED <<host, live, objs>>,
         NEW op \in I80Ops, NEW self \in Named, NEW steps,
         I80!Begin(op, self, steps),
         op = "make" => steps = I80Making /\ self \in Objects,
         op # "make" => steps = I80Stopping
  PROVE  I80Kept'
<1>1. call' = [op |-> op, self |-> self, steps |-> steps, made |-> I80!NoHost]
  BY DEF I80!Begin
<1>2. steps \in {I80Making, I80Stopping}
  OBVIOUS
<1>3. call' \in I80Calls
  BY <1>1, <1>2 DEF I80Calls, I80Path, I80Mirror, I80!NoHost
<1>4. /\ I80Making \notin {I80Building, I80Attaching, Done, I80Remaking}
      /\ I80Stopping \notin {I80Closing, Done}
  BY I80Distinct
<1>5. steps \notin {I80Remaking, I80Closing, I80Building, I80Attaching, Done}
  <2>1. Head(steps) = I80!Delete("io")
    BY <1>2, I80Paths
  <2>2. /\ Head(I80Remaking) = I80!Delete("bus") /\ Head(I80Closing) = I80!Delete("bus")
        /\ Head(I80Building) = I80!New("bus") /\ Head(I80Attaching) = I80!New("io")
    BY I80Paths
  <2>3. /\ I80!Delete("io") # I80!Delete("bus") /\ I80!Delete("io") # I80!New("bus")
        /\ I80!Delete("io") # I80!New("io")
    BY I80Heads
  <2>4. steps # Done
    BY <1>2, I80Distinct
  <2> QED
    BY <2>1, <2>2, <2>3, <2>4
<1>6. Neither(call'.made) /\ \A k \in I80!Kind : call'.made[k] = None
  BY <1>1 DEF I80!NoHost, I80!Kind, Neither
<1>7. I80Call'
  BY <1>1, <1>5, <1>6 DEF I80Call
<1>8. \A k \in I80!Kind, h \in Handles : I80!Holds(k, h)' <=> I80!Holds(k, h)
  BY <1>6, NullApart DEF I80!Holds
<1>9. "bus" \in I80!Kind
  BY DEF I80!Kind
<1> QED
  BY <1>3, <1>7, <1>8, <1>9, I80Goes DEF I80Kept, I80Typed, I80!ReleasedOnce

LEMMA I80DeleteStep ==
  ASSUME I80Kept, I80!DeleteStep PROVE I80Kept'
<1> DEFINE k == I80!What
<1>1. /\ call # None /\ call \in I80Calls /\ call.steps # Done
      /\ Head(call.steps).do = "delete" /\ k = Head(call.steps).what
  BY DEF I80!DeleteStep, I80!Step, I80!What, I80Kept, I80Typed, Done
<1>2. \/ call.op = "make" /\ call.steps = I80Making
      \/ call.op = "make" /\ call.steps = I80Remaking
      \/ call.op # "make" /\ call.steps = I80Stopping
      \/ call.op # "make" /\ call.steps = I80Closing
  BY <1>1, I80Paths, I80Heads DEF I80Kept, I80Call
<1>3. /\ call.steps \in {I80Making, I80Stopping} => k = "io"
      /\ call.steps \in {I80Remaking, I80Closing} => k = "bus"
  <2>1. /\ Head(I80Making).what = "io" /\ Head(I80Stopping).what = "io"
        /\ Head(I80Remaking).what = "bus" /\ Head(I80Closing).what = "bus"
    BY I80Paths, I80Heads
  <2> QED
    BY <1>1, <2>1
<1>4. k \in I80!Kind
  BY <1>2, <1>3 DEF I80!Kind
<1>5. /\ live' = live \ {<<k, host[k]>>} /\ host' = [host EXCEPT ![k] = None]
      /\ call' = [call EXCEPT !.steps = Tail(@)] /\ objs' = objs
  BY DEF I80!DeleteStep
<1> HIDE DEF k
<1>6. /\ host' \in I80Mirror /\ host'[k] = None
      /\ \A j \in I80!Kind : j # k => host'[j] = host[j]
  BY <1>4, <1>5 DEF I80Kept, I80Typed, I80Mirror
<1>7. call' = [op |-> call.op, self |-> call.self, steps |-> Tail(call.steps),
               made |-> call.made]
  BY <1>1, <1>5 DEF I80Calls
<1>8. /\ call.op = "make" => Tail(call.steps) \in {I80Remaking, I80Building}
      /\ call.op # "make" => Tail(call.steps) \in {I80Closing, Done}
      /\ Tail(call.steps) \in {I80Remaking, I80Closing} => k = "io"
      /\ Tail(call.steps) \in {I80Building, I80Attaching, Done} => k = "bus"
      /\ Tail(call.steps) # I80Attaching
  <2>1. /\ Head(I80Attaching).do = "new" /\ Head(I80Closing).do = "delete"
        /\ Head(I80Building).do = "new" /\ Head(I80Remaking).do = "delete"
    BY I80Paths, I80Heads
  <2> QED
    BY <1>2, <1>3, <2>1, I80Paths, I80Distinct
<1>9. call' \in I80Calls
  BY <1>1, <1>7, <1>8 DEF I80Calls, I80Path
<1>10. "io" \in I80!Kind /\ "bus" \in I80!Kind
  BY DEF I80!Kind
\* The bus is deleted after the IO, and nothing has been made yet.
<1>11. /\ k = "bus" => host["io"] = None
       /\ Neither(call.made) /\ \A j \in I80!Kind : call.made[j] = None
  <2>1. call.op = "make" => call.steps \notin {I80Attaching, Done}
    BY <1>2, I80Distinct
  <2>2. Neither(call.made)
    BY <1>1, <2>1 DEF I80Kept, I80Call
  <2> QED
    BY <1>1, <1>2, <1>3, <2>2 DEF I80Kept, I80Call, Neither, I80!Kind
<1>12. k = "bus" => Neither(host')
  BY <1>6, <1>10, <1>11 DEF Neither
<1>13. k = "io" => host'["io"] = None
  BY <1>6
<1>14. I80Call'
  <2>1. call.op = "make" => call.self \in Objects
    BY <1>1 DEF I80Kept, I80Call
  <2>2. Tail(call.steps) = Done => call.op # "make"
    BY <1>8, I80Distinct
  <2> QED
    BY <1>7, <1>8, <1>11, <1>12, <1>13, <2>1, <2>2 DEF I80Call
<1>15. \A j \in I80!Kind, h \in Handles :
         I80!Holds(j, h)' <=> I80!Holds(j, h) /\ <<j, h>> # <<k, host[k]>>
  BY <1>6, <1>7, <1>9, <1>11, I80NotNull, NullApart DEF I80!Holds
<1>16. \A h \in Handles : /\ <<"lost", h>> \in live' <=> <<"lost", h>> \in live
                          /\ <<"lost", h>> \in live => <<"bus", h>> # <<k, host[k]>>
  <2>1. "lost" \notin I80!Kind
    BY DEF I80!Kind
  <2> QED
    BY <1>4, <1>5, <2>1 DEF I80Kept, I80!ReleasedOnce, I80!Holds
<1>17. \A j \in I80!Kind, h \in Handles :
         <<j, h>> \in live' <=> <<j, h>> \in live /\ <<j, h>> # <<k, host[k]>>
  BY <1>5
<1>18. \A j \in I80!Kind, h \in Handles :
         <<j, h>> \in live' <=> I80!Holds(j, h)' \/ (j = "bus" /\ <<"lost", h>> \in live')
  BY <1>15, <1>16, <1>17 DEF I80Kept, I80!ReleasedOnce
<1>19. \A h \in Handles : <<"lost", h>> \in live' => ~I80!Holds("bus", h)'
  BY <1>10, <1>15, <1>16 DEF I80Kept, I80!ReleasedOnce
<1>20. host'["io"] # None => host'["bus"] # None
  BY <1>4, <1>6, <1>10, <1>11 DEF I80Kept, I80!ReleasedOnce, I80!Kind
<1>21. live' \subseteq (I80!Kind \cup {"lost"}) \X Handles
  BY <1>5 DEF I80Kept, I80Typed
<1> QED
  BY <1>5, <1>6, <1>9, <1>14, <1>18, <1>19, <1>20, <1>21, I80Goes

LEMMA I80NewStep ==
  ASSUME I80Kept, I80!NewStep PROVE I80Kept'
<1> DEFINE k == I80!What
<1>1. /\ call # None /\ call \in I80Calls /\ call.steps # Done
      /\ Head(call.steps).do = "new" /\ k = Head(call.steps).what
      /\ UNCHANGED <<host, objs>>
  BY DEF I80!NewStep, I80!Step, I80!What, I80Kept, I80Typed, Done
<1>2. /\ call.op = "make"
      /\ \/ call.steps = I80Building /\ k = "bus"
         \/ call.steps = I80Attaching /\ k = "io"
  <2>1. \A s \in {I80Making, I80Remaking, I80Stopping, I80Closing} :
          Head(s).do = "delete"
    BY I80Paths, I80Heads
  <2>2. call.steps \notin {I80Making, I80Remaking, I80Stopping, I80Closing}
    BY <1>1, <2>1
  <2>3. call.op = "make" /\ call.steps \in {I80Building, I80Attaching}
    BY <1>1, <2>2 DEF I80Kept, I80Call
  <2>4. CASE call.steps = I80Building
    BY <1>1, <2>3, <2>4, I80Paths, I80Heads
  <2>5. CASE call.steps = I80Attaching
    BY <1>1, <2>3, <2>5, I80Paths, I80Heads
  <2> QED
    BY <2>3, <2>4, <2>5
<1>3. k \in I80!Kind /\ "io" \in I80!Kind /\ "bus" \in I80!Kind /\ "lost" \notin I80!Kind
  BY <1>2 DEF I80!Kind
\* The mirror is empty, and of what is being made nothing has been made yet.
<1>4. /\ Neither(host) /\ \A j \in I80!Kind : host[j] = None
      /\ call.made[k] = None /\ call.made["io"] = None
      /\ call.self \in Objects
  <2>1. Neither(host)
    BY <1>1, <1>2 DEF I80Kept, I80Call
  <2>2. I80Building \notin {I80Attaching, Done}
    BY I80Distinct
  <2>3. call.steps = I80Building => Neither(call.made)
    BY <1>1, <2>2 DEF I80Kept, I80Call
  <2> QED
    BY <1>1, <1>2, <2>1, <2>3 DEF I80Kept, I80Call, Neither, I80!Kind
\* What is allocated is what has been made or lost.
<1>5. /\ \A j \in I80!Kind, h \in Handles : I80!Holds(j, h) <=> call.made[j] = h
      /\ \A j \in I80!Kind, h \in Handles :
           <<j, h>> \in live <=> call.made[j] = h \/ (j = "bus" /\ <<"lost", h>> \in live)
      /\ \A h \in Handles : <<"lost", h>> \in live => call.made["bus"] # h
  <2>1. \A j \in I80!Kind, h \in Handles : I80!Holds(j, h) <=> call.made[j] = h
    BY <1>1, <1>4, NullApart DEF I80!Holds
  <2> QED
    BY <1>3, <2>1 DEF I80Kept, I80!ReleasedOnce
<1>6. ASSUME NEW h \in Handles, <<k, h>> \notin live, live' = live \cup {<<k, h>>},
             call' = [call EXCEPT !.steps = Tail(@), !.made[k] = h]
      PROVE  I80Kept'
  <2> HIDE DEF k
  <2>1. call' = [op |-> call.op, self |-> call.self, steps |-> Tail(call.steps),
                 made |-> [call.made EXCEPT ![k] = h]]
    BY <1>1, <1>6 DEF I80Calls
  <2> DEFINE made == [call.made EXCEPT ![k] = h]
  <2>2. /\ made \in I80Mirror /\ made[k] = h
        /\ \A j \in I80!Kind : j # k => made[j] = call.made[j]
    BY <1>1, <1>3 DEF I80Calls, I80Mirror
  <2> HIDE DEF made
  <2>3. call' = [op |-> call.op, self |-> call.self, steps |-> Tail(call.steps),
                 made |-> made]
    BY <2>1 DEF made
  <2>4. /\ k = "bus" => Tail(call.steps) = I80Attaching
        /\ k = "io" => call.steps = I80Attaching /\ Tail(call.steps) = Done
    BY <1>2, I80Paths
  <2>5. call' \in I80Calls
    BY <1>1, <1>2, <2>2, <2>3, <2>4 DEF I80Calls, I80Path
  <2>6. I80Attaching \notin {I80Remaking, I80Closing, Done}
        /\ Done \notin {I80Remaking, I80Closing}
    <3>1. Head(I80Attaching).do = "new" /\ Head(I80Closing).do = "delete"
      BY I80Paths, I80Heads
    <3> QED
      BY <3>1, I80Distinct
  <2>7. k = "bus" => made["io"] = None /\ made["bus"] # None
    BY <1>3, <1>4, <2>2, NullApart
  <2>8. k = "io" => Both(made)
    <3>1. call.steps = I80Attaching => call.made["bus"] \in Handles
      BY <1>1, <1>2, <1>3 DEF I80Kept, I80Call, I80Calls, I80Mirror
    <3> QED
      BY <1>3, <2>2, <2>4, <3>1, NullApart DEF Both
  <2>9. I80Call'
    <3>0. /\ call'.steps = Tail(call.steps) /\ call'.made = made
          /\ call'.op = "make" /\ call'.self \in Objects
      BY <1>2, <1>4, <2>3
    <3>1. CASE k = "bus"
      BY <1>1, <1>4, <2>4, <2>6, <2>7, <3>0, <3>1 DEF I80Call, Neither
    <3>2. CASE k = "io"
      BY <1>1, <1>4, <2>4, <2>6, <2>8, <3>0, <3>2 DEF I80Call, Neither
    <3> QED
      BY <1>2, <3>1, <3>2
  <2>10. \A j \in I80!Kind, g \in Handles : I80!Holds(j, g)' <=> made[j] = g
    BY <1>1, <1>4, <2>3, <2>5, I80NotNull, NullApart DEF I80!Holds
  <2>11. \A g \in Handles : <<"lost", g>> \in live' <=> <<"lost", g>> \in live
    BY <1>3, <1>6
  <2>12. \A j \in I80!Kind, g \in Handles :
           <<j, g>> \in live' <=> made[j] = g \/ (j = "bus" /\ <<"lost", g>> \in live')
    <3> SUFFICES ASSUME NEW j \in I80!Kind, NEW g \in Handles
                 PROVE  <<j, g>> \in live' <=>
                          made[j] = g \/ (j = "bus" /\ <<"lost", g>> \in live')
      OBVIOUS
    <3>1. <<j, g>> \in live <=> call.made[j] = g \/ (j = "bus" /\ <<"lost", g>> \in live)
      BY <1>5
    <3>2. CASE j = k
      <4>1. <<j, g>> \in live' <=> <<j, g>> \in live \/ g = h
        BY <1>6, <3>2
      <4>2. made[j] = g <=> g = h
        BY <2>2, <3>2
      <4>3. call.made[j] # g
        BY <1>4, <3>2, NullApart
      <4> QED
        BY <2>11, <3>1, <4>1, <4>2, <4>3
    <3>3. CASE j # k
      <4>1. <<j, g>> \in live' <=> <<j, g>> \in live
        BY <1>6, <3>3
      <4> QED
        BY <2>2, <2>11, <3>1, <3>3, <4>1
    <3> QED
      BY <3>2, <3>3
  <2>13. \A g \in Handles : <<"lost", g>> \in live' => made["bus"] # g
    BY <1>3, <1>5, <1>6, <2>2, <2>11
  <2>14. live' \subseteq (I80!Kind \cup {"lost"}) \X Handles
    BY <1>3, <1>6 DEF I80Kept, I80Typed
  <2>15. host' \in I80Mirror /\ (host'["io"] # None => host'["bus"] # None)
    BY <1>1 DEF I80Kept, I80Typed, I80!ReleasedOnce
  <2> QED
    BY <1>1, <1>3, <2>5, <2>9, <2>10, <2>12, <2>13, <2>14, <2>15, I80Goes
<1>7. CASE call' = None /\ live' = live \cup I80!Lost
  <2>1. \A h \in Handles :
          <<"lost", h>> \in live' <=> <<"lost", h>> \in live \/ call.made["bus"] = h
    BY <1>7, NullApart DEF I80!Lost
  <2>2. \A j \in I80!Kind, h \in Handles : <<j, h>> \in live' <=> <<j, h>> \in live
    BY <1>3, <1>7 DEF I80!Lost
  <2>3. \A j \in I80!Kind, h \in Handles : ~I80!Holds(j, h)'
    BY <1>1, <1>4, <1>7, NullApart DEF I80!Holds
  <2>4. \A j \in I80!Kind, h \in Handles :
          <<j, h>> \in live' <=> j = "bus" /\ <<"lost", h>> \in live'
    BY <1>4, <1>5, <2>1, <2>2, NullApart DEF I80!Kind
  <2>5. live' \subseteq (I80!Kind \cup {"lost"}) \X Handles
    BY <1>1, <1>3, <1>7, NullApart DEF I80!Lost, I80Kept, I80Typed, I80Calls, I80Mirror
  <2>6. I80Typed' /\ I80Call'
    BY <1>1, <1>7, <2>5 DEF I80Kept, I80Typed, I80Call
  <2>7. host'["io"] = None /\ host'["bus"] = None
    BY <1>1, <1>4 DEF Neither
  <2> QED
    BY <1>3, <2>3, <2>4, <2>6, <2>7 DEF I80Kept, I80!ReleasedOnce
<1> QED
  BY <1>6, <1>7 DEF I80!NewStep

LEMMA I80Return ==
  ASSUME I80Kept, I80!Return PROVE I80Kept'
<1>1. /\ call # None /\ call \in I80Calls /\ call.steps = Done
      /\ call' = None /\ UNCHANGED live
      /\ host' = IF call.op = "make" THEN call.made ELSE host
  BY DEF I80!Return, I80Kept, I80Typed, Done
<1>2. host' \in I80Mirror
  BY <1>1 DEF I80Calls, I80Kept, I80Typed
<1>3. /\ Neither(host) /\ \A j \in I80!Kind : host[j] = None
      /\ call.op = "make" => call.self \in Objects /\ Both(call.made)
      /\ call.op # "make" => \A j \in I80!Kind : call.made[j] = None
  BY <1>1 DEF I80Kept, I80Call, Neither, I80!Kind
<1>4. objs' = [o \in Objects |-> objs'[o]]
  BY DEF I80!Return, I80Kept, I80Typed
<1>5. I80Typed' /\ I80Call'
  BY <1>1, <1>2, <1>4 DEF I80Kept, I80Typed, I80Call
\* What the constructor has made the mirror names from now on.
<1>6. \A j \in I80!Kind, h \in Handles : I80!Holds(j, h)' <=> I80!Holds(j, h)
  <2>1. CASE call.op = "make"
    BY <1>1, <1>3, <2>1, NullApart DEF I80!Holds
  <2>2. CASE call.op # "make"
    BY <1>1, <1>3, <2>2, NullApart DEF I80!Holds
  <2> QED
    BY <2>1, <2>2
<1>7. "bus" \in I80!Kind
  BY DEF I80!Kind
<1>8. host'["io"] # None => host'["bus"] # None
  BY <1>1, <1>3 DEF Both, Neither
<1>9. ASSUME host'["bus"] # None
      PROVE  \E o \in Objects :
               objs'[o] = [io |-> host'["io"], bus |-> host'["bus"], deinited |-> FALSE]
  <2>1. call.op = "make"
    BY <1>1, <1>3, <1>9 DEF Neither
  <2>2. objs' = [objs EXCEPT ![call.self] =
                   [io |-> call.made["io"], bus |-> call.made["bus"],
                    deinited |-> FALSE]]
    BY <2>1 DEF I80!Return
  <2>3. call.self \in Objects /\ host' = call.made
    BY <1>1, <1>3, <2>1
  <2>4. objs'[call.self] = [io |-> call.made["io"], bus |-> call.made["bus"],
                            deinited |-> FALSE]
    BY <2>2, <2>3 DEF I80Kept, I80Typed
  <2> QED
    BY <2>3, <2>4
<1> QED
  BY <1>1, <1>5, <1>6, <1>7, <1>8, <1>9 DEF I80Kept, I80!ReleasedOnce

LEMMA I80Step == I80Kept /\ I80!Next => I80Kept'
<1> SUFFICES ASSUME I80Kept, I80!Next PROVE I80Kept'
  OBVIOUS
<1>1. ASSUME NEW o \in Objects, I80!Make(o) PROVE I80Kept'
  <2>1. /\ call = None /\ UNCHANGED <<host, live, objs>>
        /\ I80!Begin("make", o, I80Making)
    BY <1>1, I80CallsBegin DEF I80!Make
  <2> QED
    BY <2>1, I80Begin DEF I80Ops, Named
<1>2. CASE I80!Deinit
  <2>1. PICK o \in Objects : /\ call = None /\ UNCHANGED <<host, live, objs>>
                             /\ I80!Begin("deinit", o, I80Stopping)
    BY <1>2, I80CallsBegin DEF I80!Deinit
  <2> QED
    BY <2>1, I80Begin DEF I80Ops, Named
<1>3. CASE I80!SoftReset
  <2>1. /\ call = None /\ UNCHANGED <<host, live, objs>>
        /\ I80!Begin("soft_reset", None, I80Stopping)
    BY <1>3, I80CallsBegin DEF I80!SoftReset
  <2> QED
    BY <2>1, I80Begin DEF I80Ops, Named
<1> QED
  BY <1>1, <1>2, <1>3, I80DeleteStep, I80NewStep, I80Return DEF I80!Next

-----------------------------------------------------------------------------
(* mipidsi on the ESP32-P4.                                                *)

\* What is left, from each of their steps on, of a Bus, of a teardown of the
\* host, of a Display and of a teardown of the display's parts.
Bus7 == <<Mipidsi!New("dsi")>>
Bus6 == <<Mipidsi!New("ldo"), Mipidsi!New("dsi")>>
Bus5 == <<Mipidsi!Delete("ldo"), Mipidsi!New("ldo"), Mipidsi!New("dsi")>>
Bus4 == <<Mipidsi!Delete("dsi"), Mipidsi!Delete("ldo"), Mipidsi!New("ldo"),
          Mipidsi!New("dsi")>>
Bus3 == <<Mipidsi!Delete("buf"), Mipidsi!Delete("dsi"), Mipidsi!Delete("ldo"),
          Mipidsi!New("ldo"), Mipidsi!New("dsi")>>
Bus2 == <<Mipidsi!Delete("io"), Mipidsi!Delete("buf"), Mipidsi!Delete("dsi"),
          Mipidsi!Delete("ldo"), Mipidsi!New("ldo"), Mipidsi!New("dsi")>>
Bus1 == <<Mipidsi!Delete("panel"), Mipidsi!Delete("io"), Mipidsi!Delete("buf"),
          Mipidsi!Delete("dsi"), Mipidsi!Delete("ldo"), Mipidsi!New("ldo"),
          Mipidsi!New("dsi")>>
Host5 == <<Mipidsi!Delete("ldo")>>
Host4 == <<Mipidsi!Delete("dsi"), Mipidsi!Delete("ldo")>>
Host3 == <<Mipidsi!Delete("buf"), Mipidsi!Delete("dsi"),
           Mipidsi!Delete("ldo")>>
Host2 == <<Mipidsi!Delete("io"), Mipidsi!Delete("buf"), Mipidsi!Delete("dsi"),
           Mipidsi!Delete("ldo")>>
Host1 == <<Mipidsi!Delete("panel"), Mipidsi!Delete("io"),
           Mipidsi!Delete("buf"), Mipidsi!Delete("dsi"),
           Mipidsi!Delete("ldo")>>
Panel9 == <<Mipidsi!Try("draw_bitmap")>>
Panel8 == <<Mipidsi!New("buf"), Mipidsi!Try("draw_bitmap")>>
Panel7 == <<Mipidsi!Try("panel_init"), Mipidsi!New("buf"),
            Mipidsi!Try("draw_bitmap")>>
Panel6 == <<Mipidsi!New("panel"), Mipidsi!Try("panel_init"),
            Mipidsi!New("buf"), Mipidsi!Try("draw_bitmap")>>
Panel5 == <<Mipidsi!Try("init_sequence"), Mipidsi!New("panel"),
            Mipidsi!Try("panel_init"), Mipidsi!New("buf"),
            Mipidsi!Try("draw_bitmap")>>
Panel4 == <<Mipidsi!New("io"), Mipidsi!Try("init_sequence"),
            Mipidsi!New("panel"), Mipidsi!Try("panel_init"),
            Mipidsi!New("buf"), Mipidsi!Try("draw_bitmap")>>
Panel3 == <<Mipidsi!Delete("buf"), Mipidsi!New("io"),
            Mipidsi!Try("init_sequence"), Mipidsi!New("panel"),
            Mipidsi!Try("panel_init"), Mipidsi!New("buf"),
            Mipidsi!Try("draw_bitmap")>>
Panel2 == <<Mipidsi!Delete("io"), Mipidsi!Delete("buf"), Mipidsi!New("io"),
            Mipidsi!Try("init_sequence"), Mipidsi!New("panel"),
            Mipidsi!Try("panel_init"), Mipidsi!New("buf"),
            Mipidsi!Try("draw_bitmap")>>
Panel1 == <<Mipidsi!Delete("panel"), Mipidsi!Delete("io"),
            Mipidsi!Delete("buf"), Mipidsi!New("io"),
            Mipidsi!Try("init_sequence"), Mipidsi!New("panel"),
            Mipidsi!Try("panel_init"), Mipidsi!New("buf"),
            Mipidsi!Try("draw_bitmap")>>
Parts3 == <<Mipidsi!Delete("buf")>>
Parts2 == <<Mipidsi!Delete("io"), Mipidsi!Delete("buf")>>
Parts1 == <<Mipidsi!Delete("panel"), Mipidsi!Delete("io"),
            Mipidsi!Delete("buf")>>

LEMMA MipiHeads ==
  /\ Head(Bus1) = Mipidsi!Delete("panel")
  /\ Head(Bus2) = Mipidsi!Delete("io")
  /\ Head(Bus3) = Mipidsi!Delete("buf")
  /\ Head(Bus4) = Mipidsi!Delete("dsi")
  /\ Head(Bus5) = Mipidsi!Delete("ldo")
  /\ Head(Bus6) = Mipidsi!New("ldo")
  /\ Head(Bus7) = Mipidsi!New("dsi")
  /\ Head(Host1) = Mipidsi!Delete("panel")
  /\ Head(Host2) = Mipidsi!Delete("io")
  /\ Head(Host3) = Mipidsi!Delete("buf")
  /\ Head(Host4) = Mipidsi!Delete("dsi")
  /\ Head(Host5) = Mipidsi!Delete("ldo")
  /\ Head(Panel1) = Mipidsi!Delete("panel")
  /\ Head(Panel2) = Mipidsi!Delete("io")
  /\ Head(Panel3) = Mipidsi!Delete("buf")
  /\ Head(Panel4) = Mipidsi!New("io")
  /\ Head(Panel5) = Mipidsi!Try("init_sequence")
  /\ Head(Panel6) = Mipidsi!New("panel")
  /\ Head(Panel7) = Mipidsi!Try("panel_init")
  /\ Head(Panel8) = Mipidsi!New("buf")
  /\ Head(Panel9) = Mipidsi!Try("draw_bitmap")
  /\ Head(Parts1) = Mipidsi!Delete("panel")
  /\ Head(Parts2) = Mipidsi!Delete("io")
  /\ Head(Parts3) = Mipidsi!Delete("buf")
BY DEF Bus1, Bus2, Bus3, Bus4, Bus5, Bus6, Bus7, Host1, Host2, Host3, Host4,
       Host5, Panel1, Panel2, Panel3, Panel4, Panel5, Panel6, Panel7, Panel8,
       Panel9, Parts1, Parts2, Parts3

LEMMA MipiTails ==
  /\ Tail(Bus1) = Bus2
  /\ Tail(Bus2) = Bus3
  /\ Tail(Bus3) = Bus4
  /\ Tail(Bus4) = Bus5
  /\ Tail(Bus5) = Bus6
  /\ Tail(Bus6) = Bus7
  /\ Tail(Bus7) = Done
  /\ Tail(Host1) = Host2
  /\ Tail(Host2) = Host3
  /\ Tail(Host3) = Host4
  /\ Tail(Host4) = Host5
  /\ Tail(Host5) = Done
  /\ Tail(Panel1) = Panel2
  /\ Tail(Panel2) = Panel3
  /\ Tail(Panel3) = Panel4
  /\ Tail(Panel4) = Panel5
  /\ Tail(Panel5) = Panel6
  /\ Tail(Panel6) = Panel7
  /\ Tail(Panel7) = Panel8
  /\ Tail(Panel8) = Panel9
  /\ Tail(Panel9) = Done
  /\ Tail(Parts1) = Parts2
  /\ Tail(Parts2) = Parts3
  /\ Tail(Parts3) = Done
BY DEF Bus1, Bus2, Bus3, Bus4, Bus5, Bus6, Bus7, Host1, Host2, Host3, Host4,
       Host5, Panel1, Panel2, Panel3, Panel4, Panel5, Panel6, Panel7, Panel8,
       Panel9, Parts1, Parts2, Parts3, Done

MipiPath == {Bus1, Bus2, Bus3, Bus4, Bus5, Bus6, Bus7, Host1, Host2, Host3,
             Host4, Host5, Panel1, Panel2, Panel3, Panel4, Panel5, Panel6,
             Panel7, Panel8, Panel9, Parts1, Parts2, Parts3, Done}
LEMMA MipiPathType == \A s \in MipiPath : s \in Seq(HandleStage)
<1>1. \A k \in Mipidsi!Kind : /\ Mipidsi!Delete(k) \in HandleStage
                              /\ Mipidsi!New(k) \in HandleStage
  BY DEF Mipidsi!Delete, Mipidsi!New, HandleStage
<1>2. \A w \in {"init_sequence", "panel_init", "draw_bitmap"} :
        Mipidsi!Try(w) \in HandleStage
  BY DEF Mipidsi!Try, HandleStage
<1>3. {"panel", "io", "buf", "dsi", "ldo"} = Mipidsi!Kind
  BY DEF Mipidsi!Kind
<1>4. /\ Bus1 \in Seq(HandleStage)
      /\ Bus2 \in Seq(HandleStage)
      /\ Bus3 \in Seq(HandleStage)
      /\ Bus4 \in Seq(HandleStage)
      /\ Bus5 \in Seq(HandleStage)
      /\ Bus6 \in Seq(HandleStage)
      /\ Bus7 \in Seq(HandleStage)
  BY <1>1, <1>2, <1>3 DEF Bus1, Bus2, Bus3, Bus4, Bus5, Bus6, Bus7
<1>5. /\ Host1 \in Seq(HandleStage)
      /\ Host2 \in Seq(HandleStage)
      /\ Host3 \in Seq(HandleStage)
      /\ Host4 \in Seq(HandleStage)
      /\ Host5 \in Seq(HandleStage)
  BY <1>1, <1>2, <1>3 DEF Host1, Host2, Host3, Host4, Host5
<1>6. /\ Panel1 \in Seq(HandleStage)
      /\ Panel2 \in Seq(HandleStage)
      /\ Panel3 \in Seq(HandleStage)
      /\ Panel4 \in Seq(HandleStage)
      /\ Panel5 \in Seq(HandleStage)
      /\ Panel6 \in Seq(HandleStage)
      /\ Panel7 \in Seq(HandleStage)
      /\ Panel8 \in Seq(HandleStage)
      /\ Panel9 \in Seq(HandleStage)
  BY <1>1, <1>2, <1>3 DEF Panel1, Panel2, Panel3, Panel4, Panel5, Panel6,
                         Panel7, Panel8, Panel9
<1>7. /\ Parts1 \in Seq(HandleStage)
      /\ Parts2 \in Seq(HandleStage)
      /\ Parts3 \in Seq(HandleStage)
  BY <1>1, <1>2, <1>3 DEF Parts1, Parts2, Parts3
<1>8. Done \in Seq(HandleStage)
  BY DEF Done
<1> QED
  BY <1>4, <1>5, <1>6, <1>7, <1>8 DEF MipiPath

\* Joined, for the lists of steps.
LEMMA MipiJoined ==
  ASSUME NEW s, NEW t, NEW u,
         s \in Seq(HandleStage), t \in Seq(HandleStage), u \in Seq(HandleStage),
         Len(u) = Len(s) + Len(t),
         \A k \in 1 .. Len(s) : u[k] = s[k],
         \A k \in 1 .. Len(t) : u[k + Len(s)] = t[k]
  PROVE  s \o t = u
BY Joined

LEMMA MipiCallsBegin ==
  /\ Mipidsi!DisplayTeardown = Parts1
  /\ Mipidsi!HostTeardown = Host1
  /\ Mipidsi!HostTeardown \o <<Mipidsi!New("ldo"), Mipidsi!New("dsi")>> = Bus1
  /\ Mipidsi!DisplayTeardown \o
       <<Mipidsi!New("io"), Mipidsi!Try("init_sequence"), Mipidsi!New("panel"),
         Mipidsi!Try("panel_init"), Mipidsi!New("buf"),
         Mipidsi!Try("draw_bitmap")>> = Panel1
<1>1. Mipidsi!DisplayTeardown = Parts1
  BY DEF Mipidsi!DisplayTeardown, Parts1
<1>2. /\ Parts1 \in Seq(HandleStage) /\ Host1 \in Seq(HandleStage)
      /\ Host4 \in Seq(HandleStage) /\ Bus1 \in Seq(HandleStage)
      /\ Bus6 \in Seq(HandleStage) /\ Panel4 \in Seq(HandleStage)
      /\ Panel1 \in Seq(HandleStage)
  BY MipiPathType DEF MipiPath
<1>3. Parts1 \o Host4 = Host1
  <2>1. /\ Len(Host1) = Len(Parts1) + Len(Host4)
        /\ \A k \in 1 .. Len(Parts1) : Host1[k] = Parts1[k]
        /\ \A k \in 1 .. Len(Host4) : Host1[k + Len(Parts1)] = Host4[k]
    BY DEF Parts1, Host4, Host1
  <2>2. /\ Parts1 \in Seq(HandleStage) /\ Host4 \in Seq(HandleStage)
        /\ Host1 \in Seq(HandleStage)
    BY <1>2
  <2> QED
    BY <2>1, <2>2, MipiJoined, Zenon
<1>4. Host1 \o Bus6 = Bus1
  <2>1. /\ Len(Bus1) = Len(Host1) + Len(Bus6)
        /\ \A k \in 1 .. Len(Host1) : Bus1[k] = Host1[k]
        /\ \A k \in 1 .. Len(Bus6) : Bus1[k + Len(Host1)] = Bus6[k]
    BY DEF Host1, Bus6, Bus1
  <2>2. /\ Host1 \in Seq(HandleStage) /\ Bus6 \in Seq(HandleStage)
        /\ Bus1 \in Seq(HandleStage)
    BY <1>2
  <2> QED
    BY <2>1, <2>2, MipiJoined, Zenon
<1>5. Parts1 \o Panel4 = Panel1
  <2>1. /\ Len(Panel1) = Len(Parts1) + Len(Panel4)
        /\ \A k \in 1 .. Len(Parts1) : Panel1[k] = Parts1[k]
        /\ \A k \in 1 .. Len(Panel4) : Panel1[k + Len(Parts1)] = Panel4[k]
    BY DEF Parts1, Panel4, Panel1
  <2>2. /\ Parts1 \in Seq(HandleStage) /\ Panel4 \in Seq(HandleStage)
        /\ Panel1 \in Seq(HandleStage)
    BY <1>2
  <2> QED
    BY <2>1, <2>2, MipiJoined, Zenon
<1>6. Mipidsi!HostTeardown = Host1
  BY <1>1, <1>3 DEF Mipidsi!HostTeardown, Host4
<1> QED
  BY <1>1, <1>4, <1>5, <1>6 DEF Bus6, Panel4

\* No handles of these kinds in the mirror; no frame buffer without a panel.
Empty(h, kinds) == \A k \in kinds : h[k] = None
Backed(h) == h["buf"] # None => h["panel"] # None

\* What the mirror names where a call has these steps left.
MipiPlace(s, h) ==
  \/ s \in {Bus1, Host1, Parts1, Done} /\ Backed(h)
  \/ s = Panel1 /\ Backed(h) /\ h["dsi"] # None
  \/ s \in {Bus2, Host2, Parts2} /\ Empty(h, {"panel"})
  \/ s = Panel2 /\ Empty(h, {"panel"}) /\ h["dsi"] # None
  \/ s \in {Bus3, Host3, Parts3} /\ Empty(h, {"panel", "io"})
  \/ s = Panel3 /\ Empty(h, {"panel", "io"}) /\ h["dsi"] # None
  \/ s \in {Bus4, Host4} /\ Empty(h, {"panel", "io", "buf"})
  \/ s = Panel4 /\ Empty(h, {"panel", "io", "buf"}) /\ h["dsi"] # None
  \/ s \in {Bus5, Host5} /\ Empty(h, {"panel", "io", "buf", "dsi"})
  \/ s = Bus6 /\ Empty(h, {"panel", "io", "buf", "dsi", "ldo"})
  \/ s = Bus7 /\ Empty(h, {"panel", "io", "buf", "dsi"}) /\ h["ldo"] # None
  \/ s \in {Panel5, Panel6} /\ Empty(h, {"panel", "buf"}) /\ h["dsi"] # None
  \/ s \in {Panel7, Panel8} /\ Empty(h, {"buf"}) /\ h["panel"] # None
  \/ s = Panel9 /\ h["buf"] # None /\ h["panel"] # None

MipiMirror == [Mipidsi!Kind -> Handles \cup {None}]

\* What a step deletes has nothing made on it left.
LEMMA MipiDeleted ==
  ASSUME NEW s, NEW h \in MipiMirror, NEW g, MipiPlace(s, h),
         s # Done, Head(s).do = "delete",
         g = [h EXCEPT ![Head(s).what] = None]
  PROVE  /\ MipiPlace(Tail(s), g) /\ Head(s).what \in Mipidsi!Kind
         /\ Head(s).what = "buf" => Empty(h, {"panel"})
         /\ Head(s).what = "dsi" => Empty(h, {"panel", "io"})
         /\ Head(s).what = "ldo" => Empty(h, {"panel", "io", "dsi"})
<1> DEFINE k == Head(s).what
<1>1. \/ s \in {Bus1, Host1, Parts1}
      \/ s = Panel1 /\ h["dsi"] # None
      \/ s \in {Bus2, Host2, Parts2} /\ Empty(h, {"panel"})
      \/ s = Panel2 /\ Empty(h, {"panel"}) /\ h["dsi"] # None
      \/ s \in {Bus3, Host3, Parts3} /\ Empty(h, {"panel", "io"})
      \/ s = Panel3 /\ Empty(h, {"panel", "io"}) /\ h["dsi"] # None
      \/ s \in {Bus4, Host4} /\ Empty(h, {"panel", "io", "buf"})
      \/ s \in {Bus5, Host5} /\ Empty(h, {"panel", "io", "buf", "dsi"})
  BY MipiHeads DEF MipiPlace, Mipidsi!New, Mipidsi!Try
<1>2. s \in {Bus1, Host1, Parts1, Panel1} => k = "panel"
  BY MipiHeads DEF Mipidsi!Delete
<1>3. s \in {Bus2, Host2, Parts2, Panel2} => k = "io"
  BY MipiHeads DEF Mipidsi!Delete
<1>4. s \in {Bus3, Host3, Parts3, Panel3} => k = "buf"
  BY MipiHeads DEF Mipidsi!Delete
<1>5. /\ s \in {Bus4, Host4} => k = "dsi"
      /\ s \in {Bus5, Host5} => k = "ldo"
  BY MipiHeads DEF Mipidsi!Delete
<1>6. k \in {"panel", "io", "buf", "dsi", "ldo"}
  BY <1>1, <1>2, <1>3, <1>4, <1>5
<1> HIDE DEF k
<1>7. g[k] = None /\ \A j \in Mipidsi!Kind : j # k => g[j] = h[j]
  BY <1>6 DEF k, MipiMirror, Mipidsi!Kind
<1>8. \A j \in {"panel", "io", "buf", "dsi", "ldo"} : j # k => g[j] = h[j]
  BY <1>7 DEF Mipidsi!Kind
<1>9. MipiPlace(Tail(s), g)
  <2>1. CASE s \in {Bus1, Host1, Parts1}
    BY <1>2, <1>7, <2>1, MipiTails DEF MipiPlace, Empty
  <2>2. CASE s = Panel1 /\ h["dsi"] # None
    BY <1>2, <1>7, <1>8, <2>2, MipiTails DEF MipiPlace, Empty
  <2>3. CASE s \in {Bus2, Host2, Parts2} /\ Empty(h, {"panel"})
    BY <1>3, <1>7, <1>8, <2>3, MipiTails DEF MipiPlace, Empty
  <2>4. CASE s = Panel2 /\ Empty(h, {"panel"}) /\ h["dsi"] # None
    BY <1>3, <1>7, <1>8, <2>4, MipiTails DEF MipiPlace, Empty
  <2>5. CASE s \in {Bus3, Host3, Parts3} /\ Empty(h, {"panel", "io"})
    BY <1>4, <1>7, <1>8, <2>5, MipiTails DEF MipiPlace, Empty, Backed
  <2>6. CASE s = Panel3 /\ Empty(h, {"panel", "io"}) /\ h["dsi"] # None
    BY <1>4, <1>7, <1>8, <2>6, MipiTails DEF MipiPlace, Empty
  <2>7. CASE s \in {Bus4, Host4} /\ Empty(h, {"panel", "io", "buf"})
    <3>1. Empty(g, {"panel", "io", "buf", "dsi"})
      BY <1>5, <1>7, <1>8, <2>7 DEF Empty
    <3> QED
      BY <2>7, <3>1, MipiTails DEF MipiPlace
  <2>8. CASE s \in {Bus5, Host5} /\ Empty(h, {"panel", "io", "buf", "dsi"})
    <3>1. Empty(g, {"panel", "io", "buf", "dsi", "ldo"})
      BY <1>5, <1>7, <1>8, <2>8 DEF Empty
    <3>2. Backed(g)
      BY <3>1 DEF Empty, Backed
    <3> QED
      BY <2>8, <3>1, <3>2, MipiTails DEF MipiPlace
  <2> QED
    BY <1>1, <2>1, <2>2, <2>3, <2>4, <2>5, <2>6, <2>7, <2>8
<1>10. /\ k = "buf" => Empty(h, {"panel"})
       /\ k = "dsi" => Empty(h, {"panel", "io"})
       /\ k = "ldo" => Empty(h, {"panel", "io", "dsi"})
  BY <1>1, <1>2, <1>3, <1>4, <1>5 DEF Empty
<1> QED
  BY <1>6, <1>9, <1>10 DEF k, Mipidsi!Kind

\* What a step makes has below it what it is made on; if it cannot be made,
\* there is no frame buffer.
LEMMA MipiNewed ==
  ASSUME NEW s, NEW h \in MipiMirror, MipiPlace(s, h),
         s # Done, Head(s).do = "new"
  PROVE  /\ Head(s).what \in Mipidsi!Kind /\ h[Head(s).what] = None
         /\ Empty(h, {"buf"})
         /\ Head(s).what = "dsi" => h["ldo"] # None
         /\ Head(s).what \in {"io", "panel"} => h["dsi"] # None
         /\ \A a \in Handles : MipiPlace(Tail(s), [h EXCEPT ![Head(s).what] = a])
<1> DEFINE k == Head(s).what
<1>1. \/ s = Panel4 /\ Empty(h, {"panel", "io", "buf"}) /\ h["dsi"] # None
      \/ s = Bus6 /\ Empty(h, {"panel", "io", "buf", "dsi", "ldo"})
      \/ s = Bus7 /\ Empty(h, {"panel", "io", "buf", "dsi"}) /\ h["ldo"] # None
      \/ s = Panel6 /\ Empty(h, {"panel", "buf"}) /\ h["dsi"] # None
      \/ s = Panel8 /\ Empty(h, {"buf"}) /\ h["panel"] # None
  BY MipiHeads DEF MipiPlace, Mipidsi!Delete, Mipidsi!Try
<1>2. /\ s = Panel4 => k = "io"
      /\ s = Bus6 => k = "ldo"
      /\ s = Bus7 => k = "dsi"
      /\ s = Panel6 => k = "panel"
      /\ s = Panel8 => k = "buf"
  BY MipiHeads DEF Mipidsi!New
<1>3. k \in {"panel", "io", "buf", "dsi", "ldo"}
  BY <1>1, <1>2
<1> HIDE DEF k
<1>4. ASSUME NEW a \in Handles PROVE MipiPlace(Tail(s), [h EXCEPT ![k] = a])
  <2> DEFINE g == [h EXCEPT ![k] = a]
  <2> SUFFICES MipiPlace(Tail(s), g)
    OBVIOUS
  <2>1. g[k] # None
    BY <1>3, NullApart DEF MipiMirror, Mipidsi!Kind
  <2>2. \A j \in {"panel", "io", "buf", "dsi", "ldo"} : j # k => g[j] = h[j]
    BY DEF MipiMirror, Mipidsi!Kind
  <2> HIDE DEF g
  <2>3. CASE s = Panel4 /\ Empty(h, {"panel", "io", "buf"}) /\ h["dsi"] # None
    <3>1. Empty(g, {"panel", "buf"}) /\ g["dsi"] # None
      BY <1>2, <2>2, <2>3 DEF Empty
    <3> QED
      BY <2>3, <3>1, MipiTails DEF MipiPlace
  <2>4. CASE s = Bus6 /\ Empty(h, {"panel", "io", "buf", "dsi", "ldo"})
    <3>1. Empty(g, {"panel", "io", "buf", "dsi"}) /\ g["ldo"] # None
      BY <1>2, <2>1, <2>2, <2>4 DEF Empty
    <3> QED
      BY <2>4, <3>1, MipiTails DEF MipiPlace
  <2>5. CASE s = Bus7 /\ Empty(h, {"panel", "io", "buf", "dsi"})
    <3>1. Backed(g)
      BY <1>2, <2>2, <2>5 DEF Empty, Backed
    <3> QED
      BY <2>5, <3>1, MipiTails DEF MipiPlace
  <2>6. CASE s = Panel6 /\ Empty(h, {"panel", "buf"}) /\ h["dsi"] # None
    <3>1. Empty(g, {"buf"}) /\ g["panel"] # None
      BY <1>2, <2>1, <2>2, <2>6 DEF Empty
    <3> QED
      BY <2>6, <3>1, MipiTails DEF MipiPlace
  <2>7. CASE s = Panel8 /\ Empty(h, {"buf"}) /\ h["panel"] # None
    <3>1. g["buf"] # None /\ g["panel"] # None
      BY <1>2, <2>1, <2>2, <2>7
    <3> QED
      BY <2>7, <3>1, MipiTails DEF MipiPlace
  <2> QED
    BY <1>1, <2>3, <2>4, <2>5, <2>6, <2>7
<1>5. /\ h[k] = None /\ Empty(h, {"buf"})
      /\ k = "dsi" => h["ldo"] # None
      /\ k \in {"io", "panel"} => h["dsi"] # None
  BY <1>1, <1>2 DEF Empty
<1> QED
  BY <1>3, <1>4, <1>5 DEF k, Mipidsi!Kind

\* A call that may raise leaves the mirror as it is.
LEMMA MipiTried ==
  ASSUME NEW s, NEW h \in MipiMirror, MipiPlace(s, h),
         s # Done, Head(s).do = "try"
  PROVE  /\ MipiPlace(Tail(s), h) /\ Backed(h)
         /\ Head(s).what = "draw_bitmap" => h["panel"] # None
<1>1. \/ s = Panel5 /\ Empty(h, {"panel", "buf"}) /\ h["dsi"] # None
      \/ s = Panel7 /\ Empty(h, {"buf"}) /\ h["panel"] # None
      \/ s = Panel9 /\ h["buf"] # None /\ h["panel"] # None
  BY MipiHeads DEF MipiPlace, Mipidsi!Delete, Mipidsi!New
<1>2. /\ s = Panel5 => Head(s).what # "draw_bitmap"
      /\ s = Panel7 => Head(s).what # "draw_bitmap"
  BY MipiHeads DEF Mipidsi!Try
<1>3. MipiPlace(Tail(s), h)
  BY <1>1, MipiTails DEF MipiPlace, Backed
<1> QED
  BY <1>1, <1>2, <1>3 DEF Backed, Empty

MipiCalls == [op : Op, self : Named, steps : MipiPath]
LEMMA MipiNotNull == ASSUME NEW c \in MipiCalls PROVE c # None
BY NullAssumption, MipiPathType DEF MipiCalls

LEMMA MipiGoesOn ==
  ASSUME call \in MipiCalls, Mipidsi!Continue
  PROVE  call' = [op |-> call.op, self |-> call.self, steps |-> Tail(call.steps)]
BY DEF MipiCalls, Mipidsi!Continue

\* From every step the rest is a path too.
LEMMA MipiOn == \A s \in MipiPath \ {Done} : Tail(s) \in MipiPath
<1>1. \A s \in {Bus1, Bus2, Bus3, Bus4, Bus5, Bus6, Bus7} :
        Tail(s) \in {Bus2, Bus3, Bus4, Bus5, Bus6, Bus7, Done}
  <2>1. /\ Tail(Bus1) = Bus2 /\ Tail(Bus2) = Bus3 /\ Tail(Bus3) = Bus4
        /\ Tail(Bus4) = Bus5 /\ Tail(Bus5) = Bus6 /\ Tail(Bus6) = Bus7
        /\ Tail(Bus7) = Done
    BY MipiTails
  <2> QED
    BY <2>1
<1>2. \A s \in {Host1, Host2, Host3, Host4, Host5} :
        Tail(s) \in {Host2, Host3, Host4, Host5, Done}
  BY MipiTails
<1>3. \A s \in {Panel1, Panel2, Panel3, Panel4, Panel5, Panel6, Panel7, Panel8,
                Panel9} :
        Tail(s) \in {Panel2, Panel3, Panel4, Panel5, Panel6, Panel7, Panel8,
                    Panel9, Done}
  <2>1. /\ Tail(Panel1) = Panel2 /\ Tail(Panel2) = Panel3 /\ Tail(Panel3) = Panel4
        /\ Tail(Panel4) = Panel5 /\ Tail(Panel5) = Panel6 /\ Tail(Panel6) = Panel7
        /\ Tail(Panel7) = Panel8 /\ Tail(Panel8) = Panel9 /\ Tail(Panel9) = Done
    BY MipiTails
  <2> QED
    BY <2>1
<1>4. \A s \in {Parts1, Parts2, Parts3} : Tail(s) \in {Parts2, Parts3, Done}
  BY MipiTails
<1>5. /\ {Bus2, Bus3, Bus4, Bus5, Bus6, Bus7, Done} \subseteq MipiPath
      /\ {Host2, Host3, Host4, Host5, Done} \subseteq MipiPath
      /\ {Panel2, Panel3, Panel4, Panel5, Panel6, Panel7, Panel8, Panel9, Done}
           \subseteq MipiPath
      /\ {Parts2, Parts3, Done} \subseteq MipiPath
  BY DEF MipiPath
<1>6. ASSUME NEW s \in MipiPath \ {Done}
      PROVE  \/ s \in {Bus1, Bus2, Bus3, Bus4, Bus5, Bus6, Bus7}
             \/ s \in {Host1, Host2, Host3, Host4, Host5}
             \/ s \in {Panel1, Panel2, Panel3, Panel4, Panel5, Panel6, Panel7,
                       Panel8, Panel9}
             \/ s \in {Parts1, Parts2, Parts3}
  BY DEF MipiPath
<1> SUFFICES ASSUME NEW s \in MipiPath \ {Done} PROVE Tail(s) \in MipiPath
  OBVIOUS
<1>7. \/ Tail(s) \in {Bus2, Bus3, Bus4, Bus5, Bus6, Bus7, Done}
      \/ Tail(s) \in {Host2, Host3, Host4, Host5, Done}
      \/ Tail(s) \in {Panel2, Panel3, Panel4, Panel5, Panel6, Panel7, Panel8,
                      Panel9, Done}
      \/ Tail(s) \in {Parts2, Parts3, Done}
  BY <1>1, <1>2, <1>3, <1>4, <1>6, Zenon
<1> QED
  BY <1>5, <1>7, Zenon

\* The steps a call may have left.
OfCall(op, self, s) ==
  \/ /\ op = "bus_make" /\ self \in Buses
     /\ s \in {Bus1, Bus2, Bus3, Bus4, Bus5, Bus6, Bus7, Done}
  \/ /\ op = "display_make" /\ self \in Objects
     /\ s \in {Panel1, Panel2, Panel3, Panel4, Panel5, Panel6, Panel7, Panel8,
               Panel9, Done}
  \/ /\ (op = "deinit" /\ self \in Buses) \/ op = "soft_reset"
     /\ s \in {Host1, Host2, Host3, Host4, Host5, Done}
  \/ /\ (op = "deinit" /\ self \in Objects) \/ op = "raise"
     /\ s \in {Parts1, Parts2, Parts3, Done}

\* What the mirror does not name any more when a call returns.
Ended(op, self, h) ==
  /\ op \in {"bus_make", "deinit", "soft_reset"} => h["panel"] = None
  /\ op = "soft_reset" \/ (op = "deinit" /\ self \in Buses) => h["dsi"] = None

LEMMA MipiNotDone ==
  Done \notin {Bus1, Bus2, Bus3, Bus4, Bus5, Bus6, Bus7, Host1, Host2,
               Host3, Host4, Host5, Panel1, Panel2, Panel3, Panel4, Panel5,
               Panel6, Panel7, Panel8, Panel9, Parts1, Parts2, Parts3}
BY DEF Done, Bus1, Bus2, Bus3, Bus4, Bus5, Bus6, Bus7, Host1, Host2, Host3,
       Host4, Host5, Panel1, Panel2, Panel3, Panel4, Panel5, Panel6, Panel7,
       Panel8, Panel9, Parts1, Parts2, Parts3

LEMMA MipiOnward ==
  ASSUME NEW op, NEW self, NEW s, OfCall(op, self, s), s # Done
  PROVE  /\ OfCall(op, self, Tail(s))
         /\ Tail(s) = Done /\ op = "bus_make" => s = Bus7
         /\ Tail(s) = Done /\ op = "display_make" => s = Panel9
         /\ Tail(s) = Done /\ (op = "soft_reset" \/ (op = "deinit" /\ self \in Buses))
              => s = Host5
         /\ Tail(s) = Done /\ op = "deinit" => s \in {Host5, Parts3}
<1>1. self \in Buses => self \notin Objects
  BY NamesAssumption
<1>2. CASE op = "bus_make" /\ self \in Buses
           /\ s \in {Bus1, Bus2, Bus3, Bus4, Bus5, Bus6, Bus7}
  BY <1>2, MipiTails, MipiNotDone, ZenonT(60) DEF OfCall
<1>3. CASE op = "display_make" /\ self \in Objects
           /\ s \in {Panel1, Panel2, Panel3, Panel4, Panel5, Panel6, Panel7,
                     Panel8, Panel9}
  BY <1>3, MipiTails, MipiNotDone, ZenonT(60) DEF OfCall
<1>4. CASE /\ (op = "deinit" /\ self \in Buses) \/ op = "soft_reset"
           /\ s \in {Host1, Host2, Host3, Host4, Host5}
  BY <1>4, MipiTails, MipiNotDone, ZenonT(60) DEF OfCall
<1>5. CASE /\ (op = "deinit" /\ self \in Objects) \/ op = "raise"
           /\ s \in {Parts1, Parts2, Parts3}
  BY <1>1, <1>5, MipiTails, MipiNotDone, ZenonT(60) DEF OfCall
<1> QED
  BY <1>2, <1>3, <1>4, <1>5 DEF OfCall

\* Only a Bus's constructor acquires a bus, and does so last.
LEMMA MipiNewDsi ==
  ASSUME NEW op, NEW self, NEW s, OfCall(op, self, s), s # Done,
         Head(s).do = "new", Head(s).what = "dsi"
  PROVE  op = "bus_make" /\ Tail(s) = Done
<1>1. CASE s \in {Bus1, Bus2, Bus3, Bus4, Bus5, Bus6}
  BY <1>1, MipiHeads DEF Mipidsi!New, Mipidsi!Delete
<1>2. CASE s \in {Host1, Host2, Host3, Host4, Host5, Parts1, Parts2, Parts3}
  BY <1>2, MipiHeads DEF Mipidsi!Delete
<1>3. CASE s \in {Panel1, Panel2, Panel3, Panel4, Panel5, Panel6, Panel7, Panel8,
                  Panel9}
  BY <1>3, MipiHeads DEF Mipidsi!New, Mipidsi!Delete, Mipidsi!Try
<1>4. s = Bus7 => Tail(s) = Done
  BY MipiTails
<1> QED
  BY <1>1, <1>2, <1>3, <1>4 DEF OfCall

\* Only a Display's constructor tries, and the panel's first frame is its last.
LEMMA MipiTry ==
  ASSUME NEW op, NEW self, NEW s, OfCall(op, self, s), s # Done, Head(s).do = "try"
  PROVE  /\ op = "display_make"
         /\ Head(s).what = "draw_bitmap" => Tail(s) = Done
<1>1. s \notin {Bus1, Bus2, Bus3, Bus4, Bus5, Bus6, Bus7}
  BY MipiHeads DEF Mipidsi!New, Mipidsi!Delete
<1>2. s \notin {Host1, Host2, Host3, Host4, Host5, Parts1, Parts2, Parts3}
  BY MipiHeads DEF Mipidsi!Delete
<1>3. s \in {Panel1, Panel2, Panel3, Panel4, Panel5, Panel6, Panel7, Panel8}
        => Head(s).what # "draw_bitmap"
  BY MipiHeads DEF Mipidsi!New, Mipidsi!Delete, Mipidsi!Try
<1>4. s = Panel9 => Tail(s) = Done
  BY MipiTails
<1> QED
  BY <1>1, <1>2, <1>3, <1>4 DEF OfCall

\* The last delete or acquisition of a call leaves what the call promises.
LEMMA MipiEnds ==
  ASSUME NEW op, NEW self, NEW s, OfCall(op, self, s), s # Done, Tail(s) = Done,
         NEW h \in MipiMirror, MipiPlace(s, h), Head(s).do \in {"delete", "new"},
         NEW g, \A j \in {"panel", "dsi"} : j # Head(s).what => g[j] = h[j]
  PROVE  Ended(op, self, g)
<1>1. /\ op = "bus_make" => s = Bus7
      /\ op = "soft_reset" \/ (op = "deinit" /\ self \in Buses) => s = Host5
      /\ op = "deinit" => s \in {Host5, Parts3}
  BY MipiOnward
<1>2. /\ s = Bus7 => Head(s).what = "dsi" /\ Empty(h, {"panel"})
      /\ s = Host5 => Head(s).what = "ldo" /\ Empty(h, {"panel", "dsi"})
      /\ s = Parts3 => Head(s).what = "buf" /\ Empty(h, {"panel"})
  <2>1. CASE s = Bus7
    BY <2>1, MipiHeads DEF MipiPlace, Empty, Mipidsi!New, Mipidsi!Delete, Mipidsi!Try
  <2>2. CASE s = Host5
    BY <2>2, MipiHeads DEF MipiPlace, Empty, Mipidsi!New, Mipidsi!Delete, Mipidsi!Try
  <2>3. CASE s = Parts3
    BY <2>3, MipiHeads DEF MipiPlace, Empty, Mipidsi!New, Mipidsi!Delete, Mipidsi!Try
  <2> QED
    BY <2>1, <2>2, <2>3
<1>3. op \in {"bus_make", "deinit", "soft_reset"} => g["panel"] = None
  BY <1>1, <1>2 DEF Empty
<1>4. op = "soft_reset" \/ (op = "deinit" /\ self \in Buses) => g["dsi"] = None
  BY <1>1, <1>2 DEF Empty
<1> QED
  BY <1>3, <1>4 DEF Ended

-----------------------------------------------------------------------------
(* The invariant.                                                          *)

ScanTyped(s) ==
  /\ s = [buf |-> s.buf, unsynced |-> s.unsynced, raw |-> s.raw, stray |-> s.stray]
  /\ s.buf \in Handles \cup {None}
  /\ s.unsynced \subseteq Mipidsi!Lines /\ s.raw \subseteq Mipidsi!Lines

MipiObjects ==
  /\ objs = [o \in Buses \cup Objects |-> objs[o]]
  /\ \A d \in Objects : objs[d] # None =>
       /\ objs[d] = [panel |-> objs[d].panel, buf |-> objs[d].buf,
                     deinited |-> objs[d].deinited]
       /\ objs[d].deinited \in BOOLEAN /\ objs[d].buf \in Handles \cup {None}

MipiTyped ==
  /\ host \in MipiMirror
  /\ call = None \/ call \in MipiCalls
  /\ ScanTyped(scan) /\ MipiObjects

MipiHosts == IF call = None THEN Backed(host) ELSE MipiPlace(call.steps, host)

MipiCall == call # None => /\ OfCall(call.op, call.self, call.steps)
                           /\ call.steps = Done => Ended(call.op, call.self, host)

\* The panel reads the mirror's frame buffer, and memory has what is drawn.
MipiScans ==
  ~scan.stray =>
    /\ scan.buf # None => host["panel"] # None /\ host["buf"] = scan.buf
    /\ scan.unsynced \subseteq scan.raw

\* A usable object names what the mirror does, but for the one being returned.
BusNamed ==
  host["dsi"] # None =>
    \E b \in Buses : objs[b] = [dsi |-> host["dsi"], deinited |-> FALSE]
DisplayNamed ==
  ~scan.stray /\ scan.buf # None =>
    \E d \in Objects : objs[d] = [panel |-> host["panel"], buf |-> scan.buf,
                                  deinited |-> FALSE]
MipiNames ==
  /\ call = None \/ call.op # "bus_make" \/ call.steps # Done => BusNamed
  /\ call = None \/ call.op # "display_make" \/ call.steps # Done => DisplayNamed

\* The mirror names what is allocated, and what it names has been made in order.
MipiLedger ==
  /\ live = {kh \in Mipidsi!Kind \X Handles : host[kh[1]] = kh[2]}
  /\ host["panel"] # None \/ host["io"] # None => host["dsi"] # None
  /\ host["dsi"] # None => host["ldo"] # None

MipiKept == /\ MipiTyped /\ MipiHosts /\ MipiCall
            /\ MipiScans /\ MipiNames /\ MipiLedger

\* A sync covers the lines of its rows, and no line that is not allocated.
LEMMA MipiLines ==
  ASSUME NEW yh \in Mipidsi!Bands
  PROVE  /\ Mipidsi!RowLines(yh[1], yh[2]) \subseteq Mipidsi!MsyncRows(yh[1], yh[2])
         /\ Mipidsi!MsyncRows(yh[1], yh[2]) \subseteq Mipidsi!Lines
<1>1. \/ yh[1] = 0 /\ yh[2] = 1
      \/ yh[1] = 0 /\ yh[2] = 2
      \/ yh[1] = 1 /\ yh[2] = 1
  BY DEF Mipidsi!Bands
<1>2. Mipidsi!Size = 6 /\ Mipidsi!AlignUp(6) = 8 /\ Mipidsi!AlignUp(3) = 4
  BY DEF Mipidsi!Size, Mipidsi!AlignUp
<1>3. Mipidsi!Lines = {0, 1}
  BY <1>2 DEF Mipidsi!Lines
<1>4. /\ Mipidsi!RowLines(0, 1) = {0} /\ Mipidsi!MsyncRows(0, 1) = {0}
      /\ Mipidsi!RowLines(0, 2) = {0, 1} /\ Mipidsi!MsyncRows(0, 2) = {0, 1}
      /\ Mipidsi!RowLines(1, 1) = {0, 1} /\ Mipidsi!MsyncRows(1, 1) = {0, 1}
  <2>1. /\ Mipidsi!RowLines(0, 1) = {0}
        /\ Mipidsi!RowLines(0, 2) = {0, 1}
        /\ Mipidsi!RowLines(1, 1) = {0, 1}
    BY <1>3 DEF Mipidsi!RowLines, Mipidsi!Touched
  <2>2. Mipidsi!MsyncRows(0, 1) = {0}
    BY <1>2 DEF Mipidsi!MsyncRows
  <2>3. Mipidsi!MsyncRows(0, 2) = {0, 1}
    BY <1>2 DEF Mipidsi!MsyncRows
  <2>4. Mipidsi!MsyncRows(1, 1) = {0, 1}
    BY <1>2 DEF Mipidsi!MsyncRows
  <2> QED
    BY <2>1, <2>2, <2>3, <2>4
<1> QED
  BY <1>1, <1>3, <1>4

LEMMA MipiInit == Mipidsi!Init => MipiKept
<1> SUFFICES ASSUME Mipidsi!Init PROVE MipiKept
  OBVIOUS
<1>1. /\ host = [k \in Mipidsi!Kind |-> None] /\ live = {} /\ call = None
      /\ scan = [buf |-> None, unsynced |-> {}, raw |-> {}, stray |-> FALSE]
      /\ objs = [o \in Buses \cup Objects |-> None]
  BY DEF Mipidsi!Init, Mipidsi!NoHost, Mipidsi!Quiet
<1>2. \A k \in {"panel", "io", "buf", "dsi", "ldo"} : host[k] = None
  BY <1>1 DEF Mipidsi!Kind
<1>3. MipiTyped
  BY <1>1 DEF MipiTyped, MipiMirror, ScanTyped, MipiObjects
<1>4. MipiHosts /\ MipiScans /\ MipiCall /\ MipiNames
  BY <1>1, <1>2 DEF MipiHosts, MipiScans, Backed, MipiCall, MipiNames, BusNamed,
     DisplayNamed
<1>5. MipiLedger
  BY <1>1, <1>2, NullApart DEF MipiLedger
<1> QED
  BY <1>3, <1>4, <1>5 DEF MipiKept

\* The names hold as long as the objects stay and what they name goes.
LEMMA MipiNamesGo ==
  ASSUME BusNamed, DisplayNamed, UNCHANGED objs,
         host'["dsi"] \in {host["dsi"], None},
         ~scan'.stray /\ scan'.buf # None =>
           ~scan.stray /\ scan'.buf = scan.buf /\ host'["panel"] = host["panel"]
  PROVE  BusNamed' /\ DisplayNamed'
BY DEF BusNamed, DisplayNamed

\* A use of what is gone, or not.
Strays == /\ scan' = [scan EXCEPT !.stray = scan'.stray]
          /\ ~scan'.stray => ~scan.stray
LEMMA MipiStrays ==
  ASSUME MipiKept, Strays, UNCHANGED host
  PROVE  /\ ScanTyped(scan') /\ MipiScans'
         /\ scan'.buf = scan.buf /\ (~scan'.stray => ~scan.stray)
<1>1. ScanTyped(scan)
  BY DEF MipiKept, MipiTyped
<1>2. scan' = [buf |-> scan.buf, unsynced |-> scan.unsynced, raw |-> scan.raw,
               stray |-> scan'.stray]
  BY <1>1 DEF Strays, ScanTyped
<1>3. scan'.buf = scan.buf /\ scan'.unsynced = scan.unsynced /\ scan'.raw = scan.raw
  BY <1>2
<1> QED
  BY <1>1, <1>2, <1>3 DEF Strays, ScanTyped, MipiKept, MipiScans

\* A call begins.
LEMMA MipiBegin ==
  ASSUME MipiKept, UNCHANGED <<host, live, objs>>, Strays,
         call = None \/ call.steps # Done,
         NEW op \in Op, NEW self \in Named, NEW steps \in MipiPath, steps # Done,
         Mipidsi!Begin(op, self, steps), MipiPlace(steps, host),
         OfCall(op, self, steps)
  PROVE  MipiKept'
<1>1. /\ call' \in MipiCalls /\ call'.steps = steps
      /\ call'.op = op /\ call'.self = self
  BY DEF Mipidsi!Begin, MipiCalls
<1>2. call' # None
  BY <1>1, MipiNotNull
<1>3. MipiHosts' /\ MipiCall'
  BY <1>1, <1>2 DEF MipiHosts, MipiCall
<1>4. /\ ScanTyped(scan)' /\ MipiScans'
      /\ scan'.buf = scan.buf /\ (~scan'.stray => ~scan.stray)
  BY MipiStrays
<1>5. BusNamed /\ DisplayNamed
  BY DEF MipiKept, MipiNames
<1>6. MipiNames'
  BY <1>4, <1>5, MipiNamesGo DEF MipiNames
<1>7. MipiTyped' /\ MipiLedger'
  BY <1>1, <1>4 DEF MipiKept, MipiTyped, MipiObjects, MipiLedger
<1> QED
  BY <1>3, <1>4, <1>6, <1>7 DEF MipiKept

\* A call raises.
LEMMA MipiRaise ==
  ASSUME MipiKept, UNCHANGED <<host, live, objs, scan>>, call' = None,
         Backed(host), call = None \/ call.steps # Done
  PROVE  MipiKept'
<1>1. MipiHosts' /\ MipiCall'
  BY DEF MipiHosts, MipiCall, Backed
<1>2. BusNamed /\ DisplayNamed
  BY DEF MipiKept, MipiNames
<1>3. MipiNames'
  BY <1>2 DEF MipiNames, BusNamed, DisplayNamed
<1>4. MipiTyped' /\ MipiLedger' /\ MipiScans'
  BY DEF MipiKept, MipiTyped, MipiObjects, ScanTyped, MipiLedger, MipiScans
<1> QED
  BY <1>1, <1>3, <1>4 DEF MipiKept

\* A call goes on.
LEMMA MipiNextStep ==
  ASSUME MipiKept, NEW do, Mipidsi!Step(do), Mipidsi!Continue
  PROVE  /\ call # None /\ call.steps # Done /\ Head(call.steps).do = do
         /\ MipiPlace(call.steps, host) /\ host \in MipiMirror
         /\ OfCall(call.op, call.self, call.steps)
         /\ call' \in MipiCalls /\ call' # None /\ call'.steps = Tail(call.steps)
         /\ call'.op = call.op /\ call'.self = call.self
         /\ BusNamed /\ DisplayNamed
<1>1. /\ call # None /\ call \in MipiCalls /\ call.steps # Done
      /\ Head(call.steps).do = do /\ host \in MipiMirror
      /\ OfCall(call.op, call.self, call.steps) /\ BusNamed /\ DisplayNamed
  BY DEF Mipidsi!Step, MipiKept, MipiTyped, MipiCall, MipiNames, Done
<1>2. /\ call.op \in Op /\ call.self \in Named
      /\ call.steps \in MipiPath \ {Done}
  BY <1>1 DEF MipiCalls
<1>3. Tail(call.steps) \in MipiPath
  BY <1>2, MipiOn
<1>4. call' = [op |-> call.op, self |-> call.self, steps |-> Tail(call.steps)]
  BY <1>1, MipiGoesOn
<1>5. /\ call' \in MipiCalls /\ call'.steps = Tail(call.steps)
      /\ call'.op = call.op /\ call'.self = call.self
  BY <1>2, <1>3, <1>4 DEF MipiCalls
<1> QED
  BY <1>1, <1>5, MipiNotNull DEF MipiKept, MipiHosts

LEMMA MipiDeleteStep ==
  ASSUME MipiKept, Mipidsi!DeleteStep PROVE MipiKept'
<1> DEFINE k == Head(call.steps).what
<1>1. /\ live' = live \ {<<k, host[k]>>} /\ host' = [host EXCEPT ![k] = None]
      /\ scan' = IF k = "panel" /\ host["panel"] # None THEN Mipidsi!QuietNow
                                                        ELSE scan
      /\ UNCHANGED objs
  BY DEF Mipidsi!DeleteStep, Mipidsi!What
<1>2. /\ call.steps # Done /\ Head(call.steps).do = "delete"
      /\ MipiPlace(call.steps, host) /\ host \in MipiMirror
      /\ OfCall(call.op, call.self, call.steps)
      /\ call' \in MipiCalls /\ call' # None /\ call'.steps = Tail(call.steps)
      /\ call'.op = call.op /\ call'.self = call.self
      /\ BusNamed /\ DisplayNamed
  BY MipiNextStep DEF Mipidsi!DeleteStep
<1>3. /\ MipiPlace(Tail(call.steps), host') /\ k \in Mipidsi!Kind
      /\ k = "buf" => Empty(host, {"panel"})
      /\ k = "dsi" => Empty(host, {"panel", "io"})
      /\ k = "ldo" => Empty(host, {"panel", "io", "dsi"})
  BY <1>1, <1>2, MipiDeleted
<1>4. MipiHosts'
  BY <1>2, <1>3 DEF MipiHosts
<1> HIDE DEF k
<1>5. /\ host' \in MipiMirror /\ host'[k] = None
      /\ \A j \in Mipidsi!Kind : j # k => host'[j] = host[j]
  BY <1>1, <1>2, <1>3 DEF MipiMirror
<1>6. \A j \in {"panel", "io", "buf", "dsi", "ldo"} : j # k => host'[j] = host[j]
  BY <1>5 DEF Mipidsi!Kind
<1>10. MipiCall'
  <2>1. OfCall(call.op, call.self, Tail(call.steps))
    BY <1>2, MipiOnward
  <2>2. \A j \in {"panel", "dsi"} : j # Head(call.steps).what => host'[j] = host[j]
    BY <1>6 DEF k
  <2>3. Tail(call.steps) = Done => Ended(call.op, call.self, host')
    BY <1>2, <2>2, MipiEnds
  <2> QED
    BY <1>2, <2>1, <2>3 DEF MipiCall
<1>7. MipiLedger'
  <2>1. live' = {kh \in Mipidsi!Kind \X Handles : host'[kh[1]] = kh[2]}
    <3>1. live = {kh \in Mipidsi!Kind \X Handles : host[kh[1]] = kh[2]}
      BY DEF MipiKept, MipiLedger
    <3>2. ASSUME NEW j \in Mipidsi!Kind, NEW h \in Handles
          PROVE  <<j, h>> \in live' <=> host'[j] = h
      <4>1. CASE j = k
        BY <1>1, <1>5, <3>1, <4>1, NullApart
      <4>2. CASE j # k
        BY <1>1, <1>5, <3>1, <4>2
      <4> QED
        BY <4>1, <4>2
    <3> QED
      BY <1>1, <3>1, <3>2
  <2>2. /\ host'["panel"] # None \/ host'["io"] # None => host'["dsi"] # None
        /\ host'["dsi"] # None => host'["ldo"] # None
    BY <1>3, <1>5, <1>6 DEF MipiKept, MipiLedger, Empty
  <2> QED
    BY <2>1, <2>2 DEF MipiLedger
\* Either the panel goes, and reads nothing, or it did not read.
<1>8. \/ /\ scan' = [buf |-> None, unsynced |-> {}, raw |-> {}, stray |-> scan.stray]
      \/ scan' = scan /\ (k = "panel" => host["panel"] = None)
  BY <1>1 DEF Mipidsi!QuietNow, Mipidsi!Quiet
<1>9. ScanTyped(scan)' /\ MipiScans'
  <2>1. CASE scan' = [buf |-> None, unsynced |-> {}, raw |-> {}, stray |-> scan.stray]
    <3>1. /\ scan'.buf = None /\ scan'.unsynced = {} /\ scan'.raw = {}
          /\ scan'.stray = scan.stray
      BY <2>1
    <3> QED
      BY <2>1, <3>1 DEF ScanTyped, MipiScans
  <2>2. CASE scan' = scan /\ (k = "panel" => host["panel"] = None)
    BY <1>3, <1>6, <2>2 DEF MipiKept, MipiTyped, ScanTyped, MipiScans, Empty
  <2> QED
    BY <1>8, <2>1, <2>2
<1>11. MipiNames'
  <2>1. host'["dsi"] \in {host["dsi"], None}
    BY <1>5, <1>6
  <2>2. ~scan'.stray /\ scan'.buf # None =>
          ~scan.stray /\ scan'.buf = scan.buf /\ host'["panel"] = host["panel"]
    BY <1>5, <1>6, <1>8
  <2> QED
    BY <1>1, <1>2, <2>1, <2>2, MipiNamesGo DEF MipiNames
<1> QED
  BY <1>1, <1>2, <1>4, <1>5, <1>7, <1>9, <1>10, <1>11
     DEF MipiKept, MipiTyped, MipiObjects

LEMMA MipiNewStep ==
  ASSUME MipiKept, Mipidsi!NewStep PROVE MipiKept'
<1> DEFINE k == Head(call.steps).what
<1>1. /\ call # None /\ call \in MipiCalls /\ call.steps # Done
      /\ Head(call.steps).do = "new" /\ host \in MipiMirror
      /\ OfCall(call.op, call.self, call.steps) /\ BusNamed /\ DisplayNamed
      /\ MipiPlace(call.steps, host) /\ UNCHANGED <<objs, scan>>
  BY DEF Mipidsi!NewStep, Mipidsi!Step, MipiKept, MipiTyped, MipiHosts, MipiCall,
     MipiNames, Done
<1>2. /\ k \in Mipidsi!Kind /\ host[k] = None /\ Empty(host, {"buf"})
      /\ k = "dsi" => host["ldo"] # None
      /\ k \in {"io", "panel"} => host["dsi"] # None
      /\ \A a \in Handles :
           MipiPlace(Tail(call.steps), [host EXCEPT ![k] = a])
  BY <1>1, MipiNewed
\* A Bus is as good as made.
<1>7. k = "dsi" => call.op = "bus_make" /\ Tail(call.steps) = Done
  BY <1>1, MipiNewDsi
<1>3. ASSUME NEW h \in Handles, live' = live \cup {<<k, h>>},
             host' = [host EXCEPT ![k] = h], Mipidsi!Continue
      PROVE  MipiKept'
  <2>1. /\ call' \in MipiCalls /\ call' # None /\ call'.steps = Tail(call.steps)
        /\ call'.op = call.op /\ call'.self = call.self
    BY <1>3, MipiNextStep DEF Mipidsi!NewStep
  <2>2. MipiHosts'
    BY <1>2, <1>3, <2>1 DEF MipiHosts
  <2> HIDE DEF k
  <2>3. /\ host' \in MipiMirror /\ host'[k] = h
        /\ \A j \in Mipidsi!Kind : j # k => host'[j] = host[j]
    BY <1>1, <1>2, <1>3 DEF MipiMirror
  <2>4. /\ \A j \in {"panel", "io", "buf", "dsi", "ldo"} : j # k => host'[j] = host[j]
        /\ h # None
    BY <2>3, NullApart DEF Mipidsi!Kind
  <2>9. MipiCall'
    <3>1. OfCall(call.op, call.self, Tail(call.steps))
      BY <1>1, MipiOnward
    <3>2. \A j \in {"panel", "dsi"} : j # Head(call.steps).what => host'[j] = host[j]
      BY <2>4 DEF k
    <3>3. Tail(call.steps) = Done => Ended(call.op, call.self, host')
      BY <1>1, <3>2, MipiEnds
    <3> QED
      BY <2>1, <3>1, <3>3 DEF MipiCall
  <2>5. live' = {kh \in Mipidsi!Kind \X Handles : host'[kh[1]] = kh[2]}
    <3>1. live = {kh \in Mipidsi!Kind \X Handles : host[kh[1]] = kh[2]}
      BY DEF MipiKept, MipiLedger
    <3>2. ASSUME NEW j \in Mipidsi!Kind, NEW a \in Handles
          PROVE  <<j, a>> \in live' <=> host'[j] = a
      <4>1. CASE j = k
        <5>1. <<j, a>> \notin live
          BY <1>2, <3>1, <4>1, NullApart
        <5> QED
          BY <1>3, <2>3, <4>1, <5>1
      <4>2. CASE j # k
        BY <1>3, <2>3, <3>1, <4>2
      <4> QED
        BY <4>1, <4>2
    <3> QED
      BY <1>2, <1>3, <3>1, <3>2
  <2>6. /\ host'["panel"] # None \/ host'["io"] # None => host'["dsi"] # None
        /\ host'["dsi"] # None => host'["ldo"] # None
    BY <1>2, <2>3, <2>4 DEF MipiKept, MipiLedger
  <2>7. MipiScans'
    BY <1>1, <1>2, <2>3, <2>4 DEF MipiKept, MipiScans, Empty
  <2>8. MipiLedger'
    BY <2>5, <2>6 DEF MipiLedger
  \* With no panel it reads nothing.
  <2>10. /\ k = "panel" /\ ~scan.stray => scan.buf = None
         /\ host'["panel"] = host["panel"] \/ k = "panel"
         /\ host'["dsi"] = host["dsi"] \/ k = "dsi"
    BY <1>2, <2>4 DEF MipiKept, MipiScans
  <2>11. DisplayNamed'
    BY <1>1, <2>10 DEF DisplayNamed
  <2>12. k # "dsi" => BusNamed'
    BY <1>1, <2>10 DEF BusNamed
  <2>13. MipiNames'
    BY <1>7, <2>1, <2>11, <2>12 DEF MipiNames
  <2> QED
    BY <1>1, <2>1, <2>2, <2>3, <2>7, <2>8, <2>9, <2>13
       DEF MipiKept, MipiTyped, MipiObjects, ScanTyped
<1>4. Backed(host) /\ MipiPlace(Parts1, host)
  BY <1>2 DEF Empty, Backed, MipiPlace
<1>5. CASE /\ UNCHANGED <<host, live>>
           /\ Mipidsi!Begin("raise", None, Mipidsi!DisplayTeardown)
  <2>1. Mipidsi!Begin("raise", None, Parts1)
    BY <1>5, MipiCallsBegin
  <2>2. /\ "raise" \in Op /\ None \in Named /\ Parts1 \in MipiPath /\ Parts1 # Done
        /\ OfCall("raise", None, Parts1)
    BY MipiNotDone DEF Op, Named, MipiPath, OfCall
  <2>3. Strays
    BY <1>1 DEF Strays, MipiKept, MipiTyped, ScanTyped
  <2> QED
    BY <1>1, <1>4, <1>5, <2>1, <2>2, <2>3, MipiBegin
<1>6. CASE UNCHANGED <<host, live>> /\ call' = None
  BY <1>1, <1>4, <1>6, MipiRaise
<1> QED
  BY <1>3, <1>5, <1>6 DEF Mipidsi!NewStep, Mipidsi!What

LEMMA MipiTryStep ==
  ASSUME MipiKept, Mipidsi!TryStep PROVE MipiKept'
<1>1. /\ call # None /\ call \in MipiCalls /\ call.steps # Done
      /\ Head(call.steps).do = "try" /\ host \in MipiMirror
      /\ OfCall(call.op, call.self, call.steps) /\ BusNamed /\ DisplayNamed
      /\ MipiPlace(call.steps, host) /\ UNCHANGED <<host, live, objs>>
  BY DEF Mipidsi!TryStep, Mipidsi!Step, MipiKept, MipiTyped, MipiHosts, MipiCall,
     MipiNames, Done
<1>2. /\ MipiPlace(Tail(call.steps), host) /\ Backed(host)
      /\ Head(call.steps).what = "draw_bitmap" => host["panel"] # None
  BY <1>1, MipiTried
\* Only a Display's constructor tries, and the panel's first frame is its last.
<1>5. /\ call.op = "display_make"
      /\ Head(call.steps).what = "draw_bitmap" => Tail(call.steps) = Done
  BY <1>1, MipiTry
<1>3. CASE /\ scan' = IF Mipidsi!What = "draw_bitmap"
                        THEN [Mipidsi!QuietNow EXCEPT !.buf = host.buf] ELSE scan
           /\ Mipidsi!Continue
  <2>1. /\ call' \in MipiCalls /\ call' # None /\ call'.steps = Tail(call.steps)
        /\ call'.op = call.op /\ call'.self = call.self
    BY <1>3, MipiNextStep DEF Mipidsi!TryStep
  <2>2. MipiHosts'
    BY <1>1, <1>2, <2>1 DEF MipiHosts
  <2>5. MipiCall'
    <3>1. OfCall(call.op, call.self, Tail(call.steps))
      BY <1>1, MipiOnward
    <3> QED
      BY <1>5, <2>1, <3>1 DEF MipiCall, Ended
  <2>6. MipiLedger' /\ BusNamed' /\ MipiObjects'
    BY <1>1 DEF MipiKept, MipiTyped, MipiLedger, BusNamed, MipiObjects
  <2>3. CASE Mipidsi!What = "draw_bitmap"
    <3>1. scan' = [buf |-> host["buf"], unsynced |-> {}, raw |-> {},
                   stray |-> scan.stray]
      BY <1>3, <2>3 DEF Mipidsi!QuietNow, Mipidsi!Quiet
    <3>2. host["buf"] \in Handles \cup {None} /\ host["panel"] # None
      BY <1>1, <1>2, <2>3 DEF MipiMirror, Mipidsi!Kind, Mipidsi!What
    <3>3. /\ scan'.buf = host["buf"] /\ scan'.unsynced = {} /\ scan'.raw = {}
          /\ scan'.stray = scan.stray
      BY <3>1
    <3>4. ScanTyped(scan)' /\ MipiScans'
      BY <1>1, <3>1, <3>2, <3>3 DEF ScanTyped, MipiScans
    <3>5. MipiNames'
      BY <1>5, <2>1, <2>3, <2>6 DEF MipiNames, Mipidsi!What
    <3> QED
      BY <1>1, <2>1, <2>2, <2>5, <2>6, <3>4, <3>5 DEF MipiKept, MipiTyped
  <2>4. CASE Mipidsi!What # "draw_bitmap"
    <3>1. ScanTyped(scan)' /\ MipiScans' /\ DisplayNamed'
      BY <1>1, <1>3, <2>4 DEF MipiKept, MipiTyped, ScanTyped, MipiScans, DisplayNamed
    <3> QED
      BY <1>1, <2>1, <2>2, <2>5, <2>6, <3>1 DEF MipiKept, MipiTyped, MipiNames
  <2> QED
    BY <2>3, <2>4
<1>4. CASE call' = None /\ UNCHANGED scan
  BY <1>1, <1>2, <1>4, MipiRaise
<1> QED
  BY <1>3, <1>4 DEF Mipidsi!TryStep

LEMMA MipiReturn ==
  ASSUME MipiKept, Mipidsi!Return PROVE MipiKept'
<1>1. /\ call # None /\ call.steps = Done /\ MipiPlace(Done, host)
      /\ UNCHANGED <<host, live, scan>> /\ call' = None
      /\ OfCall(call.op, call.self, Done) /\ Ended(call.op, call.self, host)
  BY DEF Mipidsi!Return, MipiKept, MipiHosts, MipiCall, Done
<1>2. Backed(host)
  BY <1>1, MipiNotDone DEF MipiPlace
<1>3. /\ objs = [o \in Buses \cup Objects |-> objs[o]]
      /\ \A d \in Objects : d \notin Buses
      /\ call.self \in Objects => call.self \notin Buses
  BY NamesAssumption DEF MipiKept, MipiTyped, MipiObjects
<1>4. /\ MipiHosts' /\ MipiCall' /\ MipiScans' /\ MipiLedger'
      /\ ScanTyped(scan)' /\ host' \in MipiMirror
  BY <1>1, <1>2 DEF MipiKept, MipiTyped, MipiHosts, MipiCall, MipiScans, MipiLedger,
     ScanTyped, Backed
\* What has been torn down nobody needs to name.
<1>5. /\ call.op # "display_make" /\ call.op # "raise" => host["panel"] = None
      /\ host["panel"] = None => DisplayNamed'
  BY <1>1 DEF OfCall, Ended, DisplayNamed, MipiKept, MipiScans
<1>6. MipiObjects' /\ BusNamed' /\ DisplayNamed'
  <2>1. CASE call.op = "bus_make"
    <3>1. /\ objs' = [objs EXCEPT ![call.self] = [dsi |-> host["dsi"],
                                                 deinited |-> FALSE]]
          /\ call.self \in Buses
      BY <1>1, <2>1 DEF Mipidsi!Return, OfCall
    <3>2. /\ objs'[call.self] = [dsi |-> host["dsi"], deinited |-> FALSE]
          /\ objs' = [o \in Buses \cup Objects |-> objs'[o]]
          /\ \A d \in Objects : objs'[d] = objs[d]
      BY <1>3, <3>1
    <3> QED
      BY <1>1, <1>5, <2>1, <3>1, <3>2 DEF MipiKept, MipiTyped, MipiObjects, BusNamed
  <2>2. CASE call.op = "display_make"
    <3>1. /\ objs' = [objs EXCEPT ![call.self] =
                        [panel |-> host["panel"], buf |-> host["buf"],
                         deinited |-> FALSE]]
          /\ call.self \in Objects
      BY <1>1, <2>2 DEF Mipidsi!Return, OfCall
    <3>2. /\ objs'[call.self] = [panel |-> host["panel"], buf |-> host["buf"],
                                 deinited |-> FALSE]
          /\ objs' = [o \in Buses \cup Objects |-> objs'[o]]
          /\ \A o \in Buses \cup Objects : o # call.self => objs'[o] = objs[o]
      BY <1>3, <3>1
    <3>3. MipiObjects'
      <4> SUFFICES ASSUME NEW d \in Objects, objs'[d] # None
                   PROVE  /\ objs'[d] = [panel |-> objs'[d].panel,
                                         buf |-> objs'[d].buf,
                                         deinited |-> objs'[d].deinited]
                          /\ objs'[d].deinited \in BOOLEAN
                          /\ objs'[d].buf \in Handles \cup {None}
        BY <3>2 DEF MipiObjects
      <4>1. CASE d = call.self
        <5>1. host["buf"] \in Handles \cup {None}
          BY <1>1, <1>4 DEF MipiMirror, Mipidsi!Kind
        <5>2. objs'[d] = [panel |-> host["panel"], buf |-> host["buf"],
                          deinited |-> FALSE]
          BY <3>2, <4>1
        <5> QED
          BY <5>1, <5>2
      <4>2. CASE d # call.self
        BY <3>2, <4>2 DEF MipiKept, MipiTyped, MipiObjects
      <4> QED
        BY <4>1, <4>2
    <3>4. BusNamed'
      <4>1. BusNamed
        BY <2>2 DEF MipiKept, MipiNames
      <4>2. \A b \in Buses : objs'[b] = objs[b]
        BY <1>3, <3>1, <3>2
      <4> QED
        BY <1>1, <4>1, <4>2 DEF BusNamed
    <3>5. DisplayNamed'
      BY <1>1, <3>1, <3>2 DEF DisplayNamed, MipiKept, MipiScans
    <3> QED
      BY <3>3, <3>4, <3>5
  <2>3. CASE call.op = "deinit"
    <3>1. /\ objs' = [objs EXCEPT ![call.self] =
                        IF call.self \in Buses THEN Mipidsi!DeadBus
                                               ELSE Mipidsi!DeadDisplay]
          /\ call.self \in Buses \cup Objects
      BY <1>1, <2>3 DEF Mipidsi!Return, OfCall
    <3>2. /\ objs' = [o \in Buses \cup Objects |-> objs'[o]]
          /\ objs'[call.self] = IF call.self \in Buses THEN Mipidsi!DeadBus
                                                       ELSE Mipidsi!DeadDisplay
          /\ \A o \in Buses \cup Objects : o # call.self => objs'[o] = objs[o]
      BY <1>3, <3>1
    <3>3. MipiObjects'
      <4> SUFFICES ASSUME NEW d \in Objects, objs'[d] # None
                   PROVE  /\ objs'[d] = [panel |-> objs'[d].panel,
                                         buf |-> objs'[d].buf,
                                         deinited |-> objs'[d].deinited]
                          /\ objs'[d].deinited \in BOOLEAN
                          /\ objs'[d].buf \in Handles \cup {None}
        BY <3>2 DEF MipiObjects
      <4>1. CASE d = call.self
        <5>1. objs'[d] = [panel |-> None, buf |-> None, deinited |-> TRUE]
          BY <1>3, <3>2, <4>1 DEF Mipidsi!DeadDisplay
        <5> QED
          BY <5>1
      <4>2. CASE d # call.self
        BY <3>2, <4>2 DEF MipiKept, MipiTyped, MipiObjects
      <4> QED
        BY <4>1, <4>2
    <3>4. BusNamed'
      <4>1. CASE call.self \in Buses
        BY <1>1, <2>3, <4>1 DEF Ended, BusNamed
      <4>2. CASE call.self \notin Buses
        <5>1. BusNamed
          BY <2>3 DEF MipiKept, MipiNames
        <5>2. \A b \in Buses : objs'[b] = objs[b]
          BY <3>2, <4>2
        <5> QED
          BY <1>1, <5>1, <5>2 DEF BusNamed
      <4> QED
        BY <4>1, <4>2
    <3> QED
      BY <1>5, <2>3, <3>3, <3>4
  <2>4. CASE call.op = "soft_reset"
    <3>1. objs' = [o \in Buses \cup Objects |-> None]
      BY <2>4 DEF Mipidsi!Return
    <3>2. MipiObjects'
      BY <3>1 DEF MipiObjects
    <3>3. BusNamed'
      BY <1>1, <2>4 DEF Ended, BusNamed
    <3> QED
      BY <1>5, <2>4, <3>2, <3>3
  <2>5. CASE call.op = "raise"
    <3>1. objs' = objs /\ BusNamed /\ DisplayNamed
      BY <2>5 DEF Mipidsi!Return, MipiKept, MipiNames
    <3> QED
      BY <1>1, <3>1 DEF BusNamed, DisplayNamed, MipiKept, MipiTyped, MipiObjects
  <2> QED
    BY <1>1, <2>1, <2>2, <2>3, <2>4, <2>5 DEF OfCall
<1> QED
  BY <1>1, <1>4, <1>6 DEF MipiKept, MipiTyped, MipiNames

\* Drawing leaves the mirror, and syncs what it draws; the panel goes on with
\* the buffer it reads, or takes a usable Display's.
LEMMA MipiDraws ==
  ASSUME MipiKept, call = None, UNCHANGED <<host, live, objs, call>>,
         ScanTyped(scan'), ~scan'.stray => ~scan.stray,
         ~scan'.stray => scan'.unsynced \subseteq scan'.raw,
         ~scan'.stray => \/ scan'.buf = scan.buf
                         \/ /\ scan'.buf = host["buf"] /\ host["panel"] # None
                            /\ \E d \in Objects :
                                 objs[d] = [panel |-> host["panel"],
                                            buf |-> host["buf"],
                                            deinited |-> FALSE]
  PROVE  MipiKept'
<1>1. MipiHosts' /\ MipiCall'
  BY DEF MipiKept, MipiHosts, MipiCall, Backed
<1>2. MipiScans'
  BY DEF MipiKept, MipiScans
<1>3. BusNamed' /\ DisplayNamed'
  BY DEF MipiKept, MipiNames, BusNamed, DisplayNamed
<1>4. ScanTyped(scan)' /\ MipiObjects' /\ MipiLedger'
  BY DEF MipiKept, MipiTyped, MipiObjects, MipiLedger
<1> QED
  BY <1>1, <1>2, <1>3, <1>4 DEF MipiKept, MipiTyped, MipiNames

\* What is synced after drawing rows is what was not synced yet elsewhere.
LEMMA MipiPaint ==
  ASSUME MipiKept, NEW d \in Objects, NEW yh \in Mipidsi!Bands,
         Mipidsi!Paint(d, yh[1], yh[2])
  PROVE  MipiKept'
<1> DEFINE Painted == Mipidsi!RowLines(yh[1], yh[2])
           Synced == Mipidsi!MsyncRows(yh[1], yh[2])
<1>1. /\ call = None /\ UNCHANGED <<host, live, objs, call>>
      /\ scan' = [scan EXCEPT !.unsynced = (@ \cup Painted) \ Synced,
                              !.raw = @ \ Synced,
                              !.stray = @ \/ Mipidsi!Gone("buf", objs[d].buf)]
  BY DEF Mipidsi!Paint, Mipidsi!Drawable
<1>2. Painted \subseteq Synced
  BY MipiLines
<1> HIDE DEF Painted, Synced
<1>3. scan' = [buf |-> scan.buf, unsynced |-> (scan.unsynced \cup Painted) \ Synced,
               raw |-> scan.raw \ Synced,
               stray |-> scan.stray \/ Mipidsi!Gone("buf", objs[d].buf)]
  BY <1>1, Zenon DEF MipiKept, MipiTyped, ScanTyped
<1>4. /\ scan'.buf = scan.buf /\ scan'.raw = scan.raw \ Synced
      /\ scan'.unsynced = (scan.unsynced \cup Painted) \ Synced
      /\ scan'.stray = (scan.stray \/ Mipidsi!Gone("buf", objs[d].buf))
      /\ scan' = [buf |-> scan'.buf, unsynced |-> scan'.unsynced,
                  raw |-> scan'.raw, stray |-> scan'.stray]
  BY <1>3, Zenon
<1>5. scan'.unsynced = scan.unsynced \ Synced
  BY <1>2, <1>4
<1>6. ~scan'.stray => ~scan.stray
  BY <1>4, Zenon
<1>7. ScanTyped(scan')
  BY <1>4, <1>5 DEF MipiKept, MipiTyped, ScanTyped
<1>8. ~scan'.stray => scan'.unsynced \subseteq scan'.raw
  BY <1>4, <1>5, <1>6 DEF MipiKept, MipiScans
<1> QED
  BY <1>1, <1>4, <1>6, <1>7, <1>8, MipiDraws

LEMMA MipiRawWrite ==
  ASSUME MipiKept, NEW d \in Objects, NEW y \in 0 .. 1, Mipidsi!RawWrite(d, y)
  PROVE  MipiKept'
<1> DEFINE Painted == Mipidsi!RowLines(y, 1)
<1>1. /\ call = None /\ UNCHANGED <<host, live, objs, call>>
      /\ scan' = [scan EXCEPT !.unsynced = @ \cup Painted, !.raw = @ \cup Painted,
                              !.stray = @ \/ Mipidsi!Gone("buf", objs[d].buf)]
  BY DEF Mipidsi!RawWrite, Mipidsi!Drawable
<1>2. Painted \subseteq Mipidsi!Lines
  BY DEF Mipidsi!RowLines, Mipidsi!Touched
<1> HIDE DEF Painted
<1>3. scan' = [buf |-> scan.buf, unsynced |-> scan.unsynced \cup Painted,
               raw |-> scan.raw \cup Painted,
               stray |-> scan.stray \/ Mipidsi!Gone("buf", objs[d].buf)]
  BY <1>1, Zenon DEF MipiKept, MipiTyped, ScanTyped
<1>4. /\ scan'.buf = scan.buf /\ scan'.raw = scan.raw \cup Painted
      /\ scan'.unsynced = scan.unsynced \cup Painted
      /\ scan'.stray = (scan.stray \/ Mipidsi!Gone("buf", objs[d].buf))
      /\ scan' = [buf |-> scan'.buf, unsynced |-> scan'.unsynced,
                  raw |-> scan'.raw, stray |-> scan'.stray]
  BY <1>3, Zenon
<1>5. ~scan'.stray => ~scan.stray
  BY <1>4, Zenon
<1>6. ScanTyped(scan')
  BY <1>2, <1>4 DEF MipiKept, MipiTyped, ScanTyped
<1>7. ~scan'.stray => scan'.unsynced \subseteq scan'.raw
  BY <1>4, <1>5 DEF MipiKept, MipiScans
<1> QED
  BY <1>1, <1>4, <1>5, <1>6, <1>7, MipiDraws

LEMMA MipiRefresh ==
  ASSUME MipiKept, NEW d \in Objects, NEW yh \in Mipidsi!Bands,
         Mipidsi!Refresh(d, yh[1], yh[2])
  PROVE  MipiKept'
<1> DEFINE Synced == Mipidsi!MsyncRows(yh[1], yh[2])
           Strayed == \/ scan.stray
                      \/ Mipidsi!Gone("panel", objs[d].panel)
                      \/ Mipidsi!Gone("buf", objs[d].buf)
<1>1. /\ call = None /\ UNCHANGED <<host, live, objs, call>>
      /\ scan' = [buf |-> objs[d].buf, unsynced |-> scan.unsynced \ Synced,
                  raw |-> scan.raw \ Synced, stray |-> Strayed]
      /\ objs[d] # None /\ ~objs[d].deinited
      /\ objs[d].panel # None /\ objs[d].buf # None
  BY DEF Mipidsi!Refresh, Mipidsi!Drawable
<1> HIDE DEF Synced, Strayed
<1>2. /\ scan'.buf = objs[d].buf /\ scan'.raw = scan.raw \ Synced
      /\ scan'.unsynced = scan.unsynced \ Synced /\ scan'.stray = Strayed
      /\ scan' = [buf |-> scan'.buf, unsynced |-> scan'.unsynced,
                  raw |-> scan'.raw, stray |-> scan'.stray]
  BY <1>1, Zenon
\* A Display whose handles are there names what the mirror does.
<1>3. ASSUME ~scan'.stray
      PROVE  /\ ~scan.stray /\ host["panel"] = objs[d].panel
             /\ host["buf"] = objs[d].buf
  <2>1. /\ ~scan.stray /\ <<"panel", objs[d].panel>> \in live
        /\ <<"buf", objs[d].buf>> \in live
    BY <1>2, <1>3, Zenon DEF Strayed, Mipidsi!Gone
  <2> QED
    BY <2>1 DEF MipiKept, MipiLedger
<1>4. objs[d] = [panel |-> objs[d].panel, buf |-> objs[d].buf, deinited |-> FALSE]
  BY <1>1 DEF MipiKept, MipiTyped, MipiObjects
<1>5. ScanTyped(scan')
  <2>1. objs[d].buf \in Handles \cup {None}
    BY <1>1 DEF MipiKept, MipiTyped, MipiObjects
  <2> QED
    BY <1>2, <2>1 DEF MipiKept, MipiTyped, ScanTyped
<1>6. ~scan'.stray => scan'.unsynced \subseteq scan'.raw
  BY <1>2, <1>3 DEF MipiKept, MipiScans
<1> QED
  BY <1>1, <1>2, <1>3, <1>4, <1>5, <1>6, MipiDraws

LEMMA MipiStep == MipiKept /\ Mipidsi!Next => MipiKept'
<1> SUFFICES ASSUME MipiKept, Mipidsi!Next PROVE MipiKept'
  OBVIOUS
<1>1. call = None => Backed(host)
  BY DEF MipiKept, MipiHosts
<1>2. /\ \A op \in {"bus_make", "display_make", "deinit", "soft_reset"} : op \in Op
      /\ \A o \in Buses \cup Objects \cup {None} : o \in Named
      /\ {Parts1, Host1, Bus1, Panel1} \subseteq MipiPath \ {Done}
  BY MipiNotDone DEF Op, Named, MipiPath
<1>7. UNCHANGED scan => Strays
  BY DEF Strays, MipiKept, MipiTyped, ScanTyped
<1>3. ASSUME NEW b \in Buses, Mipidsi!BusMake(b) PROVE MipiKept'
  <2>1. /\ call = None /\ UNCHANGED <<host, live, objs, scan>>
        /\ MipiPlace(Bus1, host) /\ Mipidsi!Begin("bus_make", b, Bus1)
        /\ OfCall("bus_make", b, Bus1)
    BY <1>1, <1>3, MipiCallsBegin DEF Mipidsi!BusMake, MipiPlace, OfCall
  <2> QED
    BY <1>2, <1>7, <2>1, MipiBegin
<1>4. ASSUME NEW d \in Objects, NEW b \in Buses, Mipidsi!DisplayMake(d, b)
      PROVE  MipiKept'
  <2>1. /\ call = None /\ UNCHANGED <<host, live, objs>>
        /\ MipiPlace(Panel1, host) /\ Mipidsi!Begin("display_make", d, Panel1)
        /\ OfCall("display_make", d, Panel1)
    BY <1>1, <1>4, MipiCallsBegin DEF Mipidsi!DisplayMake, MipiPlace, OfCall
  <2>2. Strays
    <3>1. scan' = [scan EXCEPT !.stray = @ \/ Mipidsi!Gone("dsi", objs[b].dsi)]
      BY <1>4 DEF Mipidsi!DisplayMake
    <3>2. scan'.stray = (scan.stray \/ Mipidsi!Gone("dsi", objs[b].dsi))
      BY <3>1, Zenon DEF MipiKept, MipiTyped, ScanTyped
    <3> QED
      BY <3>1, <3>2, Zenon DEF Strays
  <2> QED
    BY <1>2, <2>1, <2>2, MipiBegin
<1>5. ASSUME NEW o \in Buses \cup Objects, Mipidsi!Deinit(o) PROVE MipiKept'
  <2>1. /\ call = None /\ UNCHANGED <<host, live, objs, scan>>
        /\ MipiPlace(Host1, host) /\ MipiPlace(Parts1, host)
        /\ \/ Mipidsi!Begin("deinit", o, Host1) /\ OfCall("deinit", o, Host1)
           \/ Mipidsi!Begin("deinit", o, Parts1) /\ OfCall("deinit", o, Parts1)
    BY <1>1, <1>5, MipiCallsBegin DEF Mipidsi!Deinit, MipiPlace, OfCall
  <2> QED
    BY <1>2, <1>7, <2>1, MipiBegin
<1>6. ASSUME Mipidsi!SoftReset PROVE MipiKept'
  <2>1. /\ call = None /\ UNCHANGED <<host, live, objs, scan>>
        /\ MipiPlace(Host1, host) /\ Mipidsi!Begin("soft_reset", None, Host1)
        /\ OfCall("soft_reset", None, Host1)
    BY <1>1, <1>6, MipiCallsBegin DEF Mipidsi!SoftReset, MipiPlace, OfCall
  <2> QED
    BY <1>2, <1>7, <2>1, MipiBegin
<1> QED
  BY <1>3, <1>4, <1>5, <1>6, MipiDeleteStep, MipiNewStep, MipiTryStep,
     MipiReturn, MipiPaint, MipiRawWrite, MipiRefresh DEF Mipidsi!Next

LEMMA MipiRight == MipiKept => Mipidsi!ScanRight /\ Mipidsi!ReleasedOnce
<1> SUFFICES ASSUME MipiKept PROVE Mipidsi!ScanRight /\ Mipidsi!ReleasedOnce
  OBVIOUS
<1>1. ~scan.stray /\ scan.buf # None => <<"buf", scan.buf>> \in live
  BY DEF MipiKept, MipiTyped, ScanTyped, MipiScans, MipiLedger, Mipidsi!Kind
<1>2. call = None => BusNamed /\ DisplayNamed
  BY DEF MipiKept, MipiNames
<1>3. Mipidsi!ReleasedOnce
  BY <1>2 DEF MipiKept, MipiLedger, BusNamed, Mipidsi!ReleasedOnce
<1> QED
  BY <1>1, <1>2, <1>3, MipiLines
     DEF MipiKept, MipiScans, DisplayNamed, Mipidsi!ScanRight

-----------------------------------------------------------------------------
(* picodvi on the RP2350.                                                  *)

\* What is left of a call.  Each stops the hardware first if it is live.
HxMake1 == <<"pixel_off", "command_off", "irq_off", "malloc", "claim", "start">>
HxMake2 == <<"command_off", "irq_off", "malloc", "claim", "start">>
HxMake3 == <<"irq_off", "malloc", "claim", "start">>
HxMake4 == <<"malloc", "claim", "start">>
HxMake5 == <<"claim", "start">>
HxMake6 == <<"start">>
HxFree1 == <<"pixel_off", "command_off", "irq_off", "free">>
HxFree2 == <<"command_off", "irq_off", "free">>
HxFree3 == <<"irq_off", "free">>
HxReset1 == <<"pixel_off", "command_off", "irq_off", "sweep">>
HxReset2 == <<"command_off", "irq_off", "sweep">>
HxReset3 == <<"irq_off", "sweep">>

HxMaking == {HxMake1, HxMake2, HxMake3, HxMake4, HxMake5, HxMake6, Done}
HxFreeing == {HxFree1, HxFree2, HxFree3, Freeing, Done}
HxResetting == {HxReset1, HxReset2, HxReset3, Sweeping, Done}
HxPath == HxMaking \cup HxFreeing \cup HxResetting

HxOps == {"construct", "deinit", "soft_reset"}
HxCalls == [op : HxOps, self : Objects \cup {None}, mode : Hstx!Modes \cup {None},
            block : Blocks \cup {None}, px : Channels \cup {None},
            cmd : Channels \cup {None}, steps : HxPath]
HxAt == Nat \cup {None}
HxLists == {Done} \cup {Hstx!FrameList(m) : m \in Hstx!Modes}
HxScans == [px : [en : BOOLEAN, at : HxAt, again : BOOLEAN],
            cmd : [en : BOOLEAN, at : HxAt, next : Nat],
            irq : BOOLEAN, on : BOOLEAN, from : Blocks \cup {None},
            mode : Hstx!Modes \cup {None},
            list : HxLists]

HxTyped ==
  /\ host \in [live : BOOLEAN, px : Channels \cup {None},
               cmd : Channels \cup {None}, active : Objects \cup {None}]
  /\ objs \in [Objects -> Blocks \cup {None}]
  /\ call = None \/ call \in HxCalls
  /\ scan \in HxScans

\* What a channel that was stopped works on it was given after that.
PxStopped == scan.px.at # None => scan.px.again
CmdStopped == ~scan.cmd.en /\ scan.cmd.at = None
PxClaimed == <<"dma", host.px>> \in live

\* The channels claimed are those held, and others' and lost ones.
Foreign(c) == <<"other", c>> \in live \/ <<"lost", c>> \in live
HxLedger(held) ==
  /\ held \subseteq Channels
  /\ \A c \in Channels : <<"dma", c>> \in live <=> c \in held \/ Foreign(c)
  /\ \A c \in held : ~Foreign(c)

\* The mirror's channels are held until they are stopped, and a new object's
\* from the claim on.
AtRest == /\ host.live => HxLedger({host.px, host.cmd})
          /\ ~host.live => PxStopped /\ CmdStopped /\ HxLedger({})
HxHardware ==
  /\ call = None => AtRest
  /\ call # None =>
       \/ /\ call.steps \in {HxMake1, HxFree1, HxReset1}
          /\ host.live /\ HxLedger({host.px, host.cmd})
       \/ /\ call.steps \in {HxMake2, HxFree2, HxReset2}
          /\ host.live /\ PxStopped /\ ~PxClaimed /\ HxLedger({host.cmd})
       \/ /\ call.steps \in {HxMake3, HxFree3, HxReset3}
          /\ host.live /\ PxStopped /\ CmdStopped /\ HxLedger({})
       \/ /\ call.steps \in {HxMake4, HxMake5, Freeing, Sweeping}
          /\ ~host.live /\ PxStopped /\ CmdStopped /\ HxLedger({})
       \/ /\ call.steps = HxMake6
          /\ ~host.live /\ PxStopped /\ CmdStopped
          /\ HxLedger({call.px, call.cmd})
       \/ call.steps = Done /\ AtRest

\* While the hardware is live its block is allocated and its channels are two.
HxLive == host.live => /\ <<"block", scan.from>> \in live /\ scan.mode # None
                       /\ host.px # host.cmd

\* A new object's block is nobody else's, and its channels are two.
HxCall ==
  call # None =>
    /\ call.op = "construct" =>
         /\ call.steps \in HxMaking /\ call.mode # None
         /\ call.self \in Objects /\ ~Made(call.self)
         /\ call.steps \in {HxMake5, HxMake6, Done} =>
              /\ <<"block", call.block>> \in live
              /\ \A o \in Objects : Made(o) => objs[o] # call.block
         /\ call.steps = HxMake6 => call.px # call.cmd
    /\ call.op = "deinit" => /\ call.steps \in HxFreeing
                             /\ call.self \in Objects /\ Made(call.self)
    /\ call.op = "soft_reset" => call.steps \in HxResetting

\* An object owns its block until it is released, and every block has an owner.
NewBlock(b) == /\ call # None /\ call.op = "construct" /\ call.block = b
               /\ call.steps \in {HxMake5, HxMake6, Done}
HxOwners ==
  /\ \A o \in Objects : Made(o) /\ ~Released(o) => <<"block", objs[o]>> \in live
  /\ \A o, p \in Objects : o # p /\ Made(o) => objs[o] # objs[p]
  /\ \A b \in Blocks : <<"block", b>> \in live =>
       NewBlock(b) \/ \E o \in Objects : objs[o] = b /\ ~Released(o)

HxKept == HxTyped /\ HxHardware /\ HxLive /\ HxCall /\ HxOwners

LEMMA HxPaths ==
  /\ Head(HxMake1) = "pixel_off" /\ Tail(HxMake1) = HxMake2
  /\ Head(HxMake2) = "command_off" /\ Tail(HxMake2) = HxMake3
  /\ Head(HxMake3) = "irq_off" /\ Tail(HxMake3) = HxMake4
  /\ Head(HxMake4) = "malloc" /\ Tail(HxMake4) = HxMake5
  /\ Head(HxMake5) = "claim" /\ Tail(HxMake5) = HxMake6
  /\ Head(HxMake6) = "start" /\ Tail(HxMake6) = Done
  /\ Head(HxFree1) = "pixel_off" /\ Tail(HxFree1) = HxFree2
  /\ Head(HxFree2) = "command_off" /\ Tail(HxFree2) = HxFree3
  /\ Head(HxFree3) = "irq_off" /\ Tail(HxFree3) = Freeing
  /\ Head(Freeing) = "free" /\ Tail(Freeing) = Done
  /\ Head(HxReset1) = "pixel_off" /\ Tail(HxReset1) = HxReset2
  /\ Head(HxReset2) = "command_off" /\ Tail(HxReset2) = HxReset3
  /\ Head(HxReset3) = "irq_off" /\ Tail(HxReset3) = Sweeping
  /\ Head(Sweeping) = "sweep" /\ Tail(Sweeping) = Done
BY DEF HxMake1, HxMake2, HxMake3, HxMake4, HxMake5, HxMake6, HxFree1, HxFree2,
       HxFree3, Freeing, HxReset1, HxReset2, HxReset3, Sweeping, Done

LEMMA HxPathType == HxPath \subseteq Seq(Stage)
<1>1. /\ HxMake1 \in Seq(Stage) /\ HxMake2 \in Seq(Stage) /\ HxMake3 \in Seq(Stage)
      /\ HxMake4 \in Seq(Stage) /\ HxMake5 \in Seq(Stage) /\ HxMake6 \in Seq(Stage)
  BY DEF HxMake1, HxMake2, HxMake3, HxMake4, HxMake5, HxMake6, Stage
<1>2. /\ HxFree1 \in Seq(Stage) /\ HxFree2 \in Seq(Stage) /\ HxFree3 \in Seq(Stage)
      /\ Freeing \in Seq(Stage) /\ Done \in Seq(Stage)
  BY DEF HxFree1, HxFree2, HxFree3, Freeing, Done, Stage
<1>3. /\ HxReset1 \in Seq(Stage) /\ HxReset2 \in Seq(Stage)
      /\ HxReset3 \in Seq(Stage) /\ Sweeping \in Seq(Stage)
  BY DEF HxReset1, HxReset2, HxReset3, Sweeping, Stage
<1> QED
  BY <1>1, <1>2, <1>3 DEF HxPath, HxMaking, HxFreeing, HxResetting

LEMMA HxCallsBegin ==
  /\ host.live =>
       /\ Hstx!HwStop \o <<"malloc", "claim", "start">> = HxMake1
       /\ Hstx!HwStop \o <<"free">> = HxFree1
       /\ Hstx!HwStop \o <<"sweep">> = HxReset1
  /\ ~host.live =>
       /\ Hstx!HwStop \o <<"malloc", "claim", "start">> = HxMake4
       /\ Hstx!HwStop \o <<"free">> = Freeing
       /\ Hstx!HwStop \o <<"sweep">> = Sweeping
<1> DEFINE Stop == <<"pixel_off", "command_off", "irq_off">>
<1>1. /\ Stop \in Seq(Stage) /\ HxMake4 \in Seq(Stage) /\ Freeing \in Seq(Stage)
      /\ Sweeping \in Seq(Stage) /\ HxMake1 \in Seq(Stage)
      /\ HxFree1 \in Seq(Stage) /\ HxReset1 \in Seq(Stage)
  BY HxPathType DEF HxPath, HxMaking, HxFreeing, HxResetting, Stage
<1>2. Stop \o HxMake4 = HxMake1
  <2>1. /\ Len(HxMake1) = Len(Stop) + Len(HxMake4)
        /\ \A k \in 1 .. Len(Stop) : HxMake1[k] = Stop[k]
        /\ \A k \in 1 .. Len(HxMake4) : HxMake1[k + Len(Stop)] = HxMake4[k]
    BY DEF HxMake1, HxMake4
  <2> QED
    BY <1>1, <2>1, Joined
<1>3. Stop \o Freeing = HxFree1
  <2>1. /\ Len(HxFree1) = Len(Stop) + Len(Freeing)
        /\ \A k \in 1 .. Len(Stop) : HxFree1[k] = Stop[k]
        /\ \A k \in 1 .. Len(Freeing) : HxFree1[k + Len(Stop)] = Freeing[k]
    BY DEF HxFree1, Freeing
  <2> QED
    BY <1>1, <2>1, Joined
<1>4. Stop \o Sweeping = HxReset1
  <2>1. /\ Len(HxReset1) = Len(Stop) + Len(Sweeping)
        /\ \A k \in 1 .. Len(Stop) : HxReset1[k] = Stop[k]
        /\ \A k \in 1 .. Len(Sweeping) : HxReset1[k + Len(Stop)] = Sweeping[k]
    BY DEF HxReset1, Sweeping
  <2> QED
    BY <1>1, <2>1, Joined
<1>5. \A s \in Seq(Stage) : << >> \o s = s
  BY ConcatEmptySeq
<1>6. host.live => Hstx!HwStop = Stop
  BY DEF Hstx!HwStop
<1>7. ~host.live => Hstx!HwStop = << >>
  BY DEF Hstx!HwStop
<1> HIDE DEF Stop
<1> QED
  BY <1>1, <1>2, <1>3, <1>4, <1>5, <1>6, <1>7 DEF HxMake4, Freeing, Sweeping

\* A call whose steps are done has none of these left.
LEMMA HxDistinct ==
  /\ Done \notin {HxMake1, HxMake2, HxMake3, HxMake4, HxMake5, HxMake6, HxFree1,
                  HxFree2, HxFree3, Freeing, HxReset1, HxReset2, HxReset3, Sweeping}
  /\ HxMake5 \notin {HxMake1, HxMake2, HxMake3, HxMake4, HxMake6}
  /\ HxMake6 \notin {HxMake1, HxMake2, HxMake3, HxMake4, HxMake5}
<1>1. Done # HxMake1 /\ Done # HxMake2 /\ Done # HxMake3 /\ Done # HxMake4
      /\ Done # HxMake5 /\ Done # HxMake6
  BY DEF Done, HxMake1, HxMake2, HxMake3, HxMake4, HxMake5, HxMake6
<1>2. Done # HxFree1 /\ Done # HxFree2 /\ Done # HxFree3 /\ Done # Freeing
  BY DEF Done, HxFree1, HxFree2, HxFree3, Freeing
<1>3. Done # HxReset1 /\ Done # HxReset2 /\ Done # HxReset3 /\ Done # Sweeping
  BY DEF Done, HxReset1, HxReset2, HxReset3, Sweeping
<1> QED
  BY <1>1, <1>2, <1>3, HxPaths

LEMMA HxNotNull == ASSUME NEW c \in HxCalls PROVE c # None
<1>1. c \in [op : Op, self : Named, mode : Hstx!Modes \cup {None},
             block : Blocks \cup {None}, px : Channels \cup {None},
             cmd : Channels \cup {None}, steps : Seq(Stage)]
  BY HxPathType DEF HxCalls, HxOps, Op, Named
<1> QED
  BY <1>1, NullAssumption

LEMMA HxGoesOn ==
  ASSUME call \in HxCalls, Hstx!Continue
  PROVE  call' = [op |-> call.op, self |-> call.self, mode |-> call.mode,
                  block |-> call.block, px |-> call.px, cmd |-> call.cmd,
                  steps |-> Tail(call.steps)]
BY DEF HxCalls, Hstx!Continue

LEMMA HxInit == Hstx!Init => HxKept
<1> SUFFICES ASSUME Hstx!Init PROVE HxKept
  OBVIOUS
<1>1. /\ host = [live |-> FALSE, px |-> None, cmd |-> None, active |-> None]
      /\ objs = [o \in Objects |-> None] /\ call = None
      /\ \E others \in HstxClaimed :
           live = {<<k, c>> : k \in {"dma", "other"}, c \in others}
      /\ scan = [px |-> [en |-> FALSE, at |-> None, again |-> FALSE],
                 cmd |-> [en |-> FALSE, at |-> None, next |-> 1],
                 irq |-> FALSE, on |-> FALSE, from |-> None, mode |-> None,
                 list |-> Done]
  BY DEF Hstx!Init, Hstx!Off, Hstx!Px, Done
<1>2. scan \in HxScans
  BY <1>1 DEF HxScans, HxAt, HxLists
<1>3. HxTyped
  BY <1>1, <1>2 DEF HxTyped
<1>4. HxLedger({})
  BY <1>1 DEF HxLedger, Foreign
<1>5. HxHardware
  BY <1>1, <1>4 DEF HxHardware, AtRest, PxStopped, CmdStopped
<1>6. HxLive /\ HxCall /\ HxOwners
  BY <1>1 DEF HxLive, HxCall, HxOwners, Made
<1> QED
  BY <1>3, <1>5, <1>6 DEF HxKept

-----------------------------------------------------------------------------
(* What the channels do by themselves.                                     *)

\* A step of the hardware keeps what the calls rely on: it starts no channel
\* that was stopped, or knows it has been given work again.
LEMMA HxScanning ==
  ASSUME HxKept, UNCHANGED <<host, live, objs, call>>, scan' \in HxScans,
         scan'.from = scan.from, scan'.mode = scan.mode,
         PxStopped /\ (CmdStopped \/ ~PxClaimed) => PxStopped',
         CmdStopped => CmdStopped'
  PROVE  HxKept'
<1>2. HxLedger({host.px, host.cmd}) => HxLedger({host.px, host.cmd})'
  BY DEF HxLedger, Foreign
<1>3. HxLedger({host.cmd}) => HxLedger({host.cmd})'
  BY DEF HxLedger, Foreign
<1>4. HxLedger({}) => HxLedger({})'
  BY DEF HxLedger, Foreign
<1>5. HxLedger({call.px, call.cmd}) => HxLedger({call.px, call.cmd})'
  BY DEF HxLedger, Foreign
<1>6. AtRest => AtRest'
  BY <1>2, <1>4 DEF AtRest
<1>7. PxClaimed' <=> PxClaimed
  BY DEF PxClaimed
<1>8. HxHardware'
  BY <1>2, <1>3, <1>4, <1>5, <1>6, <1>7 DEF HxKept, HxHardware
<1>9. HxLive' /\ HxCall' /\ HxOwners' /\ HxTyped'
  BY DEF HxKept, HxLive, HxCall, HxOwners, HxTyped, NewBlock, Made, Released
<1> QED
  BY <1>8, <1>9 DEF HxKept

LEMMA HxScanType ==
  ASSUME HxKept
  PROVE  /\ scan = [px |-> scan.px, cmd |-> scan.cmd, irq |-> scan.irq,
                    on |-> scan.on, from |-> scan.from, mode |-> scan.mode,
                    list |-> scan.list]
         /\ scan.px = [en |-> scan.px.en, at |-> scan.px.at,
                       again |-> scan.px.again]
         /\ scan.px.again \in BOOLEAN
         /\ scan.cmd = [en |-> scan.cmd.en, at |-> scan.cmd.at,
                        next |-> scan.cmd.next]
         /\ scan.px.en \in BOOLEAN /\ scan.px.at \in HxAt
         /\ scan.cmd.en \in BOOLEAN /\ scan.cmd.at \in HxAt
         /\ scan.cmd.next \in Nat /\ scan.irq \in BOOLEAN /\ scan.on \in BOOLEAN
         /\ scan.from \in Blocks \cup {None}
         /\ scan.mode \in Hstx!Modes \cup {None}
         /\ scan.list \in HxLists
BY DEF HxKept, HxTyped, HxScans

LEMMA HxLoad == ASSUME HxKept, Hstx!Load PROVE HxKept'
<1> DEFINE command == scan.list[scan.cmd.at]
           null == command.what = "null"
           en == scan.px.en \/ Hstx!Scaling(scan.mode) > 1
           at == IF en /\ ~null THEN scan.cmd.at ELSE None
           again == <<"dma", host.px>> \notin live
<1>1. /\ scan.cmd.at # None /\ UNCHANGED <<host, live, objs, call>>
      /\ scan' = [scan EXCEPT !.px = [en |-> en, at |-> at, again |-> again],
                              !.irq = @ \/ null,
                              !.cmd.at = None, !.cmd.next = scan.cmd.at + 1]
  BY DEF Hstx!Load
<1>2. /\ en \in BOOLEAN /\ null \in BOOLEAN /\ (scan.irq \/ null) \in BOOLEAN
      /\ at \in HxAt /\ again \in BOOLEAN /\ (again <=> ~PxClaimed)
  BY HxScanType DEF HxAt, PxClaimed
<1> HIDE DEF null, en, at, again
<1>3. scan' = [px |-> [en |-> en, at |-> at, again |-> again],
               cmd |-> [en |-> scan.cmd.en, at |-> None,
                        next |-> scan.cmd.at + 1],
               irq |-> scan.irq \/ null, on |-> scan.on, from |-> scan.from,
               mode |-> scan.mode, list |-> scan.list]
  BY <1>1 DEF HxKept, HxTyped, HxScans
<1>4. scan.cmd.at + 1 \in Nat /\ None \in HxAt
  BY <1>1, HxScanType DEF HxAt
<1>5. scan' \in HxScans
  BY <1>2, <1>3, <1>4, HxScanType DEF HxScans
<1>6. ~CmdStopped
  BY <1>1 DEF CmdStopped
<1>7. ~PxClaimed => PxStopped'
  <2>1. scan'.px.again = again
    BY <1>3
  <2> QED
    BY <1>2, <2>1, Zenon DEF PxStopped
<1>8. scan'.from = scan.from /\ scan'.mode = scan.mode
  BY <1>3
<1> QED
  BY <1>1, <1>5, <1>6, <1>7, <1>8, HxScanning

LEMMA HxChain == ASSUME HxKept, Hstx!Chain PROVE HxKept'
<1> DEFINE at == IF scan.cmd.en THEN scan.cmd.next ELSE scan.cmd.at
<1>1. /\ scan.px.at # None /\ UNCHANGED <<host, live, objs, call>>
      /\ scan' = [scan EXCEPT !.px.at = None, !.px.again = FALSE, !.cmd.at = at]
  BY DEF Hstx!Chain
<1>2. at \in HxAt
  BY HxScanType DEF HxAt
<1>3. CmdStopped => ~scan.cmd.en /\ at = None
  BY DEF CmdStopped
<1> HIDE DEF at
<1>4. scan' = [px |-> [en |-> scan.px.en, at |-> None, again |-> FALSE],
               cmd |-> [en |-> scan.cmd.en, at |-> at, next |-> scan.cmd.next],
               irq |-> scan.irq, on |-> scan.on, from |-> scan.from,
               mode |-> scan.mode, list |-> scan.list]
  BY <1>1 DEF HxKept, HxTyped, HxScans
<1>5. None \in HxAt
  BY DEF HxAt
<1>6. scan' \in HxScans
  BY <1>2, <1>4, <1>5, HxScanType DEF HxScans
<1>7. CmdStopped => CmdStopped'
  BY <1>3, <1>4 DEF CmdStopped
<1>8. scan'.from = scan.from /\ scan'.mode = scan.mode /\ PxStopped'
  BY <1>4 DEF PxStopped
<1> QED
  BY <1>1, <1>6, <1>7, <1>8, HxScanning

LEMMA HxDmaIrq == ASSUME HxKept, Hstx!DmaIrq PROVE HxKept'
<1> DEFINE at == IF scan.cmd.en THEN 1 ELSE scan.cmd.at
<1>1. /\ UNCHANGED <<host, live, objs, call>>
      /\ scan' = [scan EXCEPT !.irq = FALSE, !.cmd.at = at]
  BY DEF Hstx!DmaIrq, Hstx!Restarted
<1>2. at \in HxAt
  BY HxScanType DEF HxAt
<1>3. CmdStopped => ~scan.cmd.en /\ at = None
  BY DEF CmdStopped
<1> HIDE DEF at
<1>4. scan' = [px |-> scan.px,
               cmd |-> [en |-> scan.cmd.en, at |-> at, next |-> scan.cmd.next],
               irq |-> FALSE, on |-> scan.on, from |-> scan.from,
               mode |-> scan.mode, list |-> scan.list]
  BY <1>1 DEF HxKept, HxTyped, HxScans
<1>5. scan' \in HxScans
  BY <1>2, <1>4, HxScanType DEF HxScans
<1>6. scan'.px = scan.px
  BY <1>4
<1>7. PxStopped => PxStopped'
  BY <1>6 DEF PxStopped
<1>8. CmdStopped => CmdStopped'
  BY <1>3, <1>4 DEF CmdStopped
<1>9. scan'.from = scan.from /\ scan'.mode = scan.mode
  BY <1>4
<1> QED
  BY <1>1, <1>5, <1>7, <1>8, <1>9, HxScanning

-----------------------------------------------------------------------------
(* The calls.                                                              *)

LEMMA HxBegin ==
  ASSUME HxKept, call = None, UNCHANGED <<host, live, objs, scan>>,
         NEW op \in HxOps, NEW self \in Objects \cup {None},
         NEW mode \in Hstx!Modes \cup {None}, NEW steps,
         Hstx!Begin(op, self, mode, steps),
         op = "construct" => /\ self \in Objects /\ ~Made(self) /\ mode # None
                             /\ steps = IF host.live THEN HxMake1 ELSE HxMake4,
         op = "deinit" => /\ self \in Objects /\ Made(self)
                          /\ steps = IF host.live THEN HxFree1 ELSE Freeing,
         op = "soft_reset" => steps = IF host.live THEN HxReset1 ELSE Sweeping
  PROVE  HxKept'
<1>1. call' = [op |-> op, self |-> self, mode |-> mode, block |-> None,
               px |-> None, cmd |-> None, steps |-> steps]
  BY DEF Hstx!Begin
<1>2. \/ host.live /\ steps \in {HxMake1, HxFree1, HxReset1}
      \/ ~host.live /\ steps \in {HxMake4, Freeing, Sweeping}
  BY DEF HxOps
<1>3. call' \in HxCalls
  BY <1>1, <1>2 DEF HxCalls, HxPath, HxMaking, HxFreeing, HxResetting
<1>4. call' # None
  BY <1>3, HxNotNull
<1>5. AtRest
  BY DEF HxKept, HxHardware
<1>6. HxHardware'
  <2>1. CASE host.live
    <3>1. HxLedger({host.px, host.cmd})'
      BY <1>5, <2>1 DEF AtRest, HxLedger, Foreign
    <3> QED
      BY <1>1, <1>2, <1>4, <2>1, <3>1 DEF HxHardware
  <2>2. CASE ~host.live
    <3>1. HxLedger({})' /\ PxStopped' /\ CmdStopped'
      BY <1>5, <2>2 DEF AtRest, HxLedger, Foreign, PxStopped, CmdStopped
    <3> QED
      BY <1>1, <1>2, <1>4, <2>2, <3>1 DEF HxHardware
  <2> QED
    BY <2>1, <2>2
<1>7. HxCall'
  <2>1. op = "construct" => steps \in HxMaking /\ steps \notin {HxMake5, HxMake6, Done}
    BY HxDistinct DEF HxMaking
  <2>2. op = "deinit" => steps \in HxFreeing
    BY DEF HxFreeing
  <2>3. op = "soft_reset" => steps \in HxResetting
    BY DEF HxResetting
  <2>4. call'.op = op /\ call'.self = self /\ call'.mode = mode /\ call'.steps = steps
    BY <1>1
  <2> QED
    BY <2>1, <2>2, <2>3, <2>4 DEF HxCall, Made
<1>8. steps # Done
  BY <1>2, HxDistinct
<1>9. HxOwners'
  BY <1>1, <1>8 DEF HxKept, HxOwners, NewBlock, Made, Released
<1> QED
  BY <1>3, <1>6, <1>7, <1>9 DEF HxKept, HxTyped, HxLive

\* Where a call is when it is at a step.
LEMMA HxStepAt ==
  ASSUME HxKept, NEW s, Hstx!Step(s)
  PROVE  /\ call # None /\ call \in HxCalls /\ call.steps # Done
         /\ s = "pixel_off" => call.steps \in {HxMake1, HxFree1, HxReset1}
         /\ s = "command_off" => call.steps \in {HxMake2, HxFree2, HxReset2}
         /\ s = "irq_off" => call.steps \in {HxMake3, HxFree3, HxReset3}
         /\ s = "malloc" => call.op = "construct" /\ call.steps = HxMake4
         /\ s = "claim" => call.op = "construct" /\ call.steps = HxMake5
         /\ s = "start" => call.op = "construct" /\ call.steps = HxMake6
         /\ s = "free" => call.op = "deinit" /\ call.steps = Freeing
         /\ s = "sweep" => call.op = "soft_reset" /\ call.steps = Sweeping
<1>1. /\ call # None /\ call \in HxCalls /\ call.steps # Done
      /\ Head(call.steps) = s
  BY DEF Hstx!Step, HxKept, HxTyped, Done
<1>2. call.op \in HxOps
  BY <1>1 DEF HxCalls
<1>3. \/ /\ call.op = "construct"
         /\ call.steps \in {HxMake1, HxMake2, HxMake3, HxMake4, HxMake5, HxMake6}
      \/ /\ call.op = "deinit"
         /\ call.steps \in {HxFree1, HxFree2, HxFree3, Freeing}
      \/ /\ call.op = "soft_reset"
         /\ call.steps \in {HxReset1, HxReset2, HxReset3, Sweeping}
  BY <1>1, <1>2 DEF HxKept, HxCall, HxOps, HxMaking, HxFreeing, HxResetting
<1> QED
  BY <1>1, <1>3, HxPaths

\* The steps of a call that stop the hardware.
LEMMA HxStops ==
  ASSUME HxKept, call # None, call \in HxCalls, Hstx!Continue, UNCHANGED objs,
         \/ call.steps \in {HxMake1, HxFree1, HxReset1}
         \/ call.steps \in {HxMake2, HxFree2, HxReset2}
         \/ call.steps \in {HxMake3, HxFree3, HxReset3},
         \A b : <<"block", b>> \in live <=> <<"block", b>> \in live'
  PROVE  /\ call' \in HxCalls /\ call' # None /\ call'.steps = Tail(call.steps)
         /\ call.steps \in {HxMake1, HxFree1, HxReset1} =>
              Tail(call.steps) \in {HxMake2, HxFree2, HxReset2}
         /\ call.steps \in {HxMake2, HxFree2, HxReset2} =>
              Tail(call.steps) \in {HxMake3, HxFree3, HxReset3}
         /\ call.steps \in {HxMake3, HxFree3, HxReset3} =>
              Tail(call.steps) \in {HxMake4, Freeing, Sweeping}
         /\ HxCall' /\ HxOwners'
<1>1. call' = [op |-> call.op, self |-> call.self, mode |-> call.mode,
               block |-> call.block, px |-> call.px, cmd |-> call.cmd,
               steps |-> Tail(call.steps)]
  BY HxGoesOn
<1>2. /\ call.steps \in {HxMake1, HxFree1, HxReset1} =>
           Tail(call.steps) \in {HxMake2, HxFree2, HxReset2}
      /\ call.steps \in {HxMake2, HxFree2, HxReset2} =>
           Tail(call.steps) \in {HxMake3, HxFree3, HxReset3}
      /\ call.steps \in {HxMake3, HxFree3, HxReset3} =>
           Tail(call.steps) \in {HxMake4, Freeing, Sweeping}
  BY HxPaths
<1>3. call.op \in HxOps
  BY DEF HxCalls
<1>4. /\ call.op = "construct" => call.steps \in {HxMake1, HxMake2, HxMake3}
      /\ call.op = "deinit" => call.steps \in {HxFree1, HxFree2, HxFree3}
      /\ call.op = "soft_reset" => call.steps \in {HxReset1, HxReset2, HxReset3}
  <2>1. Head(call.steps) \in {"pixel_off", "command_off", "irq_off"}
    <3>1. CASE call.steps \in {HxMake1, HxFree1, HxReset1}
      <4>1. /\ Head(HxMake1) = "pixel_off" /\ Head(HxFree1) = "pixel_off"
            /\ Head(HxReset1) = "pixel_off"
        BY HxPaths
      <4> QED
        BY <3>1, <4>1
    <3>2. CASE call.steps \in {HxMake2, HxFree2, HxReset2}
      <4>1. /\ Head(HxMake2) = "command_off" /\ Head(HxFree2) = "command_off"
            /\ Head(HxReset2) = "command_off"
        BY HxPaths
      <4> QED
        BY <3>2, <4>1
    <3>3. CASE call.steps \in {HxMake3, HxFree3, HxReset3}
      <4>1. /\ Head(HxMake3) = "irq_off" /\ Head(HxFree3) = "irq_off"
            /\ Head(HxReset3) = "irq_off"
        BY HxPaths
      <4> QED
        BY <3>3, <4>1
    <3> QED
      BY <3>1, <3>2, <3>3
  <2>2. call.steps # Done
    BY HxDistinct
  <2>3. call.op = "construct" => call.steps \in {HxMake1, HxMake2, HxMake3}
    BY <2>1, <2>2, HxPaths DEF HxKept, HxCall, HxMaking
  <2>4. call.op = "deinit" => call.steps \in {HxFree1, HxFree2, HxFree3}
    BY <2>1, <2>2, HxPaths DEF HxKept, HxCall, HxFreeing
  <2>5. call.op = "soft_reset" => call.steps \in {HxReset1, HxReset2, HxReset3}
    BY <2>1, <2>2, HxPaths DEF HxKept, HxCall, HxResetting
  <2> QED
    BY <2>3, <2>4, <2>5
<1>5. /\ call.op = "construct" => Tail(call.steps) \in {HxMake2, HxMake3, HxMake4}
      /\ call.op = "deinit" => Tail(call.steps) \in {HxFree2, HxFree3, Freeing}
      /\ call.op = "soft_reset" => Tail(call.steps) \in {HxReset2, HxReset3, Sweeping}
  BY <1>4, HxPaths
<1>6. Tail(call.steps) \in HxPath
  BY <1>3, <1>5 DEF HxOps, HxPath, HxMaking, HxFreeing, HxResetting
<1>7. call' \in HxCalls
  BY <1>1, <1>6 DEF HxCalls
<1>8. call.steps # Done /\ Tail(call.steps) # Done
  BY <1>2, HxDistinct
<1>9. HxCall'
  <2>1. call.op = "construct" => /\ Tail(call.steps) \in HxMaking
                                 /\ Tail(call.steps) \notin {HxMake5, HxMake6, Done}
    BY <1>5, <1>8, HxDistinct DEF HxMaking
  <2>2. /\ call.op = "deinit" => Tail(call.steps) \in HxFreeing
        /\ call.op = "soft_reset" => Tail(call.steps) \in HxResetting
    BY <1>5 DEF HxFreeing, HxResetting
  <2>3. /\ call'.op = call.op /\ call'.self = call.self /\ call'.mode = call.mode
        /\ call'.steps = Tail(call.steps)
    BY <1>1
  <2> QED
    BY <2>1, <2>2, <2>3 DEF HxKept, HxCall, Made
<1>10. HxOwners'
  <2>1. \A o \in Objects : ~Released(o) /\ ~Released(o)'
    BY <1>1, <1>8 DEF Released
  <2>2. call.op = "construct" => call.steps \notin {HxMake5, HxMake6, Done}
    BY <1>4, HxDistinct
  <2>3. \A b : ~NewBlock(b)
    BY <2>2 DEF NewBlock
  <2> QED
    BY <2>1, <2>3 DEF HxKept, HxOwners, Made
<1> QED
  BY <1>1, <1>2, <1>7, <1>9, <1>10, HxNotNull

LEMMA HxHardwareAt ==
  ASSUME HxKept, NEW s, Hstx!Step(s)
  PROVE  /\ s = "pixel_off" => host.live /\ HxLedger({host.px, host.cmd})
         /\ s = "command_off" => host.live /\ PxStopped /\ HxLedger({host.cmd})
         /\ s = "irq_off" =>
              host.live /\ PxStopped /\ CmdStopped /\ HxLedger({})
         /\ s \in {"malloc", "claim", "start", "free", "sweep"} =>
              ~host.live /\ PxStopped /\ CmdStopped
         /\ s \in {"malloc", "claim", "free", "sweep"} => HxLedger({})
         /\ s = "start" => HxLedger({call.px, call.cmd})
<1>1. call # None /\ call.steps # Done /\ Head(call.steps) = s
  BY DEF Hstx!Step, Done
<1>2. \/ /\ call.steps \in {HxMake1, HxFree1, HxReset1}
         /\ host.live /\ HxLedger({host.px, host.cmd})
      \/ /\ call.steps \in {HxMake2, HxFree2, HxReset2}
         /\ host.live /\ PxStopped /\ HxLedger({host.cmd})
      \/ /\ call.steps \in {HxMake3, HxFree3, HxReset3}
         /\ host.live /\ PxStopped /\ CmdStopped /\ HxLedger({})
      \/ /\ call.steps \in {HxMake4, HxMake5, Freeing, Sweeping}
         /\ ~host.live /\ PxStopped /\ CmdStopped /\ HxLedger({})
      \/ /\ call.steps = HxMake6
         /\ ~host.live /\ PxStopped /\ CmdStopped
         /\ HxLedger({call.px, call.cmd})
  BY <1>1 DEF HxKept, HxHardware
<1> QED
  BY <1>1, <1>2, HxPaths

LEMMA HxPixelOff == ASSUME HxKept, Hstx!PixelOff PROVE HxKept'
<1>1. /\ Hstx!Step("pixel_off") /\ Hstx!Continue /\ UNCHANGED <<host, objs>>
      /\ scan' = [scan EXCEPT !.px = [en |-> FALSE, at |-> None, again |-> FALSE]]
      /\ live' = live \ {<<"dma", host.px>>}
  BY DEF Hstx!PixelOff, Hstx!Px
<1>2. /\ call # None /\ call \in HxCalls
      /\ call.steps \in {HxMake1, HxFree1, HxReset1}
      /\ host.live /\ HxLedger({host.px, host.cmd})
  BY <1>1, HxStepAt, HxHardwareAt
<1>3. /\ call' \in HxCalls /\ call' # None
      /\ call'.steps \in {HxMake2, HxFree2, HxReset2}
      /\ HxCall' /\ HxOwners'
  BY <1>1, <1>2, HxStops
<1>4. scan' = [px |-> [en |-> FALSE, at |-> None, again |-> FALSE],
               cmd |-> scan.cmd, irq |-> scan.irq, on |-> scan.on,
               from |-> scan.from, mode |-> scan.mode, list |-> scan.list]
  BY <1>1 DEF HxKept, HxTyped, HxScans
<1>5. scan' \in HxScans
  BY <1>4, HxScanType DEF HxScans, HxAt
<1>6. PxStopped' /\ ~PxClaimed'
  BY <1>1, <1>4 DEF PxStopped, PxClaimed
<1>7. host.px # host.cmd /\ <<"block", scan.from>> \in live /\ scan.mode # None
  BY <1>2 DEF HxKept, HxLive
<1>8. HxLive'
  BY <1>1, <1>2, <1>4, <1>7 DEF HxLive
<1>9. HxLedger({host.cmd})'
  BY <1>1, <1>2, <1>7 DEF HxLedger, Foreign
<1>10. HxHardware'
  BY <1>1, <1>2, <1>3, <1>6, <1>9 DEF HxHardware
<1> QED
  BY <1>1, <1>3, <1>5, <1>8, <1>10 DEF HxKept, HxTyped

LEMMA HxCommandOff == ASSUME HxKept, Hstx!CommandOff PROVE HxKept'
<1>1. /\ Hstx!Step("command_off") /\ Hstx!Continue /\ UNCHANGED <<host, objs>>
      /\ scan' = [scan EXCEPT !.cmd.en = FALSE, !.cmd.at = None]
      /\ live' = live \ {<<"dma", host.cmd>>}
  BY DEF Hstx!CommandOff
<1>2. /\ call # None /\ call \in HxCalls
      /\ call.steps \in {HxMake2, HxFree2, HxReset2}
      /\ host.live /\ PxStopped /\ HxLedger({host.cmd})
  BY <1>1, HxStepAt, HxHardwareAt
<1>3. /\ call' \in HxCalls /\ call' # None
      /\ call'.steps \in {HxMake3, HxFree3, HxReset3}
      /\ HxCall' /\ HxOwners'
  BY <1>1, <1>2, HxStops
<1>4. scan' = [px |-> scan.px,
               cmd |-> [en |-> FALSE, at |-> None, next |-> scan.cmd.next],
               irq |-> scan.irq, on |-> scan.on, from |-> scan.from,
               mode |-> scan.mode, list |-> scan.list]
  BY <1>1 DEF HxKept, HxTyped, HxScans
<1>5. scan' \in HxScans
  BY <1>4, HxScanType DEF HxScans, HxAt
<1>6. CmdStopped'
  BY <1>4 DEF CmdStopped
<1>7. PxStopped'
  <2>1. scan'.px = scan.px
    BY <1>4
  <2> QED
    BY <1>2, <2>1 DEF PxStopped
<1>8. <<"block", scan.from>> \in live /\ scan.mode # None /\ host.px # host.cmd
  BY <1>2 DEF HxKept, HxLive
<1>9. HxLive'
  BY <1>1, <1>2, <1>4, <1>8 DEF HxLive
<1>10. HxLedger({})'
  BY <1>1, <1>2 DEF HxLedger, Foreign
<1>11. HxHardware'
  BY <1>1, <1>2, <1>3, <1>6, <1>7, <1>10 DEF HxHardware
<1> QED
  BY <1>1, <1>3, <1>5, <1>9, <1>11 DEF HxKept, HxTyped

\* What goes on after the interrupt is off has been given work again.
LEMMA HxIrqOff == ASSUME HxKept, Hstx!IrqOff PROVE HxKept'
<1>1. /\ Hstx!Step("irq_off") /\ Hstx!Continue /\ UNCHANGED <<live, objs>>
      /\ scan' = IF scan.px.at = None THEN Hstx!Off ELSE [scan EXCEPT !.on = FALSE]
      /\ host' = [host EXCEPT !.active = None, !.live = FALSE]
  BY DEF Hstx!IrqOff, Hstx!Stopped
<1>2. /\ call # None /\ call \in HxCalls
      /\ call.steps \in {HxMake3, HxFree3, HxReset3}
      /\ host.live /\ PxStopped /\ CmdStopped /\ HxLedger({})
  BY <1>1, HxStepAt, HxHardwareAt
<1>3. /\ call' \in HxCalls /\ call' # None
      /\ call'.steps \in {HxMake4, Freeing, Sweeping}
      /\ HxCall' /\ HxOwners'
  BY <1>1, <1>2, HxStops
<1>4. /\ host' = [live |-> FALSE, px |-> host.px, cmd |-> host.cmd, active |-> None]
      /\ host.px \in Channels \cup {None} /\ host.cmd \in Channels \cup {None}
  BY <1>1 DEF HxKept, HxTyped
<1>5. scan' \in HxScans /\ PxStopped' /\ CmdStopped'
  <2>1. CASE scan.px.at = None
    <3>1. scan' = [px |-> [en |-> FALSE, at |-> None, again |-> FALSE],
                   cmd |-> [en |-> FALSE, at |-> None, next |-> 1],
                   irq |-> FALSE, on |-> FALSE, from |-> None, mode |-> None,
                   list |-> Done]
      BY <1>1, <2>1 DEF Hstx!Off, Hstx!Px, Done
    <3> QED
      BY <3>1 DEF HxScans, HxAt, HxLists, PxStopped, CmdStopped
  <2>2. CASE scan.px.at # None
    <3>1. scan' = [px |-> scan.px, cmd |-> scan.cmd, irq |-> scan.irq,
                   on |-> FALSE, from |-> scan.from, mode |-> scan.mode,
                   list |-> scan.list]
      BY <1>1, <2>2 DEF HxKept, HxTyped, HxScans
    <3>2. scan'.px = scan.px /\ scan'.cmd = scan.cmd
      BY <3>1
    <3>3. scan' \in HxScans
      BY <3>1, HxScanType DEF HxScans
    <3> QED
      BY <1>2, <3>2, <3>3 DEF PxStopped, CmdStopped
  <2> QED
    BY <2>1, <2>2
<1>6. HxLedger({})'
  BY <1>1, <1>2 DEF HxLedger, Foreign
<1>7. HxHardware' /\ HxLive'
  BY <1>3, <1>4, <1>5, <1>6 DEF HxHardware, HxLive
<1>8. HxTyped'
  BY <1>1, <1>3, <1>4, <1>5 DEF HxKept, HxTyped
<1> QED
  BY <1>3, <1>7, <1>8 DEF HxKept

\* A call is over with the hardware stopped and every block an object's.
LEMMA HxIdle ==
  ASSUME HxKept, UNCHANGED <<host, objs, scan>>, call' = None,
         ~host.live, PxStopped, CmdStopped, HxLedger({})',
         \A o \in Objects : Made(o) => <<"block", objs[o]>> \in live',
         \A b \in Blocks : <<"block", b>> \in live' => \E o \in Objects : objs[o] = b
  PROVE  HxKept'
<1>1. HxHardware'
  BY DEF HxHardware, AtRest, PxStopped, CmdStopped
<1>2. \A o \in Objects : ~Released(o)'
  BY DEF Released
<1>3. HxOwners'
  BY <1>2 DEF HxKept, HxOwners, Made
<1>4. HxLive' /\ HxCall' /\ HxTyped'
  BY DEF HxKept, HxLive, HxCall, HxTyped
<1> QED
  BY <1>1, <1>3, <1>4 DEF HxKept

LEMMA HxMalloc == ASSUME HxKept, Hstx!Malloc PROVE HxKept'
<1>1. /\ Hstx!Step("malloc") /\ UNCHANGED <<host, objs, scan>>
  BY DEF Hstx!Malloc
<1>2. /\ call # None /\ call \in HxCalls
      /\ call.op = "construct" /\ call.steps = HxMake4 /\ call.steps # Done
      /\ ~host.live /\ PxStopped /\ CmdStopped /\ HxLedger({})
  BY <1>1, HxStepAt, HxHardwareAt
<1>3. call.self \in Objects /\ ~Made(call.self) /\ call.mode # None
  BY <1>2 DEF HxKept, HxCall
<1>4. /\ \A o \in Objects : Made(o) => <<"block", objs[o]>> \in live
      /\ \A b \in Blocks : <<"block", b>> \in live => \E o \in Objects : objs[o] = b
  BY <1>2, HxDistinct DEF HxKept, HxOwners, NewBlock, Released
<1>5. ASSUME NEW b \in Blocks, <<"block", b>> \notin live,
             live' = live \cup {<<"block", b>>},
             call' = [call EXCEPT !.steps = Tail(@), !.block = b]
      PROVE  HxKept'
  <2>1. call' = [op |-> "construct", self |-> call.self, mode |-> call.mode,
                 block |-> b, px |-> call.px, cmd |-> call.cmd,
                 steps |-> HxMake5]
    BY <1>2, <1>5, HxPaths DEF HxCalls
  <2>2. call' \in HxCalls
    BY <1>2, <2>1 DEF HxCalls, HxOps, HxPath, HxMaking
  <2>3. HxHardware' /\ HxLive'
    <3>1. HxLedger({})' /\ PxStopped' /\ CmdStopped'
      BY <1>1, <1>2, <1>5 DEF HxLedger, Foreign, PxStopped, CmdStopped
    <3>2. call'.steps = HxMake5 /\ call' # None
      BY <2>1, <2>2, HxNotNull
    <3> QED
      BY <1>1, <1>2, <3>1, <3>2 DEF HxHardware, HxLive
  <2>4. HxCall'
    <3>1. \A o \in Objects : Made(o) => objs[o] # b
      BY <1>4, <1>5
    <3>2. HxMake5 \in HxMaking /\ HxMake5 # HxMake6
      BY HxDistinct DEF HxMaking
    <3>3. /\ call'.op = "construct" /\ call'.self = call.self
          /\ call'.mode = call.mode /\ call'.block = b /\ call'.steps = HxMake5
      BY <2>1
    <3>4. <<"block", b>> \in live'
      BY <1>5
    <3>5. \A o \in Objects : Made(o)' => objs'[o] # call'.block
      BY <1>1, <3>1, <3>3 DEF Made
    <3>6. ~Made(call.self)'
      BY <1>1, <1>3, <3>3 DEF Made
    <3> QED
      BY <1>3, <3>2, <3>3, <3>4, <3>5, <3>6 DEF HxCall
  <2>5. HxOwners'
    <3>1. call'.steps = HxMake5 /\ call' # None /\ call'.block = b
          /\ call'.op = "construct"
      BY <2>1, <2>2, HxNotNull
    <3>2. \A o \in Objects : ~Released(o)'
      BY <3>1 DEF Released
    <3>3. ASSUME NEW a \in Blocks, <<"block", a>> \in live'
          PROVE  NewBlock(a)' \/ \E o \in Objects : objs'[o] = a /\ ~Released(o)'
      <4>1. CASE a = b
        BY <3>1, <4>1 DEF NewBlock
      <4>2. CASE a # b
        BY <1>1, <1>4, <1>5, <3>2, <3>3, <4>2
      <4> QED
        BY <4>1, <4>2
    <3> QED
      BY <1>1, <1>4, <1>5, <3>3 DEF HxKept, HxOwners, Made
  <2> QED
    BY <1>1, <2>2, <2>3, <2>4, <2>5 DEF HxKept, HxTyped
<1>6. CASE call' = None /\ UNCHANGED live
  <2>1. HxLedger({})'
    BY <1>2, <1>6 DEF HxLedger, Foreign
  <2> QED
    BY <1>1, <1>2, <1>4, <1>6, <2>1, HxIdle
<1> QED
  BY <1>5, <1>6 DEF Hstx!Malloc

LEMMA SameCardinality == \A C : Hstx!Cardinality(C) = Cardinality(C)
BY DEF Hstx!Cardinality, Cardinality, Hstx!IsFiniteSet, IsFiniteSet

\* dma_claim_unused_channel() has a lowest free channel to claim.
LEMMA LowestOf ==
  ASSUME NEW C, C \subseteq Nat, C # {}
  PROVE  (CHOOSE c \in C : \A d \in C : c <= d) \in C
<1>1. PICK c \in C : \A d \in C : <<d, c>> \notin OpToRel(<, Nat)
  BY NatLessThanWellFounded, WFMin
<1>2. \A d \in C : ~(d < c)
  BY <1>1 DEF OpToRel
<1>3. \A d \in C : c <= d
  BY <1>2
<1> QED
  BY <1>3

LEMMA LowestTwo ==
  ASSUME NEW C, C \subseteq Channels, Cardinality(C) >= 2, NEW p \in C
  PROVE  C # {} /\ C \ {p} # {}
<1>1. IsFiniteSet(C)
  BY NamesAssumption, FS_Subset
<1>2. Cardinality({}) = 0 /\ Cardinality({p}) = 1
  BY FS_EmptySet, FS_Singleton
<1> QED
  BY <1>2

LEMMA HxClaim == ASSUME HxKept, Hstx!Claim PROVE HxKept'
<1> DEFINE Free == {c \in Channels : <<"dma", c>> \notin live}
           p == CHOOSE c \in Free : \A d \in Free : c <= d
           c == CHOOSE k \in Free \ {p} : \A d \in Free \ {p} : k <= d
<1>1. /\ Hstx!Step("claim") /\ UNCHANGED <<host, objs, scan>>
      /\ IF Hstx!Cardinality(Free) >= 2
           THEN /\ live' = live \cup {<<"dma", p>>, <<"dma", c>>}
                /\ call' = [call EXCEPT !.steps = Tail(@), !.px = p, !.cmd = c]
           ELSE /\ live' = (live \cup ({"dma", "lost"} \X Free))
                             \ {<<"block", call.block>>}
                /\ call' = None
  BY Zenon DEF Hstx!Claim
<1>2. /\ call # None /\ call \in HxCalls
      /\ call.op = "construct" /\ call.steps = HxMake5
      /\ ~host.live /\ PxStopped /\ CmdStopped /\ HxLedger({})
  BY <1>1, HxStepAt, HxHardwareAt
<1>3. /\ call.self \in Objects /\ ~Made(call.self) /\ call.mode # None
      /\ <<"block", call.block>> \in live
      /\ \A o \in Objects : Made(o) => objs[o] # call.block
  BY <1>2 DEF HxKept, HxCall
<1>4. /\ \A o \in Objects : Made(o) => <<"block", objs[o]>> \in live
      /\ \A b \in Blocks : <<"block", b>> \in live =>
           b = call.block \/ \E o \in Objects : objs[o] = b
  BY <1>2, HxDistinct DEF HxKept, HxOwners, NewBlock, Released
<1>5. Free \subseteq Channels /\ \A d \in Free : <<"dma", d>> \notin live
  OBVIOUS
<1> HIDE DEF Free
<1>6. ASSUME NEW a \in Free, NEW e \in Free \ {a},
             live' = live \cup {<<"dma", a>>, <<"dma", e>>},
             call' = [call EXCEPT !.steps = Tail(@), !.px = a, !.cmd = e]
      PROVE  HxKept'
  <2>6. a \in Channels /\ e \in Channels /\ a # e
    BY <1>5
  <2>7. call' = [op |-> "construct", self |-> call.self, mode |-> call.mode,
                 block |-> call.block, px |-> a, cmd |-> e, steps |-> HxMake6]
    BY <1>2, <1>6, HxPaths DEF HxCalls
  <2>8. call' \in HxCalls
    BY <1>2, <2>6, <2>7 DEF HxCalls, HxOps, HxPath, HxMaking
  <2>9. HxHardware' /\ HxLive'
    <3>1. call' # None /\ call'.steps = HxMake6 /\ call'.px = a /\ call'.cmd = e
      BY <2>7, <2>8, HxNotNull
    <3>2. /\ \A k, d : k # "dma" => (<<k, d>> \in live' <=> <<k, d>> \in live)
          /\ \A d : <<"dma", d>> \in live' <=> <<"dma", d>> \in live \/ d \in {a, e}
      BY <1>6
    <3>3. ~Foreign(a) /\ ~Foreign(e)
      BY <1>2, <1>5, <2>6 DEF HxLedger
    <3>4. HxLedger({a, e})'
      <4>1. \A d : Foreign(d)' <=> Foreign(d)
        BY <3>2 DEF Foreign
      <4>2. \A d \in Channels : <<"dma", d>> \in live <=> Foreign(d)
        BY <1>2 DEF HxLedger
      <4>3. \A d \in Channels :
              <<"dma", d>> \in live' <=> d \in {a, e} \/ Foreign(d)'
        BY <3>2, <4>1, <4>2
      <4> QED
        BY <2>6, <3>3, <4>1, <4>3 DEF HxLedger
    <3>5. PxStopped' /\ CmdStopped'
      BY <1>1, <1>2 DEF PxStopped, CmdStopped
    <3> QED
      BY <1>1, <1>2, <3>1, <3>4, <3>5 DEF HxHardware, HxLive
  <2>10. HxCall'
    <3>1. /\ call'.op = "construct" /\ call'.self = call.self
          /\ call'.mode = call.mode /\ call'.block = call.block
          /\ call'.px = a /\ call'.cmd = e /\ call'.steps = HxMake6
      BY <2>7
    <3>2. <<"block", call'.block>> \in live' /\ ~Made(call.self)'
      BY <1>1, <1>3, <1>6, <3>1 DEF Made
    <3>3. \A o \in Objects : Made(o)' => objs'[o] # call'.block
      BY <1>1, <1>3, <3>1 DEF Made
    <3>4. HxMake6 \in HxMaking
      BY DEF HxMaking
    <3> QED
      BY <1>3, <2>6, <3>1, <3>2, <3>3, <3>4 DEF HxCall
  <2>11. HxOwners'
    <3>1. /\ call' # None /\ call'.op = "construct" /\ call'.block = call.block
          /\ call'.steps = HxMake6
      BY <2>7, <2>8, HxNotNull
    <3>2. \A o \in Objects : ~Released(o)'
      BY <3>1, HxDistinct DEF Released
    <3>3. NewBlock(call.block)'
      BY <3>1 DEF NewBlock
    <3> QED
      BY <1>1, <1>4, <1>6, <3>2, <3>3 DEF HxKept, HxOwners, Made
  <2> QED
    BY <1>1, <2>8, <2>9, <2>10, <2>11 DEF HxKept, HxTyped
<1>7. ASSUME live' = (live \cup ({"dma", "lost"} \X Free))
                       \ {<<"block", call.block>>},
             call' = None
      PROVE  HxKept'
  <2>1. /\ \A b : <<"block", b>> \in live' <=> <<"block", b>> \in live /\ b # call.block
        /\ \A d : <<"dma", d>> \in live' <=> <<"dma", d>> \in live \/ d \in Free
        /\ \A d : <<"lost", d>> \in live' <=> <<"lost", d>> \in live \/ d \in Free
        /\ \A d : <<"other", d>> \in live' <=> <<"other", d>> \in live
    BY <1>7
  <2>2. HxLedger({})'
    BY <1>2, <1>5, <2>1 DEF HxLedger, Foreign
  <2>3. \A o \in Objects : Made(o) => <<"block", objs[o]>> \in live'
    BY <1>3, <1>4, <2>1
  <2>4. \A b \in Blocks : <<"block", b>> \in live' => \E o \in Objects : objs[o] = b
    BY <1>4, <2>1
  <2> QED
    BY <1>1, <1>2, <1>7, <2>2, <2>3, <2>4, HxIdle
<1>8. CASE Cardinality(Free) >= 2
  <2>1. Free \subseteq Nat
    BY <1>5, NamesAssumption
  <2>2. Free # {}
    BY <1>8, FS_EmptySet
  <2>3. p \in Free
    BY <2>1, <2>2, LowestOf
  <2> HIDE DEF p
  <2>4. Free \ {p} # {}
    BY <1>5, <1>8, <2>3, LowestTwo
  <2>5. c \in Free \ {p}
    BY <2>1, <2>4, LowestOf
  <2> HIDE DEF c
  <2>6. /\ live' = live \cup {<<"dma", p>>, <<"dma", c>>}
        /\ call' = [call EXCEPT !.steps = Tail(@), !.px = p, !.cmd = c]
    BY <1>1, <1>8, SameCardinality
  <2> QED
    BY <1>6, <2>3, <2>5, <2>6
<1> HIDE DEF p, c
<1>9. CASE ~(Cardinality(Free) >= 2)
  BY <1>1, <1>7, <1>9, SameCardinality
<1> QED
  BY <1>8, <1>9

\* The scanner with one of its parts exchanged.
HxScanOf(px, cmd, pending, on, from, mode, list) ==
  [px |-> px, cmd |-> cmd, irq |-> pending, on |-> on, from |-> from, mode |-> mode,
   list |-> list]
HxLoaded(s, u, b, m, l) ==
  Hstx!Restarted([s EXCEPT !.px.en = u, !.cmd.en = TRUE, !.on = TRUE,
                           !.from = b, !.mode = m, !.list = l])
HxRunning(s, u, b, m, l) ==
  HxScanOf([en |-> u, at |-> s.px.at, again |-> s.px.again],
           [en |-> TRUE, at |-> 1, next |-> s.cmd.next], FALSE, TRUE, b, m, l)
LEMMA HxStarted ==
  ASSUME NEW s \in HxScans, NEW u, NEW b, NEW m, NEW l
  PROVE  HxLoaded(s, u, b, m, l) = HxRunning(s, u, b, m, l)
<1> DEFINE yes == TRUE
           no == FALSE
           x == [en |-> u, at |-> s.px.at, again |-> s.px.again]
           c == [en |-> yes, at |-> s.cmd.at, next |-> s.cmd.next]
           d == [en |-> yes, at |-> 1, next |-> s.cmd.next]
<1> HIDE DEF yes, no
<1>1. PICK p, k, i, n, f, o, a : s = HxScanOf(p, k, i, n, f, o, a)
  BY DEF HxScans, HxScanOf
<1>2. s.px = p /\ s.cmd = k
  BY <1>1 DEF HxScanOf
<1>3. [s.px EXCEPT !.en = u] = x
  BY DEF HxScans
<1>4. [s.cmd EXCEPT !.en = yes] = c
  BY DEF HxScans
<1>5. c.en = yes /\ [c EXCEPT !.at = 1] = d
  OBVIOUS
<1> HIDE DEF x, c, d
<1> DEFINE s1 == [s EXCEPT !.px.en = u]
           s2 == [s1 EXCEPT !.cmd.en = yes]
           s3 == [s2 EXCEPT !.on = yes]
           s4 == [s3 EXCEPT !.from = b]
           s5 == [s4 EXCEPT !.mode = m]
           s6 == [s5 EXCEPT !.list = l]
           s7 == [s6 EXCEPT !.irq = no]
<1>6. [s EXCEPT !.px.en = u, !.cmd.en = TRUE, !.on = TRUE, !.from = b,
                !.mode = m, !.list = l] = s6
  BY Zenon DEF yes
<1>7. s1 = HxScanOf(x, k, i, n, f, o, a)
  <2>1. s1 = [s EXCEPT !.px = x]
    BY <1>3, Zenon
  <2> HIDE DEF s1
  <2> QED
    BY <1>1, <2>1 DEF HxScanOf
<1> HIDE DEF s1
<1>8. s2 = HxScanOf(x, c, i, n, f, o, a)
  <2>1. s1.cmd = s.cmd
    BY <1>2, <1>7 DEF HxScanOf
  <2>2. s2 = [s1 EXCEPT !.cmd = c]
    BY <1>4, <2>1, Zenon
  <2> HIDE DEF s2
  <2> QED
    BY <1>7, <2>2 DEF HxScanOf
<1> HIDE DEF s2
<1>9. s3 = HxScanOf(x, c, i, yes, f, o, a)
  BY <1>8 DEF HxScanOf
<1> HIDE DEF s3
<1>10. s4 = HxScanOf(x, c, i, yes, b, o, a)
  BY <1>9 DEF HxScanOf
<1> HIDE DEF s4
<1>11. s5 = HxScanOf(x, c, i, yes, b, m, a)
  BY <1>10 DEF HxScanOf
<1> HIDE DEF s5
<1>12. s6 = HxScanOf(x, c, i, yes, b, m, l)
  BY <1>11 DEF HxScanOf
<1> HIDE DEF s6
<1>13. s7 = HxScanOf(x, c, no, yes, b, m, l)
  BY <1>12 DEF HxScanOf
<1>14. Hstx!Restarted(s6) = HxScanOf(x, d, no, yes, b, m, l)
  <2>1. s6.cmd = c
    BY <1>12 DEF HxScanOf
  <2>2. Hstx!Restarted(s6) = [s7 EXCEPT !.cmd.at = 1]
    BY <1>5, <2>1, Zenon DEF Hstx!Restarted, yes, no
  <2> HIDE DEF s7
  <2>3. s7.cmd = c
    BY <1>13 DEF HxScanOf
  <2>4. Hstx!Restarted(s6) = [s7 EXCEPT !.cmd = d]
    BY <1>5, <2>2, <2>3, Zenon
  <2> QED
    BY <1>13, <2>4 DEF HxScanOf
<1> QED
  BY <1>6, <1>14, Zenon DEF x, d, yes, no, HxLoaded, HxRunning

\* The channels that start are claimed and two, and read the new block.
LEMMA HxStart == ASSUME HxKept, Hstx!Start PROVE HxKept'
<1> DEFINE unscaled == Hstx!Scaling(call.mode) = 1
<1>1. /\ Hstx!Step("start") /\ Hstx!Continue /\ UNCHANGED <<live, objs>>
      /\ host' = [live |-> TRUE, px |-> call.px, cmd |-> call.cmd,
                  active |-> call.self]
  BY DEF Hstx!Start
<1>2. /\ call # None /\ call \in HxCalls
      /\ call.op = "construct" /\ call.steps = HxMake6
      /\ HxLedger({call.px, call.cmd})
  BY <1>1, HxStepAt, HxHardwareAt
<1>3. /\ call.self \in Objects /\ ~Made(call.self) /\ call.mode # None
      /\ <<"block", call.block>> \in live /\ call.px # call.cmd
      /\ \A o \in Objects : Made(o) => objs[o] # call.block
  BY <1>2 DEF HxKept, HxCall
<1>4. /\ call.mode \in Hstx!Modes /\ call.block \in Blocks \cup {None}
      /\ call.px \in Channels \cup {None} /\ call.cmd \in Channels \cup {None}
  BY <1>2, <1>3 DEF HxCalls
<1>5. unscaled \in BOOLEAN
  OBVIOUS
<1>6. scan' = HxLoaded(scan, unscaled, call.block, call.mode,
                       Hstx!FrameList(call.mode))
  BY Zenon DEF Hstx!Start, HxLoaded
<1> HIDE DEF unscaled
<1>7. scan \in HxScans
  BY DEF HxKept, HxTyped
<1>8. scan' = [px |-> [en |-> unscaled, at |-> scan.px.at,
                       again |-> scan.px.again],
               cmd |-> [en |-> TRUE, at |-> 1, next |-> scan.cmd.next],
               irq |-> FALSE, on |-> TRUE, from |-> call.block,
               mode |-> call.mode, list |-> Hstx!FrameList(call.mode)]
  <2>1. HxLoaded(scan, unscaled, call.block, call.mode, Hstx!FrameList(call.mode))
          = HxRunning(scan, unscaled, call.block, call.mode,
                      Hstx!FrameList(call.mode))
    BY <1>7, HxStarted, Zenon
  <2> QED
    BY <1>6, <2>1, Zenon DEF HxScanOf, HxRunning
<1>9. 1 \in HxAt /\ Hstx!FrameList(call.mode) \in HxLists
  BY <1>4 DEF HxAt, HxLists
<1>10. scan' \in HxScans
  BY <1>4, <1>5, <1>8, <1>9, HxScanType DEF HxScans
<1>11. call' = [op |-> "construct", self |-> call.self, mode |-> call.mode,
                block |-> call.block, px |-> call.px, cmd |-> call.cmd,
                steps |-> Done]
  BY <1>1, <1>2, HxGoesOn, HxPaths
<1>12. call' \in HxCalls
  BY <1>2, <1>11 DEF HxCalls, HxOps, HxPath, HxMaking
<1>13. HxHardware' /\ HxLive'
  <2>1. AtRest'
    BY <1>1, <1>2 DEF AtRest, HxLedger, Foreign
  <2>2. call' # None /\ call'.steps = Done
    BY <1>11, <1>12, HxNotNull
  <2>3. /\ host'.live /\ host'.px # host'.cmd /\ scan'.mode # None
        /\ <<"block", scan'.from>> \in live'
    BY <1>1, <1>3, <1>8
  <2> QED
    BY <2>1, <2>2, <2>3 DEF HxHardware, HxLive
<1>14. HxCall'
  <2>1. /\ call'.op = "construct" /\ call'.self = call.self
        /\ call'.mode = call.mode /\ call'.block = call.block /\ call'.steps = Done
    BY <1>11
  <2>2. Done \in HxMaking /\ Done # HxMake6
    BY HxDistinct DEF HxMaking
  <2>3. ~Made(call.self)' /\ \A o \in Objects : Made(o)' => objs'[o] # call'.block
    BY <1>1, <1>3, <2>1 DEF Made
  <2> QED
    BY <1>1, <1>3, <2>1, <2>2, <2>3 DEF HxCall
<1>15. HxOwners'
  <2>1. \A o \in Objects : ~Released(o) /\ ~Released(o)'
    BY <1>2, <1>11 DEF Released
  <2>2. call' # None /\ call'.op = "construct" /\ call'.block = call.block
        /\ call'.steps = Done
    BY <1>11, <1>12, HxNotNull
  <2>3. \A b : NewBlock(b) => NewBlock(b)'
    BY <2>2 DEF NewBlock
  <2> QED
    BY <1>1, <2>1, <2>3 DEF HxKept, HxOwners, Made
<1>16. HxTyped'
  <2>1. host' \in [live : BOOLEAN, px : Channels \cup {None},
                   cmd : Channels \cup {None}, active : Objects \cup {None}]
    BY <1>1, <1>3, <1>4
  <2> QED
    BY <1>1, <1>10, <1>12, <2>1 DEF HxKept, HxTyped
<1> QED
  BY <1>13, <1>14, <1>15, <1>16 DEF HxKept

\* deinit() frees its object's block, which is no other's.
LEMMA HxFree == ASSUME HxKept, Hstx!Free PROVE HxKept'
<1>1. /\ Hstx!Step("free") /\ Hstx!Continue /\ UNCHANGED <<host, objs, scan>>
      /\ live' = live \ {<<"block", objs[call.self]>>}
  BY DEF Hstx!Free
<1>2. /\ call # None /\ call \in HxCalls
      /\ call.op = "deinit" /\ call.steps = Freeing
      /\ ~host.live /\ PxStopped /\ CmdStopped /\ HxLedger({})
  BY <1>1, HxStepAt, HxHardwareAt
<1>3. call.self \in Objects /\ Made(call.self)
  BY <1>2 DEF HxKept, HxCall
<1>4. call' = [op |-> "deinit", self |-> call.self, mode |-> call.mode,
               block |-> call.block, px |-> call.px, cmd |-> call.cmd,
               steps |-> Done]
  BY <1>1, <1>2, HxGoesOn, HxPaths
<1>5. call' \in HxCalls
  BY <1>2, <1>4 DEF HxCalls, HxOps, HxPath, HxMaking
<1>6. call' # None /\ call'.steps = Done /\ call'.op = "deinit"
      /\ call'.self = call.self
  BY <1>4, <1>5, HxNotNull
<1>7. HxHardware' /\ HxLive'
  <2>1. HxLedger({})' /\ PxStopped' /\ CmdStopped'
    BY <1>1, <1>2 DEF HxLedger, Foreign, PxStopped, CmdStopped
  <2> QED
    BY <1>1, <1>2, <1>6, <2>1 DEF HxHardware, AtRest, HxLive
<1>8. HxCall'
  BY <1>1, <1>3, <1>6 DEF HxCall, HxFreeing, Made
<1>9. HxOwners'
  <2>1. call.steps # Done
    BY <1>2, HxDistinct
  <2>2. \A o \in Objects : Released(o)' <=> o = call.self
    BY <1>6 DEF Released
  <2>3. \A o \in Objects : ~Released(o)
    BY <2>1 DEF Released
  <2>4. \A o \in Objects : Made(o) => <<"block", objs[o]>> \in live
    BY <2>3 DEF HxKept, HxOwners
  <2>5. \A o, q \in Objects : o # q /\ Made(o) => objs[o] # objs[q]
    BY DEF HxKept, HxOwners
  <2>6. \A o \in Objects : Made(o) /\ o # call.self => <<"block", objs[o]>> \in live'
    BY <1>1, <1>3, <2>4, <2>5
  <2>7. ASSUME NEW b \in Blocks, <<"block", b>> \in live'
        PROVE  \E o \in Objects : objs'[o] = b /\ ~Released(o)'
    <3>1. <<"block", b>> \in live /\ b # objs[call.self]
      BY <1>1, <2>7
    <3>2. PICK o \in Objects : objs[o] = b
      BY <1>2, <3>1 DEF HxKept, HxOwners, NewBlock
    <3> QED
      BY <1>1, <2>2, <3>1, <3>2
  <2> QED
    BY <1>1, <2>2, <2>5, <2>6, <2>7 DEF HxOwners, Made
<1> QED
  BY <1>1, <1>5, <1>7, <1>8, <1>9 DEF HxKept, HxTyped

LEMMA HxSweep == ASSUME HxKept, Hstx!Sweep PROVE HxKept'
<1>1. /\ Hstx!Step("sweep") /\ Hstx!Continue /\ UNCHANGED <<host, objs, scan>>
      /\ live' = live \ {<<"block", b>> : b \in Blocks}
  BY DEF Hstx!Sweep
<1>2. /\ call # None /\ call \in HxCalls
      /\ call.op = "soft_reset" /\ call.steps = Sweeping
      /\ ~host.live /\ PxStopped /\ CmdStopped /\ HxLedger({})
  BY <1>1, HxStepAt, HxHardwareAt
<1>3. call' = [op |-> "soft_reset", self |-> call.self, mode |-> call.mode,
               block |-> call.block, px |-> call.px, cmd |-> call.cmd,
               steps |-> Done]
  BY <1>1, <1>2, HxGoesOn, HxPaths
<1>4. call' \in HxCalls
  BY <1>2, <1>3 DEF HxCalls, HxOps, HxPath, HxMaking
<1>5. call' # None /\ call'.steps = Done /\ call'.op = "soft_reset"
  BY <1>3, <1>4, HxNotNull
<1>6. HxHardware' /\ HxLive'
  <2>1. HxLedger({})' /\ PxStopped' /\ CmdStopped'
    BY <1>1, <1>2 DEF HxLedger, Foreign, PxStopped, CmdStopped
  <2> QED
    BY <1>1, <1>2, <1>5, <2>1 DEF HxHardware, AtRest, HxLive
<1>7. HxCall'
  BY <1>5 DEF HxCall, HxResetting
<1>8. \A o \in Objects : Released(o)'
  BY <1>5 DEF Released
<1>9. HxOwners'
  <2>1. \A b \in Blocks : <<"block", b>> \notin live'
    BY <1>1
  <2> QED
    BY <1>1, <1>8, <2>1 DEF HxKept, HxOwners, Made
<1> QED
  BY <1>1, <1>4, <1>6, <1>7, <1>9 DEF HxKept, HxTyped

LEMMA HxReturn == ASSUME HxKept, Hstx!Return PROVE HxKept'
<1>1. /\ call # None /\ call \in HxCalls /\ call.steps = Done /\ call' = None
      /\ UNCHANGED <<host, live, scan>>
      /\ objs' = CASE call.op = "construct" ->
                        [objs EXCEPT ![call.self] = call.block]
                   [] call.op = "deinit" -> [objs EXCEPT ![call.self] = None]
                   [] OTHER -> [o \in Objects |-> None]
  BY DEF Hstx!Return, HxKept, HxTyped, Done
<1>2. call.op \in HxOps /\ call.block \in Blocks \cup {None}
  BY <1>1 DEF HxCalls
<1>3. objs \in [Objects -> Blocks \cup {None}]
  BY DEF HxKept, HxTyped
<1>4. objs' \in [Objects -> Blocks \cup {None}] /\ HxOwners'
  <2>1. CASE call.op = "construct"
    <3>1. /\ call.self \in Objects /\ <<"block", call.block>> \in live
          /\ ~Made(call.self)
          /\ \A o \in Objects : Made(o) => objs[o] # call.block
          /\ \A o \in Objects : Made(o) => <<"block", objs[o]>> \in live
      BY <1>1, <2>1 DEF HxKept, HxCall, HxOwners, Released
    <3>2. objs' = [objs EXCEPT ![call.self] = call.block]
      BY <1>1, <2>1
    <3>3. /\ objs'[call.self] = call.block
          /\ \A o \in Objects : o # call.self => objs'[o] = objs[o]
      BY <1>3, <3>1, <3>2
    <3>4. \A o \in Objects : Made(o)' => <<"block", objs'[o]>> \in live'
      BY <1>1, <3>1, <3>3 DEF Made
    <3>5. ASSUME NEW o \in Objects, NEW q \in Objects, o # q, Made(o)'
          PROVE  objs'[o] # objs'[q]
      <4>1. Made(o) /\ Made(q) => objs[o] # objs[q]
        BY <3>5 DEF HxKept, HxOwners
      <4> QED
        BY <3>1, <3>3, <3>5, <4>1 DEF Made
    <3>6. ASSUME NEW b \in Blocks, <<"block", b>> \in live'
          PROVE  \E o \in Objects : objs'[o] = b
      <4>1. \/ b = call.block
            \/ \E o \in Objects : objs[o] = b
        BY <1>1, <3>6 DEF HxKept, HxOwners, NewBlock
      <4>2. \A o \in Objects : objs[o] = b => o # call.self
        BY <3>1, NullApart DEF Made
      <4> QED
        BY <3>1, <3>3, <4>1, <4>2
    <3>7. \A o \in Objects : ~Released(o)'
      BY <1>1 DEF Released
    <3> QED
      BY <1>2, <1>3, <3>2, <3>4, <3>5, <3>6, <3>7 DEF HxOwners
  <2>2. CASE call.op = "deinit"
    <3>1. /\ objs' = [objs EXCEPT ![call.self] = None] /\ call.self \in Objects
          /\ \A o \in Objects : Released(o) => o = call.self
      BY <1>1, <2>2 DEF HxKept, HxCall, Released
    <3>2. /\ objs'[call.self] = None
          /\ \A o \in Objects : o # call.self => objs'[o] = objs[o]
      BY <1>3, <3>1
    <3>3. ASSUME NEW b \in Blocks, <<"block", b>> \in live'
          PROVE  \E o \in Objects : objs'[o] = b
      <4>1. PICK o \in Objects : objs[o] = b /\ ~Released(o)
        BY <1>1, <2>2, <3>3 DEF HxKept, HxOwners, NewBlock
      <4> QED
        BY <1>1, <2>2, <3>2, <4>1 DEF Released
    <3>4. \A o \in Objects : ~Released(o)'
      BY <1>1 DEF Released
    <3> QED
      BY <1>1, <1>3, <3>1, <3>2, <3>3, <3>4 DEF HxKept, HxOwners, Made
  <2>3. CASE call.op = "soft_reset"
    <3>1. \A o \in Objects : Released(o)
      BY <1>1, <2>3 DEF Released
    <3>2. \A b \in Blocks : <<"block", b>> \notin live
      BY <2>3, <3>1 DEF HxKept, HxOwners, NewBlock
    <3>3. objs' = [o \in Objects |-> None]
      BY <1>1, <2>3
    <3> QED
      BY <1>1, <3>2, <3>3 DEF HxOwners, Made
  <2> QED
    BY <1>2, <2>1, <2>2, <2>3 DEF HxOps
<1>5. HxHardware'
  <2>1. AtRest
    BY <1>1, HxDistinct DEF HxKept, HxHardware
  <2>2. AtRest'
    BY <1>1, <2>1 DEF AtRest, HxLedger, Foreign, PxStopped, CmdStopped
  <2> QED
    BY <1>1, <2>2 DEF HxHardware
<1>6. HxLive' /\ HxCall'
  BY <1>1 DEF HxKept, HxLive, HxCall
<1> QED
  BY <1>1, <1>4, <1>5, <1>6 DEF HxKept, HxTyped

LEMMA HxStep == HxKept /\ Hstx!Next => HxKept'
<1> SUFFICES ASSUME HxKept, Hstx!Next PROVE HxKept'
  OBVIOUS
<1>1. ASSUME NEW o \in Objects, NEW m \in Hstx!Modes, Hstx!Construct(o, m)
      PROVE  HxKept'
  <2>1. /\ call = None /\ UNCHANGED <<host, live, objs, scan>> /\ ~Made(o)
        /\ Hstx!Begin("construct", o, m,
                      Hstx!HwStop \o <<"malloc", "claim", "start">>)
    BY <1>1 DEF Hstx!Construct, Made
  <2>2. Hstx!Begin("construct", o, m, IF host.live THEN HxMake1 ELSE HxMake4)
    BY <2>1, HxCallsBegin
  <2>3. m # None
    BY NullAssumption
  <2> QED
    BY <2>1, <2>2, <2>3, HxBegin DEF HxOps
<1>2. CASE Hstx!Deinit
  <2>1. PICK o \in Objects :
          /\ call = None /\ UNCHANGED <<host, live, objs, scan>> /\ Made(o)
          /\ Hstx!Begin("deinit", o, None, Hstx!HwStop \o <<"free">>)
    BY <1>2 DEF Hstx!Deinit, Made
  <2>2. Hstx!Begin("deinit", o, None, IF host.live THEN HxFree1 ELSE Freeing)
    BY <2>1, HxCallsBegin
  <2> QED
    BY <2>1, <2>2, HxBegin DEF HxOps
<1>3. CASE Hstx!SoftReset
  <2>1. /\ call = None /\ UNCHANGED <<host, live, objs, scan>>
        /\ Hstx!Begin("soft_reset", None, None, Hstx!HwStop \o <<"sweep">>)
    BY <1>3 DEF Hstx!SoftReset
  <2>2. Hstx!Begin("soft_reset", None, None,
                   IF host.live THEN HxReset1 ELSE Sweeping)
    BY <2>1, HxCallsBegin
  <2> QED
    BY <2>1, <2>2, HxBegin DEF HxOps
<1> QED
  BY <1>1, <1>2, <1>3, HxLoad, HxChain, HxDmaIrq, HxPixelOff, HxCommandOff,
     HxIrqOff, HxMalloc, HxClaim, HxStart, HxFree, HxSweep, HxReturn DEF Hstx!Next

LEMMA HxRight == HxKept => Hstx!ScanRight /\ Hstx!ReleasedOnce
<1> SUFFICES ASSUME HxKept PROVE Hstx!ScanRight /\ Hstx!ReleasedOnce
  OBVIOUS
<1>1. Hstx!ScanRight
  <2>1. ASSUME scan.cmd.at # None
        PROVE  host.live /\ <<"dma", host.cmd>> \in live
    <3>1. host.live /\ (HxLedger({host.px, host.cmd}) \/ HxLedger({host.cmd}))
      BY <2>1 DEF HxKept, HxHardware, AtRest, CmdStopped
    <3> QED
      BY <3>1 DEF HxLedger
  <2>2. ASSUME scan.px.at # None, ~scan.px.again
        PROVE  host.live /\ <<"dma", host.px>> \in live
    <3>1. ~PxStopped
      BY <2>2, Zenon DEF PxStopped
    <3>2. host.live /\ HxLedger({host.px, host.cmd})
      BY <3>1 DEF HxKept, HxHardware, AtRest
    <3> QED
      BY <3>2 DEF HxLedger
  <2>3. host.live => <<"block", scan.from>> \in live
    BY DEF HxKept, HxLive
  <2>4. scan.cmd.at # None =>
          {<<"dma", host.cmd>>, <<"block", scan.from>>} \subseteq live
    BY <2>1, <2>3
  <2>5. scan.px.at # None /\ ~scan.px.again =>
          {<<"dma", host.px>>, <<"block", scan.from>>} \subseteq live
    BY <2>2, <2>3, Zenon
  <2> QED
    BY <2>4, <2>5, Zenon DEF Hstx!ScanRight
<1>2. Hstx!ReleasedOnce
  <2> SUFFICES ASSUME call = None PROVE Hstx!ReleasedOnce
    BY DEF Hstx!ReleasedOnce
  <2>1. AtRest
    BY DEF HxKept, HxHardware
  <2>2. \A c \in Channels :
          <<"dma", c>> \in live <=> \/ host.live /\ c \in {host.px, host.cmd}
                                 \/ <<"other", c>> \in live
                                 \/ <<"lost", c>> \in live
    BY <2>1 DEF AtRest, HxLedger, Foreign
  <2>3. host.live =>
          /\ host.px # host.cmd
          /\ {<<k, c>> : k \in {"other", "lost"}, c \in {host.px, host.cmd}}
               \cap live = {}
    BY <2>1 DEF HxKept, HxLive, AtRest, HxLedger, Foreign
  <2>4. \A o \in Objects : ~Released(o)
    BY DEF Released
  <2>5. ASSUME NEW b \in Blocks
        PROVE  <<"block", b>> \in live <=> \E o \in Objects : objs[o] = b
    BY <2>4, NullApart DEF HxKept, HxOwners, NewBlock, Made
  <2>6. \A o, p \in Objects : o # p /\ objs[o] # None => objs[o] # objs[p]
    BY DEF HxKept, HxOwners, Made
  <2> QED
    BY <2>2, <2>3, <2>5, <2>6 DEF Hstx!ReleasedOnce
<1> QED
  BY <1>1, <1>2

-----------------------------------------------------------------------------
(* Induction: a set of numbers that has a member has a least one.          *)

LEMMA Least ==
  ASSUME NEW T, T \subseteq Nat, T # {}
  PROVE  \E n \in T : \A i \in T : n <= i
<1> DEFINE R == OpToRel(<, Nat)
<1>1. IsWellFoundedOn(R, Nat)
  BY NatLessThanWellFounded, Zenon
<1>2. \A x, y \in Nat : y < x => <<y, x>> \in R
  BY Zenon DEF OpToRel
<1> HIDE DEF R
<1>3. PICK x \in T : \A y \in T : ~ (<<y, x>> \in R)
  BY <1>1, WFMin
<1>4. \A y \in T : ~ (y < x)
  BY <1>2, <1>3
<1>5. \A y \in T : x <= y
  BY <1>4
<1> QED
  BY <1>5

\* FlattenSeq() is a recursive function, which there is.
Flatten(s) ==
  CHOOSE f : f = [i \in 1 .. Len(s) |-> IF i = 1 THEN s[i] ELSE f[i - 1] \o s[i]]

LEMMA Unfolded ==
  ASSUME NEW s, Len(s) # 0
  PROVE  Hstx!FlattenSeq(s) = Flatten(s)[Len(s)]
BY Zenon DEF Hstx!FlattenSeq, Flatten

LEMMA Flattened ==
  ASSUME NEW s, Len(s) \in Nat \ {0}
  PROVE  Flatten(s) = [i \in 1 .. Len(s) |->
                         IF i = 1 THEN s[i] ELSE Flatten(s)[i - 1] \o s[i]]
<1> DEFINE Upto(n, f) ==
             f = [i \in 1 .. n |-> IF i = 1 THEN s[i] ELSE f[i - 1] \o s[i]]
           T == {n \in 1 .. Len(s) : ~ \E f : Upto(n, f)}
<1> HIDE DEF Upto
<1>0. T \subseteq Nat /\ \A n : n \in T <=> n \in 1 .. Len(s) /\ ~ \E f : Upto(n, f)
  OBVIOUS
<1> HIDE DEF T
<1> USE DEF Upto
<1>1. T = {}
  <2> SUFFICES ASSUME T # {} PROVE FALSE
    OBVIOUS
  <2>1. PICK n \in T : \A i \in T : n <= i
    BY <1>0, Least
  <2>2. n \in 1 .. Len(s) /\ ~ \E f : Upto(n, f)
    BY <1>0, <2>1
  <2>3. CASE n = 1
    <3> DEFINE g == [i \in 1 .. n |-> s[i]]
    <3>1. Upto(n, g)
      BY <2>3
    <3> QED
      BY <2>2, <3>1
  <2>4. CASE n # 1
    <3>1. n - 1 \in 1 .. Len(s) /\ n - 1 \notin T
      <4>1. n - 1 \in 1 .. Len(s) /\ ~(n <= n - 1)
        BY <2>2, <2>4
      <4> QED
        BY <2>1, <4>1
    <3>2. PICK f : Upto(n - 1, f)
      BY <1>0, <3>1
    <3> DEFINE g == [i \in 1 .. n |-> IF i = n THEN f[n - 1] \o s[n] ELSE f[i]]
    <3>3. ASSUME NEW i \in 1 .. n
          PROVE  g[i] = IF i = 1 THEN s[i] ELSE g[i - 1] \o s[i]
      <4>1. CASE i = n
        <5>1. n - 1 \in 1 .. n /\ n - 1 # n /\ n \in 1 .. n
          BY <2>2, <2>4
        <5>2. g[n] = f[n - 1] \o s[n] /\ g[n - 1] = f[n - 1]
          BY <5>1
        <5> QED
          BY <2>4, <4>1, <5>2
      <4>2. CASE i # n
        <5>1. i \in 1 .. n - 1 /\ g[i] = f[i]
          BY <2>2, <4>2
        <5>2. f[i] = IF i = 1 THEN s[i] ELSE f[i - 1] \o s[i]
          BY <3>2, <5>1
        <5>3. i # 1 => g[i - 1] = f[i - 1]
          BY <2>2, <5>1
        <5> QED
          BY <5>1, <5>2, <5>3
      <4> QED
        BY <4>1, <4>2
    <3>4. Upto(n, g)
      BY <3>3
    <3> QED
      BY <2>2, <3>4, Zenon
  <2> QED
    BY <2>3, <2>4
<1>2. \E f : Upto(Len(s), f)
  <2>1. Len(s) \in 1 .. Len(s) /\ Len(s) \notin T
    BY <1>1
  <2> QED
    BY <1>0, <2>1
<1> QED
  BY <1>2, Zenon DEF Flatten

-----------------------------------------------------------------------------
(* The command list of the RP2350.                                         *)

HxBlank == HstxSync + HstxBack
HxLines(m) == [k \in 1 .. Hstx!TotalLines |-> Hstx!LineCommands(m, k - 1)]
HxCommands(m) == {Hstx!Header("sync"), Hstx!Header("blank"), Hstx!Header("active")}
                   \cup {Hstx!RowCommand(m, v) : v \in 0 .. Hstx!TotalLines - 1}

\* The commands of the first n lines: how many they are, and where in the list
\* those are that read a row.
HxStarts(n) == IF n <= HxBlank THEN n
               ELSE IF n <= HxBlank + HstxActive THEN 2 * n - HxBlank
               ELSE n + HstxActive
HxListed(m, n, list) ==
  /\ list \in Seq(HxCommands(m)) /\ Len(list) = HxStarts(n)
  /\ \A j \in 1 .. n : j - 1 \in HxBlank .. HxBlank + HstxActive - 1 =>
       list[2 * j - HxBlank] = Hstx!RowCommand(m, j - 1)

LEMMA HxLineCommands ==
  ASSUME NEW m, NEW v \in 0 .. Hstx!TotalLines - 1
  PROVE  /\ Hstx!LineCommands(m, v) \in Seq(HxCommands(m))
         /\ v \in HxBlank .. HxBlank + HstxActive - 1 =>
              Hstx!LineCommands(m, v) = <<Hstx!Header("active"), Hstx!RowCommand(m, v)>>
         /\ v \notin HxBlank .. HxBlank + HstxActive - 1 =>
              Len(Hstx!LineCommands(m, v)) = 1
<1> DEFINE sync == Hstx!Header("sync")
           blank == Hstx!Header("blank")
           head == Hstx!Header("active")
           row == Hstx!RowCommand(m, v)
<1>1. {sync, blank, head, row} \subseteq HxCommands(m)
  BY DEF HxCommands
<1>2. Hstx!LineCommands(m, v) =
        IF v < HstxSync THEN <<sync>>
        ELSE IF v < HxBlank \/ v >= HxBlank + HstxActive THEN <<blank>>
        ELSE <<head, row>>
  BY HstxAssumption DEF Hstx!LineCommands, Hstx!TotalLines, HxBlank
<1> HIDE DEF sync, blank, head, row
<1>3. HxBlank \in Nat /\ HstxSync \in Nat /\ HstxSync <= HxBlank /\ HstxActive \in Nat
  BY HstxAssumption DEF HxBlank
<1>4. /\ <<sync>> \in Seq(HxCommands(m)) /\ <<blank>> \in Seq(HxCommands(m))
      /\ <<head, row>> \in Seq(HxCommands(m))
      /\ Len(<<sync>>) = 1 /\ Len(<<blank>>) = 1
  BY <1>1
<1>5. CASE v \in HxBlank .. HxBlank + HstxActive - 1
  <2>1. Hstx!LineCommands(m, v) = <<head, row>>
    BY <1>2, <1>3, <1>5
  <2> QED
    BY <1>4, <1>5, <2>1 DEF head, row
<1>6. CASE v \notin HxBlank .. HxBlank + HstxActive - 1
  <2>1. Hstx!LineCommands(m, v) \in {<<sync>>, <<blank>>}
    <3>1. v < HxBlank \/ v >= HxBlank + HstxActive
      BY <1>3, <1>6
    <3> QED
      BY <1>2, <3>1
  <2> QED
    BY <1>4, <1>6, <2>1
<1> QED
  BY <1>5, <1>6

LEMMA HxLinesListed ==
  ASSUME NEW m
  PROVE  HxListed(m, Hstx!TotalLines, Hstx!FlattenSeq(HxLines(m)))
<1> DEFINE s == HxLines(m)
           N == Hstx!TotalLines
           f == Flatten(s)
           T == {n \in 1 .. N : ~HxListed(m, n, f[n])}
<1>1. N \in Nat \ {0} /\ Len(s) = N /\ s = [k \in 1 .. N |-> Hstx!LineCommands(m, k - 1)]
  BY HstxAssumption DEF HxLines, Hstx!TotalLines
<1>2. f = [i \in 1 .. N |-> IF i = 1 THEN s[i] ELSE f[i - 1] \o s[i]]
  BY <1>1, Flattened
<1>3. Hstx!FlattenSeq(s) = f[N]
  BY <1>1, Unfolded
<1> HIDE DEF f, s, N
<1>0. T \subseteq Nat /\ \A n : n \in T <=> n \in 1 .. N /\ ~HxListed(m, n, f[n])
  BY <1>1
<1> HIDE DEF T
<1>4. \A i \in 1 .. N : s[i] = Hstx!LineCommands(m, i - 1) /\ i - 1 \in 0 .. N - 1
  BY <1>1
<1>5. ASSUME NEW n \in 1 .. N, n # 1 => HxListed(m, n - 1, f[n - 1])
      PROVE  HxListed(m, n, f[n])
  <2> DEFINE A == HxBlank
             V == HstxActive
             line == s[n]
             list == f[n - 1]
             C == HxCommands(m)
  <2>1. A \in Nat /\ V \in Nat \ {0} /\ n \in Nat \ {0}
    BY <1>1, HstxAssumption DEF HxBlank
  <2>2. /\ line \in Seq(C)
        /\ n - 1 \in A .. A + V - 1 =>
             Len(line) = 2 /\ line[2] = Hstx!RowCommand(m, n - 1)
        /\ n - 1 \notin A .. A + V - 1 => Len(line) = 1
    <3>1. line = Hstx!LineCommands(m, n - 1) /\ n - 1 \in 0 .. Hstx!TotalLines - 1
      BY <1>4 DEF N
    <3> HIDE DEF line
    <3> QED
      BY <3>1, HxLineCommands
  <2> HIDE DEF line
  <2>3. CASE n = 1
    <3>1. f[n] = line
      BY <1>2, <2>3 DEF line
    <3>2. HxStarts(n) = IF A = 0 THEN 2 ELSE 1
      BY <2>1, <2>3 DEF HxStarts
    <3>3. \A j \in 1 .. n : j = n
      BY <2>3
    <3>4. n - 1 \in A .. A + V - 1 <=> A = 0
      BY <2>1, <2>3
    <3>5. line \in Seq(C) /\ Len(line) = HxStarts(n)
      BY <2>2, <3>2, <3>4
    <3>6. ASSUME NEW j \in 1 .. n, j - 1 \in A .. A + V - 1
          PROVE  line[2 * j - A] = Hstx!RowCommand(m, j - 1)
      <4>1. j = n /\ A = 0 /\ 2 * j - A = 2
        BY <2>1, <2>3, <3>3, <3>4, <3>6
      <4> QED
        BY <2>2, <3>6, <4>1
    <3> QED
      BY <3>1, <3>5, <3>6 DEF HxListed
  <2>4. CASE n # 1
    <3>1. f[n] = list \o line
      BY <1>2, <2>4 DEF line
    <3>2. list \in Seq(C) /\ Len(list) = HxStarts(n - 1)
          /\ \A j \in 1 .. n - 1 : j - 1 \in A .. A + V - 1 =>
               list[2 * j - A] = Hstx!RowCommand(m, j - 1)
      BY <1>5, <2>4 DEF HxListed
    <3> HIDE DEF list, C, A, V
    <3>0. /\ list \o line \in Seq(C) /\ Len(list \o line) = Len(list) + Len(line)
          /\ \A i \in 1 .. Len(list) + Len(line) :
               (list \o line)[i] = IF i <= Len(list) THEN list[i] ELSE line[i - Len(list)]
      <4>1. list \in Seq(C) /\ line \in Seq(C)
        BY <2>2, <3>2
      <4> QED
        BY <4>1, ConcatProperties
    <3>3. f[n] \in Seq(C) /\ Len(f[n]) = Len(list) + Len(line)
      BY <3>0, <3>1
    <3>4. HxStarts(n) = HxStarts(n - 1) + IF n - 1 \in A .. A + V - 1 THEN 2 ELSE 1
      BY <2>1, <2>4 DEF HxStarts, A, V
    <3>5. Len(f[n]) = HxStarts(n)
      BY <2>2, <3>2, <3>3, <3>4
    <3>6. ASSUME NEW j \in 1 .. n, j - 1 \in A .. A + V - 1
          PROVE  f[n][2 * j - A] = Hstx!RowCommand(m, j - 1)
      <4>1. CASE j = n
        <5>1. HxStarts(n - 1) = 2 * n - A - 2 /\ Len(line) = 2
          BY <2>1, <2>2, <2>4, <3>6, <4>1 DEF HxStarts, A, V
        <5>2. 2 * n - A = Len(list) + 2
          BY <2>1, <3>2, <5>1
        <5>3. (list \o line)[Len(list) + 2] = line[2]
          <6>1. Len(list) \in Nat /\ Len(list) + 2 \in 1 .. Len(list) + Len(line)
            BY <3>2, <5>1
          <6> QED
            BY <3>0, <6>1
        <5> QED
          BY <2>2, <3>1, <3>6, <4>1, <5>2, <5>3
      <4>2. CASE j # n
        <5>1. j \in 1 .. n - 1
          BY <2>1, <4>2
        <5>2. 2 * j - A \in 1 .. HxStarts(n - 1)
          BY <2>1, <3>6, <5>1 DEF HxStarts, A, V
        <5>3. (list \o line)[2 * j - A] = list[2 * j - A]
          BY <2>2, <3>2, <5>2
        <5> QED
          BY <3>1, <3>2, <3>6, <5>1, <5>3
      <4> QED
        BY <4>1, <4>2
    <3> QED
      BY <3>3, <3>5, <3>6 DEF HxListed, C, A, V
  <2> QED
    BY <2>3, <2>4
<1>6. T = {}
  <2> SUFFICES ASSUME T # {} PROVE FALSE
    OBVIOUS
  <2>1. PICK n \in T : \A i \in T : n <= i
    BY <1>0, Least
  <2>2. n \in 1 .. N /\ ~HxListed(m, n, f[n])
    BY <1>0, <2>1
  <2>3. n # 1 => n - 1 \in 1 .. N /\ n - 1 \notin T
    BY <1>1, <2>1, <2>2
  <2>4. n # 1 => HxListed(m, n - 1, f[n - 1])
    BY <1>0, <2>3
  <2> QED
    BY <1>5, <2>2, <2>4
<1> QED
  <2>1. N \in 1 .. N /\ N \notin T
    BY <1>1, <1>6
  <2>2. HxListed(m, N, f[N])
    BY <1>0, <2>1
  <2> QED
    BY <1>3, <2>2 DEF s, N

LEMMA HxModes ==
  ASSUME NEW m \in Hstx!Modes
  PROVE  /\ m.width \in Nat \ {0} /\ m.height \in Nat \ {0} /\ m.depth \in Nat
         /\ Hstx!Scaling(m) \in {1, 2, 4}
         /\ m.width * Hstx!Scaling(m) = HstxWidth
         /\ m.height * Hstx!Scaling(m) = HstxActive
         /\ Hstx!Scaling(m) = 1 => m.depth \in {1, 2, 4, 8}
         /\ Hstx!Scaling(m) # 1 => m.depth \in {8, 16, 32}
<1>1. /\ m.width \in 1 .. HstxWidth /\ m.height \in 1 .. HstxActive
      /\ m.depth \in HstxDepths /\ Hstx!Preflight(m.width, m.height, m.depth)
  BY DEF Hstx!Modes
<1>2. m.width \in Nat \ {0} /\ m.height \in Nat \ {0} /\ m.depth \in Nat
  <2>1. HstxWidth \in Nat /\ HstxActive \in Nat /\ HstxDepths \subseteq Nat
    BY HstxAssumption
  <2>2. /\ \A n \in 1 .. HstxWidth : n \in Nat \ {0}
        /\ \A n \in 1 .. HstxActive : n \in Nat \ {0}
    BY <2>1
  <2> QED
    BY <1>1, <2>1, <2>2
<1>3. PICK scaling \in {1, 2, 4} :
        /\ m.width * scaling = HstxWidth /\ m.height * scaling = HstxActive
        /\ m.depth \in IF scaling = 1 THEN {1, 2, 4, 8} ELSE {8, 16, 32}
  BY <1>1 DEF Hstx!Preflight
<1>4. \A w \in Nat \ {0} : w \div w = 1 /\ (w * 2) \div w = 2 /\ (w * 4) \div w = 4
                            /\ w * 1 = w
  <2>1. \A w \in Nat \ {0} : w \div w = 1
    OBVIOUS
  <2>2. \A w \in Nat \ {0} : (w * 2) \div w = 2
    OBVIOUS
  <2>3. \A w \in Nat \ {0} : (w * 4) \div w = 4
    OBVIOUS
  <2> QED
    BY <2>1, <2>2, <2>3
<1>5. (m.width * scaling) \div m.width = scaling
  BY <1>2, <1>3, <1>4
<1>6. Hstx!Scaling(m) = scaling
  BY <1>3, <1>5 DEF Hstx!Scaling
<1> QED
  BY <1>2, <1>3, <1>6

\* What a row's command reads.
LEMMA HxRows ==
  ASSUME NEW m \in Hstx!Modes, NEW l \in 0 .. HstxActive - 1
  PROVE  LET command == Hstx!RowCommand(m, HxBlank + l)
         IN /\ command.row \in 0 .. m.height - 1
            /\ l \in command.row * Hstx!Scaling(m)
                       .. (command.row + 1) * Hstx!Scaling(m) - 1
            /\ command.count * command.bits <= Hstx!Pitch(m) * 32
            /\ IF Hstx!Scaling(m) > 1 THEN command.count * Hstx!Scaling(m) = HstxWidth
               ELSE command.count * 32 >= HstxWidth * m.depth
<1> DEFINE c == Hstx!RowCommand(m, HxBlank + l)
           scaling == Hstx!Scaling(m)
           pitch == Hstx!Pitch(m)
<1>1. /\ m.width \in Nat \ {0} /\ m.height \in Nat \ {0} /\ m.depth \in Nat
      /\ scaling \in {1, 2, 4}
      /\ m.width * scaling = HstxWidth /\ m.height * scaling = HstxActive
      /\ scaling = 1 => m.depth \in {1, 2, 4, 8}
      /\ scaling # 1 => m.depth \in {8, 16, 32}
  BY HxModes
<1>2. HxBlank \in Nat /\ l \in Nat /\ (HxBlank + l) - (HstxSync + HstxBack) = l
      /\ HstxWidth \in Nat \ {0} /\ HstxWidth % 8 = 0
  BY HstxAssumption DEF HxBlank
<1>3. c = [what |-> "row", row |-> l \div scaling,
           count |-> IF scaling > 1 THEN m.width ELSE pitch,
           bits |-> IF scaling > 1 THEN m.depth ELSE 32]
  BY <1>2 DEF Hstx!RowCommand
<1>4. pitch = ((m.width * m.depth) \div 8 + 3) \div 4
  BY DEF Hstx!Pitch
<1> HIDE DEF c, scaling, pitch
<1>5. /\ l \div scaling \in 0 .. m.height - 1
      /\ l \in (l \div scaling) * scaling .. (l \div scaling + 1) * scaling - 1
  <2>1. CASE scaling = 1
    BY <1>1, <1>2, <2>1
  <2>2. CASE scaling = 2
    BY <1>1, <1>2, <2>2
  <2>3. CASE scaling = 4
    BY <1>1, <1>2, <2>3
  <2> QED
    BY <1>1, <2>1, <2>2, <2>3
<1>6. /\ pitch \in Nat
      /\ scaling > 1 => m.width * m.depth <= pitch * 32
      /\ ~(scaling > 1) => pitch * 32 >= HstxWidth * m.depth
  <2>1. CASE scaling > 1
    <3>1. CASE m.depth = 8
      BY <1>1, <1>4, <2>1, <3>1
    <3>2. CASE m.depth = 16
      BY <1>1, <1>4, <2>1, <3>2
    <3>3. CASE m.depth = 32
      BY <1>1, <1>4, <2>1, <3>3
    <3> QED
      BY <1>1, <2>1, <3>1, <3>2, <3>3
  <2>2. CASE scaling = 1
    <3>1. m.width = HstxWidth /\ m.width % 8 = 0
      BY <1>1, <1>2, <2>2
    <3>2. CASE m.depth = 1
      BY <1>1, <1>4, <2>2, <3>1, <3>2
    <3>3. CASE m.depth = 2
      BY <1>1, <1>4, <2>2, <3>1, <3>3
    <3>4. CASE m.depth = 4
      BY <1>1, <1>4, <2>2, <3>1, <3>4
    <3>5. CASE m.depth = 8
      BY <1>1, <1>4, <2>2, <3>1, <3>5
    <3> QED
      BY <1>1, <2>2, <3>2, <3>3, <3>4, <3>5
  <2> QED
    BY <1>1, <2>1, <2>2
<1>7. /\ c.row = l \div scaling
      /\ c.count = IF scaling > 1 THEN m.width ELSE pitch
      /\ c.bits = IF scaling > 1 THEN m.depth ELSE 32
  BY <1>3
<1>8. /\ c.row \in 0 .. m.height - 1
      /\ l \in c.row * scaling .. (c.row + 1) * scaling - 1
  BY <1>5, <1>7
<1>9. c.count * c.bits <= pitch * 32
  <2>1. CASE scaling > 1
    BY <1>6, <1>7, <2>1
  <2>2. CASE ~(scaling > 1)
    <3>1. c.count * c.bits = pitch * 32
      BY <1>7, <2>2
    <3> QED
      BY <1>6, <3>1
  <2> QED
    BY <2>1, <2>2
<1>10. IF scaling > 1 THEN c.count * scaling = HstxWidth
       ELSE c.count * 32 >= HstxWidth * m.depth
  BY <1>1, <1>6, <1>7
<1> QED
  BY <1>8, <1>9, <1>10 DEF c, scaling, pitch

LEMMA HxListRight ==
  ASSUME scan.mode \in Hstx!Modes, scan.list = Hstx!FrameList(scan.mode)
  PROVE  Hstx!FrameListRight
<1> DEFINE m == scan.mode
           lines == Hstx!FlattenSeq(HxLines(m))
           C == HxCommands(m)
           null == Hstx!NullCommand
<1>1. scan.list = lines \o <<null>>
  BY DEF Hstx!FrameList, HxLines
<1>2. HxListed(m, Hstx!TotalLines, lines)
  BY HxLinesListed
<1>3. \A c \in C : c # null
  BY DEF HxCommands, Hstx!Header, Hstx!RowCommand, Hstx!NullCommand
<1>4. /\ lines \in Seq(C) /\ Len(lines) = Hstx!TotalLines + HstxActive
      /\ Len(lines) = HstxFront + HstxSync + HstxBack + 2 * HstxActive
      /\ \A l \in 0 .. HstxActive - 1 :
           lines[HstxSync + HstxBack + 2 * (l + 1)] = Hstx!RowCommand(m, HxBlank + l)
  <2>1. HxStarts(Hstx!TotalLines) = Hstx!TotalLines + HstxActive
    BY HstxAssumption DEF HxStarts, HxBlank, Hstx!TotalLines
  <2>2. Hstx!TotalLines + HstxActive = HstxFront + HstxSync + HstxBack + 2 * HstxActive
    BY HstxAssumption DEF Hstx!TotalLines
  <2> HIDE DEF lines, C, m
  <2>3. ASSUME NEW l \in 0 .. HstxActive - 1
        PROVE  lines[HstxSync + HstxBack + 2 * (l + 1)] = Hstx!RowCommand(m, HxBlank + l)
    <3>1. /\ HxBlank + l + 1 \in 1 .. Hstx!TotalLines
          /\ (HxBlank + l + 1) - 1 \in HxBlank .. HxBlank + HstxActive - 1
          /\ (HxBlank + l + 1) - 1 = HxBlank + l
          /\ 2 * (HxBlank + l + 1) - HxBlank = HstxSync + HstxBack + 2 * (l + 1)
      BY HstxAssumption DEF HxBlank, Hstx!TotalLines
    <3> QED
      BY <1>2, <3>1 DEF HxListed
  <2> QED
    BY <1>2, <2>1, <2>2, <2>3 DEF HxListed, C
<1> HIDE DEF m, lines, C, null
<1>5. /\ Len(lines) \in Nat /\ HstxSync \in Nat /\ HstxBack \in Nat
      /\ HstxActive \in Nat /\ HstxFront \in Nat
  BY <1>4, HstxAssumption
<1>6. /\ Len(scan.list) = Len(lines) + 1 /\ scan.list[Len(lines) + 1] = null
      /\ \A k \in 1 .. Len(lines) : scan.list[k] = lines[k] /\ lines[k] \in C
      /\ DOMAIN scan.list = 1 .. Len(lines) + 1
  <2>1. <<null>> \in Seq({null}) /\ Len(<<null>>) = 1 /\ <<null>>[1] = null
    OBVIOUS
  <2>2. lines \in Seq(C \cup {null}) /\ <<null>> \in Seq(C \cup {null})
    BY <1>4
  <2>3. /\ scan.list \in Seq(C \cup {null}) /\ Len(scan.list) = Len(lines) + 1
        /\ \A k \in 1 .. Len(lines) + 1 :
             scan.list[k] = IF k <= Len(lines) THEN lines[k] ELSE <<null>>[k - Len(lines)]
    BY <1>1, <2>1, <2>2, ConcatProperties
  <2>4. \A k \in 1 .. Len(lines) : lines[k] \in C
    BY <1>4
  <2> QED
    BY <1>5, <2>1, <2>3, <2>4
<1>7. Len(scan.list) * Hstx!CommandWords(m) = Hstx!CommandsLen(m)
  <2>1. Hstx!CommandWords(m) \in {2, 4}
    BY DEF Hstx!CommandWords
  <2>2. Len(scan.list) = HstxFront + HstxSync + HstxBack + 2 * HstxActive + 1
    BY <1>4, <1>6
  <2> QED
    BY <2>1, <2>2 DEF Hstx!CommandsLen
<1>8. \A k \in DOMAIN scan.list : scan.list[k] = null <=> k = Len(scan.list)
  BY <1>3, <1>5, <1>6
<1>9. ASSUME NEW l \in 0 .. HstxActive - 1
      PROVE  Hstx!RowRight(m, l)
  <2>1. HstxSync + HstxBack + 2 * (l + 1) \in 1 .. Len(lines)
    BY <1>4, <1>5
  <2>2. scan.list[HstxSync + HstxBack + 2 * (l + 1)] = Hstx!RowCommand(m, HxBlank + l)
    BY <1>4, <1>6, <2>1
  <2>3. m \in Hstx!Modes
    BY DEF m
  <2> QED
    BY <2>2, <2>3, HxRows, Zenon DEF Hstx!RowRight
<1> QED
  BY <1>7, <1>8, <1>9 DEF Hstx!FrameListRight, m, null
\* What is scanned, when anything is, is its mode's list.
HxPainted == scan.mode # None => scan.list = Hstx!FrameList(scan.mode)

LEMMA HxPaintedInit == Hstx!Init => HxPainted
BY DEF Hstx!Init, Hstx!Off, HxPainted

\* Only the last step of a constructor lays out a list, and only the last of a
\* teardown forgets one; the other steps change neither it nor its mode.
LEMMA HxPaintedStep == ASSUME HxKept, HxPainted, Hstx!Next PROVE HxPainted'
<1>1. ASSUME scan'.mode = scan.mode, scan'.list = scan.list
      PROVE  HxPainted'
  BY <1>1 DEF HxPainted
<1>2. \/ Hstx!IrqOff \/ Hstx!Start \/ UNCHANGED scan
      \/ Hstx!Load \/ Hstx!Chain \/ Hstx!DmaIrq \/ Hstx!PixelOff \/ Hstx!CommandOff
  BY DEF Hstx!Next, Hstx!Construct, Hstx!Deinit, Hstx!SoftReset, Hstx!Malloc,
         Hstx!Claim, Hstx!Free, Hstx!Sweep, Hstx!Return
<1>3. scan \in HxScans
  BY DEF HxKept, HxTyped
<1>4. CASE UNCHANGED scan
  BY <1>1, <1>4
<1>5. CASE Hstx!Load
  <2>1. PICK px, pending, next :
          scan' = [scan EXCEPT !.px = px, !.irq = pending, !.cmd.at = None,
                               !.cmd.next = next]
    BY <1>5 DEF Hstx!Load
  <2>2. scan'.mode = scan.mode /\ scan'.list = scan.list
    BY <1>3, <2>1 DEF HxScans
  <2> QED
    BY <1>1, <2>2
<1>6. CASE Hstx!Chain
  <2>1. scan'.mode = scan.mode /\ scan'.list = scan.list
    BY <1>3, <1>6 DEF HxScans, Hstx!Chain
  <2> QED
    BY <1>1, <2>1
<1>7. CASE Hstx!DmaIrq
  <2>1. scan'.mode = scan.mode /\ scan'.list = scan.list
    BY <1>3, <1>7 DEF HxScans, Hstx!DmaIrq, Hstx!Restarted
  <2> QED
    BY <1>1, <2>1
<1>8. CASE Hstx!PixelOff \/ Hstx!CommandOff
  <2>1. scan'.mode = scan.mode /\ scan'.list = scan.list
    BY <1>3, <1>8 DEF HxScans, Hstx!PixelOff, Hstx!CommandOff
  <2> QED
    BY <1>1, <2>1
<1>9. CASE Hstx!IrqOff
  <2>1. scan' = IF scan.px.at = None THEN Hstx!Off ELSE [scan EXCEPT !.on = FALSE]
    BY <1>9 DEF Hstx!IrqOff, Hstx!Stopped
  <2>2. CASE scan.px.at = None
    <3>1. scan'.mode = None
      BY <2>1, <2>2 DEF Hstx!Off
    <3> QED
      BY <3>1 DEF HxPainted
  <2>3. CASE scan.px.at # None
    <3>1. scan'.mode = scan.mode /\ scan'.list = scan.list
      BY <1>3, <2>1, <2>3 DEF HxScans
    <3> QED
      BY <1>1, <3>1
  <2> QED
    BY <2>2, <2>3
<1>10. CASE Hstx!Start
  <2> DEFINE unscaled == Hstx!Scaling(call.mode) = 1
  <2>1. scan' = HxLoaded(scan, unscaled, call.block, call.mode,
                         Hstx!FrameList(call.mode))
    BY <1>10, Zenon DEF Hstx!Start, HxLoaded
  <2> HIDE DEF unscaled
  <2>2. scan' = HxRunning(scan, unscaled, call.block, call.mode,
                          Hstx!FrameList(call.mode))
    BY <1>3, <2>1, HxStarted, Zenon
  <2>3. scan'.mode = call.mode /\ scan'.list = Hstx!FrameList(call.mode)
    BY <2>2 DEF HxRunning, HxScanOf
  <2> QED
    BY <2>3 DEF HxPainted
<1> QED
  BY <1>2, <1>4, <1>5, <1>6, <1>7, <1>8, <1>9, <1>10

LEMMA HxShows == HxKept /\ HxPainted => Hstx!FrameListRight
<1> SUFFICES ASSUME HxKept, HxPainted PROVE Hstx!FrameListRight
  OBVIOUS
<1>1. CASE scan.mode = None
  BY <1>1 DEF Hstx!FrameListRight
<1>2. CASE scan.mode # None
  <2>1. scan.mode \in Hstx!Modes /\ scan.list = Hstx!FrameList(scan.mode)
    BY <1>2, HxScanType DEF HxPainted
  <2> QED
    BY <2>1, HxListRight
<1> QED
  BY <1>1, <1>2

-----------------------------------------------------------------------------
(* All of the ports.                                                       *)

HostsKept ==
  /\ which \in {"rp2040", "mipidsi", "i80", "pio", "elcdif", "dsi", "rp2350"}
  /\ which = "mipidsi" => MipiKept
  /\ which = "i80" => I80Kept
  /\ which = "pio" => PioKept
  /\ which = "elcdif" => ElcdifKept
  /\ which = "dsi" => DsiKept
  /\ which = "rp2350" => HxKept /\ HxPainted

LEMMA HostsStart == HostsInit => HostsKept
BY MipiInit, I80Init, PioInit, ElcdifInit, DsiInit, HxInit, HxPaintedInit
   DEF HostsInit, HostsKept

LEMMA HostsStutter == HostsKept /\ UNCHANGED <<which, shared>> => HostsKept'
<1> SUFFICES ASSUME HostsKept, UNCHANGED <<which, shared>> PROVE HostsKept'
  OBVIOUS
<1>1. UNCHANGED <<which, host, live, objs, call, scan>>
  BY DEF shared
<1>2. MipiKept => MipiKept'
  <2>1. MipiTyped /\ MipiCall /\ MipiNames => (MipiTyped /\ MipiCall /\ MipiNames)'
    BY <1>1 DEF MipiTyped, MipiObjects, ScanTyped, MipiCall, OfCall, Ended, MipiNames,
                BusNamed, DisplayNamed
  <2>2. MipiHosts => MipiHosts'
    BY <1>1 DEF MipiHosts, Backed, MipiPlace, Empty
  <2>3. MipiScans /\ MipiLedger => (MipiScans /\ MipiLedger)'
    BY <1>1 DEF MipiScans, MipiLedger
  <2> QED
    BY <2>1, <2>2, <2>3 DEF MipiKept
<1>3. I80Kept => I80Kept'
  BY <1>1 DEF I80Kept, I80Typed, I80Call, I80!ReleasedOnce, I80!Holds
<1>4. PioKept => PioKept'
  BY <1>1 DEF PioKept, PioTyped, Pio!ReleasedOnce, Pio!ClaimedBy
<1>5. ElcdifKept => ElcdifKept'
  BY <1>1 DEF ElcdifKept, ElcdifTyped, ElcdifCall, ElcdifFresh, Owners, Made,
              Owns, Released, ElcdifPort!ScanRight
<1>6. DsiKept => DsiKept'
  BY <1>1 DEF DsiKept, DsiTyped, DsiCall, DsiFresh, Owners, Made, Owns, Released,
              DsiOverBus, Dsi!ScanRight
<1>7. HxKept /\ HxPainted => HxKept' /\ HxPainted'
  BY <1>1 DEF HxPainted, HxKept, HxTyped, HxHardware, AtRest, HxLedger, Foreign,
              HxLive, HxCall, HxOwners, NewBlock, Made, Released, PxClaimed,
              PxStopped, CmdStopped
<1> QED
  BY <1>1, <1>2, <1>3, <1>4, <1>5, <1>6, <1>7 DEF HostsKept

LEMMA HostsStep == HostsKept /\ HostsNext => HostsKept'
<1> SUFFICES ASSUME HostsKept, HostsNext PROVE HostsKept'
  OBVIOUS
<1>1. CASE which = "rp2040" /\ UNCHANGED <<which, shared>>
  BY <1>1, HostsStutter
<1>2. CASE which = "mipidsi" /\ Mipidsi!Next /\ UNCHANGED which
  BY <1>2, MipiStep DEF HostsKept
<1>3. CASE which = "i80" /\ I80!Next /\ UNCHANGED which
  BY <1>3, I80Step DEF HostsKept
<1>4. CASE which = "pio" /\ Pio!Next /\ UNCHANGED which
  BY <1>4, PioStep DEF HostsKept
<1>5. CASE which = "elcdif" /\ ElcdifPort!Next /\ UNCHANGED which
  BY <1>5, ElcdifStep DEF HostsKept
<1>6. CASE which = "dsi" /\ Dsi!Next /\ UNCHANGED which
  BY <1>6, DsiStep DEF HostsKept
<1>7. CASE which = "rp2350" /\ Hstx!Next /\ UNCHANGED which
  BY <1>7, HxStep, HxPaintedStep DEF HostsKept
<1> QED
  BY <1>1, <1>2, <1>3, <1>4, <1>5, <1>6, <1>7 DEF HostsNext

LEMMA HostsInvariant == HostsSpec => []HostsKept
<1>1. HostsKept /\ UNCHANGED <<which, shared, vars>> => HostsKept'
  BY HostsStutter
<1> QED
  BY <1>1, HostsStart, HostsStep, PTL DEF HostsSpec

\* Whatever objects a program makes, makes stale, deinits and leaves to a soft
\* reset, and whatever fails, no port frees memory or gives back hardware twice
\* or while a usable object needs it.  Nothing is acquired beyond the reach of
\* the next teardown, but for the handles, claims and channels that a raising
\* constructor loses on the two i80 buses and the RP2350, which are counted as
\* lost.  A stale object may go on naming handles that are gone: mod_mipidsi.c,
\* mod_i80bus.c (ESP32 and RP2), the eLCDIF and DSI ports of the i.MX RT and
\* picodvi_rp2350.c.
THEOREM PortsReleaseOnce == HostsSpec => []ReleasedOnce
<1>1. HostsKept => ReleasedOnce
  <2> SUFFICES ASSUME HostsKept PROVE ReleasedOnce
    OBVIOUS
  <2>1. CASE which = "mipidsi"
    BY <2>1, MipiRight DEF HostsKept, ReleasedOnce
  <2>2. CASE which = "i80"
    BY <2>2 DEF HostsKept, I80Kept, ReleasedOnce
  <2>3. CASE which = "pio"
    BY <2>3 DEF HostsKept, PioKept, ReleasedOnce
  <2>4. CASE which = "elcdif"
    BY <2>4, ElcdifRight DEF HostsKept, ReleasedOnce
  <2>5. CASE which = "dsi"
    BY <2>5, DsiRight DEF HostsKept, ReleasedOnce
  <2>6. CASE which = "rp2350"
    BY <2>6, HxRight DEF HostsKept, ReleasedOnce
  <2>7. CASE which = "rp2040"
    BY <2>7 DEF ReleasedOnce
  <2> QED
    BY <2>1, <2>2, <2>3, <2>4, <2>5, <2>6, <2>7 DEF HostsKept
<1> QED
  BY <1>1, HostsInvariant, PTL

\* Between any two steps of a teardown or a constructor the panel's engine reads
\* memory that is allocated, through channels that are claimed, and on the
\* ESP32-P4 memory holds what blit() and fill_rect() have written; except after a
\* stale object of mod_mipidsi.c has been used, and except for the line that the
\* RP2350's scaled modes start again between the two channels' stops.
THEOREM PortsScanRight == HostsSpec => []ScanRight
<1>1. HostsKept => ScanRight
  <2> SUFFICES ASSUME HostsKept PROVE ScanRight
    OBVIOUS
  <2>1. CASE which = "mipidsi"
    BY <2>1, MipiRight DEF HostsKept, ScanRight
  <2>2. CASE which \in {"i80", "pio", "rp2040"}
    BY <2>2 DEF ScanRight
  <2>3. CASE which = "elcdif"
    BY <2>3, ElcdifRight DEF HostsKept, ElcdifKept, ScanRight
  <2>4. CASE which = "dsi"
    BY <2>4, DsiRight DEF HostsKept, DsiKept, ScanRight
  <2>5. CASE which = "rp2350"
    BY <2>5, HxRight DEF HostsKept, ScanRight
  <2> QED
    BY <2>1, <2>2, <2>3, <2>4, <2>5 DEF HostsKept
<1> QED
  BY <1>1, HostsInvariant, PTL

\* On the RP2350 the list that the command channel works through is a whole
\* frame whatever the timings, the mode and the history of constructors and
\* teardowns: as many commands as prepare_display() counted words for, one null
\* command, at the end, and for each line of the screen one command that
\* reads its own row, scaled, and no further than the row goes
\* (picodvi_rp2350.c).
THEOREM PortsListRight == HostsSpec => []FrameListRight
<1>1. HostsKept => FrameListRight
  BY HxShows DEF HostsKept, FrameListRight
<1> QED
  BY <1>1, HostsInvariant, PTL
=============================================================================
