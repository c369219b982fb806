-------------------------------- MODULE PioI80 --------------------------------
(***************************************************************************)
(* i80bus on RP2 (src/src/ports/rp2/mod_i80bus.c): the state machine and   *)
(* the DMA channel behind an I80Bus object, which other code claims too,   *)
(* and the program memory, which is filled once and never given back.      *)
(*                                                                         *)
(* Nothing interrupts a call here, so that each is one step.  The claims   *)
(* are made with "required" set: when there is nothing to claim the SDK    *)
(* panics, and the board starts anew.                                      *)
(***************************************************************************)
EXTENDS Naturals, FiniteSets

CONSTANTS Objects, None,    \* as in EspI80
          StateMachines,    \* of pio1, where the constructor claims
          Channels          \* DMA channels

VARIABLES
  host,   \* s_host, and whether the program has been loaded
  live,   \* who has claimed a state machine or a channel: the bus ("i80"),
          \* a bus that was never returned ("lost") or other code
  objs    \* the objects

vars == <<host, live, objs>>

Resource == {<<"sm", s>> : s \in StateMachines} \cup {<<"dma", c>> : c \in Channels}

Init == /\ host = [sm |-> None, dma |-> None, loaded |-> FALSE]
        /\ live = [r \in Resource |-> None]
        /\ objs = [o \in Objects |-> None]

Free(kind) == {r \in Resource : r[1] = kind /\ live[r] = None}

\* i80bus_host_teardown().
HostTeardownKeeping ==        \* mutant: the mirror is not cleared
  /\ live' = [r \in Resource |-> IF r \in {host.sm, host.dma} THEN None ELSE live[r]]
  /\ host' = host
HostTeardown ==
  /\ live' = [r \in Resource |-> IF r \in {host.sm, host.dma} THEN None ELSE live[r]]
  /\ host' = [host EXCEPT !.sm = None, !.dma = None]

\* Claims that follow the teardown.
After(r) == live[r] = None \/ r \in {host.sm, host.dma}
ClaimedBy(who, s, d) ==
  [r \in Resource |-> IF r \in {s, d} THEN who
                     ELSE IF r \in {host.sm, host.dma} THEN None ELSE live[r]]

\* The constructor: the state machine, the program unless it is loaded, the
\* channel, and the object.  The mirror learns of them last, so that no
\* memory for the object leaves both claimed for good: lost.
MakeOk(o) ==
  \E s, d \in {r \in Resource : After(r)} :
    /\ s[1] = "sm" /\ d[1] = "dma"
    /\ \/ /\ live' = ClaimedBy("i80", s, d)
          /\ host' = [sm |-> s, dma |-> d, loaded |-> TRUE]
          /\ objs' = [objs EXCEPT ![o] = [sm |-> s, dma |-> d]]
       \/ /\ live' = ClaimedBy("lost", s, d)
          /\ host' = [sm |-> None, dma |-> None, loaded |-> TRUE]
          /\ UNCHANGED objs

\* pio_add_program() finds no room: what has been claimed is given back.
MakeUnloaded ==
  /\ ~host.loaded
  /\ HostTeardown
  /\ UNCHANGED objs

\* With nothing to claim: the board starts anew.
Panic ==
  /\ \E kind \in {"sm", "dma"} :
       ~\E r \in Resource : r[1] = kind /\ After(r)
  /\ host' = [sm |-> None, dma |-> None, loaded |-> FALSE]
  /\ live' = [r \in Resource |-> None]
  /\ objs' = [o \in Objects |-> None]

Make(o) == MakeOk(o) \/ MakeUnloaded \/ Panic

\* Of an object that is not deinited, stale or not.
Deinit(o) ==
  /\ objs[o] # None
  /\ HostTeardown
  /\ objs' = [objs EXCEPT ![o] = None]

SoftReset ==
  /\ HostTeardown
  /\ objs' = [o \in Objects |-> None]

\* Other code, which has its own teardown, claims and gives back.
OtherClaim ==
  \E kind \in {"sm", "dma"} : \E r \in Free(kind) :
    /\ live' = [live EXCEPT ![r] = "other"]
    /\ UNCHANGED <<host, objs>>
OtherRelease ==
  \E r \in Resource :
    /\ live[r] = "other"
    /\ live' = [live EXCEPT ![r] = None]
    /\ UNCHANGED <<host, objs>>

Next == \/ \E o \in Objects : Make(o) \/ Deinit(o)
        \/ SoftReset
        \/ OtherClaim \/ OtherRelease

-----------------------------------------------------------------------------
\* The bus has claimed what the mirror names and no more, what was lost apart:
\* a teardown never takes away what other code has claimed since.  The two are
\* held together, and there is always a usable object that names both.
\* (Objects made before it still name what has been given back.)
ReleasedOnce ==
  /\ {r \in Resource : live[r] = "i80"} = {host.sm, host.dma} \ {None}
  /\ host.sm = None <=> host.dma = None
  /\ host.sm # None =>
       \E o \in Objects : objs[o] = [sm |-> host.sm, dma |-> host.dma]
=============================================================================
