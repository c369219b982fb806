-------------------------------- MODULE Elcdif --------------------------------
(***************************************************************************)
(* dotclockframebuffer on the i.MX RT1062                                  *)
(* (src/src/ports/mimxrt/mod_dotclockframebuffer_elcdif.c): one eLCDIF     *)
(* that scans out of the GC heap, one flag that says it runs, and objects  *)
(* that each own a frame buffer and each may be stale.                     *)
(*                                                                         *)
(* The program is taken to keep a reference to an object it has not        *)
(* deinited: the type has no finaliser, so a dropped object's buffer is    *)
(* swept while the eLCDIF may be reading it.                               *)
(***************************************************************************)
EXTENDS Naturals, Sequences

CONSTANTS Objects,  \* the program's variables for objects
          None,     \* NULL, and no object
          Blocks    \* GC heap blocks for frame buffers

VARIABLES
  host,   \* s_elcdif_live
  live,   \* the blocks that are allocated
  objs,   \* the objects
  call,   \* the call in progress, or None
  scan    \* the blocks the eLCDIF may be reading

vars == <<host, live, objs, call, scan>>

Begin(op, self, steps) ==
  call' = [op |-> op, self |-> self, buf |-> None, steps |-> steps]
Step(s) == call # None /\ call.steps # << >> /\ Head(call.steps) = s
Continue == call' = [call EXCEPT !.steps = Tail(@)]

\* The constructor stops whatever runs, then allocates and starts.
Make(o) ==
  /\ call = None
  /\ objs[o] # None => objs[o].deinited
  /\ Begin("make", o, <<"teardown", "malloc", "init">>)
  /\ UNCHANGED <<host, live, objs, scan>>

\* dotclockframebuffer_deinit_internal() stops the eLCDIF whosever it is.
DeinitFreesFirst ==      \* mutant: frees the buffer, then stops
  \E o \in Objects :
    /\ call = None
    /\ objs[o] # None /\ ~objs[o].deinited
    /\ Begin("deinit", o, <<"free", "teardown">>)
    /\ UNCHANGED <<host, live, objs, scan>>
Deinit ==
  \E o \in Objects :
    /\ call = None
    /\ objs[o] # None /\ ~objs[o].deinited
    /\ Begin("deinit", o, <<"teardown", "free">>)
    /\ UNCHANGED <<host, live, objs, scan>>

\* The hook, then the sweep of the whole heap.
SoftReset ==
  /\ call = None
  /\ Begin("soft_reset", None, <<"teardown", "sweep">>)
  /\ UNCHANGED <<host, live, objs, scan>>

\* dcfb_host_teardown().
Teardown ==
  /\ Step("teardown")
  /\ IF host THEN scan' = {} /\ host' = FALSE ELSE UNCHANGED <<scan, host>>
  /\ Continue
  /\ UNCHANGED <<live, objs>>

Malloc ==
  /\ Step("malloc")
  /\ \/ \E block \in Blocks \ live :
          /\ live' = live \cup {block}
          /\ call' = [call EXCEPT !.steps = Tail(@), !.buf = block]
     \/ call' = None /\ UNCHANGED live
  /\ UNCHANGED <<host, objs, scan>>

\* dotclockframebuffer_init_elcdif(): the clock search may find no source,
\* and the buffer is then garbage.
InitElcdif ==
  /\ Step("init")
  /\ \/ /\ host' = TRUE
        /\ scan' = scan \cup {call.buf}
        /\ Continue
        /\ UNCHANGED live
     \/ /\ live' = live \ {call.buf}
        /\ call' = None
        /\ UNCHANGED <<host, scan>>
  /\ UNCHANGED objs

Free ==
  /\ Step("free")
  /\ live' = live \ {objs[call.self].buf}
  /\ Continue
  /\ UNCHANGED <<host, objs, scan>>

Sweep ==
  /\ Step("sweep")
  /\ live' = {}
  /\ Continue
  /\ UNCHANGED <<host, objs, scan>>

Return ==
  /\ call # None
  /\ call.steps = << >>
  /\ objs' = CASE call.op = "make" ->
                    [objs EXCEPT ![call.self] = [buf |-> call.buf,
                                                 deinited |-> FALSE]]
               [] call.op = "deinit" ->
                    [objs EXCEPT ![call.self] = [buf |-> None,
                                                 deinited |-> TRUE]]
               [] OTHER -> [o \in Objects |-> None]
  /\ call' = None
  /\ UNCHANGED <<host, live, scan>>

\* refresh(): an object that is built is ready for good, so init_elcdif()
\* returns at once, and the eLCDIF, if it runs, goes over to this object's
\* buffer at the end of a frame.
Refresh(o) ==
  /\ call = None
  /\ objs[o] # None /\ ~objs[o].deinited /\ objs[o].buf # None
  /\ scan' = IF host THEN scan \cup {objs[o].buf} ELSE scan
  /\ UNCHANGED <<host, live, objs, call>>

Latched ==
  /\ \E block \in scan : scan' = {block}
  /\ UNCHANGED <<host, live, objs, call>>

Init == /\ host = FALSE
        /\ live = {}
        /\ objs = [o \in Objects |-> None]
        /\ call = None
        /\ scan = {}

Next == \/ \E o \in Objects : Make(o) \/ Refresh(o)
        \/ Deinit \/ SoftReset
        \/ Teardown \/ Malloc \/ InitElcdif \/ Free \/ Sweep \/ Return
        \/ Latched

-----------------------------------------------------------------------------
\* The eLCDIF reads allocated blocks only, although a stale object may show
\* its buffer in another's place and any object's deinit() stops it.
ScanRight == /\ scan \subseteq live
             /\ scan # {} => host

\* An object that is not deinited owns its block: no block is freed twice.
ReleasedOnce ==
  /\ \A o \in Objects : objs[o] # None /\ ~objs[o].deinited /\ call = None
                          => objs[o].buf \in live
  /\ \A o, p \in Objects :
       o # p /\ objs[o] # None /\ objs[p] # None /\ objs[o].buf # None
         => objs[o].buf # objs[p].buf
=============================================================================
