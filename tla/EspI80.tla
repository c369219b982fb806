-------------------------------- MODULE EspI80 --------------------------------
(***************************************************************************)
(* i80bus on ESP32 (src/src/ports/esp32/mod_i80bus.c): the life of the SDK *)
(* bus and panel IO behind an I80Bus object.  Unlike mipidsi's handles,    *)
(* these reach the host mirror only once both have been made: a bus whose  *)
(* IO could not be made is out of everyone's reach, for good.              *)
(* The byte array that the constructor makes last, after the mirror has     *)
(* been filled in, is taken to find memory.                                *)
(***************************************************************************)
EXTENDS Naturals, Sequences

CONSTANTS Objects,  \* the program's variables for objects
          None,     \* NULL, and no object
          Handles   \* addresses the SDK may hand out, per kind

VARIABLES
  host,   \* s_host
  live,   \* the handles that are allocated, with their kind, and which of
          \* them are lost (history)
  objs,   \* the objects
  call    \* the call in progress, or None

vars == <<host, live, objs, call>>

Kind == {"io", "bus"}
NoHost == [k \in Kind |-> None]

Delete(k) == [do |-> "delete", what |-> k]
New(k) == [do |-> "new", what |-> k]
HostTeardown == <<Delete("io"), Delete("bus")>>

Begin(op, self, steps) ==
  call' = [op |-> op, self |-> self, steps |-> steps, made |-> NoHost]

Make(o) ==
  /\ call = None
  /\ Begin("make", o, HostTeardown \o <<New("bus"), New("io")>>)
  /\ UNCHANGED <<host, live, objs>>

DeinitStale ==           \* mutant: an object deletes its own handles again
  \E o \in Objects :
    /\ call = None
    /\ objs[o] # None
    /\ Begin("deinit", o, HostTeardown)
    /\ host' = IF objs[o].io # None THEN [k \in Kind |-> objs[o][k]] ELSE host
    /\ UNCHANGED <<live, objs>>
Deinit ==
  \E o \in Objects :
    /\ call = None
    /\ objs[o] # None /\ ~objs[o].deinited
    /\ Begin("deinit", o, HostTeardown)
    /\ UNCHANGED <<host, live, objs>>

SoftReset ==
  /\ call = None
  /\ Begin("soft_reset", None, HostTeardown)
  /\ UNCHANGED <<host, live, objs>>

Step(do) == call # None /\ call.steps # << >> /\ Head(call.steps).do = do
What == Head(call.steps).what

DeleteStep ==
  /\ Step("delete")
  /\ live' = live \ {<<What, host[What]>>}
  /\ host' = [host EXCEPT ![What] = None]
  /\ call' = [call EXCEPT !.steps = Tail(@)]
  /\ UNCHANGED objs

\* What nobody knows of once the constructor raises.
Lost == IF call.made.bus = None THEN {} ELSE {<<"lost", call.made.bus>>}

\* A handle is made, or the call raises; the mirror does not know of it yet.
NewStep ==
  /\ Step("new")
  /\ \/ \E h \in Handles :
          /\ <<What, h>> \notin live
          /\ live' = live \cup {<<What, h>>}
          /\ call' = [call EXCEPT !.steps = Tail(@), !.made[What] = h]
     \/ /\ call' = None
        /\ live' = live \cup Lost
  /\ UNCHANGED <<host, objs>>

Return ==
  /\ call # None
  /\ call.steps = << >>
  /\ host' = IF call.op = "make" THEN call.made ELSE host
  /\ objs' = CASE call.op = "make" ->
                    [objs EXCEPT ![call.self] =
                       [io |-> call.made.io, bus |-> call.made.bus,
                        deinited |-> FALSE]]
               [] call.op = "deinit" ->
                    [objs EXCEPT ![call.self] =
                       [io |-> None, bus |-> None, deinited |-> TRUE]]
               [] OTHER -> [o \in Objects |-> None]
  /\ call' = None
  /\ UNCHANGED live

Init == /\ host = NoHost
        /\ live = {}
        /\ objs = [o \in Objects |-> None]
        /\ call = None

Next == \/ \E o \in Objects : Make(o)
        \/ Deinit
        \/ SoftReset
        \/ DeleteStep \/ NewStep \/ Return

-----------------------------------------------------------------------------
\* The mirror, or the constructor that is running.
Holds(k, h) == host[k] = h \/ (call # None /\ call.made[k] = h)

\* What is allocated is what the mirror or a running constructor names, and
\* the buses that were lost: nothing is deleted twice, and no lost bus is.
\* The IO goes before the bus it was made on, and there is always a usable
\* object that names all that the mirror does.  (Objects made before it still
\* name handles that are gone.)
ReleasedOnce ==
  /\ \A k \in Kind, h \in Handles :
       <<k, h>> \in live <=> Holds(k, h) \/ (k = "bus" /\ <<"lost", h>> \in live)
  /\ \A h \in Handles : <<"lost", h>> \in live => ~Holds("bus", h)
  /\ host.io # None => host.bus # None
  /\ call = None /\ host.bus # None =>
       \E o \in Objects :
         objs[o] = [io |-> host.io, bus |-> host.bus, deinited |-> FALSE]
=============================================================================
