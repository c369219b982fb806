------------------------------ MODULE FlexioI80 ------------------------------
(***************************************************************************)
(* i80bus on i.MX RT1062 (src/src/ports/mimxrt/mod_i80bus.c): one FlexIO   *)
(* unit, the object its chip-select and D/C callbacks act for, and send(). *)
(*                                                                         *)
(* A second object takes the unit over but the first one stays usable: its *)
(* own lcd describes its pins.  Each object drives a panel of its own, on  *)
(* common data pins; the SDK's flexio_mculcd driver and the panels are     *)
(* modelled from how the code uses them.                                   *)
(***************************************************************************)
EXTENDS Naturals, SequencesExt

CONSTANTS Objects, None, Messages,   \* as in SpiBus
          BulkThreshold   \* I80BUS_BULK_THRESHOLD

VARIABLES
  bus,      \* s_callback_bus, s_flexio_in_use, the objects, and those that
            \* have a chip select
  sending,  \* the send() in progress, or None
  panel     \* by object: CS and D/C, and the bytes latched during this send()

vars == <<bus, sending, panel>>

Init ==
  /\ \E c \in SUBSET Objects :
       bus = [callback |-> None, inUse |-> FALSE, hasCs |-> c,
              objs |-> [o \in Objects |-> None]]
  /\ sending = None
  /\ panel = [o \in Objects |->
                [cs |-> IF o \in bus.hasCs THEN 1 ELSE 0, dc |-> 0, got |-> << >>]]

-----------------------------------------------------------------------------
(* The callbacks, and the SDK's driver.                                    *)

\* Both act for s_callback_bus.  A panel without a chip select is always
\* selected.
SetCspin(p, level) == IF bus.callback \notin bus.hasCs THEN p
                      ELSE [p EXCEPT ![bus.callback].cs = level]
SetRspin(p, level) == IF bus.callback = None THEN p
                      ELSE [p EXCEPT ![bus.callback].dc = level]

\* Every panel that is selected latches a byte.
Latched(p, bytes) ==
  [o \in Objects |->
     IF bus.inUse /\ p[o].cs = 0
     THEN [p[o] EXCEPT !.got = @ \o [j \in DOMAIN bytes |->
                                       [dc |-> p[o].dc, val |-> bytes[j]]]]
     ELSE p[o]]

StartTransfer(p) == SetCspin(p, 0)
StopTransfer(p) == SetCspin(p, 1)
WriteCommandBlocking(p, bytes) == SetRspin(Latched(SetRspin(p, 0), bytes), 1)
WriteDataArrayBlocking(p, bytes) == Latched(SetRspin(p, 1), bytes)
TransferBlocking(p, bytes) ==
  StopTransfer(WriteDataArrayBlocking(StartTransfer(p), bytes))

-----------------------------------------------------------------------------
(* Construction and deinitialisation.                                      *)

HostTeardown(b) ==
  IF b.inUse THEN [b EXCEPT !.inUse = FALSE, !.callback = None] ELSE b

\* Either the arguments are refused after the teardown, or CS is driven high
\* and D/C low.  s_callback_bus is the new object's before the driver is set
\* up, which may fail and leave it so; that object's variable keeps what it
\* had.
Make(o) ==
  /\ sending = None
  /\ \/ /\ bus' = HostTeardown(bus)
        /\ UNCHANGED panel
     \/ /\ panel' = [panel EXCEPT ![o].cs = IF o \in bus.hasCs THEN 1 ELSE @,
                                  ![o].dc = 0]
        /\ \/ bus' = [HostTeardown(bus) EXCEPT !.callback = o]
           \/ bus' = [HostTeardown(bus) EXCEPT
                        !.callback = o, !.inUse = TRUE, !.objs[o] = "initialized"]
  /\ UNCHANGED sending

\* Of an object that was not deinited before, stale or not.
Deinit(o) ==
  /\ sending = None /\ bus.objs[o] = "initialized"
  /\ bus' = [HostTeardown(bus) EXCEPT !.objs[o] = "deinited"]
  /\ UNCHANGED <<sending, panel>>

SoftReset ==
  /\ sending = None
  /\ bus' = [HostTeardown(bus) EXCEPT !.objs = [o \in Objects |-> None]]
  /\ UNCHANGED <<sending, panel>>

-----------------------------------------------------------------------------
(* send().                                                                 *)

\* Another panel is selected if it has no chip select or a send() to it
\* raised.
BeginStale(o, command, data) ==      \* mutant: s_callback_bus is left alone
  /\ sending = None
  /\ bus.objs[o] = "initialized"
  /\ sending' = [self |-> o, command |-> command, data |-> data, next |-> "start",
                 alone |-> \A q \in Objects \ {o} : panel[q].cs = 1]
  /\ UNCHANGED <<bus, panel>>
Begin(o, command, data) ==
  /\ sending = None
  /\ bus.objs[o] = "initialized"
  /\ bus' = [bus EXCEPT !.callback = o]
  /\ sending' = [self |-> o, command |-> command, data |-> data, next |-> "start",
                 alone |-> \A q \in Objects \ {o} : panel[q].cs = 1]
  /\ UNCHANGED panel

At(s) == sending # None /\ sending.next = s
Goto(s) == sending' = [sending EXCEPT !.next = s]

Start ==
  /\ At("start") /\ Goto("command")
  /\ panel' = IF sending.self \in bus.hasCs THEN StartTransfer(panel) ELSE panel
  /\ UNCHANGED bus

WriteCommand ==
  /\ At("command") /\ Goto("data")
  /\ panel' = IF sending.command = << >> THEN panel
              ELSE WriteCommandBlocking(panel, sending.command)
  /\ UNCHANGED bus

\* A bulk transfer deselects the panel by itself.
WriteData ==
  /\ At("data") /\ Goto("stop")
  /\ panel' = IF sending.data = << >> THEN panel
              ELSE IF Len(sending.data) >= BulkThreshold
              THEN TransferBlocking(panel, sending.data)
              ELSE WriteDataArrayBlocking(panel, sending.data)
  /\ UNCHANGED bus

Ended(p) == [o \in Objects |-> [p[o] EXCEPT !.got = << >>]]

\* The command is no integer, or the data no buffer: CS stays low.
Raise ==
  /\ At("command") \/ At("data")
  /\ sending' = None
  /\ panel' = Ended(panel)
  /\ UNCHANGED bus

Return ==
  /\ At("stop")
  /\ sending' = None
  /\ panel' = Ended(IF sending.self \in bus.hasCs THEN StopTransfer(panel)
                  ELSE panel)
  /\ UNCHANGED bus

Next ==
  \/ \E o \in Objects : Make(o) \/ Deinit(o)
  \/ SoftReset
  \/ \E o \in Objects, m \in Messages : Begin(o, m[1], m[2])
  \/ Start \/ WriteCommand \/ WriteData \/ Raise \/ Return

-----------------------------------------------------------------------------
Level(d, bytes) == [j \in DOMAIN bytes |-> [dc |-> d, val |-> bytes[j]]]

\* While the unit is running the panel of the object send() is called on
\* gets the bytes, as command and as data, although the callbacks know but
\* one object; another one gets none, unless it has no chip select or a call
\* that raised has left it selected.
PanelGetsBytes ==
  sending # None /\ bus.inUse =>
    LET sent == Level(0, sending.command) \o Level(1, sending.data)
        got == panel[sending.self].got
    IN /\ IsPrefix(got, sent)
       /\ At("stop") => got = sent
       /\ sending.alone =>
            \A q \in Objects \ {sending.self} : panel[q].got = << >>
=============================================================================
