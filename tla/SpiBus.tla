-------------------------------- MODULE SpiBus --------------------------------
(***************************************************************************)
(* spibus (src/src/ports/common/spi/mod_spibus.c): the one live object and *)
(* send(), with a D/C pin or, without one, as a stream of nine-bit units   *)
(* that each begin with the D/C bit.                                       *)
(*                                                                         *)
(* A peripheral SPI is shared: other code may set it up its own way        *)
(* between two calls.  The panel is modelled from how the bus drives it:   *)
(* selecting it begins a unit, and it takes a unit as soon as it has all   *)
(* of its bits.  Bits are clocked highest first, so that those of a unit   *)
(* begun are a number.                                                     *)
(***************************************************************************)
EXTENDS Integers, SequencesExt

CONSTANTS Objects,        \* the program's variables for objects
          None,           \* NULL, and no object
          Messages        \* the arguments tried: commands and data, as bytes

VARIABLES
  bus,      \* the wiring, s_active, the objects, and the SPI
  sending,  \* the send() in progress, or None
  panel     \* selected or not, the level of D/C, the bits of the unit begun
            \* and how many they are, and what it has got during this send()

vars == <<bus, sending, panel>>

\* The constructor's arguments that matter here.  With neither a D/C pin nor
\* a chip select nothing would tell where a unit begins.
Wiring == {w \in [dc : BOOLEAN, cs : BOOLEAN, soft : BOOLEAN] : w.dc \/ w.cs}

Init ==
  /\ \E w \in Wiring :
       bus = [wiring |-> w, active |-> None, spi |-> None, ours |-> FALSE,
              objs |-> [o \in Objects |-> None]]
  /\ sending = None
  /\ panel = [selected |-> ~bus.wiring.cs, dc |-> 1, reg |-> 0, count |-> 0,
              got |-> << >>]

-----------------------------------------------------------------------------
(* The panel.                                                              *)

UnitBits == IF bus.wiring.dc THEN 8 ELSE 9

\* A byte clocked in.  The D/C level is that of the pin, or the first bit.
Clocked(p, byte) ==
  LET bits == p.reg * 256 + byte
      over == p.count + 8 - UnitBits
      unit == bits \div 2 ^ over
  IN IF over < 0 THEN [p EXCEPT !.reg = bits, !.count = @ + 8]
     ELSE [p EXCEPT !.reg = bits % 2 ^ over, !.count = over,
                    !.got = Append(@, IF bus.wiring.dc
                                      THEN [dc |-> p.dc, val |-> unit]
                                      ELSE [dc |-> unit \div 256,
                                            val |-> unit % 256])]

\* spi.write(): a byte reaches the panel if the SPI is the object's and set up
\* as it wants it.
Written(p, self, byte) ==
  IF bus.spi = self /\ bus.ours THEN Clocked(p, byte) ELSE p

\* spibus_cs_set().
Select(p) == [p EXCEPT !.selected = TRUE,
                       !.reg = IF p.selected THEN @ ELSE 0,
                       !.count = IF p.selected THEN @ ELSE 0]
Deselect(p) == IF bus.wiring.cs THEN [p EXCEPT !.selected = FALSE] ELSE p

-----------------------------------------------------------------------------
(* Construction and deinitialisation.                                      *)

\* spibus_deinit_internal().
DeinitedForgetful(b, self) ==       \* mutant: deinited is not set
  IF self = None \/ b.objs[self] # "open" THEN b
  ELSE [b EXCEPT !.spi = None,
                 !.active = IF @ = self THEN None ELSE @]
Deinited(b, self) ==
  IF self = None \/ b.objs[self] # "open" THEN b
  ELSE [b EXCEPT !.spi = IF @ = self THEN None ELSE @,
                 !.objs[self] = "deinited",
                 !.active = IF @ = self THEN None ELSE @]

HostTeardown(b) == [Deinited(b, b.active) EXCEPT !.active = None]

\* The prior object is torn down first; a bad pin raises after that.  The CS
\* pin is driven inactive.
Make(o) ==
  /\ sending = None
  /\ \/ /\ bus' = [HostTeardown(bus) EXCEPT
                     !.active = o, !.spi = o, !.ours = TRUE, !.objs[o] = "open"]
        /\ panel' = Deselect(panel)
     \/ /\ bus' = HostTeardown(bus)
        /\ panel' \in {panel, Deselect(panel)}
  /\ UNCHANGED sending

Deinit(o) ==
  /\ sending = None /\ bus.objs[o] # None
  /\ bus' = Deinited(bus, o)
  /\ UNCHANGED <<sending, panel>>

SoftReset ==
  /\ sending = None
  /\ bus' = [HostTeardown(bus) EXCEPT !.objs = [o \in Objects |-> None]]
  /\ UNCHANGED <<sending, panel>>

\* Other code sets the peripheral up for its own device.
OtherInit ==
  /\ sending = None /\ ~bus.wiring.soft
  /\ bus' = [bus EXCEPT !.ours = FALSE]
  /\ UNCHANGED <<sending, panel>>

-----------------------------------------------------------------------------
(* send().                                                                 *)

\* spibus_reinit_spi(): not for a bit-banged SPI.
ReinitNever(b) == b                                              \* mutant
ReinitSpi(b) == IF b.wiring.soft THEN b ELSE [b EXCEPT !.ours = TRUE]

Level(d, bytes) == [j \in DOMAIN bytes |-> [dc |-> d, val |-> bytes[j]]]
DcCmd == 0
DcData == 1

\* The command, if there is one, and the data, if there is any: a value that
\* is no buffer is passed over.
Begin(o, command, data) ==
  /\ sending = None
  /\ bus.objs[o] = "open"
  /\ bus' = ReinitSpi(bus)
  /\ panel' = Select(panel)
  /\ sending' = [self |-> o, sent |-> Level(DcCmd, command) \o Level(DcData, data),
                 i |-> 1, bits |-> 0, buffer |-> 0,
                 aligned |-> panel'.count = 0]

Unit == sending.sent[sending.i]
LastOfWrite == sending.i = Len(sending.sent) \/ sending.sent[sending.i + 1].dc # Unit.dc
More == sending # None /\ sending.i <= Len(sending.sent)

\* With a D/C pin.
WriteByte ==
  /\ More /\ bus.wiring.dc
  /\ panel' = Written([panel EXCEPT !.dc = Unit.dc], sending.self, Unit.val)
  /\ sending' = [sending EXCEPT !.i = @ + 1]
  /\ UNCHANGED bus

\* spibus_write_9bit(), an iteration: what is left of the byte before, the
\* D/C bit, and what fits of this one.  Of every eighth byte nothing fits, and
\* it follows as a whole.
PackedShort ==                  \* mutant: the byte before is shifted too little
  LET bits == (sending.bits + 1) % 8
  IN IF bits = 0 THEN (sending.buffer * 2 + Unit.dc) % 256
     ELSE ((sending.buffer * 2 ^ (8 - bits)) % 256) + Unit.dc * 2 ^ (8 - bits)
            + Unit.val \div 2 ^ bits
Packed ==
  LET bits == (sending.bits + 1) % 8
  IN IF bits = 0 THEN (sending.buffer * 2 + Unit.dc) % 256
     ELSE ((sending.buffer * 2 ^ (9 - bits)) % 256) + Unit.dc * 2 ^ (8 - bits)
            + Unit.val \div 2 ^ bits

\* After the last byte the bits left over are padded, and CS is toggled.
Padded(p, self, bits, byte) ==
  IF bits = 0 THEN p
  ELSE Select(Deselect(Written(p, self, (byte * 2 ^ (8 - bits)) % 256)))

Write9bit ==
  /\ More /\ ~bus.wiring.dc
  /\ LET bits == (sending.bits + 1) % 8
         packed == Written(panel, sending.self, Packed)
         written == IF bits = 0 THEN Written(packed, sending.self, Unit.val)
                                ELSE packed
     IN /\ panel' = IF LastOfWrite THEN Padded(written, sending.self, bits, Unit.val)
                    ELSE written
        /\ sending' = [sending EXCEPT
                         !.i = @ + 1,
                         !.bits = IF LastOfWrite THEN 0 ELSE bits,
                         !.buffer = IF LastOfWrite THEN 0 ELSE Unit.val]
  /\ UNCHANGED bus

\* A write, or the conversion of the command, raises: CS stays active.
Raise ==
  /\ More
  /\ sending' = None
  /\ panel' = [panel EXCEPT !.got = << >>]
  /\ UNCHANGED bus

Return ==
  /\ sending # None /\ ~More
  /\ panel' = [Deselect(panel) EXCEPT !.got = << >>]
  /\ sending' = None
  /\ UNCHANGED bus

Next ==
  \/ \E o \in Objects : Make(o) \/ Deinit(o)
  \/ SoftReset
  \/ OtherInit
  \/ \E o \in Objects, m \in Messages : Begin(o, m[1], m[2])
  \/ WriteByte \/ Write9bit \/ Raise \/ Return

-----------------------------------------------------------------------------
\* The panel gets exactly the bytes of the call, each as a command or as
\* data, unless a call that raised has left it in the middle of a unit.
PanelGetsBytes ==
  sending # None /\ sending.aligned =>
    /\ IsPrefix(panel.got, sending.sent)
    /\ ~More => panel.got = sending.sent
=============================================================================
