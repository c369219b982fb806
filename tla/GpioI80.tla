-------------------------------- MODULE GpioI80 --------------------------------
(***************************************************************************)
(* The SAMD51's bit-banged Intel 8080 bus: send()                          *)
(* (src/src/ports/samd/mod_i80bus.c) over the GPIO backend                 *)
(* (src/src/ports/common/i80bus/gpio_bitbang.c).                           *)
(*                                                                         *)
(* A byte is put on the data pins with one store to OUTSET and one to      *)
(* OUTCLR per port the pins lie on, while WR is low; the panel latches it  *)
(* at WR's rising edge.  A byte equal to the last one written is strobed   *)
(* without touching the data pins.  Every store is a step of its own,      *)
(* since other code (an interrupt handler) drives the ports' other pins in *)
(* between.                                                                *)
(*                                                                         *)
(* A byte is the set of its one bits, a port the pins whose numbers share  *)
(* a quotient by PortSize.  The panel is modelled from how the bus drives  *)
(* it.                                                                     *)
(***************************************************************************)
EXTENDS Integers, Sequences, FiniteSets

CONSTANTS
  Width,        \* DISPLAYIF_I80BUS_GPIO_WIDTH: 8 in the code
  PortSize,     \* pins of a port: 32 in the code
  MaxGroups,    \* DISPLAYIF_I80BUS_GPIO_MAX_GROUPS
  Pin,          \* the chip's pins
  Layouts,      \* the data_pins arguments tried
  MaxLen        \* bound: data bytes of one send()

Bit == 0 .. Width - 1
Byte == SUBSET Bit
AllOnes == Bit                   \* 0xFF

ASSUME SizeAssumption == Width \in Nat \ {0} /\ PortSize \in Nat \ {0}
ASSUME LayoutAssumption ==
  /\ Pin \subseteq Nat
  /\ \A pins \in Layouts : /\ pins \in [Bit -> Pin]
                           /\ \A a, b \in Bit : pins[a] = pins[b] => a = b
ASSUME BoundAssumption == MaxGroups \in Nat /\ MaxLen \in Nat

VARIABLES
  pin_ids,    \* the data pins, by bit
  high,       \* the pins, of all of the ports, that are high
  others,     \* the pins other code has driven high
  cs, dc, wr, \* the control pins
  last,       \* displayif_i80bus_gpio_write()'s local of that name
  pc,         \* the next store
  left,       \* ports this byte has not been put on yet
  sent,       \* the bytes of this send(), each with its DC level
  k,          \* the byte being written
  refused,    \* send()'s data argument is not a buffer
  latched     \* panel: the bytes latched during this send()

vars == <<pin_ids, high, others, cs, dc, wr, last, pc, left, sent, k, refused,
          latched>>
call == <<pin_ids, sent, refused>>

-----------------------------------------------------------------------------
(* displayif_i80bus_gpio_init_data().                                      *)

Port(pin) == pin \div PortSize

\* displayif_i80bus_gpio_pins_sequential(): each pin is one above that before
\* it, hence b above the first one, and on the same port.
Sequential(pins) ==
  \A b \in Bit : pins[b] = pins[0] + b /\ Port(pins[b]) = Port(pins[0])

\* The ports the data pins lie on: the lookup table's groups.
Ports(pins) == {Port(pins[b]) : b \in Bit}

LayoutOk(pins) == Sequential(pins) \/ Cardinality(Ports(pins)) <= MaxGroups

Mask(p) == {pin_ids[b] : b \in {c \in Bit : Port(pin_ids[c]) = p}}

\* What a byte sets on port p: the byte shifted, or a lookup table's entry.
Tx(p, val) ==
  IF Sequential(pin_ids) THEN {pin_ids[0] + b : b \in val}
  ELSE {pin_ids[b] : b \in {c \in val : Port(pin_ids[c]) = p}}

\* Ports are driven in the order their first data pin is in.
NextPort(p) ==
  /\ p \in left
  /\ \E b \in Bit : /\ Port(pin_ids[b]) = p
                    /\ \A c \in 0 .. b - 1 : Port(pin_ids[c]) \notin left

DataPins == {pin_ids[b] : b \in Bit}
OnPins == {b \in Bit : pin_ids[b] \in high}    \* the byte the data pins show

-----------------------------------------------------------------------------
\* The constructor: all data pins are driven low, CS is high, DC is low.
Init == /\ pin_ids \in {pins \in Layouts : LayoutOk(pins)}
        /\ others \in SUBSET (Pin \ DataPins)
        /\ high = others
        /\ cs = 1
        /\ dc = 0
        /\ wr = 0
        /\ last = AllOnes
        /\ pc = "idle"
        /\ left = {}
        /\ sent = <<>>
        /\ k = 0
        /\ refused = FALSE
        /\ latched = <<>>

Level(d, bytes) == [j \in 1 .. Len(bytes) |-> [dc |-> d, val |-> bytes[j]]]

Bytes(max) == UNION {[1 .. m -> Byte] : m \in 0 .. max}

\* send(command, data): either may be absent, which an empty sequence stands
\* for; data that is not a buffer is refused only once the command is out.
Send(command, data, bad) ==
  /\ pc = "idle"
  /\ bad => data = <<>>
  /\ sent' = Level(0, command) \o Level(1, data)
  /\ refused' = bad
  /\ latched' = <<>>
  /\ k' = 0
  /\ cs' = 0
  /\ pc' = "write"
  /\ UNCHANGED <<pin_ids, high, others, dc, wr, last, left>>

\* The next displayif_i80bus_gpio_write(): the command's, or the data's.
BeginWrite == /\ pc = "write"
              /\ k < Len(sent)
              /\ dc' = sent[k + 1].dc
              /\ last' = AllOnes
              /\ k' = k + 1
              /\ pc' = "low"
              /\ UNCHANGED <<call, high, others, cs, wr, left, latched>>

\* wr_inactive(), and the test of last.
WrLow == /\ pc = "low"
         /\ wr' = 0
         /\ IF sent[k].val # last
              THEN /\ pc' = "set"
                   /\ left' = Ports(pin_ids)
              ELSE /\ pc' = "strobe"
                   /\ left' = left
         /\ UNCHANGED <<call, high, others, cs, dc, last, k, latched>>

\* outset[0] = tx.
OutSet == /\ pc = "set"
          /\ \E p \in left : /\ NextPort(p)
                             /\ high' = high \cup Tx(p, sent[k].val)
          /\ pc' = "clear"
          /\ UNCHANGED <<call, others, cs, dc, wr, last, left, k, latched>>

\* outclr[0] = tx ^ pin_mask; after the last port, last = val.
OutClrUnmasked ==        \* mutant: clears the whole port around tx
  /\ pc = "clear"
  /\ \E p \in left : /\ NextPort(p)
                     /\ high' = high \ ({q \in Pin : Port(q) = p}
                                          \ Tx(p, sent[k].val))
                     /\ left' = left \ {p}
  /\ IF left' # {} THEN pc' = "set" /\ last' = last
                   ELSE pc' = "strobe" /\ last' = sent[k].val
  /\ UNCHANGED <<call, others, cs, dc, wr, k, latched>>
OutClrForgetful ==       \* mutant: last is not updated
  /\ pc = "clear"
  /\ \E p \in left : /\ NextPort(p)
                     /\ high' = high \ (Mask(p) \ Tx(p, sent[k].val))
                     /\ left' = left \ {p}
  /\ pc' = IF left' # {} THEN "set" ELSE "strobe"
  /\ UNCHANGED <<call, others, cs, dc, wr, last, k, latched>>
OutClr ==
  /\ pc = "clear"
  /\ \E p \in left :
       /\ NextPort(p)
       /\ LET tx == Tx(p, sent[k].val)
          IN  high' = high \ ((tx \cup Mask(p)) \ (tx \cap Mask(p)))
       /\ left' = left \ {p}
  /\ IF left' # {} THEN pc' = "set" /\ last' = last
                   ELSE pc' = "strobe" /\ last' = sent[k].val
  /\ UNCHANGED <<call, others, cs, dc, wr, k, latched>>

\* wr_active(): a rising edge, at which the panel latches.
StrobePastEnd ==         \* mutant: the last byte does not end the write
  /\ pc = "strobe"
  /\ wr' = 1
  /\ latched' = IF wr = 0 /\ cs = 0
                  THEN Append(latched, [dc |-> dc, val |-> OnPins])
                  ELSE latched
  /\ k' = k + 1
  /\ pc' = "end"
  /\ UNCHANGED <<call, high, others, cs, dc, last, left>>
Strobe == /\ pc = "strobe"
          /\ wr' = 1
          /\ latched' = IF wr = 0 /\ cs = 0
                          THEN Append(latched, [dc |-> dc, val |-> OnPins])
                          ELSE latched
          /\ IF k < Len(sent) /\ sent[k + 1].dc = sent[k].dc
               THEN k' = k + 1 /\ pc' = "low"
               ELSE k' = k /\ pc' = "end"
          /\ UNCHANGED <<call, high, others, cs, dc, last, left>>

\* The write's last wr_inactive().
EndWrite == /\ pc = "end"
            /\ wr' = 0
            /\ pc' = "write"
            /\ UNCHANGED <<call, high, others, cs, dc, last, left, k, latched>>

\* send() returns, or mp_get_buffer_raise() raises and CS stays low.
Return == /\ pc = "write"
          /\ k = Len(sent)
          /\ cs' = IF refused THEN cs ELSE 1
          /\ pc' = "idle"
          /\ UNCHANGED <<call, high, others, dc, wr, last, left, k, latched>>

\* Other code drives one of the remaining pins.
OtherPin == /\ \E q \in Pin \ DataPins :
                 \/ /\ high' = high \cup {q}
                    /\ others' = others \cup {q}
                 \/ /\ high' = high \ {q}
                    /\ others' = others \ {q}
            /\ UNCHANGED <<call, cs, dc, wr, last, pc, left, k, latched>>

Next == \/ \E command \in Bytes(1), data \in Bytes(MaxLen), bad \in BOOLEAN :
             Send(command, data, bad)
        \/ BeginWrite \/ WrLow \/ OutSet \/ OutClr \/ Strobe \/ EndWrite
        \/ Return
        \/ OtherPin

Spec == Init /\ [][Next]_vars

-----------------------------------------------------------------------------
(* Properties.                                                             *)

\* The type invariant.
TypeOK == /\ pin_ids \in [Bit -> Pin]
          /\ high \subseteq Pin /\ others \subseteq Pin
          /\ cs \in {0, 1} /\ dc \in {0, 1} /\ wr \in {0, 1}
          /\ last \in Byte
          /\ pc \in {"idle", "write", "low", "set", "clear", "strobe", "end"}
          /\ left \subseteq Ports(pin_ids)
          /\ sent \in Seq([dc : {0, 1}, val : Byte])
          /\ latched \in Seq([dc : {0, 1}, val : Byte])
          /\ k \in 0 .. Len(sent)
          /\ refused \in BOOLEAN

\* A byte 0xFF with nothing but 0xFF before it in its write: last says that
\* it is on the pins before anything has been put there, so it is strobed
\* with what they show.
LeadingOnes(j) ==
  \A i \in 1 .. j : sent[i].dc = sent[j].dc => sent[i].val = AllOnes

\* The panel latches as many bytes as send() was given, in order, each at the
\* DC level of its kind, and each the byte it was but for leading ones,
\* whatever the pin layout, although a repeated byte never touches the pins.
PanelGetsBytes ==
  /\ Len(latched) <= Len(sent)
  /\ \A j \in 1 .. Len(latched) :
       /\ latched[j].dc = sent[j].dc
       /\ LeadingOnes(j) \/ latched[j] = sent[j]
  /\ pc = "idle" => Len(latched) = Len(sent)

\* The stores to OUTSET and OUTCLR leave the ports' other pins to whoever
\* drives them, also when that happens between the two.
OtherPinsKept == high \ DataPins = others
=============================================================================
