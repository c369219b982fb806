----------------------------- MODULE Wires_proofs -----------------------------
(***************************************************************************)
(* What holds of the buses that MCWires composes: of the GPIO bus for      *)
(* every number of data pins, every layout over ports of any size and      *)
(* every length of a write, of the SPI, I2C and FlexIO buses for every     *)
(* number of objects and every payload, and of the HUB75 matrix for every  *)
(* size of panel and of chain, every depth and every picture.              *)
(***************************************************************************)
EXTENDS MCWires, SequenceTheorems, TLAPS

-----------------------------------------------------------------------------
(* The layouts and what a byte sets.                                       *)

LayoutInv == pin_ids \in Layouts /\ LayoutOk(pin_ids)

LEMMA LayoutFacts ==
  ASSUME LayoutInv
  PROVE  /\ pin_ids \in [Bit -> Pin]
         /\ \A a, b \in Bit : pin_ids[a] = pin_ids[b] => a = b
BY LayoutAssumption DEF LayoutInv

\* Whether shifted or looked up, a byte sets on a port the pins of its one
\* bits that lie there.
LEMMA TxPins ==
  ASSUME LayoutInv, NEW p \in Ports(pin_ids), NEW val \in Byte
  PROVE  Tx(p, val) = {pin_ids[b] : b \in {c \in val : Port(pin_ids[c]) = p}}
<1>1. CASE Sequential(pin_ids)
  <2>1. \A b \in Bit : pin_ids[b] = pin_ids[0] + b /\ Port(pin_ids[b]) = Port(pin_ids[0])
    BY <1>1 DEF Sequential
  <2>2. p = Port(pin_ids[0])
    BY <2>1 DEF Ports
  <2>3. \A b \in val : Port(pin_ids[b]) = p /\ pin_ids[b] = pin_ids[0] + b
    BY <2>1, <2>2 DEF Byte
  <2>4. {c \in val : Port(pin_ids[c]) = p} = val
    BY <2>3
  <2>5. Tx(p, val) = {pin_ids[0] + b : b \in val}
    BY <1>1 DEF Tx
  <2>6. {pin_ids[0] + b : b \in val} = {pin_ids[b] : b \in val}
    BY <2>3
  <2> QED
    BY <2>4, <2>5, <2>6
<1>2. CASE ~Sequential(pin_ids)
  <2>1. {c \in val : Port(pin_ids[c]) = p} = {c \in val : Port(pin_ids[c]) = p}
    OBVIOUS
  <2> QED
    BY <1>2 DEF Tx
<1> QED
  BY <1>1, <1>2

\* In terms of the pins: those of the byte's one bits on the port, all of
\* them pins of the mask.
LEMMA TxFacts ==
  ASSUME LayoutInv, NEW p \in Ports(pin_ids), NEW val \in Byte
  PROVE  /\ Tx(p, val) \subseteq Mask(p)
         /\ \A b \in Bit : pin_ids[b] \in Tx(p, val)
                             <=> b \in val /\ Port(pin_ids[b]) = p
<1>1. Tx(p, val) = {pin_ids[b] : b \in {c \in val : Port(pin_ids[c]) = p}}
  BY TxPins
<1>2. \A a, b \in Bit : pin_ids[a] = pin_ids[b] => a = b
  BY LayoutFacts
<1>3. val \subseteq Bit
  BY DEF Byte
<1>4. Tx(p, val) \subseteq Mask(p)
  BY <1>1, <1>3 DEF Mask
<1>5. ASSUME NEW b \in Bit
      PROVE  pin_ids[b] \in Tx(p, val) <=> b \in val /\ Port(pin_ids[b]) = p
  BY <1>1, <1>2, <1>3
<1> QED
  BY <1>4, <1>5

LEMMA MaskFacts ==
  ASSUME LayoutInv, NEW p
  PROVE  /\ Mask(p) \subseteq DataPins
         /\ \A b \in Bit : pin_ids[b] \in Mask(p) <=> Port(pin_ids[b]) = p
<1>1. \A a, b \in Bit : pin_ids[a] = pin_ids[b] => a = b
  BY LayoutFacts
<1> QED
  BY <1>1 DEF Mask, DataPins

LEMMA DataPinFacts ==
  ASSUME LayoutInv
  PROVE  DataPins \subseteq Pin
BY LayoutFacts DEF DataPins

\* The port that is next is the same as long as the ports left are.
LEMMA NextPortUnique ==
  ASSUME LayoutInv, NEW p, NEW q, NextPort(p), NextPort(q)
  PROVE  p = q
<1>1. PICK b \in Bit : Port(pin_ids[b]) = p /\ \A c \in 0 .. b - 1 : Port(pin_ids[c]) \notin left
  BY DEF NextPort
<1>2. PICK d \in Bit : Port(pin_ids[d]) = q /\ \A c \in 0 .. d - 1 : Port(pin_ids[c]) \notin left
  BY DEF NextPort
<1>3. p \in left /\ q \in left
  BY DEF NextPort
<1>4. b = d
  <2>1. ~(b < d)
    BY <1>1, <1>2, <1>3, SizeAssumption DEF Bit
  <2>2. ~(d < b)
    BY <1>1, <1>2, <1>3, SizeAssumption DEF Bit
  <2> QED
    BY <2>1, <2>2, SizeAssumption DEF Bit
<1> QED
  BY <1>1, <1>2, <1>4

-----------------------------------------------------------------------------
(* The calls.                                                              *)

Unit == [dc : {0, 1}, val : Byte]

LEMMA BytesAreSequences ==
  ASSUME NEW max \in Nat, NEW s \in Bytes(max)
  PROVE  s \in Seq(Byte)
<1>1. PICK m \in 0 .. max : s \in [1 .. m -> Byte]
  BY DEF Bytes
<1> QED
  BY <1>1

LEMMA LevelFacts ==
  ASSUME NEW d \in {0, 1}, NEW s \in Seq(Byte)
  PROVE  /\ Level(d, s) \in Seq(Unit)
         /\ Len(Level(d, s)) = Len(s)
         /\ \A j \in 1 .. Len(s) : Level(d, s)[j] = [dc |-> d, val |-> s[j]]
BY DEF Level, Unit

\* The command comes before the data.
CommandFirst ==
  \A i, j \in 1 .. Len(sent) : i <= j => sent[i].dc <= sent[j].dc

LEMMA ConcatFacts ==
  ASSUME NEW S, NEW c \in Seq(S), NEW d \in Seq(S)
  PROVE  /\ c \o d \in Seq(S)
         /\ Len(c \o d) = Len(c) + Len(d)
         /\ \A i \in 1 .. Len(c) : (c \o d)[i] = c[i]
         /\ \A i \in 1 .. Len(d) : (c \o d)[Len(c) + i] = d[i]
OBVIOUS

\* What send() queues.
LEMMA SendFacts ==
  ASSUME NEW command \in Bytes(1), NEW data \in Bytes(MaxLen), NEW bad \in BOOLEAN,
         Send(command, data, bad)
  PROVE  sent' \in Seq(Unit) /\ CommandFirst'
<1>1. command \in Seq(Byte) /\ data \in Seq(Byte)
  BY BytesAreSequences, BoundAssumption
<1>2. PICK c \in Seq(Unit) :
        /\ c = Level(0, command) /\ Len(c) = Len(command)
        /\ \A j \in 1 .. Len(command) : c[j] = [dc |-> 0, val |-> command[j]]
  BY <1>1, LevelFacts
<1>3. PICK d \in Seq(Unit) :
        /\ d = Level(1, data) /\ Len(d) = Len(data)
        /\ \A j \in 1 .. Len(data) : d[j] = [dc |-> 1, val |-> data[j]]
  BY <1>1, LevelFacts
<1>4. sent' = c \o d
  BY <1>2, <1>3 DEF Send
<1>5. /\ sent' \in Seq(Unit) /\ Len(sent') = Len(c) + Len(d)
      /\ \A i \in 1 .. Len(c) : sent'[i] = c[i]
      /\ \A i \in 1 .. Len(d) : sent'[Len(c) + i] = d[i]
  BY <1>4, ConcatFacts
<1>6. Len(c) \in Nat /\ Len(d) \in Nat
  OBVIOUS
<1>7. ASSUME NEW i \in 1 .. Len(c) PROVE sent'[i].dc = 0
  <2>1. sent'[i] = [dc |-> 0, val |-> command[i]]
    BY <1>2, <1>5
  <2> QED
    BY <2>1
<1>8. ASSUME NEW i \in Len(c) + 1 .. Len(sent') PROVE sent'[i].dc = 1
  <2>1. i - Len(c) \in 1 .. Len(d) /\ i = Len(c) + (i - Len(c))
    BY <1>5, <1>6
  <2>2. sent'[i] = [dc |-> 1, val |-> data[i - Len(c)]]
    BY <1>3, <1>5, <2>1
  <2> QED
    BY <2>2
<1>9. CommandFirst'
  <2> SUFFICES ASSUME NEW i \in 1 .. Len(sent'), NEW j \in 1 .. Len(sent'), i <= j
               PROVE  sent'[i].dc <= sent'[j].dc
    BY DEF CommandFirst
  <2>1. CASE i <= Len(c)
    <3>1. sent'[i].dc = 0
      BY <1>6, <1>7, <2>1
    <3>2. j \in 1 .. Len(c) \/ j \in Len(c) + 1 .. Len(sent')
      BY <1>5, <1>6
    <3>3. sent'[j].dc \in {0, 1}
      BY <1>7, <1>8, <3>2
    <3> QED
      BY <3>1, <3>3
  <2>2. CASE i > Len(c)
    <3>1. i \in Len(c) + 1 .. Len(sent') /\ j \in Len(c) + 1 .. Len(sent')
      BY <1>5, <1>6, <2>2
    <3>2. sent'[i].dc = 1 /\ sent'[j].dc = 1
      BY <1>8, <3>1
    <3> QED
      BY <3>2
  <2> QED
    BY <1>5, <1>6, <2>1, <2>2
<1> QED
  BY <1>5, <1>9

-----------------------------------------------------------------------------
(* Types.                                                                  *)

\* Within a byte there is a byte.
InByte == pc \in {"low", "set", "clear", "strobe", "end"} => k >= 1
TypeInv == TypeOK /\ LayoutInv /\ InByte

LEMMA TypeInit == Init => TypeInv
<1> SUFFICES ASSUME Init PROVE TypeInv
  OBVIOUS
<1>1. LayoutInv
  BY DEF Init, LayoutInv
<1>2. pin_ids \in [Bit -> Pin] /\ DataPins \subseteq Pin
  BY <1>1, LayoutFacts, DataPinFacts
<1>3. sent = << >> /\ latched = << >> /\ k = 0
  BY DEF Init
<1>4. sent \in Seq(Unit) /\ latched \in Seq(Unit) /\ k \in 0 .. Len(sent)
  BY <1>3
<1>5. TypeOK
  BY <1>2, <1>4 DEF Init, TypeOK, AllOnes, Byte, Unit
<1>6. InByte
  BY DEF Init, InByte
<1> QED
  BY <1>1, <1>5, <1>6 DEF TypeInv

LEMMA SequenceTypes ==
  ASSUME TypeInv
  PROVE  /\ sent \in Seq(Unit) /\ latched \in Seq(Unit)
         /\ Len(sent) \in Nat /\ Len(latched) \in Nat
         /\ \A j \in 1 .. Len(sent) : sent[j].dc \in {0, 1} /\ sent[j].val \in Byte
<1>1. sent \in Seq(Unit) /\ latched \in Seq(Unit)
  BY DEF TypeInv, TypeOK, Unit
<1>2. ASSUME NEW j \in 1 .. Len(sent)
      PROVE  sent[j].dc \in {0, 1} /\ sent[j].val \in Byte
  <2>1. sent[j] \in Unit
    BY <1>1
  <2> QED
    BY <2>1 DEF Unit
<1> QED
  BY <1>1, <1>2

\* The byte in the making, and what the type invariant says of the ports.
LEMMA CurrentByte ==
  ASSUME TypeInv, pc \in {"low", "set", "clear", "strobe", "end"}
  PROVE  /\ k \in 1 .. Len(sent)
         /\ sent[k].val \in Byte /\ sent[k].dc \in {0, 1}
         /\ \A p \in left : Tx(p, sent[k].val) \subseteq Pin
<1>1. k \in 1 .. Len(sent)
  BY DEF TypeInv, TypeOK, InByte
<1>3. sent[k].val \in Byte /\ sent[k].dc \in {0, 1}
  BY <1>1, SequenceTypes
<1>4. ASSUME NEW p \in left PROVE Tx(p, sent[k].val) \subseteq Pin
  <2>1. p \in Ports(pin_ids) /\ LayoutInv
    BY DEF TypeInv, TypeOK
  <2> QED
    BY <1>3, <2>1, TxFacts, MaskFacts, DataPinFacts
<1> QED
  BY <1>1, <1>3, <1>4

LEMMA TypeStep == TypeInv /\ [Next]_vars => TypeInv'
<1> SUFFICES ASSUME TypeInv, [Next]_vars PROVE TypeInv'
  OBVIOUS
<1> USE DEF call
<1>1. CASE \E command \in Bytes(1), data \in Bytes(MaxLen), bad \in BOOLEAN :
             Send(command, data, bad)
  <2>1. PICK command \in Bytes(1), data \in Bytes(MaxLen), bad \in BOOLEAN :
          Send(command, data, bad)
    BY <1>1
  <2>2. sent' \in Seq([dc : {0, 1}, val : Byte])
    BY <2>1, SendFacts DEF Unit
  <2>3. LayoutInv' /\ InByte'
    BY <2>1 DEF Send, TypeInv, LayoutInv, InByte
  <2>4. k' \in 0 .. Len(sent')
    BY <2>1, <2>2 DEF Send
  <2>5. TypeOK'
    BY <2>1, <2>2, <2>4 DEF Send, TypeInv, TypeOK
  <2> QED
    BY <2>3, <2>5 DEF TypeInv
<1>2. CASE BeginWrite
  <2>1. k + 1 \in 1 .. Len(sent)
    BY <1>2 DEF BeginWrite, TypeInv, TypeOK
  <2>3. sent[k + 1].dc \in {0, 1}
    BY <2>1, SequenceTypes
  <2>4. TypeOK'
    BY <1>2, <2>1, <2>3 DEF BeginWrite, TypeInv, TypeOK, AllOnes, Byte
  <2> QED
    BY <1>2, <2>1, <2>4 DEF BeginWrite, TypeInv, LayoutInv, InByte
<1>3. CASE WrLow
  <2>1. TypeOK'
    BY <1>3 DEF WrLow, TypeInv, TypeOK
  <2> QED
    BY <1>3, <2>1, CurrentByte DEF WrLow, TypeInv, LayoutInv, InByte
<1>4. CASE OutSet
  <2>1. high' \subseteq Pin
    BY <1>4, CurrentByte DEF OutSet, TypeInv, TypeOK
  <2>2. TypeOK'
    BY <1>4, <2>1 DEF OutSet, TypeInv, TypeOK
  <2> QED
    BY <1>4, <2>2, CurrentByte DEF OutSet, TypeInv, LayoutInv, InByte
<1>5. CASE OutClr
  <2>1. high' \subseteq Pin /\ left' \subseteq Ports(pin_ids)
    BY <1>5 DEF OutClr, TypeInv, TypeOK
  <2>2. last' \in Byte /\ pc' \in {"set", "strobe"}
    BY <1>5, CurrentByte DEF OutClr, TypeInv, TypeOK
  <2>3. TypeOK'
    BY <1>5, <2>1, <2>2 DEF OutClr, TypeInv, TypeOK
  <2> QED
    BY <1>5, <2>3, CurrentByte DEF OutClr, TypeInv, LayoutInv, InByte
<1>6. CASE Strobe
  <2>1. OnPins \in Byte
    BY DEF OnPins, Byte
  <2>2. [dc |-> dc, val |-> OnPins] \in Unit
    BY <2>1 DEF TypeInv, TypeOK, Unit
  <2>3. latched' \in Seq(Unit)
    BY <1>6, <2>2, SequenceTypes DEF Strobe
  <2>4. k' \in 1 .. Len(sent) /\ pc' \in {"low", "end"}
    BY <1>6, CurrentByte DEF Strobe, TypeInv, TypeOK
  <2>5. TypeOK'
    BY <1>6, <2>3, <2>4 DEF Strobe, TypeInv, TypeOK, Unit
  <2> QED
    BY <1>6, <2>4, <2>5 DEF Strobe, TypeInv, LayoutInv, InByte
<1>7. CASE EndWrite
  BY <1>7 DEF EndWrite, TypeInv, TypeOK, LayoutInv, InByte
<1>8. CASE Return
  <2>1. cs' \in {0, 1}
    BY <1>8 DEF Return, TypeInv, TypeOK
  <2> QED
    BY <1>8, <2>1 DEF Return, TypeInv, TypeOK, LayoutInv, InByte
<1>9. CASE OtherPin
  <2>1. high' \subseteq Pin /\ others' \subseteq Pin
    BY <1>9 DEF OtherPin, TypeInv, TypeOK
  <2>2. TypeOK'
    BY <1>9, <2>1 DEF OtherPin, TypeInv, TypeOK
  <2> QED
    BY <1>9, <2>2 DEF OtherPin, TypeInv, LayoutInv, InByte
<1>10. CASE UNCHANGED vars
  BY <1>10 DEF vars, TypeInv, TypeOK, LayoutInv, InByte
<1> QED
  BY <1>1, <1>2, <1>3, <1>4, <1>5, <1>6, <1>7, <1>8, <1>9, <1>10 DEF Next

\* The type invariant, and with it the indices: a byte is only ever taken out
\* of the buffers send() was given, and only pins of the chip are driven.
THEOREM Typing == Spec => []TypeOK
<1>1. Spec => []TypeInv
  BY TypeInit, TypeStep, PTL DEF Spec
<1>2. TypeInv => TypeOK
  BY DEF TypeInv
<1> QED
  BY <1>1, <1>2, PTL

-----------------------------------------------------------------------------
(* The ports' other pins.                                                  *)

\* Whatever a byte sets and clears on a port are data pins.
LEMMA StoresStayInside ==
  ASSUME TypeInv, pc \in {"set", "clear"}, NEW p \in left
  PROVE  /\ Tx(p, sent[k].val) \subseteq DataPins
         /\ Mask(p) \subseteq DataPins
<1>1. sent[k].val \in Byte /\ p \in Ports(pin_ids) /\ LayoutInv
  BY CurrentByte DEF TypeInv, TypeOK
<1> QED
  BY <1>1, TxFacts, MaskFacts

\* No store of the bus moves a pin it was not given, on any layout, and also
\* when other code drives such a pin between the store to OUTSET and the one
\* to OUTCLR.
THEOREM OtherPinsUntouched == Spec => []OtherPinsKept
<1>1. Init => OtherPinsKept
  BY DEF Init, OtherPinsKept, DataPins
<1>2. TypeInv /\ OtherPinsKept /\ [Next]_vars => OtherPinsKept'
  <2> SUFFICES ASSUME TypeInv, OtherPinsKept, [Next]_vars
               PROVE  OtherPinsKept'
    OBVIOUS
  <2> USE DEF call
  <2>1. CASE \/ \E command \in Bytes(1), data \in Bytes(MaxLen), bad \in BOOLEAN :
                  Send(command, data, bad)
             \/ BeginWrite \/ WrLow \/ Strobe \/ EndWrite \/ Return
             \/ UNCHANGED vars
    <3>1. UNCHANGED <<pin_ids, high, others>>
      BY <2>1 DEF Send, BeginWrite, WrLow, Strobe, EndWrite, Return, vars
    <3> QED
      BY <3>1 DEF OtherPinsKept, DataPins
  <2>2. CASE OutSet
    <3>1. high' \ DataPins = high \ DataPins
      BY <2>2, StoresStayInside DEF OutSet
    <3> QED
      BY <2>2, <3>1 DEF OutSet, OtherPinsKept, DataPins
  <2>3. CASE OutClr
    <3>1. high' \ DataPins = high \ DataPins
      BY <2>3, StoresStayInside DEF OutClr
    <3> QED
      BY <2>3, <3>1 DEF OutClr, OtherPinsKept, DataPins
  <2>4. CASE OtherPin
    <3>1. pin_ids' = pin_ids
      BY <2>4 DEF OtherPin
    <3>2. DataPins' = DataPins
      BY <3>1 DEF DataPins
    <3>3. high' \ DataPins = others'
      BY <2>4 DEF OtherPin, OtherPinsKept
    <3> QED
      BY <3>2, <3>3 DEF OtherPinsKept
  <2> QED
    BY <2>1, <2>2, <2>3, <2>4 DEF Next
<1> QED
  BY <1>1, <1>2, TypeInit, TypeStep, PTL DEF Spec

-----------------------------------------------------------------------------
(* The bytes.  The last byte written is a sound reason to leave the pins   *)
(* alone, but for the ones a write begins with, because what the pins show *)
(* is kept, port by port, equal to what was asked.                         *)

\* How many bytes are latched at each point of the loop.
Progress ==
  /\ pc \in {"write", "end"} => Len(latched) = k
  /\ pc \in {"low", "set", "clear", "strobe"} =>
       Len(latched) = k - 1 /\ dc = sent[k].dc
  /\ pc = "idle" => Len(latched) = Len(sent)

Prefix ==
  \A j \in 1 .. Len(latched) :
    /\ latched[j].dc = sent[j].dc
    /\ LeadingOnes(j) \/ latched[j] = sent[j]

Control == /\ pc # "idle" => cs = 0
           /\ pc \in {"set", "clear", "strobe"} => wr = 0

\* A write ends only where the level of DC changes, so the next one begins at
\* a level of its own.
NextDiffers ==
  pc \in {"write", "end"} /\ k < Len(sent) =>
    \A i \in 1 .. k : sent[i].dc # sent[k + 1].dc

\* last is what the pins show whenever it is going to be relied on.
LastShown ==
  pc = "low" /\ last = sent[k].val => LeadingOnes(k) \/ OnPins = last

\* The ports already done show the byte.
Placed ==
  pc \in {"set", "clear"} =>
    \A b \in Bit : Port(pin_ids[b]) \notin left =>
                     (pin_ids[b] \in high <=> b \in sent[k].val)

\* The port whose zeros are to be cleared has its ones set.
Raised ==
  pc = "clear" => \A p \in left : NextPort(p) => Tx(p, sent[k].val) \subseteq high

Shown ==
  pc = "strobe" => last = sent[k].val /\ (LeadingOnes(k) \/ OnPins = last)

BytesInv == /\ Progress /\ Prefix /\ Control
            /\ CommandFirst /\ NextDiffers
            /\ LastShown /\ Placed /\ Raised /\ Shown

LEMMA BytesInit == ASSUME Init PROVE BytesInv
<1>1. sent = << >> /\ latched = << >> /\ k = 0 /\ pc = "idle"
  BY DEF Init
<1>2. Len(sent) = 0 /\ Len(latched) = 0
  BY <1>1
<1> QED
  BY <1>1, <1>2 DEF BytesInv, Progress, Prefix, Control, CommandFirst, NextDiffers,
                    LastShown, Placed, Raised, Shown

\* BeginWrite: if the byte is 0xFF, it is a leading one.
LEMMA BytesBeginWrite ==
  ASSUME TypeInv, BytesInv, BeginWrite
  PROVE  BytesInv'
<1> USE DEF call
<1>1. k \in 0 .. Len(sent) /\ k < Len(sent) /\ k + 1 \in 1 .. Len(sent)
  BY DEF BeginWrite, TypeInv, TypeOK
<1>2. Len(latched) = k
  BY DEF BeginWrite, BytesInv, Progress
<1>3. k' = k + 1 /\ sent' = sent /\ latched' = latched /\ pc' = "low"
  BY DEF BeginWrite
<1>4. Progress'
  BY <1>1, <1>2, <1>3 DEF BeginWrite, Progress
<1>5. sent[k + 1].val = AllOnes => LeadingOnes(k + 1)
  <2>1. \A i \in 1 .. k : sent[i].dc # sent[k + 1].dc
    BY <1>1 DEF BytesInv, NextDiffers, BeginWrite
  <2>2. \A i \in 1 .. k + 1 : i \in 1 .. k \/ i = k + 1
    BY <1>1
  <2> QED
    BY <2>1, <2>2 DEF LeadingOnes
<1>6. LastShown'
  BY <1>3, <1>5 DEF BeginWrite, LastShown, LeadingOnes
<1>7. Prefix' /\ CommandFirst'
  BY <1>3 DEF BytesInv, Prefix, CommandFirst, LeadingOnes
<1>8. Control'
  BY DEF BeginWrite, BytesInv, Control
<1> QED
  BY <1>3, <1>4, <1>6, <1>7, <1>8
     DEF BytesInv, NextDiffers, Placed, Raised, Shown

\* WrLow: what is not on the pins is put there, all ports of it.
LEMMA BytesWrLow ==
  ASSUME TypeInv, BytesInv, WrLow
  PROVE  BytesInv'
<1> USE DEF call
<1>1. /\ k' = k /\ sent' = sent /\ latched' = latched /\ high' = high
      /\ pin_ids' = pin_ids /\ dc' = dc /\ cs' = cs /\ last' = last
      /\ wr' = 0 /\ pc = "low" /\ pc' \in {"set", "strobe"}
  BY DEF WrLow
<1>2. Progress' /\ Prefix' /\ CommandFirst' /\ Control'
  BY <1>1 DEF BytesInv, Progress, Prefix, CommandFirst, LeadingOnes, Control
<1>3. Placed'
  <2> SUFFICES ASSUME pc' = "set", NEW b \in Bit, Port(pin_ids[b]) \notin left'
               PROVE  FALSE
    BY <1>1 DEF Placed
  <2>1. left' = Ports(pin_ids)
    BY DEF WrLow
  <2> QED
    BY <2>1 DEF Ports
<1>4. Shown'
  BY <1>1 DEF WrLow, BytesInv, LastShown, Shown, OnPins, LeadingOnes
<1> QED
  BY <1>1, <1>2, <1>3, <1>4 DEF BytesInv, NextDiffers, LastShown, Raised

\* OutSet: only pins of the next port are set.
LEMMA BytesOutSet ==
  ASSUME TypeInv, BytesInv, OutSet
  PROVE  BytesInv'
<1> USE DEF call
<1>1. /\ k' = k /\ sent' = sent /\ latched' = latched /\ left' = left
      /\ pin_ids' = pin_ids /\ dc' = dc /\ cs' = cs /\ last' = last
      /\ wr' = wr /\ pc = "set" /\ pc' = "clear"
  BY DEF OutSet
<1>2. PICK p \in left : NextPort(p) /\ high' = high \cup Tx(p, sent[k].val)
  BY DEF OutSet
<1>3. sent[k].val \in Byte /\ p \in Ports(pin_ids) /\ LayoutInv
  BY <1>1, CurrentByte DEF TypeInv, TypeOK
<1>4. \A b \in Bit : pin_ids[b] \in Tx(p, sent[k].val)
                       <=> b \in sent[k].val /\ Port(pin_ids[b]) = p
  BY <1>3, TxFacts
<1>5. Progress' /\ Prefix' /\ CommandFirst' /\ Control'
  BY <1>1 DEF BytesInv, Progress, Prefix, CommandFirst, LeadingOnes, Control
<1>6. Placed'
  BY <1>1, <1>2, <1>4 DEF BytesInv, Placed
<1>7. Raised'
  <2> SUFFICES ASSUME NEW q \in left, NextPort(q)
               PROVE  Tx(q, sent[k].val) \subseteq high'
    BY <1>1 DEF Raised, NextPort, Tx, Sequential
  <2>1. q = p
    BY <1>2, <1>3, NextPortUnique
  <2> QED
    BY <1>2, <2>1
<1> QED
  BY <1>1, <1>5, <1>6, <1>7 DEF BytesInv, NextDiffers, LastShown, Shown

\* OutClr: the port shows the byte, and after the last one all pins do.
LEMMA BytesOutClr ==
  ASSUME TypeInv, BytesInv, OutClr
  PROVE  BytesInv'
<1> USE DEF call
<1>1. /\ k' = k /\ sent' = sent /\ latched' = latched
      /\ pin_ids' = pin_ids /\ dc' = dc /\ cs' = cs
      /\ wr' = wr /\ pc = "clear" /\ pc' \in {"set", "strobe"}
  BY DEF OutClr
<1> DEFINE val == sent[k].val
<1>2. PICK p \in left :
        /\ NextPort(p)
        /\ high' = high \ ((Tx(p, val) \cup Mask(p)) \ (Tx(p, val) \cap Mask(p)))
        /\ left' = left \ {p}
  BY DEF OutClr
<1>3. val \in Byte /\ p \in Ports(pin_ids) /\ LayoutInv
  BY <1>1, CurrentByte DEF TypeInv, TypeOK
<1>4. /\ Tx(p, val) \subseteq Mask(p)
      /\ \A b \in Bit : pin_ids[b] \in Tx(p, val)
                          <=> b \in val /\ Port(pin_ids[b]) = p
      /\ \A b \in Bit : pin_ids[b] \in Mask(p) <=> Port(pin_ids[b]) = p
  BY <1>3, TxFacts, MaskFacts
<1>5. Tx(p, val) \subseteq high
  BY <1>1, <1>2 DEF BytesInv, Raised
<1>6. ASSUME NEW b \in Bit, Port(pin_ids[b]) \notin left'
      PROVE  pin_ids[b] \in high' <=> b \in val
  <2>1. CASE Port(pin_ids[b]) = p
    BY <1>2, <1>4, <1>5, <2>1
  <2>2. CASE Port(pin_ids[b]) # p
    <3>1. Port(pin_ids[b]) \notin left
      BY <1>2, <1>6, <2>2
    <3>2. pin_ids[b] \in high <=> b \in val
      BY <1>1, <3>1 DEF BytesInv, Placed
    <3> QED
      BY <1>2, <1>4, <2>2, <3>2
  <2> QED
    BY <2>1, <2>2
<1>7. Progress' /\ Prefix' /\ CommandFirst' /\ Control'
  BY <1>1 DEF BytesInv, Progress, Prefix, CommandFirst, LeadingOnes, Control
<1>8. Placed'
  BY <1>1, <1>6 DEF Placed
<1>9. Shown'
  <2> SUFFICES ASSUME pc' = "strobe" PROVE last' = val /\ OnPins' = val
    BY <1>1 DEF Shown
  <2>1. left' = {} /\ last' = val
    BY DEF OutClr
  <2>2. \A b \in Bit : pin_ids[b] \in high' <=> b \in val
    BY <1>6, <2>1
  <2> QED
    BY <1>1, <1>3, <2>1, <2>2 DEF OnPins, Byte
<1> QED
  BY <1>1, <1>7, <1>8, <1>9 DEF BytesInv, NextDiffers, LastShown, Raised

\* Strobe: what the panel latches is the byte, at the byte's level of DC.
LEMMA BytesStrobe ==
  ASSUME TypeInv, BytesInv, Strobe
  PROVE  BytesInv'
<1> USE DEF call
<1>1. /\ sent' = sent /\ high' = high /\ pin_ids' = pin_ids /\ dc' = dc
      /\ cs' = cs /\ last' = last /\ pc = "strobe"
      /\ pc' \in {"low", "end"}
  BY DEF Strobe
<1>2. k \in 1 .. Len(sent) /\ Len(latched) = k - 1 /\ dc = sent[k].dc
  BY <1>1, CurrentByte DEF BytesInv, Progress
<1>3. last = sent[k].val /\ (LeadingOnes(k) \/ OnPins = sent[k].val)
  BY <1>1 DEF BytesInv, Shown
<1>4. latched' = Append(latched, [dc |-> dc, val |-> OnPins])
  BY <1>1 DEF Strobe, BytesInv, Control
<1> DEFINE u == [dc |-> dc, val |-> OnPins]
<1>5. u \in Unit /\ u.dc = sent[k].dc /\ (LeadingOnes(k) \/ u = sent[k])
  <2>1. u \in Unit /\ u.dc = sent[k].dc
    BY <1>2 DEF Unit, TypeInv, TypeOK, OnPins, Byte
  <2>2. sent[k] \in Unit
    BY <1>2, SequenceTypes
  <2>3. sent[k] = [dc |-> sent[k].dc, val |-> sent[k].val]
    BY <2>2 DEF Unit
  <2> QED
    BY <1>2, <1>3, <2>1, <2>3
<1>6. /\ Len(latched') = k
      /\ latched'[k] = u
      /\ \A j \in 1 .. k - 1 : latched'[j] = latched[j]
  <2>1. latched \in Seq(Unit) /\ k - 1 + 1 = k
    BY <1>2, SequenceTypes
  <2> HIDE DEF u
  <2>2. latched' = Append(latched, u)
    BY <1>4 DEF u
  <2> QED
    BY <1>2, <1>5, <2>1, <2>2
<1>7. Prefix'
  <2> SUFFICES ASSUME NEW j \in 1 .. k
               PROVE  /\ latched'[j].dc = sent[j].dc
                      /\ LeadingOnes(j) \/ latched'[j] = sent[j]
    BY <1>1, <1>6 DEF Prefix, LeadingOnes
  <2> HIDE DEF u
  <2>1. CASE j = k
    BY <1>5, <1>6, <2>1
  <2>2. CASE j # k
    <3>1. j \in 1 .. k - 1
      BY <1>2, <2>2
    <3> QED
      BY <1>2, <1>6, <3>1 DEF BytesInv, Prefix
  <2> QED
    BY <2>1, <2>2
<1>8. CommandFirst' /\ Control'
  BY <1>1 DEF BytesInv, CommandFirst, LeadingOnes, Control
<1>9. CASE k < Len(sent) /\ sent[k + 1].dc = sent[k].dc
  <2>1. k' = k + 1 /\ pc' = "low" /\ (k + 1) - 1 = k
    BY <1>2, <1>9 DEF Strobe
  <2>2. Progress'
    BY <1>1, <1>2, <1>6, <1>9, <2>1 DEF Progress
  <2>3. LastShown'
    <3> SUFFICES ASSUME last = sent[k + 1].val
                 PROVE  LeadingOnes(k + 1) \/ OnPins = last
      BY <1>1, <2>1 DEF LastShown, OnPins, LeadingOnes
    <3>1. CASE OnPins = sent[k].val
      BY <1>3, <3>1
    <3>2. CASE LeadingOnes(k)
      <4>1. sent[k].val = AllOnes
        BY <1>2, <3>2 DEF LeadingOnes
      <4>2. \A i \in 1 .. k + 1 : i \in 1 .. k \/ i = k + 1
        BY <1>2
      <4>3. sent[k + 1].val = AllOnes
        BY <1>3, <4>1
      <4> QED
        BY <1>9, <3>2, <4>2, <4>3 DEF LeadingOnes
    <3> QED
      BY <1>3, <3>1, <3>2
  <2> QED
    BY <1>7, <1>8, <2>1, <2>2, <2>3
       DEF BytesInv, NextDiffers, Placed, Raised, Shown
<1>10. CASE ~(k < Len(sent) /\ sent[k + 1].dc = sent[k].dc)
  <2>1. k' = k /\ pc' = "end"
    BY <1>10 DEF Strobe
  <2>2. Progress'
    BY <1>6, <2>1 DEF Progress
  <2>3. NextDiffers'
    <3> SUFFICES ASSUME k < Len(sent), NEW i \in 1 .. k
                 PROVE  sent[i].dc # sent[k + 1].dc
      BY <1>1, <2>1 DEF NextDiffers
    <3>1. i \in 1 .. Len(sent) /\ k + 1 \in 1 .. Len(sent) /\ i <= k /\ k <= k + 1
      BY <1>2, SequenceTypes
    <3>2. sent[i].dc <= sent[k].dc /\ sent[k].dc <= sent[k + 1].dc
      BY <1>2, <3>1 DEF BytesInv, CommandFirst
    <3>3. /\ sent[i].dc \in {0, 1} /\ sent[k].dc \in {0, 1}
          /\ sent[k + 1].dc \in {0, 1}
      BY <1>2, <3>1, SequenceTypes
    <3>4. sent[k + 1].dc # sent[k].dc
      BY <1>10
    <3> QED
      BY <3>2, <3>3, <3>4
  <2> QED
    BY <1>7, <1>8, <2>1, <2>2, <2>3
       DEF BytesInv, LastShown, Placed, Raised, Shown
<1> QED
  BY <1>9, <1>10

\* Other code's pins are none of the data pins.
LEMMA BytesOtherPin ==
  ASSUME TypeInv, BytesInv, OtherPin
  PROVE  BytesInv'
<1> USE DEF call
<1>1. /\ k' = k /\ sent' = sent /\ latched' = latched /\ left' = left
      /\ pin_ids' = pin_ids /\ dc' = dc /\ cs' = cs /\ last' = last
      /\ wr' = wr /\ pc' = pc
  BY DEF OtherPin
<1>2. \A q \in DataPins : q \in high' <=> q \in high
  BY DEF OtherPin
<1>3. \A b \in Bit : pin_ids[b] \in high' <=> pin_ids[b] \in high
  BY <1>2 DEF DataPins
<1>4. OnPins' = OnPins
  BY <1>1, <1>3 DEF OnPins
<1>5. /\ Progress' /\ Prefix' /\ CommandFirst' /\ Control' /\ NextDiffers'
      /\ LastShown' /\ Shown'
  BY <1>1, <1>4 DEF BytesInv, Progress, Prefix, CommandFirst, LeadingOnes, Control,
                    NextDiffers, LastShown, Shown
<1>6. Placed'
  BY <1>1, <1>3 DEF BytesInv, Placed
<1>7. Raised'
  <2> SUFFICES ASSUME pc = "clear", NEW p \in left, NextPort(p)
               PROVE  Tx(p, sent[k].val) \subseteq high'
    BY <1>1 DEF Raised, NextPort, Tx, Sequential
  <2>1. Tx(p, sent[k].val) \subseteq high
    BY DEF BytesInv, Raised
  <2>2. Tx(p, sent[k].val) \subseteq DataPins
    BY StoresStayInside
  <2> QED
    BY <1>2, <2>1, <2>2
<1> QED
  BY <1>5, <1>6, <1>7 DEF BytesInv

LEMMA BytesStep ==
  ASSUME TypeInv, BytesInv, [Next]_vars
  PROVE  BytesInv'
<1> USE DEF call
<1>1. CASE \E command \in Bytes(1), data \in Bytes(MaxLen), bad \in BOOLEAN :
             Send(command, data, bad)
  <2>1. PICK command \in Bytes(1), data \in Bytes(MaxLen), bad \in BOOLEAN :
          Send(command, data, bad)
    BY <1>1
  <2>2. CommandFirst'
    BY <2>1, SendFacts
  <2>3. /\ latched' = << >> /\ k' = 0 /\ cs' = 0 /\ pc' = "write"
    BY <2>1 DEF Send
  <2>4. Len(latched') = 0
    BY <2>3
  <2> QED
    BY <2>2, <2>3, <2>4
       DEF BytesInv, Progress, Prefix, Control, NextDiffers, LastShown, Placed,
           Raised, Shown
<1>2. CASE EndWrite
  BY <1>2 DEF EndWrite, BytesInv, Progress, Prefix, Control, CommandFirst, LeadingOnes,
              NextDiffers, LastShown, Placed, Raised, Shown
<1>3. CASE Return
  BY <1>3 DEF Return, BytesInv, Progress, Prefix, Control, CommandFirst, LeadingOnes,
              NextDiffers, LastShown, Placed, Raised, Shown
<1>4. CASE UNCHANGED vars
  BY <1>4 DEF vars, BytesInv, Progress, Prefix, Control, CommandFirst, LeadingOnes,
              NextDiffers, LastShown, Placed, Raised, Shown, OnPins, NextPort,
              Tx, Sequential
<1> QED
  BY <1>1, <1>2, <1>3, <1>4, BytesBeginWrite, BytesWrLow, BytesOutSet,
     BytesOutClr, BytesStrobe, BytesOtherPin DEF Next

LEMMA BytesRight == ASSUME TypeInv, BytesInv PROVE PanelGetsBytes
<1>1. k \in 0 .. Len(sent) /\ Len(sent) \in Nat
  BY SequenceTypes DEF TypeInv, TypeOK
<1>2. Len(latched) <= Len(sent)
  BY <1>1 DEF BytesInv, Progress, TypeInv, TypeOK
<1> QED
  BY <1>2 DEF BytesInv, Progress, Prefix, PanelGetsBytes

\* The panel latches the bytes send() was given, in order, each at its level
\* of DC, for every layout of the data pins and every length: a repeated byte
\* is strobed without a store to the pins, and the pins still show it.  Only
\* the 0xFF that a write begins with may come out as something else.
THEOREM BytesLatched == Spec => []PanelGetsBytes
<1>1. Init => BytesInv
  BY BytesInit
<1>2. TypeInv /\ BytesInv /\ [Next]_vars => BytesInv'
  BY BytesStep
<1>3. TypeInv /\ BytesInv => PanelGetsBytes
  BY BytesRight
<1> QED
  BY <1>1, <1>2, <1>3, TypeInit, TypeStep, PTL DEF Spec

-----------------------------------------------------------------------------
(* i2cbus.                                                                 *)

LEMMA MessageBytes ==
  ASSUME NEW m \in SpiMessages \cup I2cMessages \cup FlexioMessages
  PROVE  m[1] \in Seq(Octet) /\ m[2] \in Seq(Octet)
BY MessagesAssumption

I2cArguments == Seq(Octet) \X Seq(Octet)

LEMMA I2cCallFacts ==
  ASSUME NEW c \in I2cCalls
  PROVE  /\ c.control \in Octet /\ c.i \in 1 .. 4 /\ Len(c.args) = 2
         /\ c.args[1] \in Seq(Octet) /\ c.args[2] \in Seq(Octet)
         /\ c # None
<1>1. c.args \in I2cArguments /\ c.control \in Octet /\ c.i \in 1 .. 4
  BY DEF I2cCalls, I2cArguments
<1>2. c # None
  BY NullAssumption
<1> QED
  BY <1>1, <1>2 DEF I2cArguments

LEMMA I2cGoesOn ==
  ASSUME sending \in I2cCalls, sending.i \in 1 .. 3,
         sending' = [sending EXCEPT !.i = @ + 1]
  PROVE  /\ sending' \in I2cCalls /\ sending'.i = sending.i + 1
         /\ sending'.control = sending.control /\ sending'.args = sending.args
BY DEF I2cCalls

\* What the vstr holds when the next argument is number i.
Collected(control, command, data, i) ==
  <<control>> \o (IF i > 1 THEN command ELSE << >>) \o (IF i > 2 THEN data ELSE << >>)

I2cKept ==
  /\ bus \in [state : {"open", "deinited"}, vstr : Seq(Octet)]
  /\ sending = None => panel = << >>
  /\ sending # None =>
       /\ sending \in I2cCalls
       /\ bus.vstr = Collected(sending.control, sending.args[1], sending.args[2],
                               sending.i)
       /\ panel = IF sending.i = 4 THEN bus.vstr ELSE << >>

LEMMA I2cStart == I2c!Init => I2cKept
BY DEF I2c!Init, I2cKept

LEMMA I2cBegins ==
  ASSUME I2cKept, NEW control \in Octet, NEW command \in Seq(Octet),
         NEW data \in Seq(Octet), I2c!Begin(control, command, data)
  PROVE  I2cKept'
<1>1. /\ bus' = [state |-> "open", vstr |-> <<control>>]
      /\ sending' = [control |-> control, args |-> <<command, data>>, i |-> 1]
      /\ panel' = << >>
  BY DEF I2cKept, I2c!Begin
<1>2. <<control>> \in Seq(Octet) /\ <<control>> = <<control>> \o << >> \o << >>
  OBVIOUS
<1>3. Collected(control, command, data, 1) = <<control>>
  BY <1>2 DEF Collected
<1>4. sending' \in I2cCalls /\ sending' # None
  <2>1. sending' \in I2cCalls
    BY <1>1 DEF I2cCalls, I2cArguments
  <2> QED
    BY <2>1, I2cCallFacts
<1>5. bus' \in [state : {"open", "deinited"}, vstr : Seq(Octet)]
  BY <1>1, <1>2
<1>6. /\ sending'.control = control /\ sending'.args[1] = command
      /\ sending'.args[2] = data /\ sending'.i = 1
  BY <1>1
<1> QED
  BY <1>1, <1>6, <1>3, <1>4, <1>5 DEF I2cKept

\* The vstr grows by the argument the count stands at.
LEMMA I2cAdds == ASSUME I2cKept, I2c!AddArgument PROVE I2cKept'
<1> DEFINE control == sending.control
           command == sending.args[1]
           data == sending.args[2]
           i == sending.i
<1>1. /\ sending \in I2cCalls /\ sending # None
      /\ bus.vstr = Collected(control, command, data, i)
      /\ panel = IF i = 4 THEN bus.vstr ELSE << >>
      /\ bus \in [state : {"open", "deinited"}, vstr : Seq(Octet)]
  BY DEF I2c!AddArgument, I2cKept
<1>2. /\ control \in Octet /\ command \in Seq(Octet) /\ data \in Seq(Octet)
      /\ i \in 1 .. 4 /\ Len(sending.args) = 2
  BY <1>1, I2cCallFacts
<1>3. i \in 1 .. 2
  <2>1. i <= Len(sending.args)
    BY DEF I2c!AddArgument
  <2> QED
    BY <1>2, <2>1
<1>4. /\ bus' = [bus EXCEPT !.vstr = @ \o sending.args[i]] /\ panel' = panel
      /\ sending' = [sending EXCEPT !.i = i + 1]
  BY DEF I2c!AddArgument
<1>5. /\ sending' \in I2cCalls /\ sending'.i = i + 1
      /\ sending'.control = control /\ sending'.args = sending.args
  BY <1>1, <1>3, <1>4, I2cGoesOn
<1>0. sending.args[1] = command /\ sending.args[2] = data
  OBVIOUS
<1> HIDE DEF control, command, data, i
<1>6. Collected(control, command, data, i) \o sending.args[i]
        = Collected(control, command, data, i + 1)
  <2>1. /\ <<control>> \in Seq(Octet) /\ <<control>> \o command \in Seq(Octet)
        /\ \A s \in Seq(Octet) : s \o << >> = s
    BY <1>2
  <2>2. CASE i = 1
    <3>1. /\ Collected(control, command, data, i) = <<control>> \o << >> \o << >>
          /\ Collected(control, command, data, i + 1) = <<control>> \o command \o << >>
          /\ sending.args[i] = command
      BY <1>0, <1>2, <2>2 DEF Collected
    <3> QED
      BY <2>1, <3>1
  <2>3. CASE i = 2
    <3>1. /\ Collected(control, command, data, i) = <<control>> \o command \o << >>
          /\ Collected(control, command, data, i + 1) = <<control>> \o command \o data
          /\ sending.args[i] = data
      BY <1>0, <1>2, <2>3 DEF Collected
    <3> QED
      BY <2>1, <3>1
  <2> QED
    BY <1>3, <2>2, <2>3
<1>7. bus' = [state |-> bus.state, vstr |-> Collected(control, command, data, i + 1)]
  BY <1>1, <1>4, <1>6
<1>8. Collected(control, command, data, i + 1) \in Seq(Octet)
  BY <1>2, <1>3 DEF Collected
<1>9. bus' \in [state : {"open", "deinited"}, vstr : Seq(Octet)]
  BY <1>1, <1>7, <1>8
<1>10. panel' = << >> /\ sending'.i # 4
  BY <1>1, <1>3, <1>4, <1>5
<1>11. /\ sending'.control = control /\ sending'.args[1] = command
       /\ sending'.args[2] = data
  BY <1>0, <1>5
<1>12. sending' # None
  BY <1>5, I2cCallFacts
<1> QED
  BY <1>5, <1>7, <1>9, <1>10, <1>11, <1>12 DEF I2cKept

LEMMA I2cWrites == ASSUME I2cKept, I2c!Writeto PROVE I2cKept'
<1>1. /\ sending \in I2cCalls /\ sending # None
      /\ bus.vstr = Collected(sending.control, sending.args[1], sending.args[2],
                              sending.i)
  BY DEF I2c!Writeto, I2cKept
<1>2. sending.i = 3 /\ sending.i \in 1 .. 4
  <2>1. sending.i = Len(sending.args) + 1
    BY DEF I2c!Writeto
  <2>2. Len(sending.args) = 2 /\ sending.i \in 1 .. 4
    BY <1>1, I2cCallFacts
  <2> QED
    BY <2>1, <2>2
<1>3. /\ sending' \in I2cCalls /\ sending'.i = 4
      /\ sending'.control = sending.control /\ sending'.args = sending.args
  BY <1>1, <1>2, I2cGoesOn DEF I2c!Writeto
<1>4. sending' # None
  BY <1>3, I2cCallFacts
<1>5. bus' = bus /\ panel' = bus.vstr
  BY DEF I2c!Writeto
<1>6. Collected(sending.control, sending.args[1], sending.args[2], 4)
        = Collected(sending.control, sending.args[1], sending.args[2], 3)
  BY DEF Collected
<1> QED
  BY <1>1, <1>2, <1>3, <1>4, <1>5, <1>6 DEF I2cKept

LEMMA I2cStep == ASSUME I2cKept, I2c!Next PROVE I2cKept'
<1>1. ASSUME I2c!Make \/ I2c!Deinit PROVE I2cKept'
  <2>1. /\ sending = None /\ sending' = None /\ panel' = panel
        /\ \/ bus' = [state |-> "open", vstr |-> << >>]
           \/ bus' = [state |-> "deinited", vstr |-> << >>]
    BY <1>1 DEF I2c!Make, I2c!Deinit
  <2>2. << >> \in Seq(Octet)
    OBVIOUS
  <2>3. bus' \in [state : {"open", "deinited"}, vstr : Seq(Octet)]
    <3>1. ASSUME NEW state \in {"open", "deinited"},
                 bus' = [state |-> state, vstr |-> << >>]
          PROVE  bus' \in [state : {"open", "deinited"}, vstr : Seq(Octet)]
      BY <2>2, <3>1, Zenon
    <3> QED
      BY <2>1, <3>1
  <2> QED
    BY <2>1, <2>3 DEF I2cKept
<1>2. ASSUME NEW m \in I2cMessages, I2c!Send(m[1], m[2]) \/ I2c!SendData(m[2])
      PROVE  I2cKept'
  <2>1. m[1] \in Seq(Octet) /\ m[2] \in Seq(Octet) /\ << >> \in Seq(Octet)
    BY MessageBytes
  <2>2. 0 \in Octet /\ 64 \in Octet
    BY DEF Octet
  <2>3. I2c!Begin(0, m[1], m[2]) \/ I2c!Begin(64, << >>, m[2])
    BY <1>2 DEF I2c!Send, I2c!SendData, I2c!CoCmd, I2c!CoData
  <2> QED
    BY <2>1, <2>2, <2>3, I2cBegins
<1>3. ASSUME I2c!Raise \/ I2c!Return PROVE I2cKept'
  BY <1>3 DEF I2cKept, I2c!Raise, I2c!Return
<1> QED
  BY <1>1, <1>2, <1>3, I2cAdds, I2cWrites DEF I2c!Next

LEMMA I2cRight == I2cKept => I2c!PanelGetsBytes
<1> SUFFICES ASSUME I2cKept, sending # None, panel # << >>
             PROVE  panel = <<sending.control>> \o sending.args[1] \o sending.args[2]
  BY DEF I2c!PanelGetsBytes
<1>1. sending.i = 4
  BY DEF I2cKept
<1>2. Collected(sending.control, sending.args[1], sending.args[2], 4)
        = <<sending.control>> \o sending.args[1] \o sending.args[2]
  BY DEF Collected
<1> QED
  BY <1>1, <1>2 DEF I2cKept


-----------------------------------------------------------------------------
(* i80bus on i.MX RT1062.                                                  *)

FxPanels == [Objects -> [cs : 0 .. 1, dc : 0 .. 1, got : Seq(Latch)]]
FxBuses == [callback : Objects \cup {None}, inUse : BOOLEAN, hasCs : SUBSET Objects,
            objs : [Objects -> {None, "initialized", "deinited"}]]

\* What send() has sent before this step of it.
FxSent(next, command, data) ==
  Flexio!Level(0, IF next \in {"data", "stop"} THEN command ELSE << >>)
    \o Flexio!Level(1, IF next = "stop" THEN data ELSE << >>)

FxKept ==
  /\ bus \in FxBuses /\ panel \in FxPanels
  \* A panel without a chip select is always selected.
  /\ \A o \in Objects \ bus.hasCs : panel[o].cs = 0
  /\ sending = None => \A o \in Objects : panel[o].got = << >>
  /\ sending # None =>
       /\ sending \in FlexioCalls
       /\ bus.callback = sending.self
       /\ sending.next \in {"command", "data"} => panel[sending.self].cs = 0
       /\ bus.inUse => panel[sending.self].got =
                         FxSent(sending.next, sending.command, sending.data)
       /\ sending.alone =>
            \A q \in Objects \ {sending.self} : panel[q].cs = 1 /\ panel[q].got = << >>

LEMMA FxLevel ==
  ASSUME NEW d \in 0 .. 1, NEW bytes \in Seq(Octet)
  PROVE  /\ Flexio!Level(d, bytes) \in Seq(Latch)
         /\ bytes = << >> => Flexio!Level(d, bytes) = << >>
<1>1. Flexio!Level(d, bytes) = [j \in 1 .. Len(bytes) |-> [dc |-> d, val |-> bytes[j]]]
  BY DEF Flexio!Level
<1>2. \A j \in 1 .. Len(bytes) : [dc |-> d, val |-> bytes[j]] \in Latch
  BY DEF Latch
<1>3. Len(bytes) \in Nat
  OBVIOUS
<1> QED
  BY <1>1, <1>2, <1>3

LEMMA FxSentFacts ==
  ASSUME NEW command \in Seq(Octet), NEW data \in Seq(Octet)
  PROVE  /\ FxSent("start", command, data) = << >>
         /\ FxSent("command", command, data) = << >>
         /\ FxSent("data", command, data) = Flexio!Level(0, command)
         /\ FxSent("stop", command, data)
              = Flexio!Level(0, command) \o Flexio!Level(1, data)
<1>1. /\ << >> \in Seq(Octet) /\ << >> \in Seq(Latch) /\ 0 \in 0 .. 1 /\ 1 \in 0 .. 1
      /\ \A s \in Seq(Latch) : s \o << >> = s
  OBVIOUS
<1>2. /\ Flexio!Level(0, << >>) = << >> /\ Flexio!Level(1, << >>) = << >>
      /\ Flexio!Level(0, command) \in Seq(Latch)
  BY <1>1, FxLevel
<1> QED
  BY <1>1, <1>2 DEF FxSent

\* The callbacks act for one object, and a byte is latched by the selected.
LEMMA FxSetCs ==
  ASSUME NEW p \in FxPanels, NEW level \in 0 .. 1, bus \in FxBuses,
         bus.callback \in Objects
  PROVE  /\ Flexio!SetCspin(p, level) \in FxPanels
         /\ \A o \in Objects :
              /\ Flexio!SetCspin(p, level)[o].dc = p[o].dc
              /\ Flexio!SetCspin(p, level)[o].got = p[o].got
              /\ Flexio!SetCspin(p, level)[o].cs =
                   IF o = bus.callback /\ o \in bus.hasCs THEN level ELSE p[o].cs
<1>1. bus.callback # None
  BY NullAssumption
<1> QED
  BY <1>1 DEF Flexio!SetCspin, FxPanels

LEMMA FxSetRs ==
  ASSUME NEW p \in FxPanels, NEW level \in 0 .. 1, bus \in FxBuses,
         bus.callback \in Objects
  PROVE  /\ Flexio!SetRspin(p, level) \in FxPanels
         /\ \A o \in Objects :
              /\ Flexio!SetRspin(p, level)[o].cs = p[o].cs
              /\ Flexio!SetRspin(p, level)[o].got = p[o].got
              /\ Flexio!SetRspin(p, level)[o].dc =
                   IF o = bus.callback THEN level ELSE p[o].dc
<1>1. bus.callback # None
  BY NullAssumption
<1> QED
  BY <1>1 DEF Flexio!SetRspin, FxPanels

LEMMA FxLatch ==
  ASSUME NEW p \in FxPanels, NEW bytes \in Seq(Octet)
  PROVE  /\ Flexio!Latched(p, bytes) \in FxPanels
         /\ \A o \in Objects :
              /\ Flexio!Latched(p, bytes)[o].cs = p[o].cs
              /\ Flexio!Latched(p, bytes)[o].dc = p[o].dc
              /\ Flexio!Latched(p, bytes)[o].got =
                   IF bus.inUse /\ p[o].cs = 0
                   THEN p[o].got \o Flexio!Level(p[o].dc, bytes) ELSE p[o].got
<1> DEFINE F(o) == IF bus.inUse /\ p[o].cs = 0
                   THEN [p[o] EXCEPT !.got = @ \o Flexio!Level(p[o].dc, bytes)]
                   ELSE p[o]
<1>1. Flexio!Latched(p, bytes) = [o \in Objects |-> F(o)]
  BY DEF Flexio!Latched, Flexio!Level
<1>2. ASSUME NEW o \in Objects
      PROVE  /\ F(o) \in [cs : 0 .. 1, dc : 0 .. 1, got : Seq(Latch)]
             /\ F(o).cs = p[o].cs /\ F(o).dc = p[o].dc
             /\ F(o).got = IF bus.inUse /\ p[o].cs = 0
                           THEN p[o].got \o Flexio!Level(p[o].dc, bytes) ELSE p[o].got
  <2>1. p[o] \in [cs : 0 .. 1, dc : 0 .. 1, got : Seq(Latch)]
    BY DEF FxPanels
  <2>2. Flexio!Level(p[o].dc, bytes) \in Seq(Latch)
    BY <2>1, FxLevel
  <2>3. p[o].got \o Flexio!Level(p[o].dc, bytes) \in Seq(Latch)
    BY <2>1, <2>2
  <2> QED
    BY <2>1, <2>3
<1> HIDE DEF F
<1> QED
  BY <1>1, <1>2 DEF FxPanels


\* Bytes at a level of D/C: a selected panel of this object takes them, and
\* one that is not selected takes none.
LEMMA FxWrite ==
  ASSUME NEW p \in FxPanels, NEW level \in 0 .. 1, NEW bytes \in Seq(Octet),
         bus \in FxBuses, NEW o \in Objects, bus.callback = o,
         NEW r, r = Flexio!Latched(Flexio!SetRspin(p, level), bytes)
  PROVE  /\ r \in FxPanels
         /\ \A q \in Objects : r[q].cs = p[q].cs
         /\ \A q \in Objects : p[q].cs = 1 => r[q].got = p[q].got
         /\ bus.inUse /\ p[o].cs = 0 =>
              r[o].got = p[o].got \o Flexio!Level(level, bytes)
<1> DEFINE s == Flexio!SetRspin(p, level)
<1>1. /\ s \in FxPanels
      /\ \A q \in Objects : s[q].cs = p[q].cs /\ s[q].got = p[q].got
      /\ s[o].dc = level
  BY FxSetRs
<1> HIDE DEF s
<1>2. /\ Flexio!Latched(s, bytes) \in FxPanels
      /\ \A q \in Objects :
           /\ Flexio!Latched(s, bytes)[q].cs = s[q].cs
           /\ Flexio!Latched(s, bytes)[q].got =
                IF bus.inUse /\ s[q].cs = 0
                THEN s[q].got \o Flexio!Level(s[q].dc, bytes) ELSE s[q].got
  BY <1>1, FxLatch
<1>3. \A q \in Objects : p[q].cs = 1 =>
        Flexio!Latched(s, bytes)[q].got = p[q].got
  <2> SUFFICES ASSUME NEW q \in Objects, p[q].cs = 1
               PROVE  Flexio!Latched(s, bytes)[q].got = p[q].got
    OBVIOUS
  <2>1. s[q].cs # 0
    BY <1>1
  <2> QED
    BY <1>1, <1>2, <2>1
<1>4. bus.inUse /\ p[o].cs = 0 =>
        Flexio!Latched(s, bytes)[o].got = p[o].got \o Flexio!Level(level, bytes)
  BY <1>1, <1>2
<1> QED
  BY <1>1, <1>2, <1>3, <1>4 DEF s

LEMMA FxStart == Flexio!Init => FxKept
<1> SUFFICES ASSUME Flexio!Init PROVE FxKept
  OBVIOUS
<1>1. PICK c \in SUBSET Objects :
        bus = [callback |-> None, inUse |-> FALSE, hasCs |-> c,
               objs |-> [o \in Objects |-> None]]
  BY DEF Flexio!Init
<1>2. panel = [o \in Objects |-> [cs |-> IF o \in c THEN 1 ELSE 0, dc |-> 0, got |-> << >>]]
  BY <1>1 DEF Flexio!Init
<1>3. bus \in FxBuses
  BY <1>1 DEF FxBuses
<1>4. << >> \in Seq(Latch)
  OBVIOUS
<1>5. panel \in FxPanels
  BY <1>2, <1>4 DEF FxPanels
<1>6. sending = None
  BY DEF Flexio!Init
<1> QED
  BY <1>1, <1>2, <1>3, <1>5, <1>6 DEF FxKept

\* Construction, deinit() and the soft reset: between two calls.
LEMMA FxMakes ==
  ASSUME FxKept,
         (\E o \in Objects : Flexio!Make(o) \/ Flexio!Deinit(o)) \/ Flexio!SoftReset
  PROVE  FxKept'
<1> DEFINE Torn == Flexio!HostTeardown(bus)
<1>1. /\ bus \in FxBuses /\ panel \in FxPanels
      /\ \A o \in Objects \ bus.hasCs : panel[o].cs = 0
      /\ sending = None /\ sending' = None
      /\ \A o \in Objects : panel[o].got = << >>
  BY DEF FxKept, Flexio!Make, Flexio!Deinit, Flexio!SoftReset
<1>2. Torn \in FxBuses /\ Torn.hasCs = bus.hasCs
  BY <1>1 DEF Flexio!HostTeardown, FxBuses
<1> HIDE DEF Torn
<1>3. /\ bus' \in FxBuses /\ bus'.hasCs = bus.hasCs
  <2>1. ASSUME NEW o \in Objects, Flexio!Make(o)
        PROVE  bus' \in FxBuses /\ bus'.hasCs = bus.hasCs
    <3>1. \/ bus' = Torn
          \/ bus' = [Torn EXCEPT !.callback = o]
          \/ bus' = [Torn EXCEPT !.callback = o, !.inUse = TRUE, !.objs[o] = "initialized"]
      BY <2>1 DEF Flexio!Make, Torn
    <3>2. [Torn.objs EXCEPT ![o] = "initialized"]
            \in [Objects -> {None, "initialized", "deinited"}]
      BY <1>2 DEF FxBuses
    <3>3. CASE bus' = Torn
      BY <1>2, <3>3
    <3>4. CASE bus' = [Torn EXCEPT !.callback = o]
      BY <1>2, <3>4 DEF FxBuses
    <3>5. CASE bus' = [Torn EXCEPT !.callback = o, !.inUse = TRUE, !.objs[o] = "initialized"]
      BY <1>2, <3>2, <3>5 DEF FxBuses
    <3> QED
      BY <3>1, <3>3, <3>4, <3>5
  <2>2. ASSUME NEW o \in Objects, Flexio!Deinit(o)
        PROVE  bus' \in FxBuses /\ bus'.hasCs = bus.hasCs
    <3>1. bus' = [Torn EXCEPT !.objs[o] = "deinited"]
      BY <2>2 DEF Flexio!Deinit, Torn
    <3>2. [Torn.objs EXCEPT ![o] = "deinited"]
            \in [Objects -> {None, "initialized", "deinited"}]
      BY <1>2 DEF FxBuses
    <3> QED
      BY <1>2, <3>1, <3>2 DEF FxBuses
  <2>3. ASSUME Flexio!SoftReset PROVE bus' \in FxBuses /\ bus'.hasCs = bus.hasCs
    BY <1>2, <2>3, SMTT(40) DEF Flexio!SoftReset, Torn, FxBuses
  <2> QED
    BY <2>1, <2>2, <2>3
<1>4. /\ panel' \in FxPanels
      /\ \A o \in Objects : /\ panel'[o].got = << >>
                            /\ o \notin bus.hasCs => panel'[o].cs = panel[o].cs
  <2>1. CASE panel' = panel
    BY <1>1, <2>1
  <2>2. ASSUME NEW o \in Objects,
               panel' = [panel EXCEPT ![o].cs = IF o \in bus.hasCs THEN 1 ELSE @, ![o].dc = 0]
        PROVE  /\ panel' \in FxPanels
               /\ \A q \in Objects : /\ panel'[q].got = << >>
                                     /\ q \notin bus.hasCs => panel'[q].cs = panel[q].cs
    <3> DEFINE level == IF o \in bus.hasCs THEN 1 ELSE panel[o].cs
           selected == [panel EXCEPT ![o].cs = level]
    <3>1. level \in 0 .. 1 /\ (o \notin bus.hasCs => level = panel[o].cs)
      BY <1>1 DEF FxPanels
    <3>2. panel' = [selected EXCEPT ![o].dc = 0]
      BY <2>2
    <3> HIDE DEF level
    <3>3. /\ selected \in FxPanels
          /\ \A q \in Objects : /\ selected[q].got = panel[q].got
                                /\ selected[q].cs = IF q = o THEN level ELSE panel[q].cs
      BY <1>1, <3>1 DEF FxPanels
    <3> HIDE DEF selected
    <3>4. /\ panel' \in FxPanels
          /\ \A q \in Objects : /\ panel'[q].got = selected[q].got
                                /\ panel'[q].cs = selected[q].cs
      BY <3>2, <3>3 DEF FxPanels
    <3> QED
      BY <1>1, <3>1, <3>3, <3>4
  <2> QED
    BY <2>1, <2>2 DEF Flexio!Make, Flexio!Deinit, Flexio!SoftReset
<1> QED
  BY <1>1, <1>3, <1>4, SMTT(40) DEF FxKept

LEMMA FxBegins ==
  ASSUME FxKept, NEW o \in Objects, NEW command \in Seq(Octet), NEW data \in Seq(Octet),
         Flexio!Begin(o, command, data)
  PROVE  FxKept'
<1>1. /\ bus \in FxBuses /\ panel \in FxPanels /\ sending = None
      /\ \A q \in Objects \ bus.hasCs : panel[q].cs = 0
      /\ \A q \in Objects : panel[q].got = << >>
  BY DEF FxKept, Flexio!Begin
<1>2. /\ bus' = [bus EXCEPT !.callback = o] /\ panel' = panel
      /\ sending' = [self |-> o, command |-> command, data |-> data, next |-> "start",
                     alone |-> \A q \in Objects \ {o} : panel[q].cs = 1]
  BY DEF Flexio!Begin
<1>3. bus' \in FxBuses /\ bus'.callback = o /\ bus'.hasCs = bus.hasCs
  BY <1>1, <1>2 DEF FxBuses
<1>4. sending' \in FlexioCalls
  BY <1>2 DEF FlexioCalls
<1>5. FxSent("start", command, data) = << >>
  BY FxSentFacts
<1> QED
  BY <1>1, <1>2, <1>3, <1>4, <1>5 DEF FxKept


FxCall ==
  /\ bus \in FxBuses /\ panel \in FxPanels /\ sending \in FlexioCalls
  /\ \A o \in Objects \ bus.hasCs : panel[o].cs = 0
  /\ bus.callback = sending.self /\ sending.self \in Objects
  /\ sending.next \in {"command", "data"} => panel[sending.self].cs = 0
  /\ bus.inUse => panel[sending.self].got =
                    FxSent(sending.next, sending.command, sending.data)
  /\ sending.alone =>
       \A q \in Objects \ {sending.self} : panel[q].cs = 1 /\ panel[q].got = << >>

LEMMA FxCallKept ==
  /\ FxKept /\ sending # None => FxCall
  /\ FxCall => FxKept
<1>1. sending \in FlexioCalls => sending.self \in Objects /\ sending # None
  BY NullAssumption DEF FlexioCalls
<1> QED
  BY <1>1 DEF FxKept, FxCall

\* A step within the call.
LEMMA FxGoesOn ==
  ASSUME FxCall, NEW step \in {"command", "data", "stop"}, Flexio!Goto(step), bus' = bus
  PROVE  /\ sending' \in FlexioCalls /\ sending'.next = step
         /\ sending'.self = sending.self /\ sending'.command = sending.command
         /\ sending'.data = sending.data /\ sending'.alone = sending.alone
         /\ sending.command \in Seq(Octet) /\ sending.data \in Seq(Octet)
BY DEF FxCall, Flexio!Goto, FlexioCalls

\* It keeps what the panel has got and what is selected.
LEMMA FxContinues ==
  ASSUME FxCall, NEW step \in {"command", "data", "stop"}, Flexio!Goto(step), bus' = bus,
         panel' \in FxPanels,
         \A o \in Objects \ bus.hasCs : panel'[o].cs = panel[o].cs,
         step # "stop" => panel'[sending.self].cs = 0,
         bus.inUse => panel'[sending.self].got =
                        FxSent(step, sending.command, sending.data),
         \A q \in Objects \ {sending.self} :
           panel'[q].cs = panel[q].cs /\ (panel[q].cs = 1 => panel'[q].got = panel[q].got)
  PROVE  FxKept'
<1>1. /\ sending' \in FlexioCalls /\ sending'.next = step
      /\ sending'.self = sending.self /\ sending'.command = sending.command
      /\ sending'.data = sending.data /\ sending'.alone = sending.alone
  BY FxGoesOn
<1>2. \A o \in Objects \ bus.hasCs : panel'[o].cs = 0
  BY DEF FxCall
<1>3. sending.alone =>
        \A q \in Objects \ {sending.self} : panel'[q].cs = 1 /\ panel'[q].got = << >>
  BY DEF FxCall
<1>4. FxCall'
  BY <1>1, <1>2, <1>3 DEF FxCall
<1>5. sending' # None
  BY <1>1, NullAssumption
<1> QED
  BY <1>4, <1>5 DEF FxCall, FxKept

LEMMA FxStarts == ASSUME FxCall, Flexio!Start PROVE FxKept'
<1>1. /\ sending.next = "start" /\ Flexio!Goto("command") /\ bus' = bus
      /\ panel' = IF sending.self \in bus.hasCs THEN Flexio!SetCspin(panel, 0) ELSE panel
  BY DEF Flexio!Start, Flexio!At, Flexio!StartTransfer
<1>2. /\ panel \in FxPanels /\ bus \in FxBuses /\ bus.callback = sending.self
      /\ sending.self \in Objects
      /\ \A o \in Objects \ bus.hasCs : panel[o].cs = 0
  BY DEF FxCall
<1>3. /\ sending.command \in Seq(Octet) /\ sending.data \in Seq(Octet)
  BY <1>1, FxGoesOn
<1>4. /\ panel' \in FxPanels
      /\ \A o \in Objects :
           /\ panel'[o].got = panel[o].got
           /\ panel'[o].cs = IF o = sending.self /\ o \in bus.hasCs THEN 0 ELSE panel[o].cs
  BY <1>1, <1>2, FxSetCs
<1>5. bus.inUse => panel'[sending.self].got =
                     FxSent("command", sending.command, sending.data)
  <2>1. FxSent("start", sending.command, sending.data)
          = FxSent("command", sending.command, sending.data)
    BY <1>3, FxSentFacts
  <2> QED
    BY <1>1, <1>2, <1>4, <2>1 DEF FxCall
<1>6. panel'[sending.self].cs = 0
  BY <1>2, <1>4
<1>7. /\ \A o \in Objects \ bus.hasCs : panel'[o].cs = panel[o].cs
      /\ \A q \in Objects \ {sending.self} :
           panel'[q].cs = panel[q].cs /\ (panel[q].cs = 1 => panel'[q].got = panel[q].got)
  BY <1>4
<1> QED
  BY <1>1, <1>4, <1>5, <1>6, <1>7, FxContinues

LEMMA FxCommands == ASSUME FxCall, Flexio!WriteCommand PROVE FxKept'
<1> DEFINE o == sending.self
           command == sending.command
<1>1. /\ sending.next = "command" /\ Flexio!Goto("data") /\ bus' = bus
      /\ panel' = IF command = << >> THEN panel
                  ELSE Flexio!SetRspin(
                         Flexio!Latched(Flexio!SetRspin(panel, 0), command), 1)
  BY DEF Flexio!WriteCommand, Flexio!At, Flexio!WriteCommandBlocking
<1>2. /\ panel \in FxPanels /\ bus \in FxBuses /\ bus.callback = o
      /\ o \in Objects /\ panel[o].cs = 0
      /\ bus.inUse => panel[o].got = FxSent("command", command, sending.data)
  BY <1>1 DEF FxCall
<1>3. command \in Seq(Octet) /\ sending.data \in Seq(Octet)
  BY <1>1, FxGoesOn
<1>4. /\ FxSent("command", command, sending.data) = << >>
      /\ FxSent("data", command, sending.data) = Flexio!Level(0, command)
  BY <1>3, FxSentFacts
<1>5. /\ Flexio!Level(0, command) \in Seq(Latch) /\ 0 \in 0 .. 1 /\ 1 \in 0 .. 1
      /\ command = << >> => Flexio!Level(0, command) = << >>
      /\ << >> \o Flexio!Level(0, command) = Flexio!Level(0, command)
  <2>1. 0 \in 0 .. 1 /\ 1 \in 0 .. 1
    OBVIOUS
  <2>2. /\ Flexio!Level(0, command) \in Seq(Latch)
        /\ command = << >> => Flexio!Level(0, command) = << >>
    BY <1>3, <2>1, FxLevel
  <2> QED
    BY <2>1, <2>2
<1> HIDE DEF o, command
<1>6. /\ panel' \in FxPanels
      /\ \A q \in Objects : panel'[q].cs = panel[q].cs
      /\ \A q \in Objects : panel[q].cs = 1 => panel'[q].got = panel[q].got
      /\ bus.inUse => panel'[o].got = Flexio!Level(0, command)
  <2>1. CASE command = << >>
    BY <1>1, <1>2, <1>4, <1>5, <2>1
  <2>2. CASE command # << >>
    <3> DEFINE r == Flexio!Latched(Flexio!SetRspin(panel, 0), command)
    <3>1. /\ r \in FxPanels
          /\ \A q \in Objects : r[q].cs = panel[q].cs
          /\ \A q \in Objects : panel[q].cs = 1 => r[q].got = panel[q].got
          /\ bus.inUse => r[o].got = panel[o].got \o Flexio!Level(0, command)
      <4>1. /\ panel \in FxPanels /\ 0 \in 0 .. 1 /\ command \in Seq(Octet)
            /\ bus \in FxBuses /\ o \in Objects /\ bus.callback = o
        BY <1>2, <1>3, <1>5
      <4>2. panel[o].cs = 0
        BY <1>2
      <4> HIDE DEF r
      <4>3. r = Flexio!Latched(Flexio!SetRspin(panel, 0), command)
        BY DEF r
      <4>4. /\ r \in FxPanels
            /\ \A q \in Objects : r[q].cs = panel[q].cs
            /\ \A q \in Objects : panel[q].cs = 1 => r[q].got = panel[q].got
            /\ bus.inUse /\ panel[o].cs = 0 =>
                 r[o].got = panel[o].got \o Flexio!Level(0, command)
        BY <4>1, <4>3, FxWrite, SMTT(40)
      <4> QED
        BY <4>2, <4>4
    <3>2. panel' = Flexio!SetRspin(r, 1)
      BY <1>1, <2>2
    <3> HIDE DEF r
    <3>3. /\ panel' \in FxPanels
          /\ \A q \in Objects : panel'[q].cs = r[q].cs /\ panel'[q].got = r[q].got
      BY <1>2, <1>5, <3>1, <3>2, FxSetRs
    <3>4. bus.inUse => panel'[o].got = Flexio!Level(0, command)
      <4>1. bus.inUse => panel[o].got = << >>
        BY <1>2, <1>4
      <4> QED
        BY <1>2, <1>5, <3>1, <3>3, <4>1
    <3> QED
      BY <3>1, <3>3, <3>4
  <2> QED
    BY <2>1, <2>2
<1>7. /\ panel'[o].cs = 0
      /\ \A q \in Objects \ bus.hasCs : panel'[q].cs = panel[q].cs
      /\ \A q \in Objects \ {o} :
           panel'[q].cs = panel[q].cs /\ (panel[q].cs = 1 => panel'[q].got = panel[q].got)
      /\ bus.inUse => panel'[o].got = FxSent("data", command, sending.data)
  BY <1>2, <1>4, <1>6
<1> QED
  BY <1>1, <1>6, <1>7, FxContinues DEF o, command


\* The data, the panel being selected, and perhaps deselected afterwards.
LEMMA FxDatas == ASSUME FxCall, Flexio!WriteData PROVE FxKept'
<1> DEFINE o == sending.self
           command == sending.command
           data == sending.data
           selected == Flexio!SetCspin(panel, 0)
           bulk == Len(data) >= BulkThreshold
           before == IF bulk THEN selected ELSE panel
           r == Flexio!Latched(Flexio!SetRspin(before, 1), data)
<1>1. /\ sending.next = "data" /\ Flexio!Goto("stop") /\ bus' = bus
      /\ panel' = IF data = << >> THEN panel
                  ELSE IF bulk THEN Flexio!SetCspin(r, 1) ELSE r
  BY DEF Flexio!WriteData, Flexio!At, Flexio!TransferBlocking,
         Flexio!WriteDataArrayBlocking, Flexio!StartTransfer, Flexio!StopTransfer
<1>2. /\ panel \in FxPanels /\ bus \in FxBuses /\ bus.callback = o
      /\ o \in Objects /\ panel[o].cs = 0
      /\ bus.inUse => panel[o].got = FxSent("data", command, data)
  BY <1>1 DEF FxCall
<1>3. command \in Seq(Octet) /\ data \in Seq(Octet)
  BY <1>1, FxGoesOn
<1>4. /\ FxSent("data", command, data) = Flexio!Level(0, command)
      /\ FxSent("stop", command, data)
           = Flexio!Level(0, command) \o Flexio!Level(1, data)
  BY <1>3, FxSentFacts
<1>5. /\ Flexio!Level(0, command) \in Seq(Latch) /\ 0 \in 0 .. 1 /\ 1 \in 0 .. 1
      /\ data = << >> => Flexio!Level(1, data) = << >>
      /\ Flexio!Level(0, command) \o << >> = Flexio!Level(0, command)
  <2>1. 0 \in 0 .. 1 /\ 1 \in 0 .. 1
    OBVIOUS
  <2>2. /\ Flexio!Level(0, command) \in Seq(Latch)
        /\ data = << >> => Flexio!Level(1, data) = << >>
    BY <1>3, <2>1, FxLevel
  <2> QED
    BY <2>1, <2>2
<1> HIDE DEF o, command, data, bulk
<1>6. /\ selected \in FxPanels /\ selected[o].cs = 0
      /\ \A q \in Objects : selected[q].got = panel[q].got
      /\ \A q \in Objects \ {o} : selected[q].cs = panel[q].cs
      /\ \A q \in Objects \ bus.hasCs : selected[q].cs = panel[q].cs
  <2>1. /\ selected \in FxPanels
        /\ \A q \in Objects :
             /\ selected[q].got = panel[q].got
             /\ selected[q].cs = IF q = bus.callback /\ q \in bus.hasCs THEN 0 ELSE panel[q].cs
    BY <1>2, <1>5, FxSetCs
  <2> HIDE DEF selected
  <2> QED
    BY <1>2, <2>1
<1> HIDE DEF selected
<1>7. /\ before \in FxPanels /\ before[o].cs = 0
      /\ \A q \in Objects : before[q].got = panel[q].got
      /\ \A q \in Objects \ {o} : before[q].cs = panel[q].cs
      /\ \A q \in Objects \ bus.hasCs : before[q].cs = panel[q].cs
  BY <1>2, <1>6
<1> HIDE DEF before
<1>8. /\ r \in FxPanels
      /\ \A q \in Objects : r[q].cs = before[q].cs
      /\ \A q \in Objects : before[q].cs = 1 => r[q].got = before[q].got
      /\ bus.inUse /\ before[o].cs = 0 => r[o].got = before[o].got \o Flexio!Level(1, data)
  <2>1. /\ before \in FxPanels /\ 1 \in 0 .. 1 /\ data \in Seq(Octet)
        /\ bus \in FxBuses /\ o \in Objects /\ bus.callback = o
    BY <1>2, <1>3, <1>5, <1>7
  <2>2. r = Flexio!Latched(Flexio!SetRspin(before, 1), data)
    OBVIOUS
  <2> HIDE DEF r
  <2> QED
    BY <2>1, <2>2, FxWrite, SMTT(40)
<1> HIDE DEF r
<1>9. /\ r \in FxPanels
      /\ \A q \in Objects \ bus.hasCs : r[q].cs = panel[q].cs
      /\ \A q \in Objects \ {o} :
           r[q].cs = panel[q].cs /\ (panel[q].cs = 1 => r[q].got = panel[q].got)
  BY <1>7, <1>8
<1>10. bus.inUse => r[o].got = FxSent("stop", command, data)
  <2>1. bus.inUse => panel[o].got = Flexio!Level(0, command)
    BY <1>2, <1>4
  <2>2. before[o].got = panel[o].got
    BY <1>2, <1>7
  <2> QED
    BY <1>4, <1>7, <1>8, <2>1, <2>2
<1>11. /\ panel' \in FxPanels
       /\ \A q \in Objects \ bus.hasCs : panel'[q].cs = panel[q].cs
       /\ \A q \in Objects \ {o} :
            panel'[q].cs = panel[q].cs /\ (panel[q].cs = 1 => panel'[q].got = panel[q].got)
       /\ bus.inUse => panel'[o].got = FxSent("stop", command, data)
  <2>1. CASE data = << >>
    <3>1. panel' = panel
      BY <1>1, <2>1
    <3>2. FxSent("stop", command, data) = FxSent("data", command, data)
      BY <1>4, <1>5, <2>1
    <3> QED
      BY <1>2, <3>1, <3>2
  <2>2. CASE data # << >> /\ ~bulk
    BY <1>1, <1>9, <1>10, <2>2
  <2>3. CASE data # << >> /\ bulk
    <3>1. panel' = Flexio!SetCspin(r, 1)
      BY <1>1, <2>3
    <3>2. /\ panel' \in FxPanels
          /\ \A q \in Objects :
               /\ panel'[q].got = r[q].got
               /\ panel'[q].cs = IF q = bus.callback /\ q \in bus.hasCs THEN 1 ELSE r[q].cs
      BY <1>2, <1>5, <1>9, <3>1, FxSetCs
    <3>3. \A q \in Objects \ {o} : panel'[q].cs = r[q].cs
      BY <1>2, <3>2
    <3>4. \A q \in Objects \ bus.hasCs : panel'[q].cs = r[q].cs
      BY <3>2
    <3>5. panel'[o].got = r[o].got
      BY <1>2, <3>2
    <3> QED
      BY <1>9, <1>10, <3>2, <3>3, <3>4, <3>5
  <2> QED
    BY <2>1, <2>2, <2>3
<1> QED
  BY <1>1, <1>11, FxContinues DEF o, command, data

LEMMA FxEnds == ASSUME FxCall, Flexio!Raise \/ Flexio!Return PROVE FxKept'
<1> DEFINE p == IF Flexio!Return /\ sending.self \in bus.hasCs
                THEN Flexio!SetCspin(panel, 1) ELSE panel
<1>1. /\ panel \in FxPanels /\ bus \in FxBuses /\ bus.callback \in Objects
      /\ 1 \in 0 .. 1
      /\ \A o \in Objects \ bus.hasCs : panel[o].cs = 0
  BY DEF FxCall
<1>2. /\ p \in FxPanels
      /\ \A o \in Objects \ bus.hasCs : p[o].cs = 0
  <2>1. /\ Flexio!SetCspin(panel, 1) \in FxPanels
        /\ \A o \in Objects \ bus.hasCs : Flexio!SetCspin(panel, 1)[o].cs = panel[o].cs
    BY <1>1, FxSetCs
  <2> QED
    BY <1>1, <2>1
<1>3. sending' = None /\ bus' = bus
  BY DEF Flexio!Raise, Flexio!Return
<1>4. panel' = Flexio!Ended(p)
  <2>1. CASE Flexio!Return
    BY <2>1 DEF Flexio!Return, Flexio!StopTransfer
  <2>2. CASE Flexio!Raise
    <3>1. panel' = Flexio!Ended(panel)
      BY <2>2 DEF Flexio!Raise
    <3>2. ~Flexio!Return
      BY <2>2 DEF Flexio!Raise, Flexio!Return, Flexio!At
    <3> QED
      BY <3>1, <3>2
  <2> QED
    BY <2>1, <2>2
<1> HIDE DEF p
<1>5. << >> \in Seq(Latch)
  OBVIOUS
<1>6. /\ panel' \in FxPanels
      /\ \A o \in Objects : panel'[o].got = << >> /\ panel'[o].cs = p[o].cs
  BY <1>2, <1>4, <1>5 DEF Flexio!Ended, FxPanels
<1> QED
  BY <1>1, <1>2, <1>3, <1>6 DEF FxKept

LEMMA FxStep == ASSUME FxKept, Flexio!Next PROVE FxKept'
<1>1. ASSUME NEW o \in Objects, NEW m \in FlexioMessages, Flexio!Begin(o, m[1], m[2])
      PROVE  FxKept'
  BY <1>1, MessageBytes, FxBegins
<1>2. ASSUME Flexio!Start \/ Flexio!WriteCommand \/ Flexio!WriteData \/ Flexio!Raise
               \/ Flexio!Return
      PROVE  FxKept'
  <2>1. sending # None
    BY <1>2 DEF Flexio!Start, Flexio!WriteCommand, Flexio!WriteData, Flexio!Raise,
                Flexio!Return, Flexio!At
  <2>2. FxCall
    BY <2>1, FxCallKept
  <2> QED
    BY <1>2, <2>2, FxStarts, FxCommands, FxDatas, FxEnds
<1> QED
  BY <1>1, <1>2, FxMakes DEF Flexio!Next


LEMMA PrefixOfJoined ==
  ASSUME NEW S, NEW s \in Seq(S), NEW t \in Seq(S)
  PROVE  /\ Flexio!IsPrefix(<< >>, s \o t)
         /\ Flexio!IsPrefix(s, s \o t)
         /\ Flexio!IsPrefix(s \o t, s \o t)
<1>1. /\ s \o t \in Seq(S) /\ Len(s \o t) = Len(s) + Len(t)
      /\ Len(s) \in Nat /\ Len(t) \in Nat /\ << >> \in Seq(S) /\ Len(<< >>) = 0
  OBVIOUS
<1>2. /\ SubSeq(<< >>, 1, 0) = << >> /\ SubSeq(s \o t, 1, 0) = << >>
  BY <1>1, SubSeqEmpty
<1>3. SubSeq(s, 1, Len(s)) = s
  BY SubSeqFull
<1>4. SubSeq(s \o t, 1, Len(s)) = SubSeq(s, 1, Len(s))
  <2>1. CASE Len(s) = 0
    BY <1>1, <2>1, SubSeqEmpty
  <2>2. CASE Len(s) # 0
    <3>1. 1 \in 1 .. Len(s) /\ Len(s) \in 1 .. Len(s)
      BY <1>1, <2>2
    <3> QED
      BY <3>1, SubSeqOfConcat1
  <2> QED
    BY <2>1, <2>2
<1>5. SubSeq(s \o t, 1, Len(s \o t)) = s \o t
  BY <1>1, SubSeqFull
<1> QED
  BY <1>1, <1>2, <1>3, <1>4, <1>5 DEF Flexio!IsPrefix

LEMMA FxRight == FxKept => Flexio!PanelGetsBytes
<1> DEFINE A == Flexio!Level(0, sending.command)
           B == Flexio!Level(1, sending.data)
           got == panel[sending.self].got
<1> SUFFICES ASSUME FxKept, sending # None, bus.inUse
             PROVE  /\ Flexio!IsPrefix(got, A \o B)
                    /\ Flexio!At("stop") => got = A \o B
                    /\ sending.alone =>
                         \A q \in Objects \ {sending.self} : panel[q].got = << >>
  BY DEF Flexio!PanelGetsBytes
<1>1. /\ sending \in FlexioCalls
      /\ got = FxSent(sending.next, sending.command, sending.data)
      /\ sending.alone =>
           \A q \in Objects \ {sending.self} : panel[q].got = << >>
  <2> HIDE DEF A, B
  <2> QED
    BY DEF FxKept
<1>2. /\ sending.command \in Seq(Octet) /\ sending.data \in Seq(Octet)
      /\ sending.next \in {"start", "command", "data", "stop"}
  BY <1>1 DEF FlexioCalls
<1>3. /\ sending.next \in {"start", "command"} => got = << >>
      /\ sending.next = "data" => got = A
      /\ sending.next = "stop" => got = A \o B
  <2>1. /\ FxSent("start", sending.command, sending.data) = << >>
        /\ FxSent("command", sending.command, sending.data) = << >>
        /\ FxSent("data", sending.command, sending.data) = A
        /\ FxSent("stop", sending.command, sending.data) = A \o B
    BY <1>2, FxSentFacts
  <2> HIDE DEF A, B, got
  <2> QED
    BY <1>1, <2>1
<1>4. A \in Seq(Latch) /\ B \in Seq(Latch)
  <2>1. 0 \in 0 .. 1 /\ 1 \in 0 .. 1
    OBVIOUS
  <2> QED
    BY <1>2, <2>1, FxLevel
<1> HIDE DEF A, B, got
<1>5. /\ Flexio!IsPrefix(<< >>, A \o B) /\ Flexio!IsPrefix(A, A \o B)
      /\ Flexio!IsPrefix(A \o B, A \o B)
  BY <1>4, PrefixOfJoined
<1> QED
  BY <1>1, <1>2, <1>3, <1>5 DEF Flexio!At


-----------------------------------------------------------------------------
(* spibus.                                                                 *)

LEMMA Powers ==
  /\ 2 ^ 0 = 1 /\ 2 ^ 1 = 2 /\ 2 ^ 2 = 4 /\ 2 ^ 3 = 8 /\ 2 ^ 4 = 16
  /\ 2 ^ 5 = 32 /\ 2 ^ 6 = 64 /\ 2 ^ 7 = 128 /\ 2 ^ 8 = 256
<1>1. 2 ^ 0 = 1 /\ 2 ^ 1 = 2 /\ 2 ^ 2 = 4 /\ 2 ^ 3 = 8 /\ 2 ^ 4 = 16
  OBVIOUS
<1>2. 2 ^ 5 = 32 /\ 2 ^ 6 = 64 /\ 2 ^ 7 = 128 /\ 2 ^ 8 = 256
  OBVIOUS
<1> QED
  BY <1>1, <1>2

LEMMA PowerFacts ==
  ASSUME NEW n \in 0 .. 8
  PROVE  /\ 2 ^ n \in {1, 2, 4, 8, 16, 32, 64, 128, 256}
         /\ n = 0 => 2 ^ n = 1
         /\ n = 8 => 2 ^ n = 256
<1>1. \/ n = 0 \/ n = 1 \/ n = 2 \/ n = 3 \/ n = 4
      \/ n = 5 \/ n = 6 \/ n = 7 \/ n = 8
  OBVIOUS
<1>2. \/ 2 ^ n = 2 ^ 0 \/ 2 ^ n = 2 ^ 1 \/ 2 ^ n = 2 ^ 2 \/ 2 ^ n = 2 ^ 3
      \/ 2 ^ n = 2 ^ 4 \/ 2 ^ n = 2 ^ 5 \/ 2 ^ n = 2 ^ 6 \/ 2 ^ n = 2 ^ 7
      \/ 2 ^ n = 2 ^ 8
  BY <1>1, Zenon
<1>3. n = 0 => 2 ^ n = 2 ^ 0
  OBVIOUS
<1>4. n = 8 => 2 ^ n = 2 ^ 8
  OBVIOUS
<1> QED
  BY <1>2, <1>3, <1>4, Powers

\* The nine bits of a unit, as a number.
Whole(u) == u.dc * 256 + u.val

LEMMA WholeFacts ==
  ASSUME NEW u \in Latch
  PROVE  /\ u.dc \in 0 .. 1 /\ u.val \in Octet /\ Whole(u) \in 0 .. 511
         /\ u = [dc |-> Whole(u) \div 256, val |-> Whole(u) % 256]
<1>1. u.dc \in 0 .. 1 /\ u.val \in Octet /\ u = [dc |-> u.dc, val |-> u.val]
  BY DEF Latch
<1>2. Whole(u) \div 256 = u.dc /\ Whole(u) % 256 = u.val /\ Whole(u) \in 0 .. 511
  BY <1>1 DEF Whole, Octet
<1> QED
  BY <1>1, <1>2

\* A unit of which all but b bits have gone out, and a byte that begins with
\* those: the unit is complete, and the rest of the byte begins the next.
Carried(b, d, v, rest) ==
  ((d * 256 + v) \div 2 ^ b) * 256 + (((v * 2 ^ (8 - b)) % 256) + rest)

Room(b) == 2 ^ (8 - b)
FitsIn(rest, b) == b \in 1 .. 7 /\ rest \in Nat /\ rest < Room(b)

LEMMA Carry ==
  ASSUME NEW b, NEW d \in 0 .. 1, NEW v \in Octet, NEW rest, FitsIn(rest, b)
  PROVE  /\ Carried(b, d, v, rest) \div Room(b) = d * 256 + v
         /\ Carried(b, d, v, rest) % Room(b) = rest
<1> DEFINE bits == Carried(b, d, v, rest)
<1>0. /\ v \in 0 .. 255 /\ d \in 0 .. 1 /\ rest \in Nat
      /\ b \in 1 .. 7 /\ rest < Room(b)
  BY DEF Octet, FitsIn
<1>1. CASE b = 1
  <2>1. 2 ^ b = 2 /\ 2 ^ (8 - b) = 128 /\ Room(b) = 128 /\ rest < 128
    BY <1>0, <1>1, Powers DEF Room
  <2>2. /\ (d * 256 + v) \div 2 = d * 128 + v \div 2
        /\ (v * 128) % 256 = (v - (v \div 2) * 2) * 128
    BY <1>0
  <2>3. bits = (d * 256 + v) * 128 + rest
    BY <1>0, <2>1, <2>2 DEF Carried
  <2> QED
    BY <1>0, <2>1, <2>3
<1>2. CASE b = 2
  <2>1. 2 ^ b = 4 /\ 2 ^ (8 - b) = 64 /\ Room(b) = 64 /\ rest < 64
    BY <1>0, <1>2, Powers DEF Room
  <2>2. /\ (d * 256 + v) \div 4 = d * 64 + v \div 4
        /\ (v * 64) % 256 = (v - (v \div 4) * 4) * 64
    BY <1>0
  <2>3. bits = (d * 256 + v) * 64 + rest
    BY <1>0, <2>1, <2>2 DEF Carried
  <2> QED
    BY <1>0, <2>1, <2>3
<1>3. CASE b = 3
  <2>1. 2 ^ b = 8 /\ 2 ^ (8 - b) = 32 /\ Room(b) = 32 /\ rest < 32
    BY <1>0, <1>3, Powers DEF Room
  <2>2. /\ (d * 256 + v) \div 8 = d * 32 + v \div 8
        /\ (v * 32) % 256 = (v - (v \div 8) * 8) * 32
    BY <1>0
  <2>3. bits = (d * 256 + v) * 32 + rest
    BY <1>0, <2>1, <2>2 DEF Carried
  <2> QED
    BY <1>0, <2>1, <2>3
<1>4. CASE b = 4
  <2>1. 2 ^ b = 16 /\ 2 ^ (8 - b) = 16 /\ Room(b) = 16 /\ rest < 16
    BY <1>0, <1>4, Powers DEF Room
  <2>2. /\ (d * 256 + v) \div 16 = d * 16 + v \div 16
        /\ (v * 16) % 256 = (v - (v \div 16) * 16) * 16
    BY <1>0
  <2>3. bits = (d * 256 + v) * 16 + rest
    BY <1>0, <2>1, <2>2 DEF Carried
  <2> QED
    BY <1>0, <2>1, <2>3
<1>5. CASE b = 5
  <2>1. 2 ^ b = 32 /\ 2 ^ (8 - b) = 8 /\ Room(b) = 8 /\ rest < 8
    BY <1>0, <1>5, Powers DEF Room
  <2>2. /\ (d * 256 + v) \div 32 = d * 8 + v \div 32
        /\ (v * 8) % 256 = (v - (v \div 32) * 32) * 8
    BY <1>0
  <2>3. bits = (d * 256 + v) * 8 + rest
    BY <1>0, <2>1, <2>2 DEF Carried
  <2> QED
    BY <1>0, <2>1, <2>3
<1>6. CASE b = 6
  <2>1. 2 ^ b = 64 /\ 2 ^ (8 - b) = 4 /\ Room(b) = 4 /\ rest < 4
    BY <1>0, <1>6, Powers DEF Room
  <2>2. /\ (d * 256 + v) \div 64 = d * 4 + v \div 64
        /\ (v * 4) % 256 = (v - (v \div 64) * 64) * 4
    BY <1>0
  <2>3. bits = (d * 256 + v) * 4 + rest
    BY <1>0, <2>1, <2>2 DEF Carried
  <2> QED
    BY <1>0, <2>1, <2>3
<1>7. CASE b = 7
  <2>1. 2 ^ b = 128 /\ 2 ^ (8 - b) = 2 /\ Room(b) = 2 /\ rest < 2
    BY <1>0, <1>7, Powers DEF Room
  <2>2. /\ (d * 256 + v) \div 128 = d * 2 + v \div 128
        /\ (v * 2) % 256 = (v - (v \div 128) * 128) * 2
    BY <1>0
  <2>3. bits = (d * 256 + v) * 2 + rest
    BY <1>0, <2>1, <2>2 DEF Carried
  <2> QED
    BY <1>0, <2>1, <2>3
<1> QED
  BY <1>0, <1>1, <1>2, <1>3, <1>4, <1>5, <1>6, <1>7

\* What the byte holds of the next unit, all but n of its bits.
LEMMA Leading ==
  ASSUME NEW n \in 1 .. 7, NEW u \in Latch
  PROVE  /\ u.dc * 2 ^ (8 - n) + u.val \div 2 ^ n = Whole(u) \div 2 ^ n
         /\ Whole(u) \div 2 ^ n \in Nat
         /\ n # 1 => FitsIn(Whole(u) \div 2 ^ n, n - 1)
<1>0. u.dc \in 0 .. 1 /\ u.val \in 0 .. 255 /\ Whole(u) = u.dc * 256 + u.val
  BY WholeFacts DEF Octet, Whole
<1>1. CASE n = 1
  <2>1. 2 ^ n = 2 /\ 2 ^ (8 - n) = 128
    BY <1>1, Powers
  <2>2. Whole(u) \div 2 = u.dc * 128 + u.val \div 2
    BY <1>0
  <2>3. Whole(u) \div 2 \in 0 .. 255
    BY <1>0
  <2> QED
    BY <1>1, <2>1, <2>2, <2>3
<1>2. CASE n = 2
  <2>1. 2 ^ n = 4 /\ 2 ^ (8 - n) = 64 /\ Room(n - 1) = 128
    BY <1>2, Powers DEF Room
  <2>2. Whole(u) \div 4 = u.dc * 64 + u.val \div 4
    BY <1>0
  <2>3. Whole(u) \div 4 \in 0 .. 127
    BY <1>0
  <2> QED
    BY <1>2, <2>1, <2>2, <2>3 DEF FitsIn
<1>3. CASE n = 3
  <2>1. 2 ^ n = 8 /\ 2 ^ (8 - n) = 32 /\ Room(n - 1) = 64
    BY <1>3, Powers DEF Room
  <2>2. Whole(u) \div 8 = u.dc * 32 + u.val \div 8
    BY <1>0
  <2>3. Whole(u) \div 8 \in 0 .. 63
    BY <1>0
  <2> QED
    BY <1>3, <2>1, <2>2, <2>3 DEF FitsIn
<1>4. CASE n = 4
  <2>1. 2 ^ n = 16 /\ 2 ^ (8 - n) = 16 /\ Room(n - 1) = 32
    BY <1>4, Powers DEF Room
  <2>2. Whole(u) \div 16 = u.dc * 16 + u.val \div 16
    BY <1>0
  <2>3. Whole(u) \div 16 \in 0 .. 31
    BY <1>0
  <2> QED
    BY <1>4, <2>1, <2>2, <2>3 DEF FitsIn
<1>5. CASE n = 5
  <2>1. 2 ^ n = 32 /\ 2 ^ (8 - n) = 8 /\ Room(n - 1) = 16
    BY <1>5, Powers DEF Room
  <2>2. Whole(u) \div 32 = u.dc * 8 + u.val \div 32
    BY <1>0
  <2>3. Whole(u) \div 32 \in 0 .. 15
    BY <1>0
  <2> QED
    BY <1>5, <2>1, <2>2, <2>3 DEF FitsIn
<1>6. CASE n = 6
  <2>1. 2 ^ n = 64 /\ 2 ^ (8 - n) = 4 /\ Room(n - 1) = 8
    BY <1>6, Powers DEF Room
  <2>2. Whole(u) \div 64 = u.dc * 4 + u.val \div 64
    BY <1>0
  <2>3. Whole(u) \div 64 \in 0 .. 7
    BY <1>0
  <2> QED
    BY <1>6, <2>1, <2>2, <2>3 DEF FitsIn
<1>7. CASE n = 7
  <2>1. 2 ^ n = 128 /\ 2 ^ (8 - n) = 2 /\ Room(n - 1) = 4
    BY <1>7, Powers DEF Room
  <2>2. Whole(u) \div 128 = u.dc * 2 + u.val \div 128
    BY <1>0
  <2>3. Whole(u) \div 128 \in 0 .. 3
    BY <1>0
  <2> QED
    BY <1>7, <2>1, <2>2, <2>3 DEF FitsIn
<1> QED
  BY <1>1, <1>2, <1>3, <1>4, <1>5, <1>6, <1>7

Units == [dc : Nat, val : Nat]
SpiPanels == [selected : BOOLEAN, dc : 0 .. 1, reg : Nat, count : 0 .. 8,
              got : Seq(Units)]
SpiWiring == [dc : BOOLEAN, cs : BOOLEAN, soft : BOOLEAN]
SpiBuses == [wiring : SpiWiring, active : Objects \cup {None}, spi : Objects \cup {None},
             ours : BOOLEAN, objs : [Objects -> {None, "open", "deinited"}]]

\* The panel between two bytes.
SpiPanelKept(p) ==
  /\ p \in SpiPanels
  /\ p.count = 0 => p.reg = 0
  /\ bus.wiring.dc => p.count = 0

\* The bytes are clocked as the program's, in the wiring given.
SpiBusKept ==
  /\ bus \in SpiBuses
  /\ bus.wiring.dc \/ bus.wiring.cs
  /\ \A o \in Objects : bus.objs[o] = "open" =>
       bus.active = o /\ bus.spi = o /\ (bus.wiring.soft => bus.ours)

LEMMA SpiSelects ==
  ASSUME NEW p, SpiPanelKept(p), SpiBusKept
  PROVE  /\ SpiPanelKept(Spi!Select(p)) /\ SpiPanelKept(Spi!Deselect(p))
         /\ Spi!Select(p).got = p.got /\ Spi!Deselect(p).got = p.got
<1>1. p \in SpiPanels
  BY DEF SpiPanelKept
<1>2. Spi!Deselect(p) = [p EXCEPT !.selected = FALSE] \/ Spi!Deselect(p) = p
  BY DEF Spi!Deselect
<1>3. Spi!Select(p) = [p EXCEPT !.selected = TRUE]
        \/ Spi!Select(p) = [p EXCEPT !.selected = TRUE, !.reg = 0, !.count = 0]
  <2>1. CASE p.selected
    BY <1>1, <2>1 DEF Spi!Select, SpiPanels
  <2>2. CASE ~p.selected
    BY <2>2 DEF Spi!Select
  <2> QED
    BY <2>1, <2>2
<1>4. SpiPanelKept(Spi!Deselect(p)) /\ Spi!Deselect(p).got = p.got
  BY <1>1, <1>2 DEF SpiPanelKept, SpiPanels
<1>5. SpiPanelKept(Spi!Select(p)) /\ Spi!Select(p).got = p.got
  <2> DEFINE q == Spi!Select(p)
  <2>1. CASE q = [p EXCEPT !.selected = TRUE]
    <3>1. /\ q \in SpiPanels /\ q.got = p.got
          /\ q.count = p.count /\ q.reg = p.reg
      BY <1>1, <2>1 DEF SpiPanels
    <3> QED
      BY <3>1 DEF SpiPanelKept
  <2>2. CASE q = [p EXCEPT !.selected = TRUE, !.reg = 0, !.count = 0]
    <3>1. q \in SpiPanels /\ q.got = p.got /\ q.count = 0 /\ q.reg = 0
      <4>1. /\ p.dc \in 0 .. 1 /\ p.got \in Seq(Units)
            /\ q = [selected |-> TRUE, dc |-> p.dc, reg |-> 0, count |-> 0,
                    got |-> p.got]
        BY <1>1, <2>2 DEF SpiPanels
      <4> QED
        BY <4>1 DEF SpiPanels
    <3> QED
      BY <3>1 DEF SpiPanelKept
  <2> QED
    BY <1>3, <2>1, <2>2
<1> QED
  BY <1>4, <1>5

\* CS toggled: without a D/C pin there is one, and a unit begun is dropped.
LEMMA SpiToggles ==
  ASSUME NEW p, SpiPanelKept(p), SpiBusKept, ~bus.wiring.dc,
         NEW r, r = Spi!Select(Spi!Deselect(p))
  PROVE  SpiPanelKept(r) /\ r.got = p.got /\ r.count = 0 /\ r.reg = 0
<1>1. SpiPanelKept(Spi!Deselect(p)) /\ Spi!Deselect(p).got = p.got
  BY SpiSelects
<1>2. SpiPanelKept(r) /\ r.got = p.got
  BY <1>1, SpiSelects
<1>3. p \in SpiPanels
  BY DEF SpiPanelKept
<1>4. Spi!Deselect(p) = [p EXCEPT !.selected = FALSE]
  BY DEF Spi!Deselect, SpiBusKept
<1> DEFINE d == Spi!Deselect(p)
<1>5. d \in SpiPanels /\ ~d.selected
  BY <1>3, <1>4 DEF SpiPanels
<1> HIDE DEF d
<1>6. r = [d EXCEPT !.selected = TRUE, !.reg = 0, !.count = 0]
  BY <1>5 DEF Spi!Select, d
<1>7. r.count = 0 /\ r.reg = 0
  BY <1>5, <1>6 DEF SpiPanels
<1> QED
  BY <1>2, <1>7


LEMMA SpiFields ==
  ASSUME NEW p, SpiPanelKept(p)
  PROVE  /\ p \in SpiPanels
         /\ p.selected \in BOOLEAN /\ p.dc \in 0 .. 1 /\ p.reg \in Nat
         /\ p.count \in 0 .. 8 /\ p.got \in Seq(Units)
BY DEF SpiPanelKept, SpiPanels

Replaced(p, reg, count, got) ==
  [p EXCEPT !.reg = reg, !.count = count, !.got = got]

Fits(reg, count, got) ==
  /\ reg \in Nat /\ count \in 0 .. 8 /\ got \in Seq(Units)
  /\ count = 0 => reg = 0
  /\ bus.wiring.dc => count = 0

LEMMA SpiReplaced ==
  ASSUME NEW p, SpiPanelKept(p), NEW reg, NEW count, NEW got, Fits(reg, count, got)
  PROVE  /\ SpiPanelKept(Replaced(p, reg, count, got))
         /\ Replaced(p, reg, count, got).reg = reg
         /\ Replaced(p, reg, count, got).count = count
         /\ Replaced(p, reg, count, got).got = got
<1> DEFINE r == Replaced(p, reg, count, got)
<1>1. /\ p \in SpiPanels
      /\ reg \in Nat /\ count \in 0 .. 8 /\ got \in Seq(Units)
  BY DEF SpiPanelKept, Fits
<1>2. r \in SpiPanels /\ r.reg = reg /\ r.count = count /\ r.got = got
  BY <1>1 DEF SpiPanels, Replaced
<1> HIDE DEF r
<1>3. SpiPanelKept(r)
  BY <1>2 DEF SpiPanelKept, Fits
<1> QED
  BY <1>2, <1>3 DEF r

\* With a D/C pin a byte is a unit.
LEMMA SpiByte ==
  ASSUME NEW p, SpiPanelKept(p), SpiBusKept, bus.wiring.dc, NEW byte \in Nat,
         NEW r, r = Spi!Clocked(p, byte)
  PROVE  SpiPanelKept(r) /\ r.got = Append(p.got, [dc |-> p.dc, val |-> byte])
<1>1. /\ p.reg = 0 /\ p.count = 0 /\ p.dc \in 0 .. 1 /\ p.got \in Seq(Units)
  BY SpiFields DEF SpiPanelKept
<1> DEFINE bits == p.reg * 256 + byte
           over == p.count + 8 - Spi!UnitBits
<1>2. over = 0 /\ bits = byte /\ 2 ^ 0 = 1
  BY <1>1, Powers DEF Spi!UnitBits
<1>3. bits \div 2 ^ over = byte /\ bits % 2 ^ over = 0 /\ ~(over < 0)
  <2>1. byte \div 1 = byte /\ byte % 1 = 0
    OBVIOUS
  <2> HIDE DEF bits, over
  <2> QED
    BY <1>2, <2>1
<1>4. r = [p EXCEPT !.reg = bits % 2 ^ over, !.count = over,
                    !.got = Append(@, [dc |-> p.dc, val |-> bits \div 2 ^ over])]
  BY <1>3 DEF Spi!Clocked
<1> HIDE DEF bits, over
<1> DEFINE got == Append(p.got, [dc |-> p.dc, val |-> byte])
<1>5. got \in Seq(Units)
  BY <1>1 DEF Units
<1>6. r = Replaced(p, 0, 0, got)
  BY <1>2, <1>3, <1>4 DEF Replaced
<1> HIDE DEF got
<1>7. Fits(0, 0, got)
  BY <1>5 DEF Fits
<1>8. SpiPanelKept(r) /\ r.got = got
  BY <1>6, <1>7, SpiReplaced
<1> QED
  BY <1>8 DEF got

\* Without one a unit has nine bits: the first byte of a stream leaves one to
\* come, and any other completes one.
LEMMA SpiFirstByte ==
  ASSUME NEW p, SpiPanelKept(p), SpiBusKept, ~bus.wiring.dc, p.count = 0,
         NEW byte \in Nat, NEW r, r = Spi!Clocked(p, byte)
  PROVE  SpiPanelKept(r) /\ r.got = p.got /\ r.reg = byte /\ r.count = 8
<1>1. p.reg = 0 /\ p \in SpiPanels /\ p.got \in Seq(Units)
  BY SpiFields DEF SpiPanelKept
<1>2. p.count + 8 - Spi!UnitBits < 0 /\ p.reg * 256 + byte = byte /\ p.count + 8 = 8
  BY <1>1 DEF Spi!UnitBits
<1>3. r = [p EXCEPT !.reg = p.reg * 256 + byte, !.count = @ + 8]
  BY <1>2 DEF Spi!Clocked
<1>4. r = Replaced(p, byte, 8, p.got)
  BY <1>1, <1>2, <1>3, ZenonT(60) DEF SpiPanels, Replaced
<1>5. Fits(byte, 8, p.got)
  BY <1>1 DEF Fits
<1> QED
  BY <1>4, <1>5, SpiReplaced

Clocking(p, byte) == p.reg * 256 + byte
Over(p) == 2 ^ (p.count - 1)

LEMMA SpiNextByte ==
  ASSUME NEW p, SpiPanelKept(p), SpiBusKept, ~bus.wiring.dc, p.count # 0,
         NEW byte \in Nat, NEW r, r = Spi!Clocked(p, byte)
  PROVE  /\ SpiPanelKept(r)
         /\ r.reg = Clocking(p, byte) % Over(p) /\ r.count = p.count - 1
         /\ r.got = Append(p.got, [dc |-> (Clocking(p, byte) \div Over(p)) \div 256,
                                   val |-> (Clocking(p, byte) \div Over(p)) % 256])
<1> DEFINE bits == Clocking(p, byte)
           m == Over(p)
<1> USE DEF Clocking, Over
<1>1. /\ p.reg \in Nat /\ p.count \in 1 .. 8 /\ p \in SpiPanels /\ p.got \in Seq(Units)
      /\ p.count - 1 \in 0 .. 7
  BY SpiFields
<1> DEFINE over == p.count + 8 - Spi!UnitBits
<1>2. over = p.count - 1 /\ ~(over < 0)
  <2>1. Spi!UnitBits = 9
    BY DEF Spi!UnitBits
  <2>2. \A c \in 1 .. 8 : c + 8 - 9 = c - 1 /\ ~(c - 1 < 0)
    OBVIOUS
  <2> QED
    BY <1>1, <2>1, <2>2
<1> DEFINE unit == bits \div m
           got == Append(p.got, [dc |-> unit \div 256, val |-> unit % 256])
<1>3. r = Replaced(p, bits % m, p.count - 1, got)
  <2>1. 2 ^ over = m
    BY <1>2
  <2>2. r = [p EXCEPT !.reg = bits % 2 ^ over, !.count = over,
                      !.got = Append(@, [dc |-> (bits \div 2 ^ over) \div 256,
                                         val |-> (bits \div 2 ^ over) % 256])]
    BY <1>2 DEF Spi!Clocked
  <2>3. r = [p EXCEPT !.reg = bits % m, !.count = p.count - 1,
                      !.got = Append(@, [dc |-> unit \div 256, val |-> unit % 256])]
    <3>1. over = p.count - 1
      BY <1>2
    <3> HIDE DEF over
    <3> DEFINE F(w, v) == [p EXCEPT !.reg = bits % v, !.count = w,
                             !.got = Append(@, [dc |-> (bits \div v) \div 256,
                                                val |-> (bits \div v) % 256])]
    <3>2. r = F(over, 2 ^ over)
      BY <2>2
    <3>3. r = F(p.count - 1, m)
      <4> HIDE DEF F
      <4> QED
        BY <2>1, <3>1, <3>2, Zenon
    <3> QED
      BY <3>3
  <2> HIDE DEF over, unit
  <2> QED
    BY <1>1, <2>3 DEF Replaced, SpiPanels
<1>4. m \in Nat /\ m > 0 /\ (p.count = 1 => m = 1)
  <2>1. p.count - 1 \in 0 .. 8 /\ (p.count = 1 => p.count - 1 = 0)
    BY <1>1
  <2>2. /\ m \in {1, 2, 4, 8, 16, 32, 64, 128, 256}
        /\ p.count - 1 = 0 => m = 1
    BY <2>1, PowerFacts, ZenonT(60)
  <2> QED
    BY <2>1, <2>2
<1>5. bits \in Nat
  BY <1>1
<1>6. bits % m \in Nat /\ unit \in Nat /\ (m = 1 => bits % m = 0)
  BY <1>4, <1>5
<1> HIDE DEF unit
<1>7. unit \div 256 \in Nat /\ unit % 256 \in Nat
  BY <1>6
<1>8. got \in Seq(Units)
  BY <1>1, <1>7 DEF Units
<1> HIDE DEF got
<1>9. SpiPanelKept(r) /\ r.reg = bits % m /\ r.count = p.count - 1 /\ r.got = got
  <2>1. Fits(bits % m, p.count - 1, got)
    BY <1>1, <1>4, <1>6, <1>8 DEF Fits
  <2> QED
    BY <1>3, <2>1, SpiReplaced
<1> QED
  BY <1>9 DEF got, unit


\* Any byte, whatever the panel has of a unit.
LEMMA SpiTaken ==
  ASSUME NEW p, SpiPanelKept(p), SpiBusKept, ~bus.wiring.dc, NEW byte \in Nat,
         NEW r, r = Spi!Clocked(p, byte)
  PROVE  SpiPanelKept(r)
<1>1. CASE p.count = 0
  BY <1>1, SpiFirstByte
<1>2. CASE p.count # 0
  BY <1>2, SpiNextByte, ZenonT(60)
<1> QED
  BY <1>1, <1>2

\* The byte that completes a unit u of which all but b bits have gone out.
SpiPartial(p, u, b) ==
  /\ u \in Latch
  /\ p.count = 9 - b
  /\ p.reg = Whole(u) \div 2 ^ b

\* A byte that begins with the b bits left over of one with this value.
Filled(val, b, rest) == ((val * 2 ^ (8 - b)) % 256) + rest

LEMMA SpiCompletes ==
  ASSUME NEW p, SpiPanelKept(p), SpiBusKept, ~bus.wiring.dc,
         NEW u, NEW b, NEW rest, SpiPartial(p, u, b), FitsIn(rest, b),
         NEW byte \in Nat, byte = Filled(u.val, b, rest),
         NEW r, r = Spi!Clocked(p, byte)
  PROVE  SpiPanelKept(r) /\ r.reg = rest /\ r.count = 8 - b /\ r.got = Append(p.got, u)
<1> DEFINE bits == Clocking(p, byte)
           m == Over(p)
<1>1. b \in 1 .. 7 /\ p.count # 0 /\ p.count - 1 = 8 - b
  BY DEF FitsIn, SpiPartial
<1>2. m = Room(b)
  BY <1>1 DEF Over, Room
<1>3. /\ u.dc \in 0 .. 1 /\ u.val \in Octet
      /\ u = [dc |-> Whole(u) \div 256, val |-> Whole(u) % 256]
  BY WholeFacts DEF SpiPartial
<1>4. bits \div Room(b) = Whole(u) /\ bits % Room(b) = rest
  <2>1. bits = Carried(b, u.dc, u.val, rest)
    BY DEF Whole, Carried, Clocking, SpiPartial, Filled
  <2>2. /\ Carried(b, u.dc, u.val, rest) \div Room(b) = u.dc * 256 + u.val
        /\ Carried(b, u.dc, u.val, rest) % Room(b) = rest
    BY <1>3, Carry
  <2> QED
    BY <2>1, <2>2 DEF Whole
<1>5. /\ SpiPanelKept(r) /\ r.reg = bits % m /\ r.count = p.count - 1
      /\ r.got = Append(p.got, [dc |-> (bits \div m) \div 256,
                                val |-> (bits \div m) % 256])
  BY <1>1, SpiNextByte
<1> HIDE DEF bits, m
<1> QED
  BY <1>1, <1>2, <1>3, <1>4, <1>5

\* One more of what is sent.
LEMMA OneMore ==
  ASSUME NEW s \in Seq(Latch), NEW i \in 1 .. Len(s)
  PROVE  s[i] \in Latch /\ Append(SubSeq(s, 1, i - 1), s[i]) = SubSeq(s, 1, i)
<1>1. SubSeq(s, 1, i) = SubSeq(s, 1, i - 1) \o <<s[i]>>
  <2>1. 1 \in 1 .. Len(s) /\ i \in 1 .. Len(s)
    OBVIOUS
  <2> QED
    BY <2>1, SubSeqRecursiveSecond
<1>2. SubSeq(s, 1, i - 1) \in Seq(Latch) /\ s[i] \in Latch
  <2>1. \A j \in 1 .. i - 1 : s[j] \in Latch
    OBVIOUS
  <2> QED
    BY <2>1, SubSeqProperties
<1>3. \A t \in Seq(Latch), x \in Latch : Append(t, x) = t \o <<x>>
  OBVIOUS
<1> QED
  BY <1>1, <1>2, <1>3


\* What the panel has got of a call that began with a unit, between two of
\* the call's units: all that has been sent, but for the bits left over.
SpiStream(s, p) ==
  \/ /\ s.bits = 0 /\ p.count = 0
     /\ p.got = SubSeq(s.sent, 1, s.i - 1)
  \/ /\ s.bits # 0 /\ s.i - 1 \in 1 .. Len(s.sent) - 1
     /\ p.count = 9 - s.bits
     /\ p.reg = Whole(s.sent[s.i - 1]) \div 2 ^ s.bits
     /\ s.buffer = s.sent[s.i - 1].val
     /\ p.got = SubSeq(s.sent, 1, (s.i - 1) - 1)

SpiCall ==
  /\ sending \in SpiCalls
  /\ sending.i <= Len(sending.sent) + 1
  /\ bus.spi = sending.self /\ bus.ours
  /\ bus.wiring.dc => sending.bits = 0
  /\ sending.aligned => SpiStream(sending, panel)

SpiKept ==
  /\ SpiBusKept /\ SpiPanelKept(panel)
  /\ sending = None => panel.got = << >>
  /\ sending # None => SpiCall

LEMMA SpiCallFacts ==
  ASSUME NEW s \in SpiCalls
  PROVE  /\ s # None /\ s.self \in Objects /\ s.sent \in Seq(Latch)
         /\ s.i \in Nat \ {0} /\ s.bits \in 0 .. 7 /\ s.buffer \in Octet
         /\ s.aligned \in BOOLEAN
<1>1. s # None
  BY NullAssumption
<1> QED
  BY <1>1 DEF SpiCalls

\* What the program wrote is clocked into the panel.
LEMMA SpiWritten ==
  ASSUME SpiCall, NEW p, NEW byte
  PROVE  Spi!Written(p, sending.self, byte) = Spi!Clocked(p, byte)
BY DEF SpiCall, Spi!Written

\* A step within the call.
LEMMA SpiGoesOn ==
  ASSUME SpiBusKept, SpiCall, sending # None, Spi!More,
         bus' = bus, SpiPanelKept(panel'),
         NEW bits \in 0 .. 7, NEW buffer \in Octet,
         sending' = [sending EXCEPT !.i = @ + 1, !.bits = bits, !.buffer = buffer],
         bus.wiring.dc => bits = 0,
         sending.aligned => SpiStream(sending', panel')
  PROVE  SpiKept'
<1>1. /\ sending \in SpiCalls /\ sending.i <= Len(sending.sent)
      /\ sending.i \in Nat \ {0} /\ sending.sent \in Seq(Latch)
      /\ bus.spi = sending.self /\ bus.ours
  BY SpiCallFacts DEF SpiCall, Spi!More
<1>2. /\ sending'.self = sending.self /\ sending'.sent = sending.sent
      /\ sending'.i = sending.i + 1 /\ sending'.bits = bits
      /\ sending'.aligned = sending.aligned /\ sending' \in SpiCalls
  <2>1. /\ sending.self \in Objects /\ sending.aligned \in BOOLEAN
        /\ sending.i + 1 \in Nat \ {0}
    BY <1>1, SpiCallFacts
  <2>2. sending' = [self |-> sending.self, sent |-> sending.sent, i |-> sending.i + 1,
                    bits |-> bits, buffer |-> buffer, aligned |-> sending.aligned]
    BY <1>1 DEF SpiCalls
  <2> QED
    BY <1>1, <2>1, <2>2 DEF SpiCalls
<1>3. sending' # None
  BY <1>2, SpiCallFacts
<1>4. sending'.i <= Len(sending'.sent) + 1
  BY <1>1, <1>2
<1>5. SpiBusKept' /\ SpiPanelKept(panel)'
  BY DEF SpiBusKept, SpiPanelKept
<1>6. SpiStream(sending, panel)' <=> SpiStream(sending', panel')
  BY DEF SpiStream
<1> QED
  BY <1>1, <1>2, <1>3, <1>4, <1>5, <1>6 DEF SpiKept, SpiCall


LEMMA SpiStart == Spi!Init => SpiKept
<1> SUFFICES ASSUME Spi!Init PROVE SpiKept
  OBVIOUS
<1>1. PICK w \in Spi!Wiring :
        bus = [wiring |-> w, active |-> None, spi |-> None, ours |-> FALSE,
               objs |-> [o \in Objects |-> None]]
  BY DEF Spi!Init
<1>2. w \in SpiWiring /\ (w.dc \/ w.cs)
  BY DEF Spi!Wiring, SpiWiring
<1>3. /\ bus.wiring = w /\ bus.active = None /\ bus.spi = None /\ bus.ours = FALSE
      /\ bus.objs = [o \in Objects |-> None]
  BY <1>1
<1>4. bus \in SpiBuses
  BY <1>1, <1>2 DEF SpiBuses
<1>5. \A o \in Objects : bus.objs[o] # "open"
  <2>1. \A o \in Objects : bus.objs[o] = None
    BY <1>3
  <2> QED
    BY <2>1, NullAssumption
<1>6. panel = [selected |-> ~w.cs, dc |-> 1, reg |-> 0, count |-> 0, got |-> << >>]
  BY <1>3 DEF Spi!Init
<1>7. SpiPanelKept(panel)
  <2>1. << >> \in Seq(Units) /\ 1 \in 0 .. 1 /\ 0 \in 0 .. 8 /\ 0 \in Nat
    OBVIOUS
  <2>2. (~w.cs) \in BOOLEAN
    OBVIOUS
  <2>3. panel \in SpiPanels
    BY <1>6, <2>1, <2>2 DEF SpiPanels
  <2> QED
    BY <1>6, <2>3 DEF SpiPanelKept
<1>8. sending = None /\ panel.got = << >>
  BY <1>6 DEF Spi!Init
<1> QED
  BY <1>2, <1>3, <1>4, <1>5, <1>7, <1>8 DEF SpiKept, SpiBusKept


\* deinit of an object: nothing is open then but what was, and not that one.
LEMMA SpiDeinits ==
  ASSUME SpiBusKept, NEW self \in Objects \cup {None}
  PROVE  LET b == Spi!Deinited(bus, self)
         IN /\ b \in SpiBuses /\ b.wiring = bus.wiring /\ b.ours = bus.ours
            /\ \A o \in Objects : b.objs[o] = "open" =>
                 /\ bus.objs[o] = "open" /\ o # self
                 /\ b.active = o /\ b.spi = o /\ (b.wiring.soft => b.ours)
<1> DEFINE b == Spi!Deinited(bus, self)
<1>1. CASE self = None \/ bus.objs[self] # "open"
  <2>1. b = bus
    BY <1>1 DEF Spi!Deinited
  <2>2. \A o \in Objects : bus.objs[o] = "open" => o # self
    BY <1>1, NullAssumption
  <2> QED
    BY <2>1, <2>2 DEF SpiBusKept
<1>2. CASE ~(self = None \/ bus.objs[self] # "open")
  <2>1. self \in Objects /\ bus.objs[self] = "open" /\ bus \in SpiBuses
    BY <1>2 DEF SpiBusKept
  <2>2. bus.active = self /\ bus.spi = self
    BY <2>1 DEF SpiBusKept
  <2>3. b = [bus EXCEPT !.spi = IF @ = self THEN None ELSE @,
                        !.objs[self] = "deinited",
                        !.active = IF @ = self THEN None ELSE @]
    BY <1>2 DEF Spi!Deinited
  <2>4. b = [wiring |-> bus.wiring, active |-> None, spi |-> None, ours |-> bus.ours,
             objs |-> [bus.objs EXCEPT ![self] = "deinited"]]
    BY <2>1, <2>2, <2>3 DEF SpiBuses
  <2>5. bus.wiring \in SpiWiring /\ bus.ours \in BOOLEAN
        /\ bus.objs \in [Objects -> {None, "open", "deinited"}]
    BY <2>1 DEF SpiBuses
  <2>6. [bus.objs EXCEPT ![self] = "deinited"] \in [Objects -> {None, "open", "deinited"}]
    BY <2>1, <2>5
  <2>7. b \in SpiBuses
    BY <2>4, <2>5, <2>6 DEF SpiBuses
  <2>8. \A o \in Objects : b.objs[o] # "open"
    <3> SUFFICES ASSUME NEW o \in Objects, b.objs[o] = "open" PROVE FALSE
      OBVIOUS
    <3>1. o # self /\ bus.objs[o] = "open"
      BY <2>1, <2>4, <2>5
    <3>2. bus.active = o
      BY <3>1 DEF SpiBusKept
    <3> QED
      BY <2>2, <3>1, <3>2
  <2> QED
    BY <2>4, <2>7, <2>8
<1> QED
  BY <1>1, <1>2

\* Its chip select is driven inactive, or it is not.
LEMMA SpiMadePanel ==
  ASSUME SpiBusKept, SpiPanelKept(panel), panel.got = << >>,
         panel' \in {panel, Spi!Deselect(panel)}, bus'.wiring = bus.wiring
  PROVE  SpiPanelKept(panel)' /\ panel'.got = << >>
<1>1. SpiPanelKept(panel') /\ panel'.got = << >>
  BY SpiSelects
<1> QED
  BY <1>1 DEF SpiPanelKept

\* Construction, deinit(), the soft reset and other code: between two calls.
LEMMA SpiMakes ==
  ASSUME SpiKept, NEW o \in Objects, Spi!Make(o)
  PROVE  SpiKept'
<1> DEFINE t == Spi!Deinited(bus, bus.active)
           Torn == Spi!HostTeardown(bus)
<1>1. SpiBusKept /\ SpiPanelKept(panel) /\ sending = None /\ sending' = None
      /\ panel.got = << >> /\ bus.active \in Objects \cup {None}
  BY DEF SpiKept, Spi!Make, SpiBusKept, SpiBuses
<1>2. /\ t \in SpiBuses /\ t.wiring = bus.wiring
      /\ \A q \in Objects : t.objs[q] = "open" => bus.objs[q] = "open" /\ q # bus.active
  BY <1>1, SpiDeinits
<1>3. \A q \in Objects : t.objs[q] # "open"
  BY <1>1, <1>2 DEF SpiBusKept
<1>4. Torn = [t EXCEPT !.active = None]
  BY DEF Spi!HostTeardown
<1> HIDE DEF t
<1>5. Torn \in SpiBuses /\ Torn.wiring = bus.wiring /\ Torn.objs = t.objs
  BY <1>2, <1>4 DEF SpiBuses
<1>8. SpiPanelKept(panel)' /\ panel'.got = << >>
  <2>1. panel' \in {panel, Spi!Deselect(panel)}
    BY DEF Spi!Make
  <2>2. bus'.wiring = bus.wiring
    BY <1>5 DEF Spi!Make, SpiBuses
  <2> QED
    BY <1>1, <2>1, <2>2, SpiMadePanel
<1> HIDE DEF Torn
<1>6. CASE bus' = Torn
  <2>1. SpiBusKept'
    BY <1>1, <1>3, <1>5, <1>6 DEF SpiBusKept
  <2> QED
    BY <2>1, <1>8, <1>1 DEF SpiKept
<1>7. CASE bus' = [Torn EXCEPT !.active = o, !.spi = o, !.ours = TRUE, !.objs[o] = "open"]
  <2>1. bus' = [wiring |-> bus.wiring, active |-> o, spi |-> o, ours |-> TRUE,
                objs |-> [t.objs EXCEPT ![o] = "open"]]
    BY <1>5, <1>7 DEF SpiBuses
  <2>2. t.objs \in [Objects -> {None, "open", "deinited"}] /\ bus.wiring \in SpiWiring
    BY <1>2 DEF SpiBuses
  <2>3. [t.objs EXCEPT ![o] = "open"] \in [Objects -> {None, "open", "deinited"}]
    BY <2>2
  <2>4. bus' \in SpiBuses
    BY <2>1, <2>2, <2>3 DEF SpiBuses
  <2>5. \A q \in Objects : bus'.objs[q] = "open" => q = o
    BY <1>3, <2>1, <2>2
  <2>6. SpiBusKept'
    BY <1>1, <2>1, <2>4, <2>5 DEF SpiBusKept
  <2> QED
    BY <2>1, <2>6, <1>8, <1>1 DEF SpiKept
<1> QED
  BY <1>6, <1>7 DEF Spi!Make, Torn


\* deinit(), the soft reset and other code, too: between two calls.
LEMMA SpiOthers ==
  ASSUME SpiKept,
         (\E o \in Objects : Spi!Deinit(o)) \/ Spi!SoftReset \/ Spi!OtherInit
  PROVE  SpiKept'
<1>1. /\ SpiBusKept /\ SpiPanelKept(panel) /\ sending = None /\ sending' = None
      /\ panel' = panel /\ panel.got = << >> /\ bus \in SpiBuses
  BY DEF SpiKept, Spi!Deinit, Spi!SoftReset, Spi!OtherInit, SpiBusKept
<1>2. ASSUME SpiBusKept', bus'.wiring = bus.wiring PROVE SpiKept'
  <2>1. SpiPanelKept(panel)'
    BY <1>1, <1>2 DEF SpiPanelKept
  <2> QED
    BY <1>1, <1>2, <2>1 DEF SpiKept
<1>3. ASSUME NEW o \in Objects, Spi!Deinit(o) PROVE SpiKept'
  <2> DEFINE b == Spi!Deinited(bus, o)
  <2>1. /\ b \in SpiBuses /\ b.wiring = bus.wiring
        /\ \A q \in Objects : b.objs[q] = "open" =>
             b.active = q /\ b.spi = q /\ (b.wiring.soft => b.ours)
    BY <1>1, SpiDeinits
  <2>2. bus' = b
    BY <1>3 DEF Spi!Deinit
  <2> HIDE DEF b
  <2>3. SpiBusKept'
    BY <1>1, <2>1, <2>2 DEF SpiBusKept
  <2> QED
    BY <1>2, <2>1, <2>2, <2>3
<1>4. ASSUME Spi!SoftReset PROVE SpiKept'
  <2> DEFINE t == Spi!Deinited(bus, bus.active)
             none == [q \in Objects |-> None]
  <2>1. t \in SpiBuses /\ t.wiring = bus.wiring
    <3>1. bus.active \in Objects \cup {None}
      BY <1>1 DEF SpiBuses
    <3> QED
      BY <1>1, <3>1, SpiDeinits
  <2>2. bus' = [[t EXCEPT !.active = None] EXCEPT !.objs = none]
    BY <1>4 DEF Spi!SoftReset, Spi!HostTeardown
  <2> HIDE DEF t
  <2>3. none \in [Objects -> {None, "open", "deinited"}] /\ \A q \in Objects : none[q] # "open"
    BY NullAssumption
  <2> HIDE DEF none
  <2>4. bus' = [wiring |-> bus.wiring, active |-> None, spi |-> t.spi, ours |-> t.ours,
                objs |-> none]
    BY <2>1, <2>2 DEF SpiBuses
  <2>5. t.spi \in Objects \cup {None} /\ t.ours \in BOOLEAN /\ bus.wiring \in SpiWiring
    BY <2>1 DEF SpiBuses
  <2>6. bus' \in SpiBuses
    BY <2>3, <2>4, <2>5 DEF SpiBuses
  <2>7. SpiBusKept'
    BY <1>1, <2>3, <2>4, <2>6 DEF SpiBusKept
  <2> QED
    BY <1>2, <2>4, <2>7
<1>5. ASSUME Spi!OtherInit PROVE SpiKept'
  <2>1. bus' = [bus EXCEPT !.ours = FALSE] /\ ~bus.wiring.soft
    BY <1>5 DEF Spi!OtherInit
  <2>2. bus' = [wiring |-> bus.wiring, active |-> bus.active, spi |-> bus.spi,
                ours |-> FALSE, objs |-> bus.objs]
    BY <1>1, <2>1 DEF SpiBuses
  <2>3. bus' \in SpiBuses
    BY <1>1, <2>2 DEF SpiBuses
  <2>4. SpiBusKept'
    BY <1>1, <2>1, <2>2, <2>3 DEF SpiBusKept
  <2> QED
    BY <1>2, <2>2, <2>4
<1> QED
  BY <1>3, <1>4, <1>5

LEMMA SpiLevel ==
  ASSUME NEW d \in 0 .. 1, NEW bytes \in Seq(Octet)
  PROVE  Spi!Level(d, bytes) \in Seq(Latch)
<1>1. Spi!Level(d, bytes) = Flexio!Level(d, bytes)
  BY DEF Spi!Level, Flexio!Level
<1> QED
  BY <1>1, FxLevel

LEMMA SpiBegins ==
  ASSUME SpiKept, NEW o \in Objects, NEW command \in Seq(Octet), NEW data \in Seq(Octet),
         Spi!Begin(o, command, data)
  PROVE  SpiKept'
<1> DEFINE levels == Spi!Level(0, command) \o Spi!Level(1, data)
           aligned == panel'.count = 0
<1>1. /\ SpiBusKept /\ SpiPanelKept(panel) /\ panel.got = << >>
      /\ bus.objs[o] = "open" /\ bus \in SpiBuses
      /\ panel' = Spi!Select(panel)
  BY DEF SpiKept, Spi!Begin, SpiBusKept
<1>2. /\ bus.spi = o /\ bus.active = o /\ (bus.wiring.soft => bus.ours)
  BY <1>1 DEF SpiBusKept
<1>3. bus' = [wiring |-> bus.wiring, active |-> bus.active, spi |-> bus.spi,
              ours |-> TRUE, objs |-> bus.objs]
  <2>1. CASE bus.wiring.soft
    <3>1. bus' = bus
      BY <2>1 DEF Spi!Begin, Spi!ReinitSpi
    <3>2. bus.ours = TRUE
      BY <1>1, <1>2, <2>1 DEF SpiBuses
    <3> QED
      BY <1>1, <3>1, <3>2 DEF SpiBuses
  <2>2. CASE ~bus.wiring.soft
    <3>1. bus' = [bus EXCEPT !.ours = TRUE]
      BY <2>2 DEF Spi!Begin, Spi!ReinitSpi
    <3> QED
      BY <1>1, <3>1 DEF SpiBuses
  <2> QED
    BY <2>1, <2>2
<1>4. bus' \in SpiBuses
  BY <1>1, <1>3 DEF SpiBuses
<1>5. SpiBusKept'
  BY <1>1, <1>3, <1>4 DEF SpiBusKept
<1>6. SpiPanelKept(panel)' /\ panel'.got = << >>
  <2>1. SpiPanelKept(panel') /\ panel'.got = << >>
    BY <1>1, SpiSelects
  <2> QED
    BY <1>3, <2>1 DEF SpiPanelKept
<1>7. levels \in Seq(Latch)
  <2>1. 0 \in 0 .. 1 /\ 1 \in 0 .. 1
    OBVIOUS
  <2>2. Spi!Level(0, command) \in Seq(Latch) /\ Spi!Level(1, data) \in Seq(Latch)
    BY <2>1, SpiLevel
  <2> QED
    BY <2>2
<1>8. sending' = [self |-> o, sent |-> levels, i |-> 1, bits |-> 0, buffer |-> 0,
                  aligned |-> aligned]
  BY DEF Spi!Begin, Spi!DcCmd, Spi!DcData
<1>9. aligned \in BOOLEAN
  OBVIOUS
<1> HIDE DEF levels, aligned
<1>10. sending' \in SpiCalls
  <2>1. 1 \in Nat \ {0} /\ 0 \in 0 .. 7 /\ 0 \in Octet
    BY DEF Octet
  <2> QED
    BY <1>7, <1>8, <1>9, <2>1 DEF SpiCalls
<1>11. sending'.i <= Len(sending'.sent) + 1
  BY <1>7, <1>8
<1>12. sending'.aligned => SpiStream(sending, panel)'
  <2> SUFFICES ASSUME aligned PROVE SpiStream(sending, panel)'
    BY <1>8
  <2>1. panel'.count = 0
    BY DEF aligned
  <2>2. SubSeq(levels, 1, 0) = << >>
    BY <1>7, SubSeqEmpty
  <2>3. sending'.bits = 0 /\ sending'.i - 1 = 0 /\ sending'.sent = levels
    BY <1>8
  <2> QED
    BY <1>6, <2>1, <2>2, <2>3 DEF SpiStream
<1>13. sending' # None
  BY <1>10, SpiCallFacts
<1> QED
  BY <1>2, <1>3, <1>5, <1>6, <1>8, <1>10, <1>11, <1>12, <1>13 DEF SpiKept, SpiCall


\* A step that writes: the unit it is about, and the call before it.
LEMMA SpiUnitFacts ==
  ASSUME SpiKept, Spi!More
  PROVE  /\ SpiBusKept /\ SpiPanelKept(panel) /\ SpiCall /\ sending # None
         /\ sending.sent \in Seq(Latch) /\ sending.i \in 1 .. Len(sending.sent)
         /\ sending.bits \in 0 .. 7 /\ sending.buffer \in Octet
         /\ Spi!Unit = sending.sent[sending.i] /\ Spi!Unit \in Latch
         /\ Spi!Unit.dc \in 0 .. 1 /\ Spi!Unit.val \in Octet
<1>1. /\ SpiBusKept /\ SpiPanelKept(panel) /\ SpiCall /\ sending # None
      /\ sending \in SpiCalls
  BY DEF SpiKept, SpiCall, Spi!More
<1>2. /\ sending.sent \in Seq(Latch) /\ sending.i \in Nat \ {0}
      /\ sending.bits \in 0 .. 7 /\ sending.buffer \in Octet
  BY <1>1, SpiCallFacts
<1>3. sending.i \in 1 .. Len(sending.sent)
  BY <1>2 DEF Spi!More
<1>4. Spi!Unit = sending.sent[sending.i] /\ Spi!Unit \in Latch
  BY <1>2, <1>3, OneMore DEF Spi!Unit
<1>5. Spi!Unit.dc \in 0 .. 1 /\ Spi!Unit.val \in Octet
  BY <1>4, WholeFacts, SMTT(40)
<1> QED
  BY <1>1, <1>2, <1>3, <1>4, <1>5

LEMMA SpiWriteByte == ASSUME SpiKept, Spi!WriteByte PROVE SpiKept'
<1> DEFINE u == Spi!Unit
           p == [panel EXCEPT !.dc = u.dc]
<1>1. Spi!More /\ bus.wiring.dc /\ bus' = bus
      /\ panel' = Spi!Written(p, sending.self, u.val)
      /\ sending' = [sending EXCEPT !.i = @ + 1]
  BY DEF Spi!WriteByte
<1>2. /\ SpiBusKept /\ SpiPanelKept(panel) /\ SpiCall /\ sending # None
      /\ sending.sent \in Seq(Latch) /\ sending.i \in 1 .. Len(sending.sent)
      /\ sending.buffer \in Octet
      /\ u = sending.sent[sending.i] /\ u \in Latch
      /\ u.dc \in 0 .. 1 /\ u.val \in Octet
  BY <1>1, SpiUnitFacts
<1> HIDE DEF u
<1>3. u.val \in Nat /\ u = [dc |-> u.dc, val |-> u.val]
  <2>1. u.val \in Nat
    <3>1. \A x \in Octet : x \in Nat
      BY DEF Octet
    <3> QED
      BY <1>2, <3>1, Zenon
  <2>2. u = [dc |-> u.dc, val |-> u.val]
    BY <1>2 DEF Latch
  <2> QED
    BY <2>1, <2>2
<1>4. SpiPanelKept(p) /\ p.got = panel.got /\ p.dc = u.dc
  <2>1. panel \in SpiPanels
    BY <1>2 DEF SpiPanelKept
  <2>2. /\ p \in SpiPanels /\ p.got = panel.got /\ p.dc = u.dc
        /\ p.count = panel.count /\ p.reg = panel.reg
    BY <1>2, <2>1 DEF SpiPanels
  <2> HIDE DEF p
  <2> QED
    BY <1>2, <2>2 DEF SpiPanelKept
<1> HIDE DEF p
<1>5. SpiPanelKept(panel') /\ panel'.got = Append(panel.got, u)
  <2>1. panel' = Spi!Clocked(p, u.val)
    BY <1>1, <1>2, SpiWritten, SMTT(40)
  <2>2. SpiPanelKept(panel') /\ panel'.got = Append(p.got, [dc |-> p.dc, val |-> u.val])
    BY <1>1, <1>2, <1>3, <1>4, <2>1, SpiByte, ZenonT(60)
  <2> QED
    BY <1>3, <1>4, <2>2
<1>6. sending.bits = 0 /\ panel'.count = 0
  BY <1>1, <1>2, <1>5 DEF SpiCall, SpiPanelKept
<1>7. sending' = [sending EXCEPT !.i = @ + 1, !.bits = 0, !.buffer = sending.buffer]
  <2>1. sending \in SpiCalls
    BY <1>2 DEF SpiCall
  <2> QED
    BY <1>1, <1>6, <2>1 DEF SpiCalls
<1>8. sending.aligned => SpiStream(sending', panel')
  <2> SUFFICES ASSUME sending.aligned PROVE SpiStream(sending', panel')
    OBVIOUS
  <2>1. panel.got = SubSeq(sending.sent, 1, sending.i - 1)
    BY <1>2, <1>6 DEF SpiCall, SpiStream
  <2>2. panel'.got = SubSeq(sending.sent, 1, sending.i)
    BY <1>2, <1>5, <2>1, OneMore
  <2>3. /\ sending'.bits = 0 /\ sending'.sent = sending.sent
        /\ sending'.i - 1 = sending.i
    <3>1. sending \in SpiCalls
      BY <1>2 DEF SpiCall
    <3> QED
      BY <1>2, <1>6, <1>7, <3>1 DEF SpiCalls
  <2> QED
    BY <1>6, <2>2, <2>3 DEF SpiStream
<1>9. 0 \in 0 .. 7
  OBVIOUS
<1> QED
  BY <1>1, <1>2, <1>5, <1>7, <1>8, <1>9, SpiGoesOn, ZenonT(60)


\* The byte an iteration of spibus_write_9bit() packs: a number, and if bits
\* of the unit before are left over, those of it and the first of this one.
LEMMA SpiPackedFacts ==
  ASSUME sending.bits \in 0 .. 7, sending.buffer \in Octet, Spi!Unit \in Latch
  PROVE  /\ Spi!Packed \in Nat
         /\ sending.bits = 0 => Spi!Packed = Whole(Spi!Unit) \div 2 ^ 1
         /\ sending.bits \in 1 .. 6 =>
              Spi!Packed = Filled(sending.buffer, sending.bits,
                                  Whole(Spi!Unit) \div 2 ^ (sending.bits + 1))
         /\ sending.bits = 7 =>
              Spi!Packed = Filled(sending.buffer, sending.bits, Spi!Unit.dc)
<1> DEFINE b == sending.bits
           before == sending.buffer
           u == Spi!Unit
<1>0. u \in Latch /\ Spi!Unit = u /\ sending.bits = b /\ sending.buffer = before
      /\ b \in 0 .. 7 /\ before \in Octet
  OBVIOUS
<1> HIDE DEF b, before, u
<1>1. u.dc \in 0 .. 1 /\ u.val \in 0 .. 255 /\ before \in 0 .. 255
  BY <1>0, WholeFacts DEF Octet
<1>2. CASE b = 7
  <2>1. (b + 1) % 8 = 0 /\ 2 ^ (8 - b) = 2
    BY <1>2, Powers
  <2>2. Spi!Packed = (before * 2 + u.dc) % 256
    BY <1>0, <2>1 DEF Spi!Packed
  <2>3. (before * 2 + u.dc) % 256 = ((before * 2) % 256) + u.dc
    BY <1>1
  <2>4. ((before * 2) % 256) + u.dc \in Nat
    BY <1>1
  <2>5. Spi!Packed = Filled(before, b, u.dc)
    BY <2>1, <2>2, <2>3 DEF Filled
  <2> QED
    BY <1>0, <1>2, <2>2, <2>3, <2>4, <2>5
<1>3. CASE b \in 0 .. 6
  <2> DEFINE n == b + 1
             m == 2 ^ (9 - n)
             lead == Whole(u) \div 2 ^ n
  <2>1. n \in 1 .. 7 /\ (b + 1) % 8 = n /\ n # 0 /\ 9 - n = 8 - b
    BY <1>3
  <2>2. u.dc * 2 ^ (8 - n) + u.val \div 2 ^ n = lead /\ lead \in Nat
    BY <1>0, <2>1, Leading
  <2>3. Spi!Packed = ((before * m) % 256) + u.dc * 2 ^ (8 - n) + u.val \div 2 ^ n
    BY <1>0, <2>1 DEF Spi!Packed
  <2>4. m \in {1, 2, 4, 8, 16, 32, 64, 128, 256} /\ (n = 1 => m = 256)
    <3>1. 9 - n \in 0 .. 8 /\ 9 - n # 0 /\ (n = 1 => 9 - n = 8)
      BY <2>1
    <3>2. /\ m \in {1, 2, 4, 8, 16, 32, 64, 128, 256}
          /\ 9 - n = 8 => m = 256
      BY <3>1, PowerFacts, ZenonT(60)
    <3> QED
      BY <3>1, <3>2
  <2>5. (before * m) % 256 \in Nat /\ (n = 1 => (before * m) % 256 = 0)
    <3>1. \A x, y \in Nat : x * y \in Nat
      OBVIOUS
    <3>2. before * m \in Nat
      BY <1>1, <2>4, <3>1
    <3>3. m = 256 => (before * m) % 256 = 0
      BY <1>1
    <3> HIDE DEF m
    <3> QED
      BY <2>4, <3>2, <3>3
  <2> DEFINE top == (before * m) % 256
             first == u.dc * 2 ^ (8 - n)
             second == u.val \div 2 ^ n
  <2>6. Spi!Packed = top + lead
    <3>1. first \in Nat /\ second \in Nat
      <4>1. 8 - n \in 0 .. 8 /\ n \in 0 .. 8
        BY <2>1
      <4>2. /\ 2 ^ (8 - n) \in {1, 2, 4, 8, 16, 32, 64, 128, 256}
            /\ 2 ^ n \in {1, 2, 4, 8, 16, 32, 64, 128, 256}
        BY <4>1, PowerFacts, ZenonT(60)
      <4>3. first = 0 \/ first = 2 ^ (8 - n)
        BY <1>1, <4>2
      <4>4. \A x \in Nat, y \in Nat \ {0} : x \div y \in Nat
        OBVIOUS
      <4>5. second \in Nat
        <5>1. /\ \A x \in {1, 2, 4, 8, 16, 32, 64, 128, 256} : x \in Nat \ {0}
              /\ \A x \in 0 .. 255 : x \in Nat
          OBVIOUS
        <5>2. 2 ^ n \in Nat \ {0} /\ u.val \in Nat
          BY <1>1, <4>2, <5>1, ZenonT(60)
        <5> QED
          BY <4>4, <5>2, Zenon
      <4> QED
        BY <4>2, <4>3, <4>5
    <3>2. Spi!Packed = top + first + second
      BY <2>3
    <3>3. first + second = lead /\ top \in Nat
      BY <2>2, <2>5
    <3> HIDE DEF top, first, second, lead
    <3> QED
      BY <3>1, <3>2, <3>3
  <2>7. Spi!Packed \in Nat
    BY <2>2, <2>5, <2>6
  <2>8. CASE b = 0
    <3>1. n = 1
      BY <2>8
    <3> QED
      BY <1>0, <1>3, <2>2, <2>5, <2>6, <2>7, <2>8, <3>1
  <2>9. CASE b # 0
    <3>1. Spi!Packed = Filled(before, b, lead)
      BY <2>1, <2>6 DEF Filled
    <3> QED
      BY <1>0, <1>3, <2>1, <2>7, <2>9, <3>1
  <2> QED
    BY <2>8, <2>9
<1>4. b = 7 \/ b \in 0 .. 6
  BY <1>0
<1> QED
  BY <1>0, <1>2, <1>3, <1>4

\* What an iteration of spibus_write_9bit() leaves of a unit for the next.
SpiLeft(b) == (b + 1) % 8

\* The iteration: the panel gets the unit before, if bits of it were left
\* over, and of this one all but the bits left over now.
LEMMA SpiPacks ==
  ASSUME SpiKept, Spi!More, ~bus.wiring.dc,
         NEW n, n = SpiLeft(sending.bits),
         NEW q, q = Spi!Written(panel, sending.self, Spi!Packed),
         NEW w, w = IF n = 0 THEN Spi!Written(q, sending.self, Spi!Unit.val) ELSE q
  PROVE  /\ SpiPanelKept(w)
         /\ sending.aligned /\ n = 0 =>
              w.count = 0 /\ w.got = SubSeq(sending.sent, 1, sending.i)
         /\ sending.aligned /\ n # 0 =>
              /\ w.count = 9 - n /\ w.reg = Whole(Spi!Unit) \div 2 ^ n
              /\ w.got = SubSeq(sending.sent, 1, sending.i - 1)
<1> DEFINE u == Spi!Unit
           b == sending.bits
           i == sending.i
           s == sending.sent
           byte == Spi!Packed
<1>1. /\ SpiBusKept /\ SpiPanelKept(panel) /\ SpiCall /\ sending # None
      /\ s \in Seq(Latch) /\ i \in 1 .. Len(s)
      /\ b \in 0 .. 7 /\ sending.buffer \in Octet
      /\ u = s[i] /\ u \in Latch /\ u.dc \in 0 .. 1 /\ u.val \in Octet
  BY SpiUnitFacts
<1>2. /\ byte \in Nat
      /\ b = 0 => byte = Whole(u) \div 2 ^ 1
      /\ b \in 1 .. 6 => byte = Filled(sending.buffer, b, Whole(u) \div 2 ^ (b + 1))
      /\ b = 7 => byte = Filled(sending.buffer, b, u.dc)
  BY <1>1, SpiPackedFacts
<1>3. u.val \in Nat /\ (b = 7 <=> n = 0) /\ (b \in 0 .. 6 => n = b + 1)
  <2>1. b \in 0 .. 6 \/ b = 7
    BY <1>1
  <2>2. u.val \in Nat
    <3>1. \A x \in Octet : x \in Nat
      BY DEF Octet
    <3> QED
      BY <1>1, <3>1, Zenon
  <2> QED
    BY <2>1, <2>2 DEF SpiLeft
<1>4. /\ q = Spi!Clocked(panel, byte)
      /\ w = IF n = 0 THEN Spi!Clocked(q, u.val) ELSE q
  BY <1>1, SpiWritten
<1> HIDE DEF u, byte
<1>5. SpiPanelKept(q)
  BY <1>1, <1>2, <1>4, SpiTaken
<1>6. SpiPanelKept(w)
  BY <1>1, <1>3, <1>4, <1>5, SpiTaken
<1>7. ASSUME sending.aligned, b = 0
      PROVE  /\ n = 1 /\ w.count = 9 - n /\ w.reg = Whole(u) \div 2 ^ n
             /\ w.got = SubSeq(s, 1, i - 1)
  <2>1. panel.count = 0 /\ panel.got = SubSeq(s, 1, i - 1)
    BY <1>1, <1>7 DEF SpiCall, SpiStream
  <2>2. n = 1 /\ n # 0 /\ byte = Whole(u) \div 2 ^ 1
    BY <1>2, <1>3, <1>7
  <2>3. w = q
    BY <1>4, <2>2
  <2>4. q.got = panel.got /\ q.reg = byte /\ q.count = 8
    BY <1>1, <1>2, <1>4, <2>1, SpiFirstByte, SMTT(40)
  <2> HIDE DEF b, i, s
  <2>5. w.count = 9 - n
    BY <2>2, <2>3, <2>4
  <2>6. w.reg = Whole(u) \div 2 ^ n
    BY <2>2, <2>3, <2>4
  <2> QED
    BY <2>1, <2>2, <2>3, <2>4, <2>5, <2>6
<1>8. ASSUME sending.aligned, b # 0
      PROVE  /\ i - 1 \in 1 .. Len(s) /\ SpiPartial(panel, s[i - 1], b)
             /\ sending.buffer = s[i - 1].val
             /\ Append(panel.got, s[i - 1]) = SubSeq(s, 1, i - 1)
  <2>1. /\ i - 1 \in 1 .. Len(s) - 1
        /\ panel.count = 9 - b /\ panel.reg = Whole(s[i - 1]) \div 2 ^ b
        /\ sending.buffer = s[i - 1].val
        /\ panel.got = SubSeq(s, 1, (i - 1) - 1)
    BY <1>1, <1>8 DEF SpiCall, SpiStream
  <2> HIDE DEF b, i, s
  <2>2. i - 1 \in 1 .. Len(s)
    BY <1>1, <2>1
  <2>3. s[i - 1] \in Latch /\ Append(SubSeq(s, 1, (i - 1) - 1), s[i - 1]) = SubSeq(s, 1, i - 1)
    BY <1>1, <2>2, OneMore
  <2> QED
    BY <2>1, <2>2, <2>3 DEF SpiPartial
<1> HIDE DEF i, s
<1>9. ASSUME sending.aligned, b \in 1 .. 6
      PROVE  /\ w.count = 9 - n /\ w.reg = Whole(u) \div 2 ^ n
             /\ w.got = SubSeq(s, 1, i - 1)
  <2> DEFINE rest == Whole(u) \div 2 ^ (b + 1)
  <2>0. b # 0
    BY <1>9
  <2>1. n = b + 1
    BY <1>3, <1>9
  <2>2. FitsIn(rest, b) /\ byte = Filled(s[i - 1].val, b, rest)
    <3>1. n \in 1 .. 7 /\ n # 1 /\ n - 1 = b
      BY <1>9, <2>1
    <3>2. FitsIn(Whole(u) \div 2 ^ n, n - 1)
      BY <1>1, <3>1, Leading
    <3>3. sending.buffer = s[i - 1].val
      BY <1>8, <1>9, <2>0
    <3> QED
      BY <1>2, <1>9, <2>1, <3>1, <3>2, <3>3
  <2>3. rest = Whole(u) \div 2 ^ n
    BY <2>1
  <2> HIDE DEF rest, b
  <2>4. q.reg = rest /\ q.count = 8 - b /\ q.got = Append(panel.got, s[i - 1])
    <3>1. /\ SpiPanelKept(panel) /\ SpiBusKept /\ byte \in Nat
          /\ q = Spi!Clocked(panel, byte)
      BY <1>1, <1>2, <1>4
    <3>2. SpiPartial(panel, s[i - 1], b)
      BY <1>8, <1>9, <2>0
    <3> QED
      BY <2>2, <3>1, <3>2, SpiCompletes
  <2>5. w = q /\ 8 - b = 9 - n
    <3>1. n # 0 /\ 8 - b = 9 - n
      BY <1>9, <2>1
    <3> QED
      BY <1>4, <3>1
  <2> QED
    BY <1>8, <1>9, <2>0, <2>3, <2>4, <2>5
<1>10. ASSUME sending.aligned, b = 7
       PROVE  w.count = 0 /\ w.got = SubSeq(s, 1, i)
  <2>1. FitsIn(u.dc, b)
    <3>1. Room(7) = 2
      BY Powers DEF Room
    <3> QED
      BY <1>1, <1>10, <3>1 DEF FitsIn
  <2>2. b # 0
    BY <1>10
  <2>3. byte = Filled(s[i - 1].val, b, u.dc)
    BY <1>2, <1>8, <1>10, <2>2
  <2>4. 8 - b = 1 /\ n = 0
    BY <1>3, <1>10
  <2> HIDE DEF b
  <2>5. q.reg = u.dc /\ q.count = 8 - b /\ q.got = Append(panel.got, s[i - 1])
    BY <1>1, <1>2, <1>4, <1>8, <1>10, <2>1, <2>2, <2>3, SpiCompletes, SMTT(40)
  <2>6. q.count = 1 /\ q.got = SubSeq(s, 1, i - 1) /\ w = Spi!Clocked(q, u.val)
    BY <1>4, <1>8, <1>10, <2>2, <2>4, <2>5
  <2>7. Over(q) = 1
    <3>1. q.count - 1 = 0
      BY <2>6
    <3> QED
      BY <3>1, Powers DEF Over
  <2>8. Clocking(q, u.val) = Whole(u)
    BY <2>5 DEF Clocking, Whole
  <2>9. /\ w.count = q.count - 1
        /\ w.got = Append(q.got, [dc |-> (Clocking(q, u.val) \div Over(q)) \div 256,
                                  val |-> (Clocking(q, u.val) \div Over(q)) % 256])
    <3>1. q.count # 0 /\ w = Spi!Clocked(q, u.val)
      BY <2>6
    <3>2. SpiPanelKept(q) /\ SpiBusKept /\ u.val \in Nat
      BY <1>1, <1>3, <1>5
    <3> QED
      BY <3>1, <3>2, SpiNextByte
  <2>10. /\ Whole(u) \div 1 = Whole(u)
         /\ u = [dc |-> Whole(u) \div 256, val |-> Whole(u) % 256]
    <3>1. Whole(u) \in 0 .. 511 /\ u = [dc |-> Whole(u) \div 256, val |-> Whole(u) % 256]
      BY <1>1, WholeFacts
    <3>2. \A x \in 0 .. 511 : x \div 1 = x
      OBVIOUS
    <3> QED
      BY <3>1, <3>2
  <2>11. w.got = Append(SubSeq(s, 1, i - 1), u)
    BY <2>6, <2>7, <2>8, <2>9, <2>10, ZenonT(60)
  <2>12. Append(SubSeq(s, 1, i - 1), u) = SubSeq(s, 1, i)
    BY <1>1, OneMore
  <2>13. w.count = 0
    BY <2>6, <2>9
  <2> QED
    BY <2>11, <2>12, <2>13
<1>11. b = 0 \/ b \in 1 .. 6 \/ b = 7
  BY <1>1
<1>12. sending.aligned /\ n = 0 => w.count = 0 /\ w.got = SubSeq(s, 1, i)
  BY <1>3, <1>10, <1>11
<1>13. sending.aligned /\ n # 0 =>
         /\ w.count = 9 - n /\ w.reg = Whole(u) \div 2 ^ n
         /\ w.got = SubSeq(s, 1, i - 1)
  BY <1>3, <1>7, <1>9, <1>11
<1> QED
  BY <1>6, <1>12, <1>13 DEF u, s, i


\* The padding completes the last unit, and CS drops what is left of it.
LEMMA SpiPads ==
  ASSUME SpiBusKept, SpiCall, ~bus.wiring.dc, NEW u \in Latch, NEW n \in 1 .. 7,
         NEW w, SpiPanelKept(w),
         NEW r, r = Spi!Padded(w, sending.self, n, u.val)
  PROVE  /\ SpiPanelKept(r) /\ r.count = 0
         /\ SpiPartial(w, u, n) => r.got = Append(w.got, u)
<1> DEFINE byte == (u.val * 2 ^ (8 - n)) % 256
           p == Spi!Clocked(w, byte)
<1>1. r = Spi!Select(Spi!Deselect(p))
  <2>1. n # 0
    OBVIOUS
  <2> QED
    BY <2>1, SpiWritten DEF Spi!Padded
<1>2. byte \in Nat
  <2>1. u.val \in 0 .. 255
    BY WholeFacts DEF Octet
  <2>2. 8 - n \in 0 .. 8
    OBVIOUS
  <2>3. 2 ^ (8 - n) \in {1, 2, 4, 8, 16, 32, 64, 128, 256}
    BY <2>2, PowerFacts
  <2>4. \A x, y \in Nat : (x * y) % 256 \in Nat
    OBVIOUS
  <2> QED
    BY <2>1, <2>3, <2>4
<1>3. byte = Filled(u.val, n, 0) /\ FitsIn(0, n)
  <2>1. 8 - n \in 0 .. 8
    OBVIOUS
  <2>2. 2 ^ (8 - n) \in {1, 2, 4, 8, 16, 32, 64, 128, 256}
    BY <2>1, PowerFacts
  <2>3. FitsIn(0, n)
    BY <2>2 DEF FitsIn, Room
  <2>4. byte + 0 = byte
    BY <1>2
  <2> QED
    BY <2>3, <2>4 DEF Filled
<1> HIDE DEF byte
<1>4. SpiPanelKept(p)
  BY <1>2, SpiTaken
<1>5. SpiPartial(w, u, n) => p.got = Append(w.got, u)
  BY <1>2, <1>3, SpiCompletes
<1> HIDE DEF p
<1>6. SpiPanelKept(r) /\ r.got = p.got /\ r.count = 0
  BY <1>1, <1>4, SpiToggles, SMTT(40)
<1> QED
  BY <1>5, <1>6

LEMMA SpiWrite9bit == ASSUME SpiKept, Spi!Write9bit PROVE SpiKept'
<1> DEFINE u == Spi!Unit
           n == SpiLeft(sending.bits)
           q == Spi!Written(panel, sending.self, Spi!Packed)
           w == IF n = 0 THEN Spi!Written(q, sending.self, u.val) ELSE q
           final == Spi!LastOfWrite
           i == sending.i
           s == sending.sent
<1>1. /\ Spi!More /\ ~bus.wiring.dc /\ bus' = bus
      /\ panel' = IF final THEN Spi!Padded(w, sending.self, n, u.val) ELSE w
      /\ sending' = [sending EXCEPT !.i = @ + 1, !.bits = IF final THEN 0 ELSE n,
                                    !.buffer = IF final THEN 0 ELSE u.val]
  BY DEF Spi!Write9bit, SpiLeft
<1>2. /\ SpiBusKept /\ SpiCall /\ sending # None
      /\ s \in Seq(Latch) /\ i \in 1 .. Len(s) /\ sending.bits \in 0 .. 7
      /\ u = s[i] /\ u \in Latch /\ u.val \in Octet
  BY <1>1, SpiUnitFacts
<1>3. /\ SpiPanelKept(w)
      /\ sending.aligned /\ n = 0 => w.count = 0 /\ w.got = SubSeq(s, 1, i)
      /\ sending.aligned /\ n # 0 =>
           /\ w.count = 9 - n /\ w.reg = Whole(u) \div 2 ^ n
           /\ w.got = SubSeq(s, 1, i - 1)
  BY <1>1, SpiPacks
<1>4. n \in 0 .. 7
  BY <1>2 DEF SpiLeft
<1>5. ~final => i # Len(s)
  BY DEF Spi!LastOfWrite
<1> HIDE DEF u, n, w, q, final
<1> DEFINE bits == IF final THEN 0 ELSE n
           buffer == IF final THEN 0 ELSE u.val
<1>6. bits \in 0 .. 7 /\ buffer \in Octet /\ (bus.wiring.dc => bits = 0)
  <2>1. 0 \in 0 .. 7 /\ 0 \in Octet
    BY DEF Octet
  <2> QED
    BY <1>1, <1>2, <1>4, <2>1
<1>7. SpiPanelKept(panel')
  <2>1. CASE ~final
    BY <1>1, <1>3, <2>1
  <2>2. CASE final /\ n = 0
    BY <1>1, <1>3, <2>2 DEF Spi!Padded
  <2>3. CASE final /\ n # 0
    <3>1. n \in 1 .. 7 /\ panel' = Spi!Padded(w, sending.self, n, u.val)
      BY <1>1, <1>4, <2>3
    <3> QED
      BY <1>1, <1>2, <1>3, <3>1, SpiPads, ZenonT(60)
  <2> QED
    BY <2>1, <2>2, <2>3
<1>8. /\ sending'.bits = bits /\ sending'.buffer = buffer
      /\ sending'.sent = s /\ sending'.i - 1 = i
  <2>1. sending \in SpiCalls
    BY <1>2 DEF SpiCall
  <2>2. /\ sending'.bits = bits /\ sending'.buffer = buffer
        /\ sending'.sent = s /\ sending'.i = i + 1
    BY <1>1, <2>1 DEF SpiCalls
  <2> QED
    BY <1>2, <2>2
<1>9. ASSUME sending.aligned PROVE SpiStream(sending', panel')
  <2>1. CASE n # 0 /\ ~final
    <3>1. panel' = w /\ bits = n /\ buffer = u.val
      BY <1>1, <2>1
    <3>2. i \in 1 .. Len(s) - 1
      BY <1>2, <1>5, <2>1
    <3> HIDE DEF bits, buffer, i, s
    <3> QED
      BY <1>2, <1>3, <1>8, <1>9, <2>1, <3>1, <3>2 DEF SpiStream
  <2>2. CASE n = 0 \/ final
    <3>1. bits = 0
      BY <2>2
    <3>2. panel'.count = 0 /\ panel'.got = SubSeq(s, 1, i)
      <4>1. CASE n = 0
        <5>1. panel' = w
          BY <1>1, <4>1 DEF Spi!Padded
        <5> QED
          BY <1>3, <1>9, <4>1, <5>1
      <4>2. CASE n # 0 /\ final
        <5>1. n \in 1 .. 7 /\ panel' = Spi!Padded(w, sending.self, n, u.val)
          BY <1>1, <1>4, <4>2
        <5>2. SpiPartial(w, u, n) /\ w.got = SubSeq(s, 1, i - 1)
          BY <1>2, <1>3, <1>9, <4>2 DEF SpiPartial
        <5>3. panel'.count = 0 /\ panel'.got = Append(w.got, u)
          <6>1. /\ SpiBusKept /\ SpiCall /\ ~bus.wiring.dc /\ u \in Latch
                /\ SpiPanelKept(w)
            BY <1>1, <1>2, <1>3
          <6> QED
            BY <5>1, <5>2, <6>1, SpiPads
        <5> QED
          BY <1>2, <5>2, <5>3, OneMore
      <4> QED
        BY <2>2, <4>1, <4>2
    <3> HIDE DEF bits, i, s
    <3> QED
      BY <1>8, <3>1, <3>2 DEF SpiStream
  <2> QED
    BY <2>1, <2>2
<1> QED
  BY <1>1, <1>2, <1>6, <1>7, <1>9, SpiGoesOn


LEMMA SpiEnds == ASSUME SpiKept, Spi!Raise \/ Spi!Return PROVE SpiKept'
<1>1. /\ SpiBusKept /\ SpiPanelKept(panel) /\ sending' = None /\ bus' = bus
      /\ panel' = [panel EXCEPT !.got = << >>]
           \/ panel' = [Spi!Deselect(panel) EXCEPT !.got = << >>]
  BY DEF SpiKept, Spi!Raise, Spi!Return
<1>2. ASSUME NEW p, SpiPanelKept(p), panel' = [p EXCEPT !.got = << >>]
      PROVE  SpiPanelKept(panel') /\ panel'.got = << >>
  <2>1. p \in SpiPanels
    BY <1>2 DEF SpiPanelKept
  <2>2. << >> \in Seq(Units)
    OBVIOUS
  <2>3. /\ panel' \in SpiPanels /\ panel'.got = << >>
        /\ panel'.count = p.count /\ panel'.reg = p.reg
    BY <1>2, <2>1, <2>2 DEF SpiPanels
  <2> QED
    BY <1>2, <2>3 DEF SpiPanelKept
<1>3. SpiPanelKept(panel') /\ panel'.got = << >>
  <2>1. SpiPanelKept(Spi!Deselect(panel))
    BY <1>1, SpiSelects
  <2> QED
    BY <1>1, <1>2, <2>1
<1>4. SpiBusKept' /\ SpiPanelKept(panel)'
  BY <1>1, <1>3 DEF SpiBusKept, SpiPanelKept
<1> QED
  BY <1>1, <1>3, <1>4 DEF SpiKept

LEMMA SpiStep == ASSUME SpiKept, Spi!Next PROVE SpiKept'
<1>1. ASSUME NEW o \in Objects, NEW m \in SpiMessages, Spi!Begin(o, m[1], m[2])
      PROVE  SpiKept'
  BY <1>1, MessageBytes, SpiBegins, SMTT(40)
<1> QED
  BY <1>1, SpiMakes, SpiOthers, SpiWriteByte, SpiWrite9bit, SpiEnds DEF Spi!Next

LEMMA SpiRight == SpiKept => Spi!PanelGetsBytes
<1> DEFINE s == sending.sent
           i == sending.i
<1> SUFFICES ASSUME SpiKept, sending # None, sending.aligned
             PROVE  /\ Spi!IsPrefix(panel.got, s)
                    /\ ~Spi!More => panel.got = s
  BY DEF Spi!PanelGetsBytes
<1>1. /\ sending \in SpiCalls /\ i <= Len(s) + 1 /\ SpiStream(sending, panel)
  BY DEF SpiKept, SpiCall
<1>2. s \in Seq(Latch) /\ i \in 1 .. Len(s) + 1 /\ Len(s) \in Nat
  BY <1>1, SpiCallFacts
<1>3. \E m \in 0 .. Len(s) : panel.got = SubSeq(s, 1, m) /\ (i > Len(s) => m = Len(s))
  <2>1. CASE sending.bits = 0
    <3>1. panel.got = SubSeq(s, 1, i - 1)
      BY <1>1, <2>1 DEF SpiStream
    <3> HIDE DEF s, i
    <3>2. i - 1 \in 0 .. Len(s) /\ (i > Len(s) => i - 1 = Len(s))
      BY <1>2
    <3> QED
      BY <3>1, <3>2
  <2>2. CASE sending.bits # 0
    <3>1. i - 1 \in 1 .. Len(s) - 1 /\ panel.got = SubSeq(s, 1, (i - 1) - 1)
      BY <1>1, <2>2 DEF SpiStream
    <3> HIDE DEF s, i
    <3>2. (i - 1) - 1 \in 0 .. Len(s) /\ ~(i > Len(s))
      BY <1>2, <3>1
    <3> QED
      BY <3>1, <3>2
  <2> QED
    BY <2>1, <2>2
<1>4. ~Spi!More => i > Len(s)
  BY <1>2 DEF Spi!More
<1> HIDE DEF s, i
<1>5. PICK m \in 0 .. Len(s) : panel.got = SubSeq(s, 1, m) /\ (i > Len(s) => m = Len(s))
  BY <1>3
<1>6. Spi!IsPrefix(SubSeq(s, 1, m), s)
  <2>1. Len(SubSeq(s, 1, m)) = m /\ SubSeq(s, 1, m) \in Seq(Latch)
    <3>1. \A j \in 1 .. m : s[j] \in Latch
      BY <1>2
    <3>2. SubSeq(s, 1, m) \in Seq(Latch) /\ Len(SubSeq(s, 1, m)) = IF 1 <= m THEN m - 1 + 1 ELSE 0
      BY <3>1, SubSeqProperties
    <3> QED
      BY <3>2
  <2>2. SubSeq(SubSeq(s, 1, m), 1, m) = SubSeq(s, 1, m)
    BY <2>1, SubSeqFull
  <2> QED
    BY <1>2, <2>1, <2>2 DEF Spi!IsPrefix
<1>7. SubSeq(s, 1, Len(s)) = s
  BY <1>2, SubSeqFull
<1> QED
  BY <1>4, <1>5, <1>6, <1>7

-----------------------------------------------------------------------------
(* The HUB75 matrix: what the converter and the scan compute.              *)

LEMMA DivMod ==
  ASSUME NEW w \in Nat \ {0}, NEW q \in Nat, NEW x \in 0 .. w - 1
  PROVE  (w * q + x) \div w = q /\ (w * q + x) % w = x
OBVIOUS

LEMMA Quotient ==
  ASSUME NEW w \in Nat \ {0}, NEW t \in Nat \ {0}, NEW j \in 0 .. w * t - 1
  PROVE  j \div w \in 0 .. t - 1 /\ j % w \in 0 .. w - 1
<1>1. w * t \in Nat
  OBVIOUS
<1>2. j \in Nat /\ j < w * t
  BY <1>1
<1>3. j \div w \in Nat /\ j % w \in 0 .. w - 1
  BY <1>2
<1>4. \A q \in Int : q = j \div w => q < t
  BY <1>2
<1> QED
  BY <1>3, <1>4

\* The powers, without the exponents.
Two(n) == 2 ^ n

LEMMA Twos ==
  /\ Two(0) = 1 /\ Two(1) = 2 /\ Two(2) = 4 /\ Two(3) = 8 /\ Two(4) = 16
  /\ Two(5) = 32 /\ Two(6) = 64 /\ Two(7) = 128 /\ Two(8) = 256
  /\ Two(9) = 512 /\ Two(10) = 1024 /\ Two(11) = 2048 /\ Two(12) = 4096
  /\ Two(13) = 8192 /\ Two(14) = 16384 /\ Two(15) = 32768
BY DEF Two

LEMMA Doubles ==
  ASSUME NEW n \in 0 .. 15
  PROVE  Two(n) \in Nat \ {0} /\ (n < 15 => Two(n + 1) = 2 * Two(n))
BY Twos

LEMMA TwoSum ==
  ASSUME NEW a \in 0 .. 15, NEW b \in 0 .. 15 - a, b <= 5
  PROVE  Two(a + b) = Two(a) * Two(b)
<1>0. \A n \in 0 .. 14 : Two(n + 1) = 2 * Two(n)
  BY Doubles
<1>1. CASE b = 0
  BY <1>1, Doubles, Twos
<1>2. CASE b = 1
  BY <1>0, <1>2, Doubles, Twos
<1>3. CASE b = 2
  <2>1. Two(a + 1) = 2 * Two(a) /\ Two(a + 2) = 2 * Two(a + 1)
    BY <1>0, <1>3
  <2> QED
    BY <1>3, <2>1, Doubles, Twos
<1>4. CASE b = 3
  <2>1. /\ Two(a + 1) = 2 * Two(a) /\ Two(a + 2) = 2 * Two(a + 1)
        /\ Two(a + 3) = 2 * Two(a + 2)
    BY <1>0, <1>4
  <2> QED
    BY <1>4, <2>1, Doubles, Twos
<1>5. CASE b = 4
  <2>1. /\ Two(a + 1) = 2 * Two(a) /\ Two(a + 2) = 2 * Two(a + 1)
        /\ Two(a + 3) = 2 * Two(a + 2) /\ Two(a + 4) = 2 * Two(a + 3)
    BY <1>0, <1>5
  <2> QED
    BY <1>5, <2>1, Doubles, Twos
<1>6. CASE b = 5
  <2>1. /\ Two(a + 1) = 2 * Two(a) /\ Two(a + 2) = 2 * Two(a + 1)
        /\ Two(a + 3) = 2 * Two(a + 2) /\ Two(a + 4) = 2 * Two(a + 3)
        /\ Two(a + 5) = 2 * Two(a + 4)
    BY <1>0, <1>6
  <2> QED
    BY <1>6, <2>1, Doubles, Twos
<1> QED
  BY <1>1, <1>2, <1>3, <1>4, <1>5, <1>6

LEMMA Shifts ==
  ASSUME NEW v \in Nat, NEW a \in 0 .. 15, NEW b \in 0 .. 15 - a, b <= 5
  PROVE  (v \div Two(a)) \div Two(b) = v \div Two(a + b)
<1>1. Two(a) \in Nat \ {0} /\ Two(b) \in Nat \ {0}
  BY Doubles
<1>2. \A m, n \in Nat \ {0} : (v \div m) \div n = v \div (m * n)
  OBVIOUS
<1> QED
  BY <1>1, <1>2, TwoSum

LEMMA LowBits ==
  ASSUME NEW v \in Nat
  PROVE  /\ \A e \in 0 .. 5 : ((v % 64) \div Two(e)) % 2 = (v \div Two(e)) % 2
         /\ \A e \in 0 .. 4 : ((v % 32) \div Two(e)) % 2 = (v \div Two(e)) % 2
<1>0. /\ Two(0) = 1 /\ Two(1) = 2 /\ Two(2) = 4 /\ Two(3) = 8
      /\ Two(4) = 16 /\ Two(5) = 32
  BY Twos
<1>1. ASSUME NEW e \in 0 .. 5
      PROVE  ((v % 64) \div Two(e)) % 2 = (v \div Two(e)) % 2
  BY <1>0
<1>2. ASSUME NEW e \in 0 .. 4
      PROVE  ((v % 32) \div Two(e)) % 2 = (v \div Two(e)) % 2
  BY <1>0
<1> QED
  BY <1>1, <1>2

\* Doubled, with its highest bit copied below.
LEMMA Stretched ==
  ASSUME NEW v \in 0 .. 31
  PROVE  /\ (v * 2 + v \div 16) % 2 = (v \div 16) % 2
         /\ \A e \in 1 .. 5 :
              ((v * 2 + v \div 16) \div Two(e)) % 2 = (v \div Two(e - 1)) % 2
<1>1. ASSUME NEW e \in 1 .. 5
      PROVE  ((v * 2 + v \div 16) \div Two(e)) % 2 = (v \div Two(e - 1)) % 2
  BY Twos
<1> QED
  BY <1>1

-----------------------------------------------------------------------------
\* The bit of a 565 word that the converter tests for a plane is the bit of
\* the brightness that the plane shows.
Odd(v) == v % 2 = 1
Shr(v, n) == v \div Two(n)
Low(v, n) == v % Two(n)
Stretch(v) == v * 2 + v \div 16

LEMMA ShrNat ==
  ASSUME NEW v \in Nat, NEW n \in 0 .. 15
  PROVE  Shr(v, n) \in Nat /\ Low(v, n) \in Nat
<1>1. \A m \in Nat \ {0} : v \div m \in Nat /\ v % m \in Nat
  OBVIOUS
<1> QED
  BY <1>1, Doubles, Zenon DEF Shr, Low

LEMMA ShrShr ==
  ASSUME NEW v \in Nat, NEW a \in 0 .. 15, NEW b \in 0 .. 5, a + b <= 15
  PROVE  Shr(Shr(v, a), b) = Shr(v, a + b)
<1>1. b \in 0 .. 15 - a /\ b <= 5
  OBVIOUS
<1> QED
  BY <1>1, Shifts, Zenon DEF Shr

LEMMA ShrLow6 ==
  ASSUME NEW v \in Nat, NEW e \in 0 .. 5
  PROVE  Odd(Shr(Low(v, 6), e)) <=> Odd(Shr(v, e))
<1>1. ((v % 64) \div Two(e)) % 2 = (v \div Two(e)) % 2
  BY LowBits
<1>2. Low(v, 6) = v % 64
  BY Twos DEF Low
<1> QED
  BY <1>1, <1>2, Zenon DEF Odd, Shr

LEMMA ShrLow5 ==
  ASSUME NEW v \in Nat, NEW e \in 0 .. 4
  PROVE  Odd(Shr(Low(v, 5), e)) <=> Odd(Shr(v, e))
<1>1. ((v % 32) \div Two(e)) % 2 = (v \div Two(e)) % 2
  BY LowBits
<1>2. Low(v, 5) = v % 32
  BY Twos DEF Low
<1> QED
  BY <1>1, <1>2, Zenon DEF Odd, Shr

LEMMA ShrSmall ==
  ASSUME NEW v, Word565(v)
  PROVE  v \in Nat /\ Shr(v, 11) \in 0 .. 31 /\ Low(v, 5) \in 0 .. 31
<1>1. Two(11) = 2048 /\ Two(5) = 32
  BY Twos
<1> QED
  BY <1>1 DEF Shr, Low, Word565

LEMMA StretchFacts ==
  ASSUME NEW v \in 0 .. 31
  PROVE  /\ Odd(Shr(Stretch(v), 0)) <=> Odd(Shr(v, 4))
         /\ \A e \in 1 .. 5 : Odd(Shr(Stretch(v), e)) <=> Odd(Shr(v, e - 1))
<1>1. (v * 2 + v \div 16) \div 1 = v * 2 + v \div 16
  OBVIOUS
<1>2. Two(0) = 1 /\ Two(4) = 16
  BY Twos
<1>3. Odd(Shr(Stretch(v), 0)) <=> Odd(Shr(v, 4))
  BY <1>1, <1>2, Stretched, Zenon DEF Odd, Shr, Stretch
<1>4. ASSUME NEW e \in 1 .. 5
      PROVE  Odd(Shr(Stretch(v), e)) <=> Odd(Shr(v, e - 1))
  BY Stretched, Zenon DEF Odd, Shr, Stretch
<1> QED
  BY <1>3, <1>4

LEMMA PowerIsTwo == ASSUME NEW n PROVE 2 ^ n = Two(n)
BY DEF Two

LEMMA HubBits ==
  ASSUME NEW word, NEW n
  PROVE  Matrix!BitSet(word, n) <=> Odd(Shr(word, n))
BY PowerIsTwo, Zenon DEF Matrix!BitSet, Odd, Shr

LEMMA HubLevels ==
  ASSUME core.numPlanes \in 1 .. 6, NEW word
  PROVE  /\ Matrix!Level(word, 0) =
              IF core.numPlanes = 6 THEN Stretch(Shr(word, 11))
              ELSE Shr(Shr(word, 11), 5 - core.numPlanes)
         /\ Matrix!Level(word, 1) = Shr(Low(Shr(word, 5), 6), 6 - core.numPlanes)
         /\ Matrix!Level(word, 2) =
              IF core.numPlanes = 6 THEN Stretch(Low(word, 5))
              ELSE Shr(Low(word, 5), 5 - core.numPlanes)
<1> DEFINE n == core.numPlanes
<1>1. (n > 5 <=> n = 6) /\ ~(n > 6)
  OBVIOUS
<1>2. 2 ^ (5 - 1) = 16
  OBVIOUS
<1>3. Matrix!Level(word, 0) =
        IF n > 5 THEN (word \div 2 ^ 11) * 2 + (word \div 2 ^ 11) \div 2 ^ (5 - 1)
        ELSE (word \div 2 ^ 11) \div 2 ^ (5 - n)
  BY DEF Matrix!Level
<1>4. Matrix!Level(word, 1) =
        IF n > 6 THEN ((word \div 2 ^ 5) % 2 ^ 6) * 2 + ((word \div 2 ^ 5) % 2 ^ 6) \div 2 ^ (6 - 1)
        ELSE ((word \div 2 ^ 5) % 2 ^ 6) \div 2 ^ (6 - n)
  BY DEF Matrix!Level
<1>5. Matrix!Level(word, 2) =
        IF n > 5 THEN (word % 2 ^ 5) * 2 + (word % 2 ^ 5) \div 2 ^ (5 - 1)
        ELSE (word % 2 ^ 5) \div 2 ^ (5 - n)
  BY DEF Matrix!Level
<1> HIDE DEF n
<1>6. /\ 2 ^ 11 = Two(11) /\ 2 ^ 5 = Two(5) /\ 2 ^ 6 = Two(6)
      /\ 2 ^ (5 - n) = Two(5 - n) /\ 2 ^ (6 - n) = Two(6 - n)
  BY PowerIsTwo, Zenon
<1>7. Matrix!Level(word, 0) = IF n = 6 THEN Stretch(Shr(word, 11))
                              ELSE Shr(Shr(word, 11), 5 - n)
  BY <1>1, <1>2, <1>3, <1>6, Zenon DEF Stretch, Shr
<1>8. Matrix!Level(word, 1) = Shr(Low(Shr(word, 5), 6), 6 - n)
  BY <1>1, <1>4, <1>6, Zenon DEF Low, Shr
<1>9. Matrix!Level(word, 2) = IF n = 6 THEN Stretch(Low(word, 5))
                              ELSE Shr(Low(word, 5), 5 - n)
  BY <1>1, <1>2, <1>5, <1>6, Zenon DEF Stretch, Shr, Low
<1> QED
  BY <1>7, <1>8, <1>9, Zenon DEF n

LEMMA RedBits ==
  ASSUME NEW n \in 1 .. 6, NEW p \in Nat, p < n,
         NEW word, Word565(word),
         NEW v, v = Shr(word, 11),
         NEW bit, bit = IF n < 6 THEN 11 + 5 - n + p
                        ELSE IF p = 0 THEN 15 ELSE 10 + p,
         NEW level, level = IF n = 6 THEN Stretch(v) ELSE Shr(v, 5 - n)
  PROVE  Odd(Shr(word, bit)) <=> Odd(Shr(level, p))
<1>1. v \in 0 .. 31 /\ word \in Nat
  BY ShrSmall
<1>4. \A e \in 0 .. 4 : Shr(v, e) = Shr(word, 11 + e)
  BY <1>1, ShrShr
<1>5. \A a, b \in 0 .. 4 : Shr(Shr(v, a), b) = Shr(v, a + b)
  BY <1>1, ShrShr
<1>6. /\ Odd(Shr(Stretch(v), 0)) <=> Odd(Shr(v, 4))
      /\ \A e \in 1 .. 5 : Odd(Shr(Stretch(v), e)) <=> Odd(Shr(v, e - 1))
  BY <1>1, StretchFacts
<1>7. CASE n = 6
  <2>1. CASE p = 0
    <3>1. Shr(v, 4) = Shr(word, 15)
      BY <1>4
    <3> QED
      BY <1>6, <1>7, <2>1, <3>1
  <2>2. CASE p # 0
    <3>1. p \in 1 .. 5 /\ p - 1 \in 0 .. 4 /\ 11 + (p - 1) = 10 + p
      BY <1>1, <1>7, <2>2
    <3>2. Shr(v, p - 1) = Shr(word, 10 + p)
      BY <1>4, <3>1
    <3> QED
      BY <1>6, <1>7, <2>2, <3>1, <3>2
  <2> QED
    BY <2>1, <2>2
<1>8. CASE n # 6
  <2>1. 5 - n \in 0 .. 4 /\ p \in 0 .. 4 /\ 5 - n + p \in 0 .. 4
    BY <1>1, <1>8
  <2>2. Shr(Shr(v, 5 - n), p) = Shr(word, 11 + (5 - n + p))
    BY <1>4, <1>5, <2>1
  <2>3. bit = 11 + (5 - n + p)
    BY <1>8
  <2> QED
    BY <1>8, <2>2, <2>3
<1> QED
  BY <1>7, <1>8

LEMMA GreenBits ==
  ASSUME NEW n \in 1 .. 6, NEW p \in Nat, p < n,
         NEW word, Word565(word),
         NEW v, v = Shr(word, 5),
         NEW bit, bit = IF n < 6 THEN 6 + 5 - n + p ELSE 5 + p,
         NEW level, level = Shr(Low(v, 6), 6 - n)
  PROVE  Odd(Shr(word, bit)) <=> Odd(Shr(level, p))
<1>0. word \in Nat
  BY ShrSmall
<1>1. v \in Nat /\ Low(v, 6) \in Nat
  BY <1>0, ShrNat
<1>4. \A e \in 0 .. 5 : Shr(v, e) = Shr(word, 5 + e)
  BY <1>0, ShrShr
<1>5. 6 - n \in 0 .. 5 /\ p \in 0 .. 5 /\ 6 - n + p \in 0 .. 5
  BY <1>1
<1>6. Shr(Shr(Low(v, 6), 6 - n), p) = Shr(Low(v, 6), 6 - n + p)
  BY <1>1, <1>5, ShrShr
<1>7. Odd(Shr(Low(v, 6), 6 - n + p)) <=> Odd(Shr(v, 6 - n + p))
  BY <1>1, <1>5, ShrLow6
<1> QED
  BY <1>4, <1>5, <1>6, <1>7

LEMMA BlueBits ==
  ASSUME NEW n \in 1 .. 6, NEW p \in Nat, p < n,
         NEW word, Word565(word),
         NEW v, v = Low(word, 5),
         NEW bit, bit = IF n < 6 THEN 5 - n + p ELSE IF p = 0 THEN 4 ELSE p - 1,
         NEW level, level = IF n = 6 THEN Stretch(v) ELSE Shr(v, 5 - n)
  PROVE  Odd(Shr(word, bit)) <=> Odd(Shr(level, p))
<1>1. v \in 0 .. 31 /\ word \in Nat
  BY ShrSmall
<1>4. \A e \in 0 .. 4 : Odd(Shr(v, e)) <=> Odd(Shr(word, e))
  BY <1>1, ShrLow5
<1>5. \A a, b \in 0 .. 4 : Shr(Shr(v, a), b) = Shr(v, a + b)
  BY <1>1, ShrShr
<1>6. /\ Odd(Shr(Stretch(v), 0)) <=> Odd(Shr(v, 4))
      /\ \A e \in 1 .. 5 : Odd(Shr(Stretch(v), e)) <=> Odd(Shr(v, e - 1))
  BY <1>1, StretchFacts
<1>7. CASE n = 6
  <2>1. CASE p = 0
    BY <1>4, <1>6, <1>7, <2>1
  <2>2. CASE p # 0
    <3>1. p \in 1 .. 5 /\ p - 1 \in 0 .. 4
      BY <1>1, <1>7, <2>2
    <3> QED
      BY <1>4, <1>6, <1>7, <2>2, <3>1
  <2> QED
    BY <2>1, <2>2
<1>8. CASE n # 6
  <2>1. 5 - n \in 0 .. 4 /\ p \in 0 .. 4 /\ 5 - n + p \in 0 .. 4
    BY <1>1, <1>8
  <2>2. Shr(Shr(v, 5 - n), p) = Shr(v, 5 - n + p)
    BY <1>5, <2>1
  <2> QED
    BY <1>4, <1>8, <2>1, <2>2
<1> QED
  BY <1>7, <1>8

-----------------------------------------------------------------------------
(* What the burst of a row and plane shifts out.                           *)

HubPlanes(n) == core.numPlanes = n

\* The converter's colours are the bits of both halves' brightness.
LEMMA HubColours ==
  ASSUME NEW n \in 1 .. 6, HubPlanes(n), NEW p \in Nat, p < n,
         NEW upper, Word565(upper), NEW lower, Word565(lower)
  PROVE  Matrix!Colours(upper, lower, p) =
           {c \in 0 .. 5 :
              Matrix!BitSet(Matrix!Level(IF c < 3 THEN upper ELSE lower, c % 3), p)}
<1>1. /\ Matrix!RedBit(p) = IF n < 6 THEN 11 + 5 - n + p
                            ELSE IF p = 0 THEN 15 ELSE 10 + p
      /\ Matrix!GreenBit(p) = IF n < 6 THEN 6 + 5 - n + p ELSE 5 + p
      /\ Matrix!BlueBit(p) = IF n < 6 THEN 5 - n + p
                             ELSE IF p = 0 THEN 4 ELSE p - 1
  BY Zenon DEF HubPlanes, Matrix!RedBit, Matrix!GreenBit, Matrix!BlueBit
<1>2. ASSUME NEW word, Word565(word)
      PROVE  /\ Matrix!BitSet(word, Matrix!RedBit(p))
                  <=> Matrix!BitSet(Matrix!Level(word, 0), p)
             /\ Matrix!BitSet(word, Matrix!GreenBit(p))
                  <=> Matrix!BitSet(Matrix!Level(word, 1), p)
             /\ Matrix!BitSet(word, Matrix!BlueBit(p))
                  <=> Matrix!BitSet(Matrix!Level(word, 2), p)
  <2>1. /\ Matrix!Level(word, 0) = IF n = 6 THEN Stretch(Shr(word, 11))
                                   ELSE Shr(Shr(word, 11), 5 - n)
        /\ Matrix!Level(word, 1) = Shr(Low(Shr(word, 5), 6), 6 - n)
        /\ Matrix!Level(word, 2) = IF n = 6 THEN Stretch(Low(word, 5))
                                   ELSE Shr(Low(word, 5), 5 - n)
    BY HubLevels, Zenon DEF HubPlanes
  <2>2. Odd(Shr(word, Matrix!RedBit(p))) <=> Odd(Shr(Matrix!Level(word, 0), p))
    BY <1>1, <1>2, <2>1, RedBits
  <2>3. Odd(Shr(word, Matrix!GreenBit(p))) <=> Odd(Shr(Matrix!Level(word, 1), p))
    BY <1>1, <1>2, <2>1, GreenBits
  <2>4. Odd(Shr(word, Matrix!BlueBit(p))) <=> Odd(Shr(Matrix!Level(word, 2), p))
    BY <1>1, <1>2, <2>1, BlueBits
  <2> QED
    BY <2>2, <2>3, <2>4, HubBits, Zenon
<1>3. ASSUME NEW c \in 0 .. 5, NEW word, Word565(word)
      PROVE  Matrix!BitSet(word, CASE c % 3 = 0 -> Matrix!RedBit(p)
                                   [] c % 3 = 1 -> Matrix!GreenBit(p)
                                   [] c % 3 = 2 -> Matrix!BlueBit(p))
               <=> Matrix!BitSet(Matrix!Level(word, c % 3), p)
  <2>1. c % 3 = 0 \/ c % 3 = 1 \/ c % 3 = 2
    OBVIOUS
  <2>2. CASE c % 3 = 0
    BY <1>2, <1>3, <2>2
  <2>3. CASE c % 3 = 1
    BY <1>2, <1>3, <2>3
  <2>4. CASE c % 3 = 2
    BY <1>2, <1>3, <2>4
  <2> QED
    BY <2>1, <2>2, <2>3, <2>4
<1>4. ASSUME NEW c \in 0 .. 5
      PROVE  Matrix!BitSet(IF c < 3 THEN upper ELSE lower,
                           CASE c % 3 = 0 -> Matrix!RedBit(p)
                             [] c % 3 = 1 -> Matrix!GreenBit(p)
                             [] c % 3 = 2 -> Matrix!BlueBit(p))
               <=> Matrix!BitSet(Matrix!Level(IF c < 3 THEN upper ELSE lower,
                                              c % 3), p)
  <2>1. Word565(IF c < 3 THEN upper ELSE lower)
    OBVIOUS
  <2> QED
    BY <1>3, <2>1, Zenon
<1> QED
  BY <1>4, Zenon DEF Matrix!Colours, Matrix!Rgb

LEMMA SettingFacts ==
  ASSUME NEW s \in Setting
  PROVE  /\ s.board \in Boards /\ s.element \in {"byte", "word", "long"}
         /\ s.width \in Nat \ {0} /\ s.tiles \in Nat \ {0}
         /\ s.serpentine \in BOOLEAN /\ s.numPlanes \in 1 .. 6
         /\ s.numRowPairs \in Nat \ {0}
         /\ ChunkSize[s.board] \in Nat \ {0} /\ Handled(s)
<1>1. /\ s \in [board : Boards, element : {"byte", "word", "long"},
                width : Nat \ {0}, tiles : Nat \ {0}, serpentine : BOOLEAN,
                numPlanes : 1 .. 6, numRowPairs : Nat \ {0}]
      /\ Handled(s) /\ ChunkSize \in [Boards -> Nat \ {0}]
  BY SettingAssumption, Zenon
<1> QED
  BY <1>1

LEMMA Pixels ==
  ASSUME NEW s \in Setting, NEW p \in Painting, NEW x \in 0 .. s.width - 1,
         NEW y \in 0 .. 2 * s.numRowPairs * s.tiles - 1
  PROVE  Word565(PixelOf(p, x, y))
BY SettingAssumption

\* Where the pixels of a tile lie in the canvas, which is one tile wide.
TileAt(w, t, pairs, row, x, ul, top, turned) ==
  /\ ul + w * row + x = w * (top + row) + x
  /\ ul + w * row + w * pairs + x = w * (top + (row + pairs)) + x
  /\ turned + (w - 1 - x)
       = w * (top + (2 * pairs - 1 - (row + pairs))) + (w - 1 - x)
  /\ turned + w * pairs + (w - 1 - x)
       = w * (top + (2 * pairs - 1 - row)) + (w - 1 - x)
  /\ \A y \in 0 .. 2 * pairs - 1 : top + y \in 0 .. 2 * pairs * t - 1

LEMMA TileRows ==
  ASSUME NEW w \in Nat \ {0}, NEW t \in Nat \ {0}, NEW pairs \in Nat \ {0},
         NEW tile \in 0 .. t - 1, NEW row \in 0 .. pairs - 1, NEW x \in 0 .. w - 1,
         NEW ul, ul = tile * w * pairs * 2, NEW top, top = tile * (2 * pairs),
         NEW turned, turned = ul + w * (pairs - 1 - row)
  PROVE  TileAt(w, t, pairs, row, x, ul, top, turned)
<1>1. ul + w * row + x = w * (top + row) + x
  OBVIOUS
<1>2. ul + w * row + w * pairs + x = w * (top + (row + pairs)) + x
  OBVIOUS
<1>3. turned = w * (top + (pairs - 1 - row))
  OBVIOUS
<1>4. pairs - 1 - row = 2 * pairs - 1 - (row + pairs)
  OBVIOUS
<1>5. turned + w * pairs = w * (top + (2 * pairs - 1 - row))
  OBVIOUS
<1>6. ASSUME NEW y \in 0 .. 2 * pairs - 1
      PROVE  top + y \in 0 .. 2 * pairs * t - 1
  <2>1. top \in Nat /\ 2 * pairs * t \in Nat
    OBVIOUS
  <2>2. top + 2 * pairs = (tile + 1) * (2 * pairs)
    OBVIOUS
  <2>3. (tile + 1) * (2 * pairs) <= t * (2 * pairs)
    OBVIOUS
  <2>4. t * (2 * pairs) = 2 * pairs * t
    OBVIOUS
  <2> QED
    BY <2>1, <2>2, <2>3, <2>4
<1> QED
  BY <1>1, <1>2, <1>3, <1>4, <1>5, <1>6 DEF TileAt

LEMMA HubSource ==
  ASSUME core \in Setting, canvas \in Painting,
         NEW w, w = core.width, NEW x \in 0 .. w - 1,
         NEW y \in 0 .. 2 * core.numRowPairs * core.tiles - 1,
         NEW i, i = w * y + x
  PROVE  Matrix!Source(i) = PixelOf(canvas, x, y) /\ Word565(Matrix!Source(i))
<1>1. w \in Nat \ {0} /\ y \in Nat
  BY SettingFacts
<1>2. i % w = x /\ i \div w = y
  BY <1>1, DivMod
<1>3. Matrix!Source(i) = PixelOf(canvas, x, y)
  BY <1>2, Zenon DEF Matrix!Source
<1> QED
  BY <1>3, Pixels, Zenon

\* The j-th pixel of the chain is taken from where its LED stands.
LEMMA HubResult ==
  ASSUME core \in Setting, canvas \in Painting,
         NEW row \in 0 .. core.numRowPairs - 1, NEW p \in 0 .. core.numPlanes - 1,
         NEW j \in 0 .. core.width * core.tiles - 1,
         NEW tile, tile = core.tiles - 1 - j \div core.width,
         NEW x, x = j % core.width
  PROVE  LET upper == Matrix!Stands(tile, x, row)
             lower == Matrix!Stands(tile, x, row + core.numRowPairs)
         IN /\ Matrix!Result(row, p, j) = Matrix!Colours(upper, lower, p)
            /\ Word565(upper) /\ Word565(lower)
<1> DEFINE w == core.width
           t == core.tiles
           pairs == core.numRowPairs
           ul == tile * w * pairs * 2
           top == tile * (2 * pairs)
           turned == ul + w * (pairs - 1 - row)
           upside == Matrix!LowerFirst(tile)
           upper == Matrix!Stands(tile, x, row)
           lower == Matrix!Stands(tile, x, row + core.numRowPairs)
<1>1. w \in Nat \ {0} /\ t \in Nat \ {0} /\ pairs \in Nat \ {0}
  BY SettingFacts
<1>2. Matrix!Result(row, p, j) =
        IF upside THEN Matrix!Colours(Matrix!Source(turned + w * pairs + (w - 1 - x)),
                                      Matrix!Source(turned + (w - 1 - x)), p)
        ELSE Matrix!Colours(Matrix!Source(ul + w * row + x),
                            Matrix!Source(ul + w * row + w * pairs + x), p)
  BY Zenon DEF Matrix!Result
<1>3. /\ upper = PixelOf(canvas, IF upside THEN w - 1 - x ELSE x,
                         top + (IF upside THEN 2 * pairs - 1 - row ELSE row))
      /\ lower = PixelOf(canvas, IF upside THEN w - 1 - x ELSE x,
                         top + (IF upside THEN 2 * pairs - 1 - (row + pairs)
                                ELSE row + pairs))
  BY Zenon DEF Matrix!Stands, Matrix!LowerFirst
<1>4. tile \in 0 .. t - 1 /\ x \in 0 .. w - 1
  <2>1. j \div w \in 0 .. t - 1 /\ j % w \in 0 .. w - 1
    BY <1>1, Quotient
  <2> HIDE DEF w, t
  <2>2. tile = t - 1 - j \div w /\ x = j % w
    BY Zenon DEF w, t
  <2> QED
    BY <1>1, <2>1, <2>2
<1>5. /\ ul + w * row + x = w * (top + row) + x
      /\ ul + w * row + w * pairs + x = w * (top + (row + pairs)) + x
      /\ turned + (w - 1 - x)
           = w * (top + (2 * pairs - 1 - (row + pairs))) + (w - 1 - x)
      /\ turned + w * pairs + (w - 1 - x)
           = w * (top + (2 * pairs - 1 - row)) + (w - 1 - x)
      /\ \A y \in 0 .. 2 * pairs - 1 : top + y \in 0 .. 2 * pairs * t - 1
  <2>1. /\ ul = tile * w * pairs * 2 /\ top = tile * (2 * pairs)
        /\ turned = ul + w * (pairs - 1 - row) /\ row \in 0 .. pairs - 1
    OBVIOUS
  <2> HIDE DEF w, t, pairs, ul, top, turned
  <2>2. TileAt(w, t, pairs, row, x, ul, top, turned)
    BY <1>1, <1>4, <2>1, TileRows
  <2> QED
    BY <2>2, Zenon DEF TileAt
<1>6. /\ row \in 0 .. 2 * pairs - 1 /\ row + pairs \in 0 .. 2 * pairs - 1
      /\ 2 * pairs - 1 - row \in 0 .. 2 * pairs - 1
      /\ 2 * pairs - 1 - (row + pairs) \in 0 .. 2 * pairs - 1
      /\ w - 1 - x \in 0 .. w - 1
  BY <1>1, <1>4
<1>7. \A a \in 0 .. w - 1, y \in 0 .. 2 * pairs * t - 1 :
        /\ Matrix!Source(w * y + a) = PixelOf(canvas, a, y)
        /\ Word565(Matrix!Source(w * y + a))
  BY HubSource, Zenon
<1> HIDE DEF w, t, pairs, ul, top, turned, upside, upper, lower
<1>8. CASE upside
  <2>1. /\ upper = PixelOf(canvas, w - 1 - x, top + (2 * pairs - 1 - row))
        /\ lower = PixelOf(canvas, w - 1 - x, top + (2 * pairs - 1 - (row + pairs)))
    BY <1>3, <1>8, Zenon
  <2>2. /\ top + (2 * pairs - 1 - row) \in 0 .. 2 * pairs * t - 1
        /\ top + (2 * pairs - 1 - (row + pairs)) \in 0 .. 2 * pairs * t - 1
    BY <1>5, <1>6, Zenon
  <2>3. /\ Matrix!Source(turned + w * pairs + (w - 1 - x)) = upper /\ Word565(upper)
        /\ Matrix!Source(turned + (w - 1 - x)) = lower /\ Word565(lower)
    BY <1>5, <1>6, <1>7, <2>1, <2>2, ZenonT(40)
  <2> QED
    BY <1>2, <1>8, <2>3, Zenon DEF upper, lower
<1>9. CASE ~upside
  <2>1. /\ upper = PixelOf(canvas, x, top + row)
        /\ lower = PixelOf(canvas, x, top + (row + pairs))
    BY <1>3, <1>9, Zenon
  <2>2. /\ top + row \in 0 .. 2 * pairs * t - 1
        /\ top + (row + pairs) \in 0 .. 2 * pairs * t - 1
    BY <1>5, <1>6, Zenon
  <2>3. /\ Matrix!Source(ul + w * row + x) = upper /\ Word565(upper)
        /\ Matrix!Source(ul + w * row + w * pairs + x) = lower /\ Word565(lower)
    BY <1>4, <1>5, <1>7, <2>1, <2>2, ZenonT(40)
  <2> QED
    BY <1>2, <1>9, <2>3, Zenon DEF upper, lower
<1> QED
  BY <1>8, <1>9

-----------------------------------------------------------------------------
(* The burst.                                                              *)

\* What the panel is shown with the element i.
HubShown(row, p, i) ==
  IF core.board = "scan" THEN Matrix!ScanPixel(i, row, p)
  ELSE IF i < Matrix!pad THEN {} ELSE Matrix!Result(row, p, i - Matrix!pad)
HubOffset == IF core.board = "scan" THEN 0 ELSE Matrix!pad

LEMMA HubShownRgb ==
  ASSUME NEW row, NEW p, NEW i
  PROVE  HubShown(row, p, i) \subseteq Matrix!Rgb
<1>1. \A upper, lower : Matrix!Colours(upper, lower, p) \subseteq Matrix!Rgb
  BY Zenon DEF Matrix!Colours
<1>2. \A j : Matrix!Result(row, p, j) \subseteq Matrix!Rgb
  BY <1>1, Zenon DEF Matrix!Result
<1>3. Matrix!ScanPixel(i, row, p) \subseteq Matrix!Rgb
  BY Zenon DEF Matrix!ScanPixel
<1> QED
  BY <1>2, <1>3, Zenon DEF HubShown

\* Rounding up to whole chunks.
LEMMA RoundedUp ==
  ASSUME NEW c \in Nat \ {0}, NEW n \in Nat, NEW r, r = c * ((n + c - 1) \div c)
  PROVE  /\ r \in Nat /\ r >= n
         /\ n % c = 0 => r = n
         /\ r = n => c * (n \div c) = n
<1>1. PICK q \in Int : q = (n + c - 1) \div c
  OBVIOUS
<1>2. q \in Nat /\ r = c * q
  BY <1>1
<1>3. r \in Nat
  BY <1>2
<1>4. n + c - 1 < c * (q + 1)
  BY <1>1
<1>5. r >= n
  BY <1>2, <1>3, <1>4
<1>6. ASSUME n % c = 0 PROVE r = n
  <2>1. PICK m \in Int : m = n \div c
    OBVIOUS
  <2>2. m \in Nat /\ n = c * m + 0
    <3>1. \A z \in Int : z = n % c => n = c * m + z
      BY <2>1
    <3>2. n = c * m + 0
      BY <1>6, <3>1
    <3>3. m \in Nat
      BY <2>1
    <3> QED
      BY <3>2, <3>3
  <2>3. n + c - 1 = c * m + (c - 1) /\ c - 1 \in 0 .. c - 1
    BY <2>2
  <2>4. q = m
    BY <1>1, <2>2, <2>3, DivMod
  <2> QED
    BY <1>2, <2>2, <2>4
<1>7. ASSUME r = n PROVE c * (n \div c) = n
  <2>1. n = c * q + 0 /\ 0 \in 0 .. c - 1
    BY <1>2, <1>7
  <2>2. n \div c = q
    BY <1>2, <2>1, DivMod
  <2> QED
    BY <1>2, <1>7, <2>2
<1> QED
  BY <1>3, <1>5, <1>6, <1>7

HubPlain == core \in Setting /\ Matrix!Whole(core) /\ canvas \in Painting

\* The elements of a burst, those of the padding first.
LEMMA HubElements ==
  ASSUME HubPlain
  PROVE  /\ Matrix!ChainBits(core) \in Nat /\ HubOffset \in Nat /\ Matrix!pad \in Nat
         /\ Matrix!Elements = Matrix!ChainBits(core) + HubOffset
         /\ core.element = "byte" /\ Matrix!Toggles => Matrix!pad = 0
         /\ core.board = "esp32s3" => Matrix!pad = 0 /\ core.element = "byte"
<1> DEFINE c == ChunkSize[core.board]
           n == Matrix!ChainBits(core)
           r == Matrix!PaddedUp(core)
<1>1. /\ core.board \in Boards /\ core.width \in Nat \ {0} /\ core.tiles \in Nat \ {0}
      /\ c \in Nat \ {0} /\ Handled(core) /\ Matrix!Whole(core)
      /\ n = core.width * core.tiles /\ r = c * ((n + c - 1) \div c)
      /\ Matrix!pad = r - n
  BY SettingFacts, Zenon DEF HubPlain, Matrix!PaddedUp, Matrix!ChainBits, Matrix!pad
<1>2. n \in Nat
  <2>1. \A a, b \in Nat : a * b \in Nat
    OBVIOUS
  <2> QED
    BY <1>1, <2>1
<1>3. /\ core.board \in {"rp2", "mimxrt"} /\ core.element = "byte" => n % c = 0
      /\ core.board \in {"samd51", "esp32s3"} => r = n
      /\ core.board = "esp32s3" => core.element = "byte"
      /\ core.board = "scan" => core.tiles = 1
  BY <1>1, Zenon DEF Handled, Matrix!Whole
<1>4. /\ Matrix!Elements = CASE core.board = "samd51" -> Matrix!Samd51Elements
                             [] core.board = "esp32s3" -> n
                             [] core.board \in {"rp2", "mimxrt"} -> r
                             [] core.board = "scan" -> core.width
      /\ core.board = "samd51" => Matrix!Samd51Elements = c * (n \div c)
  BY Zenon DEF Matrix!Elements, Matrix!Samd51Elements, Matrix!DmaElements
<1>5. HubOffset = IF core.board = "scan" THEN 0 ELSE Matrix!pad
  BY DEF HubOffset
<1>6. Matrix!Toggles <=> core.board \in {"samd51", "rp2", "mimxrt"}
  BY DEF Matrix!Toggles
<1> HIDE DEF c, n, r
<1>7. /\ r \in Nat /\ r >= n
      /\ n % c = 0 => r = n
      /\ r = n => c * (n \div c) = n
  BY <1>1, <1>2, RoundedUp
<1>8. Matrix!pad \in Nat /\ (r = n => Matrix!pad = 0)
  BY <1>1, <1>2, <1>7
<1>9. core.board = "scan" => core.width = n
  BY <1>1, <1>3
<1>10. Matrix!Elements = n + HubOffset
  <2>1. CASE core.board = "samd51"
    BY <1>2, <1>3, <1>4, <1>5, <1>7, <1>8, <2>1
  <2>2. CASE core.board = "esp32s3"
    BY <1>2, <1>3, <1>4, <1>5, <1>8, <2>2
  <2>3. CASE core.board \in {"rp2", "mimxrt"}
    BY <1>1, <1>2, <1>4, <1>5, <1>7, <2>3
  <2>4. CASE core.board = "scan"
    BY <1>2, <1>4, <1>5, <1>9, <2>4
  <2> QED
    BY <1>1, <2>1, <2>2, <2>3, <2>4 DEF Boards
<1>11. core.element = "byte" /\ Matrix!Toggles => Matrix!pad = 0
  BY <1>3, <1>6, <1>7, <1>8
<1> QED
  BY <1>2, <1>3, <1>5, <1>8, <1>10, <1>11 DEF n

\* On the pins of a board with a toggle register.
HubLast(row, p, i) ==
  IF i = 0 THEN {} ELSE HubShown(row, p, i - 1) \cup {Matrix!Clk}

LEMMA HubToggled ==
  ASSUME HubPlain, Matrix!Toggles, NEW row, NEW p, NEW i \in Nat
  PROVE  Matrix!Flip(HubLast(row, p, i), Matrix!Element(row, p, i))
           = HubShown(row, p, i)
<1> DEFINE clk == {Matrix!Clk}
           result == Matrix!Result(row, p, i - Matrix!pad)
           prior == IF i = Matrix!pad THEN {}
                    ELSE Matrix!Result(row, p, i - Matrix!pad - 1)
           first == IF i < Matrix!pad THEN {} ELSE result
           before == IF i = 0 THEN {} ELSE HubShown(row, p, i - 1)
<1>1. core.board # "scan" /\ Matrix!pad \in Nat /\ core.element \in {"byte", "word", "long"}
  BY HubElements, SettingFacts DEF HubPlain, Matrix!Toggles
<1>2. HubShown(row, p, i) = first
  BY <1>1 DEF HubShown
<1>3. before = IF i <= Matrix!pad THEN {}
               ELSE Matrix!Result(row, p, i - Matrix!pad - 1)
  BY <1>1 DEF HubShown
<1>4. /\ i < Matrix!pad => before = {} /\ first = {}
      /\ ~(i < Matrix!pad) => before = prior /\ first = result
  BY <1>1, <1>3
<1>5. Matrix!Clk \notin first /\ Matrix!Clk \notin before
  <2>1. Matrix!Clk \notin Matrix!Rgb
    BY DEF Matrix!Clk, Matrix!Rgb
  <2> QED
    BY <1>2, <2>1, HubShownRgb
<1>6. HubLast(row, p, i) = IF i = 0 THEN {} ELSE before \cup clk
  BY DEF HubLast
<1>7. CASE core.element = "byte"
  <2>1. Matrix!pad = 0
    BY <1>7, HubElements
  <2>2. Matrix!Element(row, p, i) =
          IF i = 0 THEN Matrix!Flip(result, prior \cup clk) \ clk
          ELSE Matrix!Flip(result, prior \cup clk)
    <3>1. Matrix!Element(row, p, i) = Matrix!ByteElement(row, p, i)
      BY <1>7 DEF Matrix!Element
    <3>2. ~(i < Matrix!pad)
      BY <2>1
    <3> QED
      BY <3>1, <3>2, Zenon DEF Matrix!ByteElement
  <2>3. first = result /\ before = prior
    BY <1>4, <2>1
  <2> HIDE DEF clk, result, prior, first, before
  <2>4. i = 0 => prior = {}
    BY <2>1 DEF prior
  <2> QED
    BY <1>2, <1>5, <1>6, <2>2, <2>3, <2>4 DEF Matrix!Flip, clk
<1>8. CASE core.element # "byte"
  <2>1. Matrix!Element(row, p, i) = Matrix!WordElement(row, p, i)
    BY <1>1, <1>8 DEF Matrix!Element, Matrix!LongElement
  <2>2. Matrix!Element(row, p, i) =
          (IF i = 0 THEN {} ELSE clk)
            \cup (IF i < Matrix!pad THEN {} ELSE Matrix!Flip(result, prior))
    BY <2>1 DEF Matrix!WordElement
  <2>3. Matrix!Element(row, p, i) =
          (IF i = 0 THEN {} ELSE clk) \cup Matrix!Flip(first, before)
    <3>1. Matrix!Flip({}, {}) = {}
      BY DEF Matrix!Flip
    <3> HIDE DEF clk, result, prior, first, before
    <3> QED
      BY <1>4, <2>2, <3>1
  <2>4. i = 0 => before = {}
    OBVIOUS
  <2> HIDE DEF clk, result, prior, first, before
  <2> QED
    BY <1>2, <1>5, <1>6, <2>3, <2>4 DEF Matrix!Flip, clk
<1> QED
  BY <1>7, <1>8

LEMMA HubWritten ==
  ASSUME HubPlain, core.board = "esp32s3", NEW row, NEW p, NEW i \in Nat
  PROVE  Matrix!Element(row, p, i) = HubShown(row, p, i)
<1>1. Matrix!pad = 0 /\ core.element = "byte" /\ ~Matrix!Toggles
  BY HubElements DEF Matrix!Toggles
<1>2. Matrix!Element(row, p, i) = Matrix!ByteElement(row, p, i)
  BY <1>1 DEF Matrix!Element
<1>3. ~(i < Matrix!pad) /\ core.board # "scan"
  BY <1>1
<1>4. HubShown(row, p, i) = Matrix!Result(row, p, i - Matrix!pad)
  BY <1>3, Zenon DEF HubShown
<1>5. Matrix!Element(row, p, i) =
        IF i = 0 THEN HubShown(row, p, i) \ {Matrix!Clk} ELSE HubShown(row, p, i)
  BY <1>1, <1>2, <1>3, <1>4, Zenon DEF Matrix!ByteElement
<1>6. Matrix!Clk \notin HubShown(row, p, i)
  <2>1. Matrix!Clk \notin Matrix!Rgb
    BY DEF Matrix!Clk, Matrix!Rgb
  <2> QED
    BY <2>1, HubShownRgb
<1> QED
  BY <1>5, <1>6

-----------------------------------------------------------------------------
(* What the pictures and panels are, as long as they stay.                 *)

LEMMA HubStays ==
  ASSUME UNCHANGED <<core, canvas>>
  PROVE  /\ HubPlain <=> HubPlain'
         /\ Matrix!Elements' = Matrix!Elements
         /\ Matrix!Toggles' <=> Matrix!Toggles
         /\ \A row, p, i : HubShown(row, p, i)' = HubShown(row, p, i)
<1>1. core' = core /\ canvas' = canvas
  OBVIOUS
<1>2. Matrix!Toggles' <=> Matrix!Toggles
  BY <1>1, Zenon DEF Matrix!Toggles
<1>3. \A p : /\ Matrix!RedBit(p)' = Matrix!RedBit(p)
             /\ Matrix!GreenBit(p)' = Matrix!GreenBit(p)
             /\ Matrix!BlueBit(p)' = Matrix!BlueBit(p)
  BY <1>1, Zenon DEF Matrix!RedBit, Matrix!GreenBit, Matrix!BlueBit
<1>4. \A i : Matrix!Source(i)' = Matrix!Source(i)
  BY <1>1, Zenon DEF Matrix!Source
<1>5. \A upper, lower, p : Matrix!Colours(upper, lower, p)' = Matrix!Colours(upper, lower, p)
  BY <1>3, Zenon DEF Matrix!Colours
<1>6. \A tile : Matrix!LowerFirst(tile)' <=> Matrix!LowerFirst(tile)
  BY <1>1, Zenon DEF Matrix!LowerFirst
<1>7. \A row, p, i : Matrix!Result(row, p, i)' = Matrix!Result(row, p, i)
  <2> SUFFICES ASSUME NEW row, NEW p, NEW i
               PROVE  Matrix!Result(row, p, i)' = Matrix!Result(row, p, i)
    OBVIOUS
  <2> DEFINE tile == core.tiles - 1 - i \div core.width
             Place(upside) ==
               LET w == core.width
                   pairs == core.numRowPairs
                   ul == tile * w * pairs * 2
                   x == IF upside THEN w - 1 - (i % w) ELSE i % w
                   lower == IF upside THEN ul + w * (pairs - 1 - row)
                            ELSE ul + w * row + w * pairs
                   upper == IF upside THEN lower + w * pairs ELSE ul + w * row
               IN Matrix!Colours(Matrix!Source(upper + x), Matrix!Source(lower + x), p)
  <2>1. Matrix!Result(row, p, i) = Place(Matrix!LowerFirst(tile))
    BY Zenon DEF Matrix!Result
  <2>2. Matrix!Result(row, p, i)' = Place(Matrix!LowerFirst(tile))'
    BY <2>1, Zenon DEF Matrix!Result
  <2>3. CASE Matrix!LowerFirst(tile)
    BY <1>1, <1>4, <1>5, <1>6, <2>1, <2>2, <2>3, Zenon
  <2>4. CASE ~Matrix!LowerFirst(tile)
    BY <1>1, <1>4, <1>5, <1>6, <2>1, <2>2, <2>4, Zenon
  <2> QED
    BY <2>3, <2>4
<1>8. \A value, bits : Matrix!Expanded(value, bits)' = Matrix!Expanded(value, bits)
  BY <1>1, Zenon DEF Matrix!Expanded
<1>9. \A word, c : Matrix!Channel(word, c)' = Matrix!Channel(word, c)
  BY <1>8, Zenon DEF Matrix!Channel
<1>10. \A row, p, i : Matrix!ScanPixel(i, row, p)' = Matrix!ScanPixel(i, row, p)
  BY <1>1, <1>9, Zenon DEF Matrix!ScanPixel
<1>11. Matrix!pad' = Matrix!pad
  BY <1>1, Zenon DEF Matrix!pad, Matrix!PaddedUp, Matrix!ChainBits
<1>12. \A row, p, i : HubShown(row, p, i)' = HubShown(row, p, i)
  BY <1>1, <1>7, <1>10, <1>11, Zenon DEF HubShown
<1>13. Matrix!Elements' = Matrix!Elements
  BY <1>1, Zenon DEF Matrix!Elements, Matrix!Samd51Elements, Matrix!DmaElements,
                     Matrix!PaddedUp, Matrix!ChainBits
<1>14. HubPlain <=> HubPlain'
  BY <1>1, Zenon DEF HubPlain, Matrix!Whole, Matrix!PaddedUp, Matrix!ChainBits
<1> QED
  BY <1>2, <1>12, <1>13, <1>14

-----------------------------------------------------------------------------
(* The inductive invariant: the chain holds what each element before has   *)
(* shown, and the pins what this one shows.                                *)

HubSteps == [row : Nat, plane : Nat, k : Nat]
HubChain(a, c) ==
  /\ Len(c) = a.k /\ DOMAIN c = 1 .. a.k /\ c \in Seq(SUBSET Matrix!Rgb)
  /\ \A j \in 1 .. a.k : c[j] = HubShown(a.row, a.plane, j - 1)
HubPins ==
  /\ phase = "data" => IF Matrix!Toggles
                       THEN pins = HubLast(at.row, at.plane, at.k)
                       ELSE Matrix!Clk \notin pins
  /\ phase = "clock" => /\ at.k < Matrix!Elements
                        /\ pins = HubShown(at.row, at.plane, at.k)
  /\ phase = "lower" => ~Matrix!Toggles
  /\ phase = "latch" => /\ at.k = Matrix!Elements /\ Matrix!Clk \notin pins
                        /\ Matrix!Toggles => pins = {}
HubKept ==
  /\ HubPlain
  /\ phase \in {"data", "clock", "lower", "latch"}
  /\ at \in HubSteps /\ at.row < core.numRowPairs /\ at.plane < core.numPlanes
  /\ at.k <= Matrix!Elements
  /\ HubChain(at, chain)
  /\ HubPins

LEMMA HubSettings ==
  ASSUME HubPlain
  PROVE  /\ core.numRowPairs \in Nat \ {0} /\ core.numPlanes \in 1 .. 6
         /\ Matrix!Elements \in Nat
<1>1. core \in Setting
  BY DEF HubPlain
<1>2. Matrix!Elements \in Nat
  <2>1. \A a, b \in Nat : a + b \in Nat
    OBVIOUS
  <2> QED
    BY <2>1, HubElements, Zenon
<1> QED
  BY <1>1, <1>2, SettingFacts

LEMMA HubStart == ASSUME Matrix!Init PROVE HubKept
<1>1. /\ core \in Setting /\ Matrix!Whole(core) /\ canvas \in Painting
      /\ at = [row |-> 0, plane |-> IF core.board = "scan" THEN core.numPlanes - 1
                                    ELSE 0, k |-> 0]
      /\ phase = "data" /\ pins = {} /\ chain = << >>
  BY DEF Matrix!Init
<1>2. HubPlain
  BY <1>1 DEF HubPlain
<1>3. /\ core.numRowPairs \in Nat \ {0} /\ core.numPlanes \in 1 .. 6
      /\ Matrix!Elements \in Nat
  BY <1>2, HubSettings
<1>4. at \in HubSteps /\ at.row = 0 /\ at.plane < core.numPlanes /\ at.k = 0
  <2>1. core.numPlanes - 1 \in Nat /\ core.numPlanes - 1 < core.numPlanes
        /\ 0 < core.numPlanes
    BY <1>3
  <2> QED
    BY <1>1, <2>1 DEF HubSteps
<1>5. HubChain(at, chain)
  BY <1>1, <1>4 DEF HubChain
<1>6. HubPins
  BY <1>1, <1>4 DEF HubPins, HubLast
<1> QED
  BY <1>1, <1>2, <1>3, <1>4, <1>5, <1>6 DEF HubKept

\* A store that raises no clock shifts nothing in.
LEMMA HubQuiet ==
  ASSUME NEW new, Matrix!Drive(new), Matrix!Clk \notin new \/ Matrix!Clk \in pins
  PROVE  pins' = new /\ chain' = chain
BY DEF Matrix!Drive, Matrix!Sampled

\* A step that shifts nothing in and stays at its element.
LEMMA HubSameChain ==
  ASSUME HubKept, UNCHANGED <<core, canvas, at, chain>>
  PROVE  HubPlain' /\ HubChain(at, chain)'
<1>1. HubChain(at, chain) /\ HubPlain
  BY DEF HubKept
<1>2. HubPlain' /\ \A row, p, i : HubShown(row, p, i)' = HubShown(row, p, i)
  BY <1>1, HubStays
<1> QED
  BY <1>1, <1>2 DEF HubChain

LEMMA HubClkApart ==
  ASSUME NEW row, NEW p, NEW i
  PROVE  Matrix!Clk \notin HubShown(row, p, i)
<1>1. Matrix!Clk \notin Matrix!Rgb
  BY DEF Matrix!Clk, Matrix!Rgb
<1> QED
  BY <1>1, HubShownRgb

LEMMA HubPutData == ASSUME HubKept, Matrix!PutData PROVE HubKept'
<1> DEFINE shown == HubShown(at.row, at.plane, at.k)
<1>1. /\ phase = "data" /\ at.k < Matrix!Elements /\ phase' = "clock"
      /\ UNCHANGED <<core, canvas, at>>
  BY DEF Matrix!PutData
<1>2. /\ HubPlain /\ at \in HubSteps /\ at.row < core.numRowPairs
      /\ at.plane < core.numPlanes /\ at.k \in Nat
      /\ Matrix!Toggles => pins = HubLast(at.row, at.plane, at.k)
      /\ ~Matrix!Toggles => Matrix!Clk \notin pins
  BY <1>1 DEF HubKept, HubPins, HubSteps
<1>3. Matrix!Drive(shown)
  <2>1. Matrix!Drive(CASE core.board = "scan" -> Matrix!ScanPixel(at.k, at.row, at.plane)
                       [] core.board = "esp32s3" -> Matrix!Element(at.row, at.plane, at.k)
                       [] OTHER -> Matrix!Flip(pins, Matrix!Element(at.row, at.plane, at.k)))
    BY DEF Matrix!PutData
  <2>2. core.board \in Boards
    BY <1>2, SettingFacts DEF HubPlain
  <2>3. CASE core.board = "scan"
    <3>1. Matrix!Drive(Matrix!ScanPixel(at.k, at.row, at.plane))
      BY <2>1, <2>3
    <3> QED
      BY <2>3, <3>1 DEF HubShown
  <2>4. CASE core.board = "esp32s3"
    <3>1. Matrix!Drive(Matrix!Element(at.row, at.plane, at.k))
      BY <2>1, <2>4
    <3>2. Matrix!Element(at.row, at.plane, at.k) = shown
      BY <1>2, <2>4, HubWritten
    <3> QED
      BY <3>1, <3>2
  <2>5. CASE Matrix!Toggles
    <3>1. Matrix!Drive(Matrix!Flip(pins, Matrix!Element(at.row, at.plane, at.k)))
      BY <2>1, <2>5 DEF Matrix!Toggles
    <3>2. Matrix!Flip(pins, Matrix!Element(at.row, at.plane, at.k)) = shown
      BY <1>2, <2>5, HubToggled
    <3> QED
      BY <3>1, <3>2
  <2> QED
    BY <2>2, <2>3, <2>4, <2>5 DEF Boards, Matrix!Toggles
<1>4. pins' = shown /\ chain' = chain
  <2>1. Matrix!Clk \notin shown
    BY HubClkApart
  <2> QED
    BY <1>3, <2>1, HubQuiet
<1>5. /\ HubPlain' /\ HubChain(at, chain)' /\ Matrix!Elements' = Matrix!Elements
      /\ shown' = shown
  BY <1>1, <1>4, HubSameChain, HubStays
<1>6. HubPins'
  BY <1>1, <1>4, <1>5 DEF HubPins
<1> QED
  BY <1>1, <1>2, <1>5, <1>6 DEF HubKept

LEMMA HubRaiseClock == ASSUME HubKept, Matrix!RaiseClock PROVE HubKept'
<1> DEFINE shown == HubShown(at.row, at.plane, at.k)
           raised == shown \cup {Matrix!Clk}
<1>1. /\ phase = "clock" /\ UNCHANGED <<core, canvas>>
      /\ phase' = IF Matrix!Toggles THEN "data" ELSE "lower"
      /\ at' = [at EXCEPT !.k = @ + 1]
      /\ Matrix!Drive(IF Matrix!Toggles THEN Matrix!Flip(pins, {Matrix!Clk})
                      ELSE pins \cup {Matrix!Clk})
  BY DEF Matrix!RaiseClock
<1>2. /\ HubPlain /\ at \in HubSteps /\ at.row < core.numRowPairs
      /\ at.plane < core.numPlanes /\ at.k \in Nat
      /\ at.k < Matrix!Elements /\ pins = shown /\ HubChain(at, chain)
  BY <1>1 DEF HubKept, HubPins, HubSteps
<1>3. Matrix!Clk \notin shown /\ shown \subseteq Matrix!Rgb
  BY HubClkApart, HubShownRgb
<1>4. /\ at' \in HubSteps /\ at'.row = at.row /\ at'.plane = at.plane
      /\ at'.k = at.k + 1 /\ at'.k # 0 /\ at'.k - 1 = at.k
  BY <1>1, <1>2 DEF HubSteps
<1> HIDE DEF shown
<1>5. /\ Matrix!Flip(pins, {Matrix!Clk}) = raised /\ pins \cup {Matrix!Clk} = raised
      /\ Matrix!Clk \in raised \ pins /\ raised \ {Matrix!Clk} = shown
      /\ pins \ {Matrix!Clk} = shown
  BY <1>2, <1>3 DEF Matrix!Flip
<1>6. Matrix!Drive(raised)
  BY <1>1, <1>5
<1>7. pins' = raised /\ chain' = Append(chain, shown)
  BY <1>5, <1>6 DEF Matrix!Drive, Matrix!Sampled
<1>8. /\ HubPlain' /\ Matrix!Elements' = Matrix!Elements
      /\ Matrix!Toggles' <=> Matrix!Toggles
      /\ \A row, p, i : HubShown(row, p, i)' = HubShown(row, p, i)
  BY <1>1, <1>2, HubStays
<1>9. HubChain(at, chain)'
  <2>1. /\ Len(chain) = at.k /\ chain \in Seq(SUBSET Matrix!Rgb)
        /\ \A j \in 1 .. at.k : chain[j] = HubShown(at.row, at.plane, j - 1)
    BY <1>2 DEF HubChain
  <2>2. /\ chain' \in Seq(SUBSET Matrix!Rgb) /\ Len(chain') = at.k + 1
        /\ DOMAIN chain' = 1 .. at.k + 1
        /\ \A j \in 1 .. at.k : chain'[j] = chain[j]
        /\ chain'[at.k + 1] = shown
    BY <1>2, <1>3, <1>7, <2>1
  <2>3. ASSUME NEW j \in 1 .. at.k + 1
        PROVE  chain'[j] = HubShown(at.row, at.plane, j - 1)
    <3>1. CASE j = at.k + 1
      <4>1. j - 1 = at.k
        BY <1>2, <3>1
      <4> QED
        BY <2>2, <3>1, <4>1 DEF shown
    <3>2. CASE j # at.k + 1
      <4>1. j \in 1 .. at.k
        BY <1>2, <3>2
      <4> QED
        BY <2>1, <2>2, <4>1
    <3> QED
      BY <3>1, <3>2
  <2>4. \A j \in 1 .. at.k + 1 : chain'[j] = HubShown(at.row, at.plane, j - 1)
    BY <2>3
  <2> QED
    BY <1>4, <1>8, <2>2, <2>4 DEF HubChain
<1>10. HubPins'
  <2>1. CASE Matrix!Toggles
    <3>1. phase' = "data" /\ Matrix!Toggles'
      BY <1>1, <1>8, <2>1
    <3>2. pins' = HubShown(at.row, at.plane, at.k) \cup {Matrix!Clk}
      BY <1>7 DEF shown
    <3> QED
      BY <1>4, <1>8, <3>1, <3>2 DEF HubPins, HubLast
  <2>2. CASE ~Matrix!Toggles
    BY <1>1, <1>8, <2>2 DEF HubPins
  <2> QED
    BY <2>1, <2>2
<1>11. at'.k <= Matrix!Elements'
  BY <1>2, <1>4, <1>8, HubSettings
<1> QED
  BY <1>1, <1>2, <1>4, <1>8, <1>9, <1>10, <1>11 DEF HubKept

LEMMA HubLowerClock == ASSUME HubKept, Matrix!LowerClock PROVE HubKept'
<1>1. /\ phase = "lower" /\ phase' = "data" /\ UNCHANGED <<core, canvas, at>>
      /\ Matrix!Drive(pins \ {Matrix!Clk})
  BY DEF Matrix!LowerClock
<1>2. /\ HubPlain /\ ~Matrix!Toggles /\ at \in HubSteps
      /\ at.row < core.numRowPairs /\ at.plane < core.numPlanes
      /\ at.k <= Matrix!Elements
  BY <1>1 DEF HubKept, HubPins
<1>3. pins' = pins \ {Matrix!Clk} /\ chain' = chain
  BY <1>1, HubQuiet
<1>4. /\ HubPlain' /\ HubChain(at, chain)' /\ Matrix!Elements' = Matrix!Elements
      /\ Matrix!Toggles' <=> Matrix!Toggles
  BY <1>1, <1>3, HubSameChain, HubStays
<1>5. HubPins'
  BY <1>1, <1>2, <1>3, <1>4 DEF HubPins
<1> QED
  BY <1>1, <1>2, <1>4, <1>5 DEF HubKept

LEMMA HubEndBurst == ASSUME HubKept, Matrix!EndBurst PROVE HubKept'
<1>1. /\ phase = "data" /\ at.k >= Matrix!Elements /\ phase' = "latch"
      /\ UNCHANGED <<core, canvas, at>> /\ Matrix!Drive(Matrix!LeaveLow)
  BY DEF Matrix!EndBurst
<1>2. /\ HubPlain /\ at \in HubSteps /\ at.row < core.numRowPairs
      /\ at.plane < core.numPlanes /\ at.k <= Matrix!Elements /\ at.k \in Nat
      /\ ~Matrix!Toggles => Matrix!Clk \notin pins
  BY <1>1 DEF HubKept, HubPins, HubSteps
<1>3. Matrix!LeaveLow = IF Matrix!Toggles THEN {} ELSE pins
  BY DEF Matrix!LeaveLow
<1>4. pins' = Matrix!LeaveLow /\ chain' = chain
  <2>1. Matrix!Clk \notin Matrix!LeaveLow
    BY <1>2, <1>3
  <2> QED
    BY <1>1, <2>1, HubQuiet
<1>5. /\ HubPlain' /\ HubChain(at, chain)' /\ Matrix!Elements' = Matrix!Elements
      /\ Matrix!Toggles' <=> Matrix!Toggles
  BY <1>1, <1>4, HubSameChain, HubStays
<1>6. at.k = Matrix!Elements
  BY <1>1, <1>2, HubSettings
<1>7. HubPins'
  BY <1>1, <1>2, <1>3, <1>4, <1>5, <1>6 DEF HubPins
<1> QED
  BY <1>1, <1>2, <1>5, <1>7 DEF HubKept

LEMMA HubNextBurst == ASSUME HubKept, Matrix!NextBurst PROVE HubKept'
<1>1. /\ phase = "latch" /\ at' = Matrix!Following /\ phase' = "data"
      /\ chain' = << >> /\ UNCHANGED <<core, canvas, pins>>
  BY DEF Matrix!NextBurst
<1>2. /\ HubPlain /\ at \in HubSteps /\ at.row < core.numRowPairs
      /\ at.plane < core.numPlanes /\ Matrix!Clk \notin pins
      /\ Matrix!Toggles => pins = {}
  BY <1>1 DEF HubKept, HubPins
<1>3. core.numRowPairs \in Nat \ {0} /\ core.numPlanes \in 1 .. 6 /\ Matrix!Elements \in Nat
  BY <1>2, HubSettings
<1>4. /\ at' \in HubSteps /\ at'.k = 0
      /\ at'.row < core.numRowPairs /\ at'.plane < core.numPlanes
  <2>1. CASE core.board # "scan"
    <3>1. CASE at.plane + 1 < core.numPlanes
      <4>1. at' = [at EXCEPT !.plane = @ + 1, !.k = 0]
        BY <1>1, <2>1, <3>1 DEF Matrix!Following
      <4>2. at' = [row |-> at.row, plane |-> at.plane + 1, k |-> 0]
        BY <1>2, <4>1 DEF HubSteps
      <4> QED
        BY <1>2, <1>3, <3>1, <4>2 DEF HubSteps
    <3>2. CASE ~(at.plane + 1 < core.numPlanes)
      <4>1. (at.row + 1) % core.numRowPairs \in 0 .. core.numRowPairs - 1
        BY <1>2, <1>3 DEF HubSteps
      <4>2. at' = [row |-> (at.row + 1) % core.numRowPairs, plane |-> 0, k |-> 0]
        BY <1>1, <2>1, <3>2 DEF Matrix!Following
      <4> QED
        BY <1>3, <4>1, <4>2 DEF HubSteps
    <3> QED
      BY <3>1, <3>2
  <2>2. CASE core.board = "scan"
    <3>1. CASE at.row + 1 < core.numRowPairs
      <4>1. at' = [at EXCEPT !.row = @ + 1, !.k = 0]
        BY <1>1, <2>2, <3>1 DEF Matrix!Following
      <4>2. at' = [row |-> at.row + 1, plane |-> at.plane, k |-> 0]
        BY <1>2, <4>1 DEF HubSteps
      <4> QED
        BY <1>2, <1>3, <3>1, <4>2 DEF HubSteps
    <3>2. CASE ~(at.row + 1 < core.numRowPairs)
      <4>1. at' = [row |-> 0, plane |-> IF at.plane > 0 THEN at.plane - 1
                                        ELSE core.numPlanes - 1, k |-> 0]
        BY <1>1, <2>2, <3>2 DEF Matrix!Following
      <4> QED
        BY <1>2, <1>3, <4>1 DEF HubSteps
    <3> QED
      BY <3>1, <3>2
  <2> QED
    BY <2>1, <2>2
<1>5. /\ HubPlain' /\ Matrix!Elements' = Matrix!Elements
      /\ Matrix!Toggles' <=> Matrix!Toggles
  BY <1>1, <1>2, HubStays
<1>6. HubChain(at, chain)'
  BY <1>1, <1>4 DEF HubChain
<1>7. HubPins'
  BY <1>1, <1>2, <1>4, <1>5 DEF HubPins, HubLast
<1> QED
  BY <1>1, <1>2, <1>3, <1>4, <1>5, <1>6, <1>7 DEF HubKept

LEMMA HubStep == ASSUME HubKept, Matrix!Next PROVE HubKept'
BY HubPutData, HubRaiseClock, HubLowerClock, HubEndBurst, HubNextBurst, Zenon
   DEF Matrix!Next

-----------------------------------------------------------------------------
(* What is latched.                                                        *)

HubBrightness(tile, x, row, p) ==
  {c \in Matrix!Rgb :
     Matrix!BitSet(Matrix!Level(Matrix!Stands(tile, x, row +
                                  (IF c < 3 THEN 0 ELSE core.numRowPairs)),
                                c % 3), p)}

\* A scan's brightness, up to five planes.
LEMMA HubChannel ==
  ASSUME NEW n \in 1 .. 5, HubPlanes(n), NEW word, Word565(word), NEW c \in 0 .. 2
  PROVE  Matrix!Channel(word, c) = Matrix!Level(word, c)
<1>1. \A v \in Nat : v * 1 = v \div 1
  OBVIOUS
<1>2. /\ word \div 2 ^ 11 \in Nat /\ word % 2 ^ 5 \in Nat
      /\ (word \div 2 ^ 5) % 2 ^ 6 \in Nat
  <2>1. 2 ^ 11 = 2048 /\ 2 ^ 5 = 32 /\ 2 ^ 6 = 64
    BY Twos, PowerIsTwo
  <2> QED
    BY <2>1 DEF Word565
<1>3. 2 ^ 0 = 1
  BY Twos, PowerIsTwo
<1>4. ASSUME NEW v \in Nat
      PROVE  /\ Matrix!Expanded(v, 5) = v \div 2 ^ (5 - n)
             /\ Matrix!Expanded(v, 6) = v \div 2 ^ (6 - n)
  <2>1. /\ Matrix!Expanded(v, 5) = IF n >= 5 THEN v * 2 ^ (n - 5) ELSE v \div 2 ^ (5 - n)
        /\ Matrix!Expanded(v, 6) = IF n >= 6 THEN v * 2 ^ (n - 6) ELSE v \div 2 ^ (6 - n)
    BY Zenon DEF HubPlanes, Matrix!Expanded
  <2>2. ~(n >= 6) /\ (n >= 5 => n - 5 = 0 /\ 5 - n = 0)
    OBVIOUS
  <2>3. v * 1 = v \div 1
    BY <1>1
  <2> QED
    BY <1>3, <2>1, <2>2, <2>3, Zenon
<1>5. ~(n > 5) /\ ~(n > 6)
  OBVIOUS
<1>6. CASE c = 0
  <2>1. Matrix!Channel(word, c) = Matrix!Expanded(word \div 2 ^ 11, 5)
    BY <1>6 DEF Matrix!Channel
  <2>2. Matrix!Level(word, c) = (word \div 2 ^ 11) \div 2 ^ (5 - n)
    BY <1>5, <1>6 DEF Matrix!Level, HubPlanes
  <2> QED
    BY <1>2, <1>4, <2>1, <2>2, Zenon
<1>7. CASE c = 1
  <2>1. Matrix!Channel(word, c) = Matrix!Expanded((word \div 2 ^ 5) % 2 ^ 6, 6)
    BY <1>7 DEF Matrix!Channel
  <2>2. Matrix!Level(word, c) = ((word \div 2 ^ 5) % 2 ^ 6) \div 2 ^ (6 - n)
    BY <1>5, <1>7 DEF Matrix!Level, HubPlanes
  <2> QED
    BY <1>2, <1>4, <2>1, <2>2, Zenon
<1>8. CASE c = 2
  <2>1. Matrix!Channel(word, c) = Matrix!Expanded(word % 2 ^ 5, 5)
    BY <1>8 DEF Matrix!Channel
  <2>2. Matrix!Level(word, c) = (word % 2 ^ 5) \div 2 ^ (5 - n)
    BY <1>5, <1>8 DEF Matrix!Level, HubPlanes
  <2> QED
    BY <1>2, <1>4, <2>1, <2>2, Zenon
<1> QED
  BY <1>6, <1>7, <1>8

\* Every element after the padding shows one LED, and shows it its own pixel.
LEMMA HubLed ==
  ASSUME HubPlain, NEW row \in Nat, row < core.numRowPairs,
         NEW p \in Nat, p < core.numPlanes,
         NEW j \in 0 .. Matrix!ChainBits(core) - 1,
         NEW tile, tile = core.tiles - 1 - j \div core.width,
         NEW x, x = j % core.width
  PROVE  HubShown(row, p, HubOffset + j) = HubBrightness(tile, x, row, p)
<1> DEFINE upper == Matrix!Stands(tile, x, row)
           lower == Matrix!Stands(tile, x, row + core.numRowPairs)
<1>1. /\ core \in Setting /\ canvas \in Painting /\ core.numPlanes \in 1 .. 6
      /\ core.numRowPairs \in Nat \ {0} /\ Matrix!pad \in Nat
      /\ core.width \in Nat \ {0} /\ core.tiles \in Nat \ {0}
  BY SettingFacts, HubElements DEF HubPlain
<1>2. /\ row \in 0 .. core.numRowPairs - 1 /\ p \in 0 .. core.numPlanes - 1
      /\ j \in 0 .. core.width * core.tiles - 1 /\ j \in Nat
  BY <1>1 DEF Matrix!ChainBits
<1>3. /\ Matrix!Result(row, p, j) = Matrix!Colours(upper, lower, p)
      /\ Word565(upper) /\ Word565(lower)
  BY <1>1, <1>2, HubResult
<1>4. HubBrightness(tile, x, row, p) =
        {c \in 0 .. 5 :
           Matrix!BitSet(Matrix!Level(IF c < 3 THEN upper ELSE lower, c % 3), p)}
  <2>1. \A c \in 0 .. 5 :
          Matrix!Stands(tile, x, row + (IF c < 3 THEN 0 ELSE core.numRowPairs))
            = IF c < 3 THEN upper ELSE lower
    <3>1. row + 0 = row
      OBVIOUS
    <3> QED
      BY <3>1, Zenon
  <2> HIDE DEF upper, lower
  <2> QED
    BY <2>1, Zenon DEF HubBrightness, Matrix!Rgb
<1>5. CASE core.board # "scan"
  <2>1. HubShown(row, p, HubOffset + j) = Matrix!Result(row, p, j)
    <3>1. HubOffset = Matrix!pad
      BY <1>5 DEF HubOffset
    <3>2. ~(Matrix!pad + j < Matrix!pad) /\ (Matrix!pad + j) - Matrix!pad = j
      BY <1>1, <1>2
    <3> QED
      BY <1>5, <3>1, <3>2, Zenon DEF HubShown
  <2>2. PICK n \in 1 .. 6 : HubPlanes(n) /\ p < n
    BY <1>1 DEF HubPlanes
  <2> HIDE DEF upper, lower
  <2>3. Matrix!Colours(upper, lower, p) =
          {c \in 0 .. 5 :
             Matrix!BitSet(Matrix!Level(IF c < 3 THEN upper ELSE lower, c % 3), p)}
    BY <1>3, <2>2, HubColours
  <2> QED
    BY <1>3, <1>4, <2>1, <2>3, Zenon
<1>6. CASE core.board = "scan"
  <2>1. core.tiles = 1 /\ ~core.serpentine /\ core.numPlanes < 6
    BY <1>1, <1>6, SettingFacts DEF Handled
  <2>2. tile = 0 /\ x = j
    <3>1. j \in 0 .. core.width - 1
      BY <1>1, <1>2, <2>1
    <3>2. j \div core.width = 0 /\ j % core.width = j
      BY <1>1, <3>1, DivMod
    <3> QED
      BY <2>1, <3>2
  <2>3. /\ upper = PixelOf(canvas, j, row)
        /\ lower = PixelOf(canvas, j, row + core.numRowPairs)
    <3>1. \A y \in Nat : Matrix!Stands(0, j, y) = PixelOf(canvas, j, y)
      <4>1. ASSUME NEW y \in Nat PROVE 0 * (2 * core.numRowPairs) + y = y
        BY <1>1
      <4> QED
        BY <2>1, <4>1, Zenon DEF Matrix!Stands
    <3>2. row + core.numRowPairs \in Nat
      BY <1>1
    <3> QED
      BY <2>2, <3>1, <3>2, Zenon
  <2>4. HubShown(row, p, HubOffset + j) = Matrix!ScanPixel(j, row, p)
    <3>1. HubOffset = 0 /\ 0 + j = j
      BY <1>2, <1>6 DEF HubOffset
    <3> QED
      BY <1>6, <3>1, Zenon DEF HubShown
  <2>5. PICK n \in 1 .. 5 : HubPlanes(n)
    BY <1>1, <2>1 DEF HubPlanes
  <2> HIDE DEF upper, lower
  <2>6. Matrix!ScanPixel(j, row, p) =
          {c \in 0 .. 5 :
             Matrix!BitSet(Matrix!Channel(IF c < 3 THEN upper ELSE lower, c % 3), p)}
    BY <2>3, Zenon DEF Matrix!ScanPixel, Matrix!Rgb
  <2>7. ASSUME NEW c \in 0 .. 5
        PROVE  Matrix!Channel(IF c < 3 THEN upper ELSE lower, c % 3)
                 = Matrix!Level(IF c < 3 THEN upper ELSE lower, c % 3)
    <3>1. c % 3 \in 0 .. 2
      OBVIOUS
    <3>2. Word565(IF c < 3 THEN upper ELSE lower)
      BY <1>3
    <3> QED
      BY <2>5, <3>1, <3>2, HubChannel, Zenon
  <2> QED
    BY <1>4, <2>4, <2>6, <2>7, Zenon
<1> QED
  BY <1>5, <1>6

LEMMA HubRight == HubKept => Matrix!LatchesPicture
<1> SUFFICES ASSUME HubKept, phase = "latch"
             PROVE  Len(chain) >= Matrix!ChainBits(core) /\ Matrix!Held = Matrix!Wanted
  BY DEF Matrix!LatchesPicture
<1>1. /\ HubPlain /\ HubChain(at, chain) /\ at \in HubSteps
      /\ at.row < core.numRowPairs /\ at.plane < core.numPlanes
      /\ at.k = Matrix!Elements
  BY DEF HubKept, HubPins
<1>2. PICK n \in Nat, o \in Nat :
        n = Matrix!ChainBits(core) /\ o = HubOffset /\ Matrix!Elements = n + o
  BY <1>1, HubElements
<1>3. PICK row \in Nat, p \in Nat : row = at.row /\ p = at.plane
  BY <1>1 DEF HubSteps
<1>4. /\ Len(chain) = o + n /\ chain \in Seq(SUBSET Matrix!Rgb)
      /\ \A i \in 1 .. o + n : chain[i] = HubShown(row, p, i - 1)
  BY <1>1, <1>2, <1>3 DEF HubChain
<1>5. Matrix!Held = SubSeq(chain, o + 1, o + n)
  <2>1. Matrix!Held = SubSeq(chain, Len(chain) - n + 1, Len(chain))
    BY <1>2 DEF Matrix!Held
  <2>2. Len(chain) - n + 1 = o + 1
    BY <1>4
  <2> QED
    BY <1>4, <2>1, <2>2
<1>6. Matrix!Wanted = [j \in 1 .. n |->
                         HubBrightness(core.tiles - 1 - (j - 1) \div core.width,
                                       (j - 1) % core.width, row, p)]
  BY <1>2, <1>3, Zenon DEF Matrix!Wanted, HubBrightness
<1>7. ASSUME NEW j \in 1 .. n
      PROVE  chain[o + j] = HubBrightness(core.tiles - 1 - (j - 1) \div core.width,
                                          (j - 1) % core.width, row, p)
  <2>1. PICK i \in 1 .. o + n : i = o + j
    OBVIOUS
  <2>2. j - 1 \in 0 .. Matrix!ChainBits(core) - 1 /\ i - 1 = o + (j - 1)
    BY <1>2, <2>1
  <2>3. chain[i] = HubShown(row, p, i - 1)
    BY <1>4
  <2>4. HubShown(row, p, HubOffset + (j - 1))
          = HubBrightness(core.tiles - 1 - (j - 1) \div core.width,
                          (j - 1) % core.width, row, p)
    BY <1>1, <1>3, <2>2, HubLed
  <2> QED
    BY <1>2, <2>1, <2>2, <2>3, <2>4, Zenon
<1>8. \A i \in o + 1 .. o + n : chain[i] \in SUBSET Matrix!Rgb
  BY <1>4
<1>9. /\ Matrix!Held \in Seq(SUBSET Matrix!Rgb) /\ Len(Matrix!Held) = n
      /\ \A j \in 1 .. n : Matrix!Held[j] = chain[o + j]
  BY <1>5, <1>8, SubSeqProperties
<1>10. Matrix!Held = [j \in 1 .. n |-> chain[o + j]]
  BY <1>9
<1>11. Matrix!Held = Matrix!Wanted
  BY <1>6, <1>7, <1>10, Zenon
<1>12. Len(chain) >= Matrix!ChainBits(core)
  BY <1>2, <1>4
<1> QED
  BY <1>11, <1>12

\* Nothing else moves the matrix.
LEMMA HubStutter == ASSUME HubKept, UNCHANGED matrix PROVE HubKept'
<1>1. UNCHANGED <<core, canvas, at, phase, pins, chain>>
  BY DEF matrix
<1>2. HubPlain' /\ HubChain(at, chain)'
  BY <1>1, HubSameChain
<1>3. /\ Matrix!Elements' = Matrix!Elements /\ (Matrix!Toggles' <=> Matrix!Toggles)
      /\ \A row, p, i : HubShown(row, p, i)' = HubShown(row, p, i)
  BY <1>1, HubStays
<1>4. HubPins'
  <2>1. HubLast(at.row, at.plane, at.k)' = HubLast(at.row, at.plane, at.k)
    BY <1>1, <1>3 DEF HubLast
  <2> QED
    BY <1>1, <1>3, <2>1 DEF HubKept, HubPins
<1> QED
  BY <1>1, <1>2, <1>3, <1>4 DEF HubKept

-----------------------------------------------------------------------------
(* The buses together.                                                     *)

WiresInv ==
  /\ which \in {"gpio", "spi", "i2c", "flexio", "hub75"}
  /\ TypeInv /\ BytesInv
  /\ which = "spi" => SpiKept
  /\ which = "i2c" => I2cKept
  /\ which = "flexio" => FxKept
  /\ which = "hub75" => HubKept

LEMMA WiresStart == WiresInit => WiresInv
<1> SUFFICES ASSUME WiresInit PROVE WiresInv
  OBVIOUS
<1>1. Init
  BY DEF WiresInit, NoGpio
<1>2. TypeInv /\ BytesInv
  BY <1>1, TypeInit, BytesInit
<1>3. \/ which = "gpio"
      \/ which = "hub75" /\ Matrix!Init
      \/ which = "spi" /\ Spi!Init
      \/ which = "i2c" /\ I2c!Init
      \/ which = "flexio" /\ Flexio!Init
  BY DEF WiresInit
<1> QED
  BY <1>2, <1>3, SpiStart, I2cStart, FxStart, HubStart DEF WiresInv

LEMMA SharedKept ==
  ASSUME UNCHANGED shared
  PROVE  (SpiKept => SpiKept') /\ (I2cKept => I2cKept') /\ (FxKept => FxKept')
<1>1. bus' = bus /\ sending' = sending /\ panel' = panel
  BY DEF shared
<1>2. SpiKept => SpiKept'
  BY <1>1 DEF SpiKept, SpiBusKept, SpiPanelKept, SpiCall, SpiStream
<1>3. I2cKept => I2cKept'
  BY <1>1 DEF I2cKept
<1>4. FxKept => FxKept'
  BY <1>1 DEF FxKept
<1> QED
  BY <1>2, <1>3, <1>4

LEMMA WiresStep ==
  ASSUME WiresInv, [WiresNext]_<<which, vars, shared, matrix>>
  PROVE  WiresInv'
<1>1. which' = which /\ [Next]_vars
  BY DEF WiresNext
<1>2. TypeInv' /\ BytesInv'
  BY <1>1, TypeStep, BytesStep DEF WiresInv
<1>3. \/ UNCHANGED shared
      \/ which = "spi" /\ Spi!Next
      \/ which = "i2c" /\ I2c!Next
      \/ which = "flexio" /\ Flexio!Next
  BY DEF WiresNext
<1>4. /\ which = "spi" => SpiKept'
      /\ which = "i2c" => I2cKept'
      /\ which = "flexio" => FxKept'
  BY <1>3, SharedKept, SpiStep, I2cStep, FxStep DEF WiresInv
<1>5. \/ UNCHANGED matrix
      \/ which = "hub75" /\ Matrix!Next
  BY DEF WiresNext
<1>6. which = "hub75" => HubKept'
  BY <1>5, HubStutter, HubStep DEF WiresInv
<1> QED
  BY <1>1, <1>2, <1>4, <1>6 DEF WiresInv

\* Whatever the program sends, in whatever calls and however they end: each
\* byte of a call reaches the panel once and in order, as a command or as
\* data.  Over SPI that is so with a D/C pin and as a stream of nine-bit units,
\* although other code may set up the SPI anew between two calls, if the call
\* finds the stream between two units.  Over FlexIO it is so for two objects, of
\* which the callbacks know one, as long as the unit is up.  Over I2C the call
\* is one transaction.
\*
\* And whatever the canvas shows and however wide, long and folded the chain of
\* HUB75 panels is: at each latch every LED of the row pair holds the bits of
\* its own pixel's brightness, through converter, padding, unrolled loop, DMA
\* and toggle register.
THEOREM BusesDeliver == WiresSpec => []Delivered
<1>1. WiresInv => Delivered
  <2> SUFFICES ASSUME WiresInv PROVE Delivered
    OBVIOUS
  <2>1. CASE which = "gpio"
    BY <2>1, BytesRight DEF WiresInv, Delivered
  <2>2. CASE which = "spi"
    BY <2>2, SpiRight DEF WiresInv, Delivered
  <2>3. CASE which = "i2c"
    BY <2>3, I2cRight DEF WiresInv, Delivered
  <2>4. CASE which = "flexio"
    BY <2>4, FxRight DEF WiresInv, Delivered
  <2>5. CASE which = "hub75"
    BY <2>5, HubRight DEF WiresInv, Delivered
  <2> QED
    BY <2>1, <2>2, <2>3, <2>4, <2>5 DEF WiresInv
<1>2. WiresInv /\ [WiresNext]_<<which, vars, shared, matrix>> => WiresInv'
  BY WiresStep
<1> QED
  BY <1>1, <1>2, WiresStart, PTL DEF WiresSpec
=============================================================================
