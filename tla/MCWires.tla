------------------------------- MODULE MCWires -------------------------------
(***************************************************************************)
(* The buses and the matrix driver whose wires the CPU moves itself, call  *)
(* by call: one of them is chosen at the start, and what is checked of all *)
(* of them is that the panel gets what the program sent.                   *)
(*                                                                         *)
(* The GPIO bus has variables of its own, and so has the matrix; the other *)
(* three, each a bus, a call and a panel, share theirs.                    *)
(***************************************************************************)
EXTENDS MCGpioI80

CONSTANTS Objects, None,
          SpiMessages, I2cMessages, FlexioMessages, BulkThreshold,
          Setting, Painting, PixelOf(_, _, _), ChunkSize

VARIABLES which, bus, sending, panel, core, canvas, at, phase, pins, chain

shared == <<bus, sending, panel>>
matrix == <<core, canvas, at, phase, pins, chain>>

-----------------------------------------------------------------------------
(* Payloads, panels and pictures.                                          *)

\* Bytes with all sorts of bits, so that one out of place shows.
MCPayload(name, n) == [j \in 1 .. n |-> (name * 85 + j * 37) % 256]
MCMessages(lengths) ==
  {<<MCPayload(name, c), MCPayload(name, n)>> :
     name \in {1, 2}, c \in 0 .. 1, n \in lengths}
\* An SPI command is packed with no byte, one, eight or nine bytes after it.
MCSpiMessages == MCMessages({0, 1, 8, 9})
MCShortMessages == MCMessages(0 .. 3)

\* Two pictures whose pixels, and whose neighbours' bits, differ.
MCPixelOf(picture, x, y) ==
  (x * 9029 + y * 30011 + picture * 21846 + 4660) % 65536

Boards == {"samd51", "rp2", "mimxrt", "esp32s3", "scan"}
MCChunkSize == [b \in Boards |-> IF b \in {"mimxrt", "scan"} THEN 1 ELSE 4]

\* Settings for which the wires carry the picture.  begin() clears the padding
\* of a byte-wide screen word by word, which leaves the clock out of it on the
\* boards that write words only: none with padding.  The software scan drives
\* one tile, mirrors every other row when it is serpentine, and at six planes
\* leaves the lowest bit of red and blue low where the converter repeats the
\* highest: none of those.
Handled(s) ==
  /\ s.board = "esp32s3" => s.element = "byte"
  /\ s.board = "scan" => /\ s.element = "byte" /\ s.tiles = 1
                         /\ ~s.serpentine /\ s.numPlanes < 6
  /\ s.board \in {"rp2", "mimxrt"} /\ s.element = "byte" =>
       (s.width * s.tiles) % ChunkSize[s.board] = 0
MCSetting ==
  {s \in [board : Boards, element : {"byte", "word", "long"}, width : 2 .. 4,
          tiles : 1 .. 3, serpentine : BOOLEAN, numPlanes : {1, 3, 5, 6},
          numRowPairs : {2}] : Handled(s)}

Word565(w) == w \in Nat /\ w < 65536
ASSUME SettingAssumption ==
  /\ ChunkSize \in [Boards -> Nat \ {0}]
  /\ \A s \in Setting :
       /\ s \in [board : Boards, element : {"byte", "word", "long"},
                width : Nat \ {0}, tiles : Nat \ {0}, serpentine : BOOLEAN,
                numPlanes : 1 .. 6, numRowPairs : Nat \ {0}]
       /\ Handled(s)
       /\ \A p \in Painting, x \in 0 .. s.width - 1,
             y \in 0 .. 2 * s.numRowPairs * s.tiles - 1 :
            Word565(PixelOf(p, x, y))

\* Buffers hold bytes, and NULL is no object, no call, and no
\* state of an object.
Octet == 0 .. 255
Latch == [dc : 0 .. 1, val : Octet]
SpiCalls == [self : Objects, sent : Seq(Latch), i : Nat \ {0}, bits : 0 .. 7,
             buffer : Octet, aligned : BOOLEAN]
I2cCalls == [control : Octet, args : Seq(Octet) \X Seq(Octet), i : 1 .. 4]
FlexioCalls == [self : Objects, command : Seq(Octet), data : Seq(Octet),
                next : {"start", "command", "data", "stop"}, alone : BOOLEAN]
ASSUME MessagesAssumption ==
  SpiMessages \cup I2cMessages \cup FlexioMessages \subseteq Seq(Octet) \X Seq(Octet)
ASSUME NullAssumption ==
  /\ None \notin Objects /\ None # "open"
  /\ None \notin SpiCalls /\ None \notin I2cCalls /\ None \notin FlexioCalls

Spi == INSTANCE SpiBus WITH Messages <- SpiMessages
I2c == INSTANCE I2cBus WITH Messages <- I2cMessages
Flexio == INSTANCE FlexioI80 WITH Messages <- FlexioMessages
Matrix == INSTANCE Hub75

-----------------------------------------------------------------------------
NoShared == bus = None /\ sending = None /\ panel = None
NoMatrix == /\ core = None /\ canvas = None /\ at = None
            /\ phase = None /\ pins = None /\ chain = None

\* The GPIO bus, idle, for a run of another one.
NoGpio == /\ Init
          /\ pin_ids = CHOOSE p \in Layouts : LayoutOk(p)
          /\ others = {}

WiresInit ==
  \/ which = "gpio" /\ Init /\ NoShared /\ NoMatrix
  \/ which = "spi" /\ NoGpio /\ Spi!Init /\ NoMatrix
  \/ which = "i2c" /\ NoGpio /\ I2c!Init /\ NoMatrix
  \/ which = "flexio" /\ NoGpio /\ Flexio!Init /\ NoMatrix
  \/ which = "hub75" /\ NoGpio /\ NoShared /\ Matrix!Init

WiresNext ==
  /\ UNCHANGED which
  /\ \/ which = "gpio" /\ Next /\ UNCHANGED <<shared, matrix>>
     \/ which = "spi" /\ Spi!Next /\ UNCHANGED <<vars, matrix>>
     \/ which = "i2c" /\ I2c!Next /\ UNCHANGED <<vars, matrix>>
     \/ which = "flexio" /\ Flexio!Next /\ UNCHANGED <<vars, matrix>>
     \/ which = "hub75" /\ Matrix!Next /\ UNCHANGED <<vars, shared>>

WiresSpec == WiresInit /\ [][WiresNext]_<<which, vars, shared, matrix>>

-----------------------------------------------------------------------------
\* The panel gets what the program sent: the bytes of the call in order, as
\* command or as data, and at every latch the brightness bits of the pixels.
Delivered ==
  CASE which = "spi" -> Spi!PanelGetsBytes
    [] which = "i2c" -> I2c!PanelGetsBytes
    [] which = "flexio" -> Flexio!PanelGetsBytes
    [] which = "hub75" -> Matrix!LatchesPicture
    [] OTHER -> PanelGetsBytes
=============================================================================
