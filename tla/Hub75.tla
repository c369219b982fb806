-------------------------------- MODULE Hub75 --------------------------------
(***************************************************************************)
(* What one burst of the Protomatter core puts into a HUB75 panel: the     *)
(* converters and the blast functions of core.c, the blast functions of    *)
(* arch/samd51.h and arch/esp32-s3.h, and the scan mod_rgbmatrix.c does    *)
(* itself on a chip the core has no timer for.                             *)
(*                                                                         *)
(* A converter turns the 565 pixels of a row pair and bit plane into the   *)
(* elements the burst writes to the port; where the port has a toggle      *)
(* register an element holds what changes, the clock pin included.  The    *)
(* pins are followed store by store, and the panel shifts its six inputs   *)
(* in at every rising clock edge.  An element is the set of the pins it    *)
(* names: 0 to 5 are the colour inputs, 6 is the clock.                    *)
(***************************************************************************)
EXTENDS Integers, Sequences, FiniteSets

CONSTANTS Setting,    \* the panels and boards
          Painting,   \* names of the pictures in the canvas
          PixelOf(_, _, _),  \* the 565 word of a picture at x, y
          ChunkSize   \* elements a blast loop is unrolled to, per board

(***************************************************************************)
(* A setting is a board, the width of the port access its pins allow, the  *)
(* width of one panel, the panels in the chain, whether every second one   *)
(* is mounted upside down, the bit planes, and half the rows of a panel:   *)
(*   [board : {"samd51", "rp2", "mimxrt", "esp32s3", "scan"},              *)
(*    element : {"byte", "word", "long"}, width : Nat \ {0},               *)
(*    tiles : Nat \ {0}, serpentine : BOOLEAN, numPlanes : 1 .. 6,         *)
(*    numRowPairs : Nat \ {0}]                                             *)
(***************************************************************************)

VARIABLES
  core,     \* the setting
  canvas,   \* the picture
  at,       \* the row, the plane and the element the burst is at
  phase,    \* "data", "clock", "lower", "latch"
  pins,     \* the colour and clock pins that are high
  chain     \* the panels' shift registers, last bit shifted first

vars == <<core, canvas, at, phase, pins, chain>>

Rgb == 0 .. 5
Clk == 6
Pins == Rgb \cup {Clk}
Flip(S, T) == (S \ T) \cup (T \ S)
BitSet(word, bit) == (word \div 2 ^ bit) % 2 = 1

\* A port toggle register, and access to it in units of 32 bits only.
Toggles == core.board \in {"samd51", "rp2", "mimxrt"}
Strict == core.board \in {"rp2", "mimxrt"}

ChainBits(s) == s.width * s.tiles
PaddedUp(s) == LET c == ChunkSize[s.board]
               IN c * ((ChainBits(s) + c - 1) \div c)
pad == PaddedUp(core) - ChainBits(core)

\* Settings the code handles: on these two boards whole chunks only.
Whole(s) == s.board \in {"samd51", "esp32s3"} => PaddedUp(s) = ChainBits(s)

-----------------------------------------------------------------------------
(* _PM_convert_565_byte(), _word() and _long().                            *)

\* The bits of a 565 word that feed plane p: with six planes red and blue
\* begin with a copy of their highest bit.
RedBit(p) == IF core.numPlanes < 6 THEN 11 + 5 - core.numPlanes + p
             ELSE IF p = 0 THEN 15 ELSE 10 + p
GreenBit(p) == IF core.numPlanes < 6 THEN 6 + 5 - core.numPlanes + p ELSE 5 + p
BlueBit(p) == IF core.numPlanes < 6 THEN 5 - core.numPlanes + p
              ELSE IF p = 0 THEN 4 ELSE p - 1

\* The canvas as the array the converter indexes.
Source(i) == PixelOf(canvas, i % core.width, i \div core.width)

Colours(upper, lower, p) ==
  {c \in Rgb : BitSet(IF c < 3 THEN upper ELSE lower,
                      CASE c % 3 = 0 -> RedBit(p)
                        [] c % 3 = 1 -> GreenBit(p)
                        [] c % 3 = 2 -> BlueBit(p))}

\* The colours of the j-th pixel of the chain, the bottom tile's first; an
\* upside-down tile is read backwards from its last rows.
LowerFirst(tile) == core.serpentine /\ tile % 2 = 1
Result(row, p, j) ==
  LET w == core.width
      pairs == core.numRowPairs
      tile == core.tiles - 1 - j \div w
      ul == tile * w * pairs * 2
      x == IF LowerFirst(tile) THEN w - 1 - (j % w) ELSE j % w
      lower == IF LowerFirst(tile) THEN ul + w * (pairs - 1 - row)
               ELSE ul + w * row + w * pairs
      upper == IF LowerFirst(tile) THEN lower + w * pairs ELSE ul + w * row
  IN Colours(Source(upper + x), Source(lower + x), p)

\* What begin() left in the elements before the first pixel of a byte-wide
\* screen: with 32-bit stores it is zeros, not the clock.
BytePad == IF Toggles /\ ~Strict THEN {Clk} ELSE {}

\* A byte element is the difference to the pixel before, and lowers the
\* clock; the clock is erased from the first one of the plane.
ByteElementClocked(row, p, k) ==        \* mutant: first element not erased
  LET prior == IF k = pad THEN {} ELSE Result(row, p, k - pad - 1)
  IN IF k < pad THEN BytePad
     ELSE IF Toggles THEN Flip(Result(row, p, k - pad), prior \cup {Clk})
     ELSE Result(row, p, k - pad)
ByteElement(row, p, k) ==
  LET prior == IF k = pad THEN {} ELSE Result(row, p, k - pad - 1)
      whole == IF k < pad THEN BytePad
               ELSE IF Toggles
               THEN Flip(Result(row, p, k - pad), prior \cup {Clk})
               ELSE Result(row, p, k - pad)
  IN IF k = 0 THEN whole \ {Clk} ELSE whole

\* A word element: the screen is first cleared to the clock, and the
\* differences are put into it.
WordElement(row, p, k) ==
  (IF k = 0 THEN {} ELSE {Clk})
    \cup (IF k < pad THEN {}
          ELSE Flip(Result(row, p, k - pad),
                    IF k = pad THEN {} ELSE Result(row, p, k - pad - 1)))
LongElement(row, p, k) == WordElement(row, p, k)

Element(row, p, k) == CASE core.element = "byte" -> ByteElement(row, p, k)
                        [] core.element = "word" -> WordElement(row, p, k)
                        [] core.element = "long" -> LongElement(row, p, k)

-----------------------------------------------------------------------------
(* The burst.                                                              *)

\* Elements a burst writes.  The DMA of the ESP32-S3 and the loops of
\* samd51.h know nothing of the padding.
Samd51Elements == ChunkSize["samd51"] * (ChainBits(core) \div ChunkSize["samd51"])
DmaElements == ChainBits(core)
Elements == CASE core.board = "samd51" -> Samd51Elements
              [] core.board = "esp32s3" -> DmaElements
              [] core.board \in {"rp2", "mimxrt"} -> PaddedUp(core)
              [] core.board = "scan" -> core.width

\* The panel samples its inputs at a rising edge.  When one store raises the
\* clock and changes the data it may see either.
Sampled(new) ==
  IF Clk \in new \ pins
  THEN {Append(chain, s) : s \in {new \ {Clk}, pins \ {Clk}}}
  ELSE {chain}
Drive(new) == /\ pins' = new
              /\ \E c \in Sampled(new) : chain' = c

Init ==
  /\ core \in {s \in Setting : Whole(s)}
  /\ canvas \in Painting
  /\ at = [row |-> 0, plane |-> IF core.board = "scan" THEN core.numPlanes - 1
                                ELSE 0, k |-> 0]
  /\ phase = "data"
  /\ pins = {}
  /\ chain = << >>

\* rgbmatrix_expand_channel() and a plane of it: the highest bit_depth bits.
Expanded(value, bits) ==
  IF core.numPlanes >= bits THEN value * 2 ^ (core.numPlanes - bits)
  ELSE value \div 2 ^ (bits - core.numPlanes)
Channel(word, c) ==
  CASE c = 0 -> Expanded(word \div 2 ^ 11, 5)
    [] c = 1 -> Expanded((word \div 2 ^ 5) % 2 ^ 6, 6)
    [] c = 2 -> Expanded(word % 2 ^ 5, 5)
ScanPixel(x, addr, p) ==
  LET top == PixelOf(canvas, x, addr)
      bottom == PixelOf(canvas, x, addr + core.numRowPairs)
  IN {c \in Rgb : BitSet(Channel(IF c < 3 THEN top ELSE bottom, c % 3), p)}

\* Put the data of an element on the pins.
PutData ==
  /\ phase = "data" /\ at.k < Elements
  /\ Drive(CASE core.board = "scan" -> ScanPixel(at.k, at.row, at.plane)
             [] core.board = "esp32s3" -> Element(at.row, at.plane, at.k)
             [] OTHER -> Flip(pins, Element(at.row, at.plane, at.k)))
  /\ phase' = "clock"
  /\ UNCHANGED <<core, canvas, at>>

\* Raise the clock.  A board without a toggle register lowers it again
\* before the next data; the others do it with that data.
RaiseClock ==
  /\ phase = "clock"
  /\ Drive(IF Toggles THEN Flip(pins, {Clk}) ELSE pins \cup {Clk})
  /\ phase' = IF Toggles THEN "data" ELSE "lower"
  /\ at' = [at EXCEPT !.k = @ + 1]
  /\ UNCHANGED <<core, canvas>>

LowerClock ==
  /\ phase = "lower"
  /\ Drive(pins \ {Clk})
  /\ phase' = "data"
  /\ UNCHANGED <<core, canvas, at>>

\* The end of a blast function: colour and clock pins are cleared.
LeaveAsIs == pins                       \* mutant: nothing is cleared
LeaveLow == IF Toggles THEN {} ELSE pins
EndBurst ==
  /\ phase = "data" /\ at.k >= Elements
  /\ Drive(LeaveLow)
  /\ phase' = "latch"
  /\ UNCHANGED <<core, canvas, at>>

\* The next burst: the planes of a row in turn and then the next row, or
\* the rows of a plane and then the next lower one, once.
Following ==
  IF core.board # "scan"
  THEN IF at.plane + 1 < core.numPlanes
       THEN [at EXCEPT !.plane = @ + 1, !.k = 0]
       ELSE [row |-> (at.row + 1) % core.numRowPairs, plane |-> 0, k |-> 0]
  ELSE IF at.row + 1 < core.numRowPairs THEN [at EXCEPT !.row = @ + 1, !.k = 0]
       ELSE [row |-> 0, plane |-> IF at.plane > 0 THEN at.plane - 1
                                  ELSE core.numPlanes - 1, k |-> 0]
NextBurst ==
  /\ phase = "latch"
  /\ at' = Following
  /\ phase' = "data"
  /\ chain' = << >>
  /\ UNCHANGED <<core, canvas, pins>>

Next == PutData \/ RaiseClock \/ LowerClock \/ EndBurst \/ NextBurst

Spec == Init /\ [][Next]_vars

-----------------------------------------------------------------------------
(* The picture on the panels, without the converter's arithmetic.          *)

\* The pixel LED x, y of a tile stands for: a tile mounted upside down is
\* turned by half a turn.
Stands(tile, x, y) ==
  LET rows == 2 * core.numRowPairs
      turned == core.serpentine /\ tile % 2 = 1
  IN PixelOf(canvas, IF turned THEN core.width - 1 - x ELSE x,
             tile * rows + (IF turned THEN rows - 1 - y ELSE y))

\* The bits of a colour as a brightness of numPlanes bits: a five-bit colour
\* at six planes repeats its highest bit, so that full is full.
Level(word, c) ==
  LET bits == IF c = 1 THEN 6 ELSE 5
      value == CASE c = 0 -> word \div 2 ^ 11
                 [] c = 1 -> (word \div 2 ^ 5) % 2 ^ 6
                 [] c = 2 -> word % 2 ^ 5
  IN IF core.numPlanes > bits THEN value * 2 + value \div 2 ^ (bits - 1)
     ELSE value \div 2 ^ (bits - core.numPlanes)

\* What the shift registers must hold when the row is latched: the LEDs of
\* the tile at the far end first.
Wanted ==
  [j \in 1 .. ChainBits(core) |->
     LET tile == core.tiles - 1 - (j - 1) \div core.width
         x == (j - 1) % core.width
     IN {c \in Rgb :
           BitSet(Level(Stands(tile, x, at.row +
                               (IF c < 3 THEN 0 ELSE core.numRowPairs)), c % 3),
                  at.plane)}]

Held == SubSeq(chain, Len(chain) - ChainBits(core) + 1, Len(chain))

\* At every latch the panels hold the brightness bits of the row pair and
\* plane, each LED that of its own pixel: through tiles and padding, toggled
\* or written, over any access width.
LatchesPicture ==
  phase = "latch" => Len(chain) >= ChainBits(core) /\ Held = Wanted
=============================================================================
