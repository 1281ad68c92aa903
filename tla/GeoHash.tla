--------------------------------- MODULE GeoHash -------------------------------
(***************************************************************************)
(* The score that stands for a position: the bits of two grid numbers,     *)
(* interleaved by shifts and masks, as a float64.                          *)
(*                                                                         *)
(* A word is the set of its bits that are 1.  A coordinate is a whole      *)
(* number of half cells from the lower end of its range, so that the       *)
(* middle of a cell is one as well; the rounding of float64 when the code  *)
(* scales a coordinate is left out, that of the score is not.              *)
(***************************************************************************)
EXTENDS Integers, FiniteSets

Word     == 0 .. 63
GridBits == 26                \* a range is 2^26 cells wide
Cells    == 2 ^ GridBits

ShiftLeft(v, n)  == {b + n : b \in v} \intersect Word
ShiftRight(v, n) == {b - n : b \in {a \in v : a >= n}}

\* 0x5555..., 0x3333..., 0x0F0F..., and so on: runs of n ones and n zeros.
Mask(n) == {b \in Word : (b \div n) % 2 = 0}

SpreadStep(v, n)  == (v \union ShiftLeft(v, n)) \intersect Mask(n)
CompactStep(v, n) == (v \union ShiftRight(v, n)) \intersect Mask(2 * n)

\* Bit b goes to 2b.
spreadInt32ToInt64(v) ==
  SpreadStep(SpreadStep(SpreadStep(SpreadStep(SpreadStep(v, 16), 8), 4), 2), 1)

\* The even bits go back.
compactInt64ToInt32(v) ==
  CompactStep(CompactStep(CompactStep(CompactStep(
    CompactStep(v \intersect Mask(1), 1), 2), 4), 8), 16)

interleave(x, y) == spreadInt32ToInt64(x) \union ShiftLeft(spreadInt32ToInt64(y), 1)

\* uint32(...): the number of the cell a coordinate lies in, as a word.
Grid(coordinate) == {b \in 0 .. GridBits : ((coordinate \div 2) \div 2 ^ b) % 2 = 1}

encode(latitude, longitude) == interleave(Grid(latitude), Grid(longitude))

\* float64(...) keeps 53 bits.  A larger score has the longitude 2^26, so bit 1 is 0 and an
\* odd one is rounded down, to even.
Float(score) == IF 53 \in score THEN score \ {0} ELSE score

\* Mutant: the words are exchanged.
decode_Swapped(geoCode) ==
  [lat |-> compactInt64ToInt32(ShiftRight(geoCode, 1)), lon |-> compactInt64ToInt32(geoCode)]

\* The two grid numbers.
decode(geoCode) ==
  [lat |-> compactInt64ToInt32(geoCode), lon |-> compactInt64ToInt32(ShiftRight(geoCode, 1))]

\* What the highest bits of a word of 32 stand for: for each n, the n highest.
Highest(grid) ==
  LET high[n \in 0 .. 32] ==
        IF n = 0 THEN 0 ELSE 2 * high[n - 1] + (IF 32 - n \in grid THEN 1 ELSE 0)
  IN  high

Number(grid) == Highest(grid)[32]

\* Mutant: the upper corner of the cell.
convertGridNumbersToCoordinates_Corner(lat, lon) ==
  [latitude |-> 2 * Number(lat) + 2, longitude |-> 2 * Number(lon) + 2]

\* The middle of the cell.
convertGridNumbersToCoordinates(lat, lon) ==
  [latitude |-> 2 * Number(lat) + 1, longitude |-> 2 * Number(lon) + 1]

\* The largest of the bits in which two words differ decides which is less.
LessBits(v, w) == \E b \in w \ v : \A a \in v \ w : a < b

===============================================================================
