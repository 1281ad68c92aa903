---------------------------------- MODULE RDB -----------------------------------
(***************************************************************************)
(* Reading an RDB file, as bytes.  A reader returns an error ("nil" for    *)
(* none), a value and the bytes that are left (module Resp).  The data is  *)
(* a function from the keys that were read to values, and another one to   *)
(* the bytes of their instants of expiry, which Moment turns into numbers. *)
(***************************************************************************)
EXTENDS Resp

LOCAL INSTANCE FiniteSetsExt

Nothing == [data |-> <<>>, expiry |-> <<>>]

\* The map with one key.
One(key, v) == [k \in {key} |-> v]

\* The map f, with what only g has.
And(f, g) == [k \in DOMAIN f \union DOMAIN g |-> IF k \in DOMAIN f THEN f[k] ELSE g[k]]

\* What is read later counts.
Over(later, read) ==
  [data |-> And(later.data, read.data), expiry |-> And(later.expiry, read.expiry)]

readByte(b) == IF b = <<>> THEN Fail("EOF") ELSE Ok(b[1], Tail(b))

\* The last byte is the highest, and its first bit the sign.
LittleEndian(bytes) ==
  LET last == bytes[Len(bytes)]
      n[i \in 0 .. Len(bytes) - 1] ==
        IF i = 0 THEN IF last < 128 THEN last ELSE last - 256
        ELSE 256 * n[i - 1] + bytes[Len(bytes) - i]
  IN  n[Len(bytes) - 1]

\* An instant in milliseconds: signed in eight bytes, or unsigned seconds in four.
Moment(at) == IF Len(at) = 4 THEN 1000 * LittleEndian(Append(at, 0)) ELSE LittleEndian(at)

BigEndian(four) == 256 * (256 * (256 * four[1] + four[2]) + four[3]) + four[4]

\* The length in 6 bits, in 14, in the four bytes behind, or the number of a special encoding.
readLength(b) ==
  Then(readByte(b), LAMBDA first, rest :
    LET low       == first % 64
        Length(n) == [length |-> n, special |-> FALSE]
    IN  CASE first \div 64 = 0 -> Ok(Length(low), rest)
          [] first \div 64 = 1 ->
               Then(readByte(rest), LAMBDA second, left : Ok(Length(256 * low + second), left))
          [] first \div 64 = 2 ->
               Then(ReadFull(rest, 4), LAMBDA four, left : Ok(Length(BigEndian(four)), left))
          [] first \div 64 = 3 -> Ok([length |-> low, special |-> TRUE], rest))

\* A string, or an integer of 1, 2 or 4 bytes as text; a compressed string is an error.
readString(b) ==
  Then(readLength(b), LAMBDA l, rest :
    IF ~l.special THEN ReadFull(rest, l.length)
    ELSE IF l.length > 2 THEN Fail("unsupported")
    ELSE Then(ReadFull(rest, 2 ^ l.length), LAMBDA n, left : Ok(Itoa(LittleEndian(n)), left)))

Two(First(_), Second(_), b) ==
  Then(First(b), LAMBDA v, rest : Then(Second(rest), LAMBDA w, left : Ok(<<v, w>>, left)))

\* Mutant: nobody reads the type of the value.
Instant_WithoutType(b, n) == ReadFull(b, n)

\* The bytes of an instant, and the type of the value, which nobody looks at.
Instant(b, n) ==
  Then(ReadFull(b, n), LAMBDA at, rest : Then(readByte(rest), LAMBDA type, left : Ok(at, left)))

\* A key, its value and, if any, its instant of expiry.
Entry(at, b) ==
  Then(Two(readString, readString, b), LAMBDA kv, rest :
    Ok([data |-> One(kv[1], kv[2]), expiry |-> IF at = <<>> THEN <<>> ELSE One(kv[1], at)], rest))

\* The section that an opcode begins.
Section(opcode, b) ==
  LET Skip(r)     == Then(r, LAMBDA v, rest : Ok(Nothing, rest))
      Expiring(r) == Then(r, LAMBDA at, rest : Entry(at, rest))
  IN  CASE opcode = 250 -> Skip(Two(readString, readString, b))
        [] opcode = 254 -> Skip(readLength(b))
        [] opcode = 251 -> Skip(Two(readLength, readLength, b))
        [] opcode = 252 -> Expiring(Instant(b, 8))
        [] opcode = 253 -> Expiring(Instant(b, 4))
        [] OTHER        -> Entry(<<>>, b)

\* The loop of Parse, with at most n bytes left: it ends at 0xFF or where an opcode should be
\* and the file ends.
ParseSections[n \in Nat] == [b \in Bytes |->
  IF n = 0 \/ b = <<>> \/ b[1] = 255 THEN Ok(Nothing, <<>>)
  ELSE Then(Section(b[1], Tail(b)), LAMBDA read, rest :
         Then(ParseSections[n - 1][rest], LAMBDA later, left : Ok(Over(later, read), left)))]

Parse(b) == Then(ReadFull(b, 9), LAMBDA header, rest : ParseSections[Len(rest)][rest])

\* Whatever is wrong with the file, it counts as empty.
LoadRDB(b) == LET p == Parse(b) IN IF p.err # "nil" THEN Nothing ELSE p.val

-------------------------------------------------------------------------------
(* The format: a header, sections, of which the last is the end of the     *)
(* data, and a checksum.                                                   *)

RdbHeader == <<82, 69, 68, 73, 83, 48, 48, 49, 49>>
Checksum  == <<1, 2, 3, 4, 5, 6, 7, 8>>

\* A number in one of the three forms of a length.
Forms == {"bits6", "bits14", "bits32"}

Fits(form, n) == \/ form = "bits6"  /\ n < 64
                 \/ form = "bits14" /\ n < 16384
                 \/ form = "bits32" /\ n \div 65536 < 65536

Lengths == {l \in [form : Forms, n : Nat] : Fits(l.form, l.n)}

Length(form, n) ==
  IF form = "bits6" THEN <<n>>
  ELSE IF form = "bits14" THEN <<64 + n \div 256, n % 256>>
  ELSE <<128, n \div 16777216, (n \div 65536) % 256, (n \div 256) % 256, n % 256>>

Int8  == -128 .. 127
Int16 == -32768 .. 32767
Int32 == {n \in Int : n \div 16777216 \in Int8}

\* A text: a string behind its length, a number in 1, 2 or 4 bytes, or a compressed string.
RdbTexts ==
  {t \in [form : Forms, text : Bytes] : Fits(t.form, Len(t.text))} \union
  [form : {"int8"}, text : Int8] \union [form : {"int16"}, text : Int16] \union
  [form : {"int32"}, text : Int32] \union
  [form : {"compressed"}, text : Bytes]

IntBytes(form, n) ==
  IF form = "int8" THEN <<192, n % 256>>
  ELSE IF form = "int16" THEN <<193, n % 256, (n \div 256) % 256>>
  ELSE <<194, n % 256, (n \div 256) % 256, (n \div 65536) % 256, (n \div 16777216) % 256>>

TextBytes(t) ==
  IF t.form \in Forms THEN Length(t.form, Len(t.text)) \o t.text
  ELSE IF t.form = "compressed" THEN <<195>> \o t.text
  ELSE IntBytes(t.form, t.text)

TextRead(t) == IF t.form \in {"int8", "int16", "int32"} THEN Itoa(t.text) ELSE t.text

\* A section: its opcode, an instant and a type, or not, and lengths or texts.
Sections ==
  {s \in [op : Byte, at : Bytes, type : Byte, lengths : Seq(Lengths), texts : Seq(RdbTexts)] :
     /\ Len(s.at)      = CASE s.op = 252 -> 8 [] s.op = 253 -> 4 [] OTHER -> 0
     /\ Len(s.lengths) = CASE s.op = 254 -> 1 [] s.op = 251 -> 2 [] OTHER -> 0
     /\ Len(s.texts)   = IF s.op \in {251, 254, 255} THEN 0 ELSE 2}

SectionBytes(s) ==
  <<s.op>> \o (IF s.at = <<>> THEN <<>> ELSE Append(s.at, s.type))
    \o Concat([i \in DOMAIN s.lengths |-> Length(s.lengths[i].form, s.lengths[i].n)])
    \o Concat([i \in DOMAIN s.texts |-> TextBytes(s.texts[i])])

\* What it brings.
SectionRead(s) ==
  IF s.op \in {250, 251, 254, 255} THEN Nothing
  ELSE [data   |-> One(TextRead(s.texts[1]), TextRead(s.texts[2])),
        expiry |-> IF s.at = <<>> THEN <<>> ELSE One(TextRead(s.texts[1]), s.at)]

Supported(s) == \A i \in DOMAIN s.texts : s.texts[i].form # "compressed"

Saved(sections) == RdbHeader \o Concat([i \in DOMAIN sections |-> SectionBytes(sections[i])])

File(sections) == Saved(sections) \o Checksum

\* What the first sections bring.
Brought(sections) ==
  LET all[i \in 0 .. Len(sections)] ==
        IF i = 0 THEN Nothing ELSE Over(SectionRead(sections[i]), all[i - 1])
  IN  all[Len(sections)]

\* What n bytes of the file are worth: the sections that they hold, if they end with one or
\* hold the last and all are supported, and nothing otherwise.
Worth(sections, n) ==
  LET held == {i \in 0 .. Len(sections) : Len(Saved(SubSeq(sections, 1, i))) <= n}
      read == SubSeq(sections, 1, Max(held))
  IN  IF \/ held = {} \/ (\E i \in DOMAIN read : ~Supported(read[i]))
         \/ Max(held) # Len(sections) /\ Len(Saved(read)) # n
      THEN Nothing ELSE Brought(read)

===============================================================================
