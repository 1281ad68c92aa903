---------------------------------- MODULE Resp ----------------------------------
(***************************************************************************)
(* RESP as bytes: what the parser makes of a stream that may end or go     *)
(* wrong anywhere, and how a command is encoded for the log and the        *)
(* replicas.                                                               *)
(*                                                                         *)
(* A byte is a number, a string a sequence of bytes.  A parser returns an  *)
(* error ("nil" for none), a value and the bytes that are left.  Where the *)
(* code calls itself, a function does, of a number that grows less.  Left  *)
(* out: numbers beyond int, white space that is not ASCII.                 *)
(***************************************************************************)
EXTENDS Integers, Sequences

LOCAL INSTANCE FiniteSetsExt

CONSTANT MaxDepth  \* bound on the arrays in arrays of a command

ASSUME DepthAssumption == MaxDepth \in Nat

Byte  == 0 .. 255
Bytes == Seq(Byte)

CR == 13
LF == 10
Dollar == 36
Plus   == 43
Star   == 42
Minus  == 45
Colon  == 58
Digit  == 48 .. 57
Space  == (9 .. 13) \union {32}
CRLF   == <<CR, LF>>

\* Values: a Go string, an int, nil, a slice of values.
Str(s) == [kind |-> "string", of |-> s]
Integer(n) == [kind |-> "int", of |-> n]
Nil    == [kind |-> "nil", of |-> <<>>]
Arr(a) == [kind |-> "array", of |-> a]

\* The values with at most n arrays in one another.
Values[n \in Nat] ==
  [kind : {"string"}, of : Bytes] \union [kind : {"int"}, of : Int] \union {Nil} \union
    IF n = 0 THEN {} ELSE [kind : {"array"}, of : Seq(Values[n - 1])]

Ok(v, rest) == [err |-> "nil", val |-> v, rest |-> rest]
Fail(e)     == [err |-> e, val |-> Nil, rest |-> <<>>]

\* What is read next, from the value of r and the bytes it has left; an error ends the reading.
Then(r, Next(_, _)) == IF r.err # "nil" THEN r ELSE Next(r.val, r.rest)

-------------------------------------------------------------------------------
(* Numbers.                                                                *)

Digits[n \in Nat] == IF n < 10 THEN <<48 + n>> ELSE Digits[n \div 10] \o <<48 + (n % 10)>>

\* strconv.Itoa, and %d.
Itoa(n) == IF n < 0 THEN <<Minus>> \o Digits[-n] ELSE Digits[n]

\* The number that digits stand for.
Number(digits) ==
  LET n[i \in 0 .. Len(digits)] == IF i = 0 THEN 0 ELSE 10 * n[i - 1] + (digits[i] - 48)
  IN  n[Len(digits)]

\* strings.TrimSpace.
TrimSpace(s) ==
  LET kept == {i \in DOMAIN s : s[i] \notin Space} IN
    IF kept = {} THEN <<>> ELSE SubSeq(s, Min(kept), Max(kept))

\* strconv.Atoi.
Atoi(s) ==
  LET signed == s # <<>> /\ s[1] \in {Plus, Minus}
      digits == IF signed THEN Tail(s) ELSE s
  IN  IF digits = <<>> \/ (\E i \in DOMAIN digits : digits[i] \notin Digit) THEN Fail("syntax")
      ELSE Ok(IF s[1] = Minus THEN -Number(digits) ELSE Number(digits), <<>>)

-------------------------------------------------------------------------------
(* The parser.                                                             *)

\* reader.ReadString('\n').
ReadLine(b) ==
  LET ends == {i \in DOMAIN b : b[i] = LF} IN
    IF ends = {} THEN Fail("EOF")
    ELSE Ok(SubSeq(b, 1, Min(ends)), SubSeq(b, Min(ends) + 1, Len(b)))

\* A line that is a number.
ReadNumber(b) ==
  Then(ReadLine(b), LAMBDA line, rest : Then(Atoi(TrimSpace(line)), LAMBDA n, none : Ok(n, rest)))

\* io.ReadFull: there is an error of its own for a stream that ends in the middle.
ReadFull(b, n) ==
  IF Len(b) >= n THEN Ok(SubSeq(b, 1, n), SubSeq(b, n + 1, Len(b)))
  ELSE Fail(IF b = <<>> THEN "EOF" ELSE "unexpected EOF")

\* reader.Discard.
Discard(b, n) == IF Len(b) >= n THEN Ok(Nil, SubSeq(b, n + 1, Len(b))) ELSE Fail("EOF")

\* Mutant: nobody looks whether the CR LF behind the bytes is there.
handleRESPBulkString_IgnoresDiscard(b) ==
  Then(ReadNumber(b), LAMBDA n, rest :
    IF n = -1 THEN Ok(Nil, rest)
    ELSE IF n < 0 THEN Fail("panic")
    ELSE Then(ReadFull(rest, n), LAMBDA s, end : Ok(Str(s), SubSeq(end, 3, Len(end)))))

\* make panics when the length is negative.
handleRESPBulkString(b) ==
  Then(ReadNumber(b), LAMBDA n, rest :
    IF n = -1 THEN Ok(Nil, rest)
    ELSE IF n < 0 THEN Fail("panic")
    ELSE Then(ReadFull(rest, n), LAMBDA s, end :
           Then(Discard(end, 2), LAMBDA none, left : Ok(Str(s), left))))

\* strings.TrimRight(line, "\r\n").
TrimRight(line) ==
  LET kept == {i \in DOMAIN line : line[i] \notin {CR, LF}} IN
    IF kept = {} THEN <<>> ELSE SubSeq(line, 1, Max(kept))

handleRESPSimpleString(b) == Then(ReadLine(b), LAMBDA line, rest : Ok(Str(TrimRight(line)), rest))

\* An error that was received is an error of the parser.
handleRESPError(b) == Then(ReadLine(b), LAMBDA line, rest : Fail("received"))

handleRESPInteger(b) == Then(ReadNumber(b), LAMBDA n, rest : Ok(Integer(n), rest))

\* Elements: what the loop of handleRESPArray makes of a count and what is behind it.
handleRESPArray(Elements, b) ==
  Then(ReadNumber(b), LAMBDA n, rest :
    IF n = -1 THEN Ok(Nil, rest)
    ELSE Then(Elements[n][rest], LAMBDA vs, left : Ok(Arr(vs), left)))

ParseValue(Elements, b) ==
  IF b = <<>> THEN Fail("EOF")
  ELSE CASE b[1] = Star   -> handleRESPArray(Elements, Tail(b))
         [] b[1] = Dollar -> handleRESPBulkString(Tail(b))
         [] b[1] = Plus   -> handleRESPSimpleString(Tail(b))
         [] b[1] = Minus  -> handleRESPError(Tail(b))
         [] b[1] = Colon  -> handleRESPInteger(Tail(b))
         [] OTHER         -> Fail("unknown prefix")

\* The loop of handleRESPArray, with at most n bytes left; a negative count makes an empty array.
ParseElements[n \in Nat] == [count \in Int |-> [b \in Bytes |->
  IF count <= 0 THEN Ok(<<>>, b)
  ELSE IF n = 0 THEN Fail("EOF")
  ELSE Then(ParseValue(ParseElements[n - 1], b), LAMBDA v, rest :
         Then(ParseElements[n - 1][count - 1][rest], LAMBDA vs, left : Ok(<<v>> \o vs, left)))]]

ParseRESP(b) == ParseValue(ParseElements[Len(b)], b)

-------------------------------------------------------------------------------
(* The encoder.                                                            *)

ArrayHeader(count) == <<Star>> \o Itoa(count) \o CRLF

Bulk(s) == <<Dollar>> \o Itoa(Len(s)) \o CRLF \o s \o CRLF

\* One behind the other.
Concat(texts) ==
  LET first[i \in 0 .. Len(texts)] == IF i = 0 THEN <<>> ELSE first[i - 1] \o texts[i]
  IN  first[Len(texts)]

\* An int becomes text.
EncodedValue(Elements, v) ==
  CASE v.kind = "string" -> Bulk(v.of)
    [] v.kind = "int"    -> Bulk(Itoa(v.of))
    [] v.kind = "nil"    -> <<Dollar>> \o Itoa(-1) \o CRLF
    [] v.kind = "array"  -> ArrayHeader(Len(v.of)) \o Concat([i \in DOMAIN v.of |-> Elements[v.of[i]]])

Encoded[n \in Nat] == [v \in Values[n] |-> EncodedValue(Encoded[n - 1], v)]

encodeRESPArray(arr) == Encoded[MaxDepth][Arr(arr)]

===============================================================================
