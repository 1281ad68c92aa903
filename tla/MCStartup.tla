------------------------------- MODULE MCStartup --------------------------------
(* An instance of Startup for TLC. *)
EXTENDS Startup

K == <<107>>
V == <<118>>

Short(s) == [form |-> "bits6", text |-> s]
Text14(s) == [form |-> "bits14", text |-> s]
Text32(s) == [form |-> "bits32", text |-> s]
Skipped(op, lengths, texts) ==
  [op |-> op, at |-> <<>>, type |-> 0, lengths |-> lengths, texts |-> texts]
Until(op, at, key, value) ==
  [op |-> op, at |-> at, type |-> 0, lengths |-> <<>>, texts |-> <<key, value>>]
Value(key, value) == Until(0, <<>>, key, value)
Size(form, n) == [form |-> form, n |-> n]

EndOfFile == Skipped(255, <<>>, <<>>)

\* Every opcode and every encoding: "k" with an 8-bit -2, then a 14-bit length and 1200
\* milliseconds, a 32-bit length, a 16-bit 258, a 32-bit -1 and 9 seconds.
EveryEncoding ==
  <<Skipped(250, <<>>, <<Short(<<97>>), Short(<<98>>)>>), Skipped(254, <<Size("bits6", 0)>>, <<>>),
    Skipped(251, <<Size("bits6", 2), Size("bits14", 1)>>, <<>>),
    Value(Short(K), [form |-> "int8", text |-> -2]),
    Until(252, <<176, 4, 0, 0, 0, 0, 0, 0>>, Text14(K), Text32(V)),
    Value(Short(V), [form |-> "int16", text |-> 258]),
    Until(253, <<9, 0, 0, 0>>, Short(<<>>), [form |-> "int32", text |-> -1]),
    EndOfFile>>

\* A long value, and a compressed one.
OneCompressed ==
  <<Value(Short(K), Text14([i \in 1 .. 258 |-> 120])),
    Value(Short(V), [form |-> "compressed", text |-> <<1, 1, 0>>]), EndOfFile>>

\* Cut anywhere, and at a few places.
SomeRdbFiles ==
  {[sections |-> EveryEncoding, n |-> n] : n \in 0 .. Len(File(EveryEncoding))} \union
  {[sections |-> OneCompressed, n |-> n] : n \in {12, 13, 100, 272, 275, Len(File(OneCompressed)) - 1}}

\* A value with a length of two digits that looks like a command, and a time to live of a second,
\* in lower case; a value and a time to live that are ints, and an array of nothing and an int, in
\* a command that is not made of bulk strings.
SomeRequests ==
  {encodeRESPArray(<<Str(<<115, 101, 116>>), Str(K),
                     Str(<<Star, 49>> \o CRLF \o <<Dollar, 51>> \o CRLF \o SET),
                     Str(<<101, 120>>), Str(<<49>>)>>),
   <<Star, 54>> \o CRLF \o <<Plus>> \o SET \o CRLF \o Bulk(V) \o <<Colon, 55>> \o CRLF
     \o <<Plus>> \o PX \o CRLF \o <<Colon, 49, 50>> \o CRLF
     \o <<Star, 50>> \o CRLF \o <<Dollar, Minus, 49>> \o CRLF \o <<Colon, 53>> \o CRLF}

\* Before and after the first instants of expiry.
SomeTimes == {0, 1500}

===============================================================================
