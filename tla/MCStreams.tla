------------------------------- MODULE MCStreams ------------------------------
(* Instances of Streams for TLC. *)
EXTENDS Streams

CONSTANTS k1, k2

\* An ID of the clock, and a fixed one that the clock can pass or not have reached.
MixedAdds == {[ms |-> Star, seq |-> Star], [ms |-> 1, seq |-> 0]}

\* A reader of news on both streams that gives up, and one of all of the first stream.
MixedReads == {[keys |-> <<k1, k2>>, from |-> Dollar, timed |-> TRUE],
               [keys |-> <<k1>>, from |-> Zero, timed |-> FALSE]}

===============================================================================
