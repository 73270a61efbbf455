------------------------------ MODULE RegionPath ------------------------------
(***************************************************************************)
(* From an exchange to its shared memory object: the topic's name, and the *)
(* path that getSharedMemoryPath() makes of it.  Names are sequences of    *)
(* characters.                                                             *)
(***************************************************************************)
EXTENDS Integers, Sequences

CONSTANTS
  Characters,
  Dot, Underscore,
  Prefix,         \* "pd_"
  TopicPrefix,    \* "position_update."
  MaxPath         \* 30

WithoutDots(name) == [i \in 1 .. Len(name) |-> IF name[i] = Dot THEN Underscore ELSE name[i]]

\* The first n characters, or all.
Shortened(name, n) == SubSeq(name, 1, IF Len(name) > n THEN n ELSE Len(name))

SharedMemoryPath(topic) == Shortened(WithoutDots(Prefix \o topic), MaxPath)

TopicForExchange(exchange) == TopicPrefix \o exchange

ExchangePath(exchange) == SharedMemoryPath(TopicForExchange(exchange))

\* The names for which an exchange has its path for itself: no dots, and at most 11
\* characters with the constants above.
Distinguished(exchange) ==
  /\ exchange \in Seq(Characters \ {Dot})
  /\ Len(Prefix) + Len(TopicPrefix) + Len(exchange) <= MaxPath
=============================================================================
