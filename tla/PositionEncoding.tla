--------------------------- MODULE PositionEncoding ---------------------------
(***************************************************************************)
(* The fixed layout of a position update (position_encoding.h): names in   *)
(* character arrays, sizes in uint32_t.  A buffer is the record it is read *)
(* and written as.                                                         *)
(***************************************************************************)
EXTENDS Integers, Sequences

CONSTANTS
  Characters,   \* those of a name: any but NUL
  NUL,
  StrategySize, \* sizeof(strategy_id) = 32
  SymbolSize,   \* sizeof(symbol) = 16
  Word          \* 2^32

\* PositionUpdateSBE and SymbolPositionSBE, packed: the array and what follows it.
HeaderSize == StrategySize + 8 + 8 + 4
EntrySize == SymbolSize + 8

MessageSize(position_count) == (HeaderSize + position_count * EntrySize) % Word

\* memset() and strncpy() of at most size - 1 characters.
CharArray(name, size) ==
  [i \in 1 .. size |-> IF i < size /\ i <= Len(name) THEN name[i] ELSE NUL]

strnlen(array, size) ==
  CHOOSE n \in 0 .. size :
    /\ \A i \in 1 .. n : array[i] # NUL
    /\ n < size => array[n + 1] = NUL

StringOf(array, size) == SubSeq(array, 1, strnlen(array, size))

Encode(strategy_id, timestamp, sequence_number, positions) ==
  [strategy_id |-> CharArray(strategy_id, StrategySize),
   timestamp |-> timestamp,
   sequence_number |-> sequence_number,
   position_count |-> Len(positions) % Word,
   positions |-> [i \in 1 .. Len(positions) |->
                    [symbol |-> CharArray(positions[i].symbol, SymbolSize),
                     net_position |-> positions[i].net_position]]]

\* decode() returned false.
Refused == [success |-> FALSE]

\* buffer_size is the payload of the frame, rounded up to whole cache lines.
Decode(message, buffer_size) ==
  IF buffer_size < HeaderSize \/ buffer_size < MessageSize(message.position_count)
  THEN Refused
  ELSE [success |-> TRUE,
        strategy_id |-> StringOf(message.strategy_id, StrategySize),
        timestamp |-> message.timestamp,
        sequence_number |-> message.sequence_number,
        positions |-> [i \in 1 .. message.position_count |->
                         [symbol |-> StringOf(message.positions[i].symbol, SymbolSize),
                          net_position |-> message.positions[i].net_position]]]

-----------------------------------------------------------------------------
\* What is left of a name.
Cut(name, size) == SubSeq(name, 1, IF Len(name) < size THEN Len(name) ELSE size - 1)

\* What the subscriber should get for what the publisher was given.
Carried(strategy_id, timestamp, sequence_number, positions) ==
  [success |-> TRUE,
   strategy_id |-> Cut(strategy_id, StrategySize),
   timestamp |-> timestamp,
   sequence_number |-> sequence_number,
   positions |-> [i \in 1 .. Len(positions) |->
                    [symbol |-> Cut(positions[i].symbol, SymbolSize),
                     net_position |-> positions[i].net_position]]]
=============================================================================
