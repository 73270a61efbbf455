----------------------- MODULE PositionEncodingProofs -----------------------
(***************************************************************************)
(* What decode() makes of encode(), for all names, sizes and counts.       *)
(***************************************************************************)
EXTENDS PositionEncoding, TLAPS

\* strnlen() of what strncpy() left in an array is the length of the cut name.
LEMMA StoredLength ==
  ASSUME NEW name \in Seq(Characters), NEW size \in Nat \ {0}, NUL \notin Characters
  PROVE  strnlen(CharArray(name, size), size)
           = IF Len(name) < size THEN Len(name) ELSE size - 1
<1> DEFINE array == CharArray(name, size)
           length == IF Len(name) < size THEN Len(name) ELSE size - 1
           Fits(n) == /\ \A i \in 1 .. n : array[i] # NUL
                      /\ n < size => array[n + 1] = NUL
<1>1. length \in 0 .. size /\ length < size /\ length <= Len(name)
  OBVIOUS
<1>2. \A i \in 1 .. size : array[i] = IF i < size /\ i <= Len(name) THEN name[i] ELSE NUL
  BY DEF CharArray
<1>3. \A i \in 1 .. Len(name) : name[i] \in Characters
  OBVIOUS
<1>4. Fits(length)
  <2>1. \A i \in 1 .. length : i \in 1 .. size /\ i < size /\ i <= Len(name) /\ i \in 1 .. Len(name)
    BY <1>1
  <2>2. \A i \in 1 .. length : array[i] # NUL
    BY <2>1, <1>2, <1>3
  <2>3. length + 1 \in 1 .. size /\ ~(length + 1 < size /\ length + 1 <= Len(name))
    BY <1>1
  <2>4. array[length + 1] = NUL
    BY <2>3, <1>2
  <2> QED
    BY <2>2, <2>4
<1>5. ASSUME NEW n \in 0 .. size, Fits(n) PROVE n = length
  <2>1. CASE n < length
    <3>1. n + 1 \in 1 .. length /\ n < size
      BY <2>1, <1>1
    <3> QED
      BY <3>1, <1>4, <1>5
  <2>2. CASE length < n
    <3>1. length + 1 \in 1 .. n
      BY <2>2, <1>1
    <3> QED
      BY <3>1, <1>1, <1>4, <1>5
  <2> QED
    BY <2>1, <2>2, <1>1
<1>6. (CHOOSE n \in 0 .. size : Fits(n)) = length
  BY <1>1, <1>4, <1>5
<1> QED
  BY <1>6 DEF strnlen

\* Reading a name back gives its first size - 1 characters.
LEMMA NameCarried ==
  ASSUME NEW name \in Seq(Characters), NEW size \in Nat \ {0}, NUL \notin Characters
  PROVE  StringOf(CharArray(name, size), size) = Cut(name, size)
<1> DEFINE length == IF Len(name) < size THEN Len(name) ELSE size - 1
<1>1. strnlen(CharArray(name, size), size) = length
  BY StoredLength
<1>2. length \in Nat /\ length < size /\ length <= Len(name)
  OBVIOUS
<1>3. \A i \in 1 .. length : CharArray(name, size)[i] = name[i]
  BY <1>2 DEF CharArray
<1>4. SubSeq(CharArray(name, size), 1, length) = [i \in 1 .. length |-> CharArray(name, size)[i]]
  BY <1>2 DEF CharArray
<1>5. SubSeq(name, 1, length) = [i \in 1 .. length |-> name[i]]
  BY <1>2
<1> QED
  BY <1>1, <1>3, <1>4, <1>5 DEF StringOf, Cut

\* A size below 2^32 is not cut.
LEMMA NoWrap ==
  ASSUME NEW n \in Nat, NEW w \in Nat, n < w
  PROVE  n % w = n
OBVIOUS

LEMMA ElementOfSeq ==
  ASSUME NEW S, NEW s \in Seq(S), NEW i \in 1 .. Len(s)
  PROVE  s[i] \in S
OBVIOUS

\* PositionUpdateCodec: a subscriber gets the publisher's strategy, number and positions,
\* names cut to what their arrays hold, from every buffer that is at least as long as
\* calculateBufferSize() says, provided that this size is below 2^32.
THEOREM DecodeInvertsEncode ==
  ASSUME NEW strategy_id \in Seq(Characters), NEW timestamp, NEW sequence_number,
         NEW Values,
         NEW positions \in Seq([symbol : Seq(Characters), net_position : Values]),
         NEW buffer_size \in Nat,
         NUL \notin Characters,
         StrategySize \in Nat \ {0}, SymbolSize \in Nat \ {0}, Word \in Nat,
         HeaderSize + Len(positions) * EntrySize < Word,
         buffer_size >= MessageSize(Len(positions))
  PROVE  Decode(Encode(strategy_id, timestamp, sequence_number, positions), buffer_size)
           = Carried(strategy_id, timestamp, sequence_number, positions)
<1> DEFINE message == Encode(strategy_id, timestamp, sequence_number, positions)
           count == Len(positions)
<1>1. count \in Nat /\ HeaderSize \in Nat /\ EntrySize \in Nat \ {0}
  BY DEF HeaderSize, EntrySize
<1>2. count * EntrySize \in Nat /\ count <= count * EntrySize
  <2>1. \A n \in Nat, k \in Nat \ {0} : n * k \in Nat /\ n <= n * k
    OBVIOUS
  <2> QED
    BY <2>1, <1>1
<1> DEFINE entries == count * EntrySize
<1>2a. entries \in Nat /\ count <= entries /\ HeaderSize + entries < Word
  BY <1>2
<1> HIDE DEF entries
<1>3. count % Word = count
  <2>1. count < Word
    BY <1>1, <1>2a
  <2> HIDE DEF count
  <2> QED
    BY <1>1, <2>1, NoWrap
<1>4. MessageSize(count) = HeaderSize + entries
  <2>1. MessageSize(count) = (HeaderSize + entries) % Word
    BY DEF MessageSize, entries
  <2>2. HeaderSize + entries \in Nat
    BY <1>1, <1>2a
  <2> QED
    BY <1>2a, <2>1, <2>2, NoWrap
<1>5. message.position_count = count
  BY <1>3 DEF Encode
<1>6. ~(buffer_size < HeaderSize \/ buffer_size < MessageSize(message.position_count))
  BY <1>1, <1>4, <1>5, <1>2a
<1>7. StringOf(message.strategy_id, StrategySize) = Cut(strategy_id, StrategySize)
  BY NameCarried DEF Encode
<1>8. ASSUME NEW i \in 1 .. count
      PROVE  /\ StringOf(message.positions[i].symbol, SymbolSize) = Cut(positions[i].symbol, SymbolSize)
             /\ message.positions[i].net_position = positions[i].net_position
  <2>1. positions[i] \in [symbol : Seq(Characters), net_position : Values]
    BY <1>8, ElementOfSeq
  <2>2. message.positions[i] = [symbol |-> CharArray(positions[i].symbol, SymbolSize),
                                net_position |-> positions[i].net_position]
    BY <1>8 DEF Encode
  <2> QED
    BY <2>1, <2>2, NameCarried
<1>9. [i \in 1 .. message.position_count |->
         [symbol |-> StringOf(message.positions[i].symbol, SymbolSize),
          net_position |-> message.positions[i].net_position]]
        = [i \in 1 .. count |->
             [symbol |-> Cut(positions[i].symbol, SymbolSize),
              net_position |-> positions[i].net_position]]
  BY <1>5, <1>8
<1>10. message.timestamp = timestamp /\ message.sequence_number = sequence_number
  BY DEF Encode
<1> HIDE DEF message, count
<1> QED
  BY <1>6, <1>7, <1>9, <1>10 DEF Decode, Carried, message, count
=============================================================================
