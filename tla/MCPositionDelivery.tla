------------------------- MODULE MCPositionDelivery -------------------------
(***************************************************************************)
(* PositionDelivery with a short log, and the codec between publisher and  *)
(* subscriber on arrays of two and three characters.                       *)
(***************************************************************************)
EXTENDS PositionDelivery, SequencesExt

Symmetry == Permutations(PubThreads)

Letters == {"a", "b"}

Codec == INSTANCE PositionEncoding WITH
  Characters <- Letters, NUL <- "0", StrategySize <- 3, SymbolSize <- 2, Word <- 64

Names == SeqOf(Letters, 4)
Updates == SeqOf([symbol : SeqOf(Letters, 2), net_position : {0, 1}], 2)

\* The theorem DecodeInvertsEncode on these; one byte less is refused.
ASSUME CodecAssumption ==
  /\ \A name \in Names, positions \in Updates :
       LET size == Codec!MessageSize(Len(positions))
       IN /\ size = Codec!HeaderSize + Len(positions) * Codec!EntrySize
          /\ \A room \in {size, size + 20} :
               Codec!Decode(Codec!Encode(name, 0, 1, positions), room)
                 = Codec!Carried(name, 0, 1, positions)
          /\ Codec!Decode(Codec!Encode(name, 0, 1, positions), size - 1) = Codec!Refused
=============================================================================
