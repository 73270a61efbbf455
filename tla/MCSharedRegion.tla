--------------------------- MODULE MCSharedRegion ---------------------------
(***************************************************************************)
(* SharedRegion for TLC, and the paths of regions of at most six           *)
(* characters.                                                             *)
(***************************************************************************)
EXTENDS SharedRegion, SequencesExt

Symmetry == Permutations(Subscribers) \cup Permutations(Objects)

Paths == INSTANCE RegionPath WITH
  Characters <- {"a", ".", "_"}, Dot <- ".", Underscore <- "_",
  Prefix <- <<"a", "_">>, TopicPrefix <- <<"a", ".">>, MaxPath <- 6

Exchanges == SeqOf({"a", ".", "_"}, 3)

\* The theorem ExchangesHaveOwnRegions on these; and its conditions are needed: names
\* with a dot, and names longer than the path leaves room for, have their path in common
\* with others.
ASSUME PathsAssumption ==
  /\ \A e1, e2 \in Exchanges :
       Paths!Distinguished(e1) /\ Paths!Distinguished(e2)
         /\ Paths!ExchangePath(e1) = Paths!ExchangePath(e2) => e1 = e2
  /\ \A e1 \in Exchanges :
       ~Paths!Distinguished(e1) =>
         \E e2 \in Exchanges \ {e1} : Paths!ExchangePath(e1) = Paths!ExchangePath(e2)
=============================================================================
