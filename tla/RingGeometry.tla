---------------------------- MODULE RingGeometry ----------------------------
(***************************************************************************)
(* The arithmetic of one topic's ring buffer (topic_system.cpp).  A        *)
(* position is an absolute count that only grows; the ring maps it to an   *)
(* offset in one of TermCount term buffers.  The unit is one CACHELINE of  *)
(* 64 bytes: write() rounds every frame up to whole cache lines, so every  *)
(* position and every frame length is a multiple of it.                    *)
(***************************************************************************)
EXTENDS Integers

CONSTANTS
  TermLength,   \* term_length_, in cache lines (16384 by default)
  TermCount     \* term_count_ (DEFAULT_TERM_COUNT = 3)

\* The constructor accepts any power of two and reserves one term, so two
\* terms are the least it can work with.
ASSUME GeometryAssumption ==
  /\ TermLength \in Nat \ {0}
  /\ TermCount \in Nat \ {0, 1}

RingSize == TermLength * TermCount

\* total_capacity_: one term is reserved for safety.
TotalCapacity == TermLength * (TermCount - 1)

\* position & (term_length_ - 1), for a power of two.
TermOffset(position) == position % TermLength

TermIndex(position) == (position \div TermLength) % TermCount

\* The cache line of the mapping that holds `position`: its term, then its offset.
Line(position) == TermIndex(position) * TermLength + TermOffset(position)

\* Mutant: a frame one line too long for the term is not padded out.
NeedsPaddingOffByOne(claimed, size) == TermOffset(claimed) + size > TermLength + 1

\* write() pads the term out when the frame does not fit in what is left of it.
NeedsPadding(claimed, size) == TermOffset(claimed) + size > TermLength

\* Mutant: a jump of more than the capacity, with no test for the underflow.
JumpTargetUnguarded(prod) == prod - (TotalCapacity + TotalCapacity \div 2)

\* Where poll() moves the cursor of a subscriber it takes to be overrun.
JumpTarget(prod) ==
  IF prod > TotalCapacity \div 2 THEN prod - TotalCapacity \div 2 ELSE 0
=============================================================================
