--------------------------- MODULE RingFramesProofs ---------------------------
(***************************************************************************)
(* Theorems about RingFrames: for any frame sizes, the types and that the  *)
(* ring is that of RingPositions, with its theorems; and, for messages of  *)
(* one size that divides the term (OneFrameSize), on any ring and with any *)
(* number of subscribers, what back-pressure and the storing of the length *)
(* promise.  With mixed sizes, or after the first lap, some of it is false *)
(* (runs frames_second_lap and frames_padding).                            *)
(***************************************************************************)
EXTENDS RingFrames, RingPositionsProofs, FiniteSetTheorems

-----------------------------------------------------------------------------
(***************************************************************************)
(* Arithmetic of positions and cache lines, and the types of the frames.   *)
(***************************************************************************)
LEMMA TimesMonotone ==
  ASSUME NEW a \in Nat, NEW b \in Nat, NEW c \in Nat, a <= b
  PROVE  a * c \in Nat /\ b * c \in Nat /\ a * c <= b * c
<1>1. PICK d \in Nat : b = a + d
  <2>1. b - a \in Nat /\ b = a + (b - a)
    OBVIOUS
  <2> QED
    BY <2>1
<1>2. a * c \in Nat /\ d * c \in Nat
  OBVIOUS
<1>3. (a + d) * c = a * c + d * c
  OBVIOUS
<1> QED
  BY <1>1, <1>2, <1>3

\* A position is its lap and a cache line of the mapping.
LEMMA LineOfPosition ==
  ASSUME NEW c \in Nat
  PROVE  /\ Line(c) \in Lines /\ Line(c) \in Nat
         /\ TermOffset(c) \in 0 .. TermLength - 1
         /\ \E lap \in Nat : c = RingSize * lap + Line(c)
<1> DEFINE term == c \div TermLength
           lap == term \div TermCount
           index == TermIndex(c)
           offset == TermOffset(c)
<1>1. TermLength \in Nat \ {0} /\ TermCount \in Nat \ {0}
  BY GeometryAssumption
<1>2. /\ c = TermLength * term + offset
      /\ term \in Nat /\ offset \in 0 .. TermLength - 1
  BY <1>1, QuotientRemainder DEF TermOffset
<1>3. /\ term = TermCount * lap + index
      /\ lap \in Nat /\ index \in 0 .. TermCount - 1
  <2> HIDE DEF term
  <2> QED
    BY <1>1, <1>2, QuotientRemainder DEF TermIndex, term
<1>4. Line(c) = index * TermLength + offset
  BY DEF Line
<1> HIDE DEF term, lap, index, offset
<1>5. TermLength * (TermCount * lap + index) = (TermLength * TermCount) * lap + index * TermLength
  <2>1. TermLength * (TermCount * lap + index) = TermLength * (TermCount * lap) + TermLength * index
    BY <1>1, <1>3
  <2>2. TermLength * (TermCount * lap) = (TermLength * TermCount) * lap
    BY <1>1, <1>3
  <2>3. TermLength * index = index * TermLength
    BY <1>1, <1>3
  <2> QED
    BY <2>1, <2>2, <2>3
<1>6. c = RingSize * lap + Line(c)
  <2>1. /\ RingSize * lap \in Nat /\ index * TermLength \in Nat /\ offset \in Nat
        /\ index \in Nat
    BY <1>1, <1>2, <1>3 DEF RingSize
  <2>2. c = (RingSize * lap + index * TermLength) + offset
    BY <1>2, <1>3, <1>5 DEF RingSize
  <2> QED
    BY <1>4, <2>1, <2>2
<1>7. Line(c) \in Lines /\ Line(c) \in Nat
  <2>1. /\ index \in Nat /\ TermCount - 1 \in Nat /\ index <= TermCount - 1
    BY <1>1, <1>3
  <2>2. index * TermLength \in Nat /\ index * TermLength <= (TermCount - 1) * TermLength
    BY <1>1, <2>1, TimesMonotone
  <2>3. (TermCount - 1) * TermLength = RingSize - TermLength /\ RingSize \in Nat
    BY <1>1 DEF RingSize
  <2> QED
    BY <1>1, <1>2, <1>4, <2>2, <2>3 DEF Lines
<1> QED
  BY <1>2, <1>3, <1>6, <1>7 DEF offset

-----------------------------------------------------------------------------
TypesInv == FramesTypeOK /\ SlotsHeld /\ log \in Seq(Nat)

Contents ==
  [length : (0 .. TermLength) \cup {AnyLength}, kind : Kinds, message : Nat, at : Nat \cup {-1}]

Finds ==
  [state : {"none", "found", "handled"}, length : 0 .. MaxLength, kind : Kinds, at : Nat \cup {-1}]

\* A line that is read holds a length no longer than a poll can find.
LEMMA LengthsBound ==
  /\ 0 \in 0 .. TermLength /\ 0 \in 0 .. MaxLength
  /\ 0 .. TermLength \subseteq 0 .. MaxLength
BY GeometryAssumption, PositionsAssumption

\* The memory starts zeroed: no line has a length or a type.
LEMMA FramesTypesInit == FramesInit => TypesInv
<1> SUFFICES ASSUME FramesInit PROVE TypesInv
  OBVIOUS
<1>1. TypeOK /\ SlotsHeld
  BY InitTypes DEF FramesInit
<1>2. 0 \in 0 .. TermLength /\ 0 \in 0 .. MaxLength
  BY LengthsBound
<1>3. Blank \in Contents /\ NotReading \in Finds
  BY <1>2 DEF Blank, NotReading, Contents, Finds, Kinds
<1>4. mem \in [Lines -> Contents] /\ reading \in [Processes -> Finds]
  BY <1>3 DEF FramesInit
<1>5. log = << >> /\ log \in Seq(Nat)
  BY DEF FramesInit
<1> QED
  BY <1>1, <1>4, <1>5 DEF FramesInit, TypesInv, FramesTypeOK, Contents, Finds

\* A step of the positions alone.
LEMMA SameFramesTypes ==
  ASSUME TypesInv, TypeOK', SlotsHeld', UNCHANGED frames
  PROVE  TypesInv'
BY DEF TypesInv, FramesTypeOK, frames

\* What RingPositionsProofs shows of a step of the positions.
LEMMA PositionStepTypes ==
  ASSUME TypesInv, [Next]_vars PROVE TypeOK' /\ SlotsHeld'
BY TypesStep, SlotsHeldStep DEF TypesInv, FramesTypeOK

\* Storing the fields of a line one after another.
LEMMA FieldsStored ==
  ASSUME mem \in [Lines -> Contents], NEW l \in Lines
  PROVE  /\ \A k \in Kinds : [mem EXCEPT ![l].kind = k] \in [Lines -> Contents]
         /\ \A n \in 0 .. TermLength, c \in Nat :
              [mem EXCEPT ![l].length = n, ![l].at = c] \in [Lines -> Contents]
<1>1. mem[l] \in Contents
  OBVIOUS
<1>2. ASSUME NEW k \in Kinds PROVE [mem EXCEPT ![l].kind = k] \in [Lines -> Contents]
  <2> DEFINE new == [mem[l] EXCEPT !.kind = k]
  <2>1. new \in Contents
    BY <1>1 DEF Contents
  <2>2. [mem EXCEPT ![l].kind = k] = [mem EXCEPT ![l] = new]
    OBVIOUS
  <2> HIDE DEF new
  <2> QED
    BY <2>1, <2>2
<1>3. ASSUME NEW n \in 0 .. TermLength, NEW c \in Nat
      PROVE  [mem EXCEPT ![l].length = n, ![l].at = c] \in [Lines -> Contents]
  <2> DEFINE once == [mem[l] EXCEPT !.length = n]
             new == [once EXCEPT !.at = c]
             middle == [mem EXCEPT ![l] = once]
  <2>1. once \in Contents /\ new \in Contents
    BY <1>1 DEF Contents
  <2>2. [mem EXCEPT ![l].length = n, ![l].at = c] = [middle EXCEPT ![l].at = c]
    OBVIOUS
  <2> HIDE DEF once
  <2>3. middle \in [Lines -> Contents] /\ middle[l] = once
    BY <2>1
  <2>4. [middle EXCEPT ![l].at = c] = [middle EXCEPT ![l] = new]
    BY <2>3
  <2> HIDE DEF middle, new
  <2> QED
    BY <2>1, <2>2, <2>3, <2>4
<1> QED
  BY <1>2, <1>3

\* write() keeps the types.
LEMMA WriteFrameTypes ==
  ASSUME TypesInv, WriteFrame
  PROVE  TypesInv'
<1>1. /\ claimed \in Nat /\ producer_pos \in Nat /\ size \in 0 .. TermLength /\ phase = phase
      /\ mem \in [Lines -> Contents] /\ log \in Seq(Nat) /\ reading \in [Processes -> Finds]
      /\ last \in [Processes -> Nat]
  BY DEF TypesInv, FramesTypeOK, TypeOK, Contents, Finds
<1>2. Line(claimed) \in Lines /\ TermOffset(claimed) \in 0 .. TermLength - 1
  BY <1>1, LineOfPosition
<1>3. ASSUME TypeOK', SlotsHeld', mem' \in [Lines -> Contents], log' \in Seq(Nat),
             UNCHANGED <<reading, last>>,
             phase' \in {"start", "pad", "padded", "typed", "copied"}
      PROVE  TypesInv'
  BY <1>3 DEF TypesInv, FramesTypeOK, Contents
<1>4. CASE StartWrite
  <2>1. Write
    BY <1>4 DEF StartWrite, Write
  <2> QED
    BY <1>4, <2>1, PositionStepTypes, SameFramesTypes DEF StartWrite, Next
<1>5. ASSUME UNCHANGED vars PROVE TypeOK' /\ SlotsHeld'
  BY <1>5, PositionStepTypes
<1>6. CASE Claim
  <2>1. TypeOK' /\ SlotsHeld'
    BY <1>6, PositionStepTypes DEF Claim, Next, Write
  <2>2. log' \in Seq(Nat) /\ UNCHANGED <<mem, phase, reading, last>>
    BY <1>1, <1>6 DEF Claim
  <2> QED
    BY <1>1, <1>3, <2>1, <2>2 DEF TypesInv, FramesTypeOK
<1>7. CASE PadType \/ FrameType
  <2>1. mem' \in [Lines -> Contents]
    <3>1. "padding" \in Kinds /\ "data" \in Kinds
      BY DEF Kinds
    <3>2. \/ mem' = [mem EXCEPT ![Line(claimed)].kind = "padding"]
          \/ mem' = [mem EXCEPT ![Line(claimed)].kind = "data"]
      BY <1>7 DEF PadType, FrameType
    <3>3. ASSUME NEW k \in Kinds, mem' = [mem EXCEPT ![Line(claimed)].kind = k]
          PROVE  mem' \in [Lines -> Contents]
      <4>1. [mem EXCEPT ![Line(claimed)].kind = k] \in [Lines -> Contents]
        BY <1>1, <1>2, FieldsStored
      <4> QED
        BY <3>3, <4>1
    <3> QED
      BY <3>1, <3>2, <3>3
  <2> QED
    BY <1>1, <1>3, <1>5, <1>7, <2>1 DEF PadType, FrameType
<1>8. CASE PadFrame
  <2>1. TermLength - TermOffset(claimed) \in 0 .. TermLength
    BY <1>2, GeometryAssumption
  <2>2. mem' \in [Lines -> Contents]
    BY <1>1, <1>2, <1>8, <2>1, FieldsStored DEF PadFrame
  <2> QED
    BY <1>1, <1>3, <1>5, <1>8, <2>2 DEF PadFrame
<1>9. CASE ClaimAgain
  <2>1. TypeOK' /\ SlotsHeld'
    BY <1>9, PositionStepTypes DEF ClaimAgain, Next, Write
  <2>2. log' \in Seq(Nat)
    BY <1>1, <1>9 DEF ClaimAgain
  <2> QED
    BY <1>1, <1>3, <1>9, <2>1, <2>2 DEF ClaimAgain
<1>10. CASE FramePayload
  <2>1. Len(log) \in Nat /\ Payload \in Contents
    BY <1>1 DEF Payload, Contents, Kinds
  <2>2. ASSUME NEW l \in Lines
        PROVE  mem[l] \in Contents /\ [mem[l] EXCEPT !.message = Len(log)] \in Contents
    BY <1>1, <2>1 DEF Contents
  <2>3. mem' \in [Lines -> Contents]
    <3> DEFINE new(l) == CASE l = Line(claimed) -> [mem[l] EXCEPT !.message = Len(log)]
                           [] l - Line(claimed) \in 1 .. size - 1 -> Payload
                           [] OTHER -> mem[l]
    <3>1. mem' = [l \in Lines |-> new(l)]
      BY <1>10 DEF FramePayload
    <3>2. ASSUME NEW l \in Lines PROVE new(l) \in Contents
      BY <2>1, <2>2, Zenon
    <3> HIDE DEF new
    <3> QED
      BY <3>1, <3>2
  <2> QED
    BY <1>1, <1>3, <1>5, <1>10, <2>3 DEF FramePayload
<1>11. CASE Commit
  <2>1. TypeOK' /\ SlotsHeld'
    BY <1>11, PositionStepTypes DEF Commit, Next, Write
  <2>2. mem' \in [Lines -> Contents]
    BY <1>1, <1>2, <1>11, FieldsStored DEF Commit
  <2> QED
    BY <1>1, <1>3, <1>11, <2>1, <2>2 DEF Commit
<1> QED
  BY <1>4, <1>6, <1>7, <1>8, <1>9, <1>10, <1>11 DEF WriteFrame

\* poll() may advance by any length that was read.
LEMMA AdvanceTypes ==
  ASSUME TypeOK, SlotsHeld, NEW p \in Processes, NEW length \in Nat, NEW is_data \in BOOLEAN,
         PollAdvance(p, length, is_data)
  PROVE  TypeOK' /\ SlotsHeld'
<1> USE PositionsAssumption, AgentsLemma DEF header, slots, locals, vars, At
<1>1. "ready" \in ProcessLabels
  BY DEF ProcessLabels, ShownLabels
<1>2. seen_cursor[p] + length \in Nat
  BY DEF TypeOK
<1>3. last_heartbeat' \in [Slots -> Heartbeats]
  BY DEF PollAdvance, TypeOK, Heartbeats
<1>4. TypeOK'
  BY <1>1, <1>2, <1>3, GotoTypes DEF PollAdvance, TypeOK
<1>5. /\ slot' = slot /\ pc[p] = "frame" /\ pc'[p] = "ready"
      /\ \A q \in Processes \ {p} : pc'[q] = pc[q]
  BY DEF PollAdvance, TypeOK, Goto
<1>6. SlotsHeld'
  <2>1. slot[p] # NoSlot
    BY <1>5 DEF SlotsHeld, Holding, ShownLabels
  <2> QED
    BY <1>5, <2>1 DEF SlotsHeld, Holding
<1> QED
  BY <1>4, <1>6

\* poll() keeps the types, whatever it reads.
LEMMA ReadTypes ==
  ASSUME TypesInv, NEW p \in Processes, Read(p)
  PROVE  TypesInv'
<1>1. /\ TypeOK /\ SlotsHeld
      /\ mem \in [Lines -> Contents] /\ reading \in [Processes -> Finds]
      /\ seen_cursor[p] \in Nat
  BY DEF TypesInv, FramesTypeOK, TypeOK, Contents, Finds
<1>2. Header(p) \in Contents
  BY <1>1, LineOfPosition DEF Header
<1>3. CASE StartPoll(p) \/ FindNothing(p)
  <2>1. Subscriber(p)
    BY <1>3 DEF StartPoll, FindNothing, Subscriber, Poll
  <2> QED
    BY <1>3, <2>1, PositionStepTypes, SameFramesTypes DEF StartPoll, FindNothing, Next
<1>4. CASE FindFrame(p)
  <2>1. PICK length \in LengthsAt(Header(p)), kind \in KindsAt(Header(p)) :
          reading' = [reading EXCEPT ![p] =
            [state |-> "found", length |-> length, kind |-> kind, at |-> Header(p).at]]
    BY <1>4 DEF FindFrame
  <2>2. length \in 0 .. MaxLength /\ kind \in Kinds /\ Header(p).at \in Nat \cup {-1}
    BY <1>2, LengthsBound DEF LengthsAt, KindsAt, Kinds, Contents
  <2>3. reading' \in [Processes -> Finds]
    BY <1>1, <2>1, <2>2 DEF Finds
  <2>4. TypeOK' /\ SlotsHeld'
    BY <1>4, PositionStepTypes DEF FindFrame
  <2> QED
    BY <1>4, <2>3, <2>4 DEF FindFrame, TypesInv, FramesTypeOK, Finds
<1>5. CASE Handle(p)
  <2>1. reading' = [reading EXCEPT ![p] = [reading[p] EXCEPT !.state = "handled"]]
    BY <1>5 DEF Handle
  <2>2. [reading[p] EXCEPT !.state = "handled"] \in Finds
    BY <1>1 DEF Finds
  <2>3. reading' \in [Processes -> Finds]
    BY <1>1, <2>1, <2>2
  <2>4. last' \in [Processes -> Nat]
    BY <1>2, <1>5 DEF Handle, TypesInv, FramesTypeOK, Contents
  <2>5. TypeOK' /\ SlotsHeld'
    BY <1>5, PositionStepTypes DEF Handle
  <2> QED
    BY <1>5, <2>3, <2>4, <2>5 DEF Handle, TypesInv, FramesTypeOK, Finds
<1>6. CASE SkipPadding(p) \/ Advance(p)
  <2>1. reading[p].length \in Nat
    BY <1>1, PositionsAssumption DEF Finds
  <2>2. TypeOK' /\ SlotsHeld'
    BY <1>1, <1>6, <2>1, AdvanceTypes DEF SkipPadding, Advance
  <2>3. NotReading \in Finds
    BY LengthsBound DEF NotReading, Finds, Kinds
  <2>4. reading' \in [Processes -> Finds]
    BY <1>1, <1>6, <2>3 DEF SkipPadding, Advance
  <2> QED
    BY <1>6, <2>2, <2>4 DEF SkipPadding, Advance, TypesInv, FramesTypeOK, Finds
<1> QED
  BY <1>3, <1>4, <1>5, <1>6 DEF Read

\* Every step keeps the types.
LEMMA FramesTypesStep == TypesInv /\ [FramesNext]_<<vars, frames>> => TypesInv'
<1> SUFFICES ASSUME TypesInv, [FramesNext]_<<vars, frames>> PROVE TypesInv'
  OBVIOUS
<1>1. ASSUME NEW p \in Processes, Attach(p) PROVE TypesInv'
  <2>1. Subscriber(p) /\ UNCHANGED frames
    BY <1>1 DEF Attach, Subscriber
  <2> QED
    BY <2>1, PositionStepTypes, SameFramesTypes DEF Next
<1>2. CASE UNCHANGED <<vars, frames>>
  BY <1>2, PositionStepTypes, SameFramesTypes
<1> QED
  BY <1>1, <1>2, WriteFrameTypes, ReadTypes DEF FramesNext

\* Every field of the frames in memory keeps its type, frames of any sizes mixed, and
\* whatever bytes a poll takes for a header.
THEOREM FramesTypesOK == FramesSpec => []FramesTypeOK
<1>1. TypesInv => FramesTypeOK
  BY DEF TypesInv
<1> QED
  BY <1>1, FramesTypesInit, FramesTypesStep, PTL DEF FramesSpec

-----------------------------------------------------------------------------
(***************************************************************************)
(* Frames of any sizes: the ring is that of RingPositions.                 *)
(***************************************************************************)
\* A frame was found where a length was.
FoundHasLength ==
  \A p \in Processes : reading[p].state # "none" => reading[p].length # 0

\* A poll passes over a line without a length.
LEMMA FoundHasLengthStep ==
  ASSUME TypesInv, FoundHasLength, [FramesNext]_<<vars, frames>>
  PROVE  FoundHasLength'
<1>1. reading \in [Processes -> Finds]
  BY DEF TypesInv, FramesTypeOK, Finds
<1>2. CASE reading' = reading
  BY <1>2 DEF FoundHasLength
<1>3. CASE WriteFrame \/ UNCHANGED <<vars, frames>>
  BY <1>2, <1>3
  DEF WriteFrame, StartWrite, Claim, PadType, PadFrame, ClaimAgain, FrameType, FramePayload,
      Commit, frames
<1>4. ASSUME NEW p \in Processes, Read(p) \/ Attach(p) PROVE FoundHasLength'
  <2>1. CASE FindFrame(p)
    <3>1. PICK length \in LengthsAt(Header(p)) \ {0}, kind \in KindsAt(Header(p)) :
            reading' = [reading EXCEPT ![p] =
              [state |-> "found", length |-> length, kind |-> kind, at |-> Header(p).at]]
      BY <2>1 DEF FindFrame
    <3> QED
      BY <1>1, <3>1 DEF FoundHasLength
  <2>2. CASE Handle(p)
    <3>1. /\ reading' = [reading EXCEPT ![p] = [reading[p] EXCEPT !.state = "handled"]]
          /\ reading[p].state # "none"
      BY <2>2 DEF Handle, Found
    <3>2. [reading[p] EXCEPT !.state = "handled"].length = reading[p].length
      BY <1>1 DEF Finds
    <3> QED
      BY <1>1, <3>1, <3>2 DEF FoundHasLength
  <2>3. CASE SkipPadding(p) \/ Advance(p)
    <3>1. reading' = [reading EXCEPT ![p] = NotReading]
      BY <2>3 DEF SkipPadding, Advance
    <3>2. NotReading.state = "none"
      BY DEF NotReading
    <3> QED
      BY <1>1, <3>1, <3>2 DEF FoundHasLength
  <2>4. CASE StartPoll(p) \/ FindNothing(p) \/ Attach(p)
    BY <1>2, <2>4 DEF StartPoll, FindNothing, Attach, frames
  <2> QED
    BY <1>4, <2>1, <2>2, <2>3, <2>4 DEF Read
<1> QED
  BY <1>3, <1>4 DEF FramesNext

\* Every step is a step of RingPositions, or leaves the positions alone.
LEMMA StepMaps ==
  ASSUME TypesInv, FoundHasLength, [FramesNext]_<<vars, frames>>
  PROVE  [Next]_vars
<1>1. CASE WriteFrame
  <2>1. CASE StartWrite
    BY <2>1 DEF StartWrite, Next, Write
  <2>2. CASE Claim \/ ClaimAgain \/ Commit
    BY <2>2 DEF Claim, ClaimAgain, Commit, Next, Write
  <2>3. CASE PadType \/ PadFrame \/ FrameType \/ FramePayload
    BY <2>3 DEF PadType, PadFrame, FrameType, FramePayload
  <2> QED
    BY <1>1, <2>1, <2>2, <2>3 DEF WriteFrame
<1>2. ASSUME NEW p \in Processes, Read(p) PROVE [Next]_vars
  <2>1. CASE StartPoll(p) \/ FindNothing(p)
    BY <2>1 DEF StartPoll, FindNothing, Next, Subscriber, Poll
  <2>2. CASE FindFrame(p) \/ Handle(p)
    BY <2>2 DEF FindFrame, Handle
  <2>3. CASE SkipPadding(p) \/ Advance(p)
    <3>1. reading[p].state # "none"
      BY <2>3 DEF SkipPadding, Advance, Found
    <3>2. reading[p].length \in 1 .. MaxLength
      BY <3>1, PositionsAssumption DEF FoundHasLength, TypesInv, FramesTypeOK
    <3>3. PollFrame(p)
      BY <2>3, <3>2 DEF SkipPadding, Advance, PollFrame
    <3> QED
      BY <3>3 DEF Next, Subscriber, Poll
  <2> QED
    BY <1>2, <2>1, <2>2, <2>3 DEF Read
<1>3. ASSUME NEW p \in Processes, Attach(p) PROVE [Next]_vars
  BY <1>3 DEF Attach, Next, Subscriber
<1> QED
  BY <1>1, <1>2, <1>3 DEF FramesNext

\* What poll() and write() do to the frames in memory, mixed sizes, padding and
\* stale lengths included, are steps of RingPositions: its theorems hold of the
\* ring with its memory.
THEOREM FramesKeepPositions == FramesSpec => Spec
<1>1. FramesInit => Init /\ TypesInv /\ FoundHasLength
  BY FramesTypesInit DEF FramesInit, FoundHasLength, NotReading
<1>2. TypesInv /\ FoundHasLength /\ [FramesNext]_<<vars, frames>>
        => TypesInv' /\ FoundHasLength' /\ [Next]_vars
  BY FramesTypesStep, FoundHasLengthStep, StepMaps
<1> QED
  BY <1>1, <1>2, PTL DEF FramesSpec, Spec

\* So minOfAllSubscribers() and producerCanWrite() keep their promises on the ring
\* with its memory, for any frame sizes (CachedMinIsSafe and NoOverwriteUnread).
THEOREM FramesBackPressure == FramesSpec => [](CachedMinIsSafe /\ NoOverwriteUnread)
BY FramesKeepPositions, CachedMinSafe, NoUnreadOverwritten, PTL

-----------------------------------------------------------------------------
(***************************************************************************)
(* Messages of one size: the frames lie at its multiples.                  *)
(***************************************************************************)
\* Messages of one size that divides the term: what fits in a term takes n lines.
OneSize(n) ==
  /\ n \in Nat \ {0}
  /\ \E k \in Nat : TermLength = n * k
  /\ \A m \in FrameSizes : m <= TermLength => m = n

OneFrameSize == \E n \in Nat \ {0} : OneSize(n)

Multiple(n, c) == \E j \in Nat : c = n * j

\* The position after a frame of size n.
LEMMA MultipleNext ==
  ASSUME NEW n \in Nat \ {0}, NEW c, Multiple(n, c)
  PROVE  c \in Nat /\ Multiple(n, c + n)
<1>1. PICK j \in Nat : c = n * j
  BY DEF Multiple
<1>2. n * (j + 1) = n * j + n /\ n * j \in Nat /\ j + 1 \in Nat
  OBVIOUS
<1>3. c + n = n * (j + 1)
  BY <1>1, <1>2
<1> QED
  BY <1>1, <1>2, <1>3 DEF Multiple

\* Two multiples are at least n apart.
LEMMA MultipleApart ==
  ASSUME NEW n \in Nat \ {0}, NEW c, NEW d, Multiple(n, c), Multiple(n, d), c < d
  PROVE  c + n <= d
<1>1. PICK i \in Nat, j \in Nat : c = n * i /\ d = n * j
  BY DEF Multiple
<1>2. i + 1 <= j
  <2>1. CASE j <= i
    <3>1. j * n <= i * n /\ j * n = n * j /\ i * n = n * i
      BY <2>1, TimesMonotone
    <3> QED
      BY <1>1, <3>1
  <2> QED
    BY <2>1
<1>3. (i + 1) * n <= j * n /\ (i + 1) * n = n * i + n /\ j * n = n * j
  BY <1>2, TimesMonotone
<1> QED
  BY <1>1, <1>3

\* The difference of two multiples is one.
LEMMA MultipleRest ==
  ASSUME NEW n \in Nat \ {0}, NEW a, NEW b \in Nat, Multiple(n, a), Multiple(n, a + b)
  PROVE  Multiple(n, b)
<1>1. PICK i \in Nat, j \in Nat : a = n * i /\ a + b = n * j
  BY DEF Multiple
<1>2. i <= j
  <2>1. CASE j < i
    <3>1. n * j + n <= n * i
      <4>1. Multiple(n, n * j) /\ Multiple(n, n * i)
        BY DEF Multiple
      <4>2. (j + 1) * n <= i * n /\ (j + 1) * n = n * j + n /\ i * n = n * i
        BY <2>1, TimesMonotone
      <4> QED
        BY <4>2
    <3>2. n * i \in Nat /\ n * j \in Nat
      OBVIOUS
    <3> QED
      BY <1>1, <3>1, <3>2
  <2> QED
    BY <2>1
<1>3. PICK d \in Nat : j = i + d
  <2>1. j - i \in Nat /\ j = i + (j - i)
    BY <1>2
  <2> QED
    BY <2>1
<1>4. n * (i + d) = n * i + n * d /\ n * d \in Nat /\ n * i \in Nat
  OBVIOUS
<1>5. b = n * d
  BY <1>1, <1>3, <1>4
<1> QED
  BY <1>5 DEF Multiple

\* A number of frames, taken several times.
LEMMA MultipleOfMultiple ==
  ASSUME NEW n \in Nat \ {0}, NEW a, Multiple(n, a), NEW q \in Nat
  PROVE  Multiple(n, a * q)
<1>1. PICK i \in Nat : a = n * i
  BY DEF Multiple
<1>2. (n * i) * q = n * (i * q) /\ i * q \in Nat
  OBVIOUS
<1> QED
  BY <1>1, <1>2 DEF Multiple

\* A frame that starts at a multiple of its size stays in its term and in its lines.
LEMMA AlignedFrame ==
  ASSUME NEW n, OneSize(n), NEW c, Multiple(n, c)
  PROVE  /\ n \in 1 .. TermLength
         /\ TermOffset(c) + n <= TermLength
         /\ Multiple(n, Line(c)) /\ Line(c) \in Lines
<1>1. n \in Nat \ {0} /\ c \in Nat /\ TermLength \in Nat \ {0}
  BY MultipleNext, GeometryAssumption DEF OneSize
<1>2. Multiple(n, TermLength) /\ Multiple(n, 0)
  <2>1. n * 0 = 0
    BY <1>1
  <2> QED
    BY <2>1 DEF OneSize, Multiple
<1>3. n \in 1 .. TermLength
  <2>1. 0 + n <= TermLength
    <3>1. 0 < TermLength
      BY <1>1
    <3> HIDE DEF Multiple
    <3> QED
      BY <1>1, <1>2, <3>1, MultipleApart
  <2> QED
    BY <1>1, <2>1
<1>4. Multiple(n, TermOffset(c))
  <2> DEFINE q == c \div TermLength
  <2>1. c = TermLength * q + TermOffset(c) /\ q \in Nat /\ TermOffset(c) \in Nat
    <3>1. /\ c = TermLength * (c \div TermLength) + (c % TermLength)
          /\ c \div TermLength \in Nat /\ c % TermLength \in 0 .. TermLength - 1
      BY <1>1, QuotientRemainder
    <3> QED
      BY <1>1, <3>1 DEF TermOffset
  <2> HIDE DEF q
  <2>2. Multiple(n, TermLength * q)
    BY <1>1, <1>2, <2>1, MultipleOfMultiple
  <2> QED
    BY <1>1, <2>1, <2>2, MultipleRest
<1>5. TermOffset(c) + n <= TermLength
  <2>1. TermOffset(c) < TermLength
    BY <1>1, LineOfPosition
  <2> QED
    BY <1>1, <1>2, <1>4, <2>1, MultipleApart
<1>6. Multiple(n, Line(c)) /\ Line(c) \in Lines
  <2>1. PICK lap \in Nat : c = RingSize * lap + Line(c)
    BY <1>1, LineOfPosition
  <2>2. Multiple(n, RingSize)
    BY <1>1, <1>2, GeometryAssumption, MultipleOfMultiple DEF RingSize
  <2>3. Multiple(n, RingSize * lap)
    BY <1>1, <2>2, MultipleOfMultiple
  <2>4. Line(c) \in Nat /\ Line(c) \in Lines
    BY <1>1, LineOfPosition
  <2> QED
    BY <1>1, <2>1, <2>3, <2>4, MultipleRest
<1> QED
  BY <1>3, <1>5, <1>6

\* The ring is not empty.
LEMMA RingSizeType == RingSize \in Nat /\ RingSize > 0
<1>1. TotalCapacity \in Nat /\ RingSize = TotalCapacity + TermLength /\ TermLength \in Nat \ {0}
  BY CapacityLemma, GeometryAssumption
<1> QED
  BY <1>1

\* Two positions less than the ring apart are in different lines.
LEMMA LinesApart ==
  ASSUME NEW c \in Nat, NEW d \in Nat, c < d, d < c + RingSize
  PROVE  Line(c) # Line(d)
<1> SUFFICES ASSUME Line(c) = Line(d) PROVE FALSE
  OBVIOUS
<1>1. PICK a \in Nat, b \in Nat : c = RingSize * a + Line(c) /\ d = RingSize * b + Line(c)
  BY LineOfPosition
<1>2. Line(c) \in Nat
  BY LineOfPosition
<1>3. RingSize \in Nat
  BY RingSizeType
<1>4. CASE b <= a
  <2>1. b * RingSize <= a * RingSize /\ b * RingSize = RingSize * b /\ a * RingSize = RingSize * a
    BY <1>3, <1>4, TimesMonotone
  <2>2. RingSize * a \in Nat /\ RingSize * b \in Nat
    BY <1>3
  <2> QED
    BY <1>1, <1>2, <2>1, <2>2
<1>5. CASE a + 1 <= b
  <2>1. /\ (a + 1) * RingSize <= b * RingSize
        /\ (a + 1) * RingSize = RingSize * a + RingSize /\ b * RingSize = RingSize * b
    BY <1>3, <1>5, TimesMonotone
  <2>2. RingSize * a \in Nat /\ RingSize * b \in Nat
    BY <1>3
  <2> QED
    BY <1>1, <1>2, <1>3, <2>1, <2>2
<1> QED
  BY <1>4, <1>5

\* On the first lap a position is its own line.
LEMMA FirstLapLine ==
  ASSUME NEW c \in Nat, c < RingSize
  PROVE  Line(c) = c
<1>1. PICK a \in Nat : c = RingSize * a + Line(c)
  BY LineOfPosition
<1>2. Line(c) \in Nat /\ RingSize \in Nat
  BY LineOfPosition, RingSizeType
<1>3. CASE a = 0
  <2>1. RingSize * 0 = 0
    BY <1>2
  <2> QED
    BY <1>1, <1>2, <1>3, <2>1
<1>4. CASE 1 <= a
  <2>1. 1 * RingSize <= a * RingSize /\ a * RingSize = RingSize * a /\ 1 * RingSize = RingSize
    BY <1>2, <1>4, TimesMonotone
  <2>2. RingSize * a \in Nat
    BY <1>2
  <2> QED
    BY <1>1, <1>2, <2>1, <2>2
<1> QED
  BY <1>3, <1>4

-----------------------------------------------------------------------------
(***************************************************************************)
(* The inductive invariant, for messages of n cache lines: the log is the  *)
(* sequence of the multiples of n below producer_pos, every subscriber     *)
(* stands between two frames, nobody is overrun, and a line where a frame  *)
(* may start holds the frame that was last committed there.                *)
(***************************************************************************)
\* The log is the sequence of multiples of n below producer_pos.
WriterOK(n) ==
  /\ pc[Writer] # "pad"
  /\ pc[Writer] # "idle" => size = n
  /\ phase \in {"start", "typed", "copied"}
  /\ pc[Writer] # "fill" => phase = "start"
  /\ producer_pos = n * Len(log)
  /\ \A m \in 1 .. Len(log) : log[m] = n * (m - 1)
  /\ pc[Writer] = "fill" => Len(log) >= 1 /\ claimed = n * (Len(log) - 1)

\* A subscriber stands between two frames, not past the last one claimed, and has
\* seen a claim past its cursor.
CursorsOK(n) ==
  /\ \A i \in Slots : Multiple(n, cursor[i]) /\ cursor[i] <= producer_pos
  /\ \A p \in Processes :
       /\ ~inherited[p]
       /\ Multiple(n, seen_prod[p])
       /\ pc[p] \in {"overrun", "frame"} => seen_cursor[p] < seen_prod[p]

\* Without padding the reserved term is never used.
NearOK ==
  \A p \in Processes :
    ~jumped[p] /\ (Anchored(p) => producer_pos <= Floor(p) + TotalCapacity)

\* A line where a frame may start has never held the middle of one.
HeadersOK(n) ==
  \A l \in Lines : Multiple(n, l) =>
    /\ mem[l].length \in {0, n} /\ mem[l].kind \in {"none", "data"}
    /\ mem[l].length # 0 => mem[l].kind = "data"

ReadingOK(n) ==
  \A p \in Processes : reading[p].state # "none" =>
    pc[p] = "frame" /\ reading[p].length = n /\ reading[p].kind = "data"

Intact(m) ==
  /\ mem[Line(log[m])].at = log[m]
  /\ mem[Line(log[m])].message = m
  /\ mem[Line(log[m])].kind = "data"

\* Until the ring comes round to its lines again, a committed frame is in memory.
CommittedOK ==
  /\ \A m \in Committed : producer_pos <= log[m] + RingSize => Intact(m)
  /\ phase \in {"typed", "copied"} => mem[Line(claimed)].kind = "data"
  /\ phase = "copied" => mem[Line(claimed)].message = Len(log)

FramesInv(n) ==
  /\ IndInv
  /\ TypesInv
  /\ WriterOK(n)
  /\ CursorsOK(n)
  /\ NearOK
  /\ HeadersOK(n)
  /\ ReadingOK(n)
  /\ CommittedOK

\* Nobody is taken to be overrun.
LEMMA NobodyOverrun ==
  ASSUME IndInv, NearOK, NEW p \in Processes, pc[p] = "overrun"
  PROVE  ~IsOverrun(seen_cursor[p])
<1>1. Holding(p) /\ pc[p] \notin ClaimingLabels
  BY DEF IndInv, SlotsHeld, ShownLabels, ClaimingLabels
<1>2. producer_pos <= cursor[slot[p]] + TotalCapacity
  BY <1>1 DEF NearOK, Anchored, Floor
<1>3. seen_cursor[p] = cursor[slot[p]] /\ seen_cursor[p] \in Nat /\ producer_pos \in Nat
  BY DEF IndInv, LocalsAgree, TypeOK
<1> QED
  BY <1>2, <1>3, CapacityLemma DEF IsOverrun

\* What a poll does to its process when it may advance.
LEMMA AdvanceIsPoll ==
  ASSUME NEW n, OneSize(n), FramesInv(n), NEW p \in Processes, SkipPadding(p) \/ Advance(p)
  PROVE  /\ Advance(p) /\ PollFrame(p) /\ PollAdvance(p, n, TRUE)
         /\ reading[p].state # "none" /\ pc[p] = "frame"
         /\ seen_cursor[p] + n <= seen_prod[p] /\ seen_cursor[p] = cursor[slot[p]]
         /\ Multiple(n, seen_cursor[p])
<1>1. reading[p].state # "none"
  BY DEF SkipPadding, Advance, Found
<1>2. reading[p].kind = "data" /\ reading[p].length = n /\ pc[p] = "frame"
  BY <1>1 DEF FramesInv, ReadingOK
<1>3. Advance(p) /\ PollAdvance(p, n, TRUE)
  BY <1>2 DEF SkipPadding, Advance, Found
<1>4. seen_cursor[p] = cursor[slot[p]] /\ slot[p] \in Slots
  BY <1>2 DEF FramesInv, IndInv, LocalsAgree, SlotsHeld, Holding, TypeOK, ShownLabels
<1>5. seen_cursor[p] < seen_prod[p] /\ Multiple(n, seen_cursor[p]) /\ Multiple(n, seen_prod[p])
  BY <1>2, <1>4 DEF FramesInv, CursorsOK
<1>6. seen_cursor[p] + n <= seen_prod[p]
  BY <1>5, MultipleApart DEF OneSize
<1>7. n \in 1 .. MaxLength
  BY <1>5, AlignedFrame, LengthsBound
<1>8. PollFrame(p)
  BY <1>3, <1>7 DEF PollFrame
<1> QED
  BY <1>1, <1>2, <1>3, <1>4, <1>5, <1>6, <1>8

\* Every step is a step of RingPositions, or leaves the positions alone.
LEMMA FramesStepMaps ==
  ASSUME NEW n, OneSize(n), FramesInv(n), [FramesNext]_<<vars, frames>>
  PROVE  [Next]_vars
BY StepMaps DEF FramesInv, ReadingOK, FoundHasLength, OneSize

\* A step of a subscriber leaves the writer and the memory alone.
LEMMA ReaderFrame ==
  ASSUME NEW n, OneSize(n), FramesInv(n), NEW p \in Processes, Read(p) \/ Attach(p)
  PROVE  /\ Subscriber(p) \/ UNCHANGED vars
         /\ UNCHANGED <<mem, phase, log>>
         /\ producer_pos' = producer_pos /\ size' = size /\ claimed' = claimed
         /\ pc'[Writer] = pc[Writer]
<1>1. Subscriber(p) \/ UNCHANGED vars
  <2>1. CASE Read(p)
    BY <2>1, AdvanceIsPoll
    DEF Read, StartPoll, FindNothing, FindFrame, Handle, Subscriber, Poll
  <2>2. CASE Attach(p)
    BY <2>2 DEF Attach, Subscriber
  <2> QED
    BY <2>1, <2>2
<1>2. UNCHANGED <<mem, phase, log>>
  BY DEF Read, Attach, StartPoll, FindNothing, FindFrame, Handle, SkipPadding, Advance, frames
<1>3. CASE Subscriber(p)
  <2>1. producer_pos' = producer_pos /\ size' = size /\ pc'[Writer] = pc[Writer]
    BY <1>3, SubscriberFrame, AgentsLemma DEF FramesInv, IndInv
  <2>2. claimed' = claimed
    BY <1>3
    DEF Subscriber, Register, RegisterStart, RegisterTaken, RegisterClaim, RegisterPid,
        RegisterGenLoad, RegisterGenStore, RegisterLoadPosition, RegisterStoreCursor,
        RegisterHeartbeat, RegisterStoreMin, RegisterReturn, ScanStart, ScanSlot, Poll,
        PollNothing, PollLoad, PollOverrun, PollUncommitted, PollFrame, PollAdvance,
        Unregister, UnregisterCheck, UnregisterClear, UnregisterStoreMin, vars
  <2> QED
    BY <1>2, <1>3, <2>1, <2>2
<1>4. CASE UNCHANGED vars
  BY <1>2, <1>4 DEF vars, header
<1> QED
  BY <1>1, <1>3, <1>4

-----------------------------------------------------------------------------
(***************************************************************************)
(* The steps of a subscriber.                                              *)
(***************************************************************************)
\* What the positions of a subscriber can become.
LEMMA ReaderCursor ==
  ASSUME NEW n, OneSize(n), FramesInv(n), NEW p \in Processes, Read(p) \/ Attach(p)
  PROVE  /\ ~jumped'[p]
         /\ seen_prod'[p] \in {seen_prod[p], producer_pos, 0}
         /\ \/ cursor' = cursor
            \/ \E c \in {seen_prod[p], seen_cursor[p] + n} :
                 /\ Multiple(n, c) /\ c <= producer_pos
                 /\ cursor' = [cursor EXCEPT ![slot[p]] = c]
         /\ pc'[p] \in {"overrun", "frame"} => seen_cursor'[p] < seen_prod'[p]
<1> DEFINE Goal ==
      /\ ~jumped'[p]
      /\ seen_prod'[p] \in {seen_prod[p], producer_pos, 0}
      /\ \/ cursor' = cursor
         \/ \E c \in {seen_prod[p], seen_cursor[p] + n} :
              /\ Multiple(n, c) /\ c <= producer_pos
              /\ cursor' = [cursor EXCEPT ![slot[p]] = c]
      /\ pc'[p] \in {"overrun", "frame"} => seen_cursor'[p] < seen_prod'[p]
<1> USE DEF vars, slots, locals, Goto, At
<1>1. /\ TypeOK /\ ~jumped[p] /\ p \in Agents
      /\ pc[p] \in {"overrun", "frame"} => seen_cursor[p] < seen_prod[p]
      /\ Multiple(n, seen_prod[p]) /\ seen_prod[p] <= producer_pos
      /\ seen_prod[p] \in Nat /\ producer_pos \in Nat /\ seen_cursor[p] \in Nat
  BY AgentsLemma DEF FramesInv, IndInv, NearOK, CursorsOK, BehindProducer, TypeOK
<1>2. CASE UNCHANGED vars
  BY <1>1, <1>2
<1>3. CASE ScanStart(p) \/ ScanSlot(p)
  BY <1>1, <1>3 DEF ScanStart, ScanSlot, TypeOK
<1>4. CASE RegisterStart(p) \/ RegisterTaken(p)
  BY <1>1, <1>4 DEF RegisterStart, RegisterTaken, TypeOK
<1>5. CASE RegisterClaim(p)
  BY <1>1, <1>5 DEF RegisterClaim, TypeOK
<1>6. CASE RegisterPid(p) \/ RegisterGenLoad(p) \/ RegisterGenStore(p)
  BY <1>1, <1>6 DEF RegisterPid, RegisterGenLoad, RegisterGenStore, TypeOK
<1>7. CASE RegisterLoadPosition(p)
  BY <1>1, <1>7 DEF RegisterLoadPosition, TypeOK
<1>8. CASE RegisterStoreCursor(p)
  <2>1. /\ cursor' = [cursor EXCEPT ![slot[p]] = seen_prod[p]] /\ seen_prod'[p] = 0
        /\ jumped' = jumped /\ pc'[p] = "heartbeat"
    BY <1>1, <1>8 DEF RegisterStoreCursor, TypeOK
  <2> QED
    BY <1>1, <2>1
<1>9. CASE RegisterHeartbeat(p) \/ RegisterStoreMin(p) \/ RegisterReturn(p)
  BY <1>1, <1>9 DEF RegisterHeartbeat, RegisterStoreMin, ScanStore, RegisterReturn, TypeOK
<1>10. CASE PollNothing(p)
  BY <1>1, <1>10 DEF PollNothing
<1>11. CASE PollLoad(p)
  BY <1>1, <1>11 DEF PollLoad, TypeOK
<1>12. CASE PollOverrun(p)
  <2>1. ~IsOverrun(seen_cursor[p])
    BY <1>12, NobodyOverrun DEF PollOverrun, FramesInv
  <2> QED
    BY <1>1, <1>12, <2>1 DEF PollOverrun, TypeOK
<1>13. CASE PollUncommitted(p)
  BY <1>1, <1>13 DEF PollUncommitted, TypeOK
<1>14. CASE SkipPadding(p) \/ Advance(p)
  <2>1. /\ PollAdvance(p, n, TRUE) /\ Multiple(n, seen_cursor[p])
        /\ seen_cursor[p] + n <= seen_prod[p] /\ n \in Nat \ {0}
    BY <1>14, AdvanceIsPoll DEF OneSize
  <2>2. Multiple(n, seen_cursor[p] + n)
    BY <2>1, MultipleNext
  <2>3. seen_cursor[p] + n <= producer_pos
    BY <1>1, <2>1
  <2>4. /\ cursor' = [cursor EXCEPT ![slot[p]] = seen_cursor[p] + n] /\ seen_prod'[p] = 0
        /\ jumped' = jumped /\ pc'[p] = "ready"
    BY <1>1, <2>1 DEF PollAdvance, TypeOK
  <2> QED
    BY <1>1, <2>2, <2>3, <2>4
<1>15. CASE Unregister(p)
  BY <1>1, <1>15
  DEF Unregister, UnregisterCheck, UnregisterClear, UnregisterStoreMin, ScanStore, TypeOK
<1> QED
  BY <1>2, <1>3, <1>4, <1>5, <1>6, <1>7, <1>8, <1>9, <1>10, <1>11, <1>12, <1>13, <1>14, <1>15
  DEF Read, StartPoll, FindNothing, FindFrame, Handle, Attach, Register

\* A subscriber's step leaves every cursor between two frames.
LEMMA ReaderCursors ==
  ASSUME NEW n, OneSize(n), FramesInv(n), NEW p \in Processes, Read(p) \/ Attach(p)
  PROVE  CursorsOK(n)'
<1>1. \A q \in Processes \ {p} :
         pc'[q] = pc[q] /\ seen_prod'[q] = seen_prod[q] /\ seen_cursor'[q] = seen_cursor[q]
  <2>1. CASE Subscriber(p)
    BY <2>1, SubscriberFrame, AgentsLemma DEF FramesInv, IndInv
  <2>2. CASE UNCHANGED vars
    BY <2>2 DEF vars, locals
  <2> QED
    BY <2>1, <2>2, ReaderFrame
<1>2. Multiple(n, producer_pos) /\ Multiple(n, 0) /\ producer_pos' = producer_pos
  <2>1. n * 0 = 0 /\ Len(log) \in Nat
    BY DEF OneSize, FramesInv, TypesInv
  <2> QED
    BY <2>1, ReaderFrame DEF FramesInv, WriterOK, Multiple
<1>3. \A i \in Slots : Multiple(n, cursor'[i]) /\ cursor'[i] <= producer_pos'
  <2>1. \A i \in Slots : Multiple(n, cursor[i]) /\ cursor[i] <= producer_pos
    BY DEF FramesInv, CursorsOK
  <2>2. CASE cursor' = cursor
    BY <1>2, <2>1, <2>2
  <2>3. ASSUME NEW c, Multiple(n, c), c <= producer_pos,
               cursor' = [cursor EXCEPT ![slot[p]] = c]
        PROVE  \A i \in Slots : Multiple(n, cursor'[i]) /\ cursor'[i] <= producer_pos'
    BY <1>2, <2>1, <2>3 DEF FramesInv, IndInv, TypeOK
  <2> QED
    BY <2>2, <2>3, ReaderCursor
<1>4. Multiple(n, seen_prod'[p])
  BY <1>2, ReaderCursor DEF FramesInv, CursorsOK
<1>5. pc'[p] \in {"overrun", "frame"} => seen_cursor'[p] < seen_prod'[p]
  BY ReaderCursor
<1>6. ASSUME NEW q \in Processes PROVE ~inherited'[q]
  <2>1. [Next]_vars
    BY FramesStepMaps DEF FramesNext
  <2>2. ~inherited[q] /\ \A i \in Slots : cursor[i] <= producer_pos
    BY DEF FramesInv, CursorsOK
  <2>3. CASE RegisterLoadPosition(q) /\ inherited'[q] = (cursor[slot[q]] > producer_pos)
    <3>1. slot[q] \in Slots
      BY <2>3 DEF RegisterLoadPosition, At, FramesInv, IndInv, SlotsHeld, Holding,
         ClaimingLabels, TypeOK
    <3>2. ~(cursor[slot[q]] > producer_pos)
      BY <2>2, <3>1 DEF FramesInv, IndInv, TypeOK
    <3> QED
      BY <2>3, <3>2, Zenon
  <2> QED
    BY <2>1, <2>2, <2>3, InheritedStep DEF FramesInv, IndInv
<1> QED
  BY <1>1, <1>3, <1>4, <1>5, <1>6 DEF FramesInv, CursorsOK

\* A subscriber's step lets nobody fall behind, and it joins at producer_pos.
LEMMA ReaderNear ==
  ASSUME NEW n, OneSize(n), FramesInv(n), NEW p \in Processes, Read(p) \/ Attach(p)
  PROVE  NearOK'
<1>1. [Next]_vars
  BY FramesStepMaps DEF FramesNext
<1>2. TypeOK' /\ TypeOK
  BY <1>1, NextIndInv DEF FramesInv, IndInv
<1>3. ASSUME NEW q \in Processes PROVE ~jumped'[q]
  <2>1. CASE q = p
    BY <2>1, ReaderCursor
  <2>2. CASE q # p /\ Subscriber(p)
    BY <1>2, <2>2, SubscriberFrame DEF FramesInv, NearOK
  <2>3. CASE UNCHANGED vars
    BY <2>3 DEF vars, locals, FramesInv, NearOK
  <2> QED
    BY <2>1, <2>2, <2>3, ReaderFrame
<1>4. ASSUME NEW q \in Processes, Anchored(q)'
      PROVE  producer_pos' <= Floor(q)' + TotalCapacity
  <2>1. producer_pos' = producer_pos /\ producer_pos \in Nat /\ Floor(q)' \in Nat
    BY <1>2, <1>4, ReaderFrame DEF TypeOK, Anchored, Holding, Floor
  <2>2. \/ Anchored(q) /\ Floor(q) <= Floor(q)'
        \/ Floor(q)' = producer_pos
    BY <1>1, <1>2, <1>4, AnchorStep DEF FramesInv, IndInv
  <2>3. Anchored(q) => Floor(q) \in Nat
    BY <1>2, FloorType
  <2> QED
    BY <2>1, <2>2, <2>3, CapacityLemma DEF FramesInv, NearOK
<1> QED
  BY <1>3, <1>4 DEF NearOK

\* A poll finds only data frames of size n.
LEMMA ReaderReading ==
  ASSUME NEW n, OneSize(n), FramesInv(n), NEW p \in Processes, Read(p) \/ Attach(p)
  PROVE  ReadingOK(n)'
<1> USE DEF At, Goto, vars
<1>0. /\ reading \in [Processes -> Finds] /\ pc \in [Agents -> WriterLabels \cup JanitorLabels \cup ProcessLabels]
      /\ p \in Agents
  BY AgentsLemma DEF FramesInv, TypesInv, FramesTypeOK, TypeOK, Finds
<1>1. ASSUME NEW q \in Processes \ {p} PROVE pc'[q] = pc[q] /\ reading'[q] = reading[q]
  <2>1. pc'[q] = pc[q]
    BY ReaderFrame, SubscriberFrame, AgentsLemma DEF FramesInv, IndInv
  <2>2. reading'[q] = reading[q]
    BY <1>0
    DEF Read, Attach, StartPoll, FindNothing, FindFrame, Handle, SkipPadding, Advance, frames
  <2> QED
    BY <2>1, <2>2
<1>2. ASSUME reading'[p].state # "none"
      PROVE  pc'[p] = "frame" /\ reading'[p].length = n /\ reading'[p].kind = "data"
  <2>1. CASE FindFrame(p)
    <3>1. PICK length \in LengthsAt(Header(p)) \ {0}, kind \in KindsAt(Header(p)) :
            reading' = [reading EXCEPT ![p] =
              [state |-> "found", length |-> length, kind |-> kind, at |-> Header(p).at]]
      BY <2>1 DEF FindFrame
    <3>2. pc[p] = "frame" /\ pc' = pc
      BY <2>1 DEF FindFrame
    <3>3. Multiple(n, seen_cursor[p])
      BY <3>2 DEF FramesInv, IndInv, CursorsOK, LocalsAgree, SlotsHeld, Holding, TypeOK, ShownLabels
    <3>4. Multiple(n, Line(seen_cursor[p])) /\ Line(seen_cursor[p]) \in Lines
      BY <3>3, AlignedFrame
    <3>5. /\ Header(p).length \in {0, n} /\ Header(p).kind \in {"none", "data"}
          /\ Header(p).length # 0 => Header(p).kind = "data"
      BY <3>4 DEF FramesInv, HeadersOK, Header
    <3>6. AnyLength # 0 /\ AnyLength # n
      <4>1. n \in 0 .. MaxLength /\ 0 \in 0 .. MaxLength
        BY <3>3, AlignedFrame, LengthsBound
      <4> QED
        BY <4>1, FramesAssumption
    <3>7. length = n /\ kind = "data"
      <4>1. LengthsAt(Header(p)) = {Header(p).length}
        BY <3>5, <3>6 DEF LengthsAt
      <4>2. length = n /\ Header(p).kind = "data"
        BY <3>5, <4>1
      <4> QED
        BY <4>2 DEF KindsAt
    <3> QED
      BY <1>0, <3>1, <3>2, <3>7
  <2>2. CASE Handle(p)
    <3>1. /\ reading'[p] = [reading[p] EXCEPT !.state = "handled"]
          /\ reading[p].state # "none" /\ pc' = pc
      BY <1>0, <2>2 DEF Handle, Found
    <3>2. reading'[p].length = reading[p].length /\ reading'[p].kind = reading[p].kind
      BY <1>0, <3>1 DEF Finds
    <3> QED
      BY <3>1, <3>2 DEF FramesInv, ReadingOK
  <2>3. CASE SkipPadding(p) \/ Advance(p)
    <3>1. reading' = [reading EXCEPT ![p] = NotReading]
      BY <2>3 DEF SkipPadding, Advance
    <3>2. reading'[p] = NotReading
      BY <1>0, <3>1
    <3>3. NotReading.state = "none"
      BY DEF NotReading
    <3> QED
      BY <1>2, <3>2, <3>3
  <2>4. CASE FindNothing(p)
    BY <1>0, <1>2, <2>4 DEF FindNothing, NotReading, frames
  <2>5. CASE StartPoll(p) \/ Attach(p)
    <3>1. reading' = reading
      BY <2>5 DEF StartPoll, Attach, frames
    <3>2. pc[p] = "frame" /\ reading[p].length = n /\ reading[p].kind = "data"
      BY <1>2, <3>1 DEF FramesInv, ReadingOK
    <3>3. pc'[p] = "frame"
      <4>1. slot[p] # NoSlot
        BY <3>2 DEF FramesInv, IndInv, SlotsHeld, Holding, ShownLabels
      <4> QED
        BY <2>5, <3>2
        DEF StartPoll, PollNothing, PollLoad, PollOverrun, Attach,
            Register, RegisterStart, RegisterTaken, RegisterClaim, RegisterPid, RegisterGenLoad,
            RegisterGenStore, RegisterLoadPosition, RegisterStoreCursor, RegisterHeartbeat,
            RegisterStoreMin, RegisterReturn, ScanStart, ScanSlot, ScanStore,
            Unregister, UnregisterCheck, UnregisterClear, UnregisterStoreMin
    <3> QED
      BY <3>1, <3>2, <3>3
  <2> QED
    BY <2>1, <2>2, <2>3, <2>4, <2>5 DEF Read
<1> QED
  BY <1>1, <1>2 DEF FramesInv, ReadingOK

-----------------------------------------------------------------------------
(***************************************************************************)
(* The steps of write().                                                   *)
(***************************************************************************)
\* A step of write() leaves the subscribers alone.
LEMMA WriteFrameFrame ==
  ASSUME NEW n, OneSize(n), FramesInv(n), WriteFrame
  PROVE  /\ Write \/ UNCHANGED vars
         /\ UNCHANGED <<slots, locals, reading, last>>
         /\ \A p \in Processes : pc'[p] = pc[p]
<1>1. Write \/ UNCHANGED vars
  BY DEF WriteFrame, StartWrite, Claim, PadType, PadFrame, ClaimAgain, FrameType, FramePayload,
     Commit, Write
<1>2. UNCHANGED <<reading, last>>
  BY DEF WriteFrame, StartWrite, Claim, PadType, PadFrame, ClaimAgain, FrameType, FramePayload,
     Commit, frames
<1>3. CASE Write
  BY <1>2, <1>3, WriterFrame, AgentsLemma DEF FramesInv, IndInv
<1>4. CASE UNCHANGED vars
  BY <1>2, <1>4 DEF vars
<1> QED
  BY <1>1, <1>3, <1>4

\* The claim, without padding.
LEMMA ClaimEffect ==
  ASSUME NEW n, OneSize(n), FramesInv(n), Claim
  PROVE  /\ pc[Writer] = "claim" /\ pc'[Writer] = "fill" /\ phase = "start"
         /\ claimed' = producer_pos /\ producer_pos' = producer_pos + n /\ size' = n
         /\ log' = Append(log, producer_pos) /\ size = n
         /\ UNCHANGED <<mem, phase>>
<1>1. pc[Writer] = "claim" /\ size = n /\ phase = "start"
  BY DEF Claim, WriteClaim, FramesInv, WriterOK
<1>2. Multiple(n, producer_pos)
  BY DEF FramesInv, WriterOK, TypesInv, Multiple
<1>3. ~NeedsPadding(producer_pos, size)
  <2>1. TermOffset(producer_pos) + n <= TermLength /\ TermOffset(producer_pos) \in Nat
    BY <1>2, AlignedFrame, LineOfPosition DEF FramesInv, IndInv, TypeOK
  <2> QED
    BY <1>1, <2>1, GeometryAssumption DEF NeedsPadding, OneSize
<1> QED
  BY <1>1, <1>3, AgentsLemma DEF Claim, WriteClaim, Goto, FramesInv, IndInv, TypeOK

\* write() appends the next multiple of n to the log, and never pads.
LEMMA WriterWriter ==
  ASSUME NEW n, OneSize(n), FramesInv(n), WriteFrame
  PROVE  WriterOK(n)'
<1> USE AgentsLemma DEF WriterOK
<1>1. /\ TypeOK /\ WriterOK(n) /\ log \in Seq(Nat) /\ Len(log) \in Nat
      /\ pc \in [Agents -> WriterLabels \cup JanitorLabels \cup ProcessLabels]
  BY DEF FramesInv, IndInv, TypesInv, TypeOK
<1>2. CASE StartWrite
  <2>1. UNCHANGED <<log, phase, claimed>> /\ producer_pos' = producer_pos
    BY <1>2
    DEF StartWrite, WriteCheck, WriteTooLarge, ScanStart, ScanSlot, WriteRecheck, ScanStore,
        frames, vars, header
  <2>2. /\ pc[Writer] # "fill" /\ pc'[Writer] \notin {"pad", "fill"}
        /\ pc'[Writer] # "idle" => size' = n
    <3>1. ASSUME NEW m \in FrameSizes, WriteCheck(m)
          PROVE  pc[Writer] = "idle" /\ pc'[Writer] \in {"claim", "scan0"} /\ size' = n
      <4>1. m = n
        BY <3>1 DEF WriteCheck, OneSize
      <4> QED
        BY <1>1, <3>1, <4>1 DEF WriteCheck, Goto
    <3>2. CASE WriteTooLarge
      BY <1>1, <3>2 DEF WriteTooLarge, vars
    <3>3. CASE ScanStart(Writer) \/ ScanSlot(Writer)
      BY <1>1, <3>3 DEF ScanStart, ScanSlot, Goto
    <3>4. CASE WriteRecheck
      BY <1>1, <3>4 DEF WriteRecheck, ScanStore, Goto
    <3> QED
      BY <1>2, <3>1, <3>2, <3>3, <3>4 DEF StartWrite
  <2> QED
    BY <1>1, <2>1, <2>2
<1>3. CASE Claim
  <2>1. /\ pc'[Writer] = "fill" /\ phase' = "start" /\ size' = n
        /\ producer_pos' = producer_pos + n /\ claimed' = producer_pos
        /\ log' = Append(log, producer_pos)
    BY <1>3, ClaimEffect
  <2>2. /\ Len(log') = Len(log) + 1 /\ log'[Len(log) + 1] = producer_pos
        /\ \A m \in 1 .. Len(log) : log'[m] = log[m]
    BY <1>1, <2>1
  <2>3. producer_pos' = n * Len(log') /\ claimed' = n * (Len(log') - 1)
    <3>1. n * (Len(log) + 1) = n * Len(log) + n /\ Len(log) + 1 - 1 = Len(log)
      BY <1>1 DEF OneSize
    <3> QED
      BY <1>1, <2>1, <2>2, <3>1
  <2>4. ASSUME NEW m \in 1 .. Len(log') PROVE log'[m] = n * (m - 1)
    <3>1. CASE m \in 1 .. Len(log)
      BY <1>1, <2>2, <3>1
    <3>2. CASE m = Len(log) + 1
      BY <1>1, <2>2, <3>2
    <3> QED
      BY <1>1, <2>2, <3>1, <3>2
  <2> QED
    BY <1>1, <2>1, <2>2, <2>3, <2>4
<1>4. CASE PadType \/ PadFrame \/ ClaimAgain
  BY <1>1, <1>4 DEF PadType, PadFrame, ClaimAgain, WritePad
<1>5. CASE FrameType \/ FramePayload
  BY <1>1, <1>5 DEF FrameType, FramePayload, vars, header
<1>6. CASE Commit
  BY <1>1, <1>6 DEF Commit, WriteCommit, Goto, header
<1> QED
  BY <1>2, <1>3, <1>4, <1>5, <1>6 DEF WriteFrame

\* The claim leaves every subscriber within the capacity of the ring.
LEMMA WriterCursors ==
  ASSUME NEW n, OneSize(n), FramesInv(n), WriteFrame
  PROVE  CursorsOK(n)' /\ ReadingOK(n)' /\ NearOK'
<1>1. /\ UNCHANGED <<slots, locals, reading, last>>
      /\ \A p \in Processes : pc'[p] = pc[p]
  BY WriteFrameFrame
<1>p. ~Claim => producer_pos' = producer_pos
  BY DEF WriteFrame, StartWrite, PadType, PadFrame, ClaimAgain, FrameType, FramePayload, Commit,
     WriteCheck, WriteTooLarge, ScanStart, ScanSlot, WriteRecheck, ScanStore, WritePad,
     WriteCommit, vars, header, FramesInv, WriterOK
<1>c. ASSUME NEW i \in Slots PROVE cursor[i] <= producer_pos'
  <2>1. /\ cursor[i] \in Nat /\ producer_pos \in Nat /\ n \in Nat
        /\ cursor[i] <= producer_pos
    BY DEF FramesInv, IndInv, TypeOK, CursorsOK, OneSize
  <2>2. producer_pos' = producer_pos \/ producer_pos' = producer_pos + n
    BY <1>p, ClaimEffect
  <2> QED
    BY <2>1, <2>2
<1>2. CursorsOK(n)' /\ ReadingOK(n)'
  BY <1>1, <1>c DEF FramesInv, CursorsOK, ReadingOK, slots, locals
<1>3. NearOK'
  <2>1. ASSUME NEW p \in Processes
        PROVE  ~jumped'[p] /\ (Anchored(p)' <=> Anchored(p)) /\ Floor(p)' = Floor(p)
    BY <1>1 DEF FramesInv, NearOK, Anchored, Holding, Floor, slots, locals
  <2>2. CASE Claim
    <3>1. ASSUME NEW p \in Processes, Anchored(p)
          PROVE  producer_pos' <= Floor(p) + TotalCapacity
      BY <2>2, <3>1, ClaimEffect DEF FramesInv, IndInv, RoomGranted, Protected, CursorsOK
    <3> QED
      BY <2>1, <3>1 DEF NearOK
  <2>3. CASE ~Claim
    BY <1>p, <2>1, <2>3 DEF FramesInv, NearOK
  <2> QED
    BY <2>2, <2>3
<1> QED
  BY <1>2, <1>3

\* The frame being filled.
LEMMA FillPlace ==
  ASSUME NEW n, OneSize(n), FramesInv(n), pc[Writer] = "fill"
  PROVE  /\ size = n /\ Len(log) \in Nat \ {0} /\ claimed \in Nat
         /\ log[Len(log)] = claimed /\ claimed + n = producer_pos
         /\ Multiple(n, claimed) /\ Multiple(n, Line(claimed)) /\ Line(claimed) \in Lines
         /\ Committed = 1 .. Len(log) - 1
         /\ \A m \in Committed : log[m] \in Nat /\ log[m] < claimed
<1>1. /\ size = n /\ Len(log) \in Nat /\ Len(log) >= 1 /\ claimed = n * (Len(log) - 1)
      /\ producer_pos = n * Len(log) /\ \A m \in 1 .. Len(log) : log[m] = n * (m - 1)
      /\ n \in Nat \ {0} /\ Committed = 1 .. Len(log) - 1
  BY DEF FramesInv, WriterOK, TypesInv, OneSize, Committed
<1>2. Len(log) - 1 \in Nat
  BY <1>1
<1>3. Multiple(n, claimed)
  BY <1>1, <1>2 DEF Multiple
<1>4. claimed + n = producer_pos
  <2>1. n * Len(log) = n * (Len(log) - 1) + n
    BY <1>1, <1>2
  <2> QED
    BY <1>1, <2>1
<1>5. ASSUME NEW m \in 1 .. Len(log) - 1 PROVE log[m] \in Nat /\ log[m] < claimed
  <2>1. m - 1 \in Nat /\ m \in 1 .. Len(log) /\ m \in Nat /\ m <= Len(log) - 1
    BY <1>1
  <2>2. m * n <= (Len(log) - 1) * n
    BY <1>1, <1>2, <2>1, TimesMonotone
  <2>3. m * n = n * (m - 1) + n /\ (Len(log) - 1) * n = n * (Len(log) - 1) /\ n * (m - 1) \in Nat
    BY <1>1, <1>2, <2>1
  <2> QED
    BY <1>1, <2>1, <2>2, <2>3
<1> QED
  BY <1>1, <1>3, <1>4, <1>5, AlignedFrame, MultipleNext

\* The three stores of a frame: only one line where a frame may start changes.
LEMMA FillEffect ==
  ASSUME NEW n, OneSize(n), FramesInv(n), FrameType \/ FramePayload \/ Commit
  PROVE  /\ pc[Writer] = "fill" /\ UNCHANGED <<log, claimed>> /\ producer_pos' = producer_pos
         /\ \A l \in Lines : Multiple(n, l) /\ l # Line(claimed) => mem'[l] = mem[l]
         /\ FrameType => /\ pc' = pc /\ phase' = "typed"
                         /\ mem'[Line(claimed)].kind = "data"
                         /\ mem'[Line(claimed)].length = mem[Line(claimed)].length
         /\ FramePayload => /\ pc' = pc /\ phase = "typed" /\ phase' = "copied"
                            /\ mem'[Line(claimed)].message = Len(log)
                            /\ mem'[Line(claimed)].kind = mem[Line(claimed)].kind
                            /\ mem'[Line(claimed)].length = mem[Line(claimed)].length
         /\ Commit => /\ pc'[Writer] = "idle" /\ phase = "copied" /\ phase' = "start"
                      /\ mem'[Line(claimed)].length = n /\ mem'[Line(claimed)].at = claimed
                      /\ mem'[Line(claimed)].kind = mem[Line(claimed)].kind
                      /\ mem'[Line(claimed)].message = mem[Line(claimed)].message
<1> DEFINE L == Line(claimed)
<1>1. /\ pc[Writer] = "fill" /\ UNCHANGED <<log, claimed>> /\ producer_pos' = producer_pos
  BY DEF FrameType, FramePayload, Commit, WriteCommit, vars, header
<1>2. /\ L \in Lines /\ Multiple(n, L) /\ size = n
      /\ mem \in [Lines -> Contents] /\ mem[L] \in Contents
  BY <1>1, FillPlace DEF FramesInv, TypesInv, FramesTypeOK, Contents
<1> HIDE DEF L
<1>3. CASE FrameType
  <2>1. /\ mem' = [mem EXCEPT ![L].kind = "data"] /\ pc' = pc /\ phase' = "typed"
        /\ phase = "start"
    BY <1>3 DEF FrameType, L, vars
  <2>2. mem'[L].kind = "data" /\ mem'[L].length = mem[L].length
    BY <1>2, <2>1 DEF Contents
  <2>3. \A l \in Lines : l # L => mem'[l] = mem[l]
    BY <1>2, <2>1
  <2>4. ~FramePayload /\ ~Commit
    BY <2>1 DEF FramePayload, Commit
  <2> QED
    BY <1>1, <2>1, <2>2, <2>3, <2>4 DEF L
<1>4. CASE FramePayload
  <2>1. /\ mem' = [l \in Lines |->
               CASE l = L -> [mem[l] EXCEPT !.message = Len(log)]
                 [] l - L \in 1 .. n - 1 -> Payload
                 [] OTHER -> mem[l]]
        /\ pc' = pc /\ phase = "typed" /\ phase' = "copied"
    BY <1>2, <1>4 DEF FramePayload, L, vars
  <2>2. mem'[L] = [mem[L] EXCEPT !.message = Len(log)]
    <3> DEFINE new(l) == CASE l = L -> [mem[l] EXCEPT !.message = Len(log)]
                           [] l - L \in 1 .. n - 1 -> Payload
                           [] OTHER -> mem[l]
    <3>1. mem' = [l \in Lines |-> new(l)]
      BY <2>1
    <3>2. L - L \notin 1 .. n - 1
      <4>1. L \in Nat /\ n \in Nat
        BY <1>2, MultipleNext DEF OneSize
      <4> QED
        BY <4>1
    <3>3. new(L) = [mem[L] EXCEPT !.message = Len(log)]
      BY <3>2, Zenon
    <3> HIDE DEF new
    <3> QED
      BY <1>2, <3>1, <3>3
  <2>3. /\ mem'[L].message = Len(log) /\ mem'[L].kind = mem[L].kind
        /\ mem'[L].length = mem[L].length
    BY <1>2, <2>2 DEF Contents
  <2>4. ASSUME NEW l \in Lines, Multiple(n, l), l # L PROVE mem'[l] = mem[l]
    <3>1. l \in Nat /\ L \in Nat /\ n \in Nat \ {0}
      BY <1>2, <2>4, MultipleNext DEF OneSize
    <3>2. L < l => L + n <= l
      BY <1>2, <2>4, <3>1, MultipleApart
    <3>3. l - L \notin 1 .. n - 1
      BY <2>4, <3>1, <3>2
    <3> QED
      BY <2>1, <2>4, <3>3
  <2>5. ~FrameType /\ ~Commit
    BY <2>1 DEF FrameType, Commit
  <2> QED
    BY <1>1, <2>1, <2>3, <2>4, <2>5 DEF L
<1>5. CASE Commit
  <2>1. /\ mem' = [mem EXCEPT ![L].length = n, ![L].at = claimed]
        /\ phase = "copied" /\ phase' = "start" /\ pc' = [pc EXCEPT ![Writer] = "idle"]
    BY <1>2, <1>5 DEF Commit, WriteCommit, Goto, L
  <2> DEFINE once == [mem[L] EXCEPT !.length = n]
             new == [once EXCEPT !.at = claimed]
             middle == [mem EXCEPT ![L] = once]
  <2>2. mem' = [middle EXCEPT ![L].at = claimed]
    BY <2>1
  <2>3. /\ new.length = n /\ new.at = claimed /\ new.kind = mem[L].kind
        /\ new.message = mem[L].message
    BY <1>2 DEF Contents
  <2> HIDE DEF once
  <2>4. middle[L] = once /\ \A l \in Lines : l # L => middle[l] = mem[l]
    BY <1>2
  <2>5. DOMAIN middle = Lines
    BY <1>2
  <2>6. mem'[L] = new /\ \A l \in Lines : l # L => mem'[l] = middle[l]
    <3> HIDE DEF middle
    <3> QED
      BY <1>2, <2>2, <2>4, <2>5
  <2> HIDE DEF new, middle
  <2>7. pc'[Writer] = "idle" /\ ~FrameType /\ ~FramePayload
    BY <2>1, AgentsLemma DEF FrameType, FramePayload, FramesInv, IndInv, TypeOK
  <2> QED
    BY <1>1, <2>1, <2>3, <2>4, <2>6, <2>7 DEF L
<1> QED
  BY <1>3, <1>4, <1>5

\* The steps of write() that store nothing in the frames.
LEMMA OtherWriteEffect ==
  ASSUME NEW n, OneSize(n), FramesInv(n), WriteFrame, ~(FrameType \/ FramePayload \/ Commit)
  PROVE  /\ Claim \/ StartWrite
         /\ mem' = mem /\ pc[Writer] # "fill" /\ phase' = "start"
         /\ StartWrite => /\ log' = log /\ producer_pos' = producer_pos
                          /\ pc'[Writer] # "fill"
<1>1. Claim \/ StartWrite
  BY DEF WriteFrame, PadType, PadFrame, ClaimAgain, WritePad, FramesInv, WriterOK
<1>2. CASE Claim
  BY <1>2, ClaimEffect DEF StartWrite, WriteCheck, WriteTooLarge, ScanStart, ScanSlot,
     WriteRecheck, ScanStore
<1>3. CASE StartWrite
  BY <1>3, AgentsLemma
  DEF StartWrite, WriteCheck, WriteTooLarge, ScanStart, ScanSlot, WriteRecheck, ScanStore, Goto,
      frames, vars, header, FramesInv, WriterOK, IndInv, TypeOK
<1> QED
  BY <1>1, <1>2, <1>3

\* write() puts application data in no line where a frame may start.
LEMMA WriterHeaders ==
  ASSUME NEW n, OneSize(n), FramesInv(n), WriteFrame
  PROVE  HeadersOK(n)'
<1>1. CASE ~(FrameType \/ FramePayload \/ Commit)
  BY <1>1, OtherWriteEffect DEF FramesInv, HeadersOK
<1>2. CASE FrameType \/ FramePayload \/ Commit
  <2> SUFFICES ASSUME NEW l \in Lines, Multiple(n, l)
               PROVE  /\ mem'[l].length \in {0, n} /\ mem'[l].kind \in {"none", "data"}
                      /\ mem'[l].length # 0 => mem'[l].kind = "data"
    BY DEF HeadersOK
  <2>1. /\ mem[l].length \in {0, n} /\ mem[l].kind \in {"none", "data"}
        /\ mem[l].length # 0 => mem[l].kind = "data"
    BY DEF FramesInv, HeadersOK
  <2>2. CASE l # Line(claimed)
    BY <1>2, <2>1, <2>2, FillEffect
  <2>3. CASE l = Line(claimed)
    BY <1>2, <2>1, <2>3, FillEffect DEF FramesInv, CommittedOK
  <2> QED
    BY <2>2, <2>3
<1> QED
  BY <1>1, <1>2

\* write() overwrites no frame less than a ring behind producer_pos.
LEMMA WriterCommitted ==
  ASSUME NEW n, OneSize(n), FramesInv(n), WriteFrame
  PROVE  CommittedOK'
<1>1. /\ log \in Seq(Nat) /\ Len(log) \in Nat /\ producer_pos \in Nat /\ RingSize \in Nat
      /\ n \in Nat \ {0} /\ CommittedOK
  BY RingSizeType DEF FramesInv, TypesInv, IndInv, TypeOK, OneSize
<1>2. CASE StartWrite /\ ~(FrameType \/ FramePayload \/ Commit)
  BY <1>1, <1>2, OtherWriteEffect DEF CommittedOK, Committed, Intact
<1>3. CASE Claim
  <2>1. /\ pc[Writer] # "fill" /\ pc'[Writer] = "fill" /\ phase' = "start" /\ mem' = mem
        /\ producer_pos' = producer_pos + n /\ log' = Append(log, producer_pos)
    BY <1>3, ClaimEffect
  <2>2. /\ Committed = 1 .. Len(log) /\ Committed' = 1 .. Len(log)
        /\ \A m \in Committed : log'[m] = log[m] /\ log[m] \in Nat
    BY <1>1, <2>1 DEF Committed
  <2>3. ASSUME NEW m \in Committed', producer_pos' <= log'[m] + RingSize PROVE Intact(m)'
    <3>1. m \in Committed /\ log'[m] = log[m] /\ log[m] \in Nat
      BY <2>2
    <3>2. producer_pos <= log[m] + RingSize
      BY <1>1, <2>1, <2>3, <3>1
    <3> QED
      BY <1>1, <2>1, <3>1, <3>2 DEF CommittedOK, Intact
  <2> QED
    BY <2>1, <2>3 DEF CommittedOK
<1>4. CASE FrameType \/ FramePayload \/ Commit
  <2> DEFINE L == Line(claimed)
  <2>1. /\ pc[Writer] = "fill" /\ UNCHANGED <<log, claimed>> /\ producer_pos' = producer_pos
        /\ \A l \in Lines : Multiple(n, l) /\ l # L => mem'[l] = mem[l]
    BY <1>4, FillEffect
  <2>2. /\ Len(log) \in Nat \ {0} /\ claimed \in Nat
        /\ log[Len(log)] = claimed /\ claimed + n = producer_pos
        /\ Committed = 1 .. Len(log) - 1
        /\ \A m \in Committed : log[m] \in Nat /\ log[m] < claimed
    BY <2>1, FillPlace
  <2>3. ASSUME NEW m \in Committed, producer_pos <= log[m] + RingSize PROVE Intact(m)'
    <3>1. log[m] \in Nat /\ log[m] < claimed /\ claimed < log[m] + RingSize
      BY <1>1, <2>2, <2>3, SMTT(30)
    <3>2. Line(log[m]) # L
      BY <2>2, <3>1, LinesApart
    <3>3. Multiple(n, log[m])
      <4>1. m \in 1 .. Len(log) /\ m - 1 \in Nat
        BY <1>1, <2>2
      <4> QED
        BY <4>1 DEF FramesInv, WriterOK, Multiple
    <3>4. Multiple(n, Line(log[m])) /\ Line(log[m]) \in Lines
      BY <3>3, AlignedFrame
    <3>5. mem'[Line(log[m])] = mem[Line(log[m])]
      BY <2>1, <3>2, <3>4
    <3> QED
      BY <1>1, <2>1, <2>3, <3>5 DEF CommittedOK, Intact
  <2>4. CASE FrameType \/ FramePayload
    <3>1. Committed' = Committed
      BY <1>4, <2>1, <2>4, FillEffect DEF Committed
    <3>2. /\ phase' \in {"typed", "copied"} => mem'[L].kind = "data"
          /\ phase' = "copied" => mem'[L].message = Len(log)
      BY <1>1, <2>4, FillEffect DEF CommittedOK
    <3> QED
      BY <2>1, <2>3, <3>1, <3>2 DEF CommittedOK
  <2>5. CASE Commit
    <3>1. Committed' = 1 .. Len(log) /\ phase' = "start"
      BY <2>1, <2>5, FillEffect DEF Committed
    <3>2. Intact(Len(log))'
      <4>1. /\ mem'[L].at = claimed /\ mem'[L].kind = "data" /\ mem'[L].message = Len(log)
        BY <1>1, <2>5, FillEffect DEF CommittedOK
      <4>2. log'[Len(log)] = claimed /\ Line(log'[Len(log)]) = L
        BY <2>1, <2>2
      <4>3. Len(log)' = Len(log) /\ log' = log
        BY <2>1
      <4> HIDE DEF L
      <4> QED
        BY <4>1, <4>2, <4>3 DEF Intact
    <3>3. ASSUME NEW m \in 1 .. Len(log), producer_pos' <= log'[m] + RingSize PROVE Intact(m)'
      <4>1. m = Len(log) \/ m \in Committed
        BY <1>1, <2>2
      <4> QED
        BY <2>1, <2>3, <3>2, <3>3, <4>1
    <3> QED
      BY <3>1, <3>3 DEF CommittedOK
  <2> QED
    BY <1>4, <2>4, <2>5
<1> QED
  BY <1>2, <1>3, <1>4, OtherWriteEffect

-----------------------------------------------------------------------------
\* A subscriber's step leaves the memory and the log.
LEMMA ReaderMemory ==
  ASSUME NEW n, OneSize(n), FramesInv(n), NEW p \in Processes, Read(p) \/ Attach(p)
  PROVE  WriterOK(n)' /\ HeadersOK(n)' /\ CommittedOK'
BY ReaderFrame DEF FramesInv, WriterOK, HeadersOK, CommittedOK, Committed, Intact

\* The invariant holds in the zeroed region.
LEMMA FramesInvInit ==
  ASSUME NEW n, OneSize(n), FramesInit
  PROVE  FramesInv(n)
<1>1. IndInv /\ TypesInv
  BY InitIndInv, FramesTypesInit DEF FramesInit
<1>2. /\ Len(log) = 0 /\ producer_pos = 0 /\ n * 0 = 0 /\ pc[Writer] = "idle" /\ phase = "start"
      /\ \A p \in Processes : pc[p] = "idle" /\ slot[p] = NoSlot /\ ~jumped[p] /\ seen_prod[p] = 0
      /\ \A p \in Processes : ~inherited[p]
      /\ \A i \in Slots : cursor[i] = 0
      /\ \A l \in Lines : mem[l] = Blank
      /\ \A p \in Processes : reading[p] = NotReading
  BY AgentsLemma DEF FramesInit, Init, OneSize
<1>3. 1 .. 0 = {} /\ 1 .. Len(log) = {}
  BY <1>2
<1>4. WriterOK(n)
  BY <1>2, <1>3 DEF WriterOK
<1>5. CursorsOK(n)
  BY <1>2 DEF CursorsOK, Multiple
<1>6. NearOK
  BY <1>2 DEF NearOK, Anchored, Holding
<1>7. HeadersOK(n)
  BY <1>2 DEF HeadersOK, Blank
<1>8. ReadingOK(n)
  BY <1>2 DEF ReadingOK, NotReading
<1>9. CommittedOK
  BY <1>2, <1>3 DEF CommittedOK, Committed
<1> QED
  BY <1>1, <1>4, <1>5, <1>6, <1>7, <1>8, <1>9 DEF FramesInv

\* Every step keeps the invariant.
LEMMA FramesInvStep ==
  ASSUME NEW n, OneSize(n), FramesInv(n), [FramesNext]_<<vars, frames>>
  PROVE  FramesInv(n)'
<1>1. IndInv' /\ TypesInv'
  BY FramesStepMaps, NextIndInv, FramesTypesStep DEF FramesInv
<1>2. CASE WriteFrame
  BY <1>1, <1>2, WriterWriter, WriterCursors, WriterHeaders, WriterCommitted DEF FramesInv
<1>3. ASSUME NEW p \in Processes, Read(p) \/ Attach(p) PROVE FramesInv(n)'
  BY <1>1, <1>3, ReaderMemory, ReaderCursors, ReaderNear, ReaderReading DEF FramesInv
<1>4. CASE UNCHANGED <<vars, frames>>
  <2>1. WriterOK(n)' /\ CursorsOK(n)' /\ NearOK'
    BY <1>4 DEF FramesInv, WriterOK, CursorsOK, NearOK, Anchored, Holding, Floor, vars, frames,
       header, slots, locals
  <2>2. HeadersOK(n)' /\ ReadingOK(n)' /\ CommittedOK'
    BY <1>4 DEF FramesInv, HeadersOK, ReadingOK, CommittedOK, Committed, Intact, vars, frames,
       header
  <2> QED
    BY <1>1, <2>1, <2>2 DEF FramesInv
<1> QED
  BY <1>2, <1>3, <1>4 DEF FramesNext

-----------------------------------------------------------------------------
(***************************************************************************)
(* The invariant holds, and what follows from it.                          *)
(***************************************************************************)
LEMMA FramesInvAlways ==
  ASSUME NEW CONSTANT n, OneSize(n)
  PROVE  FramesSpec => []FramesInv(n)
<1>1. FramesInit => FramesInv(n)
  BY FramesInvInit
<1>2. FramesInv(n) /\ [FramesNext]_<<vars, frames>> => FramesInv(n)'
  BY FramesInvStep
<1> QED
  BY <1>1, <1>2, PTL DEF FramesSpec

\* With messages of one size the frames in memory implement RingPositions, and every
\* frame a poll finds ends at or below producer_pos: poll() does not compare the
\* new cursor with it, and need not (ImplementsPositions).
THEOREM FramesImplementPositions ==
  ASSUME OneFrameSize PROVE FramesSpec => ImplementsPositions
<1>1. PICK n \in Nat \ {0} : OneSize(n)
  BY DEF OneFrameSize
<1>2. FramesSpec => []FramesInv(n)
  BY <1>1, FramesInvAlways
<1>3. FramesInit => Init
  BY DEF FramesInit
<1>4. FramesInv(n) /\ FramesInv(n)' /\ [FramesNext]_<<vars, frames>>
        => [Next /\ \A i \in Slots : cursor'[i] <= producer_pos']_vars
  <2>1. FramesInv(n) /\ [FramesNext]_<<vars, frames>> => [Next]_vars
    BY <1>1, FramesStepMaps
  <2>2. FramesInv(n)' => \A i \in Slots : cursor'[i] <= producer_pos'
    BY DEF FramesInv, CursorsOK
  <2> QED
    BY <2>1, <2>2
<1> QED
  BY <1>2, <1>3, <1>4, PTL DEF FramesSpec, ImplementsPositions

\* With messages of one size no subscriber takes a slot over whose cursor is past
\* producer_pos: the exception of CachedMinSafe never occurs.
THEOREM NobodyInherits ==
  ASSUME OneFrameSize PROVE FramesSpec => [](\A p \in Processes : ~inherited[p])
<1>1. PICK n \in Nat \ {0} : OneSize(n)
  BY DEF OneFrameSize
<1>2. FramesSpec => []FramesInv(n)
  BY <1>1, FramesInvAlways
<1>3. FramesInv(n) => \A p \in Processes : ~inherited[p]
  BY DEF FramesInv, CursorsOK
<1> QED
  BY <1>2, <1>3, PTL

\* isOverrun() never holds of a subscriber: with one size the reserved term is
\* never used, and the writer drops messages first (NeverOverrun).
THEOREM NobodyIsOverrun ==
  ASSUME OneFrameSize PROVE FramesSpec => []NeverOverrun
<1>1. PICK n \in Nat \ {0} : OneSize(n)
  BY DEF OneFrameSize
<1>2. FramesSpec => []FramesInv(n)
  BY <1>1, FramesInvAlways
<1>3. FramesInv(n) => NeverOverrun
  BY DEF FramesInv, NearOK, NeverOverrun
<1> QED
  BY <1>2, <1>3, PTL

\* A committed frame that a subscriber has still to read is in memory as it was
\* committed, on every lap, whatever write() has begun (UnreadFramesIntact).
THEOREM UnreadStaysIntact ==
  ASSUME OneFrameSize PROVE FramesSpec => []UnreadFramesIntact
<1>1. PICK n \in Nat \ {0} : OneSize(n)
  BY DEF OneFrameSize
<1>2. FramesSpec => []FramesInv(n)
  BY <1>1, FramesInvAlways
<1>3. FramesInv(n) => UnreadFramesIntact
  <2> SUFFICES ASSUME FramesInv(n), NEW p \in Processes, NEW m \in Committed,
                      Protected(p), log[m] >= Floor(p)
               PROVE  Intact(m)
    BY DEF UnreadFramesIntact, Intact
  <2>1. /\ producer_pos <= Floor(p) + RingSize /\ Floor(p) \in Nat
        /\ producer_pos \in Nat /\ RingSize \in Nat
    BY FloorType, RingSizeType DEF FramesInv, IndInv, RoomGranted, Protected, TypeOK
  <2>2. log[m] \in Nat
    BY DEF FramesInv, TypesInv, Committed
  <2>3. producer_pos <= log[m] + RingSize
    BY <2>1, <2>2
  <2> QED
    BY <2>3 DEF FramesInv, CommittedOK
<1> QED
  BY <1>2, <1>3, PTL

-----------------------------------------------------------------------------
LapOK(n) ==
  /\ \A l \in Lines : Multiple(n, l) /\ mem[l].length # 0 => \E m \in Committed : log[m] = l
  /\ \A p \in Processes : reading[p].state # "none" =>
       Header(p).length # 0 /\ reading[p].at = seen_cursor[p]

FirstLap(n) == producer_pos <= RingSize => LapOK(n)

\* The frame a poll may find on the first lap.
LEMMA LapFrame ==
  ASSUME NEW n, OneSize(n), FramesInv(n), producer_pos <= RingSize, LapOK(n),
         NEW p \in Processes, pc[p] = "frame", Header(p).length # 0
  PROVE  /\ seen_cursor[p] \in Nat /\ slot[p] \in Slots /\ seen_cursor[p] = cursor[slot[p]]
         /\ Multiple(n, seen_cursor[p]) /\ Line(seen_cursor[p]) = seen_cursor[p]
         /\ \E m \in Committed : log[m] = seen_cursor[p] /\ Intact(m)
<1>1. /\ seen_cursor[p] \in Nat /\ seen_cursor[p] = cursor[slot[p]] /\ slot[p] \in Slots
      /\ seen_cursor[p] < seen_prod[p] /\ seen_prod[p] <= producer_pos
      /\ seen_prod[p] \in Nat /\ producer_pos \in Nat /\ RingSize \in Nat
  BY RingSizeType DEF FramesInv, IndInv, TypeOK, LocalsAgree, SlotsHeld, Holding, ShownLabels,
     CursorsOK, BehindProducer
<1>2. Multiple(n, seen_cursor[p])
  BY <1>1 DEF FramesInv, CursorsOK
<1>3. seen_cursor[p] < RingSize
  BY <1>1
<1>4. Line(seen_cursor[p]) = seen_cursor[p]
  BY <1>1, <1>3, FirstLapLine
<1>5. seen_cursor[p] \in Lines
  BY <1>2, <1>4, AlignedFrame
<1>6. PICK m \in Committed : log[m] = seen_cursor[p]
  BY <1>2, <1>4, <1>5 DEF LapOK, Header
<1>7. Intact(m)
  <2>1. producer_pos <= log[m] + RingSize
    BY <1>1, <1>6
  <2> QED
    BY <2>1 DEF FramesInv, CommittedOK
<1> QED
  BY <1>1, <1>2, <1>4, <1>6, <1>7

\* On the first lap write() gives a length to no line but the one it commits.
LEMMA LapWriter ==
  ASSUME NEW n, OneSize(n), FramesInv(n), LapOK(n), WriteFrame, producer_pos <= RingSize
  PROVE  LapOK(n)'
<1>1. UNCHANGED <<slots, locals, reading, last>>
  BY WriteFrameFrame
<1>2. log \in Seq(Nat) /\ Len(log) \in Nat /\ n \in Nat \ {0} /\ mem \in [Lines -> Contents]
  BY DEF FramesInv, TypesInv, FramesTypeOK, OneSize, Contents
<1>3. /\ \A m \in Committed : m \in Committed' /\ log'[m] = log[m]
      /\ \A l \in Lines : Multiple(n, l) /\ mem[l].length # 0 => mem'[l].length # 0
      /\ \A l \in Lines : Multiple(n, l) /\ mem'[l].length # 0 =>
            mem[l].length # 0 \/ \E m \in Committed' : log'[m] = l
  <2>1. CASE StartWrite /\ ~(FrameType \/ FramePayload \/ Commit)
    BY <1>2, <2>1, OtherWriteEffect DEF Committed
  <2>2. CASE Claim
    <3>1. /\ Committed = 1 .. Len(log) /\ Committed' = 1 .. Len(log)
          /\ \A m \in Committed : log'[m] = log[m]
      BY <1>2, <2>2, ClaimEffect DEF Committed
    <3>2. mem' = mem
      BY <2>2, ClaimEffect
    <3> QED
      BY <3>1, <3>2
  <2>3. CASE FrameType \/ FramePayload \/ Commit
    <3> DEFINE L == Line(claimed)
    <3>1. /\ pc[Writer] = "fill" /\ log' = log
          /\ \A l \in Lines : Multiple(n, l) /\ l # L => mem'[l] = mem[l]
      BY <2>3, FillEffect
    <3>2. /\ Len(log) \in Nat \ {0} /\ claimed \in Nat /\ producer_pos \in Nat
          /\ log[Len(log)] = claimed /\ claimed + n = producer_pos
          /\ Committed = 1 .. Len(log) - 1
      BY <3>1, FillPlace DEF FramesInv, IndInv, TypeOK
    <3>3. L = claimed
      <4>1. claimed < RingSize
        BY <1>2, <3>2, RingSizeType
      <4> QED
        BY <3>2, <4>1, FirstLapLine
    <3>4. CASE Commit
      <4>1. Committed' = 1 .. Len(log) /\ mem'[L].length = n
        BY <3>1, <3>4, FillEffect DEF Committed
      <4>2. Len(log) \in Committed' /\ log'[Len(log)] = L /\ n # 0
        BY <1>2, <3>1, <3>2, <3>3, <4>1
      <4>3. \A m \in Committed : m \in Committed'
        BY <3>2, <4>1
      <4> HIDE DEF L
      <4> QED
        BY <3>1, <4>1, <4>2, <4>3
    <3>5. CASE FrameType \/ FramePayload
      <4>1. Committed' = Committed /\ mem'[L].length = mem[L].length
        BY <3>1, <3>5, FillEffect DEF Committed
      <4> HIDE DEF L
      <4> QED
        BY <3>1, <4>1
    <3> QED
      BY <2>3, <3>4, <3>5
  <2> QED
    BY <2>1, <2>2, <2>3, OtherWriteEffect
<1>4. ASSUME NEW l \in Lines, Multiple(n, l), mem'[l].length # 0
      PROVE  \E m \in Committed' : log'[m] = l
  BY <1>3, <1>4 DEF LapOK
<1>5. ASSUME NEW p \in Processes, reading'[p].state # "none"
      PROVE  Header(p)'.length # 0 /\ reading'[p].at = seen_cursor'[p]
  <2>1. /\ reading[p].state # "none" /\ reading' = reading /\ seen_cursor' = seen_cursor
    BY <1>1, <1>5 DEF locals
  <2>2. Header(p).length # 0 /\ reading[p].at = seen_cursor[p] /\ pc[p] = "frame"
    BY <2>1 DEF LapOK, FramesInv, ReadingOK
  <2>3. Multiple(n, Line(seen_cursor[p])) /\ Line(seen_cursor[p]) \in Lines
    BY <2>2, LapFrame, AlignedFrame
  <2>4. mem'[Line(seen_cursor[p])].length # 0
    BY <1>3, <2>2, <2>3 DEF Header
  <2> QED
    BY <2>1, <2>2, <2>4 DEF Header
<1> QED
  BY <1>4, <1>5 DEF LapOK

\* What a step of poll() finds.
LEMMA LapReader ==
  ASSUME NEW n, OneSize(n), FramesInv(n), LapOK(n), producer_pos <= RingSize,
         NEW p \in Processes, Read(p) \/ Attach(p)
  PROVE  LapOK(n)'
<1> USE DEF At, Goto
<1>0. /\ reading \in [Processes -> Finds] /\ seen_cursor \in [Processes -> Nat]
      /\ p \in Agents
  BY AgentsLemma DEF FramesInv, IndInv, TypeOK, TypesInv, FramesTypeOK, Finds
<1>1. /\ mem' = mem /\ log' = log /\ Committed' = Committed
      /\ \A q \in Processes : Header(q)' = mem[Line(seen_cursor'[q])]
  BY ReaderFrame DEF Committed, Header
<1>2. ASSUME NEW q \in Processes \ {p}
      PROVE  seen_cursor'[q] = seen_cursor[q] /\ reading'[q] = reading[q]
  <2>1. seen_cursor'[q] = seen_cursor[q]
    BY ReaderFrame, SubscriberFrame, AgentsLemma DEF FramesInv, IndInv, vars, locals
  <2>2. reading'[q] = reading[q]
    BY <1>0
    DEF Read, Attach, StartPoll, FindNothing, FindFrame, Handle, SkipPadding, Advance, frames
  <2> QED
    BY <2>1, <2>2
<1>3. ASSUME reading'[p].state # "none"
      PROVE  Header(p)'.length # 0 /\ reading'[p].at = seen_cursor'[p]
  <2>1. CASE FindFrame(p)
    <3>1. PICK length \in LengthsAt(Header(p)) \ {0}, kind \in KindsAt(Header(p)) :
            reading' = [reading EXCEPT ![p] =
              [state |-> "found", length |-> length, kind |-> kind, at |-> Header(p).at]]
      BY <2>1 DEF FindFrame
    <3>2. pc[p] = "frame" /\ seen_cursor' = seen_cursor
      BY <2>1 DEF FindFrame, vars, locals
    <3>3. Header(p).length # 0
      <4>1. Multiple(n, seen_cursor[p])
        BY <3>2
        DEF FramesInv, IndInv, CursorsOK, LocalsAgree, SlotsHeld, Holding, TypeOK, ShownLabels
      <4>2. n \in 0 .. MaxLength /\ 0 \in 0 .. MaxLength
        BY <4>1, AlignedFrame, LengthsBound
      <4>3. Header(p).length # AnyLength
        BY <4>1, <4>2, AlignedFrame, FramesAssumption DEF FramesInv, HeadersOK, Header
      <4> QED
        BY <3>1, <4>3 DEF LengthsAt
    <3>4. Header(p).at = seen_cursor[p]
      BY <3>2, <3>3, LapFrame DEF Intact, Header
    <3> QED
      BY <1>0, <1>1, <3>1, <3>2, <3>3, <3>4 DEF Header
  <2>2. CASE Handle(p)
    <3>1. /\ reading' = [reading EXCEPT ![p] = [reading[p] EXCEPT !.state = "handled"]]
          /\ seen_cursor' = seen_cursor /\ reading[p].state # "none"
      BY <1>0, <2>2 DEF Handle, Found, vars, locals
    <3>2. reading'[p].at = reading[p].at
      BY <1>0, <3>1 DEF Finds
    <3> QED
      BY <1>1, <3>1, <3>2 DEF LapOK, Header
  <2>3. CASE SkipPadding(p) \/ Advance(p)
    <3>1. reading'[p] = NotReading
      BY <1>0, <2>3 DEF SkipPadding, Advance
    <3> QED
      BY <1>3, <3>1 DEF NotReading
  <2>4. CASE FindNothing(p)
    BY <1>0, <1>3, <2>4 DEF FindNothing, NotReading, frames
  <2>5. CASE StartPoll(p) \/ Attach(p)
    <3>1. reading' = reading
      BY <2>5 DEF StartPoll, Attach, frames
    <3>2. pc[p] = "frame" /\ Header(p).length # 0 /\ reading[p].at = seen_cursor[p]
      BY <1>3, <3>1 DEF LapOK, FramesInv, ReadingOK
    <3>3. seen_cursor' = seen_cursor
      <4>1. slot[p] # NoSlot
        BY <3>2 DEF FramesInv, IndInv, SlotsHeld, Holding, ShownLabels
      <4> QED
        BY <2>5, <3>2
        DEF StartPoll, PollNothing, PollLoad, PollOverrun, Attach,
            Register, RegisterStart, RegisterTaken, RegisterClaim, RegisterPid, RegisterGenLoad,
            RegisterGenStore, RegisterLoadPosition, RegisterStoreCursor, RegisterHeartbeat,
            RegisterStoreMin, RegisterReturn, ScanStart, ScanSlot, ScanStore,
            Unregister, UnregisterCheck, UnregisterClear, UnregisterStoreMin, vars, locals
    <3> QED
      BY <1>1, <3>1, <3>2, <3>3 DEF Header
  <2> QED
    BY <2>1, <2>2, <2>3, <2>4, <2>5 DEF Read
<1>4. \A l \in Lines : Multiple(n, l) /\ mem'[l].length # 0 => \E m \in Committed' : log'[m] = l
  BY <1>1 DEF LapOK
<1>5. ASSUME NEW q \in Processes, reading'[q].state # "none"
      PROVE  Header(q)'.length # 0 /\ reading'[q].at = seen_cursor'[q]
  <2>1. CASE q = p
    BY <1>3, <1>5, <2>1
  <2>2. CASE q # p
    BY <1>1, <1>2, <1>5, <2>2 DEF LapOK, Header
  <2> QED
    BY <2>1, <2>2
<1> QED
  BY <1>4, <1>5 DEF LapOK

\* No line has a length at the start.
LEMMA FirstLapInit ==
  ASSUME NEW n, OneSize(n), FramesInit PROVE FirstLap(n)
BY DEF FramesInit, FirstLap, LapOK, Blank, NotReading

\* Every step of the first lap keeps its invariant.
LEMMA FirstLapStep ==
  ASSUME NEW n, OneSize(n), FramesInv(n), FirstLap(n), [FramesNext]_<<vars, frames>>
  PROVE  FirstLap(n)'
<1> SUFFICES ASSUME producer_pos' <= RingSize PROVE LapOK(n)'
  BY DEF FirstLap
<1>1. producer_pos <= RingSize
  <2>1. producer_pos \in Nat /\ RingSize \in Nat /\ n \in Nat \ {0}
    BY RingSizeType DEF FramesInv, IndInv, TypeOK, OneSize
  <2>2. CASE WriteFrame
    BY <2>1, <2>2, ClaimEffect, FillEffect, OtherWriteEffect
  <2>3. ASSUME NEW p \in Processes, Read(p) \/ Attach(p) PROVE producer_pos' = producer_pos
    BY <2>3, ReaderFrame
  <2>4. CASE UNCHANGED <<vars, frames>>
    BY <2>1, <2>4 DEF vars, header
  <2> QED
    BY <2>1, <2>2, <2>3, <2>4 DEF FramesNext
<1>2. LapOK(n)
  BY <1>1 DEF FirstLap
<1>3. CASE UNCHANGED <<vars, frames>>
  BY <1>2, <1>3 DEF LapOK, Committed, Header, vars, frames, locals
<1> QED
  BY <1>1, <1>2, <1>3, LapWriter, LapReader DEF FramesNext

\* So it holds until the ring comes round.
LEMMA FirstLapAlways ==
  ASSUME NEW CONSTANT n, OneSize(n)
  PROVE  FramesSpec => []FirstLap(n)
<1>1. FramesInit => FirstLap(n)
  BY FirstLapInit
<1>2. FramesInv(n) /\ FirstLap(n) /\ [FramesNext]_<<vars, frames>> => FirstLap(n)'
  BY FirstLapStep
<1>3. FramesSpec => []FramesInv(n)
  BY FramesInvAlways
<1> QED
  BY <1>1, <1>2, <1>3, PTL DEF FramesSpec

\* Until the writer has gone round the ring, a poll takes only a frame whose length
\* was stored for the very position it reads: the length is the publication
\* barrier (OnlyPublishedFrames). The run frames_second_lap shows that this ends
\* with the first lap.
THEOREM FirstLapIsPublished ==
  ASSUME OneFrameSize
  PROVE  FramesSpec => [](producer_pos <= RingSize => OnlyPublishedFrames)
<1>1. PICK n \in Nat \ {0} : OneSize(n)
  BY DEF OneFrameSize
<1>2. FramesSpec => []FirstLap(n)
  BY <1>1, FirstLapAlways
<1>3. FirstLap(n) => (producer_pos <= RingSize => OnlyPublishedFrames)
  BY DEF FirstLap, LapOK, OnlyPublishedFrames
<1> QED
  BY <1>2, <1>3, PTL

-----------------------------------------------------------------------------
(***************************************************************************)
(* The feed: where a subscriber stands in the log of messages.             *)
(***************************************************************************)
NextOf(p) == IF Anchored(p) THEN NextMessage(p) ELSE 0

\* The log of frames of size n: as many messages lie below n * j.
LEMMA CountBelow ==
  ASSUME NEW n \in Nat \ {0}, NEW s \in Seq(Nat), \A m \in 1 .. Len(s) : s[m] = n * (m - 1),
         NEW j \in 0 .. Len(s)
  PROVE  Cardinality({m \in DOMAIN s : s[m] < n * j}) = j
<1>1. Len(s) \in Nat /\ DOMAIN s = 1 .. Len(s) /\ j \in Nat /\ j <= Len(s)
  OBVIOUS
<1>2. ASSUME NEW m \in 1 .. Len(s) PROVE s[m] < n * j <=> m <= j
  <2>1. m - 1 \in Nat /\ m \in Nat /\ s[m] = n * (m - 1) /\ n * (m - 1) \in Nat /\ n * j \in Nat
    BY <1>1
  <2>2. CASE m <= j
    <3>1. m * n <= j * n /\ m * n = n * (m - 1) + n /\ j * n = n * j
      BY <1>1, <2>1, <2>2, TimesMonotone
    <3> QED
      BY <2>1, <2>2, <3>1
  <2>3. CASE j <= m - 1
    <3>1. j * n <= (m - 1) * n /\ (m - 1) * n = n * (m - 1) /\ j * n = n * j
      BY <1>1, <2>1, <2>3, TimesMonotone
    <3> QED
      BY <1>1, <2>1, <2>3, <3>1
  <2> QED
    BY <1>1, <2>1, <2>2, <2>3
<1>3. {m \in DOMAIN s : s[m] < n * j} = 1 .. j
  BY <1>1, <1>2
<1>4. Cardinality(1 .. j) = j
  BY <1>1, FS_Interval
<1> QED
  BY <1>3, <1>4

\* Where an anchored subscriber stands in the log.
LEMMA FloorInLog ==
  ASSUME NEW n, OneSize(n), FramesInv(n), NEW p \in Processes, Anchored(p)
  PROVE  \E j \in 0 .. Len(log) : Floor(p) = n * j
<1>1. Floor(p) \in Nat /\ slot[p] \in Slots
  BY FloorType DEF FramesInv, IndInv
<1>2. Multiple(n, Floor(p)) /\ Floor(p) <= producer_pos
  BY <1>1 DEF FramesInv, CursorsOK, IndInv, BehindProducer, Floor
<1>3. PICK j \in Nat : Floor(p) = n * j
  BY <1>2 DEF Multiple
<1>4. n \in Nat \ {0} /\ Len(log) \in Nat /\ producer_pos = n * Len(log)
  BY DEF OneSize, FramesInv, TypesInv, WriterOK
<1>5. j <= Len(log)
  <2>1. CASE Len(log) + 1 <= j
    <3>1. /\ (Len(log) + 1) * n <= j * n /\ (Len(log) + 1) * n = n * Len(log) + n
          /\ j * n = n * j /\ n * Len(log) \in Nat
      BY <1>4, <2>1, TimesMonotone
    <3> QED
      BY <1>2, <1>3, <1>4, <3>1
  <2> QED
    BY <1>4, <2>1
<1> QED
  BY <1>3, <1>4, <1>5

\* The log is the multiples of n below producer_pos.
LEMMA LogShape ==
  ASSUME NEW n, OneSize(n), FramesInv(n)
  PROVE  /\ n \in Nat \ {0} /\ log \in Seq(Nat) /\ Len(log) \in Nat /\ DOMAIN log = 1 .. Len(log)
         /\ \A m \in 1 .. Len(log) : log[m] = n * (m - 1)
         /\ producer_pos = n * Len(log)
BY DEF OneSize, FramesInv, TypesInv, WriterOK

\* The message a subscriber gets next, from where it stands.
LEMMA NextInLog ==
  ASSUME NEW n, OneSize(n), FramesInv(n), NEW p \in Processes,
         NEW j \in 0 .. Len(log), Floor(p) = n * j
  PROVE  /\ reading[p].state = "handled" => NextMessage(p) = j + 2
         /\ reading[p].state # "handled" => NextMessage(p) = j + 1
<1>1. /\ n \in Nat \ {0} /\ log \in Seq(Nat)
      /\ \A m \in 1 .. Len(log) : log[m] = n * (m - 1)
  BY LogShape
<1>2. Cardinality({m \in DOMAIN log : log[m] < n * j}) = j
  BY <1>1, CountBelow
<1>3. Cardinality({m \in DOMAIN log : log[m] < Floor(p)}) = j
  BY <1>2
<1> QED
  BY <1>3 DEF NextMessage

-----------------------------------------------------------------------------
\* A step of another agent that publishes nothing leaves a subscriber's place.
LEMMA SamePlace ==
  ASSUME NEW q \in Processes, log' = log, Anchored(q)' <=> Anchored(q),
         Anchored(q) => Floor(q)' = Floor(q),
         reading'[q].state = "handled" <=> reading[q].state = "handled"
  PROVE  NextOf(q)' = NextOf(q)
BY DEF NextOf, NextMessage

\* A claim publishes a message that is next for nobody who has still to read.
LEMMA PlaceAtClaim ==
  ASSUME NEW n, OneSize(n), FramesInv(n), Claim, NEW q \in Processes
  PROVE  NextOf(q)' = NextOf(q)
<1>1. /\ UNCHANGED <<slots, locals, reading, last>> /\ pc'[q] = pc[q]
  BY WriteFrameFrame DEF WriteFrame
<1>2. (Anchored(q)' <=> Anchored(q)) /\ Floor(q)' = Floor(q)
  BY <1>1 DEF Anchored, Holding, Floor, slots, locals
<1>3. ASSUME Anchored(q)
      PROVE  {m \in DOMAIN log' : log'[m] < Floor(q)'} = {m \in DOMAIN log : log[m] < Floor(q)}
  <2>1. Floor(q) <= producer_pos /\ Floor(q) \in Nat /\ producer_pos \in Nat
    BY <1>3, FloorType DEF FramesInv, IndInv, BehindProducer, CursorsOK, Floor, TypeOK
  <2>2. /\ DOMAIN log' = 1 .. Len(log) + 1 /\ DOMAIN log = 1 .. Len(log) /\ Len(log) \in Nat
        /\ \A m \in 1 .. Len(log) : log'[m] = log[m]
        /\ log'[Len(log) + 1] = producer_pos
    <3>1. log' = Append(log, producer_pos)
      BY ClaimEffect
    <3>2. log \in Seq(Nat) /\ Len(log) \in Nat /\ DOMAIN log = 1 .. Len(log)
      BY LogShape
    <3>3. log' \in Seq(Nat) /\ Len(log') = Len(log) + 1
      BY <2>1, <3>1, <3>2
    <3> QED
      BY <2>1, <3>1, <3>2, <3>3
  <2> QED
    BY <1>2, <2>1, <2>2
<1>4. NextMessage(q)' = NextMessage(q) \/ ~Anchored(q)
  BY <1>1, <1>3 DEF NextMessage
<1> QED
  BY <1>2, <1>4 DEF NextOf

\* What a subscriber's step may do to its place: join, leave, read, or nothing.
LEMMA ReaderFloor ==
  ASSUME NEW n, OneSize(n), FramesInv(n), NEW p \in Processes, Read(p) \/ Attach(p)
  PROVE  \/ RegisterLoadPosition(p)
         \/ SkipPadding(p) \/ Advance(p)
         \/ ~Anchored(p)'
         \/ Anchored(p) /\ Floor(p)' = Floor(p)
<1> DEFINE Goal == ~Anchored(p)' \/ (Anchored(p) /\ Floor(p)' = Floor(p))
<1> USE DEF vars, slots, locals, Goto, At
<1>1. TypeOK /\ p \in Agents /\ ~jumped[p]
  BY AgentsLemma DEF FramesInv, IndInv, NearOK
<1>2. ASSUME pc[p] \notin ClaimingLabels, slot'[p] = slot[p], cursor' = cursor, jumped' = jumped,
             \/ seen_prod' = seen_prod /\ pc' = pc
             \/ pc[p] # "cursor" /\ pc'[p] # "cursor"
      PROVE  Goal
  BY <1>2 DEF Anchored, Holding, Floor
<1>3. CASE ScanStart(p) \/ ScanSlot(p)
  BY <1>1, <1>2, <1>3 DEF ScanStart, ScanSlot, TypeOK, ClaimingLabels
<1>4. CASE RegisterStart(p) \/ RegisterTaken(p)
  BY <1>1, <1>2, <1>4 DEF RegisterStart, RegisterTaken, TypeOK, ClaimingLabels
<1>5. CASE RegisterClaim(p) \/ RegisterPid(p) \/ RegisterGenLoad(p) \/ RegisterGenStore(p)
  BY <1>1, <1>5 DEF RegisterClaim, RegisterPid, RegisterGenLoad, RegisterGenStore,
     TypeOK, Anchored, ClaimingLabels
<1>6. CASE RegisterStoreCursor(p)
  <2>1. /\ slot' = slot /\ jumped' = jumped /\ pc[p] = "cursor" /\ pc'[p] = "heartbeat"
        /\ cursor' = [cursor EXCEPT ![slot[p]] = seen_prod[p]]
    BY <1>1, <1>6 DEF RegisterStoreCursor, TypeOK
  <2>2. slot[p] \in Slots
    BY <1>1, <2>1 DEF FramesInv, IndInv, SlotsHeld, Holding, TypeOK
  <2>3. Floor(p) = seen_prod[p] /\ Floor(p)' = seen_prod[p]
    BY <1>1, <2>1, <2>2 DEF Floor, TypeOK
  <2> QED
    BY <2>1, <2>3 DEF Anchored, Holding, ClaimingLabels
<1>7. CASE RegisterHeartbeat(p) \/ RegisterStoreMin(p) \/ RegisterReturn(p)
  BY <1>1, <1>2, <1>7
  DEF RegisterHeartbeat, RegisterStoreMin, ScanStore, RegisterReturn, TypeOK, ClaimingLabels
<1>8. CASE PollNothing(p) \/ PollLoad(p) \/ PollUncommitted(p)
  BY <1>1, <1>2, <1>8 DEF PollNothing, PollLoad, PollUncommitted, TypeOK, ClaimingLabels
<1>9. CASE PollOverrun(p)
  <2>1. ~IsOverrun(seen_cursor[p])
    BY <1>9, NobodyOverrun DEF PollOverrun, FramesInv
  <2> QED
    BY <1>1, <1>2, <1>9, <2>1 DEF PollOverrun, TypeOK, ClaimingLabels
<1>10. CASE UnregisterCheck(p) \/ UnregisterStoreMin(p)
  <2>1. CASE slot' = slot
    BY <1>1, <1>2, <1>10, <2>1
    DEF UnregisterCheck, UnregisterStoreMin, ScanStore, TypeOK, ClaimingLabels
  <2>2. CASE slot' # slot
    BY <1>1, <1>10, <2>2 DEF UnregisterCheck, UnregisterStoreMin, ScanStore, TypeOK, Anchored, Holding
  <2> QED
    BY <2>1, <2>2
<1>11. CASE UnregisterClear(p)
  BY <1>1, <1>11 DEF UnregisterClear, TypeOK, Anchored, Holding
<1>12. CASE UNCHANGED vars
  BY <1>1, <1>12 DEF Anchored, Holding, Floor
<1> QED
  BY <1>3, <1>4, <1>5, <1>6, <1>7, <1>8, <1>9, <1>10, <1>11, <1>12
  DEF Read, StartPoll, FindNothing, FindFrame, Handle, Attach, Register, Unregister

-----------------------------------------------------------------------------
(***************************************************************************)
(* The steps of the feed.                                                  *)
(***************************************************************************)
\* A subscriber's step leaves the places of the others.
LEMMA OthersPlaces ==
  ASSUME NEW n, OneSize(n), FramesInv(n), NEW p \in Processes, Read(p) \/ Attach(p),
         NEW q \in Processes \ {p}
  PROVE  NextOf(q)' = NextOf(q)
<1>1. /\ reading \in [Processes -> Finds] /\ log' = log
      /\ TypeOK /\ SlotsHeld /\ SlotExclusive
      /\ Subscriber(p) \/ UNCHANGED vars
  BY ReaderFrame DEF FramesInv, IndInv, TypesInv, FramesTypeOK, Finds
<1>2. reading'[q] = reading[q]
  BY <1>1
  DEF Read, Attach, StartPoll, FindNothing, FindFrame, Handle, SkipPadding, Advance, frames
<1>3. CASE Subscriber(p)
  <2>1. /\ pc'[q] = pc[q] /\ slot'[q] = slot[q] /\ jumped'[q] = jumped[q]
        /\ seen_prod'[q] = seen_prod[q]
    BY <1>1, <1>3, SubscriberFrame, AgentsLemma
  <2>2. Anchored(q)' <=> Anchored(q)
    BY <2>1 DEF Anchored, Holding
  <2>3. Anchored(q) => Floor(q)' = Floor(q)
    BY <1>1, <1>3, <2>1, OthersCursor DEF Anchored, Floor
  <2> QED
    BY <1>1, <1>2, <2>2, <2>3, SamePlace
<1>4. CASE UNCHANGED vars
  <2>1. (Anchored(q)' <=> Anchored(q)) /\ Floor(q)' = Floor(q)
    BY <1>4 DEF Anchored, Holding, Floor, vars, slots, locals
  <2> QED
    BY <1>1, <1>2, <2>1, SamePlace
<1> QED
  BY <1>1, <1>3, <1>4

\* The handler is given the next message.
LEMMA HandlePlace ==
  ASSUME NEW n, OneSize(n), FramesInv(n), LapOK(n), producer_pos <= RingSize,
         NEW p \in Processes, Handle(p)
  PROVE  /\ NextOf(p) \in 1 .. Len(log) /\ log' = log
         /\ last' = [last EXCEPT ![p] = NextOf(p)]
         /\ NextOf(p)' = NextOf(p) + 1
<1>1. /\ pc[p] = "frame" /\ reading[p].state = "found"
      /\ reading' = [reading EXCEPT ![p].state = "handled"]
      /\ last' = [last EXCEPT ![p] = Header(p).message]
      /\ UNCHANGED vars /\ log' = log
  BY DEF Handle, Found, At
<1>2. reading[p] \in Finds /\ reading'[p].state = "handled"
  BY <1>1 DEF FramesInv, TypesInv, FramesTypeOK, Finds
<1>3. Header(p).length # 0
  BY <1>1 DEF LapOK
<1>4. /\ seen_cursor[p] = cursor[slot[p]] /\ Line(seen_cursor[p]) = seen_cursor[p]
      /\ \E m \in Committed : log[m] = seen_cursor[p] /\ Intact(m)
  BY <1>1, <1>3, LapFrame
<1>5. PICK m \in Committed : log[m] = seen_cursor[p] /\ Intact(m)
  BY <1>4
<1>6. Header(p).message = m
  BY <1>4, <1>5 DEF Intact, Header
<1>7. Anchored(p) /\ Floor(p) = seen_cursor[p]
  BY <1>1, <1>4
  DEF Anchored, Floor, Holding, FramesInv, IndInv, SlotsHeld, ShownLabels, ClaimingLabels, NearOK
<1>8. /\ m \in 1 .. Len(log) /\ m - 1 \in 0 .. Len(log) /\ log[m] = n * (m - 1)
      /\ Len(log) \in Nat
  BY LogShape DEF Committed
<1>9. NextMessage(p) = m
  <2>1. Floor(p) = n * (m - 1)
    BY <1>5, <1>7, <1>8
  <2>2. NextMessage(p) = (m - 1) + 1
    BY <1>1, <1>8, <2>1, NextInLog
  <2> QED
    BY <1>8, <2>2
<1>10. Anchored(p)' /\ Floor(p)' = Floor(p)
  BY <1>1, <1>7 DEF Anchored, Holding, Floor, vars, slots, locals
<1>11. NextMessage(p)' = m + 1
  <2>1. Cardinality({k \in DOMAIN log : log[k] < Floor(p)}) = m - 1
    <3>1. n \in Nat \ {0} /\ log \in Seq(Nat) /\ \A k \in 1 .. Len(log) : log[k] = n * (k - 1)
      BY LogShape
    <3>2. Cardinality({k \in DOMAIN log : log[k] < n * (m - 1)}) = m - 1
      BY <1>8, <3>1, CountBelow
    <3> QED
      BY <1>5, <1>7, <1>8, <3>2
  <2>2. NextMessage(p)' = (m - 1) + 2
    BY <1>1, <1>2, <1>10, <2>1 DEF NextMessage
  <2> QED
    BY <1>8, <2>2
<1> QED
  BY <1>1, <1>6, <1>7, <1>8, <1>9, <1>10, <1>11 DEF NextOf

\* The store of the cursor accounts for the message the handler was given.
LEMMA AdvancePlace ==
  ASSUME NEW n, OneSize(n), FramesInv(n), FramesInv(n)',
         NEW p \in Processes, SkipPadding(p) \/ Advance(p)
  PROVE  NextOf(p)' = NextOf(p) /\ log' = log /\ last' = last
<1>1. /\ Advance(p) /\ PollAdvance(p, n, TRUE) /\ pc[p] = "frame"
      /\ seen_cursor[p] = cursor[slot[p]]
  BY AdvanceIsPoll
<1>2. /\ reading \in [Processes -> Finds] /\ TypeOK /\ slot[p] \in Slots /\ p \in Agents
      /\ log' = log /\ last' = last
  BY <1>1, AgentsLemma
  DEF FramesInv, IndInv, TypesInv, FramesTypeOK, Finds, TypeOK, SlotsHeld, Holding, ShownLabels,
      Advance
<1>3. reading[p].state = "handled" /\ reading'[p].state # "handled"
  <2>1. reading[p].state = "handled"
    BY <1>1 DEF Advance, Found, FramesInv, ReadingOK
  <2>2. reading'[p] = NotReading
    BY <1>1, <1>2 DEF Advance
  <2> QED
    BY <2>1, <2>2 DEF NotReading
<1>4. Anchored(p) /\ Floor(p) = seen_cursor[p]
  BY <1>1
  DEF Anchored, Floor, Holding, FramesInv, IndInv, SlotsHeld, ShownLabels, ClaimingLabels, NearOK
<1>5. /\ slot' = slot /\ jumped' = jumped /\ pc'[p] = "ready"
      /\ cursor'[slot[p]] = seen_cursor[p] + n
  BY <1>1, <1>2 DEF PollAdvance, TypeOK, Goto
<1>6. Anchored(p)' /\ Floor(p)' = Floor(p) + n
  BY <1>4, <1>5 DEF Anchored, Holding, Floor, ClaimingLabels
<1>7. PICK j \in 0 .. Len(log) : Floor(p) = n * j
  BY <1>4, FloorInLog
<1>8. /\ n \in Nat \ {0} /\ log \in Seq(Nat) /\ Len(log) \in Nat
      /\ \A k \in 1 .. Len(log) : log[k] = n * (k - 1)
      /\ producer_pos = n * Len(log)
  BY LogShape
<1>9. Floor(p)' = n * (j + 1)
  BY <1>6, <1>7, <1>8
<1>10. j + 1 \in 0 .. Len(log)
  <2>1. Floor(p)' <= producer_pos' /\ producer_pos' = producer_pos
    BY <1>1, <1>2, <1>5, <1>6 DEF FramesInv, CursorsOK, Floor, PollAdvance, header
  <2>2. CASE Len(log) + 1 <= j
    BY <1>7, <1>8, <2>2
  <2>3. CASE j = Len(log)
    <3>1. n * (Len(log) + 1) = n * Len(log) + n /\ n * Len(log) \in Nat
      BY <1>8
    <3> QED
      BY <1>8, <1>9, <2>1, <2>3, <3>1
  <2> QED
    BY <1>7, <1>8, <2>2, <2>3
<1>11. NextMessage(p) = j + 2
  BY <1>3, <1>7, NextInLog
<1>12. NextMessage(p)' = (j + 1) + 1
  <2>1. Cardinality({k \in DOMAIN log : log[k] < n * (j + 1)}) = j + 1
    BY <1>8, <1>10, CountBelow
  <2>2. Cardinality({k \in DOMAIN log' : log'[k] < Floor(p)'}) = j + 1
    BY <1>2, <1>9, <2>1
  <2> QED
    BY <1>3, <2>2 DEF NextMessage
<1> QED
  BY <1>2, <1>4, <1>6, <1>7, <1>8, <1>11, <1>12 DEF NextOf

\* A subscriber joins when it loads producer_pos.
LEMMA JoinPlace ==
  ASSUME NEW n, OneSize(n), FramesInv(n), NEW p \in Processes, RegisterLoadPosition(p),
         UNCHANGED frames
  PROVE  NextOf(p) = 0 /\ NextOf(p)' = Len(log) + 1 /\ log' = log /\ last' = last
<1>1. /\ pc[p] = "position" /\ pc'[p] = "cursor" /\ slot' = slot /\ jumped' = jumped
      /\ seen_prod'[p] = producer_pos /\ UNCHANGED frames
  BY AgentsLemma DEF RegisterLoadPosition, At, Goto, FramesInv, IndInv, TypeOK
<1>2. ~Anchored(p)
  BY <1>1 DEF Anchored, ClaimingLabels
<1>3. Anchored(p)' /\ Floor(p)' = producer_pos
  BY <1>1
  DEF Anchored, Holding, Floor, FramesInv, IndInv, SlotsHeld, NearOK, ClaimingLabels
<1>4. /\ n \in Nat \ {0} /\ log \in Seq(Nat) /\ Len(log) \in Nat
      /\ \A k \in 1 .. Len(log) : log[k] = n * (k - 1)
      /\ producer_pos = n * Len(log)
  BY LogShape
<1>5. Cardinality({k \in DOMAIN log : log[k] < n * Len(log)}) = Len(log)
  <2>1. Len(log) \in 0 .. Len(log)
    BY <1>4
  <2> QED
    BY <1>4, <2>1, CountBelow
<1>6. Cardinality({k \in DOMAIN log' : log'[k] < Floor(p)'}) = Len(log)
  BY <1>1, <1>3, <1>4, <1>5 DEF frames
<1>7. reading'[p].state # "handled"
  BY <1>1 DEF FramesInv, ReadingOK, frames
<1>8. NextMessage(p)' = Len(log) + 1
  BY <1>6, <1>7 DEF NextMessage
<1> QED
  BY <1>1, <1>2, <1>3, <1>8 DEF NextOf, frames

-----------------------------------------------------------------------------
\* What a step is for the feed.
FeedEffect ==
  \/ /\ Len(log') = Len(log) + 1
     /\ \A q \in Processes : NextOf(q)' = NextOf(q)
     /\ last' = last
  \/ /\ log' = log
     /\ \E p \in Processes :
          /\ \A q \in Processes \ {p} : NextOf(q)' = NextOf(q)
          /\ \/ NextOf(p)' = NextOf(p) /\ last' = last
             \/ NextOf(p) = 0 /\ NextOf(p)' = Len(log) + 1 /\ last' = last
             \/ NextOf(p) # 0 /\ NextOf(p)' = 0 /\ last' = last
             \/ /\ NextOf(p) \in 1 .. Len(log) /\ NextOf(p)' = NextOf(p) + 1
                /\ last' = [last EXCEPT ![p] = NextOf(p)]
  \/ log' = log /\ last' = last /\ \A q \in Processes : NextOf(q)' = NextOf(q)

\* A step of write() publishes one message or changes nothing for the feed.
LEMMA WriterFeeds ==
  ASSUME NEW n, OneSize(n), FramesInv(n), WriteFrame
  PROVE  FeedEffect
<1>1. /\ UNCHANGED <<slots, locals, reading, last>>
      /\ \A p \in Processes : pc'[p] = pc[p]
  BY WriteFrameFrame
<1>2. CASE Claim
  <2>1. Len(log') = Len(log) + 1
    <3>1. log' = Append(log, producer_pos) /\ log \in Seq(Nat) /\ producer_pos \in Nat
      BY <1>2, ClaimEffect DEF FramesInv, IndInv, TypesInv, TypeOK
    <3> QED
      BY <3>1
  <2>2. \A q \in Processes : NextOf(q)' = NextOf(q)
    BY <1>2, PlaceAtClaim
  <2> QED
    BY <1>1, <2>1, <2>2 DEF FeedEffect
<1>3. CASE ~Claim
  <2>1. log' = log
    BY <1>3, OtherWriteEffect, FillEffect
  <2>2. ASSUME NEW q \in Processes PROVE NextOf(q)' = NextOf(q)
    <3>1. (Anchored(q)' <=> Anchored(q)) /\ Floor(q)' = Floor(q) /\ reading' = reading
      BY <1>1 DEF Anchored, Holding, Floor, slots, locals
    <3> QED
      BY <2>1, <3>1, SamePlace
  <2> QED
    BY <1>1, <2>1, <2>2 DEF FeedEffect
<1> QED
  BY <1>2, <1>3

\* A subscriber's step is its joining, leaving or being given the next message.
LEMMA ReaderFeeds ==
  ASSUME NEW n, OneSize(n), FramesInv(n), FramesInv(n)', LapOK(n), producer_pos <= RingSize,
         NEW p \in Processes, Read(p) \/ Attach(p)
  PROVE  FeedEffect
<1>1. \A q \in Processes \ {p} : NextOf(q)' = NextOf(q)
  BY OthersPlaces
<1>2. log' = log
  BY ReaderFrame
<1>3. CASE Handle(p)
  BY <1>1, <1>2, <1>3, HandlePlace DEF FeedEffect
<1>4. CASE SkipPadding(p) \/ Advance(p)
  BY <1>1, <1>2, <1>4, AdvancePlace DEF FeedEffect
<1>5. CASE RegisterLoadPosition(p) /\ UNCHANGED frames
  BY <1>1, <1>2, <1>5, JoinPlace DEF FeedEffect
<1>6. CASE ~(Handle(p) \/ SkipPadding(p) \/ Advance(p) \/ RegisterLoadPosition(p))
  <2>1. last' = last
    BY <1>6 DEF Read, Attach, StartPoll, FindNothing, FindFrame, frames
  <2>2. reading'[p].state = "handled" <=> reading[p].state = "handled"
    <3>1. CASE FindFrame(p)
      BY <3>1 DEF FindFrame, NotReading, FramesInv, TypesInv, FramesTypeOK
    <3>2. CASE ~FindFrame(p)
      BY <1>6, <3>2 DEF Read, Attach, StartPoll, FindNothing, frames
    <3> QED
      BY <3>1, <3>2
  <2>3. CASE ~Anchored(p)'
    <3>1. NextOf(p)' = 0
      BY <2>3 DEF NextOf
    <3> QED
      BY <1>1, <1>2, <2>1, <3>1 DEF FeedEffect
  <2>4. CASE Anchored(p)'
    <3>1. Anchored(p) /\ Floor(p)' = Floor(p)
      BY <1>6, <2>4, ReaderFloor
    <3>2. NextOf(p)' = NextOf(p)
      BY <1>2, <2>2, <2>4, <3>1, SamePlace
    <3> QED
      BY <1>1, <1>2, <2>1, <3>2 DEF FeedEffect
  <2> QED
    BY <2>3, <2>4
<1>7. RegisterLoadPosition(p) => UNCHANGED frames
  <2>1. ASSUME RegisterLoadPosition(p), Read(p) PROVE FALSE
    <3>1. pc[p] = "position" /\ pc'[p] = "cursor"
      BY <2>1, AgentsLemma DEF RegisterLoadPosition, At, Goto, FramesInv, IndInv, TypeOK
    <3> QED
      BY <2>1, <3>1
      DEF Read, StartPoll, PollNothing, PollLoad, PollOverrun, FindNothing, FindFrame, Handle, Found,
          SkipPadding, Advance, PollAdvance, At, FramesInv, ReadingOK
  <2> QED
    BY <2>1 DEF Attach
<1> QED
  BY <1>3, <1>4, <1>5, <1>6, <1>7

-----------------------------------------------------------------------------
(***************************************************************************)
(* Before the first lap is over, the ring implements the feed.             *)
(***************************************************************************)
BoundOK ==
  /\ producer_pos <= MaxProducerPos
  /\ pc[Writer] \in {"scan0", "scan", "claim"} => producer_pos + 2 * size <= MaxProducerPos

\* The bound on producer_pos holds at the start.
LEMMA BoundInit == FramesInit => BoundOK
BY PositionsAssumption, AgentsLemma DEF FramesInit, Init, BoundOK

\* No write starts that could pass the bound.
LEMMA BoundStep ==
  ASSUME NEW n, OneSize(n), FramesInv(n), BoundOK, [FramesNext]_<<vars, frames>>
  PROVE  BoundOK'
<1>1. /\ producer_pos \in Nat /\ size \in Nat /\ MaxProducerPos \in Nat /\ n \in Nat \ {0}
      /\ Writer \in Agents
      /\ pc \in [Agents -> WriterLabels \cup JanitorLabels \cup ProcessLabels]
  BY PositionsAssumption, AgentsLemma, GeometryAssumption DEF FramesInv, IndInv, TypeOK, OneSize
<1>2. CASE StartWrite
  <2>1. ASSUME NEW m \in FrameSizes, WriteCheck(m) PROVE BoundOK'
    BY <1>1, <2>1 DEF WriteCheck, BoundOK, header
  <2>2. CASE WriteTooLarge \/ ScanStart(Writer) \/ ScanSlot(Writer)
    BY <1>1, <2>2 DEF WriteTooLarge, ScanStart, ScanSlot, Goto, BoundOK, header, vars
  <2>3. CASE WriteRecheck
    BY <1>1, <2>3 DEF WriteRecheck, ScanStore, Goto, BoundOK
  <2> QED
    BY <1>2, <2>1, <2>2, <2>3 DEF StartWrite
<1>3. CASE Claim
  BY <1>1, <1>3, ClaimEffect DEF BoundOK
<1>4. CASE FrameType \/ FramePayload \/ Commit
  <2>1. /\ producer_pos' = producer_pos /\ pc[Writer] = "fill" /\ pc'[Writer] \in {"fill", "idle"}
    BY <1>4, FillEffect
  <2> QED
    BY <2>1 DEF BoundOK
<1>5. CASE WriteFrame /\ ~(FrameType \/ FramePayload \/ Commit)
  BY <1>2, <1>3, <1>5, OtherWriteEffect
<1>6. ASSUME NEW p \in Processes, Read(p) \/ Attach(p) PROVE BoundOK'
  BY <1>6, ReaderFrame DEF BoundOK
<1>7. CASE UNCHANGED <<vars, frames>>
  BY <1>7 DEF BoundOK, vars, header
<1> QED
  BY <1>4, <1>5, <1>6, <1>7 DEF FramesNext

-----------------------------------------------------------------------------
\* The place of everybody, as the feed sees it.
LEMMA FeedSteps ==
  ASSUME FeedEffect, Len(log) \in Nat, last \in [Processes -> Nat]
  PROVE  [Feed!FeedNext]_(Feed!feed)
<1> DEFINE next == [p \in Processes |-> NextOf(p)]
<1>1. ASSUME \A q \in Processes : NextOf(q)' = NextOf(q) PROVE next' = next
  BY <1>1
<1>2. ASSUME NEW p \in Processes, NEW v, NextOf(p)' = v,
             \A q \in Processes \ {p} : NextOf(q)' = NextOf(q)
      PROVE  next' = [next EXCEPT ![p] = v]
  BY <1>2
<1>3. CASE Len(log') = Len(log) + 1 /\ (\A q \in Processes : NextOf(q)' = NextOf(q)) /\ last' = last
  <2>1. next' = next
    BY <1>1, <1>3
  <2>2. Feed!Publish
    BY <1>3, <2>1 DEF Feed!Publish, NextOf
  <2> QED
    BY <2>2 DEF Feed!FeedNext
<1>4. ASSUME log' = log, last' = last, next' = next
      PROVE  UNCHANGED Feed!feed
  BY <1>4 DEF Feed!feed, NextOf
<1>5. ASSUME log' = log, NEW p \in Processes, \A q \in Processes \ {p} : NextOf(q)' = NextOf(q),
             NextOf(p)' = NextOf(p), last' = last
      PROVE  UNCHANGED Feed!feed
  <2>1. \A q \in Processes : NextOf(q)' = NextOf(q)
    BY <1>5
  <2> QED
    BY <1>1, <1>4, <1>5, <2>1
<1>6. ASSUME log' = log, NEW p \in Processes, \A q \in Processes \ {p} : NextOf(q)' = NextOf(q),
             NextOf(p) = 0, NextOf(p)' = Len(log) + 1, last' = last
      PROVE  Feed!Join(p)
  <2>1. next' = [next EXCEPT ![p] = Len(log) + 1]
    BY <1>2, <1>6
  <2> QED
    BY <1>6, <2>1 DEF Feed!Join, NextOf
<1>7. ASSUME log' = log, NEW p \in Processes, \A q \in Processes \ {p} : NextOf(q)' = NextOf(q),
             NextOf(p) # 0, NextOf(p)' = 0, last' = last
      PROVE  Feed!Leave(p)
  <2>1. next' = [next EXCEPT ![p] = 0]
    BY <1>2, <1>7
  <2> QED
    BY <1>7, <2>1 DEF Feed!Leave, NextOf
<1>8. ASSUME log' = log, NEW p \in Processes, \A q \in Processes \ {p} : NextOf(q)' = NextOf(q),
             NextOf(p) \in 1 .. Len(log), NextOf(p)' = NextOf(p) + 1,
             last' = [last EXCEPT ![p] = NextOf(p)]
      PROVE  Feed!Deliver(p)
  <2>1. next' = [next EXCEPT ![p] = NextOf(p) + 1] /\ next[p] = NextOf(p)
    BY <1>2, <1>8
  <2> QED
    BY <1>8, <2>1 DEF Feed!Deliver, NextOf
<1>9. CASE log' = log /\ last' = last /\ \A q \in Processes : NextOf(q)' = NextOf(q)
  BY <1>1, <1>4, <1>9
<1> HIDE DEF next
<1> QED
  BY <1>3, <1>5, <1>6, <1>7, <1>8, <1>9 DEF FeedEffect, Feed!FeedNext

\* Nothing is published, promised or delivered at the start.
LEMMA FeedInits == FramesInit => Feed!FeedInit
<1> SUFFICES ASSUME FramesInit PROVE Feed!FeedInit
  OBVIOUS
<1>1. Len(log) = 0 /\ last = [p \in Processes |-> 0]
  BY DEF FramesInit
<1>2. \A p \in Processes : ~Anchored(p)
  BY DEF FramesInit, Init, Anchored, Holding
<1> QED
  BY <1>1, <1>2 DEF Feed!FeedInit

\* On a ring that is not lapped every poll is of a published frame (OnlyPublishedFrames).
THEOREM UnlappedIsPublished ==
  ASSUME OneFrameSize, MaxProducerPos <= RingSize
  PROVE  FramesSpec => []OnlyPublishedFrames
<1>1. PICK n \in Nat \ {0} : OneSize(n)
  BY DEF OneFrameSize
<1>2. FramesSpec => []FramesInv(n) /\ [](producer_pos <= RingSize => OnlyPublishedFrames)
  BY <1>1, FramesInvAlways, FirstLapIsPublished
<1>3. FramesInv(n) /\ BoundOK /\ [FramesNext]_<<vars, frames>> => BoundOK'
  BY <1>1, BoundStep
<1>4. FramesInv(n) /\ BoundOK => producer_pos <= RingSize
  BY PositionsAssumption, RingSizeType DEF BoundOK, FramesInv, IndInv, TypeOK
<1> QED
  BY <1>2, <1>3, <1>4, BoundInit, PTL DEF FramesSpec

\* Messages of one size on a ring that is not lapped: the claims, the frames in
\* memory and the polls implement the topic's feed (ImplementsFeed). Whoever
\* subscribes is given every message claimed from then on, once and in order.
THEOREM FramesImplementFeed ==
  ASSUME OneFrameSize, MaxProducerPos <= RingSize
  PROVE  FramesSpec => ImplementsFeed
<1>1. PICK n \in Nat \ {0} : OneSize(n)
  BY DEF OneFrameSize
<1>2. FramesSpec => []FramesInv(n) /\ []FirstLap(n)
  BY <1>1, FramesInvAlways, FirstLapAlways
<1>3. FramesSpec => []BoundOK
  <2>1. FramesInv(n) /\ BoundOK /\ [FramesNext]_<<vars, frames>> => BoundOK'
    BY <1>1, BoundStep
  <2> QED
    BY <1>2, <2>1, BoundInit, PTL DEF FramesSpec
<1>4. /\ FramesInv(n) /\ FramesInv(n)' /\ FirstLap(n) /\ BoundOK
      /\ [FramesNext]_<<vars, frames>>
      => [Feed!FeedNext]_(Feed!feed)
  <2> SUFFICES ASSUME FramesInv(n), FramesInv(n)', FirstLap(n), BoundOK,
                      [FramesNext]_<<vars, frames>>
               PROVE  [Feed!FeedNext]_(Feed!feed)
    OBVIOUS
  <2>1. producer_pos <= RingSize
    BY PositionsAssumption, RingSizeType DEF BoundOK, FramesInv, IndInv, TypeOK
  <2>2. LapOK(n)
    BY <2>1 DEF FirstLap
  <2>3. ASSUME UNCHANGED <<vars, frames>> PROVE FeedEffect
    <3>1. log' = log /\ last' = last /\ reading' = reading
      BY <2>3 DEF frames
    <3>2. \A q \in Processes : (Anchored(q)' <=> Anchored(q)) /\ Floor(q)' = Floor(q)
      BY <2>3 DEF Anchored, Holding, Floor, vars, slots, locals
    <3>3. \A q \in Processes : NextOf(q)' = NextOf(q)
      BY <3>1, <3>2, SamePlace
    <3> QED
      BY <3>1, <3>3 DEF FeedEffect
  <2>4. FeedEffect
    BY <1>1, <2>1, <2>2, <2>3, WriterFeeds, ReaderFeeds DEF FramesNext
  <2> QED
    BY <2>4, FeedSteps DEF FramesInv, TypesInv, FramesTypeOK
<1> QED
  BY <1>2, <1>3, <1>4, FeedInits, PTL DEF FramesSpec, ImplementsFeed, Feed!FeedSpec
=============================================================================
