----------------------------- MODULE RingFrames -----------------------------
(***************************************************************************)
(* The ring of RingPositions with its memory: what write() stores in the   *)
(* cache lines of the term buffers and what poll() loads from them.  Every *)
(* step is a step of RingPositions, or changes only what is new here.      *)
(***************************************************************************)
EXTENDS RingPositions, FiniteSets, Sequences

CONSTANTS
  AnyLength   \* the length field of a line that holds application data

ASSUME FramesAssumption == AnyLength \notin 0 .. MaxLength

VARIABLES
  mem,      \* the cache lines of the mapping
  phase,    \* how far the Writer is with the frame it has claimed
  reading,  \* the frame a poll has found, until its cursor is stored
  log,      \* history: the position claimed for each message, in claim order
  last      \* history: the last message a subscriber's handler was given, or 0

frames == <<mem, phase, reading, log, last>>

Lines == 0 .. RingSize - 1
Kinds == {"none", "data", "padding", "payload"}

\* at: the position the line was last committed for (history).
Blank == [length |-> 0, kind |-> "none", message |-> 0, at |-> -1]

\* A line inside a frame holds application data: read as a frame header it has
\* any length and any type.
Payload == [length |-> AnyLength, kind |-> "payload", message |-> 0, at |-> -1]

NotReading == [state |-> "none", length |-> 0, kind |-> "none", at |-> -1]

-----------------------------------------------------------------------------
(***************************************************************************)
(* write(), after the claim: the padding frame, then the frame's type, its *)
(* payload, and its length last.  Nothing resets the length that an        *)
(* earlier lap left in the line.                                           *)
(***************************************************************************)
StartWrite ==
  /\ \/ \E n \in FrameSizes : WriteCheck(n)
     \/ WriteTooLarge
     \/ ScanStart(Writer)
     \/ ScanSlot(Writer)
     \/ WriteRecheck
  /\ UNCHANGED frames

\* Without padding the claim is the message's place in the log.
Claim ==
  /\ WriteClaim
  /\ log' = IF NeedsPadding(producer_pos, size) THEN log ELSE Append(log, producer_pos)
  /\ UNCHANGED <<mem, phase, reading, last>>

PadType ==
  /\ pc[Writer] = "pad"
  /\ phase = "start"
  /\ mem' = [mem EXCEPT ![Line(claimed)].kind = "padding"]
  /\ phase' = "pad"
  /\ UNCHANGED <<vars, reading, log, last>>

\* Mutant: the padding's length with its operands swapped.
PadFrameNegative ==
  /\ pc[Writer] = "pad"
  /\ phase = "pad"
  /\ mem' = [mem EXCEPT ![Line(claimed)].length = TermOffset(claimed) - TermLength,
                        ![Line(claimed)].at = claimed]
  /\ phase' = "padded"
  /\ UNCHANGED <<vars, reading, log, last>>

PadFrame ==
  /\ pc[Writer] = "pad"
  /\ phase = "pad"
  /\ mem' = [mem EXCEPT ![Line(claimed)].length = TermLength - TermOffset(claimed),
                        ![Line(claimed)].at = claimed]
  /\ phase' = "padded"
  /\ UNCHANGED <<vars, reading, log, last>>

ClaimAgain ==
  /\ WritePad
  /\ phase = "padded"
  /\ phase' = "start"
  /\ log' = Append(log, producer_pos)
  /\ UNCHANGED <<mem, reading, last>>

\* Mutant: the length is stored with the other fields, before the payload.
FrameLengthFirst ==
  /\ pc[Writer] = "fill"
  /\ phase = "start"
  /\ mem' = [mem EXCEPT ![Line(claimed)].kind = "data", ![Line(claimed)].length = size]
  /\ phase' = "typed"
  /\ UNCHANGED <<vars, reading, log, last>>

FrameType ==
  /\ pc[Writer] = "fill"
  /\ phase = "start"
  /\ mem' = [mem EXCEPT ![Line(claimed)].kind = "data"]
  /\ phase' = "typed"
  /\ UNCHANGED <<vars, reading, log, last>>

\* Frames are at most half a term (FrameStaysInTerm), so all lines of the frame
\* are in one term.
FramePayload ==
  /\ pc[Writer] = "fill"
  /\ phase = "typed"
  /\ mem' = [l \in Lines |->
               CASE l = Line(claimed) -> [mem[l] EXCEPT !.message = Len(log)]
                 [] l - Line(claimed) \in 1 .. size - 1 -> Payload
                 [] OTHER -> mem[l]]
  /\ phase' = "copied"
  /\ UNCHANGED <<vars, reading, log, last>>

\* Mutant: the length covers one line more than was claimed.
CommitTooLong ==
  /\ WriteCommit
  /\ phase = "copied"
  /\ mem' = [mem EXCEPT ![Line(claimed)].length = size + 1, ![Line(claimed)].at = claimed]
  /\ phase' = "start"
  /\ UNCHANGED <<reading, log, last>>

\* Mutant: the length is not stored.
CommitNothing ==
  /\ WriteCommit
  /\ phase = "copied"
  /\ phase' = "start"
  /\ UNCHANGED <<mem, reading, log, last>>

Commit ==
  /\ WriteCommit
  /\ phase = "copied"
  /\ mem' = [mem EXCEPT ![Line(claimed)].length = size, ![Line(claimed)].at = claimed]
  /\ phase' = "start"
  /\ UNCHANGED <<reading, log, last>>

WriteFrame ==
  \/ StartWrite
  \/ Claim
  \/ PadType
  \/ PadFrame
  \/ ClaimAgain
  \/ FrameType
  \/ FramePayload
  \/ Commit

-----------------------------------------------------------------------------
(***************************************************************************)
(* poll(), once the cursor is known: load the length, give a data frame to *)
(* the handler, store the cursor.                                          *)
(***************************************************************************)
StartPoll(p) ==
  /\ PollNothing(p) \/ PollLoad(p) \/ PollOverrun(p)
  /\ UNCHANGED frames

Header(p) == mem[Line(seen_cursor[p])]

\* The length and type that a load of the line can return.
LengthsAt(line) == IF line.length = AnyLength THEN 0 .. MaxLength ELSE {line.length}
KindsAt(line) == IF line.kind = "payload" THEN {"data", "padding", "none"} ELSE {line.kind}

FindNothing(p) ==
  /\ pc[p] = "frame"
  /\ reading[p] = NotReading
  /\ 0 \in LengthsAt(Header(p))
  /\ PollUncommitted(p)
  /\ UNCHANGED frames

FindFrame(p) ==
  /\ At(p, "frame")
  /\ reading[p] = NotReading
  /\ \E length \in LengthsAt(Header(p)) \ {0}, kind \in KindsAt(Header(p)) :
       reading' = [reading EXCEPT ![p] =
         [state |-> "found", length |-> length, kind |-> kind, at |-> Header(p).at]]
  /\ UNCHANGED <<vars, mem, phase, log, last>>

Found(p) == At(p, "frame") /\ reading[p].state = "found"

\* The handler reads the payload in place.
Handle(p) ==
  /\ Found(p)
  /\ reading[p].kind = "data"
  /\ reading' = [reading EXCEPT ![p].state = "handled"]
  /\ last' = [last EXCEPT ![p] = Header(p).message]
  /\ UNCHANGED <<vars, mem, phase, log>>

SkipPadding(p) ==
  /\ Found(p)
  /\ reading[p].kind = "padding"
  /\ PollAdvance(p, reading[p].length, FALSE)
  /\ reading' = [reading EXCEPT ![p] = NotReading]
  /\ UNCHANGED <<mem, phase, log, last>>

\* Mutant: the cursor may be stored before the handler is called.
AdvanceUnhandled(p) ==
  /\ \/ reading[p].state = "handled"
     \/ Found(p) /\ reading[p].kind \in {"data", "none"}
  /\ PollAdvance(p, reading[p].length, TRUE)
  /\ reading' = [reading EXCEPT ![p] = NotReading]
  /\ UNCHANGED <<mem, phase, log, last>>

\* The frame was handled, or has a type that no handler is called for.
Advance(p) ==
  /\ \/ reading[p].state = "handled"
     \/ Found(p) /\ reading[p].kind = "none"
  /\ PollAdvance(p, reading[p].length, TRUE)
  /\ reading' = [reading EXCEPT ![p] = NotReading]
  /\ UNCHANGED <<mem, phase, log, last>>

Read(p) ==
  \/ StartPoll(p)
  \/ FindNothing(p)
  \/ FindFrame(p)
  \/ Handle(p)
  \/ SkipPadding(p)
  \/ Advance(p)

Attach(p) ==
  /\ \/ Register(p)
     \/ alive[p] /\ ScanStart(p)
     \/ alive[p] /\ ScanSlot(p)
     \/ Unregister(p)
  /\ UNCHANGED frames

FramesInit ==
  /\ Init
  /\ mem = [l \in Lines |-> Blank]
  /\ phase = "start"
  /\ reading = [p \in Processes |-> NotReading]
  /\ log = << >>
  /\ last = [p \in Processes |-> 0]

FramesNext == WriteFrame \/ \E p \in Processes : Read(p) \/ Attach(p)

FramesSpec == FramesInit /\ [][FramesNext]_<<vars, frames>>

-----------------------------------------------------------------------------
(***************************************************************************)
(* Properties.                                                             *)
(***************************************************************************)

\* Every line, every poll in progress and the history have their types.
FramesTypeOK ==
  /\ TypeOK
  /\ mem \in [Lines -> [length : (0 .. TermLength) \cup {AnyLength}, kind : Kinds,
                        message : Nat, at : Nat \cup {-1}]]
  /\ phase \in {"start", "pad", "padded", "typed", "copied"}
  /\ reading \in [Processes -> [state : {"none", "found", "handled"},
                                length : 0 .. MaxLength,
                                kind : Kinds, at : Nat \cup {-1}]]
  /\ \A i \in DOMAIN log : log[i] \in Nat
  /\ last \in [Processes -> Nat]

\* The messages whose frames are committed: all but the one being written.
Committed == IF pc[Writer] = "fill" THEN 1 .. Len(log) - 1 ELSE 1 .. Len(log)

\* Back-pressure protects the bytes: a committed frame that a subscriber has
\* still to read is in memory as it was committed, whatever the writer has begun.
UnreadFramesIntact ==
  \A p \in Processes, m \in Committed :
    Protected(p) /\ log[m] >= Floor(p) =>
      /\ mem[Line(log[m])].at = log[m]
      /\ mem[Line(log[m])].message = m
      /\ mem[Line(log[m])].kind = "data"

\* "Messages are published atomically using frame_length as publication
\* barrier" (README): a poll that was not overrun takes only a frame whose
\* length was stored for the very position it reads.
OnlyPublishedFrames ==
  \A p \in Processes :
    reading[p].state # "none" /\ ~jumped[p] => reading[p].at = seen_cursor[p]

\* With frames of one size a subscriber is never taken to be overrun: the
\* writer drops messages before it gets that far ahead.
NeverOverrun == \A p \in Processes : ~jumped[p]

\* With frames of one size the ring is that of RingPositions, and no poll takes a
\* cursor past producer_pos: the frame it finds is the one write() put there.
ImplementsPositions ==
  Init /\ [][Next /\ \A i \in Slots : cursor'[i] <= producer_pos']_vars

\* poll(): "Skip to next term", "Consumed padding, try again": the position after
\* padding is one where the writer puts a frame.
PaddingLeadsToFrame ==
  [][\A p \in Processes :
       ~jumped[p] /\ SkipPadding(p) /\ phase # "padded"
         => \/ cursor'[slot[p]] = producer_pos
            \/ \E m \in DOMAIN log : cursor'[slot[p]] = log[m]]_<<vars, frames>>

\* What is left in the log of a subscriber that has chosen its cursor.
NextMessage(p) ==
  Cardinality({m \in DOMAIN log : log[m] < Floor(p)})
    + IF reading[p].state = "handled" THEN 2 ELSE 1

\* The ring implements the feed: joining is the load of producer_pos, delivery
\* is the call of the handler.
Feed == INSTANCE TopicFeed WITH
  published <- Len(log),
  next <- [p \in Processes |-> IF Anchored(p) THEN NextMessage(p) ELSE 0]

ImplementsFeed == Feed!FeedSpec

-----------------------------------------------------------------------------
\* A write that has begun is finished, and messageLoop() polls for ever; nobody
\* has to publish, to register or to unregister.
FinishWrite == pc[Writer] # "idle" /\ WriteFrame

LiveFramesSpec ==
  /\ FramesSpec
  /\ WF_<<vars, frames>>(FinishWrite)
  /\ \A p \in Processes : WF_<<vars, frames>>(Read(p))

\* Whatever is published while a subscriber polls is read, unless it unregisters.
EventuallyRead ==
  \A p \in Processes, m \in 1 .. MaxProducerPos :
    Anchored(p) /\ m \in DOMAIN log /\ pc[p] = "ready"
      ~> ~Anchored(p) \/ pc[p] = "unregister" \/ NextMessage(p) > m
=============================================================================
