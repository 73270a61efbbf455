--------------------------- MODULE RingPositions ---------------------------
(***************************************************************************)
(* The positions of one topic's shared-memory ring: SharedMemoryRingBuffer *)
(* of topic_system.cpp with its header (producer_pos, min_consumer_pos and *)
(* the subscriber slots) but without the contents of the frames, which     *)
(* RingFrames adds.                                                        *)
(*                                                                         *)
(* One Writer thread publishes; every process in Processes may register a  *)
(* subscriber, poll with one thread, unregister, and stop at any point.    *)
(* Each action is one access to the shared header, in program order, so    *)
(* the interleavings are those of the atomics in the code.  Janitor is the *)
(* publisher's heartbeat thread, which SlotMaintenance sets in motion; it  *)
(* never moves under the Spec of this module.                              *)
(***************************************************************************)
EXTENDS RingGeometry

CONSTANTS
  MaxSubscribers,  \* slots in the header (64)
  Processes,       \* subscriber processes, also their process ids
  Writer,          \* the thread that calls write()
  Janitor,         \* the thread that calls checkSubscriberHeartbeats()
  FrameSizes,      \* aligned_size of the messages published, in cache lines
  MaxLength,       \* bound: the longest frame_length a poll can find in a line
  MaxProducerPos,  \* bound: no write starts that could pass this position
  MaxGeneration,   \* bound: no process registers once a slot was claimed so often
  NoSlot,          \* no subscriber handle held
  NoPid            \* pid = 0

Slots == 0 .. MaxSubscribers - 1
Agents == Processes \cup {Writer, Janitor}

ASSUME PositionsAssumption ==
  /\ MaxSubscribers \in Nat \ {0}
  /\ FrameSizes \subseteq Nat \ {0}
  /\ MaxLength \in Nat
  /\ TermLength <= MaxLength
  /\ MaxProducerPos \in Nat
  /\ MaxGeneration \in Nat
  /\ NoSlot \notin Slots
  /\ NoPid \notin Processes
  /\ Writer \notin Processes
  /\ Janitor \notin Processes
  /\ Writer # Janitor

VARIABLES
  \* SharedMemoryHeader
  producer_pos, min_consumer_pos,
  \* SubscriberSlot, one function per field
  active, cursor, last_heartbeat, pid, generation,
  \* control: where each agent is, and which processes still run
  pc, alive,
  \* locals of minOfAllSubscribers() and of the loop over the slots
  scan,
  \* locals of write()
  size, claimed,
  \* the subscriber's handle, and the locals of registerSubscriber() and poll()
  slot, handle, seen_cursor, seen_prod,
  \* history: poll() has moved this subscriber's cursor for an overrun; the slot
  \* still showed its former owner's cursor, past producer_pos, when it was taken over
  jumped, inherited

header == <<producer_pos, min_consumer_pos>>
slots == <<active, cursor, last_heartbeat, pid, generation>>
locals == <<slot, handle, seen_cursor, seen_prod, jumped, inherited>>
vars == <<header, slots, pc, alive, scan, size, claimed, locals>>

-----------------------------------------------------------------------------
WriterLabels == {"idle", "scan0", "scan", "claim", "pad", "fill"}
JanitorLabels == {"idle", "scan0", "scan"}
\* From the compare-exchange on, a process holds a slot; from "cursor" on it has
\* chosen its cursor; from "heartbeat" on the slot shows it.
ClaimingLabels == {"pid", "gen", "gen_store", "position"}
ShownLabels == {"heartbeat", "scan0", "scan", "handle",
                "ready", "overrun", "frame", "unregister"}
ProcessLabels == {"idle", "try", "cursor"} \cup ClaimingLabels \cup ShownLabels

Heartbeats == {"never", "fresh", "stale"}

Goto(a, label) == pc' = [pc EXCEPT ![a] = label]

At(p, label) == alive[p] /\ pc[p] = label

-----------------------------------------------------------------------------
(***************************************************************************)
(* minOfAllSubscribers(): start from producer_pos, then take the least     *)
(* cursor of the active slots, one slot per step.  The load of `active`    *)
(* and of `cursor` are one step: splitting them only adds results that are *)
(* lower still.                                                            *)
(***************************************************************************)
\* Mutant: the loop over the slots starts at the second one.
ScanStartSecond(a) ==
  /\ pc[a] = "scan0"
  /\ scan' = [scan EXCEPT ![a] = [next |-> 1, min |-> producer_pos]]
  /\ Goto(a, "scan")
  /\ UNCHANGED <<header, slots, alive, size, claimed, locals>>

ScanStart(a) ==
  /\ pc[a] = "scan0"
  /\ scan' = [scan EXCEPT ![a] = [next |-> 0, min |-> producer_pos]]
  /\ Goto(a, "scan")
  /\ UNCHANGED <<header, slots, alive, size, claimed, locals>>

\* Mutant: the greatest cursor instead of the least.
ScanSlotGreatest(a) ==
  /\ pc[a] = "scan"
  /\ scan[a].next \in Slots
  /\ LET i == scan[a].next
         greater == active[i] = 1 /\ cursor[i] > scan[a].min
     IN scan' = [scan EXCEPT ![a] =
                   [next |-> i + 1, min |-> IF greater THEN cursor[i] ELSE @.min]]
  /\ UNCHANGED <<header, slots, pc, alive, size, claimed, locals>>

ScanSlot(a) ==
  /\ pc[a] = "scan"
  /\ scan[a].next \in Slots
  /\ LET i == scan[a].next
         lower == active[i] = 1 /\ cursor[i] < scan[a].min
     IN scan' = [scan EXCEPT ![a] =
                   [next |-> i + 1, min |-> IF lower THEN cursor[i] ELSE @.min]]
  /\ UNCHANGED <<header, slots, pc, alive, size, claimed, locals>>

\* The store of the result into min_consumer_pos, where the agent then goes on.
ScanStore(a, label) ==
  /\ pc[a] = "scan"
  /\ scan[a].next = MaxSubscribers
  /\ min_consumer_pos' = scan[a].min
  /\ scan' = [scan EXCEPT ![a] = [next |-> 0, min |-> 0]]
  /\ Goto(a, label)

-----------------------------------------------------------------------------
(***************************************************************************)
(* write(): check for room, claim with fetch_add, pad and claim again when *)
(* the frame does not fit in the term, fill and commit the frame.          *)
(***************************************************************************)
\* Mutant: the size of the frame itself is not counted.
HasRoomBefore(min, n) == producer_pos - min <= TotalCapacity

HasRoom(min, n) == (producer_pos + n) - min <= TotalCapacity

WriteTooLarge ==
  /\ pc[Writer] = "idle"
  /\ \E n \in FrameSizes : n > TermLength
  /\ UNCHANGED vars

\* producerCanWrite(), fast path: against the cached minimum.
WriteCheck(n) ==
  /\ pc[Writer] = "idle"
  /\ n <= TermLength
  /\ producer_pos + 2 * n <= MaxProducerPos
  /\ size' = n
  /\ Goto(Writer, IF HasRoom(min_consumer_pos, n) THEN "claim" ELSE "scan0")
  /\ UNCHANGED <<header, slots, alive, scan, claimed, locals>>

\* producerCanWrite(), slow path: store the true minimum and compare again.
WriteRecheck ==
  /\ ScanStore(Writer, IF HasRoom(scan[Writer].min, size) THEN "claim" ELSE "idle")
  /\ size' = IF HasRoom(scan[Writer].min, size) THEN size ELSE 0
  /\ UNCHANGED <<producer_pos, slots, alive, claimed, locals>>

WriteClaim ==
  /\ pc[Writer] = "claim"
  /\ claimed' = producer_pos
  /\ producer_pos' = producer_pos + size
  /\ Goto(Writer, IF NeedsPadding(producer_pos, size) THEN "pad" ELSE "fill")
  /\ UNCHANGED <<min_consumer_pos, slots, alive, scan, size, locals>>

\* The padding frame is written and the frame is claimed a second time, with
\* no second check.
WritePad ==
  /\ pc[Writer] = "pad"
  /\ claimed' = producer_pos
  /\ producer_pos' = producer_pos + size
  /\ Goto(Writer, "fill")
  /\ UNCHANGED <<min_consumer_pos, slots, alive, scan, size, locals>>

WriteCommit ==
  /\ pc[Writer] = "fill"
  /\ size' = 0
  /\ Goto(Writer, "idle")
  /\ UNCHANGED <<header, slots, alive, scan, claimed, locals>>

Write ==
  \/ \E n \in FrameSizes : WriteCheck(n)
  \/ WriteTooLarge
  \/ ScanStart(Writer)
  \/ ScanSlot(Writer)
  \/ WriteRecheck
  \/ WriteClaim
  \/ WritePad
  \/ WriteCommit

-----------------------------------------------------------------------------
(***************************************************************************)
(* registerSubscriber(): take the first slot whose `active` can be set     *)
(* from 0 to 1, then fill its fields, then refresh min_consumer_pos.       *)
(* scan[p].next is the loop index i until the minimum is computed.         *)
(***************************************************************************)
RegisterStart(p) ==
  /\ At(p, "idle")
  /\ \A i \in Slots : generation[i] < MaxGeneration
  /\ scan' = [scan EXCEPT ![p] = [next |-> 0, min |-> 0]]
  /\ Goto(p, "try")
  /\ UNCHANGED <<header, slots, alive, size, claimed, locals>>

\* On to the next slot; after the last one no slot is free and nothing is claimed.
RegisterTaken(p) ==
  /\ At(p, "try")
  /\ scan[p].next \in Slots
  /\ active[scan[p].next] = 1
  /\ IF scan[p].next + 1 \in Slots
       THEN /\ scan' = [scan EXCEPT ![p] = [next |-> @.next + 1, min |-> 0]]
            /\ UNCHANGED pc
       ELSE /\ scan' = [scan EXCEPT ![p] = [next |-> 0, min |-> 0]]
            /\ Goto(p, "idle")
  /\ UNCHANGED <<header, slots, alive, size, claimed, locals>>

\* Mutant: `active` is stored without the compare.
RegisterClaimBlindly(p) ==
  /\ At(p, "try")
  /\ scan[p].next \in Slots
  /\ active' = [active EXCEPT ![scan[p].next] = 1]
  /\ slot' = [slot EXCEPT ![p] = scan[p].next]
  /\ scan' = [scan EXCEPT ![p] = [next |-> 0, min |-> 0]]
  /\ jumped' = [jumped EXCEPT ![p] = FALSE]
  /\ Goto(p, "pid")
  /\ UNCHANGED <<header, cursor, last_heartbeat, pid, generation, alive, size,
                 claimed, handle, seen_cursor, seen_prod, inherited>>

RegisterClaim(p) ==
  /\ At(p, "try")
  /\ scan[p].next \in Slots
  /\ active[scan[p].next] = 0
  /\ active' = [active EXCEPT ![scan[p].next] = 1]
  /\ slot' = [slot EXCEPT ![p] = scan[p].next]
  /\ scan' = [scan EXCEPT ![p] = [next |-> 0, min |-> 0]]
  /\ jumped' = [jumped EXCEPT ![p] = FALSE]
  /\ Goto(p, "pid")
  /\ UNCHANGED <<header, cursor, last_heartbeat, pid, generation, alive, size,
                 claimed, handle, seen_cursor, seen_prod, inherited>>

\* Mutant: the pid is never stored.
RegisterNoPid(p) ==
  /\ At(p, "pid")
  /\ Goto(p, "gen")
  /\ UNCHANGED <<header, slots, alive, scan, size, claimed, locals>>

RegisterPid(p) ==
  /\ At(p, "pid")
  /\ pid' = [pid EXCEPT ![slot[p]] = p]
  /\ Goto(p, "gen")
  /\ UNCHANGED <<header, active, cursor, last_heartbeat, generation, alive, scan,
                 size, claimed, locals>>

\* generation++ on a plain integer is a load and a store.
RegisterGenLoad(p) ==
  /\ At(p, "gen")
  /\ handle' = [handle EXCEPT ![p] = generation[slot[p]]]
  /\ Goto(p, "gen_store")
  /\ UNCHANGED <<header, slots, alive, scan, size, claimed, slot, seen_cursor,
                 seen_prod, jumped, inherited>>

RegisterGenStore(p) ==
  /\ At(p, "gen_store")
  /\ generation' = [generation EXCEPT ![slot[p]] = handle[p] + 1]
  /\ Goto(p, "position")
  /\ UNCHANGED <<header, active, cursor, last_heartbeat, pid, alive, scan, size,
                 claimed, locals>>

RegisterLoadPosition(p) ==
  /\ At(p, "position")
  /\ seen_prod' = [seen_prod EXCEPT ![p] = producer_pos]
  /\ inherited' = [inherited EXCEPT ![p] = cursor[slot[p]] > producer_pos]
  /\ Goto(p, "cursor")
  /\ UNCHANGED <<header, slots, alive, scan, size, claimed, slot, handle,
                 seen_cursor, jumped>>

RegisterStoreCursor(p) ==
  /\ At(p, "cursor")
  /\ cursor' = [cursor EXCEPT ![slot[p]] = seen_prod[p]]
  /\ seen_prod' = [seen_prod EXCEPT ![p] = 0]
  /\ Goto(p, "heartbeat")
  /\ UNCHANGED <<header, active, last_heartbeat, pid, generation, alive, scan,
                 size, claimed, slot, handle, seen_cursor, jumped, inherited>>

RegisterHeartbeat(p) ==
  /\ At(p, "heartbeat")
  /\ last_heartbeat' = [last_heartbeat EXCEPT ![slot[p]] = "fresh"]
  /\ Goto(p, "scan0")
  /\ UNCHANGED <<header, active, cursor, pid, generation, alive, scan, size,
                 claimed, locals>>

RegisterStoreMin(p) ==
  /\ alive[p]
  /\ slot[p] # NoSlot
  /\ ScanStore(p, "handle")
  /\ UNCHANGED <<producer_pos, slots, alive, size, claimed, locals>>

RegisterReturn(p) ==
  /\ At(p, "handle")
  /\ handle' = [handle EXCEPT ![p] = generation[slot[p]]]
  /\ Goto(p, "ready")
  /\ UNCHANGED <<header, slots, alive, scan, size, claimed, slot, seen_cursor,
                 seen_prod, jumped, inherited>>

Register(p) ==
  \/ RegisterStart(p)
  \/ RegisterTaken(p)
  \/ RegisterClaim(p)
  \/ RegisterPid(p)
  \/ RegisterGenLoad(p)
  \/ RegisterGenStore(p)
  \/ RegisterLoadPosition(p)
  \/ RegisterStoreCursor(p)
  \/ RegisterHeartbeat(p)
  \/ RegisterStoreMin(p)
  \/ RegisterReturn(p)

-----------------------------------------------------------------------------
(***************************************************************************)
(* poll(): one attempt to read the frame at the cursor.  The handler runs  *)
(* between the load of the frame length and the store of the cursor.       *)
(***************************************************************************)
HandleValid(p) == generation[slot[p]] = handle[p]

\* A stale handle, or nothing new: return false.
PollNothing(p) ==
  /\ At(p, "ready")
  /\ ~HandleValid(p) \/ cursor[slot[p]] >= producer_pos
  /\ UNCHANGED vars

\* The loads of the generation, the cursor and producer_pos are one step: the first two
\* are of fields that nobody but the clean-up stores beside this process while it holds
\* the slot.  One thread polls a handle here; PositionDelivery has the second one.
PollLoad(p) ==
  /\ At(p, "ready")
  /\ HandleValid(p)
  /\ cursor[slot[p]] < producer_pos
  /\ seen_cursor' = [seen_cursor EXCEPT ![p] = cursor[slot[p]]]
  /\ seen_prod' = [seen_prod EXCEPT ![p] = producer_pos]
  /\ Goto(p, "overrun")
  /\ UNCHANGED <<header, slots, alive, scan, size, claimed, slot, handle, jumped, inherited>>

\* Mutant: a subscriber exactly the capacity behind counts as overrun.
IsOverrunAtCapacity(c) == producer_pos - c >= TotalCapacity

\* isOverrun() loads producer_pos again; the jump uses the one loaded before.
IsOverrun(c) == producer_pos - c > TotalCapacity

PollOverrun(p) ==
  /\ At(p, "overrun")
  /\ IF IsOverrun(seen_cursor[p])
       THEN /\ seen_cursor' = [seen_cursor EXCEPT ![p] = JumpTarget(seen_prod[p])]
            /\ cursor' = [cursor EXCEPT ![slot[p]] = JumpTarget(seen_prod[p])]
            /\ jumped' = [jumped EXCEPT ![p] = TRUE]
       ELSE UNCHANGED <<seen_cursor, cursor, jumped>>
  /\ Goto(p, "frame")
  /\ UNCHANGED <<header, active, last_heartbeat, pid, generation, alive, scan,
                 size, claimed, slot, handle, seen_prod, inherited>>

PollUncommitted(p) ==
  /\ At(p, "frame")
  /\ seen_cursor' = [seen_cursor EXCEPT ![p] = 0]
  /\ seen_prod' = [seen_prod EXCEPT ![p] = 0]
  /\ Goto(p, "ready")
  /\ UNCHANGED <<header, slots, alive, scan, size, claimed, slot, handle, jumped, inherited>>

\* Mutant: the cursor is set to the frame's length instead of advanced by it.
PollAdvanceRelative(p, length, is_data) ==
  /\ At(p, "frame")
  /\ cursor' = [cursor EXCEPT ![slot[p]] = length]
  /\ last_heartbeat' = [last_heartbeat EXCEPT ![slot[p]] = IF is_data THEN "fresh" ELSE @]
  /\ seen_cursor' = [seen_cursor EXCEPT ![p] = 0]
  /\ seen_prod' = [seen_prod EXCEPT ![p] = 0]
  /\ Goto(p, "ready")
  /\ UNCHANGED <<header, active, pid, generation, alive, scan, size, claimed, slot,
                 handle, jumped, inherited>>

\* A frame of the given length is consumed; only a data frame refreshes the
\* subscriber's heartbeat, padding does not.
PollAdvance(p, length, is_data) ==
  /\ At(p, "frame")
  /\ cursor' = [cursor EXCEPT ![slot[p]] = seen_cursor[p] + length]
  /\ last_heartbeat' = [last_heartbeat EXCEPT ![slot[p]] = IF is_data THEN "fresh" ELSE @]
  /\ seen_cursor' = [seen_cursor EXCEPT ![p] = 0]
  /\ seen_prod' = [seen_prod EXCEPT ![p] = 0]
  /\ Goto(p, "ready")
  /\ UNCHANGED <<header, active, pid, generation, alive, scan, size, claimed, slot,
                 handle, jumped, inherited>>

\* The memory is not modelled here: the frame found has any length and type that a
\* line can be read to have, and the new cursor is not compared with producer_pos.
PollFrame(p) ==
  \E length \in 1 .. MaxLength, is_data \in BOOLEAN : PollAdvance(p, length, is_data)

Poll(p) ==
  \/ PollNothing(p)
  \/ PollLoad(p)
  \/ PollOverrun(p)
  \/ PollUncommitted(p)
  \/ PollFrame(p)

-----------------------------------------------------------------------------
(***************************************************************************)
(* unregisterSubscriber(), once the polling thread was joined: the slot is *)
(* freed only if it still has the handle's generation.                     *)
(***************************************************************************)
UnregisterCheck(p) ==
  /\ At(p, "ready")
  /\ IF HandleValid(p)
       THEN Goto(p, "unregister") /\ UNCHANGED <<slot, handle>>
       ELSE /\ Goto(p, "idle")
            /\ slot' = [slot EXCEPT ![p] = NoSlot]
            /\ handle' = [handle EXCEPT ![p] = 0]
  /\ UNCHANGED <<header, slots, alive, scan, size, claimed, seen_cursor, seen_prod,
                 jumped, inherited>>

\* The history of the subscription ends with it.
UnregisterClear(p) ==
  /\ At(p, "unregister")
  /\ active' = [active EXCEPT ![slot[p]] = 0]
  /\ slot' = [slot EXCEPT ![p] = NoSlot]
  /\ handle' = [handle EXCEPT ![p] = 0]
  /\ jumped' = [jumped EXCEPT ![p] = FALSE]
  /\ inherited' = [inherited EXCEPT ![p] = FALSE]
  /\ Goto(p, "scan0")
  /\ UNCHANGED <<header, cursor, last_heartbeat, pid, generation, alive, scan,
                 size, claimed, seen_cursor, seen_prod>>

UnregisterStoreMin(p) ==
  /\ alive[p]
  /\ slot[p] = NoSlot
  /\ ScanStore(p, "idle")
  /\ UNCHANGED <<producer_pos, slots, alive, size, claimed, locals>>

Unregister(p) ==
  \/ UnregisterCheck(p)
  \/ UnregisterClear(p)
  \/ UnregisterStoreMin(p)

-----------------------------------------------------------------------------
Subscriber(p) ==
  \/ Register(p)
  \/ alive[p] /\ ScanStart(p)
  \/ alive[p] /\ ScanSlot(p)
  \/ Poll(p)
  \/ Unregister(p)

Init ==
  /\ producer_pos = 0
  /\ min_consumer_pos = 0
  /\ active = [i \in Slots |-> 0]
  /\ cursor = [i \in Slots |-> 0]
  /\ last_heartbeat = [i \in Slots |-> "never"]
  /\ pid = [i \in Slots |-> NoPid]
  /\ generation = [i \in Slots |-> 0]
  /\ pc = [a \in Agents |-> "idle"]
  /\ alive = [p \in Processes |-> TRUE]
  /\ scan = [a \in Agents |-> [next |-> 0, min |-> 0]]
  /\ size = 0
  /\ claimed = 0
  /\ slot = [p \in Processes |-> NoSlot]
  /\ handle = [p \in Processes |-> 0]
  /\ seen_cursor = [p \in Processes |-> 0]
  /\ seen_prod = [p \in Processes |-> 0]
  /\ jumped = [p \in Processes |-> FALSE]
  /\ inherited = [p \in Processes |-> FALSE]

Next == Write \/ \E p \in Processes : Subscriber(p)

\* A subscriber process dies where it stands, in a scan too; its slot keeps
\* what it wrote.
\* Nothing obliges a process to take a step, so without the janitor a crash
\* adds no behaviour to Next; SlotMaintenance has both.
Crash(p) ==
  /\ alive[p]
  /\ alive' = [alive EXCEPT ![p] = FALSE]
  /\ scan' = [scan EXCEPT ![p] = [next |-> 0, min |-> 0]]
  /\ UNCHANGED <<header, slots, pc, size, claimed, locals>>

Spec == Init /\ [][Next]_vars

-----------------------------------------------------------------------------
(***************************************************************************)
(* Properties.                                                             *)
(***************************************************************************)

\* Every variable has its type: positions are naturals, a slot's fields are
\* what the header declares, a program counter is one of its agent's labels.
TypeOK ==
  /\ producer_pos \in Nat
  /\ min_consumer_pos \in Nat
  /\ active \in [Slots -> {0, 1}]
  /\ cursor \in [Slots -> Nat]
  /\ last_heartbeat \in [Slots -> Heartbeats]
  /\ pid \in [Slots -> Processes \cup {NoPid}]
  /\ generation \in [Slots -> Nat]
  /\ pc \in [Agents -> WriterLabels \cup JanitorLabels \cup ProcessLabels]
  /\ pc[Writer] \in WriterLabels
  /\ pc[Janitor] \in JanitorLabels
  /\ \A p \in Processes : pc[p] \in ProcessLabels
  /\ alive \in [Processes -> BOOLEAN]
  /\ scan \in [Agents -> [next : 0 .. MaxSubscribers, min : Nat]]
  /\ size \in 0 .. TermLength
  /\ claimed \in Nat
  /\ slot \in [Processes -> Slots \cup {NoSlot}]
  /\ handle \in [Processes -> Nat]
  /\ seen_cursor \in [Processes -> Nat]
  /\ seen_prod \in [Processes -> Nat]
  /\ jumped \in [Processes -> BOOLEAN]
  /\ inherited \in [Processes -> BOOLEAN]

Holding(p) == slot[p] # NoSlot

\* A subscriber that has chosen its cursor and was never moved by an overrun.
Anchored(p) == Holding(p) /\ pc[p] \notin ClaimingLabels /\ ~jumped[p]

\* minOfAllSubscribers() counts a subscriber from the load of producer_pos in
\* registerSubscriber() on, by the cursor it finds in the slot.  Until the new one
\* is stored that is the former owner's: past producer_pos, as a stale or foreign
\* frame_length can take it, it does not hold the minimum back.
Protected(p) == Anchored(p) /\ ~inherited[p]

\* The position below which nothing is of interest to the subscriber.
Floor(p) == IF pc[p] = "cursor" THEN seen_prod[p] ELSE cursor[slot[p]]

\* The compare-exchange of registerSubscriber() gives a slot to one process at
\* a time, and unregisterSubscriber() frees no other process's slot.
SlotExclusive ==
  \A p \in Processes : Holding(p) =>
    /\ active[slot[p]] = 1
    /\ \A q \in Processes \ {p} : slot[q] # slot[p]

\* However registrations, unregistrations and the writer's slow path overlap
\* in minOfAllSubscribers(), the minimum they leave in min_consumer_pos never
\* passes a subscriber that still has to read, unless its slot still showed a
\* cursor past producer_pos when it was taken over: that one is passed.
CachedMinIsSafe ==
  \A p \in Processes : Protected(p) => min_consumer_pos <= Floor(p)

\* producerCanWrite() keeps the writer from lapping a subscriber: nothing at or
\* above a cursor is overwritten.  The reserved term of the constructor absorbs
\* the second, unchecked claim that write() makes after padding.  The exception is
\* that of CachedMinIsSafe.
NoOverwriteUnread ==
  \A p \in Processes : Protected(p) => producer_pos <= Floor(p) + RingSize

\* write() never splits a frame over two terms, as long as a frame is at most
\* half a term: the second claim then always fits.
FrameStaysInTerm ==
  pc[Writer] = "fill" /\ 2 * size <= TermLength =>
    TermOffset(claimed) + size <= TermLength

\* Only the overrun branch of poll() ever moves the cursor of a held slot back:
\* a frame is handed to a subscriber at most once, by the one thread that polls its
\* slot.  Where the jump leads to is not asked.
OnlyOverrunRewinds ==
  [][\A p \in Processes :
       Holding(p) /\ slot'[p] = slot[p] /\ pc[p] \notin ClaimingLabels \cup {"cursor"}
         => \/ cursor'[slot[p]] >= cursor[slot[p]]
            \/ jumped'[p]]_vars

\* poll(): "Jump to a safe position": after the jump the subscriber is within
\* the capacity of the ring again.
JumpIsSafe ==
  [][\A p \in Processes :
       Holding(p) /\ ~jumped[p] /\ jumped'[p]
         => producer_pos - cursor'[slot[p]] <= TotalCapacity]_vars

-----------------------------------------------------------------------------
(***************************************************************************)
(* The inductive invariant that implies the safety properties above.       *)
(***************************************************************************)

\* Past the compare-exchange a process has a slot, until unregister frees it.
SlotsHeld ==
  \A p \in Processes :
    pc[p] \in (ClaimingLabels \cup ShownLabels \cup {"cursor"}) \ {"scan0", "scan"}
      => Holding(p)

\* What was loaded from producer_pos or is a minimum is at most producer_pos; a
\* cursor need not be.
BehindProducer ==
  /\ min_consumer_pos <= producer_pos
  /\ \A a \in Agents : pc[a] = "scan" => scan[a].min <= producer_pos
  /\ \A p \in Processes : seen_prod[p] <= producer_pos

\* What a subscriber has loaded, against what its slot holds.
LocalsAgree ==
  \A p \in Processes :
    /\ pc[p] = "cursor" /\ ~inherited[p] => cursor[slot[p]] <= seen_prod[p]
    /\ pc[p] \in {"overrun", "frame"} => seen_cursor[p] = cursor[slot[p]]

\* A minimum being computed counts every protected slot the loop has passed.
ScanCounts ==
  \A a \in Agents, p \in Processes :
    pc[a] = "scan" /\ Protected(p) /\ slot[p] < scan[a].next => scan[a].min <= Floor(p)

\* A writer about to claim was granted room against a minimum that was safe;
\* the claim after padding uses the reserved term.
RoomGranted ==
  \A p \in Processes : Protected(p) =>
    /\ pc[Writer] = "claim" => producer_pos + size <= Floor(p) + TotalCapacity
    /\ pc[Writer] = "pad" => producer_pos <= Floor(p) + TotalCapacity
    /\ producer_pos <= Floor(p) + RingSize

IndInv ==
  /\ TypeOK
  /\ SlotExclusive
  /\ SlotsHeld
  /\ BehindProducer
  /\ LocalsAgree
  /\ CachedMinIsSafe
  /\ ScanCounts
  /\ RoomGranted
=============================================================================
