---------------------------- MODULE SharedRegion ----------------------------
(***************************************************************************)
(* The life of the POSIX shared memory object of one topic: processes open *)
(* or create it, size it, construct its header, use it and leave it, in    *)
(* TopicRegistry, TopicChannel and SharedMemoryRingBuffer::initialize().   *)
(* A process may crash at any point and be started again.                  *)
(***************************************************************************)
EXTENDS Integers, FiniteSets

CONSTANTS
  Publisher,     \* the topic's one publishing process
  Subscribers,   \* the processes that subscribe to it
  Objects,       \* bound: the objects that can exist at one time
  NoObject,      \* what the path refers to when there is none
  MaxSlots,      \* MAX_SUBSCRIBERS
  MaxGeneration, \* bound: claims of one slot
  MaxSituations  \* bound: the situations named below that come up in one behaviour

ASSUME RegionAssumption ==
  /\ Publisher \notin Subscribers
  /\ NoObject \notin Objects
  /\ {MaxSlots, MaxGeneration, MaxSituations} \subseteq Nat \ {0}

Processes == {Publisher} \cup Subscribers
Slots == 1 .. MaxSlots
NoSlot == 0

VARIABLES
  name,      \* the object the topic's path refers to
  region,    \* the contents of each
  proc,      \* what each process does with its SharedMemoryRingBuffer
  history    \* which of the situations named below have come up

vars == <<name, region, proc, history>>

\* What happened, for the conditions of the properties:
\*   overlap    a process began initialize() while another was inside it
\*   raced      shm_open(O_CREAT) found an object that another had just created
\*   abandoned  a creator crashed before it had given the object its size
\*   orphaned   a creator unlinked the object while others used it
\*   leaked     a process went without unsubscribing
\*   wiped      clearAllSubscribers() came to the slot of a running subscriber
\*   torn       and the subscriber passed unregisterSubscriber()'s test before the
\*              generation had changed
Situations == {"overlap", "raced", "abandoned", "orphaned", "leaked", "wiped", "torn"}

Happened(s) == s \in history

FreeSlot == [active |-> 0, generation |-> 0]

\* Memory fresh from shm_open(): no size; once it has one it reads as zeros.
BlankRegion ==
  [sized |-> FALSE, magic |-> FALSE, slots |-> [i \in Slots |-> FreeSlot]]

NoHandle == [index |-> NoSlot, generation |-> 0]

\* A process without the topic.
Outside == [pc |-> "out", object |-> NoObject, is_creator |-> FALSE, handle |-> NoHandle, slot |-> NoSlot]

Initializing(p) == proc[p].pc \in {"create", "truncate", "map", "construct", "free_slots"}

\* The process has the object open or mapped.
Attached(p) == proc[p].object # NoObject

\* initialize() has returned true, and cleanup() has not begun.
Ready(p) == proc[p].pc \in {"ready", "freeing", "clear", "bump"}

Mine(p) == region[proc[p].object]

UsedByOthers(p) == \E q \in Processes \ {p} : proc[q].object = proc[p].object

Noted(situation, condition) == IF condition THEN {situation} ELSE {}

Remember(situations) ==
  /\ history' = history \cup situations
  /\ Cardinality(history') <= MaxSituations

Note(situation, condition) == Remember(Noted(situation, condition))

InUse(o) == name = o \/ \E p \in Processes : proc[p].object = o

\* Process p closes what it had open, and the path refers to n from now on: an object
\* that is neither named nor open in any process is gone.
Detach(p, n) ==
  /\ name' = n
  /\ proc' = [proc EXCEPT ![p] = Outside]
  /\ region' = [o \in Objects |->
       IF o = n \/ \E q \in Processes \ {p} : proc[q].object = o THEN region[o] ELSE BlankRegion]

-----------------------------------------------------------------------------
(***************************************************************************)
(* getOrCreateTopic(): initialize() of a ring buffer the process does not  *)
(* have yet.                                                               *)
(***************************************************************************)

\* shm_open(O_RDWR), which fails with ENOENT when nobody created the object.
Open(p) ==
  /\ proc[p].pc = "out"
  /\ proc' = [proc EXCEPT ![p] =
       IF name = NoObject THEN [Outside EXCEPT !.pc = "create"]
                          ELSE [Outside EXCEPT !.pc = "map", !.object = name]]
  /\ Note("overlap", \E q \in Processes : Initializing(q))
  /\ UNCHANGED <<name, region>>

\* shm_open(O_CREAT | O_RDWR), without O_EXCL: an object that another process has
\* created meanwhile is opened, and is_creator_ is set all the same.
Create(p) ==
  /\ proc[p].pc = "create"
  /\ \E o \in Objects :
       /\ IF name = NoObject THEN ~InUse(o) ELSE o = name
       /\ name' = o
       /\ proc' = [proc EXCEPT ![p] = [@ EXCEPT !.pc = "truncate", !.object = o, !.is_creator = TRUE]]
  /\ Note("raced", name # NoObject)
  /\ UNCHANGED region

\* Either shm_open() fails for another reason, or mmap() does: initialize() returns
\* false with the descriptor closed, and what was created stays.
GiveUp(p) ==
  /\ proc[p].pc \in {"create", "map"}
  /\ Detach(p, name)
  /\ UNCHANGED history

Truncate(p) ==
  /\ proc[p].pc = "truncate"
  /\ region' = [region EXCEPT ![proc[p].object].sized = TRUE]
  /\ proc' = [proc EXCEPT ![p].pc = "map"]
  /\ UNCHANGED <<name, history>>

\* Mutant: the object is left behind.
TruncateFailsQuietly(p) ==
  /\ proc[p].pc = "truncate"
  /\ Detach(p, name)
  /\ UNCHANGED history

\* ftruncate() fails: whatever the path refers to is unlinked.
TruncateFails(p) ==
  /\ proc[p].pc = "truncate"
  /\ Detach(p, NoObject)
  /\ Note("orphaned", UsedByOthers(p))

\* Mutant: only the creator constructs the header.
CheckHeaderAsCreator(p) ==
  /\ proc[p].pc = "map"
  /\ proc[p].is_creator \/ Mine(p).sized
  /\ proc' = [proc EXCEPT ![p] =
       IF proc[p].is_creator
       THEN [@ EXCEPT !.pc = "construct"]
       ELSE [@ EXCEPT !.pc = "ready"]]
  /\ UNCHANGED <<name, region, history>>

\* Mutant: everyone constructs the header.
CheckNoHeader(p) ==
  /\ proc[p].pc = "map"
  /\ proc[p].is_creator \/ Mine(p).sized
  /\ proc' = [proc EXCEPT ![p] = [@ EXCEPT !.pc = "construct"]]
  /\ UNCHANGED <<name, region, history>>

\* mmap(), then: is_creator_ || !header_->isValid()
CheckHeader(p) ==
  /\ proc[p].pc = "map"
  /\ proc[p].is_creator \/ Mine(p).sized
  /\ proc' = [proc EXCEPT ![p] =
       IF proc[p].is_creator \/ ~Mine(p).magic
       THEN [@ EXCEPT !.pc = "construct"]
       ELSE [@ EXCEPT !.pc = "ready"]]
  /\ UNCHANGED <<name, region, history>>

\* isValid() reads a mapping with no memory behind it: SIGBUS ends the process.
Fault(p) ==
  /\ proc[p].pc = "map"
  /\ ~proc[p].is_creator /\ ~Mine(p).sized
  /\ Detach(p, name)
  /\ UNCHANGED history

\* The constructor of SharedMemoryHeader: plain stores of the magic number and the
\* positions, before the atomic ones that free the slots.
ConstructMagic(p) ==
  /\ proc[p].pc = "construct"
  /\ region' = [region EXCEPT ![proc[p].object].magic = TRUE]
  /\ proc' = [proc EXCEPT ![p].pc = "free_slots"]
  /\ UNCHANGED <<name, history>>

ConstructSlots(p) ==
  /\ proc[p].pc = "free_slots"
  /\ region' = [region EXCEPT ![proc[p].object].slots = [i \in Slots |-> FreeSlot]]
  /\ proc' = [proc EXCEPT ![p].pc = "ready"]
  /\ UNCHANGED <<name, history>>

Initialize(p) ==
  \/ Open(p)
  \/ Create(p)
  \/ GiveUp(p)
  \/ Truncate(p)
  \/ TruncateFails(p)
  \/ CheckHeader(p)
  \/ Fault(p)
  \/ ConstructMagic(p)
  \/ ConstructSlots(p)

-----------------------------------------------------------------------------
(***************************************************************************)
(* Use of the region; RingPositions has the single accesses.               *)
(***************************************************************************)
\* TopicChannel::subscribe() registers and keeps a handler under the slot's index.
Subscribe(p) ==
  /\ proc[p].pc = "ready"
  /\ proc[p].handle = NoHandle
  /\ \E i \in Slots :
       /\ Mine(p).slots[i].active = 0
       /\ \A j \in 1 .. (i - 1) : Mine(p).slots[j].active = 1
       /\ Mine(p).slots[i].generation < MaxGeneration
       /\ region' = [region EXCEPT ![proc[p].object].slots[i] =
                       [active |-> 1, generation |-> @.generation + 1]]
       /\ proc' = [proc EXCEPT ![p].handle =
                       [index |-> i, generation |-> Mine(p).slots[i].generation + 1]]
  /\ UNCHANGED <<name, history>>

\* unregisterSubscriber() frees the slot if its generation is the handle's.
SameGeneration(p, handle) ==
  handle.index # NoSlot /\ Mine(p).slots[handle.index].generation = handle.generation

SlotFreed(p) == region' = [region EXCEPT ![proc[p].object].slots[proc[p].handle.index].active = 0]

\* Mutant: the slot is left as it is.
FreeSlotOfNobody(p) ==
  /\ proc[p].pc = "freeing"
  /\ proc' = [proc EXCEPT ![p] = [@ EXCEPT !.pc = "ready", !.handle = NoHandle]]
  /\ UNCHANGED <<name, region, history>>

\* Mutant: the generation is not tested.
UnsubscribeBlindly(p) ==
  /\ proc[p].pc = "ready"
  /\ proc[p].handle # NoHandle
  /\ proc' = [proc EXCEPT ![p].pc = "freeing"]
  /\ UNCHANGED <<name, region, history>>

\* TopicChannel::unsubscribe(): the test, "to avoid stomping a new owner", ...
Unsubscribe(p) ==
  /\ proc[p].pc = "ready"
  /\ proc[p].handle # NoHandle
  /\ proc' = [proc EXCEPT ![p] =
       IF SameGeneration(p, @.handle) THEN [@ EXCEPT !.pc = "freeing"]
                                      ELSE [@ EXCEPT !.handle = NoHandle]]
  /\ Note("torn", /\ SameGeneration(p, proc[p].handle)
                  /\ Mine(p).slots[proc[p].handle.index].active = 0)
  /\ UNCHANGED <<name, region>>

\* ... and the store.
FreeSlotOf(p) ==
  /\ proc[p].pc = "freeing"
  /\ SlotFreed(p)
  /\ proc' = [proc EXCEPT ![p] = [@ EXCEPT !.pc = "ready", !.handle = NoHandle]]
  /\ UNCHANGED <<name, history>>

\* The running processes that count on slot i of the publisher's object.
Holders(i) ==
  {p \in Subscribers : proc[p].object = proc[Publisher].object /\ proc[p].handle.index = i}

NoteCleared(i) ==
  Remember(Noted("wiped", Holders(i) # {})
             \cup Noted("torn", \E p \in Holders(i) : proc[p].pc = "freeing"))

\* clearAllSubscribers(), called by the publisher's program: for every slot it stores 0
\* in active and the other fields, and bumps the generation at last.
StartClear ==
  /\ proc[Publisher].pc = "ready"
  /\ \A i \in Slots : Mine(Publisher).slots[i].generation < MaxGeneration
  /\ proc' = [proc EXCEPT ![Publisher] = [@ EXCEPT !.pc = "clear", !.slot = 1]]
  /\ UNCHANGED <<name, region, history>>

ClearActive ==
  /\ proc[Publisher].pc = "clear"
  /\ proc[Publisher].slot \in Slots
  /\ region' = [region EXCEPT ![proc[Publisher].object].slots[proc[Publisher].slot].active = 0]
  /\ proc' = [proc EXCEPT ![Publisher].pc = "bump"]
  /\ NoteCleared(proc[Publisher].slot)
  /\ UNCHANGED name

BumpGeneration ==
  /\ proc[Publisher].pc = "bump"
  /\ region' = [region EXCEPT ![proc[Publisher].object].slots[proc[Publisher].slot].generation = @ + 1]
  /\ proc' = [proc EXCEPT ![Publisher] =
       [@ EXCEPT !.pc = "clear", !.slot = proc[Publisher].slot + 1]]
  /\ NoteCleared(proc[Publisher].slot)
  /\ UNCHANGED name

\* The positions, min_consumer_pos among them, are not in this module.
EndClear ==
  /\ proc[Publisher].pc = "clear"
  /\ proc[Publisher].slot \notin Slots
  /\ proc' = [proc EXCEPT ![Publisher] = [@ EXCEPT !.pc = "ready", !.slot = NoSlot]]
  /\ UNCHANGED <<name, region, history>>

ClearAllSubscribers ==
  \/ StartClear
  \/ ClearActive
  \/ BumpGeneration
  \/ EndClear

-----------------------------------------------------------------------------
(***************************************************************************)
(* TopicRegistry::cleanup() when the process ends, or removeTopic().       *)
(***************************************************************************)

\* TopicChannel::cleanup(): "generation doesn't matter for cleanup".
ChannelCleanup(p) ==
  /\ proc[p].pc = "ready"
  /\ IF SameGeneration(p, [proc[p].handle EXCEPT !.generation = 0])
     THEN SlotFreed(p) ELSE UNCHANGED region
  /\ proc' = [proc EXCEPT ![p] = [@ EXCEPT !.pc = "unmap", !.handle = NoHandle]]
  /\ Note("leaked", proc[p].handle # NoHandle)
  /\ UNCHANGED name

\* Mutant: whoever leaves unlinks the object.
RingCleanupUnlinksAlways(p) ==
  /\ proc[p].pc = "unmap"
  /\ Detach(p, NoObject)
  /\ Note("orphaned", proc[p].is_creator /\ UsedByOthers(p))

\* Mutant: shm_fd_ is not reset, so that the destructor cleans up again.
RingCleanupAgain(p) ==
  /\ proc[p].pc = "unmap"
  /\ IF proc[p].is_creator
     THEN name' = NoObject /\ UNCHANGED <<region, proc>>
     ELSE Detach(p, name)
  /\ Note("orphaned", proc[p].is_creator /\ UsedByOthers(p))

\* Mutant: the descriptor of the object stays open.
RingCleanupKeepsObject(p) ==
  /\ proc[p].pc = "unmap"
  /\ name' = IF proc[p].is_creator THEN NoObject ELSE name
  /\ proc' = [proc EXCEPT ![p] = [Outside EXCEPT !.object = proc[p].object]]
  /\ Note("orphaned", proc[p].is_creator /\ UsedByOthers(p))
  /\ UNCHANGED region

\* SharedMemoryRingBuffer::cleanup(): munmap, close, and shm_unlink() of the path by
\* the process that created the object.  The destructors call it again to no effect.
RingCleanup(p) ==
  /\ proc[p].pc = "unmap"
  /\ Detach(p, IF proc[p].is_creator THEN NoObject ELSE name)
  /\ Note("orphaned", proc[p].is_creator /\ UsedByOthers(p))

\* TopicRegistry::cleanup(), for the one topic.
Cleanup(p) == ChannelCleanup(p) \/ RingCleanup(p)

\* The operating system closes what the process had open; slots and path stay.
Crash(p) ==
  /\ proc[p].pc # "out"
  /\ Detach(p, name)
  /\ Remember(Noted("abandoned", proc[p].pc = "truncate" /\ ~Mine(p).sized)
                \cup Noted("leaked", proc[p].handle # NoHandle))

-----------------------------------------------------------------------------
RegionInit ==
  /\ name = NoObject
  /\ region = [o \in Objects |-> BlankRegion]
  /\ proc = [p \in Processes |-> Outside]
  /\ history = {}

RegionNext ==
  \/ \E p \in Processes : Initialize(p) \/ Cleanup(p) \/ Crash(p)
  \/ \E p \in Subscribers : Subscribe(p) \/ Unsubscribe(p) \/ FreeSlotOf(p)
  \/ ClearAllSubscribers

RegionSpec == RegionInit /\ [][RegionNext]_vars

-----------------------------------------------------------------------------
(***************************************************************************)
(* Properties.                                                             *)
(***************************************************************************)

\* Every variable has its type; a process that is out has no object, one that is past
\* shm_open() has one, and only a subscriber's ready process has a handle.
RegionTypeOK ==
  /\ name \in {NoObject} \cup Objects
  /\ region \in [Objects ->
       [sized : BOOLEAN, magic : BOOLEAN,
        slots : [Slots -> [active : {0, 1}, generation : 0 .. (MaxGeneration + 1)]]]]
  /\ history \subseteq Situations
  /\ \A p \in Processes :
       /\ proc[p].pc \in {"out", "create"} <=> proc[p].object = NoObject
       /\ proc[p].handle # NoHandle => Ready(p) /\ p \in Subscribers

\* Slots are neither lost nor shared when processes come and go: an active slot is held
\* by exactly one running process.  TopicChannel::cleanup() does not see to that, with
\* its handles of generation 0: the exception is a process that ends without unsubscribing.
SlotsAccountedFor ==
  ~Happened("overlap") /\ ~Happened("leaked") /\ ~Happened("wiped") =>
    \A o \in Objects, i \in Slots :
      region[o].slots[i].active =
        Cardinality({p \in Subscribers : proc[p].object = o /\ proc[p].handle.index = i})

\* "Magic numbers and version checks for shared memory integrity" (README.md:226):
\* whoever is done with initialize() works on a sized region with a valid header, even
\* if creators crashed half-way or two processes initialized it side by side.
ReadyIsValid ==
  \A p \in Processes : Ready(p) => Mine(p).sized /\ Mine(p).magic

\* Once processes initialize one after another, nobody constructs a header again that
\* others work on: a registration keeps its slot, whoever crashed or left before.  It keeps
\* it through clearAllSubscribers() too if that, as in the example's --clear-subs, "clear
\* stale subscribers", meets only slots that dead processes left, now and while it runs.
RegistrationKept ==
  ~Happened("overlap") /\ ~Happened("wiped") =>
    \A p \in Subscribers :
      Ready(p) /\ proc[p].handle # NoHandle =>
        Mine(p).slots[proc[p].handle.index] = [active |-> 1, generation |-> proc[p].handle.generation]

\* "Only clear if still the same generation to avoid stomping a new owner": the end of a
\* subscription never frees the slot under the handle of another running process, even
\* when clearAllSubscribers() has taken the slot from the one and given it to the other.
\* The exception is a subscriber that tests before clearAllSubscribers(), which stores
\* active first and the generation last, has come to the generation.
UnregisterSparesOthers ==
  [][~Happened("overlap") /\ ~Happened("torn") =>
       \A p, q \in Subscribers :
         p # q /\ FreeSlotOf(p) /\ proc[q].object = proc[p].object
           => ~(proc[q].handle.index = proc[p].handle.index /\ SameGeneration(q, proc[q].handle))]_vars

\* initialize() and the end of processes bring all users of a topic together on one
\* object, across crashes and restarts of any of them, its creator included, and even if
\* they initialize it side by side.  The exception is a creator that ends in order, or
\* fails to size the object, while others have it open.
UsersShareRegion ==
  ~Happened("orphaned") =>
    \A p, q \in Processes : Ready(p) /\ Ready(q) => proc[p].object = proc[q].object

\* cleanup(), "Only unlink if we created the shared memory object": nobody takes the
\* path from a running process that uses another object than the one that unlinks it.
UnlinksOwn ==
  [][~Happened("raced") =>
       \A o \in Objects :
         name = o /\ name' = NoObject =>
           \E p \in Processes : proc[p].object = o /\ proc[p].is_creator /\ ~Attached(p)']_vars

\* An initialize() that fails leaves no object that ends later processes by SIGBUS.
FailureLeavesNoTrap ==
  name # NoObject /\ ~region[name].sized /\ ~Happened("abandoned") =>
    \E p \in Processes : proc[p].pc = "truncate" /\ proc[p].object = name

\* "Expect Terminal 2 to detect reconnection" (README.md:162): a subscriber that is
\* still there when the publisher has come up again works on the publisher's object.
SubscribersFollowPublisher ==
  \A p \in Subscribers : Ready(p) /\ Ready(Publisher) => proc[p].object = proc[Publisher].object
=============================================================================
