# position_distributor: a TLA+ model of the shared-memory position feed

`position_distributor` is a C++17 library with which a trading process publishes the positions of its
strategies to other processes of the same machine. One publisher per exchange writes into a ring buffer in
POSIX shared memory; up to 64 subscribers read it, each with a cursor of its own. Publisher, subscribers and
the clean-up of dead subscribers meet only in that memory, through atomics and without locks.

The development models the ring and its header access by access, the threads of publisher and subscriber
around it, what a topic promises to a subscriber, the life of the shared memory object, the mutexes and joins
of a client, and the encoding of messages. TLC checks the modules on small instances; TLAPS proves the safety
properties of ring, slots, frames, delivery, shared region and client for all sizes, two refinements, and what
codec and paths preserve for all inputs. Abbreviations in this file: `T` is
`src/src/shared_memory/topic_system.cpp`, `H` is `src/include/position_distributor/topic_system.h`, `P` is
`src/src/publisher/position_publisher.cpp`, `S` is `src/src/subscriber/position_subscriber.cpp`, `C` is
`src/src/client/position_client.cpp`, `E` is `src/examples/exchange_client_example.cpp`.

## 1. Inventory

| component | state it keeps | operations |
|---|---|---|
| Ring positions (`SharedMemoryRingBuffer`, T:163-231, 366-396) | `producer_pos`, `min_consumer_pos` in shared memory | `write` (check room, claim, pad and claim again, fill, commit), `producerCanWrite`, `minOfAllSubscribers` |
| Subscriber slots (T:233-353) | per slot `active`, `cursor`, `last_heartbeat_ns`, `pid`, `generation` | `registerSubscriber`, `unregisterSubscriber`, `poll` |
| Frames (H:51-75, T:195-228, 323-350) | `frame_length`, `frame_type`, payload in the term buffers | written by `write`, read by `poll` |
| Clean-up (T:431-525) | none of its own; it writes the slots | `checkSubscriberHeartbeats` from the publisher's heartbeat thread, `clearAllSubscribers` from the example's `--clear-subs` |
| Shared region (T:47-161) | the POSIX object, the mapping, `is_creator_` | `getSharedMemoryPath`, `initialize`, `cleanup` (unlinks if it created the object) |
| `TopicChannel`, `TopicRegistry` (T:578-825) | handler map, map of topics, two mutexes | `publish`, `subscribe`, `unsubscribe`, `readMessages`, `getOrCreateTopic`, `cleanup` |
| `PositionPublisher` (P) | `connected_`, `running_`, `cleanup_started_`, `session_id_`, `sequence_number_`, heartbeat thread | `connect`, `publishPositions`, `sendProdcuerHeartbeat`, `heartbeatLoop`, `disconnect` |
| `PositionSubscriber` (S) | flags, `current_session_id_`, `strategy_sequence_map_`, `producer_heartbeat_lost_`, message and heartbeat thread, slot handle | `connect`, `pollMessages`, `messageLoop`, `processMessage`, `validateOrdering`, `heartbeatLoop`, `disconnect` |
| `PositionClient` (C) | one publisher, a map of subscribers under `subscribers_mutex_`, callbacks under `callback_mutex_` | `connect`, `subscribeToExchange`, `unsubscribeFromExchange`, `pollMessages`, `disconnect` |
| Codec (`position_encoding`) | - | `encode` and `decode` of a fixed layout |
| Example (E) | the global client | main loop, signal handler, `--clear-subs` |
| Logger, value types | - | output |

**Interaction.** The publisher's application threads call `write` through the channel; its heartbeat thread
stores `producer_heartbeat_ns` and sweeps the slots. Each subscriber object has a message thread that polls
and a heartbeat thread that watches the producer; callbacks of the application run in both. The application
may poll too, through the client. There are no messages: everything is shared memory.

**What is hard.** (1) Every access to the header is a separate step, so writer, registrations, polls and the
clean-up interleave at the level of single loads and stores. (2) Values are read, then used after others have
moved on: the cached minimum, the overrun test, the clean-up's verdict, the session id. (3) Processes end
anywhere and leave their slots as they were. (4) A publisher is restarted in the same region and numbers from
1 again. (5) Memory is reused after a lap, with what an earlier lap left in it. (6) Two threads poll one
handle. (7) `disconnect` joins threads under a mutex that callbacks may want. (8) Several processes create,
open and construct one shared memory object with nothing but `shm_open` between them.

**What makes each part correct.** Ring: the writer never overwrites what a subscriber has still to read; a
frame lies within one term; a poll takes only committed frames and finds the next one after each. Slots: a
slot has one owner, an owner keeps it while it lives, and the slot of a dead owner is freed in the end.
Publisher and subscriber: the callback gets every frame once and in order while the subscription lasts, a
restart raises no ordering error and hides no disorder, an outage of the publisher is reported once, nothing
is called after unsubscribing returned. Region: whoever has initialized works on a valid header, all users of
a topic work on one object, nobody constructs a header again under others, slots are neither lost nor shared
when processes come and go. Client: no set of threads waits for each other, every thread is joined before its
object or the rings go, every call returns. `PROJECT.json` lists the places where each of these could go wrong.

## 2. Modules

| module | models | state and actions |
|---|---|---|
| `RingGeometry` | the arithmetic of positions | `TermOffset`, `TermIndex`, `NeedsPadding`, `JumpTarget`, `TotalCapacity` |
| `RingPositions` | header and slots; `write`, `registerSubscriber`, `poll`, `unregisterSubscriber` without the contents of frames | one action per load or store of the header; `pc` says where each agent is, `scan`, `claimed`, `seen_cursor`, ... are locals of the C++ functions |
| `RingPositionsProofs` | - | the theorems of section 5 |
| `RingFrames` | extends `RingPositions` with the cache lines of the term buffers | `mem`; type, payload and length of a frame are stored one after the other, and `poll` loads them |
| `RingFramesProofs` | - | theorems of section 5 |
| `TopicFeed` | abstract: what a topic promises | one log; `Join`, `Deliver` in order, `Leave` |
| `SlotMaintenance` | extends `RingPositions` with the clean-up of dead subscribers, with crashes and with time | `sweep` holds the locals of `checkSubscriberHeartbeats` |
| `SlotMaintenanceProofs` | - | theorems of section 5 |
| `TopicLog` | abstract: a topic as publisher and subscriber use it | `log`, `producer_heartbeat` |
| `PositionPublisher` | `PositionPublisher` over `TopicLog` | `call[t]` is what application thread `t` does in `publishPositions` |
| `PositionSubscriber` | `PositionSubscriber` over `TopicLog`, used as `PositionClient` uses it | `poll[t]` for the message thread and the application, `watch` for the heartbeat thread, `app` for the client's call |
| `PositionDelivery` | composes the two, with outages of the producer's heartbeat | the end-to-end properties |
| `PositionDeliveryProofs` | - | theorems of section 5 |
| `SharedRegion` | the POSIX object of a topic from `shm_open` to `shm_unlink`, as `initialize`, `subscribe`, `unsubscribe`, `clearAllSubscribers` and the two `cleanup`s use it | `name` is what the path refers to, `region` the contents of the objects, `proc[p].pc` where process `p` is; each system call and each store that another process can tell apart is one action |
| `SharedRegionProofs`, `RegionSlotsProofs` | - | theorems of section 5: the object and its path, the exchanges that have a path of their own; the slots in the object |
| `ClientLocks` | the threads, mutexes, joins and callbacks of one process that uses a `PositionClient`; the signal handler and the end of the process | `todo[t]` is what thread `t` has still to do, a sequence of locks, unlocks, calls and joins; a call unfolds into its body, in every way its tests and callbacks may turn out |
| `ClientLocksProofs` | - | theorems of section 5 |
| `PositionEncoding`, `PositionEncodingProofs` | `PositionUpdateCodec` as functions | - |
| `RegionPath` | the path of an exchange's region as a function | - |
| `MC...` | the instances for TLC | symmetry sets; `MCPositionDelivery` and `MCSharedRegion` also evaluate the pure functions on all small inputs |

**How they fit.** `RingFrames` and `SlotMaintenance` both extend `RingPositions`: every step of theirs is a step
of it or changes only what they add, except the sweep, which writes the slots. The run `frames_first_lap` checks
that `RingFrames` implements `RingPositions` with no cursor past `producer_pos` (`ImplementsPositions`) and
`TopicFeed` (`ImplementsFeed`); `RingFramesProofs` proves both, and that it implements `RingPositions` for
frames of all sizes. The upper modules use `TopicLog`, the feed seen from outside, in place of the ring: what
they show holds for a ring that keeps that promise. It does with frames of one size until it is lapped; section
4 says what happens otherwise. `SharedRegion` and `ClientLocks` stand beside them: the ring modules start from a
region that `SharedRegion` has made ready, with registration as one step and unregistration as its test and its
store there, and access by access in `RingPositions`; the delivery modules take the threads of a subscriber to
be started and joined as `ClientLocks` shows, whose workers in turn do nothing but lock, call back and end.

**Abstractions.** The unit of positions is one cache line (`write` rounds frames up to 64 bytes). A message is
its number in the log; payload bytes are `AnyLength` lines that read as any header. Heartbeats are "never",
"fresh" or "stale" and age at any moment. Messages dropped because the ring is full are writes that return
false. `generation` counts without wrapping. One writer: README.md:250 gives a topic a single publisher, and
several threads of it inside `write` are not modelled (section 6). All atomics are taken as sequentially
consistent, and so are the plain `pid`, `generation` and `session_id_`. In `minOfAllSubscribers` the loads of
`active` and `cursor` of one slot are one step, in `poll` those of generation, cursor and `producer_pos`
(`PollLoad`), and those of a frame's length and type (`FindFrame`). Neither of the ring modules compares the
frame a poll finds with `producer_pos`, as the code does not: in `RingPositions`, which has no memory, a poll
finds any length from 1 to `MaxLength` and any type. In `RingFrames` it finds what is in the line, and in a line
with payload any length up to `MaxLength`, where the code would take any 32-bit number. `inherited` is a
history variable: the subscriber's slot still showed a cursor past `producer_pos` when it loaded
`producer_pos` for its own. The clean-up takes `kill(pid, 0)` to tell whether the process runs: a process of
another user, for which it fails with `EPERM`, and a reused pid are not modelled. A slot is polled by one thread
in the ring modules and by two in `PositionDelivery`.

In `SharedRegion` a failing `ftruncate` and the failures of `shm_open` and `mmap` are alternatives that may
always happen; in the constructor of the header the plain stores (magic, positions) and the stores to the slots
are two steps; the heartbeat sweep is left to `SlotMaintenance`. In `ClientLocks` there is one signal, and any
number of exchanges to subscribe to, which `unordered_map` visits in any order (`Orders`); a poll finds a frame
or does not, the ring is full or is not, the publisher is silent or is not; what goes wrong in `processMessage`
ends in `handleError` (S:342). Mutexes that are never held while something else is waited for are left out, with
the reads they protect; the logger's and `topics_mutex_` are among them, and matter to a signal (section 4). A
thread that joins itself gets the `system_error` the standard prescribes, which unwinds to the next `catch`; a
joinable `std::thread` that is destroyed ends the process.

## 3. Runs

All bounds are constants of the configurations. Terms of 4 lines, two terms (one reserved), and two processes
are enough for padding, laps, back-pressure, slot reuse and every pairwise interleaving; `MaxGeneration = 1`
still lets every slot be claimed again by a process that is already past its bound check, and every slot be
claimed once by each order of processes.

| run | question | bounds | states |
|---|---|---|---|
| `ring_positions` | slots exclusive, cached minimum safe, nothing unread overwritten, frames within a term, cursors only rewound by an overrun | 2 slots, 2 processes, frames of 2, 3 and 5 (too large) lines, polls that find lengths of 1 to 4, positions to 9 | 3.2 M |
| `frames_first_lap` | with one frame size and no lap: polls take published frames only, nobody is declared overrun, the frames implement feed and positions, no cursor passes `producer_pos`, everything is read | 1 slot, 2 processes, frames of 2 lines, positions to 8 | 56 k |
| `frames_two_laps` | an unread committed frame is intact in memory | 1 process, frames of 1 and 2 lines, positions to 12 | 900 k |
| `maintenance` | the first owner of a slot keeps it while it lives, and with it the back-pressure on its behalf; dead slots that show a heartbeat are freed | ring of 2 lines, 1 slot, 2 processes, crashes, polls that find lengths of 1 and 2, positions to 2 | 1.1 M |
| `delivery` | nothing skipped, in order for the message thread, ordering errors neither invented nor missed, no callback after unsubscribing | 2 publishing threads, application polls, log of 2, 2 publisher objects of 2 sequence numbers | 0.9 M |
| `delivery_liveness` | delivery across a restart, outages noticed and reported once | 1 publishing thread with heartbeat thread, log of 2, 2 publisher objects | 105 k |
| `region` | who works on which object and with what header; what becomes of slots and of the path when processes end, crash and come back | a publisher and 2 subscribers, 2 objects, 1 slot claimed or cleared 3 times, 3 of the 7 situations below in one behaviour | 1.6 M |
| `client` | no deadlock, no `std::terminate`, no thread that outlives the rings, calls return | one exchange, subscribed to by `connect()` or by the application: main thread, 3 workers, 4 mutexes, callbacks that call `publish` or `unsubscribeFromExchange`, one signal, 2 of the 5 situations below in one behaviour | 0.26 M |

A log of two frames is enough for `delivery`: two frames of one session, the second of them out of order or
repeated, and one frame of each of two sessions are all in reach, and the adoption of the first session comes
before either. A ring of two lines and one slot is enough for `maintenance`: its hazards are about who holds a
slot, and one slot is where two processes follow each other in all orders. Three processes are enough for
`region`: one that creates, one that is inside `initialize()` and one that already uses the object, with two
objects for before and after an unlinking. Its behaviours have no end in sight without a bound: at most
`MaxSituations` of the situations come up in one of them, so every property is checked beside any three of the
others' causes. `client` stops at two of its situations (a second `connect()` always may come): each property is
checked beside any two that it does not exclude, and the theorems of section 5 have no such bound. One exchange
is enough there: with two subscribers the threads of one wait for those of the other only through the client's
mutexes, which one subscriber has to wait for already, and section 5 proves its invariants for any number of
them. Its callbacks call what needs `callback_mutex_` (`publish` into a full ring, from an error callback) and
what needs `subscribers_mutex_` (`unsubscribeFromExchange`); `setErrorCallback` and the statistics need the same
two, are called by the application in the run, and by callbacks too in the proofs. In `ring_positions` a length
of 4 is enough for the cursor to pass `producer_pos`: `CachedMinIsSafe` is violated there when `Protected` is
replaced by `Anchored`.

`MCPositionDelivery` evaluates the codec for arrays of 3 and 2 characters and names of up to 4, and
`MCSharedRegion` the paths of up to 6 characters, each for all inputs (`CodecAssumption`, `PathsAssumption`).

Deadlock is checked by TLC in the runs of the ring and of delivery: nothing in them blocks, and the actions
that do nothing (`PollNothing`, `WriteTooLarge`) are steps of the model. `region` and `region_restart` set
`CHECK_DEADLOCK FALSE` because the bound on situations ends behaviours; `client` because the process ends,
and because it does deadlock with callbacks that call what they should not: `NoDeadlock` says when it does
not.

**What the conditions in the properties mean.** `Anchored(p)`: subscriber `p` has chosen its cursor and was
not moved by an overrun; before that, the slot shows a former owner's cursor and nothing is promised.
`Protected(p)`: it is, and the former owner's cursor was not past `producer_pos` (section 4, *Mixed sizes*).
`FirstOwner(p)`: nobody held the slot before; later owners can lose it, see section 4. `app_polled`:
the application polled beside the message thread; `two_pollers` shows what that costs. `SessionsIntact`: no
`publish()` overlapped `disconnect()`. `Happened(...)` in `SharedRegion` and `ClientLocks`: one of the
situations listed at the head of the module came up earlier in the behaviour. `SharedRegion`: two calls of
`initialize()` overlapped, two processes both became creator, a creator crashed before `ftruncate`, a creator
unlinked the object under others, a process went without unsubscribing, `clearAllSubscribers` met a running
subscriber, and met it inside `unregisterSubscriber`. `ClientLocks`: a callback called what needs a mutex
that is held around it, a callback unsubscribed, the signal came inside a call, `connect()` after
`disconnect()`, an end without `disconnect()`. Each property names the
situations it excludes; without any one of them it is violated, by a behaviour section 4 describes.

**Fairness.** `LiveFramesSpec`: a `write()` that has begun is finished, and the message thread keeps polling
(`messageLoop`, S:173); nobody must publish, register or unregister. `FairMaintenanceSpec`: `heartbeatLoop`
(P:227) keeps sweeping and time passes; no process must go on. `FairDeliverySpec`: the subscriber's two
threads run, time passes, and a call into the client goes on once made; callbacks return. `FairClientSpec`:
every thread that can go on does, and callbacks return, so weak fairness of each thread; strong fairness of
the main thread's locking, because the workers sleep between two of their turns, outside all mutexes
(S:186, S:199, P:229), so that a mutex they share is free for long again and again. With `use_busy_spin` the
message thread does not sleep, and this rests on the mutex being fair enough to the main thread.

## 4. What disagrees with the documentation

Four runs expect a violation; each checks one statement of the repository.

- `frames_second_lap` / `OnlyPublishedFrames` - "frame_length as publication barrier" (README.md:222, T:216).
  The length is never reset to 0. On a line used in an earlier lap, a poll between claim and commit sees the
  old length and hands out a frame that is not there yet.
- `frames_padding` / `PaddingLeadsToFrame` - "Skip to next term" (T:336). The claim after padding starts
  `aligned_size` beyond the first claim, not at the term's start. Unless the two happen to coincide, the
  subscriber's cursor comes to a line with no frame; in the first lap it stays there for good.
- `region_restart` / `SubscribersFollowPublisher` - "Expect Terminal 2 to detect reconnection"
  (README.md:162). A publisher that created the region and ends in order unlinks it; the next one creates
  another, and the subscribers stay on the old one. After a crash it works: the path is still there.
- `two_pollers` / `DeliveredInOrder` - "FIFO delivery" (README.md:231). `messageLoop` and
  `PositionClient::pollMessages` (E:302) poll one handle without a lock.

Met while modelling, without a run of their own; the properties exclude these cases by the conditions above.

- *A live slot is freed.* "Check if process is still alive before cleaning up" (T:445): a released slot keeps
  pid and heartbeat, and a new registration sets `active` first; the sweep frees the slot under a live
  process because its former owner is dead.
- *A dead registration stays.* A process that dies before storing its heartbeat leaves an active slot with
  heartbeat 0, which the sweep skips for ever (README.md:211); the writer stays blocked behind it.
- *Mixed sizes.* A poll stores `cursor + frame_length` without a comparison with `producer_pos` (T:348). With
  frames of mixed sizes, and the example sends such, a stale, longer length of an earlier lap, or payload read
  as a header, puts the cursor past `producer_pos`. A process that reuses the slot is not counted by
  `minOfAllSubscribers` (T:388) until its own cursor is stored, a minimum computed before and stored later
  passes it, and the writer laps it without an overrun jump of its own. `Protected` excludes this subscriber
  and no other; with one size nobody is excluded (`NobodyInherits`). Frames of more than half a
  term may cross the end of a term even after padding; `FrameStaysInTerm` is about the others.
- *Overlapping `initialize()`.* A process that finds the magic number not yet written constructs the header a
  second time, over slots that the first may have given away already. Two processes that both pass
  `shm_open(O_CREAT)`, which has no `O_EXCL`, both are creators and both unlink the path at their end.
- *A creator that crashes before `ftruncate`* leaves an object of size 0; every later process ends by SIGBUS
  when it reads the magic number, and nobody resizes the object.
- *`TopicChannel::cleanup`* unregisters with generation 0, which `unregisterSubscriber` refuses for every slot
  that was ever claimed: the slots of a process that did not unsubscribe stay active.
- *`clearAllSubscribers`* stores `active` first and `generation` last: a process that registers in between
  holds a handle that is out of date at once, and one that is past the test of `unregisterSubscriber` frees
  the slot under its next owner. It also stores `producer_pos` as the minimum, whatever has registered since.
- *Callbacks that call the client.* A position callback that reads the client's statistics waits for
  `subscribers_mutex_`, which `unsubscribeFromExchange` and `disconnect` hold while they join its thread. An
  error callback that sets the error callback waits for itself. A callback that unsubscribes makes its thread
  join itself: the exception is taken for a failing mutex (S:226), the subscriber stays with
  `cleanup_started_` set, and the next unsubscribe destroys a joinable thread.
- *The signal handler* calls `disconnect()` on the interrupted thread: if that was inside the client, it waits
  for a mutex of its own. The same goes for the logger's mutex (`src/src/common/logger.cpp:19`), which the main
  thread takes outside the client too (E:279-297) and `disconnect()` takes to log, and for `topics_mutex_`, which
  the registry's destructor takes; `ClientLocks` has neither, and calls the main thread idle there.
- *`connect()` after `disconnect()`* starts threads that no later `disconnect()` stops, because
  `cleanup_started_` is never reset. *An end without `disconnect()`* destroys the registry, a function's
  static, before the global client, and unmaps the rings under its threads.
- *Names.* Exchanges of more than 11 characters, or that differ in dots and underscores only, share a region.

## 5. Proofs

`RingPositionsProofs` proves for every ring size, number of slots, set of processes, set of frame sizes and
`MaxLength`, from `GeometryAssumption` (at least two terms) and `PositionsAssumption`:

- `TypeCorrect`: `Spec => []TypeOK`
- `SlotsAreExclusive`: `Spec => []SlotExclusive`
- `CachedMinSafe`: `Spec => []CachedMinIsSafe`
- `NoUnreadOverwritten`: `Spec => []NoOverwriteUnread`
- `FramesStayInTerm`: `Spec => []FrameStaysInTerm`
- `CursorsNeverRewind`: `Spec => OnlyOverrunRewinds`

All follow from `Invariance`: `Spec => []IndInv`. `SlotExclusive` needs `SlotsHeld`: past the compare-exchange a
process has a slot. `CachedMinIsSafe` is not inductive: a minimum that is still being computed will be stored
later, perhaps long after newer ones, so `ScanCounts` says of every computation under way that it counts each
protected subscriber whose slot it has passed. It is kept because a subscriber starts at a `producer_pos` that
is at least any minimum computed before (`BehindProducer`), because between the load of that position and the
store of the cursor the slot shows no higher one (`LocalsAgree`, the condition in `Protected`), and because
cursors only grow. Nothing is assumed of the lengths a poll finds. `NoOverwriteUnread` follows from
`RoomGranted`: when the writer claims it was granted room against a minimum that was safe, the unchecked claim
after padding goes at most one frame further, and a frame is no longer than the reserved term.
`FrameStaysInTerm` has an invariant of its own, `ClaimPlaced`: while the writer pads, its first claim is where
that frame would cross the term's end, and from there a frame of at most half a term fits where the second claim
puts it, which `write` does not test again. For `CursorsNeverRewind` a registered process's cursor is shown to
change in its own `poll` alone, which loaded the cursor it adds to (`LocalsAgree`). The proofs have one lemma
per action of `Next`.

`RingFramesProofs` proves about the term buffers

- `FramesTypesOK`: `FramesSpec => []FramesTypeOK`
- `FramesKeepPositions`: `FramesSpec => Spec`
- `FramesBackPressure`: `FramesSpec => [](CachedMinIsSafe /\ NoOverwriteUnread)`

for frames of all sizes mixed, and, assuming `OneFrameSize`:

- `FramesImplementPositions`: `FramesSpec => ImplementsPositions`
- `NobodyInherits`: `FramesSpec => [](\A p \in Processes : ~inherited[p])`
- `NobodyIsOverrun`: `FramesSpec => []NeverOverrun`
- `UnreadStaysIntact`: `FramesSpec => []UnreadFramesIntact`
- `FirstLapIsPublished`: `FramesSpec => [](producer_pos <= RingSize => OnlyPublishedFrames)`
- `UnlappedIsPublished`: `MaxProducerPos <= RingSize` and `FramesSpec` imply `[]OnlyPublishedFrames`
- `FramesImplementFeed`: `MaxProducerPos <= RingSize` and `FramesSpec` imply `ImplementsFeed`.

`OneFrameSize` says that all messages that fit a term have the same size, and that it divides the term. It is a
restriction of what is sent, not of the ring, and it cannot be dropped from these: section 4 lists what frames
of mixed sizes break. `FramesBackPressure` needs no such condition, because `CachedMinIsSafe` and
`NoOverwriteUnread` name the one case in which mixed sizes break them. The other restriction, to the first lap,
is that of the run `frames_second_lap`, which shows `OnlyPublishedFrames` violated beyond it; the bound on
`producer_pos` takes the place of the lap in `UnlappedIsPublished` and in the theorem about the feed.
`NobodyIsOverrun`, `UnreadStaysIntact` and `FramesImplementPositions` hold in all laps.

For frames of all sizes, each step of `RingFrames` maps to one of `RingPositions` because a length that is found
is between 1 and `MaxLength` (`FoundHasLength`). The invariant for one size is `FramesInv`. The code does not
test that the frame at a cursor ends at or below the `producer_pos` loaded before; what makes this true of the
bytes is that cursor, `producer_pos` and every line with a length in it are multiples of the one size
(`CursorsOK`, `WriterOK`, `HeadersOK`), so a stale length is the right one and what it promises lies below the
next multiple. Nobody is overrun because the writer stops a reserved term short of the slowest subscriber
(`NearOK`, from `RoomGranted` and `CachedMinIsSafe` of the ring). `CommittedOK` says where the bytes of each
message of the log are, and that their lines are not claimed again while a subscriber is behind them. For the
first lap, `LapOK` adds that a line with a length, where a frame may start, is that of a committed message, and
that a poll reads the header of the position its cursor names. The refinement of the feed maps each action of
`FramesNext` to `Append`, `Join`, `Deliver`, `Leave` or a stutter (`FeedEffect`): `Deliver` is the step in which
`poll` stores the cursor, and it hands over the message whose frame `poll` has read because that line cannot
have been claimed again in between.

`SlotMaintenanceProofs` proves, with the same assumptions as for the ring, and with processes that crash,
register, reuse the slots of others and are cleaned up at any moment:

- `SweepTypesCorrect`: `MaintenanceSpec => []SweepTypeOK`
- `FirstOwnersKeepSlots`: `MaintenanceSpec => []FirstOwnerKeepsSlot`
- `FirstOwnersProtected`: `MaintenanceSpec => []FirstOwnerProtected`

They follow from `MaintenanceInvariance`: `MaintenanceSpec => []MaintenanceInv`. None of `SlotExclusive`,
`CachedMinIsSafe` and `LocalsAgree` survives the clean-up: a slot whose `active` was cleared is claimed by a
second process while the sweep is still storing its other fields. What does survive rests on the order of
stores in `registerSubscriber`: a heartbeat shows only where a generation was stored (`HeartbeatsCounted`), so
the sweep is never past its tests at a slot with generation 0 (`SweepCounted`), and until then the process
that claimed the slot has it to itself (`NewSlotKept`). Only that process loads the generation 0
(`LoadsCounted`): a slot with generation 1 therefore has the owner that stored it, the sweep finds its pid and
its process alive, and nobody else can claim it (`FirstKept`). That it takes its slot over with the cursor 0 and
not with one past `producer_pos` is `CursorsCounted` and `FirstUnread`. Against that slot every scan, the clean-up's
too, counts as in the ring alone: `FirstCovered` is kept by the lemmas of `RingPositionsProofs` about one
covered subscriber (`CoveredStep`, `MinKept`, `ScanKept`, `RoomKept`), which do not ask what happens to others.
The theorems say nothing of later owners of a slot: those are not protected (section 4, *A live slot is freed*).

`PositionDeliveryProofs` proves for any number of publishing threads, publisher objects, sequence numbers and
frames, from `PublisherAssumption` and `DeliveryAssumption` (a subscriber counts the strategies that are
published):

- `DeliveryTypes`: `DeliverySpec => []DeliveryTypeOK`
- `NoFrameSkipped`: `DeliverySpec => []NothingSkipped`
- `NoLateCallback`: `DeliverySpec => []NoCallbackAfterUnsubscribe`
- `OutagesReportedOnce`: `DeliverySpec => []OutageReportedOnce`
- `LoopInOrder`: `DeliverySpec => LoopDeliversInOrder`
- `ErrorsAreReal`: `DeliverySpec => OrderingErrorsReal`
- `AllDisorderCounted`: `DeliverySpec => DisorderCounted`

They follow from `DeliveryInvariance`: `DeliverySpec => []DeliveryInv`. `NoLateCallback` needs where the two
threads are at each line of `disconnect` (`ThreadsOK`). `OutagesReportedOnce` needs `OutagesOK`: whenever the
watch is on its way to a callback, or the publisher is silent and the watch has not taken note (`Owed`), one
more outage has begun than was reported; and that nobody but the watch stores the lost flag it has loaded
(`WatchOK`). `LoopInOrder` needs `LoopOK`: without a second poller nothing past the cursor was handed over but
the frame whose cursor is about to be stored. `ErrorsAreReal` needs `SourceOK`: a number in
`strategy_sequence_map_` is that of a frame that was validated and, with one poller, of the current session.
`AllDisorderCounted` needs the converse, `MapCovers`: the map is never behind what was handed over of the
current session, and a session that was left does not come back, because sessions in the log only go up
(`SessionsInOrder`).

`PositionEncodingProofs`, `DecodeInvertsEncode`: for all sizes of the character arrays and every update whose
size fits the codec's 32-bit arithmetic, `decode` of what `encode` wrote gives back strategy, timestamp,
sequence number and positions, each name up to the size of its array less one (`Carried`). The assumption on
the size is needed: `calculateBufferSize` wraps. It rests on `StoredLength` (what `strnlen` finds in an array
`strncpy` filled) and `NoWrap`. `SharedRegionProofs`, `ExchangesHaveOwnRegions`: two exchanges whose names have
no dot and fit into the path have different objects. Both are about functions and need no invariant; TLC
evaluates both, and that their conditions are needed for paths, on small inputs.

`SharedRegionProofs` proves for any number of subscribers, objects and slots, from `RegionAssumption`:

- `ReadyRegionsValid`: `RegionSpec => []ReadyIsValid`
- `OneRegionForAll`: `RegionSpec => []UsersShareRegion`
- `CreatorsUnlinkTheirOwn`: `RegionSpec => UnlinksOwn`

They follow from `RegionInvariance`: `RegionSpec => []RegionInv`. `ReadyIsValid` needs to know how far the
object is at each line of `initialize` (`HeaderOK`), and that an object somebody has open is never lost
(`StepAway`). `UsersShareRegion` and `UnlinksOwn` are about two processes at a time; what is inductive relates
each one to the path: every open object is the one the path refers to as long as no creator unlinked it under
others (`LinkedOK`), and there is one creator as long as none raced another (`CreatorsOK`). The steps are
proved in three kinds: a process stays with its object (`StepInPlace`, and for slots `UseStep`), leaves it
(`StepAway`), or comes to it (`OpenStep`, `CreateStep`).

`RegionSlotsProofs` builds on it and proves, for the same sizes:

- `RegionTypesOK`: `RegionSpec => []RegionTypeOK`
- `NoTrapLeft`: `RegionSpec => []FailureLeavesNoTrap`
- `RegistrationsKept`: `RegionSpec => []RegistrationKept`
- `SlotsHeld`: `RegionSpec => []SlotsAccountedFor`
- `UnregisterKeepsOthers`: `RegionSpec => UnregisterSparesOthers`

They follow from `SlotInvariance`: `RegionSpec => []SlotInv`, which the invariant of the object carries: a
slot can be relied on only while nobody constructs the header again (`AloneOK`, unless two calls of
`initialize` overlapped). A handle is out of date or its owner's: `GenerationsOK` bounds every handle by the
slot's generation, `OwnersOK` says that no two running processes hold one generation of one slot, `KeptOK`
that a slot keeps what its owner wrote unless a clearing met it, and `FreeingOK` what a process that has
passed the test of `unregisterSubscriber` may still rely on. `ActiveHeld` is the half of `SlotsAccountedFor`
that is inductive: an active slot has a holder; that there is only one follows from `OwnersOK`.

`ClientLocksProofs` proves for any finite set of exchanges, any list of configured ones and any of the calls
that callbacks may make, from `ClientAssumption`:

- `ClientTypes`: `FairClientSpec => []ClientTypeOK`
- `ClientNeverDeadlocks`: `FairClientSpec => []NoDeadlock`
- `ClientNeverTerminates`: `FairClientSpec => []NeverTerminated`
- `UnmapsAfterThreads`: `FairClientSpec => []UnmappedAfterThreads`
- `DisconnectedIsStopped`: `FairClientSpec => []DisconnectStopsAll`

They follow from the invariant `ClientInv`, in which every statement about a thread is one about the sequence
of what it has still to do. Any step of a thread puts a sequence in place of the first item (`Spliced`), so
each property of sequences needs one lemma (`SpliceOrdered`, `SpliceNested`, ...) and, for each method, that
its bodies fit in the place of its call (`Fits`, `InOrder`, `StaysQuiet`; `ClientCallBodies`,
`DeliveryBodies`, `ExitFits`, ...): the proof never looks at a method together with its callers.

- *Deadlock.* `Rank` numbers mutexes in the order in which they are taken: `subscribers_mutex_`, the callback
  mutexes of subscribers, of the publisher, of the client. A join is number 2, since threads are joined under
  the first mutex only; a method counts as the first thing it may wait for. Scopes are nested (`Nested`) and
  whoever holds a mutex has its release ahead and nothing of the same or a lower number before it (`Held`), while
  workers never wait for less than number 3 (`ThreadStatic`): as long as no callback calls back what needs a
  lower one. Of a set of threads the one that waits at the highest number therefore waits for none of them; it
  exists because the numbers are finite, however many threads there are.
- *Threads.* A thread that was not joined is followed by its stop wherever the main thread is: before the end
  of the process or the return of `disconnect()` comes a `disconnect()` or what is left of one
  (`ShutdownInv`), and before a subscriber is erased come its two joins (`SubscriberInv`). `Ordered(q, A, B)`
  says this of a sequence: a step of `A` comes after one of `B`. `PublisherInv` says that the flags and the
  heartbeat thread agree, or that the thread that set `cleanup_started_` is about to join it; `LifecycleInv`
  is for the time between `startPublisher` and the return of `connect()`. `NeverTerminated` and `UnmappedInv`
  (no thread is left to join when the registry goes) then are inductive beside them.
- *Conditions.* Each part of `ClientInv` holds until one of the situations in its guard has come up, so that
  the situations, which only accumulate, cut the proof into cases. `ThreadInv` holds whatever happens, and so
  does what `ThreadStatic` says without a guard: a mutex that is taken is released later in the sequence
  (`Closed`), so that a thread that joins itself leaves the scopes it is in, and nothing is joined by the main
  thread behind other steps (`JoinsFirst`).

All invariants that the runs check are proved, with `OnlyPublishedFrames` and the refinement of the feed for
a ring that is not lapped, and the action properties. Model-checked only: all liveness (`EventuallyRead`,
`DeadSlotsFreed`, `EventuallyDelivered`, `OutageNoticed`, `CallsReturn`), because neither fairness nor
`ENABLED` is within the provers' reach. `UnreadFramesIntact` with frames of two sizes and one subscriber
rests on the run `frames_two_laps`.

## 6. Not modelled, and the plan

Not modelled: formatting, logging, statistics, value types; slot names and `getSubscriberInfo`; `term_id`,
`term_offset` and `active_term_id`, which are written and never read; weak memory orders; wrap-around of the
64-bit positions and of `generation`; several topics of one process together with their rings, since
topics share nothing but the mutexes of registry and client, and those of the client are in `ClientLocks`.

Done: ring, frames, delivery and shared region with their proofs, the clean-up of slots with its proofs, the
client's locks with their proofs, codec and paths. What is left, most important first:

1. `clearAllSubscribers` with its store to `min_consumer_pos`, over `RingPositions`.
2. A second thread in `write`.
3. Frames of mixed sizes with overrun subscribers (`JumpIsSafe`, jumps into a payload).
