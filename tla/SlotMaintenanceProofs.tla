------------------------ MODULE SlotMaintenanceProofs ------------------------
(***************************************************************************)
(* Theorems about SlotMaintenance: what the clean-up of dead subscribers   *)
(* leaves to the first owner of a slot that is alive, for every number of  *)
(* slots and processes, and whatever processes register, crash, or reuse   *)
(* the slots of others meanwhile.                                          *)
(***************************************************************************)
EXTENDS SlotMaintenance, RingPositionsProofs

-----------------------------------------------------------------------------
(***************************************************************************)
(* Type correctness.                                                       *)
(***************************************************************************)

\* From "active" on the sweep clears the slot it has judged, up to "gen_store".
Clearing == {"active", "heartbeat", "cursor", "pid", "gen_load", "gen_store"}

SweepRecords == [step : SweepSteps, slot : 0 .. MaxSubscribers,
                 pid : Processes \cup {NoPid}, gen : Nat]

\* While the sweep is at a slot, it is one of the header.
AtSlot == sweep.step \notin {"rest", "look"} => sweep.slot \in Slots

SweepTypes == SweepTypeOK /\ AtSlot

\* The record of the loop at the start of a step.
LEMMA SweepAtType ==
  ASSUME NEW step \in SweepSteps, NEW i \in 0 .. MaxSubscribers
  PROVE  /\ SweepAt(step, i) \in SweepRecords
         /\ SweepAt(step, i).step = step /\ SweepAt(step, i).slot = i
         /\ SweepAt(step, i).gen = 0
BY DEF SweepAt, SweepRecords

\* The steps of the loop keep its record.
LEMMA LoopTypes ==
  ASSUME SweepTypes, sweep.slot \in Slots
  PROVE  /\ NextSlot => sweep' \in SweepRecords /\ AtSlot'
         /\ \A step \in SweepSteps : SweepTo(step) => sweep' \in SweepRecords /\ AtSlot'
         /\ \A g \in Nat : sweep' = [sweep EXCEPT !.step = "gen_store", !.gen = g]
                             => sweep' \in SweepRecords /\ AtSlot'
         /\ \A q \in Processes \cup {NoPid} :
              sweep' = [sweep EXCEPT !.step = "judge", !.pid = q]
                => sweep' \in SweepRecords /\ AtSlot'
<1>1. {"look", "gen_store", "judge"} \subseteq SweepSteps
  BY DEF SweepSteps
<1>2. sweep.slot + 1 \in 0 .. MaxSubscribers /\ sweep.slot \in 0 .. MaxSubscribers
  BY PositionsAssumption DEF Slots
<1>3. NextSlot => sweep' \in SweepRecords /\ AtSlot'
  BY <1>1, <1>2, SweepAtType DEF NextSlot, AtSlot
<1>4. \A step \in SweepSteps : SweepTo(step) => sweep' \in SweepRecords /\ AtSlot'
  BY <1>2, SweepAtType DEF SweepTo, AtSlot
<1>5. \A g \in Nat : sweep' = [sweep EXCEPT !.step = "gen_store", !.gen = g]
                       => sweep' \in SweepRecords /\ AtSlot'
  BY <1>1 DEF SweepTypes, SweepTypeOK, AtSlot, SweepRecords
<1>6. \A q \in Processes \cup {NoPid} :
        sweep' = [sweep EXCEPT !.step = "judge", !.pid = q]
          => sweep' \in SweepRecords /\ AtSlot'
  BY <1>1 DEF SweepTypes, SweepTypeOK, AtSlot, SweepRecords
<1> QED
  BY <1>3, <1>4, <1>5, <1>6

\* The sweep keeps the types of the header and of its own loop.
LEMMA SweepTypesStep ==
  ASSUME SweepTypes, Sweep
  PROVE  SweepTypes'
<1> USE PositionsAssumption, AgentsLemma
<1>t. /\ TypeOK /\ sweep \in SweepRecords /\ AtSlot
      /\ SweepTypes' <=> (TypeOK' /\ sweep' \in SweepRecords /\ AtSlot')
  BY DEF SweepTypes, SweepTypeOK, SweepRecords
<1>l. Clearing \cup {"age", "load_pid", "judge", "min"} \subseteq SweepSteps
  BY DEF Clearing, SweepSteps
<1>u. ASSUME UNCHANGED vars PROVE TypeOK'
  BY <1>t, <1>u DEF TypeOK, vars, header, slots, locals
<1>1. CASE SweepStart \/ SweepEnd
  <2>1. {"rest", "look"} \subseteq SweepSteps /\ 0 \in 0 .. MaxSubscribers
    BY DEF SweepSteps
  <2>2. sweep'.step \in {"rest", "look"} /\ sweep' \in SweepRecords
    BY <1>1, <2>1, SweepAtType DEF SweepStart, SweepEnd
  <2> QED
    BY <1>1, <1>t, <1>u, <2>2 DEF SweepStart, SweepEnd, AtSlot
<1>2. CASE SweepLook \/ SweepAge \/ SweepLoadPid \/ SweepJudge \/ LoadGeneration
  <2>1. sweep.slot \in Slots
    BY <1>2, <1>t DEF SweepLook, SweepAge, SweepLoadPid, SweepJudge, LoadGeneration,
                      AtSweep, AtSlot
  <2>2. generation[sweep.slot] \in Nat /\ pid[sweep.slot] \in Processes \cup {NoPid}
    BY <1>t, <2>1 DEF TypeOK
  <2>3. \/ NextSlot \/ \E step \in SweepSteps : SweepTo(step)
        \/ sweep' = [sweep EXCEPT !.step = "judge", !.pid = pid[sweep.slot]]
        \/ sweep' = [sweep EXCEPT !.step = "gen_store", !.gen = generation[sweep.slot]]
    BY <1>2, <1>l DEF SweepLook, SweepAge, SweepLoadPid, SweepJudge, LoadGeneration, Clearing
  <2>4. sweep' \in SweepRecords /\ AtSlot'
    BY <2>1, <2>2, <2>3, LoopTypes
  <2> QED
    BY <1>2, <1>t, <1>u, <2>4
    DEF SweepLook, SweepAge, SweepLoadPid, SweepJudge, LoadGeneration
<1>3. CASE ClearActive \/ ClearHeartbeat \/ ClearCursor \/ ClearPid \/ StoreGeneration
  <2>1. sweep.slot \in Slots
    BY <1>3, <1>t DEF ClearActive, ClearHeartbeat, ClearCursor, ClearPid, StoreGeneration,
                      AtSweep, AtSlot
  <2>2. \E step \in SweepSteps : SweepTo(step)
    BY <1>3, <1>l DEF ClearActive, ClearHeartbeat, ClearCursor, ClearPid, StoreGeneration,
                      Clearing
  <2>3. TypeOK'
    <3> USE <1>t, <2>1 DEF TypeOK, OtherThanSlots, header, locals
    <3>1. CASE ClearActive
      BY <3>1 DEF ClearActive
    <3>2. CASE ClearHeartbeat
      BY <3>2 DEF ClearHeartbeat, Heartbeats
    <3>3. CASE ClearCursor
      BY <3>3 DEF ClearCursor
    <3>4. CASE ClearPid
      BY <3>4 DEF ClearPid
    <3>5. CASE StoreGeneration
      <4>1. sweep.gen + 1 \in Nat /\ "scan0" \in JanitorLabels
        BY DEF SweepRecords, JanitorLabels
      <4> QED
        BY <3>5, <4>1 DEF StoreGeneration
    <3> QED
      BY <1>3, <3>1, <3>2, <3>3, <3>4, <3>5
  <2> QED
    BY <1>t, <2>1, <2>2, <2>3, LoopTypes
<1>4. CASE SweepMin
  <2>1. AtSweep("min") /\ sweep.slot \in Slots
    BY <1>4, <1>t DEF SweepMin, AtSweep, AtSlot
  <2>2. CASE (ScanStart(Janitor) \/ ScanSlot(Janitor)) /\ UNCHANGED sweep
    BY <1>t, <2>2, ScanTypes DEF AtSlot
  <2>3. CASE /\ ScanStore(Janitor, "idle")
             /\ NextSlot
             /\ UNCHANGED <<producer_pos, slots, alive, size, claimed, locals>>
    <3>1. scan[Janitor].min \in Nat /\ 0 \in 0 .. MaxSubscribers /\ 0 \in Nat
          /\ "idle" \in JanitorLabels
      BY <1>t DEF TypeOK, JanitorLabels
    <3>2. scan' \in [Agents -> [next : 0 .. MaxSubscribers, min : Nat]]
      BY <1>t, <2>3, <3>1, ScanUpdate DEF ScanStore
    <3>3. TypeOK'
      BY <1>t, <2>3, <3>1, <3>2 DEF ScanStore, Goto, TypeOK, slots, locals
    <3> QED
      BY <1>t, <2>1, <2>3, <3>3, LoopTypes
  <2> QED
    BY <1>4, <2>2, <2>3 DEF SweepMin
<1> QED
  BY <1>1, <1>2, <1>3, <1>4 DEF Sweep

\* Crashes and the passing of time keep the types.
LEMMA MaintenanceTypesStep ==
  ASSUME SweepTypes, SlotsHeld, [MaintenanceNext]_<<vars, sweep>>
  PROVE  SweepTypes'
<1>t. /\ TypeOK /\ SweepTypes
      /\ sweep' = sweep /\ TypeOK' => SweepTypes'
  BY DEF SweepTypes, SweepTypeOK, AtSlot
<1>1. CASE [Next]_vars /\ UNCHANGED sweep
  BY <1>1, <1>t, TypesStep
<1>2. ASSUME NEW p \in Processes, Crash(p), UNCHANGED sweep PROVE SweepTypes'
  <2>1. scan' \in [Agents -> [next : 0 .. MaxSubscribers, min : Nat]]
    <3>1. [next |-> 0, min |-> 0] \in [next : 0 .. MaxSubscribers, min : Nat]
      BY PositionsAssumption
    <3> HIDE DEF Agents
    <3> QED
      BY <1>2, <1>t, <3>1, Zenon DEF Crash, TypeOK
  <2> QED
    BY <1>2, <1>t, <2>1 DEF Crash, TypeOK, header, slots, locals
<1>3. CASE Sweep
  BY <1>3, SweepTypesStep
<1>4. ASSUME NEW i \in Slots, Age(i) PROVE SweepTypes'
  BY <1>4, <1>t DEF Age, TypeOK, OtherThanSlots, header, locals, Heartbeats
<1> QED
  BY <1>1, <1>2, <1>3, <1>4 DEF MaintenanceNext

-----------------------------------------------------------------------------
(***************************************************************************)
(* What the sweep does to the slots, and when.                             *)
(***************************************************************************)

\* The sweep writes one slot, the one it is clearing, and only to free it; the
\* generation it stores is one more than it has loaded.
LEMMA SweepStores ==
  ASSUME SweepTypes, Sweep
  PROVE  /\ UNCHANGED <<producer_pos, alive, size, claimed, locals>>
         /\ \A a \in Agents \ {Janitor} : pc'[a] = pc[a] /\ scan'[a] = scan[a]
         /\ sweep.step \notin Clearing => UNCHANGED slots
         /\ \A i \in Slots \ {sweep.slot} :
              /\ active'[i] = active[i] /\ cursor'[i] = cursor[i]
              /\ last_heartbeat'[i] = last_heartbeat[i]
              /\ pid'[i] = pid[i] /\ generation'[i] = generation[i]
         /\ \A i \in Slots :
              /\ cursor'[i] \in {cursor[i], 0}
              /\ last_heartbeat'[i] \in {last_heartbeat[i], "never"}
              /\ generation'[i] = generation[i]
                 \/ (sweep.step = "gen_store" /\ generation'[i] = sweep.gen + 1)
<1> USE AgentsLemma DEF OtherThanSlots, slots, header, vars
<1>t. TypeOK
  BY DEF SweepTypes, SweepTypeOK
<1>1. CASE \/ SweepStart \/ SweepEnd \/ SweepLook \/ SweepAge \/ SweepLoadPid \/ SweepJudge
           \/ LoadGeneration
  BY <1>1 DEF SweepStart, SweepEnd, SweepLook, SweepAge, SweepLoadPid, SweepJudge, LoadGeneration
<1>2. CASE ClearActive
  BY <1>t, <1>2 DEF ClearActive, AtSweep, Clearing, TypeOK
<1>3. CASE ClearHeartbeat
  BY <1>t, <1>3 DEF ClearHeartbeat, AtSweep, Clearing, TypeOK
<1>4. CASE ClearCursor
  BY <1>t, <1>4 DEF ClearCursor, AtSweep, Clearing, TypeOK
<1>5. CASE ClearPid
  BY <1>t, <1>5 DEF ClearPid, AtSweep, Clearing, TypeOK
<1>6. CASE StoreGeneration
  BY <1>t, <1>6 DEF StoreGeneration, AtSweep, Clearing, TypeOK
<1>7. CASE SweepMin
  <2>1. CASE ScanStart(Janitor) \/ ScanSlot(Janitor)
    BY <1>t, <1>7, <2>1, ScanFrame
  <2>2. CASE /\ ScanStore(Janitor, "idle")
             /\ UNCHANGED <<producer_pos, slots, alive, size, claimed, locals>>
    BY <1>t, <2>2 DEF ScanStore, Goto, TypeOK
  <2> QED
    BY <1>7, <2>1, <2>2 DEF SweepMin
<1> QED
  BY <1>1, <1>2, <1>3, <1>4, <1>5, <1>6, <1>7 DEF Sweep

\* The sweep comes to a slot's fields by way of a heartbeat that is old and a
\* process, loaded from the slot, that is gone.
LEMMA SweepGoesOn ==
  ASSUME SweepTypes, Sweep
  PROVE  /\ sweep'.step \in Clearing =>
              /\ sweep'.slot = sweep.slot
              /\ \/ sweep.step \in Clearing
                 \/ sweep.step = "judge" /\ ~ProcessAlive(sweep.pid)
         /\ sweep'.step = "judge" =>
              /\ sweep'.slot = sweep.slot /\ sweep.step = "load_pid"
              /\ sweep'.pid = pid[sweep.slot]
         /\ sweep'.step = "load_pid" =>
              /\ sweep'.slot = sweep.slot /\ sweep.slot \in Slots
              /\ last_heartbeat[sweep.slot] = "stale"
         /\ sweep'.step = "gen_store" => sweep'.gen = generation[sweep.slot]
<1> USE DEF AtSweep, SweepTo, SweepAt, NextSlot, Clearing
<1>t. sweep \in SweepRecords /\ AtSlot
  BY DEF SweepTypes, SweepTypeOK, SweepRecords
<1>1. CASE SweepStart \/ SweepEnd
  BY <1>1 DEF SweepStart, SweepEnd
<1>2. CASE SweepLook
  BY <1>t, <1>2 DEF SweepLook
<1>3. CASE SweepAge
  BY <1>t, <1>3 DEF SweepAge, AtSlot
<1>4. CASE SweepLoadPid
  BY <1>t, <1>4 DEF SweepLoadPid, SweepRecords
<1>5. CASE SweepJudge
  BY <1>t, <1>5 DEF SweepJudge
<1>6. CASE ClearActive \/ ClearHeartbeat \/ ClearCursor \/ ClearPid
  BY <1>t, <1>6 DEF ClearActive, ClearHeartbeat, ClearCursor, ClearPid
<1>7. CASE LoadGeneration
  BY <1>t, <1>7 DEF LoadGeneration, SweepRecords
<1>8. CASE StoreGeneration
  BY <1>8 DEF StoreGeneration
<1>9. CASE SweepMin
  BY <1>t, <1>9 DEF SweepMin
<1> QED
  BY <1>1, <1>2, <1>3, <1>4, <1>5, <1>6, <1>7, <1>8, <1>9 DEF Sweep

-----------------------------------------------------------------------------
(***************************************************************************)
(* What a subscriber process does to the slots, and when.                  *)
(***************************************************************************)

\* From the compare-exchange to the store of the generation, and after it.
Unstored == {"pid", "gen", "gen_store"}
Stored == {"position", "cursor"} \cup ShownLabels

LEMMA LabelsLemma ==
  /\ Unstored \cap Stored = {} /\ "position" \in Stored
  /\ "heartbeat" \notin Unstored /\ "frame" \notin Unstored
  /\ {"cursor", "overrun", "frame"} \cap Unstored = {}
  /\ \A p \in Processes : Anchored(p) => pc[p] \notin ClaimingLabels
  /\ ClaimingLabels = Unstored \cup {"position"}
BY DEF Unstored, Stored, ShownLabels, ClaimingLabels, Anchored

\* A process stores its pid, a generation and a heartbeat in its own slot, each
\* at one place of registerSubscriber() (the heartbeat in poll() too).
LEMMA SubscriberStores ==
  ASSUME TypeOK, NEW r \in Processes, Subscriber(r)
  PROVE  /\ alive[r] /\ alive' = alive
         /\ \/ pid' = pid
            \/ RegisterPid(r)
         /\ generation' = generation \/ RegisterGenStore(r)
         /\ \A i \in Slots : \/ last_heartbeat'[i] = last_heartbeat[i]
                             \/ i = slot[r] /\ pc[r] \in {"heartbeat", "frame"}
         /\ \A q \in Processes \ {r} : handle'[q] = handle[q]
<1> USE DEF slots, locals, vars, At
<1>1. CASE Register(r)
  BY <1>1 DEF TypeOK, Register, RegisterStart, RegisterTaken, RegisterClaim, RegisterPid,
     RegisterGenLoad, RegisterGenStore, RegisterLoadPosition, RegisterStoreCursor,
     RegisterHeartbeat, RegisterStoreMin, RegisterReturn
<1>2. CASE alive[r] /\ (ScanStart(r) \/ ScanSlot(r))
  BY <1>2 DEF ScanStart, ScanSlot
<1>3. CASE Poll(r)
  BY <1>3 DEF TypeOK, Poll, PollNothing, PollLoad, PollOverrun, PollUncommitted, PollFrame,
     PollAdvance
<1>4. CASE Unregister(r)
  BY <1>4 DEF TypeOK, Unregister, UnregisterCheck, UnregisterClear, UnregisterStoreMin
<1> QED
  BY <1>1, <1>2, <1>3, <1>4 DEF Subscriber

\* The way of a process from its claim to the store of the generation.
LEMMA SubscriberGoesOn ==
  ASSUME TypeOK, SlotsHeld, NEW r \in Processes, Subscriber(r)
  PROVE  /\ pc'[r] \in Unstored => \/ RegisterClaim(r) /\ pc'[r] = "pid"
                                   \/ RegisterPid(r) /\ pc'[r] = "gen"
                                   \/ RegisterGenLoad(r) /\ pc'[r] = "gen_store"
         /\ pc[r] \in Unstored => RegisterPid(r) \/ RegisterGenLoad(r) \/ RegisterGenStore(r)
         /\ pc'[r] \in Stored => \/ pc[r] \in Stored
                                 \/ RegisterGenStore(r)
         /\ slot'[r] \in {slot[r], NoSlot} \/ RegisterClaim(r)
         /\ pc'[r] = "position" => RegisterGenStore(r)
         /\ pc'[r] = "cursor" => RegisterLoadPosition(r)
<1> USE AgentsLemma DEF Goto, At, slots, locals, vars
<1>l. /\ {"heartbeat", "scan0", "scan", "handle", "ready", "overrun", "frame",
          "unregister", "position", "cursor"} \subseteq Stored
      /\ {"idle", "try", "pid", "gen", "gen_store"} \cap Stored = {}
      /\ {"pid", "gen", "gen_store"} = Unstored
      /\ \A x \in {"idle", "try", "heartbeat", "scan0", "scan", "handle", "ready",
                   "overrun", "frame", "unregister", "position", "cursor"} : x \notin Unstored
  BY DEF Stored, Unstored, ShownLabels
<1>t. /\ pc \in [Agents -> WriterLabels \cup JanitorLabels \cup ProcessLabels]
      /\ slot \in [Processes -> Slots \cup {NoSlot}]
  BY DEF TypeOK
<1> HIDE DEF Stored, Unstored
<1>1. CASE Register(r)
  <2>1. CASE RegisterStart(r) \/ RegisterTaken(r) \/ RegisterClaim(r)
    BY <1>l, <1>t, <2>1 DEF RegisterStart, RegisterTaken, RegisterClaim
  <2>2. CASE RegisterPid(r) \/ RegisterGenLoad(r) \/ RegisterGenStore(r)
    BY <1>l, <1>t, <2>2 DEF RegisterPid, RegisterGenLoad, RegisterGenStore
  <2>3. CASE RegisterLoadPosition(r) \/ RegisterStoreCursor(r) \/ RegisterHeartbeat(r)
             \/ RegisterStoreMin(r) \/ RegisterReturn(r)
    BY <1>l, <1>t, <2>3 DEF RegisterLoadPosition, RegisterStoreCursor, RegisterHeartbeat,
       RegisterStoreMin, RegisterReturn, ScanStore
  <2> QED
    BY <1>1, <2>1, <2>2, <2>3 DEF Register
<1>2. CASE ScanStart(r) \/ ScanSlot(r)
  BY <1>l, <1>t, <1>2 DEF ScanStart, ScanSlot
<1>3. CASE Poll(r)
  BY <1>l, <1>t, <1>3 DEF Poll, PollNothing, PollLoad, PollOverrun, PollUncommitted,
     PollFrame, PollAdvance
<1>4. CASE Unregister(r)
  BY <1>l, <1>t, <1>4 DEF Unregister, UnregisterCheck, UnregisterClear, UnregisterStoreMin,
     ScanStore
<1> QED
  BY <1>1, <1>2, <1>3, <1>4 DEF Subscriber

\* A step that is neither a subscriber's nor the sweep's: write(), a crash, time.
Quiet ==
  /\ UNCHANGED <<active, cursor, pid, generation, locals, sweep>>
  /\ \A p \in Processes : pc'[p] = pc[p] /\ (alive'[p] => alive[p])
  /\ \A i \in Slots : last_heartbeat'[i] # "never" => last_heartbeat[i] # "never"
  /\ \/ Write
     \/ /\ UNCHANGED <<header, size, pc>>
        /\ \A a \in Agents : scan'[a] \in {scan[a], [next |-> 0, min |-> 0]}

LEMMA MaintenanceSteps ==
  ASSUME SweepTypes, [MaintenanceNext]_<<vars, sweep>>
  PROVE  \/ \E r \in Processes : Subscriber(r) /\ sweep' = sweep
         \/ Sweep
         \/ Quiet
<1> USE AgentsLemma DEF slots, header, locals, vars, OtherThanSlots
<1>t. TypeOK
  BY DEF SweepTypes, SweepTypeOK
<1>1. CASE Write /\ UNCHANGED sweep
  BY <1>1, <1>t, WriterFrame DEF Quiet
<1>2. ASSUME NEW p \in Processes, Crash(p), UNCHANGED sweep PROVE Quiet
  BY <1>2, <1>t, Zenon DEF Crash, Quiet, TypeOK
<1>3. ASSUME NEW i \in Slots, Age(i) PROVE Quiet
  BY <1>3, <1>t DEF Age, Quiet, TypeOK
<1>4. CASE UNCHANGED <<vars, sweep>>
  BY <1>4 DEF Quiet
<1> QED
  BY <1>1, <1>2, <1>3, <1>4 DEF MaintenanceNext, Next

-----------------------------------------------------------------------------
(***************************************************************************)
(* The invariant: a generation tells how often a slot was claimed, and the *)
(* sweep can only come to a slot whose generation was stored.              *)
(***************************************************************************)

\* A heartbeat shows only after a generation was stored.
HeartbeatsCounted ==
  \A i \in Slots : last_heartbeat[i] # "never" => generation[i] # 0

\* Until then the process that claimed the slot first has it to itself.
NewSlotKept ==
  \A p \in Processes : Holding(p) /\ generation[slot[p]] = 0 =>
    /\ pc[p] \in Unstored
    /\ active[slot[p]] = 1
    /\ pc[p] # "pid" => pid[slot[p]] = p
    /\ \A q \in Processes \ {p} : slot[q] # slot[p]

\* Only the first claim loads a generation of 0.
LoadsCounted ==
  \A p \in Processes : pc[p] = "gen_store" /\ generation[slot[p]] # 0 => handle[p] # 0

\* A slot has no cursor before its first generation is stored...
CursorsCounted == \A i \in Slots : generation[i] = 0 => cursor[i] = 0

\* The sweep is past its tests only at a slot that has shown a heartbeat.
SweepCounted ==
  sweep.step \in Clearing \cup {"load_pid", "judge"} =>
    generation[sweep.slot] # 0 /\ (sweep.step = "gen_store" => sweep.gen # 0)

\* A live first owner, from the store of its generation on.
First(p) == alive[p] /\ Holding(p) /\ pc[p] \in Stored /\ generation[slot[p]] = 1

\* ... and none until the first owner stores its own.
FirstUnread == \A p \in Processes : First(p) /\ pc[p] = "position" => cursor[slot[p]] = 0

\* Nobody else has its slot, and the sweep finds its pid there and leaves it alone.
FirstKept ==
  \A p \in Processes : First(p) =>
    /\ active[slot[p]] = 1
    /\ pid[slot[p]] = p
    /\ \A q \in Processes \ {p} : slot[q] # slot[p]
    /\ sweep.step = "judge" /\ sweep.slot = slot[p] => sweep.pid = p
    /\ sweep.step \in Clearing => sweep.slot # slot[p]

\* LocalsAgree, for first owners.
FirstLocals ==
  \A p \in Processes : First(p) =>
    /\ pc[p] = "cursor" => cursor[slot[p]] <= seen_prod[p]
    /\ pc[p] \in {"overrun", "frame"} => seen_cursor[p] = cursor[slot[p]]

\* Back-pressure for first owners.
FirstCovered == \A p \in Processes : First(p) /\ Anchored(p) => Covered(p)

SlotsInv ==
  /\ SweepTypes
  /\ SlotsHeld
  /\ HeartbeatsCounted
  /\ NewSlotKept
  /\ LoadsCounted
  /\ SweepCounted
  /\ FirstKept

MaintenanceInv ==
  /\ SlotsInv
  /\ BehindProducer
  /\ CursorsCounted
  /\ FirstUnread
  /\ FirstLocals
  /\ FirstCovered

\* A generation that was stored stays so.
LEMMA GenerationsGrow ==
  ASSUME SweepTypes, [MaintenanceNext]_<<vars, sweep>>, NEW i \in Slots, generation[i] # 0
  PROVE  generation'[i] # 0
<1>t. TypeOK /\ sweep.gen \in Nat
  BY DEF SweepTypes, SweepTypeOK
<1>1. ASSUME NEW r \in Processes, Subscriber(r) PROVE generation'[i] # 0
  <2>1. generation' = generation \/ RegisterGenStore(r)
    BY <1>t, <1>1, SubscriberStores
  <2>2. handle[r] \in Nat
    BY <1>t DEF TypeOK
  <2> QED
    BY <1>t, <2>1, <2>2 DEF RegisterGenStore, TypeOK
<1>2. CASE Sweep
  <2>1. generation'[i] = generation[i] \/ generation'[i] = sweep.gen + 1
    BY <1>2, SweepStores
  <2> QED
    BY <1>t, <2>1
<1> QED
  BY <1>1, <1>2, MaintenanceSteps DEF Quiet

\* A slot that is written before its first generation is stored is written by the
\* process that has claimed it.
LEMMA HeartbeatsCountedStep ==
  ASSUME SlotsInv, [MaintenanceNext]_<<vars, sweep>>
  PROVE  HeartbeatsCounted'
<1> USE DEF SlotsInv
<1>t. TypeOK
  BY DEF SweepTypes, SweepTypeOK
<1> SUFFICES ASSUME NEW i \in Slots, last_heartbeat'[i] # "never" PROVE generation[i] # 0
  BY GenerationsGrow DEF HeartbeatsCounted
<1>1. ASSUME NEW r \in Processes, Subscriber(r) PROVE generation[i] # 0
  <2>1. CASE last_heartbeat'[i] = last_heartbeat[i]
    BY <2>1 DEF HeartbeatsCounted
  <2>2. CASE i = slot[r] /\ pc[r] \in {"heartbeat", "frame"}
    BY <2>2, LabelsLemma, PositionsAssumption DEF NewSlotKept, Holding
  <2> QED
    BY <1>t, <1>1, <2>1, <2>2, SubscriberStores
<1>2. CASE Sweep
  <2>1. last_heartbeat'[i] \in {last_heartbeat[i], "never"}
    BY <1>2, SweepStores
  <2> QED
    BY <2>1 DEF HeartbeatsCounted
<1> QED
  BY <1>1, <1>2, MaintenanceSteps DEF Quiet, HeartbeatsCounted

\* The loads of generation++ and of the sweep.
LEMMA LoadsCountedStep ==
  ASSUME SlotsInv, [MaintenanceNext]_<<vars, sweep>>, SweepTypes'
  PROVE  LoadsCounted' /\ SweepCounted'
<1> USE DEF SlotsInv
<1>t. TypeOK /\ TypeOK'
  BY DEF SweepTypes, SweepTypeOK
<1>1. ASSUME NEW p \in Processes, pc'[p] = "gen_store", generation'[slot'[p]] # 0
      PROVE  handle'[p] # 0
  <2>s. slot[p] \in Slots
    <3>1. CASE Subscriber(p)
      <4>1. RegisterGenLoad(p)
        BY <1>t, <1>1, <3>1, SubscriberGoesOn DEF Unstored
      <4> QED
        BY <1>t, <4>1 DEF RegisterGenLoad, At, SlotsHeld, Holding, ClaimingLabels, TypeOK
    <3>2. CASE ~Subscriber(p)
      <4>1. pc[p] = "gen_store"
        BY <1>t, <1>1, <3>2, MaintenanceSteps, SubscriberFrame, SweepStores, AgentsLemma
        DEF Quiet
      <4> QED
        BY <1>t, <4>1 DEF SlotsHeld, Holding, ClaimingLabels, TypeOK
    <3> QED
      BY <3>1, <3>2
  <2>1. CASE Subscriber(p)
    <3>1. RegisterGenLoad(p)
      BY <1>t, <1>1, <2>1, SubscriberGoesOn DEF Unstored
    <3>2. handle'[p] = generation[slot[p]] /\ slot' = slot /\ generation' = generation
      BY <1>t, <3>1 DEF RegisterGenLoad, slots, TypeOK
    <3> QED
      BY <1>1, <3>2
  <2>2. CASE ~Subscriber(p)
    <3>1. pc[p] = "gen_store" /\ slot'[p] = slot[p] /\ handle'[p] = handle[p]
      <4>1. ASSUME NEW r \in Processes, Subscriber(r), r # p
            PROVE  pc[p] = "gen_store" /\ slot'[p] = slot[p] /\ handle'[p] = handle[p]
        BY <1>t, <1>1, <4>1, SubscriberFrame, SubscriberStores, AgentsLemma
      <4> QED
        BY <1>1, <2>2, <4>1, MaintenanceSteps, SweepStores, AgentsLemma DEF Quiet, locals
    <3>2. CASE generation[slot[p]] # 0
      BY <3>1, <3>2 DEF LoadsCounted
    <3>3. CASE generation[slot[p]] = 0
      <4>1. generation'[slot[p]] # 0
        BY <1>1, <3>1
      <4>2. ASSUME NEW r \in Processes \ {p} PROVE slot[r] # slot[p]
        BY <2>s, <3>3, PositionsAssumption DEF NewSlotKept, Holding
      <4>3. ASSUME NEW r \in Processes, Subscriber(r) PROVE FALSE
        <5>1. generation' = generation \/ RegisterGenStore(r)
          BY <1>t, <4>3, SubscriberStores
        <5>2. r # p
          BY <2>2, <4>3
        <5> QED
          BY <1>t, <2>s, <3>3, <4>1, <4>2, <5>1, <5>2 DEF RegisterGenStore, TypeOK
      <4>4. CASE Sweep
        <5>1. generation'[slot[p]] = generation[slot[p]] \/ slot[p] = sweep.slot
          BY <2>s, <4>4, SweepStores
        <5>2. generation'[slot[p]] = generation[slot[p]] \/ sweep.step = "gen_store"
          BY <2>s, <4>4, SweepStores
        <5> QED
          BY <3>3, <4>1, <5>1, <5>2 DEF SweepCounted, Clearing
      <4> QED
        BY <3>3, <4>1, <4>3, <4>4, MaintenanceSteps DEF Quiet
    <3> QED
      BY <3>2, <3>3
  <2> QED
    BY <2>1, <2>2
<1>2. SweepCounted'
  <2>1. CASE sweep' = sweep
    <3>1. sweep.step \in Clearing \cup {"load_pid", "judge"} => sweep.slot \in Slots
      BY DEF SweepTypes, AtSlot, Clearing
    <3> QED
      BY <2>1, <3>1, GenerationsGrow DEF SweepCounted
  <2>2. CASE Sweep
    <3>1. ASSUME sweep'.step \in Clearing \cup {"load_pid", "judge"}
          PROVE  /\ sweep'.slot = sweep.slot /\ sweep.slot \in Slots
                 /\ generation[sweep.slot] # 0
      <4>1. CASE sweep'.step \in Clearing \cup {"judge"}
        <5>1. sweep'.slot = sweep.slot /\ sweep.step \in Clearing \cup {"load_pid", "judge"}
          BY <2>2, <4>1, SweepGoesOn
        <5> QED
          BY <5>1 DEF SweepCounted, SweepTypes, AtSlot, Clearing
      <4>2. CASE sweep'.step = "load_pid"
        <5>1. /\ sweep'.slot = sweep.slot /\ sweep.slot \in Slots
              /\ last_heartbeat[sweep.slot] = "stale"
          BY <2>2, <4>2, SweepGoesOn
        <5> QED
          BY <5>1 DEF HeartbeatsCounted
      <4> QED
        BY <3>1, <4>1, <4>2
    <3>2. sweep'.step = "gen_store" => sweep'.gen = generation[sweep.slot]
      BY <2>2, SweepGoesOn
    <3>3. "gen_store" \in Clearing
      BY DEF Clearing
    <3> QED
      BY <3>1, <3>2, <3>3, GenerationsGrow DEF SweepCounted
  <2> QED
    BY <2>1, <2>2, MaintenanceSteps DEF Quiet
<1> QED
  BY <1>1, <1>2 DEF LoadsCounted

\* The slot that p holds alone and whose `active` is 1 stays so through the steps of
\* others: the compare-exchange fails on it, and each frees and stores its own.
LEMMA OthersKeepOff ==
  ASSUME TypeOK, SlotsHeld, NEW p \in Processes, NEW r \in Processes \ {p}, Subscriber(r),
         slot[p] \in Slots, active[slot[p]] = 1,
         \A q \in Processes \ {p} : slot[q] # slot[p]
  PROVE  /\ slot'[p] = slot[p] /\ pc'[p] = pc[p]
         /\ active'[slot[p]] = 1
         /\ pid'[slot[p]] = pid[slot[p]]
         /\ generation'[slot[p]] = generation[slot[p]]
         /\ \A q \in Processes \ {p} : slot'[q] # slot[p]
<1> USE PositionsAssumption, AgentsLemma
<1>1. /\ \A q \in Processes \ {r} : slot'[q] = slot[q]
      /\ pc'[p] = pc[p]
  BY SubscriberFrame
<1>2. slot[r] # slot[p]
  OBVIOUS
<1>3. active'[slot[p]] = 1 /\ slot'[r] # slot[p]
  <2>1. CASE slot'[r] = slot[r] /\ active' = active
    BY <1>2, <2>1
  <2>2. CASE slot'[r] = NoSlot /\ \A i \in Slots \ {slot[r]} : active'[i] = active[i]
    BY <1>2, <2>2
  <2>3. CASE active[slot'[r]] = 0 /\ active' = [active EXCEPT ![slot'[r]] = 1]
    BY <2>3 DEF TypeOK
  <2> QED
    BY <2>1, <2>2, <2>3, SlotStep
<1>4. pid'[slot[p]] = pid[slot[p]]
  BY <1>2, SubscriberStores DEF RegisterPid, TypeOK
<1>5. generation'[slot[p]] = generation[slot[p]]
  BY <1>2, SubscriberStores DEF RegisterGenStore, TypeOK
<1> QED
  BY <1>1, <1>2, <1>3, <1>4, <1>5

\* registerSubscriber() keeps the slot it claimed first up to the store of its generation.
LEMMA NewSlotKeptStep ==
  ASSUME SlotsInv, [MaintenanceNext]_<<vars, sweep>>, SweepTypes'
  PROVE  NewSlotKept'
<1> USE AgentsLemma, PositionsAssumption DEF SlotsInv
<1>t. TypeOK /\ TypeOK' /\ "gen_store" \in Clearing
  BY DEF SweepTypes, SweepTypeOK, Clearing
<1> DEFINE Kept(p) == /\ pc[p] \in Unstored
                      /\ active[slot[p]] = 1
                      /\ pc[p] # "pid" => pid[slot[p]] = p
                      /\ \A q \in Processes \ {p} : slot[q] # slot[p]
<1> SUFFICES ASSUME NEW p \in Processes, slot'[p] \in Slots, generation'[slot'[p]] = 0
             PROVE  Kept(p)'
  <2>1. slot' \in [Processes -> Slots \cup {NoSlot}]
    BY <1>t DEF TypeOK
  <2> QED
    BY <2>1 DEF NewSlotKept, Holding
<1>1. generation[slot'[p]] = 0
  BY GenerationsGrow
<1>2. \A q \in Processes : slot[q] = slot'[p] => Kept(q)
  BY <1>1 DEF NewSlotKept, Holding
<1>3. CASE Subscriber(p)
  <2>1. \A q \in Processes \ {p} : slot'[q] = slot[q]
    BY <1>t, <1>3, SubscriberFrame
  <2>2. CASE RegisterClaim(p)
    <3>1. /\ pc'[p] = "pid" /\ active[slot'[p]] = 0 /\ active'[slot'[p]] = 1
      BY <1>t, <2>2 DEF RegisterClaim, Goto, TypeOK
    <3>2. \A q \in Processes : slot[q] # slot'[p]
      BY <1>2, <3>1
    <3> QED
      BY <2>1, <3>1, <3>2 DEF Unstored
  <2>3. CASE slot'[p] = slot[p]
    <3>1. Kept(p) /\ slot[p] \in Slots
      BY <1>2, <2>3
    <3>2. active'[slot[p]] = 1
      <4>1. active[slot[p]] = 1 /\ slot'[p] # NoSlot
        BY <2>3, <3>1
      <4>2. active' = active \/ active' = [active EXCEPT ![slot'[p]] = 1]
        BY <1>t, <1>3, <4>1, SlotStep
      <4> QED
        BY <1>t, <2>3, <3>1, <4>1, <4>2 DEF TypeOK
    <3>3. RegisterPid(p) \/ RegisterGenLoad(p)
      <4>1. ~RegisterGenStore(p)
        <5>1. handle[p] + 1 # 0
          BY <1>t DEF TypeOK
        <5> QED
          BY <1>t, <2>3, <3>1, <5>1 DEF RegisterGenStore, TypeOK
      <4> QED
        BY <1>t, <1>3, <3>1, <4>1, SubscriberGoesOn
    <3>4. pc'[p] \in Unstored /\ pid'[slot[p]] = p
      BY <1>t, <3>1, <3>3 DEF RegisterPid, RegisterGenLoad, At, Goto, TypeOK, Unstored, slots
    <3> QED
      BY <2>1, <2>3, <3>1, <3>2, <3>4
  <2> QED
    BY <1>t, <1>3, <2>2, <2>3, SubscriberGoesOn
<1>4. ASSUME NEW r \in Processes \ {p}, Subscriber(r) PROVE Kept(p)'
  <2>1. slot'[p] = slot[p]
    BY <1>t, <1>4, SubscriberFrame
  <2>2. Kept(p)
    BY <1>2, <2>1
  <2> QED
    BY <1>t, <1>4, <2>1, <2>2, OthersKeepOff
<1>5. CASE Sweep
  <2>1. /\ \A q \in Processes : slot'[q] = slot[q] /\ pc'[q] = pc[q]
    BY <1>5, SweepStores DEF locals
  <2>2. sweep.step \in Clearing => sweep.slot # slot[p]
    BY <1>1, <2>1 DEF SweepCounted
  <2>3. active'[slot[p]] = active[slot[p]] /\ pid'[slot[p]] = pid[slot[p]]
    BY <1>5, <2>1, <2>2, SweepStores DEF slots
  <2> QED
    BY <1>2, <2>1, <2>3
<1>6. CASE Quiet
  BY <1>2, <1>6 DEF Quiet, locals
<1> QED
  BY <1>3, <1>4, <1>5, <1>6, MaintenanceSteps

\* A process becomes a first owner with the store of the first generation, and
\* nobody makes it one later.
LEMMA FirstBefore ==
  ASSUME SlotsInv, [MaintenanceNext]_<<vars, sweep>>, SweepTypes',
         NEW p \in Processes, First(p)'
  PROVE  \/ First(p) /\ slot'[p] = slot[p]
         \/ RegisterGenStore(p) /\ alive[p] /\ slot'[p] = slot[p] /\ generation[slot[p]] = 0
<1> USE AgentsLemma, PositionsAssumption DEF SlotsInv
<1>t. TypeOK /\ TypeOK' /\ sweep.gen \in Nat /\ "gen_store" \in Clearing
  BY DEF SweepTypes, SweepTypeOK, Clearing
<1>f. alive'[p] /\ slot'[p] \in Slots /\ pc'[p] \in Stored /\ generation'[slot'[p]] = 1
  BY <1>t DEF First, Holding, TypeOK
<1>1. ASSUME NEW r \in Processes, RegisterGenStore(r), slot[r] = slot'[p], slot[p] = slot'[p]
      PROVE  RegisterGenStore(p) /\ alive[p] /\ generation[slot[p]] = 0
  <2>1. generation[slot[p]] = 0
    <3>1. generation'[slot[p]] = handle[r] + 1 /\ pc[r] = "gen_store" /\ handle[r] \in Nat
      BY <1>t, <1>f, <1>1 DEF RegisterGenStore, At, TypeOK
    <3>2. handle[r] = 0
      BY <1>f, <1>1, <3>1
    <3> QED
      BY <1>1, <3>1, <3>2 DEF LoadsCounted
  <2>2. p = r
    BY <1>f, <1>1, <2>1 DEF NewSlotKept, Holding
  <2> QED
    BY <1>1, <2>1, <2>2 DEF RegisterGenStore, At
<1>2. ASSUME NEW r \in Processes, Subscriber(r),
             ~(RegisterGenStore(p) /\ alive[p] /\ slot'[p] = slot[p] /\ generation[slot[p]] = 0)
      PROVE  First(p) /\ slot'[p] = slot[p]
  <2>1. pc[p] \in Stored /\ slot'[p] = slot[p]
    <3>1. CASE r = p
      <4>1. slot'[p] = slot[p]
        <5>1. ~RegisterClaim(p)
          BY <1>t, <1>f DEF RegisterClaim, Goto, TypeOK, Stored, ShownLabels
        <5>2. slot'[p] \in {slot[p], NoSlot}
          BY <1>t, <1>2, <3>1, <5>1, SubscriberGoesOn
        <5> QED
          BY <1>f, <5>2
      <4>2. ~RegisterGenStore(p)
        BY <1>1, <1>2, <4>1
      <4> QED
        BY <1>t, <1>f, <1>2, <3>1, <4>1, <4>2, SubscriberGoesOn
    <3>2. CASE r # p
      BY <1>t, <1>f, <1>2, <3>2, SubscriberFrame
    <3> QED
      BY <3>1, <3>2
  <2>2. generation'[slot[p]] = generation[slot[p]]
    <3>1. ~(RegisterGenStore(r) /\ slot[r] = slot[p])
      BY <1>1, <1>2, <2>1
    <3> QED
      BY <1>t, <1>2, <1>f, <2>1, <3>1, SubscriberStores DEF RegisterGenStore, TypeOK
  <2>3. alive[p]
    BY <1>t, <1>f, <1>2, SubscriberStores, Zenon
  <2> QED
    BY <1>f, <2>1, <2>2, <2>3 DEF First, Holding
<1>3. CASE Sweep
  <2>1. slot'[p] = slot[p] /\ pc'[p] = pc[p] /\ alive' = alive
    BY <1>3, SweepStores DEF locals
  <2>2. generation'[slot[p]] = generation[slot[p]]
    <3>1. \/ generation'[slot[p]] = generation[slot[p]]
          \/ sweep.step = "gen_store" /\ generation'[slot[p]] = sweep.gen + 1
      BY <1>f, <1>3, <2>1, SweepStores
    <3>2. sweep.step = "gen_store" => sweep.gen # 0
      BY <1>t DEF SweepCounted
    <3> QED
      BY <1>t, <1>f, <2>1, <3>1, <3>2
  <2> QED
    BY <1>f, <2>1, <2>2 DEF First, Holding
<1>4. CASE Quiet
  BY <1>f, <1>4 DEF Quiet, First, Holding, locals
<1> QED
  BY <1>2, <1>3, <1>4, MaintenanceSteps

\* The sweep finds the process of a live first owner alive, and nobody else has
\* anything to do with its slot.
LEMMA FirstKeptStep ==
  ASSUME SlotsInv, [MaintenanceNext]_<<vars, sweep>>, SweepTypes'
  PROVE  FirstKept'
<1> USE AgentsLemma, PositionsAssumption DEF SlotsInv
<1>t. TypeOK /\ TypeOK'
  BY DEF SweepTypes, SweepTypeOK
<1> DEFINE Kept(p) == /\ active[slot[p]] = 1
                      /\ pid[slot[p]] = p
                      /\ \A q \in Processes \ {p} : slot[q] # slot[p]
                      /\ sweep.step = "judge" /\ sweep.slot = slot[p] => sweep.pid = p
                      /\ sweep.step \in Clearing => sweep.slot # slot[p]
<1> SUFFICES ASSUME NEW p \in Processes, First(p)' PROVE Kept(p)'
  BY DEF FirstKept
<1>f. slot'[p] \in Slots
  BY <1>t DEF First, Holding, TypeOK
<1>1. CASE RegisterGenStore(p) /\ slot'[p] = slot[p] /\ generation[slot[p]] = 0
  <2>1. /\ slot' = slot /\ pid' = pid /\ active' = active /\ pc[p] = "gen_store"
    BY <1>1 DEF RegisterGenStore, At, locals
  <2>2. /\ active[slot[p]] = 1 /\ pid[slot[p]] = p
        /\ \A q \in Processes \ {p} : slot[q] # slot[p]
    BY <1>1, <1>f, <2>1 DEF NewSlotKept, Holding
  <2>3. sweep' = sweep
    <3>1. pc'[p] # pc[p]
      BY <1>t, <1>1, <2>1 DEF RegisterGenStore, Goto, TypeOK
    <3> QED
      BY <3>1, MaintenanceSteps, SweepStores DEF Quiet
  <2>4. sweep.step \in Clearing \cup {"judge"} => sweep.slot # slot[p]
    BY <1>1 DEF SweepCounted
  <2> QED
    BY <2>1, <2>2, <2>3, <2>4
<1>2. CASE First(p) /\ slot'[p] = slot[p]
  <2>k. Kept(p) /\ alive[p] /\ slot[p] \in Slots
    BY <1>2, <1>f DEF FirstKept, First
  <2>1. ASSUME NEW r \in Processes \ {p}, Subscriber(r), sweep' = sweep PROVE Kept(p)'
    BY <1>t, <1>2, <2>k, <2>1, OthersKeepOff
  <2>2. CASE Subscriber(p) /\ sweep' = sweep
    <3>1. \A q \in Processes \ {p} : slot'[q] = slot[q]
      BY <1>t, <2>2, SubscriberFrame
    <3>2. active'[slot[p]] = 1
      <4>1. active[slot[p]] = 1 /\ slot'[p] # NoSlot
        BY <1>2, <2>k
      <4>2. active' = active \/ active' = [active EXCEPT ![slot'[p]] = 1]
        BY <1>t, <2>2, <4>1, SlotStep
      <4> QED
        BY <1>t, <1>2, <2>k, <4>1, <4>2 DEF TypeOK
    <3>3. pid'[slot[p]] = p
      BY <1>t, <2>2, <2>k, SubscriberStores DEF RegisterPid, TypeOK
    <3> QED
      BY <1>2, <2>2, <2>k, <3>1, <3>2, <3>3
  <2>3. CASE Sweep
    <3>1. \A q \in Processes : slot'[q] = slot[q]
      BY <2>3, SweepStores DEF locals
    <3>2. active'[slot[p]] = 1 /\ pid'[slot[p]] = p
      BY <2>3, <2>k, SweepStores DEF slots
    <3>3. /\ sweep'.step = "judge" /\ sweep'.slot = slot[p] => sweep'.pid = p
          /\ sweep'.step \in Clearing => sweep'.slot # slot[p]
      BY <2>3, <2>k, SweepGoesOn DEF ProcessAlive
    <3> QED
      BY <2>k, <3>1, <3>2, <3>3
  <2>4. CASE Quiet
    BY <1>2, <2>k, <2>4 DEF Quiet, locals
  <2> QED
    BY <2>1, <2>2, <2>3, <2>4, MaintenanceSteps
<1> QED
  BY <1>1, <1>2, FirstBefore

-----------------------------------------------------------------------------
(***************************************************************************)
(* Back-pressure for first owners.                                         *)
(***************************************************************************)

\* updateMinConsumerPosition() at the end of a clean-up is a scan like any other.
LEMMA SweepScans ==
  ASSUME SweepTypes, Sweep
  PROVE  /\ \/ min_consumer_pos' = min_consumer_pos
            \/ /\ pc[Janitor] = "scan" /\ scan[Janitor].next = MaxSubscribers
               /\ min_consumer_pos' = scan[Janitor].min
         /\ \A a \in Agents : pc'[a] = "scan" =>
              \/ pc[a] = "scan" /\ scan'[a] = scan[a]
              \/ ScanStart(a)
              \/ ScanSlot(a)
<1> DEFINE Scans(a) == pc'[a] = "scan" => \/ pc[a] = "scan" /\ scan'[a] = scan[a]
                                          \/ ScanStart(a)
                                          \/ ScanSlot(a)
<1> USE AgentsLemma DEF OtherThanSlots, header, vars
<1>t. TypeOK
  BY DEF SweepTypes, SweepTypeOK
<1>1. CASE \/ SweepStart \/ SweepEnd \/ SweepLook \/ SweepAge \/ SweepLoadPid \/ SweepJudge
           \/ LoadGeneration
  BY <1>1 DEF SweepStart, SweepEnd, SweepLook, SweepAge, SweepLoadPid, SweepJudge, LoadGeneration
<1>2. CASE ClearActive \/ ClearHeartbeat \/ ClearCursor \/ ClearPid
  BY <1>2 DEF ClearActive, ClearHeartbeat, ClearCursor, ClearPid
<1>3. CASE StoreGeneration
  BY <1>t, <1>3 DEF StoreGeneration, TypeOK
<1>4. CASE SweepMin
  <2>1. \A a \in Agents \ {Janitor} : pc'[a] = pc[a] /\ scan'[a] = scan[a]
    BY <1>4, SweepStores
  <2>2. CASE ScanStart(Janitor) \/ ScanSlot(Janitor)
    <3>1. min_consumer_pos' = min_consumer_pos
      BY <1>t, <2>2, ScanFrame
    <3> QED
      BY <2>1, <2>2, <3>1
  <2>3. CASE ScanStore(Janitor, "idle")
    BY <1>t, <2>1, <2>3 DEF ScanStore, Goto, TypeOK
  <2> QED
    BY <1>4, <2>2, <2>3 DEF SweepMin
<1> QED
  BY <1>1, <1>2, <1>3, <1>4 DEF Sweep

\* The sweep stores 0 as the cursor and scans like the others.
LEMMA BehindProducerKept ==
  ASSUME SweepTypes, SlotsHeld, BehindProducer, [MaintenanceNext]_<<vars, sweep>>
  PROVE  BehindProducer'
<1> USE AgentsLemma
<1>t. TypeOK
  BY DEF SweepTypes, SweepTypeOK
<1>1. CASE [Next]_vars
  BY <1>t, <1>1, BehindProducerStep
<1>2. CASE Sweep
  <2>1. producer_pos' = producer_pos /\ seen_prod' = seen_prod /\ producer_pos \in Nat
    BY <1>t, <1>2, SweepStores DEF locals, TypeOK
  <2>3. min_consumer_pos' <= producer_pos
    BY <1>2, SweepScans DEF BehindProducer
  <2>4. ASSUME NEW a \in Agents, pc'[a] = "scan" PROVE scan'[a].min <= producer_pos
    <3>1. CASE pc[a] = "scan" /\ scan'[a] = scan[a]
      BY <3>1 DEF BehindProducer
    <3>2. CASE ScanStart(a)
      BY <1>t, <2>1, <3>2 DEF ScanStart, TypeOK
    <3>3. CASE ScanSlot(a)
      <4>1. scan[a].min \in Nat /\ scan[a].min <= producer_pos /\ scan[a].next \in Slots
        BY <1>t, <3>3 DEF ScanSlot, BehindProducer, TypeOK
      <4>2. cursor[scan[a].next] \in Nat
        BY <1>t, <4>1 DEF TypeOK
      <4>3. scan'[a].min <= scan[a].min
        BY <1>t, <3>3, <4>1, <4>2 DEF ScanSlot, TypeOK
      <4>4. scan'[a].min \in Nat
        BY <1>t, <3>3, <4>1, <4>2 DEF ScanSlot, TypeOK
      <4> QED
        BY <2>1, <4>1, <4>3, <4>4
    <3> QED
      BY <1>2, <2>4, <3>1, <3>2, <3>3, SweepScans
  <2> QED
    BY <2>1, <2>3, <2>4 DEF BehindProducer
<1>3. CASE Quiet
  <2>1. CASE Write
    BY <1>1, <2>1 DEF Next
  <2>2. CASE ~Write
    <3>1. UNCHANGED <<producer_pos, min_consumer_pos, cursor, locals, pc>>
      BY <1>3, <2>2 DEF Quiet, header
    <3>2. \A a \in Agents : scan'[a].min \in {scan[a].min, 0}
      BY <1>3, <2>2 DEF Quiet
    <3>3. producer_pos \in Nat
      BY <1>t DEF TypeOK
    <3> QED
      BY <3>1, <3>2, <3>3 DEF BehindProducer, locals
  <2> QED
    BY <2>1, <2>2
<1> QED
  BY <1>1, <1>2, <1>3, MaintenanceSteps DEF Next

LEMMA SlotsHeldKept ==
  ASSUME SweepTypes, SlotsHeld, [MaintenanceNext]_<<vars, sweep>>
  PROVE  SlotsHeld'
<1>t. TypeOK
  BY DEF SweepTypes, SweepTypeOK
<1>1. CASE [Next]_vars
  BY <1>t, <1>1, SlotsHeldStep
<1>2. CASE Sweep
  BY <1>2, SweepStores, AgentsLemma DEF SlotsHeld, Holding, locals
<1>3. CASE Quiet
  BY <1>3 DEF Quiet, SlotsHeld, Holding, locals
<1> QED
  BY <1>1, <1>2, <1>3, MaintenanceSteps DEF Next

\* Nobody but its process touches what a first owner's cursor and locals say.
LEMMA FirstUntouched ==
  ASSUME SlotsInv, [MaintenanceNext]_<<vars, sweep>>,
         NEW p \in Processes, First(p), ~Subscriber(p)
  PROVE  /\ pc'[p] = pc[p] /\ slot'[p] = slot[p] /\ jumped'[p] = jumped[p]
         /\ seen_prod'[p] = seen_prod[p] /\ seen_cursor'[p] = seen_cursor[p]
         /\ cursor'[slot[p]] = cursor[slot[p]]
<1> USE AgentsLemma DEF SlotsInv
<1>t. TypeOK /\ slot[p] \in Slots
  BY DEF SweepTypes, SweepTypeOK, First, Holding, TypeOK
<1>k. /\ \A q \in Processes \ {p} : slot[q] # slot[p]
      /\ sweep.step \in Clearing => sweep.slot # slot[p]
  BY DEF FirstKept
<1>1. ASSUME NEW r \in Processes \ {p}, Subscriber(r)
      PROVE  /\ pc'[p] = pc[p] /\ slot'[p] = slot[p] /\ jumped'[p] = jumped[p]
             /\ seen_prod'[p] = seen_prod[p] /\ seen_cursor'[p] = seen_cursor[p]
             /\ cursor'[slot[p]] = cursor[slot[p]]
  <2>1. cursor'[slot[p]] = cursor[slot[p]]
    BY <1>t, <1>k, <1>1, CursorStep DEF TypeOK
  <2> QED
    BY <1>t, <1>1, <2>1, SubscriberFrame
<1>2. CASE Sweep
  BY <1>t, <1>k, <1>2, SweepStores DEF locals, slots
<1>3. CASE Quiet
  BY <1>3 DEF Quiet, locals
<1> QED
  BY <1>1, <1>2, <1>3, MaintenanceSteps

\* Nobody stores a cursor in a slot whose first generation is not stored.
LEMMA CursorsCountedStep ==
  ASSUME SlotsInv, CursorsCounted, [MaintenanceNext]_<<vars, sweep>>
  PROVE  CursorsCounted'
<1> USE DEF SlotsInv
<1>t. TypeOK
  BY DEF SweepTypes, SweepTypeOK
<1> SUFFICES ASSUME NEW i \in Slots, generation'[i] = 0 PROVE cursor'[i] = 0
  BY DEF CursorsCounted
<1>1. generation[i] = 0 /\ cursor[i] = 0
  BY GenerationsGrow DEF CursorsCounted
<1>2. ASSUME NEW r \in Processes, Subscriber(r) PROVE cursor'[i] = 0
  <2>1. CASE slot[r] = i
    <3>1. pc[r] \in Unstored
      BY <1>1, <2>1, PositionsAssumption DEF NewSlotKept, Holding
    <3>2. RegisterPid(r) \/ RegisterGenLoad(r) \/ RegisterGenStore(r)
      BY <1>t, <1>2, <3>1, SubscriberGoesOn
    <3> QED
      BY <1>1, <3>2 DEF RegisterPid, RegisterGenLoad, RegisterGenStore, slots
  <2>2. CASE slot[r] # i
    BY <1>t, <1>1, <1>2, <2>2, CursorStep DEF TypeOK
  <2> QED
    BY <2>1, <2>2
<1>3. CASE Sweep
  <2>1. cursor'[i] \in {cursor[i], 0}
    BY <1>3, SweepStores
  <2> QED
    BY <1>1, <2>1
<1> QED
  BY <1>1, <1>2, <1>3, MaintenanceSteps DEF Quiet

\* Between its generation and its cursor a first owner finds the cursor of a fresh slot.
LEMMA FirstUnreadStep ==
  ASSUME MaintenanceInv, [MaintenanceNext]_<<vars, sweep>>, SweepTypes'
  PROVE  FirstUnread'
<1> USE DEF MaintenanceInv, SlotsInv
<1>t. TypeOK
  BY DEF SweepTypes, SweepTypeOK
<1> SUFFICES ASSUME NEW p \in Processes, First(p)', pc'[p] = "position"
             PROVE  cursor'[slot'[p]] = 0
  BY DEF FirstUnread
<1>1. CASE RegisterGenStore(p) /\ slot'[p] = slot[p] /\ generation[slot[p]] = 0
  <2>1. cursor' = cursor /\ slot[p] \in Slots
    BY <1>t, <1>1 DEF RegisterGenStore, At, SlotsHeld, ClaimingLabels, Holding, TypeOK
  <2> QED
    BY <1>1, <2>1 DEF CursorsCounted
<1>2. CASE First(p) /\ ~Subscriber(p)
  <2>1. pc'[p] = pc[p] /\ slot'[p] = slot[p] /\ cursor'[slot[p]] = cursor[slot[p]]
    BY <1>2, FirstUntouched
  <2> QED
    BY <1>2, <2>1 DEF FirstUnread
<1>3. CASE First(p) /\ Subscriber(p)
  <2>1. RegisterGenStore(p)
    BY <1>t, <1>3, SubscriberGoesOn
  <2> QED
    BY <1>3, <2>1, LabelsLemma DEF RegisterGenStore, At, First, Stored, ShownLabels
<1> QED
  BY <1>1, <1>2, <1>3, FirstBefore

\* A first owner's locals agree with its slot after every step.
LEMMA FirstLocalsStep ==
  ASSUME MaintenanceInv, [MaintenanceNext]_<<vars, sweep>>, SweepTypes'
  PROVE  FirstLocals'
<1> USE DEF MaintenanceInv, SlotsInv
<1>t. TypeOK
  BY DEF SweepTypes, SweepTypeOK
<1> SUFFICES ASSUME NEW p \in Processes, First(p)'
             PROVE  /\ pc'[p] = "cursor" => cursor'[slot'[p]] <= seen_prod'[p]
                    /\ pc'[p] \in {"overrun", "frame"} => seen_cursor'[p] = cursor'[slot'[p]]
  BY DEF FirstLocals
<1>1. CASE RegisterGenStore(p)
  BY <1>t, <1>1, AgentsLemma DEF RegisterGenStore, Goto, TypeOK
<1>2. CASE First(p) /\ Subscriber(p)
  <2>1. pc'[p] \in {"overrun", "frame"} => seen_cursor'[p] = cursor'[slot'[p]]
    BY <1>t, <1>2, OwnLocalsStep DEF FirstLocals
  <2>2. ASSUME pc'[p] = "cursor" PROVE cursor'[slot'[p]] <= seen_prod'[p]
    <3>1. RegisterLoadPosition(p)
      BY <1>t, <1>2, <2>2, SubscriberGoesOn
    <3>2. /\ seen_prod'[p] = producer_pos /\ cursor' = cursor /\ slot' = slot
          /\ pc[p] = "position"
      BY <1>t, <3>1 DEF RegisterLoadPosition, At, slots, TypeOK
    <3>3. cursor[slot[p]] = 0 /\ producer_pos \in Nat
      BY <1>t, <1>2, <3>2 DEF FirstUnread, TypeOK
    <3> QED
      BY <3>2, <3>3
  <2> QED
    BY <2>1, <2>2
<1>3. CASE First(p) /\ ~Subscriber(p)
  <2>1. /\ pc'[p] = pc[p] /\ slot'[p] = slot[p]
        /\ seen_prod'[p] = seen_prod[p] /\ seen_cursor'[p] = seen_cursor[p]
        /\ cursor'[slot[p]] = cursor[slot[p]]
    BY <1>3, FirstUntouched
  <2> QED
    BY <1>3, <2>1 DEF FirstLocals
<1> QED
  BY <1>1, <1>2, <1>3, FirstBefore

\* The writer's back-pressure stays with a first owner: the scans of the clean-up
\* count it, and it starts again at the producer's position.
LEMMA FirstCoveredStep ==
  ASSUME MaintenanceInv, [MaintenanceNext]_<<vars, sweep>>, SweepTypes'
  PROVE  FirstCovered'
<1> USE AgentsLemma DEF MaintenanceInv, SlotsInv
<1>t. TypeOK /\ TypeOK'
  BY DEF SweepTypes, SweepTypeOK
<1> SUFFICES ASSUME NEW p \in Processes, First(p)', Anchored(p)' PROVE Covered(p)'
  BY DEF FirstCovered
<1>f. Floor(p)' \in Nat
  BY <1>t DEF TypeOK, Anchored, Holding, Floor
<1>1. First(p) /\ slot'[p] = slot[p]
  <2>1. ~RegisterGenStore(p)
    BY <1>t, LabelsLemma DEF RegisterGenStore, Goto, TypeOK, Anchored, ClaimingLabels
  <2> QED
    BY <2>1, FirstBefore
<1>2. CASE RegisterLoadPosition(p) /\ Floor(p)' = producer_pos
  BY <1>t, <1>2, CoveredFirst
<1>3. CASE Anchored(p) /\ Floor(p) <= Floor(p)'
  <2>1. Shown(p) /\ Covered(p)
    BY <1>1, <1>3 DEF FirstCovered, FirstKept, FirstLocals, Shown
  <2>2. FloorKept(p)
    BY <1>1, <1>3, <1>f DEF FloorKept
  <2>3. CASE [Next]_vars
    BY <1>t, <2>1, <2>2, <2>3, CoveredStep
  <2>4. CASE Sweep
    <3>1. producer_pos' = producer_pos /\ size' = size /\ pc'[Writer] = pc[Writer]
      BY <2>4, SweepStores, PositionsAssumption
    <3>2. min_consumer_pos' <= Floor(p)'
      BY <1>t, <2>1, <2>2, <2>4, SweepScans, MinKept
    <3>3. ASSUME NEW a \in Agents, pc'[a] = "scan", slot'[p] < scan'[a].next
          PROVE  scan'[a].min <= Floor(p)'
      <4>1. slot[p] < scan'[a].next
        BY <1>1, <3>3
      <4>2. (pc[a] = "scan" /\ scan'[a] = scan[a]) \/ ScanStart(a) \/ ScanSlot(a)
        BY <2>4, <3>3, SweepScans
      <4> QED
        BY <1>t, <2>1, <2>2, <4>1, <4>2, ScanKept
    <3> QED
      BY <1>t, <2>1, <2>2, <3>1, <3>2, <3>3, RoomKept DEF Covered
  <2>5. CASE Quiet
    <3>1. CASE Write
      BY <2>3, <3>1 DEF Next
    <3>2. CASE ~Write
      <4>1. UNCHANGED <<producer_pos, min_consumer_pos, size, pc, cursor, locals>>
        BY <2>5, <3>2 DEF Quiet, header
      <4>2. \A a \in Agents : scan'[a] \in {scan[a], [next |-> 0, min |-> 0]}
        BY <2>5, <3>2 DEF Quiet
      <4>3. Floor(p)' = Floor(p)
        BY <4>1 DEF Floor, locals
      <4>s. slot[p] \in Nat
        BY <1>t, <1>1, PositionsAssumption DEF First, Holding, TypeOK, Slots
      <4>4. ASSUME NEW a \in Agents, pc'[a] = "scan", slot'[p] < scan'[a].next
            PROVE  scan'[a].min <= Floor(p)'
        <5>1. scan'[a] = scan[a]
          BY <1>1, <4>2, <4>s, <4>4
        <5> QED
          BY <1>1, <2>1, <4>1, <4>3, <4>4, <5>1 DEF Covered
      <4> QED
        BY <2>1, <4>1, <4>3, <4>4 DEF Covered
    <3> QED
      BY <3>1, <3>2
  <2> QED
    BY <2>3, <2>4, <2>5, MaintenanceSteps DEF Next
<1>4. CASE Subscriber(p)
  <2>1. pc[p] = "frame" => seen_cursor[p] = cursor[slot[p]]
    BY <1>1 DEF FirstLocals
  <2> QED
    BY <1>t, <1>2, <1>3, <1>4, <2>1, OwnAnchorStep
<1>5. CASE ~Subscriber(p)
  <2>1. /\ pc'[p] = pc[p] /\ slot'[p] = slot[p] /\ jumped'[p] = jumped[p]
        /\ seen_prod'[p] = seen_prod[p] /\ cursor'[slot[p]] = cursor[slot[p]]
    BY <1>1, <1>5, FirstUntouched
  <2>2. Anchored(p) /\ Floor(p)' = Floor(p)
    BY <2>1 DEF Anchored, Holding, Floor
  <2> QED
    BY <1>3, <1>f, <2>2
<1> QED
  BY <1>4, <1>5

-----------------------------------------------------------------------------
(***************************************************************************)
(* The theorems.                                                           *)
(***************************************************************************)
LEMMA InitMaintenanceInv == MaintenanceInit => MaintenanceInv
<1> SUFFICES ASSUME MaintenanceInit PROVE MaintenanceInv
  OBVIOUS
<1>1. Init /\ sweep = SweepAt("rest", 0)
  BY DEF MaintenanceInit
<1>2. IndInv
  BY <1>1, InitIndInv
<1>3. SweepTypes
  <2>1. "rest" \in SweepSteps /\ 0 \in 0 .. MaxSubscribers
    BY PositionsAssumption DEF SweepSteps
  <2> QED
    BY <1>1, <1>2, <2>1, SweepAtType DEF SweepTypes, SweepTypeOK, AtSlot, SweepRecords, IndInv
<1>4. /\ \A p \in Processes : ~Holding(p) /\ pc[p] = "idle"
      /\ \A i \in Slots : last_heartbeat[i] = "never"
  BY <1>1, AgentsLemma DEF Init, Holding
<1>5. HeartbeatsCounted /\ NewSlotKept /\ LoadsCounted /\ SweepCounted
  BY <1>1, <1>4
  DEF HeartbeatsCounted, NewSlotKept, LoadsCounted, SweepCounted, Clearing, SweepAt
<1>6. FirstKept /\ FirstLocals /\ FirstCovered /\ FirstUnread
  BY <1>4 DEF FirstKept, FirstLocals, FirstCovered, FirstUnread, First
<1>7. CursorsCounted
  BY <1>1 DEF Init, CursorsCounted
<1> QED
  BY <1>2, <1>3, <1>5, <1>6, <1>7 DEF MaintenanceInv, SlotsInv, IndInv

LEMMA NextMaintenanceInv ==
  ASSUME MaintenanceInv, [MaintenanceNext]_<<vars, sweep>>
  PROVE  MaintenanceInv'
<1>1. SweepTypes' /\ SlotsHeld' /\ BehindProducer'
  BY MaintenanceTypesStep, SlotsHeldKept, BehindProducerKept DEF MaintenanceInv, SlotsInv
<1>2. HeartbeatsCounted' /\ NewSlotKept' /\ LoadsCounted' /\ SweepCounted' /\ FirstKept'
  BY <1>1, HeartbeatsCountedStep, NewSlotKeptStep, LoadsCountedStep, FirstKeptStep
  DEF MaintenanceInv
<1>3. CursorsCounted' /\ FirstUnread'
  BY <1>1, CursorsCountedStep, FirstUnreadStep DEF MaintenanceInv
<1>4. FirstLocals' /\ FirstCovered'
  BY <1>1, FirstLocalsStep, FirstCoveredStep
<1> QED
  BY <1>1, <1>2, <1>3, <1>4 DEF MaintenanceInv, SlotsInv

\* The inductive invariant holds in every reachable state.
THEOREM MaintenanceInvariance == MaintenanceSpec => []MaintenanceInv
<1>1. MaintenanceInit => MaintenanceInv
  BY InitMaintenanceInv
<1>2. MaintenanceInv /\ [MaintenanceNext]_<<vars, sweep>> => MaintenanceInv'
  BY NextMaintenanceInv
<1> QED
  BY <1>1, <1>2, PTL DEF MaintenanceSpec

\* Type correctness of the header and of checkSubscriberHeartbeats()'s locals.
THEOREM SweepTypesCorrect == MaintenanceSpec => []SweepTypeOK
<1>1. MaintenanceInv => SweepTypeOK
  BY DEF MaintenanceInv, SlotsInv, SweepTypes
<1> QED
  BY <1>1, MaintenanceInvariance, PTL

\* checkSubscriberHeartbeats() never frees the slot of a live process that claimed
\* it first, however old its heartbeat and whoever registers and crashes beside it.
THEOREM FirstOwnersKeepSlots == MaintenanceSpec => []FirstOwnerKeepsSlot
<1>1. MaintenanceInv => FirstOwnerKeepsSlot
  BY DEF MaintenanceInv, SlotsInv, FirstKept, First, FirstOwnerKeepsSlot, FirstOwner, Stored
<1> QED
  BY <1>1, MaintenanceInvariance, PTL

\* The minimum that a clean-up stores, and the slots it frees, leave a live first
\* owner the writer's back-pressure.
THEOREM FirstOwnersProtected == MaintenanceSpec => []FirstOwnerProtected
<1>1. MaintenanceInv => FirstOwnerProtected
  BY DEF MaintenanceInv, FirstCovered, First, FirstOwnerProtected, FirstOwner, Stored, Covered
<1> QED
  BY <1>1, MaintenanceInvariance, PTL
=============================================================================
