------------------------- MODULE RingPositionsProofs -------------------------
(***************************************************************************)
(* Theorems about RingPositions, for every ring geometry, every number of  *)
(* slots and processes, and every set of frame sizes.                      *)
(***************************************************************************)
EXTENDS RingPositions, TLAPS

-----------------------------------------------------------------------------
(***************************************************************************)
(* Arithmetic of the ring.                                                 *)
(***************************************************************************)

\* The ring is its usable capacity and one reserved term, and a frame of at most
\* one term fits in the capacity (the constructor's total_capacity_).
LEMMA CapacityLemma ==
  /\ TotalCapacity \in Nat
  /\ RingSize = TotalCapacity + TermLength
  /\ TermLength <= TotalCapacity
<1> DEFINE k == TermCount - 2
<1>1. k \in Nat /\ TermCount = k + 2
  BY GeometryAssumption
<1>2. TermLength \in Nat /\ TermLength * k \in Nat
  BY <1>1, GeometryAssumption
<1>3. TotalCapacity = TermLength * k + TermLength
  BY <1>1, <1>2, TermLength * (k + 1) = TermLength * k + TermLength DEF TotalCapacity
<1>4. RingSize = TermLength * k + TermLength + TermLength
  BY <1>1, <1>2, TermLength * (k + 2) = TermLength * k + TermLength + TermLength
  DEF RingSize
<1> QED
  BY <1>2, <1>3, <1>4

\* poll() jumps to a position the producer has reached.
LEMMA JumpTargetLemma ==
  ASSUME NEW prod \in Nat
  PROVE  JumpTarget(prod) \in Nat /\ JumpTarget(prod) <= prod
<1>1. TotalCapacity \div 2 \in Nat
  BY CapacityLemma
<1> QED
  BY <1>1 DEF JumpTarget

-----------------------------------------------------------------------------
(***************************************************************************)
(* Type correctness.                                                       *)
(***************************************************************************)
LEMMA AgentsLemma ==
  /\ Writer \in Agents
  /\ Janitor \in Agents
  /\ Processes \subseteq Agents
  /\ \A p \in Processes : p # Writer /\ p # Janitor
BY PositionsAssumption DEF Agents

\* A scan record with an index within the loop's range and a natural minimum.
LEMMA ScanUpdate ==
  ASSUME TypeOK, NEW a \in Agents, NEW n \in 0 .. MaxSubscribers, NEW m \in Nat
  PROVE  [scan EXCEPT ![a] = [next |-> n, min |-> m]]
           \in [Agents -> [next : 0 .. MaxSubscribers, min : Nat]]
BY DEF TypeOK

\* The start of a scan, a step of it, and the store of its result keep the types,
\* whoever scans.
LEMMA ScanTypes ==
  ASSUME TypeOK, NEW a \in Agents, ScanStart(a) \/ ScanSlot(a)
  PROVE  TypeOK'
<1> DEFINE Scans == [Agents -> [next : 0 .. MaxSubscribers, min : Nat]]
<1>n. MaxSubscribers \in Nat
  BY PositionsAssumption
<1>t. producer_pos \in Nat /\ scan[a] \in [next : 0 .. MaxSubscribers, min : Nat]
  BY DEF TypeOK
<1>1. CASE ScanStart(a)
  <2>1. scan' \in Scans
    <3>1. 0 \in 0 .. MaxSubscribers
      BY <1>n
    <3> QED
      BY <1>1, <1>t, <3>1, ScanUpdate DEF ScanStart
  <2>2. "scan" \in WriterLabels /\ "scan" \in JanitorLabels /\ "scan" \in ProcessLabels
    BY DEF WriterLabels, JanitorLabels, ProcessLabels, ShownLabels
  <2> QED
    BY <1>1, <2>1, <2>2, AgentsLemma
    DEF ScanStart, Goto, TypeOK, header, slots, locals, vars
<1>2. CASE ScanSlot(a)
  <2>1. scan' \in Scans
    <3> DEFINE i == scan[a].next
    <3>1. i \in Slots /\ i + 1 \in 0 .. MaxSubscribers
      BY <1>2, <1>n, <1>t DEF ScanSlot, Slots
    <3>2. cursor[i] \in Nat /\ scan[a].min \in Nat
      BY <1>t, <3>1 DEF TypeOK
    <3> QED
      BY <1>2, <3>1, <3>2, ScanUpdate DEF ScanSlot
  <2> QED
    BY <1>2, <2>1 DEF ScanSlot, TypeOK, header, slots, locals, vars
<1> QED
  BY <1>1, <1>2

\* write() keeps the types: what it claims fits in a term.
LEMMA WriteTypes ==
  ASSUME TypeOK, Write
  PROVE  TypeOK'
<1> USE PositionsAssumption, AgentsLemma
    DEF TypeOK, header, slots, locals, vars, Goto, WriterLabels
<1>1. ASSUME NEW n \in FrameSizes, WriteCheck(n) PROVE TypeOK'
  <2>1. n \in 0 .. TermLength
    BY <1>1, GeometryAssumption DEF WriteCheck
  <2> QED
    BY <1>1, <2>1 DEF WriteCheck
<1>2. CASE WriteTooLarge
  BY <1>2 DEF WriteTooLarge
<1>3. CASE ScanStart(Writer) \/ ScanSlot(Writer)
  BY <1>3, ScanTypes
<1>4. CASE WriteRecheck
  <2>1. scan[Writer].min \in Nat /\ 0 \in 0 .. TermLength
    BY GeometryAssumption
  <2>2. scan' \in [Agents -> [next : 0 .. MaxSubscribers, min : Nat]]
    BY <1>4 DEF WriteRecheck, ScanStore
  <2> QED
    BY <1>4, <2>1, <2>2 DEF WriteRecheck, ScanStore
<1>5. CASE WriteClaim \/ WritePad
  <2>1. producer_pos + size \in Nat
    BY GeometryAssumption
  <2> QED
    BY <1>5, <2>1 DEF WriteClaim, WritePad
<1>6. CASE WriteCommit
  BY <1>6, GeometryAssumption DEF WriteCommit
<1> QED
  BY <1>1, <1>2, <1>3, <1>4, <1>5, <1>6 DEF Write

\* A process that goes to one of its labels.
LEMMA GotoTypes ==
  ASSUME TypeOK, NEW p \in Processes, NEW label \in ProcessLabels, Goto(p, label)
  PROVE  /\ pc' \in [Agents -> WriterLabels \cup JanitorLabels \cup ProcessLabels]
         /\ pc'[Writer] \in WriterLabels
         /\ pc'[Janitor] \in JanitorLabels
         /\ \A q \in Processes : pc'[q] \in ProcessLabels
BY AgentsLemma DEF TypeOK, Goto

\* registerSubscriber() keeps the types.
LEMMA RegisterTypes ==
  ASSUME TypeOK, SlotsHeld, NEW p \in Processes, Register(p)
  PROVE  TypeOK'
<1> USE PositionsAssumption, AgentsLemma DEF header, slots, locals, vars, At
<1> DEFINE Scans == [Agents -> [next : 0 .. MaxSubscribers, min : Nat]]
<1>l. {"idle", "try", "pid", "gen", "gen_store", "position", "cursor", "heartbeat",
       "scan0", "handle", "ready"} \subseteq ProcessLabels
  BY DEF ProcessLabels, ClaimingLabels, ShownLabels
<1>n. 0 \in 0 .. MaxSubscribers /\ 0 \in Nat
  OBVIOUS
<1>1. CASE RegisterStart(p)
  <2>1. scan' \in Scans
    BY <1>1, <1>n, ScanUpdate DEF RegisterStart
  <2> QED
    BY <1>1, <1>l, <2>1, GotoTypes DEF RegisterStart, TypeOK
<1>2. CASE RegisterTaken(p)
  <2>1. CASE scan[p].next + 1 \in Slots
    <3>1. scan[p].next + 1 \in 0 .. MaxSubscribers
      BY <2>1 DEF Slots
    <3>2. scan' \in Scans
      BY <1>2, <1>n, <2>1, <3>1, ScanUpdate DEF RegisterTaken
    <3> QED
      BY <1>2, <2>1, <3>2 DEF RegisterTaken, TypeOK
  <2>2. CASE scan[p].next + 1 \notin Slots
    <3>1. scan' \in Scans
      BY <1>2, <1>n, <2>2, ScanUpdate DEF RegisterTaken
    <3> QED
      BY <1>2, <1>l, <2>2, <3>1, GotoTypes DEF RegisterTaken, TypeOK
  <2> QED
    BY <2>1, <2>2
<1>3. CASE RegisterClaim(p)
  <2>1. scan' \in Scans
    BY <1>3, <1>n, ScanUpdate DEF RegisterClaim
  <2> QED
    BY <1>3, <1>l, <2>1, GotoTypes DEF RegisterClaim, TypeOK
<1>4. CASE RegisterPid(p)
  BY <1>4, <1>l, GotoTypes DEF RegisterPid, TypeOK
<1>5. CASE RegisterGenLoad(p)
  <2>1. slot[p] \in Slots
    BY <1>5 DEF RegisterGenLoad, SlotsHeld, Holding, TypeOK, ClaimingLabels
  <2>2. generation[slot[p]] \in Nat
    BY <2>1 DEF TypeOK
  <2> QED
    BY <1>5, <1>l, <2>2, GotoTypes DEF RegisterGenLoad, TypeOK
<1>6. CASE RegisterGenStore(p)
  <2>1. handle[p] + 1 \in Nat
    BY DEF TypeOK
  <2> QED
    BY <1>6, <1>l, <2>1, GotoTypes DEF RegisterGenStore, TypeOK
<1>7. CASE RegisterLoadPosition(p)
  <2>1. seen_prod' \in [Processes -> Nat]
    BY <1>7 DEF RegisterLoadPosition, TypeOK
  <2>2. inherited' \in [Processes -> BOOLEAN]
    <3>1. (cursor[slot[p]] > producer_pos) \in BOOLEAN
      OBVIOUS
    <3> QED
      BY <1>7, <3>1, Zenon DEF RegisterLoadPosition, TypeOK
  <2> QED
    BY <1>7, <1>l, <2>1, <2>2, GotoTypes DEF RegisterLoadPosition, TypeOK
<1>8. CASE RegisterStoreCursor(p)
  BY <1>8, <1>l, GotoTypes DEF RegisterStoreCursor, TypeOK
<1>9. CASE RegisterHeartbeat(p)
  BY <1>9, <1>l, GotoTypes DEF RegisterHeartbeat, TypeOK, Heartbeats
<1>10. CASE RegisterStoreMin(p)
  <2>1. scan[p].min \in Nat
    BY DEF TypeOK
  <2>2. scan' \in Scans
    BY <1>10, <1>n, ScanUpdate DEF RegisterStoreMin, ScanStore
  <2> QED
    BY <1>10, <1>l, <2>1, <2>2, GotoTypes DEF RegisterStoreMin, ScanStore, TypeOK
<1>11. CASE RegisterReturn(p)
  <2>1. slot[p] \in Slots
    BY <1>11 DEF RegisterReturn, SlotsHeld, Holding, TypeOK, ShownLabels
  <2>2. generation[slot[p]] \in Nat
    BY <2>1 DEF TypeOK
  <2> QED
    BY <1>11, <1>l, <2>2, GotoTypes DEF RegisterReturn, TypeOK
<1> QED
  BY <1>1, <1>2, <1>3, <1>4, <1>5, <1>6, <1>7, <1>8, <1>9, <1>10, <1>11
  DEF Register

\* poll() keeps the types.
LEMMA PollTypes ==
  ASSUME TypeOK, SlotsHeld, NEW p \in Processes, Poll(p)
  PROVE  TypeOK'
<1> USE PositionsAssumption, AgentsLemma DEF header, slots, locals, vars, At
<1>l. {"ready", "overrun", "frame"} \subseteq ProcessLabels
  BY DEF ProcessLabels, ShownLabels
<1>s. ~PollNothing(p) => slot[p] \in Slots
  BY DEF Poll, PollLoad, PollOverrun, PollUncommitted, PollFrame, PollAdvance,
         SlotsHeld, Holding, TypeOK, ShownLabels
<1>1. CASE PollNothing(p)
  BY <1>1 DEF PollNothing, TypeOK
<1>2. CASE PollLoad(p) /\ ~PollNothing(p)
  <2>1. cursor[slot[p]] \in Nat /\ producer_pos \in Nat
    BY <1>2, <1>s DEF TypeOK
  <2> QED
    BY <1>2, <1>l, <2>1, GotoTypes DEF PollLoad, TypeOK
<1>3. CASE PollOverrun(p)
  <2>1. JumpTarget(seen_prod[p]) \in Nat
    BY JumpTargetLemma DEF TypeOK
  <2>2. seen_cursor' \in [Processes -> Nat] /\ cursor' \in [Slots -> Nat]
    <3>1. CASE IsOverrun(seen_cursor[p])
      <4>1. /\ seen_cursor' = [seen_cursor EXCEPT ![p] = JumpTarget(seen_prod[p])]
            /\ cursor' = [cursor EXCEPT ![slot[p]] = JumpTarget(seen_prod[p])]
        BY <1>3, <3>1 DEF PollOverrun
      <4> QED
        BY <4>1, <2>1 DEF TypeOK
    <3>2. CASE ~IsOverrun(seen_cursor[p])
      BY <1>3, <3>2 DEF PollOverrun, TypeOK
    <3> QED
      BY <3>1, <3>2
  <2>3. jumped' \in [Processes -> BOOLEAN]
    BY <1>3, Zenon DEF PollOverrun, TypeOK
  <2> QED
    BY <1>3, <1>l, <2>2, <2>3, GotoTypes DEF PollOverrun, TypeOK
<1>4. CASE PollUncommitted(p)
  BY <1>4, <1>l, GotoTypes DEF PollUncommitted, TypeOK
<1>5. CASE PollFrame(p)
  <2>1. PICK length \in 1 .. MaxLength, is_data \in BOOLEAN : PollAdvance(p, length, is_data)
    BY <1>5 DEF PollFrame
  <2>2. seen_cursor[p] + length \in Nat
    BY DEF TypeOK
  <2>3. last_heartbeat' \in [Slots -> Heartbeats]
    BY <2>1 DEF PollAdvance, TypeOK, Heartbeats
  <2> QED
    BY <2>1, <1>l, <2>2, <2>3, GotoTypes DEF PollAdvance, TypeOK
<1> QED
  BY <1>1, <1>2, <1>3, <1>4, <1>5 DEF Poll

\* unregisterSubscriber() keeps the types.
LEMMA UnregisterTypes ==
  ASSUME TypeOK, SlotsHeld, NEW p \in Processes, Unregister(p)
  PROVE  TypeOK'
<1> USE PositionsAssumption, AgentsLemma DEF header, slots, locals, vars, At
<1>l. {"idle", "scan0", "unregister"} \subseteq ProcessLabels
  BY DEF ProcessLabels, ShownLabels
<1>1. CASE UnregisterCheck(p)
  <2>1. CASE HandleValid(p)
    BY <1>1, <1>l, <2>1, GotoTypes DEF UnregisterCheck, TypeOK
  <2>2. CASE ~HandleValid(p)
    <3>1. slot' = [slot EXCEPT ![p] = NoSlot] /\ handle' = [handle EXCEPT ![p] = 0]
      BY <1>1, <2>2 DEF UnregisterCheck
    <3>2. slot' \in [Processes -> Slots \cup {NoSlot}] /\ handle' \in [Processes -> Nat]
      BY <3>1 DEF TypeOK
    <3> QED
      BY <1>1, <1>l, <2>2, <3>2, GotoTypes DEF UnregisterCheck, TypeOK
  <2> QED
    BY <2>1, <2>2
<1>2. CASE UnregisterClear(p)
  BY <1>2, <1>l, GotoTypes DEF UnregisterClear, TypeOK
<1>3. CASE UnregisterStoreMin(p)
  <2>1. scan[p].min \in Nat /\ 0 \in 0 .. MaxSubscribers /\ 0 \in Nat
    BY DEF TypeOK
  <2>2. scan' \in [Agents -> [next : 0 .. MaxSubscribers, min : Nat]]
    BY <1>3, <2>1, ScanUpdate DEF UnregisterStoreMin, ScanStore
  <2> QED
    BY <1>3, <1>l, <2>1, <2>2, GotoTypes DEF UnregisterStoreMin, ScanStore, TypeOK
<1> QED
  BY <1>1, <1>2, <1>3 DEF Unregister

\* A process past the compare-exchange holds a slot, through every step.
LEMMA SlotsHeldStep ==
  ASSUME TypeOK, SlotsHeld, [Next]_vars
  PROVE  SlotsHeld'
<1> USE PositionsAssumption, AgentsLemma
    DEF header, slots, locals, vars, SlotsHeld, Holding, Goto
<1> DEFINE Held == (ClaimingLabels \cup ShownLabels \cup {"cursor"}) \ {"scan0", "scan"}
<1>l. /\ {"pid", "gen", "gen_store", "position", "cursor", "heartbeat", "handle",
          "ready", "overrun", "frame", "unregister"} \subseteq Held
      /\ {"idle", "try", "scan0", "scan"} \cap Held = {}
  BY DEF ClaimingLabels, ShownLabels
<1> HIDE DEF Held
<1>0. SlotsHeld <=> \A p \in Processes : pc[p] \in Held => slot[p] # NoSlot
  BY DEF Held
<1>00. SlotsHeld' <=> \A p \in Processes : pc'[p] \in Held => slot'[p] # NoSlot
  BY DEF Held
<1>1. CASE UNCHANGED vars
  BY <1>1
<1>2. ASSUME NEW a \in Agents, ScanStart(a) \/ ScanSlot(a) PROVE SlotsHeld'
  BY <1>2, <1>l, <1>0, <1>00 DEF ScanStart, ScanSlot, TypeOK
<1>3. CASE Write
  <2>1. \A p \in Processes : slot'[p] = slot[p] /\ (pc'[p] = pc[p])
    BY <1>3 DEF Write, WriteCheck, WriteTooLarge, ScanStart, ScanSlot, WriteRecheck,
                ScanStore, WriteClaim, WritePad, WriteCommit, TypeOK
  <2> QED
    BY <2>1, <1>0, <1>00
<1>4. ASSUME NEW p \in Processes, Register(p) PROVE SlotsHeld'
  <2>1. \A q \in Processes \ {p} : slot'[q] = slot[q] /\ pc'[q] = pc[q]
    BY <1>4 DEF Register, RegisterStart, RegisterTaken, RegisterClaim,
                RegisterPid, RegisterGenLoad, RegisterGenStore, RegisterLoadPosition,
                RegisterStoreCursor, RegisterHeartbeat, RegisterStoreMin, ScanStore,
                RegisterReturn, TypeOK
  <2>2. pc'[p] \in Held => slot'[p] # NoSlot
    <3>1. CASE RegisterStart(p) \/ RegisterTaken(p)
      BY <3>1, <1>l, <1>0 DEF RegisterStart, RegisterTaken, At, TypeOK
    <3>2. CASE RegisterClaim(p)
      BY <3>2 DEF RegisterClaim, TypeOK
    <3>3. CASE \/ RegisterPid(p) \/ RegisterGenLoad(p) \/ RegisterGenStore(p)
               \/ RegisterLoadPosition(p) \/ RegisterStoreCursor(p)
               \/ RegisterHeartbeat(p) \/ RegisterReturn(p)
      BY <3>3, <1>l, <1>0 DEF RegisterPid, RegisterGenLoad, RegisterGenStore,
         RegisterLoadPosition, RegisterStoreCursor, RegisterHeartbeat, RegisterReturn, At
    <3>4. CASE RegisterStoreMin(p)
      BY <3>4 DEF RegisterStoreMin, ScanStore
    <3> QED
      BY <1>4, <3>1, <3>2, <3>3, <3>4 DEF Register
  <2> QED
    BY <2>1, <2>2, <1>0, <1>00
<1>5. ASSUME NEW p \in Processes, Poll(p) PROVE SlotsHeld'
  <2>1. slot' = slot /\ \A q \in Processes \ {p} : pc'[q] = pc[q]
    BY <1>5 DEF Poll, PollNothing, PollLoad, PollOverrun, PollUncommitted, PollFrame,
                PollAdvance, TypeOK
  <2>2. pc[p] \in Held
    BY <1>5, <1>l DEF Poll, PollNothing, PollLoad, PollOverrun, PollUncommitted,
                PollFrame, PollAdvance, At
  <2> QED
    BY <2>1, <2>2, <1>0, <1>00
<1>6. ASSUME NEW p \in Processes, Unregister(p) PROVE SlotsHeld'
  <2>1. \A q \in Processes \ {p} : slot'[q] = slot[q] /\ pc'[q] = pc[q]
    BY <1>6 DEF Unregister, UnregisterCheck, UnregisterClear, UnregisterStoreMin,
                ScanStore, TypeOK
  <2>2. pc'[p] \in Held => slot'[p] # NoSlot
    BY <1>6, <1>l, <1>0 DEF Unregister, UnregisterCheck, UnregisterClear,
       UnregisterStoreMin, ScanStore, At, TypeOK
  <2> QED
    BY <2>1, <2>2, <1>0, <1>00
<1> QED
  BY <1>1, <1>2, <1>3, <1>4, <1>5, <1>6 DEF Next, Subscriber

\* The initial state has the types and no slot is held.
LEMMA InitTypes == Init => TypeOK /\ SlotsHeld
<1> SUFFICES ASSUME Init PROVE TypeOK /\ SlotsHeld
  OBVIOUS
<1> USE PositionsAssumption, AgentsLemma, GeometryAssumption DEF Init
<1>1. "idle" \in WriterLabels /\ "idle" \in JanitorLabels /\ "idle" \in ProcessLabels
  BY DEF WriterLabels, JanitorLabels, ProcessLabels
<1>2. TypeOK
  BY <1>1 DEF TypeOK, Heartbeats
<1>3. SlotsHeld
  BY DEF SlotsHeld, ClaimingLabels, ShownLabels
<1> QED
  BY <1>2, <1>3

\* Every step keeps the types.
LEMMA TypesStep ==
  ASSUME TypeOK, SlotsHeld, [Next]_vars
  PROVE  TypeOK'
<1>1. CASE UNCHANGED vars
  BY <1>1 DEF TypeOK, vars, header, slots, locals
<1>2. CASE Write
  BY <1>2, WriteTypes
<1>3. ASSUME NEW p \in Processes, Subscriber(p) PROVE TypeOK'
  BY <1>3, AgentsLemma, RegisterTypes, ScanTypes, PollTypes, UnregisterTypes DEF Subscriber
<1> QED
  BY <1>1, <1>2, <1>3 DEF Next

\* Type correctness of the shared header and of every thread's locals.
THEOREM TypeCorrect == Spec => []TypeOK
<1>1. Init => TypeOK /\ SlotsHeld
  BY InitTypes
<1>2. TypeOK /\ SlotsHeld /\ [Next]_vars => (TypeOK /\ SlotsHeld)'
  BY TypesStep, SlotsHeldStep
<1> QED
  BY <1>1, <1>2, PTL DEF Spec

-----------------------------------------------------------------------------
(***************************************************************************)
(* What a step leaves alone.                                               *)
(***************************************************************************)

\* A scan by any agent touches only its own scan record and program counter.
LEMMA ScanFrame ==
  ASSUME TypeOK, NEW a \in Agents, ScanStart(a) \/ ScanSlot(a)
  PROVE  /\ UNCHANGED <<header, slots, alive, size, claimed, locals>>
         /\ \A b \in Agents \ {a} : pc'[b] = pc[b] /\ scan'[b] = scan[b]
         /\ pc[a] \in {"scan0", "scan"} /\ pc'[a] = "scan"
BY DEF TypeOK, ScanStart, ScanSlot, Goto

\* write() touches the header, its own locals and no slot.
LEMMA WriterFrame ==
  ASSUME TypeOK, Write
  PROVE  /\ UNCHANGED <<slots, alive, locals>>
         /\ \A a \in Agents \ {Writer} : pc'[a] = pc[a] /\ scan'[a] = scan[a]
<1> USE AgentsLemma DEF TypeOK, Goto, vars
<1>1. CASE ScanStart(Writer) \/ ScanSlot(Writer)
  BY <1>1, ScanFrame
<1>2. ASSUME NEW n \in FrameSizes, WriteCheck(n)
      PROVE  /\ UNCHANGED <<slots, alive, locals>>
             /\ \A a \in Agents \ {Writer} : pc'[a] = pc[a] /\ scan'[a] = scan[a]
  BY <1>2 DEF WriteCheck
<1>3. CASE WriteTooLarge
  BY <1>3 DEF WriteTooLarge
<1>4. CASE WriteRecheck
  BY <1>4 DEF WriteRecheck, ScanStore
<1>5. CASE WriteClaim \/ WritePad \/ WriteCommit
  BY <1>5 DEF WriteClaim, WritePad, WriteCommit
<1> QED
  BY <1>1, <1>2, <1>3, <1>4, <1>5 DEF Write

\* A subscriber process touches no other agent's locals.
LEMMA SubscriberFrame ==
  ASSUME TypeOK, NEW p \in Processes, Subscriber(p)
  PROVE  /\ producer_pos' = producer_pos /\ size' = size
         /\ \A a \in Agents \ {p} : pc'[a] = pc[a] /\ scan'[a] = scan[a]
         /\ \A q \in Processes \ {p} :
              /\ slot'[q] = slot[q] /\ jumped'[q] = jumped[q]
              /\ inherited'[q] = inherited[q]
              /\ seen_prod'[q] = seen_prod[q] /\ seen_cursor'[q] = seen_cursor[q]
<1> USE AgentsLemma DEF TypeOK, Goto, vars, header, slots, locals
<1> DEFINE Frame ==
       /\ producer_pos' = producer_pos /\ size' = size
       /\ \A a \in Agents \ {p} : pc'[a] = pc[a] /\ scan'[a] = scan[a]
       /\ \A q \in Processes \ {p} :
            /\ slot'[q] = slot[q] /\ jumped'[q] = jumped[q]
            /\ inherited'[q] = inherited[q]
            /\ seen_prod'[q] = seen_prod[q] /\ seen_cursor'[q] = seen_cursor[q]
<1> SUFFICES Frame
  OBVIOUS
<1>1. CASE ScanStart(p) \/ ScanSlot(p)
  BY <1>1, ScanFrame
<1>2. CASE RegisterStart(p) \/ RegisterTaken(p)
  BY <1>2 DEF RegisterStart, RegisterTaken
<1>3. CASE RegisterClaim(p)
  BY <1>3 DEF RegisterClaim
<1>4. CASE RegisterPid(p) \/ RegisterGenLoad(p) \/ RegisterGenStore(p)
  BY <1>4 DEF RegisterPid, RegisterGenLoad, RegisterGenStore
<1>5. CASE RegisterLoadPosition(p) \/ RegisterStoreCursor(p)
  BY <1>5 DEF RegisterLoadPosition, RegisterStoreCursor
<1>6. CASE RegisterHeartbeat(p) \/ RegisterReturn(p)
  BY <1>6 DEF RegisterHeartbeat, RegisterReturn
<1>7. CASE RegisterStoreMin(p) \/ UnregisterStoreMin(p)
  BY <1>7 DEF RegisterStoreMin, UnregisterStoreMin, ScanStore
<1>8. CASE PollNothing(p) \/ PollLoad(p) \/ PollUncommitted(p)
  BY <1>8 DEF PollNothing, PollLoad, PollUncommitted
<1>9. CASE PollOverrun(p)
  <2>1. CASE IsOverrun(seen_cursor[p])
    BY <1>9, <2>1 DEF PollOverrun
  <2>2. CASE ~IsOverrun(seen_cursor[p])
    BY <1>9, <2>2 DEF PollOverrun
  <2> QED
    BY <2>1, <2>2
<1>10. CASE PollFrame(p)
  BY <1>10 DEF PollFrame, PollAdvance
<1>11. CASE UnregisterCheck(p)
  <2>1. CASE HandleValid(p)
    BY <1>11, <2>1 DEF UnregisterCheck
  <2>2. CASE ~HandleValid(p)
    BY <1>11, <2>2 DEF UnregisterCheck
  <2> QED
    BY <2>1, <2>2
<1>12. CASE UnregisterClear(p)
  BY <1>12 DEF UnregisterClear
<1> QED
  BY <1>1, <1>2, <1>3, <1>4, <1>5, <1>6, <1>7, <1>8, <1>9, <1>10, <1>11, <1>12
  DEF Subscriber, Register, Poll, Unregister

\* A subscriber process stores a cursor only in the slot it holds.
LEMMA CursorStep ==
  ASSUME TypeOK, SlotsHeld, NEW p \in Processes, Subscriber(p)
  PROVE  \/ cursor' = cursor
         \/ /\ slot[p] \in Slots /\ slot'[p] = slot[p]
            /\ \E c \in Nat : cursor' = [cursor EXCEPT ![slot[p]] = c]
<1> USE DEF Goto, vars, header, slots, locals
<1> DEFINE Stores(c) ==
       /\ slot[p] \in Slots /\ slot'[p] = slot[p]
       /\ c \in Nat
       /\ cursor' = [cursor EXCEPT ![slot[p]] = c]
<1> SUFFICES ASSUME cursor' # cursor PROVE \E c \in Nat : Stores(c)
  OBVIOUS
<1>1. RegisterStoreCursor(p) \/ PollOverrun(p) \/ PollFrame(p)
  BY DEF Subscriber, Register, Poll, Unregister, ScanStart, ScanSlot, RegisterStart,
     RegisterTaken, RegisterClaim, RegisterPid, RegisterGenLoad,
     RegisterGenStore, RegisterLoadPosition, RegisterHeartbeat, RegisterStoreMin,
     RegisterReturn, PollNothing, PollLoad, PollUncommitted, UnregisterCheck,
     UnregisterClear, UnregisterStoreMin, ScanStore
<1>2. slot[p] \in Slots
  BY <1>1 DEF RegisterStoreCursor, PollOverrun, PollFrame, PollAdvance, SlotsHeld, Holding,
     TypeOK, ShownLabels, At
<1>3. seen_prod[p] \in Nat
  BY DEF TypeOK
<1>4. CASE RegisterStoreCursor(p)
  <2>1. Stores(seen_prod[p])
    BY <1>2, <1>3, <1>4 DEF RegisterStoreCursor
  <2> QED
    BY <2>1, <1>3
<1>5. CASE PollOverrun(p)
  <2>1. JumpTarget(seen_prod[p]) \in Nat
    BY <1>3, JumpTargetLemma
  <2>2. Stores(JumpTarget(seen_prod[p]))
    BY <1>2, <1>5, <2>1 DEF PollOverrun
  <2> QED
    BY <2>1, <2>2
<1>6. CASE PollFrame(p)
  <2>1. PICK length \in 1 .. MaxLength, is_data \in BOOLEAN :
          PollAdvance(p, length, is_data)
    BY <1>6 DEF PollFrame
  <2>2. seen_cursor[p] + length \in Nat
    BY PositionsAssumption DEF TypeOK
  <2>3. Stores(seen_cursor[p] + length)
    BY <1>2, <2>1, <2>2 DEF PollAdvance
  <2> QED
    BY <2>2, <2>3
<1> QED
  BY <1>1, <1>4, <1>5, <1>6

\* Whether a subscriber took its slot over with a cursor past producer_pos is
\* settled where it loads producer_pos, once per registration, and ends with it.
LEMMA InheritedStep ==
  ASSUME TypeOK, [Next]_vars, NEW q \in Processes
  PROVE  \/ inherited'[q] = inherited[q]
         \/ UnregisterClear(q) /\ ~inherited'[q]
         \/ /\ RegisterLoadPosition(q)
            /\ inherited'[q] = (cursor[slot[q]] > producer_pos)
<1>1. CASE UNCHANGED vars
  BY <1>1 DEF vars, locals
<1>2. CASE Write
  BY <1>2, WriterFrame DEF locals
<1>3. ASSUME NEW p \in Processes \ {q}, Subscriber(p) PROVE inherited'[q] = inherited[q]
  BY <1>3, SubscriberFrame
<1>4. CASE Subscriber(q) /\ ~RegisterLoadPosition(q) /\ ~UnregisterClear(q)
  BY <1>4 DEF vars, locals, Subscriber, Register, Poll, Unregister, ScanStart, ScanSlot,
     RegisterStart, RegisterTaken, RegisterClaim, RegisterPid, RegisterGenLoad,
     RegisterGenStore, RegisterStoreCursor, RegisterHeartbeat, RegisterStoreMin,
     RegisterReturn, PollNothing, PollLoad, PollOverrun, PollUncommitted, PollFrame,
     PollAdvance, UnregisterCheck, UnregisterStoreMin
<1>5. CASE RegisterLoadPosition(q)
  BY <1>5, Zenon DEF RegisterLoadPosition, TypeOK
<1>6. CASE UnregisterClear(q)
  BY <1>6, Zenon DEF UnregisterClear, TypeOK
<1> QED
  BY <1>1, <1>2, <1>3, <1>4, <1>5, <1>6 DEF Next

\* A subscriber process keeps its slot, frees it, or takes a free one.
LEMMA SlotStep ==
  ASSUME TypeOK, SlotsHeld, NEW p \in Processes, Subscriber(p)
  PROVE  \/ slot'[p] = slot[p] /\ active' = active
         \/ /\ slot'[p] = NoSlot
            /\ \A i \in Slots \ {slot[p]} : active'[i] = active[i]
         \/ /\ slot'[p] \in Slots /\ active[slot'[p]] = 0
            /\ active' = [active EXCEPT ![slot'[p]] = 1]
<1> USE DEF Goto, vars, header, slots, locals, TypeOK
<1>1. CASE RegisterClaim(p)
  BY <1>1 DEF RegisterClaim
<1>2. CASE UnregisterClear(p)
  BY <1>2 DEF UnregisterClear
<1>3. CASE UnregisterCheck(p)
  BY <1>3 DEF UnregisterCheck
<1>4. CASE \/ Poll(p)
           \/ (Register(p) /\ ~RegisterClaim(p))
           \/ ScanStart(p) \/ ScanSlot(p) \/ UnregisterStoreMin(p)
  BY <1>4 DEF Register, Poll, ScanStart, ScanSlot, RegisterStart,
     RegisterTaken, RegisterPid, RegisterGenLoad,
     RegisterGenStore, RegisterLoadPosition, RegisterStoreCursor, RegisterHeartbeat,
     RegisterStoreMin, RegisterReturn, PollNothing, PollLoad, PollOverrun, PollUncommitted,
     PollFrame, PollAdvance, UnregisterStoreMin, ScanStore
<1> QED
  BY <1>1, <1>2, <1>3, <1>4 DEF Subscriber, Unregister

\* Nobody's held slot is freed or taken by another process.
LEMMA SlotExclusiveStep ==
  ASSUME TypeOK, SlotsHeld, SlotExclusive, [Next]_vars
  PROVE  SlotExclusive'
<1> USE PositionsAssumption DEF SlotExclusive, Holding
<1>1. CASE UNCHANGED vars
  BY <1>1 DEF vars, slots, locals
<1>2. CASE Write
  BY <1>2, WriterFrame DEF slots, locals
<1>3. ASSUME NEW p \in Processes, Subscriber(p) PROVE SlotExclusive'
  <2>1. \A q \in Processes \ {p} : slot'[q] = slot[q]
    BY <1>3, SubscriberFrame
  <2>2. \A q \in Processes : slot[q] \in Slots \cup {NoSlot}
    BY DEF TypeOK
  <2>3. CASE slot'[p] = slot[p] /\ active' = active
    BY <2>1, <2>3
  <2>4. CASE slot'[p] = NoSlot /\ \A i \in Slots \ {slot[p]} : active'[i] = active[i]
    BY <2>1, <2>2, <2>4
  <2>5. CASE /\ slot'[p] \in Slots /\ active[slot'[p]] = 0
             /\ active' = [active EXCEPT ![slot'[p]] = 1]
    <3>1. \A q \in Processes \ {p} : slot[q] # NoSlot => slot[q] # slot'[p]
      BY <2>5
    <3>2. active'[slot'[p]] = 1 /\ \A i \in Slots \ {slot'[p]} : active'[i] = active[i]
      BY <2>5 DEF TypeOK
    <3> QED
      BY <2>1, <2>2, <2>5, <3>1, <3>2
  <2> QED
    BY <1>3, <2>3, <2>4, <2>5, SlotStep
<1> QED
  BY <1>1, <1>2, <1>3 DEF Next

\* min_consumer_pos changes only to the result of a finished scan.
LEMMA MinStep ==
  ASSUME TypeOK, [Next]_vars
  PROVE  \/ min_consumer_pos' = min_consumer_pos
         \/ \E a \in Agents : /\ pc[a] = "scan" /\ scan[a].next = MaxSubscribers
                              /\ min_consumer_pos' = scan[a].min
                              /\ UNCHANGED <<producer_pos, slots, locals>>
<1> USE AgentsLemma DEF vars, header, slots, locals
<1>1. CASE UNCHANGED vars
  BY <1>1
<1>2. CASE Write
  BY <1>2 DEF Write, WriteCheck, WriteTooLarge, ScanStart, ScanSlot, WriteRecheck,
     ScanStore, WriteClaim, WritePad, WriteCommit
<1>3. ASSUME NEW p \in Processes, Subscriber(p)
      PROVE  \/ min_consumer_pos' = min_consumer_pos
             \/ /\ pc[p] = "scan" /\ scan[p].next = MaxSubscribers
                /\ min_consumer_pos' = scan[p].min
                /\ UNCHANGED <<producer_pos, slots, locals>>
  BY <1>3 DEF Subscriber, Register, Poll, Unregister, ScanStart, ScanSlot, RegisterStart,
     RegisterTaken, RegisterClaim, RegisterPid, RegisterGenLoad,
     RegisterGenStore, RegisterLoadPosition, RegisterStoreCursor, RegisterHeartbeat,
     RegisterStoreMin, RegisterReturn, PollNothing, PollLoad, PollOverrun, PollUncommitted,
     PollFrame, PollAdvance, UnregisterCheck, UnregisterClear, UnregisterStoreMin, ScanStore
<1> QED
  BY <1>1, <1>2, <1>3 DEF Next

\* An agent that is scanning after a step was scanning before it, has started,
\* or has looked at one more slot.
LEMMA ScanStep ==
  ASSUME TypeOK, [Next]_vars, NEW a \in Agents, pc'[a] = "scan"
  PROVE  \/ pc[a] = "scan" /\ scan'[a] = scan[a]
         \/ ScanStart(a)
         \/ ScanSlot(a)
<1> USE AgentsLemma DEF TypeOK, vars
<1>1. CASE UNCHANGED vars
  BY <1>1
<1>2. CASE Write
  <2>1. CASE a # Writer
    BY <1>2, <2>1, WriterFrame
  <2>2. CASE a = Writer
    BY <1>2, <2>2 DEF Write, WriteCheck, WriteTooLarge, WriteRecheck, ScanStore,
       WriteClaim, WritePad, WriteCommit, Goto
  <2> QED
    BY <2>1, <2>2
<1>3. ASSUME NEW p \in Processes, Subscriber(p)
      PROVE  (pc[a] = "scan" /\ scan'[a] = scan[a]) \/ ScanStart(a) \/ ScanSlot(a)
  <2>1. CASE a # p
    BY <1>3, <2>1, SubscriberFrame
  <2>2. CASE a = p
    BY <1>3, <2>2 DEF Subscriber, Register, Poll, Unregister, RegisterStart,
       RegisterTaken, RegisterClaim, RegisterPid, RegisterGenLoad,
       RegisterGenStore, RegisterLoadPosition, RegisterStoreCursor, RegisterHeartbeat,
       RegisterStoreMin, RegisterReturn, PollNothing, PollLoad, PollOverrun, PollUncommitted,
       PollFrame, PollAdvance, UnregisterCheck, UnregisterClear, UnregisterStoreMin,
       ScanStore, Goto, At
  <2> QED
    BY <2>1, <2>2
<1> QED
  BY <1>1, <1>2, <1>3 DEF Next

\* Only the two claims of write() move producer_pos, forward by the frame's size.
LEMMA ProducerStep ==
  ASSUME TypeOK, [Next]_vars
  PROVE  \/ producer_pos' = producer_pos
         \/ (WriteClaim \/ WritePad) /\ producer_pos' = producer_pos + size
<1>1. CASE UNCHANGED vars
  BY <1>1 DEF vars, header
<1>2. CASE Write
  BY <1>2 DEF Write, WriteCheck, WriteTooLarge, ScanStart, ScanSlot, WriteRecheck,
     ScanStore, WriteClaim, WritePad, WriteCommit, header, vars
<1>3. ASSUME NEW p \in Processes, Subscriber(p) PROVE producer_pos' = producer_pos
  BY <1>3, SubscriberFrame
<1> QED
  BY <1>1, <1>2, <1>3 DEF Next

-----------------------------------------------------------------------------
(***************************************************************************)
(* The conjuncts of the inductive invariant.                               *)
(***************************************************************************)

\* The producer stays ahead of everything that was derived from its position.
LEMMA BehindProducerStep ==
  ASSUME TypeOK, SlotsHeld, BehindProducer, [Next]_vars
  PROVE  BehindProducer'
<1>1. /\ producer_pos \in Nat /\ producer_pos' \in Nat /\ producer_pos <= producer_pos'
  BY ProducerStep, GeometryAssumption DEF TypeOK
<1>2. min_consumer_pos' <= producer_pos'
  BY <1>1, MinStep, AgentsLemma DEF BehindProducer, TypeOK
<1>3. ASSUME NEW a \in Agents, pc'[a] = "scan" PROVE scan'[a].min <= producer_pos'
  <2>1. CASE pc[a] = "scan" /\ scan'[a] = scan[a]
    BY <1>1, <2>1 DEF BehindProducer, TypeOK
  <2>2. CASE ScanStart(a)
    BY <1>1, <2>2 DEF ScanStart, TypeOK
  <2>3. CASE ScanSlot(a)
    <3>1. scan'[a].min \in Nat /\ scan'[a].min <= scan[a].min
      BY <2>3 DEF ScanSlot, TypeOK
    <3>2. scan[a].min <= producer_pos /\ scan[a].min \in Nat
      BY <2>3 DEF ScanSlot, BehindProducer, TypeOK
    <3> QED
      BY <1>1, <3>1, <3>2
  <2> QED
    BY <1>3, <2>1, <2>2, <2>3, ScanStep
<1>4. ASSUME NEW p \in Processes PROVE seen_prod'[p] <= producer_pos'
  <2>1. seen_prod'[p] = seen_prod[p] \/ seen_prod'[p] = producer_pos \/ seen_prod'[p] = 0
    <3>1. CASE UNCHANGED vars
      BY <3>1 DEF vars, locals
    <3>2. CASE Write
      BY <3>2, WriterFrame DEF locals
    <3>3. ASSUME NEW q \in Processes \ {p}, Subscriber(q) PROVE seen_prod'[p] = seen_prod[p]
      BY <3>3, SubscriberFrame
    <3>4. CASE Subscriber(p)
      BY <3>4 DEF TypeOK, vars, locals, Subscriber, Register, Poll, Unregister, ScanStart,
         ScanSlot, RegisterStart,
         RegisterTaken, RegisterClaim, RegisterPid, RegisterGenLoad,
         RegisterGenStore, RegisterLoadPosition, RegisterStoreCursor, RegisterHeartbeat,
         RegisterStoreMin, RegisterReturn, PollNothing, PollLoad, PollOverrun,
         PollUncommitted, PollFrame, PollAdvance, UnregisterCheck, UnregisterClear,
         UnregisterStoreMin
    <3> QED
      BY <3>1, <3>2, <3>3, <3>4 DEF Next
  <2> QED
    BY <1>1, <2>1 DEF BehindProducer, TypeOK
<1> QED
  BY <1>2, <1>3, <1>4 DEF BehindProducer

\* The cursor of a held slot is stored by its holder alone.
LEMMA OthersCursor ==
  ASSUME TypeOK, SlotsHeld, SlotExclusive,
         NEW p \in Processes, NEW q \in Processes \ {p}, Subscriber(p), Holding(q)
  PROVE  cursor'[slot[q]] = cursor[slot[q]]
<1>1. slot[q] \in Slots /\ slot[q] # slot[p]
  BY DEF SlotExclusive, Holding, TypeOK
<1> QED
  BY <1>1, CursorStep DEF TypeOK

\* What a process has loaded stays in agreement with its slot, whatever others do
\* to other slots.
LEMMA OwnLocalsStep ==
  ASSUME TypeOK, SlotsHeld, NEW q \in Processes, Subscriber(q),
         pc[q] = "overrun" => seen_cursor[q] = cursor[slot[q]]
  PROVE  /\ pc'[q] = "cursor" /\ ~inherited'[q] => cursor'[slot'[q]] <= seen_prod'[q]
         /\ pc'[q] \in {"overrun", "frame"} => seen_cursor'[q] = cursor'[slot'[q]]
<1> USE AgentsLemma
<1>1. CASE pc'[q] = "cursor" /\ ~inherited'[q]
  <2>1. RegisterLoadPosition(q)
    BY <1>1 DEF TypeOK, Goto, vars, Subscriber, Register, Poll, Unregister, ScanStart,
       ScanSlot, RegisterStart, RegisterTaken, RegisterClaim, RegisterPid,
       RegisterGenLoad, RegisterGenStore, RegisterStoreCursor, RegisterHeartbeat,
       RegisterStoreMin, RegisterReturn, PollNothing, PollLoad, PollOverrun,
       PollUncommitted, PollFrame, PollAdvance, UnregisterCheck, UnregisterClear,
       UnregisterStoreMin, ScanStore, At
  <2>2. slot[q] \in Slots
    BY <2>1 DEF RegisterLoadPosition, SlotsHeld, Holding, At, ClaimingLabels, TypeOK
  <2>3. ~(cursor[slot[q]] > producer_pos)
    BY <1>1, <2>1, Zenon DEF RegisterLoadPosition, TypeOK
  <2>4. cursor[slot[q]] <= producer_pos
    BY <2>2, <2>3 DEF TypeOK
  <2> QED
    BY <1>1, <2>1, <2>4 DEF RegisterLoadPosition, slots, TypeOK
<1>2. CASE pc'[q] \in {"overrun", "frame"}
  <2>1. PollLoad(q) \/ PollOverrun(q)
    BY <1>2 DEF TypeOK, Goto, vars, Subscriber, Register, Poll, Unregister, ScanStart,
       ScanSlot, RegisterStart, RegisterTaken, RegisterClaim, RegisterPid,
       RegisterGenLoad, RegisterGenStore, RegisterLoadPosition, RegisterStoreCursor,
       RegisterHeartbeat, RegisterStoreMin, RegisterReturn, PollNothing,
       PollUncommitted, PollFrame, PollAdvance, UnregisterCheck, UnregisterClear,
       UnregisterStoreMin, ScanStore, At
  <2>2. CASE PollLoad(q)
    BY <1>2, <2>2 DEF PollLoad, slots, TypeOK
  <2>3. CASE PollOverrun(q)
    <3>1. slot[q] \in Slots
      BY <2>3 DEF PollOverrun, SlotsHeld, Holding, At, ShownLabels, TypeOK
    <3>2. seen_cursor[q] = cursor[slot[q]]
      BY <2>3 DEF PollOverrun, At
    <3>3. CASE IsOverrun(seen_cursor[q])
      BY <1>2, <2>3, <3>1, <3>3 DEF PollOverrun, TypeOK
    <3>4. CASE ~IsOverrun(seen_cursor[q])
      BY <1>2, <2>3, <3>2, <3>4 DEF PollOverrun
    <3> QED
      BY <3>3, <3>4
  <2> QED
    BY <2>1, <2>2, <2>3
<1> QED
  BY <1>1, <1>2

\* What a process has loaded stays in agreement with its slot.
LEMMA LocalsAgreeStep ==
  ASSUME TypeOK, SlotsHeld, SlotExclusive, LocalsAgree, [Next]_vars
  PROVE  LocalsAgree'
<1> USE AgentsLemma
<1> DEFINE Agree(q) ==
      /\ pc[q] = "cursor" /\ ~inherited[q] => cursor[slot[q]] <= seen_prod[q]
      /\ pc[q] \in {"overrun", "frame"} => seen_cursor[q] = cursor[slot[q]]
<1> SUFFICES ASSUME NEW q \in Processes PROVE Agree(q)'
  BY DEF LocalsAgree
<1>0. Agree(q)
  BY DEF LocalsAgree
<1>1. CASE UNCHANGED vars
  BY <1>0, <1>1 DEF vars, slots, locals
<1>2. CASE Write
  BY <1>0, <1>2, WriterFrame DEF slots, locals
<1>3. ASSUME NEW p \in Processes \ {q}, Subscriber(p) PROVE Agree(q)'
  <2>1. pc'[q] = pc[q] /\ UNCHANGED <<slot[q], seen_prod[q], seen_cursor[q], inherited[q]>>
    BY <1>3, SubscriberFrame
  <2>2. pc[q] \in {"cursor", "overrun", "frame"} => Holding(q)
    BY DEF SlotsHeld, ShownLabels
  <2>3. pc[q] \in {"cursor", "overrun", "frame"} => cursor'[slot[q]] = cursor[slot[q]]
    BY <1>3, <2>2, OthersCursor
  <2> QED
    BY <1>0, <2>1, <2>3
<1>4. CASE Subscriber(q)
  BY <1>0, <1>4, OwnLocalsStep
<1> QED
  BY <1>1, <1>2, <1>3, <1>4 DEF Next

\* The floor of an anchored subscriber is a position.
LEMMA FloorType ==
  ASSUME TypeOK, NEW p \in Processes, Anchored(p)
  PROVE  Floor(p) \in Nat /\ slot[p] \in Slots
BY DEF TypeOK, Anchored, Holding, Floor

\* A subscriber is anchored at the producer's position, and from then on its own
\* steps only raise its floor.
LEMMA OwnAnchorStep ==
  ASSUME TypeOK, TypeOK', NEW q \in Processes, Anchored(q)', Subscriber(q),
         pc[q] = "frame" => seen_cursor[q] = cursor[slot[q]]
  PROVE  \/ Anchored(q) /\ slot'[q] = slot[q] /\ Floor(q) <= Floor(q)'
         \/ RegisterLoadPosition(q) /\ Floor(q)' = producer_pos
<1> DEFINE Kept == Anchored(q) /\ slot'[q] = slot[q] /\ Floor(q) <= Floor(q)'
<1>0. /\ slot'[q] \in Slots /\ pc'[q] \notin ClaimingLabels /\ ~jumped'[q]
      /\ Floor(q)' \in Nat
  BY DEF TypeOK, Anchored, Holding, Floor
<1> USE AgentsLemma
<1> USE PositionsAssumption DEF vars, slots, locals, Goto, At
<1>1. ASSUME pc'[q] # "cursor" \/ pc[q] = "cursor", pc[q] \notin ClaimingLabels,
             slot'[q] = slot[q], jumped'[q] = jumped[q],
             seen_prod'[q] = seen_prod[q] \/ pc[q] # "cursor",
             pc'[q] = "cursor" \/ pc[q] # "cursor", cursor' = cursor
      PROVE  Kept
  BY <1>0, <1>1 DEF Anchored, Holding, Floor, TypeOK
<1>2. CASE Register(q)
  <2>1. CASE RegisterStart(q) \/ RegisterTaken(q)
    BY <1>1, <2>1 DEF RegisterStart, RegisterTaken, ClaimingLabels, TypeOK
  <2>2. CASE \/ RegisterClaim(q) \/ RegisterPid(q) \/ RegisterGenLoad(q)
             \/ RegisterGenStore(q)
    BY <1>0, <2>2 DEF RegisterClaim, RegisterPid, RegisterGenLoad, RegisterGenStore,
       ClaimingLabels, TypeOK
  <2>3. CASE RegisterLoadPosition(q)
    BY <2>3 DEF RegisterLoadPosition, Floor, TypeOK
  <2>4. CASE RegisterStoreCursor(q)
    <3>1. /\ slot'[q] = slot[q] /\ jumped'[q] = jumped[q] /\ pc[q] = "cursor"
          /\ pc'[q] = "heartbeat" /\ cursor' = [cursor EXCEPT ![slot[q]] = seen_prod[q]]
      BY <2>4 DEF RegisterStoreCursor, TypeOK
    <3>2. Anchored(q)
      BY <1>0, <3>1 DEF Anchored, Holding, ClaimingLabels
    <3>3. Floor(q) = seen_prod[q] /\ Floor(q)' = seen_prod[q]
      BY <1>0, <3>1 DEF Floor, TypeOK
    <3> QED
      BY <1>0, <3>1, <3>2, <3>3
  <2>5. CASE RegisterHeartbeat(q) \/ RegisterStoreMin(q) \/ RegisterReturn(q)
    BY <1>1, <2>5 DEF RegisterHeartbeat, RegisterStoreMin, RegisterReturn, ScanStore,
       ClaimingLabels, TypeOK
  <2> QED
    BY <1>2, <2>1, <2>2, <2>3, <2>4, <2>5 DEF Register
<1>3. CASE ScanStart(q) \/ ScanSlot(q)
  BY <1>1, <1>3 DEF ScanStart, ScanSlot, ClaimingLabels, TypeOK
<1>4. CASE Poll(q)
  <2>1. CASE PollNothing(q) \/ PollLoad(q) \/ PollUncommitted(q)
    BY <1>1, <2>1 DEF PollNothing, PollLoad, PollUncommitted, ClaimingLabels, TypeOK
  <2>2. CASE PollOverrun(q)
    <3>1. CASE IsOverrun(seen_cursor[q])
      BY <1>0, <2>2, <3>1 DEF PollOverrun, TypeOK
    <3>2. CASE ~IsOverrun(seen_cursor[q])
      BY <1>1, <2>2, <3>2 DEF PollOverrun, ClaimingLabels, TypeOK
    <3> QED
      BY <3>1, <3>2
  <2>3. CASE PollFrame(q)
    <3>1. PICK length \in 1 .. MaxLength, is_data \in BOOLEAN :
            PollAdvance(q, length, is_data)
      BY <2>3 DEF PollFrame
    <3>2. /\ pc[q] = "frame" /\ pc'[q] = "ready"
          /\ slot'[q] = slot[q] /\ jumped'[q] = jumped[q]
          /\ cursor' = [cursor EXCEPT ![slot[q]] = seen_cursor[q] + length]
      BY <3>1 DEF PollAdvance, TypeOK
    <3>3. Anchored(q)
      BY <1>0, <3>2 DEF Anchored, Holding, ClaimingLabels
    <3>4. Floor(q) = seen_cursor[q] /\ Floor(q)' = seen_cursor[q] + length
      BY <1>0, <3>2 DEF Floor, TypeOK
    <3>5. length \in Nat /\ seen_cursor[q] \in Nat
      BY GeometryAssumption DEF TypeOK
    <3> QED
      BY <3>2, <3>3, <3>4, <3>5
  <2> QED
    BY <1>4, <2>1, <2>2, <2>3 DEF Poll
<1>5. CASE Unregister(q)
  <2>1. CASE UnregisterCheck(q)
    BY <1>0, <1>1, <2>1 DEF UnregisterCheck, ClaimingLabels, TypeOK
  <2>2. CASE UnregisterClear(q)
    BY <1>0, <2>2 DEF UnregisterClear, TypeOK
  <2>3. CASE UnregisterStoreMin(q)
    BY <1>1, <2>3 DEF UnregisterStoreMin, ScanStore, ClaimingLabels, TypeOK
  <2> QED
    BY <1>5, <2>1, <2>2, <2>3 DEF Unregister
<1> QED
  BY <1>2, <1>3, <1>4, <1>5 DEF Subscriber

\* A subscriber is anchored at the producer's position, and from then on its
\* floor only rises, whoever takes a step.
LEMMA AnchorStep ==
  ASSUME TypeOK, SlotsHeld, SlotExclusive, LocalsAgree, [Next]_vars,
         TypeOK', NEW q \in Processes, Anchored(q)'
  PROVE  \/ Anchored(q) /\ slot'[q] = slot[q] /\ Floor(q) <= Floor(q)'
         \/ RegisterLoadPosition(q) /\ Floor(q)' = producer_pos
<1> USE AgentsLemma
<1> DEFINE Kept == Anchored(q) /\ slot'[q] = slot[q] /\ Floor(q) <= Floor(q)'
<1>0. /\ slot'[q] \in Slots /\ pc'[q] \notin ClaimingLabels /\ ~jumped'[q]
      /\ Floor(q)' \in Nat
  BY DEF TypeOK, Anchored, Holding, Floor
<1>1. CASE UNCHANGED vars
  BY <1>0, <1>1 DEF vars, slots, locals, Anchored, Holding, Floor, TypeOK
<1>2. CASE Write
  BY <1>0, <1>2, WriterFrame DEF slots, locals, Anchored, Holding, Floor, TypeOK
<1>3. ASSUME NEW p \in Processes \ {q}, Subscriber(p) PROVE Kept
  <2>1. /\ pc'[q] = pc[q] /\ slot'[q] = slot[q] /\ jumped'[q] = jumped[q]
        /\ seen_prod'[q] = seen_prod[q]
    BY <1>3, SubscriberFrame
  <2>2. Anchored(q) /\ slot[q] \in Slots
    BY <1>0, <2>1, PositionsAssumption DEF Anchored, Holding
  <2>3. cursor'[slot[q]] = cursor[slot[q]]
    BY <1>3, <2>2, OthersCursor DEF Anchored
  <2> QED
    BY <1>0, <2>1, <2>2, <2>3 DEF Floor
<1>4. CASE Subscriber(q)
  BY <1>4, OwnAnchorStep DEF LocalsAgree
<1> QED
  BY <1>1, <1>2, <1>3, <1>4 DEF Next

\* What the writer owes a subscriber: the cached minimum and every scan that has
\* passed its slot count it, and the writer has not come round to it.
Covered(q) ==
  /\ min_consumer_pos <= Floor(q)
  /\ \A a \in Agents : pc[a] = "scan" /\ slot[q] < scan[a].next => scan[a].min <= Floor(q)
  /\ pc[Writer] = "claim" => producer_pos + size <= Floor(q) + TotalCapacity
  /\ pc[Writer] = "pad" => producer_pos <= Floor(q) + TotalCapacity
  /\ producer_pos <= Floor(q) + RingSize

\* The subscriber shows in its slot, and the slot's cursor is not past its floor.
Shown(q) ==
  /\ Anchored(q) /\ active[slot[q]] = 1
  /\ pc[q] = "cursor" => cursor[slot[q]] <= seen_prod[q]

\* A step after which a subscriber's floor is where it was or further.
FloorKept(q) == slot'[q] = slot[q] /\ Floor(q)' \in Nat /\ Floor(q) <= Floor(q)'

\* The cached minimum only takes the result of a scan that counted everybody.
LEMMA MinKept ==
  ASSUME TypeOK, NEW q \in Processes, Shown(q), Covered(q), FloorKept(q),
         \/ min_consumer_pos' = min_consumer_pos
         \/ \E a \in Agents : /\ pc[a] = "scan" /\ scan[a].next = MaxSubscribers
                              /\ min_consumer_pos' = scan[a].min
  PROVE  min_consumer_pos' <= Floor(q)'
<1>1. /\ Floor(q) \in Nat /\ slot[q] \in Slots /\ min_consumer_pos \in Nat
      /\ \A a \in Agents : scan[a].min \in Nat
  BY FloorType DEF Shown, TypeOK
<1>2. slot[q] < MaxSubscribers
  BY <1>1, PositionsAssumption DEF Slots
<1>3. CASE min_consumer_pos' = min_consumer_pos
  BY <1>1, <1>3 DEF Covered, FloorKept
<1>4. ASSUME NEW a \in Agents, pc[a] = "scan", scan[a].next = MaxSubscribers,
             min_consumer_pos' = scan[a].min
      PROVE  min_consumer_pos' <= Floor(q)'
  <2>1. scan[a].min <= Floor(q)
    BY <1>2, <1>4 DEF Covered
  <2> QED
    BY <1>1, <1>4, <2>1 DEF FloorKept
<1> QED
  BY <1>3, <1>4

\* A scan in progress still counts the subscribers whose slots it has passed.
LEMMA ScanKept ==
  ASSUME TypeOK, TypeOK', NEW q \in Processes, Shown(q), Covered(q), FloorKept(q),
         NEW a \in Agents, slot[q] < scan'[a].next,
         \/ pc[a] = "scan" /\ scan'[a] = scan[a]
         \/ ScanStart(a)
         \/ ScanSlot(a)
  PROVE  scan'[a].min <= Floor(q)'
<1>1. /\ Floor(q) \in Nat /\ slot[q] \in Slots
      /\ scan[a].min \in Nat /\ scan'[a].min \in Nat
      /\ scan[a].next \in 0 .. MaxSubscribers
  BY FloorType DEF Shown, TypeOK
<1>2. CASE pc[a] = "scan" /\ scan'[a] = scan[a]
  BY <1>1, <1>2 DEF Covered, FloorKept
<1>3. CASE ScanStart(a)
  <2>1. scan'[a].next = 0
    BY <1>3 DEF ScanStart, TypeOK
  <2> QED
    BY <1>1, <2>1 DEF Slots
<1>4. CASE ScanSlot(a)
  <2> DEFINE i == scan[a].next
  <2>1. /\ i \in Slots /\ scan'[a].next = i + 1
        /\ scan'[a].min = IF active[i] = 1 /\ cursor[i] < scan[a].min
                            THEN cursor[i] ELSE scan[a].min
    <3> DEFINE m == IF active[i] = 1 /\ cursor[i] < scan[a].min
                      THEN cursor[i] ELSE scan[a].min
    <3>1. i \in Slots /\ scan' = [scan EXCEPT ![a] = [next |-> i + 1, min |-> m]]
      BY <1>4 DEF ScanSlot
    <3> SUFFICES scan'[a].next = i + 1 /\ scan'[a].min = m
      BY <3>1
    <3> HIDE DEF i, m
    <3> QED
      BY <3>1 DEF TypeOK
  <2>2. cursor[i] \in Nat /\ i \in Nat
    BY <2>1 DEF TypeOK, Slots
  <2>3. CASE slot[q] = i
    <3>1. active[i] = 1
      BY <2>3 DEF Shown
    <3>2. scan'[a].min <= cursor[i]
      BY <1>1, <2>1, <2>2, <3>1
    <3>3. cursor[i] <= Floor(q)
      BY <2>2, <2>3 DEF Floor, Shown
    <3> QED
      BY <1>1, <2>2, <3>2, <3>3 DEF FloorKept
  <2>4. CASE slot[q] # i
    <3>1. slot[q] < i
      BY <1>1, <2>1, <2>4 DEF Slots
    <3>2. scan[a].min <= Floor(q)
      BY <1>4, <3>1 DEF Covered, ScanSlot
    <3>3. scan'[a].min <= scan[a].min
      BY <1>1, <2>1, <2>2
    <3> QED
      BY <1>1, <3>2, <3>3 DEF FloorKept
  <2> QED
    BY <2>3, <2>4
<1> QED
  BY <1>2, <1>3, <1>4

\* The writer claims only what it was granted against a safe minimum, and the
\* claim after padding fits in the reserved term.
LEMMA RoomKept ==
  ASSUME TypeOK, NEW q \in Processes, Shown(q), Covered(q), FloorKept(q),
         \/ Write
         \/ producer_pos' = producer_pos /\ size' = size /\ pc'[Writer] = pc[Writer]
  PROVE  /\ pc'[Writer] = "claim" => producer_pos' + size' <= Floor(q)' + TotalCapacity
         /\ pc'[Writer] = "pad" => producer_pos' <= Floor(q)' + TotalCapacity
         /\ producer_pos' <= Floor(q)' + RingSize
<1> USE AgentsLemma
<1> DEFINE Room(pos, n, label, floor) ==
      /\ label = "claim" => pos + n <= floor + TotalCapacity
      /\ label = "pad" => pos <= floor + TotalCapacity
      /\ pos <= floor + RingSize
<1> SUFFICES Room(producer_pos', size', pc'[Writer], Floor(q)')
  OBVIOUS
<1>1. /\ Floor(q) \in Nat /\ Floor(q)' \in Nat /\ Floor(q) <= Floor(q)'
      /\ slot[q] \in Slots /\ producer_pos \in Nat
      /\ size \in Nat /\ size <= TermLength /\ min_consumer_pos \in Nat
      /\ scan[Writer].min \in Nat
  BY GeometryAssumption, FloorType DEF TypeOK, Shown, FloorKept
<1>2. /\ TotalCapacity \in Nat /\ TermLength \in Nat
      /\ RingSize = TotalCapacity + TermLength /\ TermLength <= TotalCapacity
  BY CapacityLemma, GeometryAssumption
<1>3. Room(producer_pos, size, pc[Writer], Floor(q))
  BY DEF Covered
<1>4. CASE producer_pos' = producer_pos /\ size' = size /\ pc'[Writer] = pc[Writer]
  BY <1>1, <1>2, <1>3, <1>4
<1>5. CASE producer_pos' = producer_pos /\ pc'[Writer] \notin {"claim", "pad"}
  BY <1>1, <1>2, <1>3, <1>5
<1>6. CASE Write
  <2> USE DEF vars, header, slots, locals, Goto
  <2>1. ASSUME NEW n \in FrameSizes, WriteCheck(n)
        PROVE  Room(producer_pos', size', pc'[Writer], Floor(q)')
    <3>1. CASE HasRoom(min_consumer_pos, n)
      <4>1. min_consumer_pos <= Floor(q)
        BY DEF Covered
      <4>2. n \in Nat /\ producer_pos + n - min_consumer_pos <= TotalCapacity
        BY <1>1, <3>1, PositionsAssumption DEF HasRoom
      <4>3. producer_pos + n <= Floor(q)' + TotalCapacity
        BY <1>1, <1>2, <4>1, <4>2
      <4>4. producer_pos' = producer_pos /\ size' = n /\ pc'[Writer] = "claim"
        BY <2>1, <3>1 DEF WriteCheck, TypeOK
      <4> QED
        BY <1>1, <1>2, <4>2, <4>3, <4>4
    <3>2. CASE ~HasRoom(min_consumer_pos, n)
      BY <1>5, <2>1, <3>2 DEF WriteCheck, TypeOK
    <3> QED
      BY <3>1, <3>2
  <2>2. CASE WriteTooLarge
    BY <1>4, <2>2 DEF WriteTooLarge
  <2>3. CASE ScanStart(Writer) \/ ScanSlot(Writer)
    BY <1>5, <2>3 DEF ScanStart, ScanSlot, TypeOK
  <2>4. CASE WriteRecheck
    <3>1. CASE HasRoom(scan[Writer].min, size)
      <4>1. scan[Writer].min <= Floor(q)
        BY <1>1, <2>4, PositionsAssumption DEF Covered, Slots, WriteRecheck, ScanStore
      <4>2. producer_pos + size - scan[Writer].min <= TotalCapacity
        BY <1>1, <3>1 DEF HasRoom
      <4>3. producer_pos + size <= Floor(q)' + TotalCapacity
        BY <1>1, <1>2, <4>1, <4>2
      <4>4. producer_pos' = producer_pos /\ size' = size /\ pc'[Writer] = "claim"
        BY <2>4, <3>1 DEF WriteRecheck, ScanStore, TypeOK
      <4> QED
        BY <1>1, <1>2, <4>3, <4>4
    <3>2. CASE ~HasRoom(scan[Writer].min, size)
      BY <1>5, <2>4, <3>2 DEF WriteRecheck, ScanStore, TypeOK
    <3> QED
      BY <3>1, <3>2
  <2>5. CASE WriteClaim
    <3>1. producer_pos' = producer_pos + size /\ pc'[Writer] \in {"pad", "fill"}
      BY <2>5 DEF WriteClaim, TypeOK
    <3>2. producer_pos + size <= Floor(q) + TotalCapacity
      BY <1>3, <2>5 DEF WriteClaim
    <3> QED
      BY <1>1, <1>2, <3>1, <3>2
  <2>6. CASE WritePad
    <3>1. producer_pos' = producer_pos + size /\ pc'[Writer] = "fill"
      BY <2>6 DEF WritePad, TypeOK
    <3>2. producer_pos <= Floor(q) + TotalCapacity
      BY <1>3, <2>6 DEF WritePad
    <3> QED
      BY <1>1, <1>2, <3>1, <3>2
  <2>7. CASE WriteCommit
    BY <1>5, <2>7 DEF WriteCommit, TypeOK
  <2> QED
    BY <1>6, <2>1, <2>2, <2>3, <2>4, <2>5, <2>6, <2>7 DEF Write
<1> QED
  BY <1>4, <1>6

\* A subscriber that is covered stays so while it reads on, whoever takes a step.
LEMMA CoveredStep ==
  ASSUME TypeOK, TypeOK', [Next]_vars, NEW q \in Processes, Shown(q), Covered(q), FloorKept(q)
  PROVE  Covered(q)'
<1>1. min_consumer_pos' <= Floor(q)'
  <2>1. \/ min_consumer_pos' = min_consumer_pos
        \/ \E a \in Agents : /\ pc[a] = "scan" /\ scan[a].next = MaxSubscribers
                             /\ min_consumer_pos' = scan[a].min
    BY MinStep
  <2> QED
    BY <2>1, MinKept
<1>2. ASSUME NEW a \in Agents, pc'[a] = "scan", slot'[q] < scan'[a].next
      PROVE  scan'[a].min <= Floor(q)'
  <2>1. slot[q] < scan'[a].next
    BY <1>2 DEF FloorKept
  <2>2. (pc[a] = "scan" /\ scan'[a] = scan[a]) \/ ScanStart(a) \/ ScanSlot(a)
    BY <1>2, ScanStep
  <2> QED
    BY <2>1, <2>2, ScanKept
<1>3. \/ Write
      \/ producer_pos' = producer_pos /\ size' = size /\ pc'[Writer] = pc[Writer]
  BY SubscriberFrame, AgentsLemma DEF Next, vars, header
<1> QED
  BY <1>1, <1>2, <1>3, RoomKept DEF Covered

\* A subscriber starts at the producer's position: nothing was promised below it that
\* would not hold there.
LEMMA CoveredFirst ==
  ASSUME TypeOK, TypeOK', BehindProducer, NEW q \in Processes,
         RegisterLoadPosition(q), Floor(q)' = producer_pos
  PROVE  Covered(q)'
<1> USE AgentsLemma
<1>1. /\ producer_pos' = producer_pos /\ min_consumer_pos' = min_consumer_pos
      /\ scan' = scan /\ size' = size
      /\ \A a \in Agents \ {q} : pc'[a] = pc[a]
      /\ pc'[q] = "cursor"
  BY DEF RegisterLoadPosition, header, Goto, TypeOK
<1>2. /\ producer_pos \in Nat /\ size \in Nat /\ size <= TermLength
      /\ TotalCapacity \in Nat /\ TermLength \in Nat
      /\ RingSize = TotalCapacity + TermLength /\ TermLength <= TotalCapacity
  BY CapacityLemma, GeometryAssumption DEF TypeOK
<1>3. /\ min_consumer_pos <= producer_pos
      /\ \A a \in Agents : pc[a] = "scan" => scan[a].min <= producer_pos
  BY DEF BehindProducer
<1>4. \A a \in Agents : pc'[a] = "scan" => scan'[a].min <= producer_pos
  BY <1>1, <1>3
<1>5. producer_pos + size <= producer_pos + TotalCapacity /\ producer_pos <= producer_pos + RingSize
      /\ producer_pos <= producer_pos + TotalCapacity
  BY <1>2
<1> QED
  BY <1>1, <1>3, <1>4, <1>5 DEF Covered

\* In terms of the ring's invariant.
LEMMA CoveredInv ==
  ASSUME IndInv, NEW q \in Processes, Protected(q)
  PROVE  Shown(q) /\ Covered(q)
BY DEF IndInv, Shown, Covered, SlotExclusive, LocalsAgree, CachedMinIsSafe, ScanCounts,
       RoomGranted, Protected, Anchored

\* Every protected subscriber is covered after a step.
LEMMA CoveredAlways ==
  ASSUME IndInv, [Next]_vars, TypeOK'
  PROVE  CachedMinIsSafe' /\ ScanCounts' /\ RoomGranted'
<1>1. ASSUME NEW q \in Processes, Protected(q)' PROVE Covered(q)'
  <2>1. CASE /\ Anchored(q) /\ slot'[q] = slot[q] /\ Floor(q) <= Floor(q)'
             /\ ~RegisterLoadPosition(q)
    <3>1. Floor(q)' \in Nat
      BY <1>1 DEF TypeOK, Protected, Anchored, Holding, Floor
    <3>2. Shown(q) /\ Covered(q)
      <4>0. ~UnregisterClear(q)
        BY <2>1 DEF UnregisterClear, Anchored, Holding, IndInv, TypeOK
      <4>1. ~inherited[q]
        BY <1>1, <2>1, <4>0, InheritedStep DEF Protected, IndInv
      <4> QED
        BY <2>1, <4>1, CoveredInv DEF Protected
    <3>3. FloorKept(q)
      BY <2>1, <3>1 DEF FloorKept
    <3> QED
      BY <3>2, <3>3, CoveredStep DEF IndInv
  <2>2. CASE RegisterLoadPosition(q) /\ Floor(q)' = producer_pos
    BY <2>2, CoveredFirst DEF IndInv
  <2>3. \/ /\ Anchored(q) /\ slot'[q] = slot[q] /\ Floor(q) <= Floor(q)'
           /\ ~RegisterLoadPosition(q)
        \/ RegisterLoadPosition(q) /\ Floor(q)' = producer_pos
    <3>1. RegisterLoadPosition(q) => ~Anchored(q)
      BY AgentsLemma DEF RegisterLoadPosition, At, Anchored, ClaimingLabels
    <3> QED
      BY <1>1, <3>1, AnchorStep DEF IndInv, Protected
  <2> QED
    BY <2>1, <2>2, <2>3
<1> QED
  BY <1>1 DEF Covered, CachedMinIsSafe, ScanCounts, RoomGranted

-----------------------------------------------------------------------------
(***************************************************************************)
(* The theorems.                                                           *)
(***************************************************************************)

\* Nobody is registered at the start.
LEMMA InitIndInv == Init => IndInv
<1> SUFFICES ASSUME Init PROVE IndInv
  OBVIOUS
<1>1. TypeOK /\ SlotsHeld
  BY InitTypes
<1>2. \A p \in Processes : ~Holding(p) /\ pc[p] = "idle"
  BY AgentsLemma DEF Init, Holding
<1>3. SlotExclusive /\ CachedMinIsSafe /\ ScanCounts /\ RoomGranted /\ LocalsAgree
  BY <1>2 DEF SlotExclusive, CachedMinIsSafe, ScanCounts, RoomGranted, LocalsAgree,
     Protected, Anchored
<1>4. BehindProducer
  BY AgentsLemma DEF Init, BehindProducer
<1> QED
  BY <1>1, <1>3, <1>4 DEF IndInv

\* Every step of the writer and of every subscriber keeps the invariant.
LEMMA NextIndInv ==
  ASSUME IndInv, [Next]_vars
  PROVE  IndInv'
<1>1. TypeOK' /\ SlotsHeld' /\ SlotExclusive'
  BY TypesStep, SlotsHeldStep, SlotExclusiveStep DEF IndInv
<1>2. BehindProducer' /\ LocalsAgree'
  BY BehindProducerStep, LocalsAgreeStep DEF IndInv
<1>3. CachedMinIsSafe' /\ ScanCounts' /\ RoomGranted'
  BY <1>1, CoveredAlways
<1> QED
  BY <1>1, <1>2, <1>3 DEF IndInv

\* The inductive invariant holds in every reachable state.
THEOREM Invariance == Spec => []IndInv
<1>1. Init => IndInv
  BY InitIndInv
<1>2. IndInv /\ [Next]_vars => IndInv'
  BY NextIndInv
<1> QED
  BY <1>1, <1>2, PTL DEF Spec

\* registerSubscriber()'s compare-exchange and unregisterSubscriber()'s check of
\* the generation: a slot has at most one holder, and it is marked active.
THEOREM SlotsAreExclusive == Spec => []SlotExclusive
<1>1. IndInv => SlotExclusive
  BY DEF IndInv
<1> QED
  BY <1>1, Invariance, PTL

\* minOfAllSubscribers() run by several threads at once never leaves a
\* min_consumer_pos above a subscriber that has still to read, whatever lengths
\* poll() finds, unless its slot still showed a cursor past producer_pos when the
\* subscriber took it over.
THEOREM CachedMinSafe == Spec => []CachedMinIsSafe
<1>1. IndInv => CachedMinIsSafe
  BY DEF IndInv
<1> QED
  BY <1>1, Invariance, PTL

\* Back-pressure: write() never comes round the ring to a position that a
\* registered subscriber has not read, even with its unchecked second claim and
\* whatever lengths poll() finds, with the one exception of CachedMinSafe.
THEOREM NoUnreadOverwritten == Spec => []NoOverwriteUnread
<1>1. IndInv => NoOverwriteUnread
  BY DEF IndInv, RoomGranted, NoOverwriteUnread
<1> QED
  BY <1>1, Invariance, PTL

-----------------------------------------------------------------------------
(***************************************************************************)
(* Frames and terms.                                                       *)
(***************************************************************************)

\* Division with remainder by any divisor.
LEMMA QuotientRemainder ==
  ASSUME NEW t \in Nat \ {0}, NEW a \in Nat
  PROVE  /\ a = t * (a \div t) + (a % t)
         /\ a \div t \in Nat /\ a % t \in 0 .. t - 1
OBVIOUS

LEMMA RemainderUnique ==
  ASSUME NEW t \in Nat \ {0}, NEW k \in Nat, NEW s \in 0 .. t - 1
  PROVE  (t * k + s) % t = s
OBVIOUS

\* A frame that does not fit in its term and is claimed again starts in the next.
LEMMA OffsetAfterPadding ==
  ASSUME NEW c \in Nat, NEW n \in 0 .. TermLength, NeedsPadding(c, n)
  PROVE  /\ TermOffset(c) \in 0 .. TermLength - 1
         /\ TermOffset(c + n) = TermOffset(c) + n - TermLength
<1> DEFINE q == c \div TermLength
           s == TermOffset(c) + n - TermLength
<1>1. /\ TermLength \in Nat \ {0} /\ n \in Nat
      /\ q \in Nat /\ TermOffset(c) \in 0 .. TermLength - 1
      /\ c = TermLength * q + TermOffset(c)
  <2>1. TermLength \in Nat \ {0}
    BY GeometryAssumption
  <2>2. /\ c = TermLength * (c \div TermLength) + (c % TermLength)
        /\ c \div TermLength \in Nat /\ c % TermLength \in 0 .. TermLength - 1
    BY <2>1, QuotientRemainder
  <2> QED
    BY <2>1, <2>2 DEF TermOffset
<1>2. s \in 0 .. TermLength - 1
  BY <1>1 DEF NeedsPadding
<1>3. c + n = TermLength * (q + 1) + s
  <2> HIDE DEF q
  <2> QED
    BY <1>1
<1>4. (TermLength * (q + 1) + s) % TermLength = s
  <2>1. q + 1 \in Nat
    BY <1>1
  <2> HIDE DEF q, s
  <2> QED
    BY <2>1, <1>1, <1>2, RemainderUnique
<1> QED
  BY <1>1, <1>3, <1>4 DEF TermOffset

\* Where the writer stands when it has claimed a frame, and when it fills one.
ClaimPlaced ==
  /\ pc[Writer] = "pad" => producer_pos = claimed + size /\ NeedsPadding(claimed, size)
  /\ FrameStaysInTerm

LEMMA ClaimPlacedStep ==
  ASSUME TypeOK, ClaimPlaced, [Next]_vars
  PROVE  ClaimPlaced'
<1> USE AgentsLemma DEF TypeOK, Goto, vars, header, slots, locals
<1>1. CASE UNCHANGED vars
  BY <1>1 DEF ClaimPlaced, FrameStaysInTerm
<1>2. ASSUME NEW p \in Processes, Subscriber(p) PROVE ClaimPlaced'
  <2>1. /\ producer_pos' = producer_pos /\ size' = size /\ pc'[Writer] = pc[Writer]
    BY <1>2, SubscriberFrame
  <2>2. claimed' = claimed
    BY <1>2
    DEF Subscriber, Register, RegisterStart, RegisterTaken, RegisterClaim, RegisterPid,
        RegisterGenLoad, RegisterGenStore, RegisterLoadPosition, RegisterStoreCursor,
        RegisterHeartbeat, RegisterStoreMin, RegisterReturn, ScanStart, ScanSlot, Poll,
        PollNothing, PollLoad, PollOverrun, PollUncommitted, PollFrame, PollAdvance,
        Unregister, UnregisterCheck, UnregisterClear, UnregisterStoreMin
  <2> QED
    BY <2>1, <2>2 DEF ClaimPlaced, FrameStaysInTerm
<1>3. ASSUME ~WriteClaim, ~WritePad, Write PROVE ClaimPlaced'
  <2>1. pc'[Writer] \notin {"pad", "fill"}
    BY <1>3 DEF Write, WriteCheck, WriteTooLarge, ScanStart, ScanSlot, WriteRecheck,
                ScanStore, WriteCommit
  <2> QED
    BY <2>1 DEF ClaimPlaced, FrameStaysInTerm
<1>4. CASE WriteClaim
  <2>1. /\ claimed' = producer_pos /\ producer_pos' = producer_pos + size /\ size' = size
        /\ pc'[Writer] = IF NeedsPadding(producer_pos, size) THEN "pad" ELSE "fill"
    BY <1>4 DEF WriteClaim
  <2>2. TermOffset(producer_pos) \in Nat
    BY GeometryAssumption, QuotientRemainder DEF TermOffset
  <2> QED
    BY <2>1, <2>2, GeometryAssumption DEF ClaimPlaced, FrameStaysInTerm, NeedsPadding
<1>5. CASE WritePad
  <2>1. /\ claimed' = producer_pos /\ producer_pos' = producer_pos + size /\ size' = size
        /\ pc'[Writer] = "fill"
        /\ producer_pos = claimed + size /\ NeedsPadding(claimed, size)
    BY <1>5 DEF WritePad, ClaimPlaced
  <2>2. TermOffset(claimed') = TermOffset(claimed) + size - TermLength
        /\ TermOffset(claimed) \in 0 .. TermLength - 1
    BY <2>1, OffsetAfterPadding
  <2> QED
    BY <2>1, <2>2, GeometryAssumption DEF ClaimPlaced, FrameStaysInTerm
<1> QED
  BY <1>1, <1>2, <1>3, <1>4, <1>5 DEF Next

\* write() never splits a frame of at most half a term over two terms: it fits
\* where it was claimed first, or padding leaves room for it in the next term.
THEOREM FramesStayInTerm == Spec => []FrameStaysInTerm
<1>1. Init => ClaimPlaced
  BY AgentsLemma DEF Init, ClaimPlaced, FrameStaysInTerm
<1>2. TypeOK /\ ClaimPlaced /\ [Next]_vars => ClaimPlaced'
  BY ClaimPlacedStep
<1>3. ClaimPlaced => FrameStaysInTerm
  BY DEF ClaimPlaced
<1> QED
  BY <1>1, <1>2, <1>3, TypeCorrect, PTL DEF Spec

-----------------------------------------------------------------------------
(***************************************************************************)
(* Cursors.                                                                *)
(***************************************************************************)

\* A subscriber is handed a frame at most once: its cursor moves back only where
\* poll() takes it to be overrun.
THEOREM CursorsNeverRewind == Spec => OnlyOverrunRewinds
<1> DEFINE Rewound ==
      \A p \in Processes :
        Holding(p) /\ slot'[p] = slot[p] /\ pc[p] \notin ClaimingLabels \cup {"cursor"}
          => \/ cursor'[slot[p]] >= cursor[slot[p]]
             \/ jumped'[p]
<1>1. IndInv /\ [Next]_vars => [Rewound]_vars
  <2> SUFFICES ASSUME IndInv, Next,
                      NEW p \in Processes, Holding(p),
                      pc[p] \notin ClaimingLabels \cup {"cursor"},
                      cursor'[slot[p]] # cursor[slot[p]]
               PROVE  \/ cursor'[slot[p]] >= cursor[slot[p]]
                      \/ jumped'[p]
    BY DEF IndInv, TypeOK, Holding
  <2> USE DEF IndInv
  <2>1. Subscriber(p)
    <3>1. ~Write
      BY WriterFrame DEF slots
    <3>2. ASSUME NEW q \in Processes \ {p}, Subscriber(q) PROVE FALSE
      BY <3>2, OthersCursor
    <3> QED
      BY <3>1, <3>2 DEF Next
  <2>2. PollOverrun(p) \/ PollFrame(p)
    BY <2>1
    DEF Subscriber, Register, RegisterStart, RegisterTaken, RegisterClaim, RegisterPid,
        RegisterGenLoad, RegisterGenStore, RegisterLoadPosition, RegisterStoreCursor,
        RegisterHeartbeat, RegisterStoreMin, RegisterReturn, ScanStart, ScanSlot, Poll,
        PollNothing, PollLoad, PollUncommitted, Unregister, UnregisterCheck,
        UnregisterClear, UnregisterStoreMin, At, vars, slots
  <2>3. /\ slot[p] \in Slots /\ cursor[slot[p]] \in Nat
        /\ pc[p] = "frame" => seen_cursor[p] = cursor[slot[p]]
    BY DEF TypeOK, Holding, LocalsAgree
  <2>4. CASE PollOverrun(p)
    BY <2>4, <2>3 DEF PollOverrun, TypeOK
  <2>5. CASE PollFrame(p)
    <3>1. PICK length \in 1 .. MaxLength :
            cursor' = [cursor EXCEPT ![slot[p]] = seen_cursor[p] + length]
      BY <2>5 DEF PollFrame, PollAdvance
    <3> QED
      BY <2>3, <2>5, <3>1, PositionsAssumption DEF PollFrame, PollAdvance, At, TypeOK
  <2> QED
    BY <2>2, <2>4, <2>5
<1> QED
  BY <1>1, Invariance, PTL DEF Spec, OnlyOverrunRewinds
=============================================================================
