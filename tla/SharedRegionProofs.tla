-------------------------- MODULE SharedRegionProofs --------------------------
(***************************************************************************)
(* Theorems about SharedRegion, for any number of processes, objects and   *)
(* slots, and about the exchanges that have a region of their own.         *)
(***************************************************************************)
EXTENDS SharedRegion, RegionPath, TLAPS

Working == {"ready", "freeing", "clear", "bump", "unmap"}
Labels == {"out", "create", "truncate", "map", "construct", "free_slots"} \cup Working

Regions ==
  [sized : BOOLEAN, magic : BOOLEAN, slots : [Slots -> [active : {0, 1}, generation : Nat]]]

Records ==
  [pc : Labels, object : {NoObject} \cup Objects, is_creator : BOOLEAN,
   handle : [index : 0 .. MaxSlots, generation : Nat], slot : Nat]

StructureOK ==
  /\ name \in {NoObject} \cup Objects
  /\ region \in [Objects -> Regions]
  /\ proc \in [Processes -> Records]
  /\ history \subseteq Situations

\* Who is past shm_open() has an object, and only such a process is a creator.
PlaceOK(p) ==
  /\ proc[p].pc \in {"out", "create"} <=> proc[p].object = NoObject
  /\ proc[p].pc \in {"out", "create"} => ~proc[p].is_creator
  /\ proc[p].pc = "truncate" => proc[p].is_creator

\* How far the object of a process is when the process has come to a line.
HeaderOK(p) ==
  /\ proc[p].pc = "map" /\ proc[p].is_creator => Mine(p).sized
  /\ proc[p].pc \in {"construct", "free_slots"} \cup Working => Mine(p).sized
  /\ proc[p].pc \in {"free_slots"} \cup Working => Mine(p).magic

\* As long as no creator went before the others, the path refers to the object in use.
LinkedOK ==
  ~Happened("orphaned") => \A p \in Processes : Attached(p) => proc[p].object = name

\* As long as no two processes created the same object, it is its one creator's.
CreatorsOK ==
  ~Happened("raced") =>
    \A p, q \in Processes :
      proc[p].is_creator => proc[p].object = name /\ (proc[q].is_creator => q = p)

RegionInv ==
  /\ StructureOK
  /\ \A p \in Processes : PlaceOK(p) /\ HeaderOK(p)
  /\ LinkedOK
  /\ CreatorsOK

-----------------------------------------------------------------------------
(***************************************************************************)
(* Three kinds of steps.                                                   *)
(***************************************************************************)

\* Nothing changes about who has which object, and no header gets worse.
SamePlaces ==
  /\ name' = name
  /\ history \subseteq history'
  /\ \A q \in Processes : /\ proc'[q].object = proc[q].object
                          /\ proc'[q].is_creator = proc[q].is_creator
  /\ \A o \in Objects : /\ region[o].sized => region'[o].sized
                        /\ region[o].magic => region'[o].magic

\* A step of process p that leaves it where it is, at a line its object is ready for.
LEMMA StepInPlace ==
  ASSUME RegionInv, StructureOK', SamePlaces,
         NEW p \in Processes, Attached(p),
         \A q \in Processes \ {p} : proc'[q] = proc[q],
         proc'[p].pc \in {"map", "construct", "free_slots"} \cup Working,
         proc'[p].pc = "map" /\ proc[p].is_creator => region'[proc[p].object].sized,
         proc'[p].pc \in {"construct", "free_slots"} \cup Working => region'[proc[p].object].sized,
         proc'[p].pc \in {"free_slots"} \cup Working => region'[proc[p].object].magic
  PROVE  RegionInv'
<1> USE DEF RegionInv
<1>1. ASSUME NEW q \in Processes PROVE PlaceOK(q)'
  <2>1. CASE q = p
    BY <2>1 DEF PlaceOK, SamePlaces, Attached, Working
  <2>2. CASE q # p
    BY <2>2 DEF PlaceOK, SamePlaces
  <2> QED
    BY <2>1, <2>2
<1>2. ASSUME NEW q \in Processes PROVE HeaderOK(q)'
  <2>1. CASE q = p
    BY <2>1 DEF HeaderOK, SamePlaces, Mine
  <2>2. CASE q # p
    <3>1. proc[q].object \in {NoObject} \cup Objects
      BY DEF StructureOK, Records
    <3>2. CASE proc[q].object = NoObject
      BY <2>2, <3>2 DEF PlaceOK, HeaderOK, Working
    <3>3. CASE proc[q].object \in Objects
      BY <2>2, <3>3 DEF HeaderOK, SamePlaces, Mine
    <3> QED
      BY <3>1, <3>2, <3>3
  <2> QED
    BY <2>1, <2>2
<1>3. LinkedOK'
  BY DEF LinkedOK, SamePlaces, Happened, Attached
<1>4. CreatorsOK'
  BY DEF CreatorsOK, SamePlaces, Happened
<1> QED
  BY <1>1, <1>2, <1>3, <1>4

\* A process that has the object, or nothing, is gone.  Its step unlinks the path only if it
\* is a creator, and this is remembered if others have the object.
LEMMA StepAway ==
  ASSUME RegionInv, history \subseteq history', history' \subseteq Situations,
         NEW p \in Processes, NEW n \in {name, NoObject}, Detach(p, n),
         n # name => /\ proc[p].is_creator
                     /\ UsedByOthers(p) => "orphaned" \in history'
  PROVE  RegionInv'
<1> USE DEF RegionInv
<1>a. NoObject \notin Objects
  BY RegionAssumption
<1>o. Outside \in Records /\ BlankRegion \in Regions
  <2>1. MaxSlots \in Nat /\ NoSlot = 0
    BY RegionAssumption DEF NoSlot
  <2>2. FreeSlot \in [active : {0, 1}, generation : Nat]
    BY DEF FreeSlot
  <2>3. NoHandle \in [index : 0 .. MaxSlots, generation : Nat]
    BY <2>1 DEF NoHandle
  <2> QED
    BY <2>1, <2>2, <2>3 DEF Outside, Records, Labels, BlankRegion, Regions
<1>p. /\ proc' = [proc EXCEPT ![p] = Outside]
      /\ name' = n
      /\ proc'[p] = Outside
      /\ \A q \in Processes \ {p} : proc'[q] = proc[q]
  BY DEF Detach, StructureOK
<1>r. \A q \in Processes \ {p} : proc[q].object \in Objects => region'[proc[q].object] = region[proc[q].object]
  BY DEF Detach
<1>1. StructureOK'
  <2>1. region' \in [Objects -> Regions]
    BY <1>o DEF Detach, StructureOK
  <2> QED
    BY <2>1, <1>o, <1>p DEF StructureOK
<1>2. ASSUME NEW q \in Processes PROVE PlaceOK(q)'
  <2>1. CASE q = p
    BY <2>1, <1>p DEF PlaceOK, Outside
  <2>2. CASE q # p
    BY <2>2, <1>p DEF PlaceOK
  <2> QED
    BY <2>1, <2>2
<1>3. ASSUME NEW q \in Processes PROVE HeaderOK(q)'
  <2>1. CASE q = p
    BY <2>1, <1>p DEF HeaderOK, Outside, Working
  <2>2. CASE q # p
    <3>1. proc[q].object \in {NoObject} \cup Objects
      BY DEF StructureOK, Records
    <3>2. CASE proc[q].object = NoObject
      BY <2>2, <3>2, <1>p DEF PlaceOK, HeaderOK, Working
    <3>3. CASE proc[q].object \in Objects
      BY <2>2, <3>3, <1>p, <1>r DEF HeaderOK, Mine
    <3> QED
      BY <3>1, <3>2, <3>3
  <2> QED
    BY <2>1, <2>2
<1>4. LinkedOK'
  <2> SUFFICES ASSUME "orphaned" \notin history',
                      NEW q \in Processes, proc'[q].object # NoObject
               PROVE  proc'[q].object = n
    BY <1>p DEF LinkedOK, Happened, Attached
  <2>1. q # p /\ proc'[q] = proc[q]
    BY <1>p DEF Outside
  <2>2. proc[q].object = name
    BY <2>1 DEF LinkedOK, Happened, Attached
  <2>3. CASE n # name
    <3>1. proc[p].object = name
      <4>1. proc[p].object # NoObject
        BY <2>3 DEF PlaceOK
      <4> QED
        BY <4>1 DEF LinkedOK, Happened, Attached
    <3> QED
      BY <2>1, <2>2, <2>3, <3>1 DEF UsedByOthers
  <2> QED
    BY <2>1, <2>2, <2>3
<1>5. CreatorsOK'
  <2> SUFFICES ASSUME "raced" \notin history', NEW q \in Processes, NEW r \in Processes,
                      proc'[q].is_creator
               PROVE  proc'[q].object = n /\ (proc'[r].is_creator => r = q)
    BY <1>p DEF CreatorsOK, Happened
  <2>1. q # p /\ proc'[q] = proc[q]
    BY <1>p DEF Outside
  <2>2. \A s \in Processes : proc[s].is_creator => s = q
    BY <2>1 DEF CreatorsOK, Happened
  <2>3. n = name /\ proc[q].object = name
    BY <2>1, <2>2 DEF CreatorsOK, Happened
  <2>4. proc'[r].is_creator => proc[r].is_creator
    BY <1>p DEF Outside
  <2> QED
    BY <2>1, <2>2, <2>3, <2>4
<1> QED
  BY <1>1, <1>2, <1>3, <1>4, <1>5

-----------------------------------------------------------------------------
(***************************************************************************)
(* The steps of initialize().                                              *)
(***************************************************************************)
LEMMA OpenStep ==
  ASSUME RegionInv, NEW p \in Processes, Open(p)
  PROVE  RegionInv'
<1> USE DEF RegionInv
<1>a. NoObject \notin Objects /\ Outside.handle = NoHandle /\ NoHandle \in [index : 0 .. MaxSlots, generation : Nat]
  BY RegionAssumption DEF Outside, NoHandle, NoSlot
<1> DEFINE new == IF name = NoObject THEN [Outside EXCEPT !.pc = "create"]
                                     ELSE [Outside EXCEPT !.pc = "map", !.object = name]
<1>p. /\ proc' = [proc EXCEPT ![p] = new]
      /\ name' = name /\ region' = region
      /\ history \subseteq history' /\ history' \subseteq Situations
  BY DEF Open, Note, Remember, Noted, StructureOK, Situations
<1>n. /\ new.object = name
      /\ new.pc = IF name = NoObject THEN "create" ELSE "map"
      /\ ~new.is_creator
  BY DEF Outside
<1>q. /\ proc'[p] = new
      /\ \A q \in Processes \ {p} : proc'[q] = proc[q]
  BY <1>p DEF StructureOK
<1>1. StructureOK'
  <2>1. new \in Records
    BY <1>a DEF Outside, Records, Labels, StructureOK, NoSlot
  <2> QED
    BY <2>1, <1>p DEF StructureOK
<1> HIDE DEF new
<1>2. ASSUME NEW q \in Processes PROVE PlaceOK(q)'
  <2>1. CASE q = p
    BY <2>1, <1>q, <1>n DEF PlaceOK
  <2>2. CASE q # p
    BY <2>2, <1>q DEF PlaceOK
  <2> QED
    BY <2>1, <2>2
<1>3. ASSUME NEW q \in Processes PROVE HeaderOK(q)'
  <2>1. CASE q = p
    BY <2>1, <1>q, <1>n DEF HeaderOK, Working
  <2>2. CASE q # p
    BY <2>2, <1>p, <1>q DEF HeaderOK, Mine
  <2> QED
    BY <2>1, <2>2
<1>4. LinkedOK'
  BY <1>p, <1>q, <1>n DEF LinkedOK, Happened, Attached
<1>5. CreatorsOK'
  BY <1>p, <1>q, <1>n DEF CreatorsOK, Happened
<1> QED
  BY <1>1, <1>2, <1>3, <1>4, <1>5

LEMMA CreateStep ==
  ASSUME RegionInv, NEW p \in Processes, Create(p)
  PROVE  RegionInv'
<1> USE DEF RegionInv
<1>1. PICK o \in Objects :
        /\ IF name = NoObject THEN ~InUse(o) ELSE o = name
        /\ name' = o
        /\ proc' = [proc EXCEPT ![p] = [@ EXCEPT !.pc = "truncate", !.object = o, !.is_creator = TRUE]]
  BY DEF Create
<1> DEFINE new == [proc[p] EXCEPT !.pc = "truncate", !.object = o, !.is_creator = TRUE]
<1>a. o # NoObject
  BY RegionAssumption
<1>p. /\ proc[p] \in Records
      /\ proc[p].pc = "create"
      /\ region' = region
      /\ history \subseteq history' /\ history' \subseteq Situations
      /\ name # NoObject => "raced" \in history'
  BY DEF Create, Note, Remember, Noted, StructureOK, Situations
<1>q. /\ proc'[p] = new
      /\ \A q \in Processes \ {p} : proc'[q] = proc[q]
  BY <1>1 DEF StructureOK
<1>n. new \in Records /\ new.pc = "truncate" /\ new.object = o /\ new.is_creator
  BY <1>p DEF Records, Labels
<1>2. StructureOK'
  BY <1>1, <1>p, <1>n DEF StructureOK
<1> HIDE DEF new
<1>3. ASSUME NEW q \in Processes PROVE PlaceOK(q)' /\ HeaderOK(q)'
  <2>1. CASE q = p
    BY <2>1, <1>q, <1>n, <1>a DEF PlaceOK, HeaderOK, Working
  <2>2. CASE q # p
    BY <2>2, <1>p, <1>q DEF PlaceOK, HeaderOK, Mine
  <2> QED
    BY <2>1, <2>2
<1>4. LinkedOK'
  \* When the path referred to nothing, nobody had an object.
  BY <1>1, <1>p, <1>q, <1>n DEF LinkedOK, Happened, Attached
<1>5. CreatorsOK'
  <2> SUFFICES ASSUME "raced" \notin history' PROVE CreatorsOK'
    BY DEF CreatorsOK, Happened
  <2>1. \A q \in Processes : ~proc[q].is_creator
    <3>1. name = NoObject /\ "raced" \notin history
      BY <1>p
    <3> QED
      BY <3>1 DEF CreatorsOK, Happened, PlaceOK
  <2> QED
    BY <2>1, <1>1, <1>q, <1>n DEF CreatorsOK
<1> QED
  BY <1>2, <1>3, <1>4, <1>5

\* The object of an attached process, and what may be stored in it.
LEMMA OwnObject ==
  ASSUME RegionInv, NEW p \in Processes, proc[p].pc \notin {"out", "create"}
  PROVE  /\ Attached(p) /\ proc[p].object \in Objects
         /\ proc[p] \in Records /\ Mine(p) \in Regions
BY DEF RegionInv, StructureOK, Records, PlaceOK, Attached, Mine

LEMMA AllFree ==
  [i \in Slots |-> FreeSlot] \in [Slots -> [active : {0, 1}, generation : Nat]]
BY DEF FreeSlot

\* The steps of initialize() that keep the object.
LEMMA InitializeStep ==
  ASSUME RegionInv, NEW p \in Processes,
         Truncate(p) \/ CheckHeader(p) \/ ConstructMagic(p) \/ ConstructSlots(p)
  PROVE  RegionInv'
<1> USE DEF RegionInv
<1> DEFINE o == proc[p].object
<1>1. /\ Attached(p) /\ o \in Objects
      /\ proc[p] \in Records /\ Mine(p) \in Regions
      /\ PlaceOK(p) /\ HeaderOK(p) /\ StructureOK
  BY OwnObject DEF Truncate, CheckHeader, ConstructMagic, ConstructSlots
<1>2. CASE Truncate(p)
  <2>1. StructureOK'
    BY <1>1, <1>2 DEF Truncate, StructureOK, Records, Regions, Labels
  <2>2. SamePlaces
    BY <1>1, <1>2 DEF Truncate, StructureOK, Records, Regions, SamePlaces
  <2>3. proc'[p].pc = "map" /\ region'[o].sized /\ \A q \in Processes \ {p} : proc'[q] = proc[q]
    BY <1>1, <1>2 DEF Truncate, StructureOK, Records, Regions
  <2> QED
    BY <1>1, <2>1, <2>2, <2>3, StepInPlace DEF Working
<1>3. CASE CheckHeader(p)
  <2>1. StructureOK'
    BY <1>1, <1>3 DEF CheckHeader, StructureOK, Records, Labels, Working
  <2>2. SamePlaces
    BY <1>1, <1>3 DEF CheckHeader, StructureOK, Records, SamePlaces
  <2>3. /\ proc'[p].pc \in {"construct", "ready"} /\ region' = region
        /\ region[o].sized
        /\ proc'[p].pc = "ready" => region[o].magic
        /\ \A q \in Processes \ {p} : proc'[q] = proc[q]
    BY <1>1, <1>3 DEF CheckHeader, StructureOK, Records, HeaderOK, Mine
  <2> QED
    BY <1>1, <2>1, <2>2, <2>3, StepInPlace DEF Working
<1>4. CASE ConstructMagic(p)
  <2>1. StructureOK'
    BY <1>1, <1>4 DEF ConstructMagic, StructureOK, Records, Regions, Labels
  <2>2. SamePlaces
    BY <1>1, <1>4 DEF ConstructMagic, StructureOK, Records, Regions, SamePlaces
  <2>3. /\ proc'[p].pc = "free_slots" /\ region'[o].sized /\ region'[o].magic
        /\ \A q \in Processes \ {p} : proc'[q] = proc[q]
    BY <1>1, <1>4 DEF ConstructMagic, StructureOK, Records, Regions, HeaderOK, Mine
  <2> QED
    BY <1>1, <2>1, <2>2, <2>3, StepInPlace DEF Working
<1>5. CASE ConstructSlots(p)
  <2>1. StructureOK'
    <3>1. region' \in [Objects -> Regions]
      BY <1>1, <1>5, AllFree DEF ConstructSlots, StructureOK, Regions
    <3>2. proc' \in [Processes -> Records]
      BY <1>1, <1>5 DEF ConstructSlots, StructureOK, Records, Labels, Working
    <3> QED
      BY <1>5, <3>1, <3>2 DEF ConstructSlots, StructureOK
  <2>2. SamePlaces
    BY <1>1, <1>5 DEF ConstructSlots, StructureOK, Records, Regions, SamePlaces
  <2>3. /\ proc'[p].pc = "ready" /\ region'[o].sized /\ region'[o].magic
        /\ \A q \in Processes \ {p} : proc'[q] = proc[q]
    BY <1>1, <1>5 DEF ConstructSlots, StructureOK, Records, Regions, HeaderOK, Mine
  <2> QED
    BY <1>1, <2>1, <2>2, <2>3, StepInPlace DEF Working
<1> QED
  BY <1>2, <1>3, <1>4, <1>5

-----------------------------------------------------------------------------
(***************************************************************************)
(* The use of the region: only slots, handles and lines change.            *)
(***************************************************************************)
SlotContents == [active : {0, 1}, generation : Nat]

\* What a step that works on the slots may do to an object.
OnlySlotsChange ==
  /\ region' \in [Objects -> Regions]
  /\ \A o \in Objects : region'[o].sized = region[o].sized /\ region'[o].magic = region[o].magic

LEMMA SlotStored ==
  ASSUME StructureOK, NEW o \in Objects, NEW slots \in [Slots -> SlotContents],
         region' = [region EXCEPT ![o].slots = slots]
  PROVE  OnlySlotsChange
<1>1. region[o] \in Regions
  BY DEF StructureOK
<1>2. [region[o] EXCEPT !.slots = slots] \in Regions
  BY <1>1 DEF Regions, SlotContents
<1>3. /\ [region[o] EXCEPT !.slots = slots].sized = region[o].sized
      /\ [region[o] EXCEPT !.slots = slots].magic = region[o].magic
  BY <1>1 DEF Regions
<1> QED
  BY <1>2, <1>3 DEF OnlySlotsChange, StructureOK

\* Storing 0 in active, or counting the generation, in one of the slots.
LEMMA SlotUpdates ==
  ASSUME NEW slots \in [Slots -> SlotContents], NEW i
  PROVE  /\ [slots EXCEPT ![i].active = 0] \in [Slots -> SlotContents]
         /\ [slots EXCEPT ![i].generation = @ + 1] \in [Slots -> SlotContents]
         /\ \A c \in SlotContents : [slots EXCEPT ![i] = c] \in [Slots -> SlotContents]
<1>1. ASSUME NEW j \in Slots
      PROVE  /\ [slots[j] EXCEPT !.active = 0] \in SlotContents
             /\ [slots[j] EXCEPT !.generation = @ + 1] \in SlotContents
  BY DEF SlotContents
<1>2. ASSUME NEW c, i \in Slots => c \in SlotContents
      PROVE  [slots EXCEPT ![i] = c] \in [Slots -> SlotContents]
  BY <1>2
<1> QED
  BY <1>1, <1>2

LEMMA NothingStored ==
  ASSUME StructureOK, region' = region
  PROVE  OnlySlotsChange
BY DEF StructureOK, OnlySlotsChange

LEMMA NoHandleType == NoHandle \in [index : 0 .. MaxSlots, generation : Nat] /\ NoSlot \in Nat
BY RegionAssumption DEF NoHandle, NoSlot

LEMMA UseStep ==
  ASSUME RegionInv, OnlySlotsChange, name' = name, history \subseteq history', history' \subseteq Situations,
         NEW p \in Processes, proc[p].pc \in Working,
         NEW new \in Records, proc' = [proc EXCEPT ![p] = new],
         new.pc \in Working, new.object = proc[p].object, new.is_creator = proc[p].is_creator
  PROVE  RegionInv'
<1>1. Attached(p) /\ proc[p].object \in Objects
  BY OwnObject DEF Working
<1>2. StructureOK'
  BY DEF RegionInv, StructureOK, OnlySlotsChange
<1>3. /\ proc'[p] = new
      /\ \A q \in Processes \ {p} : proc'[q] = proc[q]
  BY DEF RegionInv, StructureOK
<1>4. SamePlaces
  BY <1>3 DEF SamePlaces, OnlySlotsChange
<1>5. region'[proc[p].object].sized /\ region'[proc[p].object].magic
  BY <1>1 DEF RegionInv, HeaderOK, Mine, OnlySlotsChange
<1> QED
  BY <1>1, <1>2, <1>3, <1>4, <1>5, StepInPlace
\* The slots of the object a process has.
LEMMA OwnSlots ==
  ASSUME RegionInv, NEW p \in Processes, proc[p].pc \in Working
  PROVE  /\ proc[p] \in Records /\ proc[p].object \in Objects /\ StructureOK
         /\ region[proc[p].object].slots \in [Slots -> SlotContents]
BY OwnObject DEF RegionInv, Working, Mine, Regions, SlotContents

LEMMA SubscriberStep ==
  ASSUME RegionInv, NEW p \in Subscribers, Subscribe(p) \/ Unsubscribe(p) \/ FreeSlotOf(p)
  PROVE  RegionInv'
<1> DEFINE o == proc[p].object
<1>1. /\ p \in Processes /\ proc[p] \in Records /\ proc[p].pc \in Working /\ o \in Objects
      /\ StructureOK /\ region[o].slots \in [Slots -> SlotContents]
  BY OwnSlots DEF Subscribe, Unsubscribe, FreeSlotOf, Working, Processes
<1>2. CASE Subscribe(p)
  <2>1. PICK i \in Slots :
          /\ region' = [region EXCEPT ![o].slots[i] = [active |-> 1, generation |-> @.generation + 1]]
          /\ proc' = [proc EXCEPT ![p].handle =
                        [index |-> i, generation |-> Mine(p).slots[i].generation + 1]]
    BY <1>2 DEF Subscribe
  <2> DEFINE c == [active |-> 1, generation |-> region[o].slots[i].generation + 1]
             h == [index |-> i, generation |-> Mine(p).slots[i].generation + 1]
             new == [proc[p] EXCEPT !.handle = h]
  <2>2. c \in SlotContents
    BY <1>1 DEF SlotContents
  <2>3. region' = [region EXCEPT ![o].slots = [region[o].slots EXCEPT ![i] = c]]
    BY <2>1
  <2>4. OnlySlotsChange
    <3> HIDE DEF c
    <3> QED
      BY <1>1, <2>2, <2>3, SlotStored, SlotUpdates
  <2>5. h \in [index : 0 .. MaxSlots, generation : Nat]
    BY <1>1, RegionAssumption DEF SlotContents, Mine, Slots
  <2>6. new \in Records /\ new.pc = proc[p].pc /\ new.object = o /\ new.is_creator = proc[p].is_creator
    BY <1>1, <2>5 DEF Records
  <2>7. proc' = [proc EXCEPT ![p] = new] /\ name' = name /\ history' = history
    BY <1>2, <2>1 DEF Subscribe
  <2> HIDE DEF new
  <2> QED
    BY <1>1, <2>4, <2>6, <2>7, UseStep DEF StructureOK
<1>3. CASE Unsubscribe(p)
  <2> DEFINE new == IF SameGeneration(p, proc[p].handle) THEN [proc[p] EXCEPT !.pc = "freeing"]
                                                         ELSE [proc[p] EXCEPT !.handle = NoHandle]
  <2>1. /\ new \in Records /\ new.pc \in Working
        /\ new.object = o /\ new.is_creator = proc[p].is_creator
    BY <1>1, NoHandleType DEF Records, Working, Labels
  <2>2. /\ proc' = [proc EXCEPT ![p] = new]
        /\ name' = name /\ region' = region
    BY <1>3 DEF Unsubscribe
  <2>3. history \subseteq history' /\ history' \subseteq Situations
    BY <1>1, <1>3 DEF Unsubscribe, Note, Remember, Noted, StructureOK, Situations
  <2> HIDE DEF new
  <2> QED
    BY <1>1, <2>1, <2>2, <2>3, NothingStored, UseStep
<1>4. CASE FreeSlotOf(p)
  <2> DEFINE new == [proc[p] EXCEPT !.pc = "ready", !.handle = NoHandle]
             i == proc[p].handle.index
  <2>1. /\ new \in Records /\ new.pc \in Working
        /\ new.object = o /\ new.is_creator = proc[p].is_creator
    BY <1>1, NoHandleType DEF Records, Working, Labels
  <2>2. /\ proc' = [proc EXCEPT ![p] = new]
        /\ name' = name /\ history' = history
        /\ region' = [region EXCEPT ![o].slots = [region[o].slots EXCEPT ![i].active = 0]]
    BY <1>4 DEF FreeSlotOf, SlotFreed
  <2> HIDE DEF new
  <2>3. OnlySlotsChange
    BY <1>1, <2>2, SlotUpdates, SlotStored
  <2> QED
    BY <1>1, <2>1, <2>2, <2>3, UseStep DEF StructureOK
<1> QED
  BY <1>2, <1>3, <1>4
LEMMA ClearStep ==
  ASSUME RegionInv, ClearAllSubscribers
  PROVE  RegionInv'
<1> DEFINE p == Publisher
           o == proc[Publisher].object
           i == proc[Publisher].slot
<1>1. /\ p \in Processes /\ proc[p] \in Records /\ proc[p].pc \in Working /\ o \in Objects
      /\ StructureOK /\ region[o].slots \in [Slots -> SlotContents]
  BY OwnSlots DEF ClearAllSubscribers, StartClear, ClearActive, BumpGeneration, EndClear, Working, Processes
<1>2. ASSUME NEW line \in {"ready", "clear", "bump"}, NEW slot \in Nat
      PROVE  LET new == [proc[p] EXCEPT !.pc = line, !.slot = slot]
             IN /\ new \in Records /\ new.pc \in Working
                /\ new.object = o /\ new.is_creator = proc[p].is_creator
  BY <1>1 DEF Records, Working, Labels
<1>3. i \in Nat /\ 1 \in Nat /\ i + 1 \in Nat /\ NoSlot \in Nat
  BY <1>1 DEF Records, NoSlot
<1>4. \A k : NoteCleared(k) => history \subseteq history' /\ history' \subseteq Situations
  BY <1>1 DEF NoteCleared, Remember, Noted, StructureOK, Situations
<1>5. CASE StartClear
  <2>1. proc' = [proc EXCEPT ![p] = [proc[p] EXCEPT !.pc = "clear", !.slot = 1]]
    BY <1>5 DEF StartClear
  <2>2. name' = name /\ region' = region /\ history' = history
    BY <1>5 DEF StartClear
  <2> QED
    BY <1>1, <1>2, <1>3, <2>1, <2>2, NothingStored, UseStep DEF StructureOK
<1>6. CASE ClearActive
  <2>1. proc' = [proc EXCEPT ![p] = [proc[p] EXCEPT !.pc = "bump", !.slot = i]]
    BY <1>1, <1>6 DEF ClearActive, StructureOK, Records
  <2>2. region' = [region EXCEPT ![o].slots = [region[o].slots EXCEPT ![i].active = 0]]
    BY <1>6 DEF ClearActive
  <2>3. OnlySlotsChange
    BY <1>1, <2>2, SlotUpdates, SlotStored
  <2>4. name' = name /\ history \subseteq history' /\ history' \subseteq Situations
    BY <1>4, <1>6 DEF ClearActive
  <2> QED
    BY <1>1, <1>2, <1>3, <2>1, <2>3, <2>4, UseStep
<1>7. CASE BumpGeneration
  <2>1. proc' = [proc EXCEPT ![p] = [proc[p] EXCEPT !.pc = "clear", !.slot = i + 1]]
    BY <1>7 DEF BumpGeneration
  <2>2. region' = [region EXCEPT ![o].slots = [region[o].slots EXCEPT ![i].generation = @ + 1]]
    BY <1>7 DEF BumpGeneration
  <2>3. OnlySlotsChange
    BY <1>1, <2>2, SlotUpdates, SlotStored
  <2>4. name' = name /\ history \subseteq history' /\ history' \subseteq Situations
    BY <1>4, <1>7 DEF BumpGeneration
  <2> QED
    BY <1>1, <1>2, <1>3, <2>1, <2>3, <2>4, UseStep
<1>8. CASE EndClear
  <2>1. proc' = [proc EXCEPT ![p] = [proc[p] EXCEPT !.pc = "ready", !.slot = NoSlot]]
    BY <1>8 DEF EndClear
  <2>2. name' = name /\ region' = region /\ history' = history
    BY <1>8 DEF EndClear
  <2> QED
    BY <1>1, <1>2, <1>3, <2>1, <2>2, NothingStored, UseStep DEF StructureOK
<1> QED
  BY <1>5, <1>6, <1>7, <1>8 DEF ClearAllSubscribers

LEMMA ChannelCleanupStep ==
  ASSUME RegionInv, NEW p \in Processes, ChannelCleanup(p)
  PROVE  RegionInv'
<1> DEFINE o == proc[p].object
           i == proc[p].handle.index
           new == [proc[p] EXCEPT !.pc = "unmap", !.handle = NoHandle]
<1>1. /\ proc[p] \in Records /\ proc[p].pc \in Working /\ o \in Objects
      /\ StructureOK /\ region[o].slots \in [Slots -> SlotContents]
  BY OwnSlots DEF ChannelCleanup, Working
<1>2. /\ new \in Records /\ new.pc \in Working
      /\ new.object = o /\ new.is_creator = proc[p].is_creator
  BY <1>1, NoHandleType DEF Records, Working, Labels
<1>3. /\ proc' = [proc EXCEPT ![p] = new]
      /\ name' = name
  BY DEF ChannelCleanup
<1>4. history \subseteq history' /\ history' \subseteq Situations
  BY <1>1 DEF ChannelCleanup, Note, Remember, Noted, StructureOK, Situations
<1>5. \/ region' = region
      \/ region' = [region EXCEPT ![o].slots = [region[o].slots EXCEPT ![i].active = 0]]
  BY DEF ChannelCleanup, SlotFreed
<1> HIDE DEF new
<1>6. OnlySlotsChange
  BY <1>1, <1>5, SlotUpdates, SlotStored, NothingStored
<1> QED
  BY <1>1, <1>2, <1>3, <1>4, <1>6, UseStep

-----------------------------------------------------------------------------
(***************************************************************************)
(* The ways a process leaves the object.                                   *)
(***************************************************************************)
LEMMA LeaveStep ==
  ASSUME RegionInv, NEW p \in Processes,
         GiveUp(p) \/ TruncateFails(p) \/ Fault(p) \/ RingCleanup(p) \/ Crash(p)
  PROVE  RegionInv'
<1>0. StructureOK /\ PlaceOK(p)
  BY DEF RegionInv
<1>1. CASE GiveUp(p) \/ Fault(p)
  BY <1>0, <1>1, StepAway DEF GiveUp, Fault, StructureOK
<1>2. CASE TruncateFails(p)
  <2>1. /\ history \subseteq history' /\ history' \subseteq Situations
        /\ UsedByOthers(p) => "orphaned" \in history'
    BY <1>0, <1>2 DEF TruncateFails, Note, Remember, Noted, StructureOK, Situations
  <2>2. Detach(p, NoObject) /\ proc[p].is_creator
    BY <1>0, <1>2 DEF TruncateFails, PlaceOK
  <2> QED
    BY <2>1, <2>2, StepAway
<1>3. CASE RingCleanup(p)
  <2>1. /\ history \subseteq history' /\ history' \subseteq Situations
        /\ proc[p].is_creator /\ UsedByOthers(p) => "orphaned" \in history'
    BY <1>0, <1>3 DEF RingCleanup, Note, Remember, Noted, StructureOK, Situations
  <2>2. Detach(p, IF proc[p].is_creator THEN NoObject ELSE name)
    BY <1>3 DEF RingCleanup
  <2>3. CASE proc[p].is_creator
    BY <2>1, <2>2, <2>3, StepAway
  <2>4. CASE ~proc[p].is_creator
    BY <2>1, <2>2, <2>4, StepAway
  <2> QED
    BY <2>3, <2>4
<1>4. CASE Crash(p)
  <2>1. history \subseteq history' /\ history' \subseteq Situations
    BY <1>0, <1>4 DEF Crash, Remember, Noted, StructureOK, Situations
  <2>2. Detach(p, name)
    BY <1>4 DEF Crash
  <2> QED
    BY <2>1, <2>2, StepAway
<1> QED
  BY <1>1, <1>2, <1>3, <1>4

-----------------------------------------------------------------------------
(***************************************************************************)
(* Theorems.                                                               *)
(***************************************************************************)
LEMMA RegionInvInit == RegionInit => RegionInv
<1> SUFFICES ASSUME RegionInit PROVE RegionInv
  OBVIOUS
<1>1. BlankRegion \in Regions
  BY DEF BlankRegion, Regions, FreeSlot
<1>2. Outside \in Records
  BY NoHandleType DEF Outside, Records, Labels
<1>3. StructureOK
  BY <1>1, <1>2 DEF StructureOK, RegionInit
<1>4. \A p \in Processes : proc[p] = Outside
  BY DEF RegionInit
<1> QED
  BY <1>3, <1>4
  DEF RegionInv, PlaceOK, HeaderOK, LinkedOK, CreatorsOK, Outside, Working, Attached

LEMMA RegionInvStep == RegionInv /\ [RegionNext]_vars => RegionInv'
<1> SUFFICES ASSUME RegionInv, [RegionNext]_vars PROVE RegionInv'
  OBVIOUS
<1>1. ASSUME NEW p \in Processes, Initialize(p) PROVE RegionInv'
  BY <1>1, OpenStep, CreateStep, InitializeStep, LeaveStep DEF Initialize
<1>2. ASSUME NEW p \in Processes, Cleanup(p) \/ Crash(p) PROVE RegionInv'
  BY <1>2, ChannelCleanupStep, LeaveStep DEF Cleanup
<1>3. ASSUME NEW p \in Subscribers, Subscribe(p) \/ Unsubscribe(p) \/ FreeSlotOf(p) PROVE RegionInv'
  BY <1>3, SubscriberStep
<1>4. CASE UNCHANGED vars
  BY <1>4
  DEF vars, RegionInv, StructureOK, PlaceOK, HeaderOK, Mine, LinkedOK, CreatorsOK, Happened, Attached
<1> QED
  BY <1>1, <1>2, <1>3, <1>4, ClearStep DEF RegionNext

\* The invariant holds in every reachable state of the region.
THEOREM RegionInvariance == RegionSpec => []RegionInv
<1> QED
  BY RegionInvInit, RegionInvStep, PTL DEF RegionSpec

\* Whoever is done with initialize() works on a sized region with a valid header.
THEOREM ReadyRegionsValid == RegionSpec => []ReadyIsValid
<1>1. RegionInv => ReadyIsValid
  BY DEF RegionInv, HeaderOK, ReadyIsValid, Ready, Working
<1> QED
  BY <1>1, RegionInvariance, PTL

\* All users of a topic work on one object, unless a creator went before them.
THEOREM OneRegionForAll == RegionSpec => []UsersShareRegion
<1>1. RegionInv => UsersShareRegion
  BY DEF RegionInv, LinkedOK, PlaceOK, UsersShareRegion, Ready, Attached
<1> QED
  BY <1>1, RegionInvariance, PTL

\* Nobody takes the path from the users of an object but its creator.
THEOREM CreatorsUnlinkTheirOwn == RegionSpec => UnlinksOwn
<1> DEFINE Own ==
      ~Happened("raced") =>
        \A o \in Objects :
          name = o /\ name' = NoObject =>
            \E p \in Processes : proc[p].object = o /\ proc[p].is_creator /\ ~Attached(p)'
<1>1. RegionInv /\ [RegionNext]_vars => [Own]_vars
  <2> SUFFICES ASSUME RegionInv, RegionNext, ~Happened("raced"),
                      NEW o \in Objects, name = o, name' = NoObject
               PROVE  \E p \in Processes : proc[p].object = o /\ proc[p].is_creator /\ ~Attached(p)'
    OBVIOUS
  <2>1. NoObject \notin Objects
    BY RegionAssumption
  <2>2. PICK p \in Processes :
          TruncateFails(p) \/ (RingCleanup(p) /\ proc[p].is_creator)
    <3>1. name' # name
      BY <2>1
    <3>2. ~ClearAllSubscribers
      BY <3>1 DEF ClearAllSubscribers, StartClear, ClearActive, BumpGeneration, EndClear
    <3>3. \A p \in Subscribers : ~Subscribe(p) /\ ~Unsubscribe(p) /\ ~FreeSlotOf(p)
      BY <3>1 DEF Subscribe, Unsubscribe, FreeSlotOf
    <3>4. \A p \in Processes : ~ChannelCleanup(p) /\ ~Crash(p)
      BY <3>1 DEF ChannelCleanup, Crash, Detach
    <3>5. \A p \in Processes : Initialize(p) => TruncateFails(p)
      BY <2>1, <3>1
      DEF Initialize, Open, Create, GiveUp, Truncate, CheckHeader, Fault, ConstructMagic,
          ConstructSlots, Detach
    <3>6. \A p \in Processes : RingCleanup(p) => proc[p].is_creator
      BY <3>1 DEF RingCleanup, Detach
    <3> QED
      BY <3>2, <3>3, <3>4, <3>5, <3>6 DEF RegionNext, Cleanup
  <2>3. proc[p].is_creator /\ proc'[p] = Outside
    BY <2>2 DEF RegionInv, StructureOK, PlaceOK, TruncateFails, RingCleanup, Detach
  <2>4. proc[p].object = o
    BY <2>3 DEF RegionInv, CreatorsOK
  <2> QED
    BY <2>3, <2>4 DEF Attached, Outside
<1> QED
  BY <1>1, RegionInvariance, PTL DEF RegionSpec, UnlinksOwn

-----------------------------------------------------------------------------
(***************************************************************************)
(* Which exchanges have a shared memory object of their own.               *)
(***************************************************************************)
\* A name that is short enough and has no dot keeps its characters in the path.
LEMMA PathOfShortName ==
  ASSUME NEW exchange, Distinguished(exchange),
         Prefix \in Seq(Characters), TopicPrefix \in Seq(Characters), MaxPath \in Nat,
         Underscore \in Characters
  PROVE  LET n == Len(Prefix) + Len(TopicPrefix)
         IN /\ ExchangePath(exchange) \in Seq(Characters)
            /\ Len(ExchangePath(exchange)) = n + Len(exchange)
            /\ \A i \in 1 .. Len(exchange) : ExchangePath(exchange)[n + i] = exchange[i]
<1> DEFINE n == Len(Prefix) + Len(TopicPrefix)
           full == Prefix \o (TopicPrefix \o exchange)
<1>1. exchange \in Seq(Characters) /\ n \in Nat
  BY DEF Distinguished
<1>2. \A i \in 1 .. Len(exchange) : exchange[i] # Dot
  BY DEF Distinguished
<1>3. /\ full \in Seq(Characters)
      /\ Len(full) = n + Len(exchange)
      /\ \A i \in 1 .. Len(exchange) : full[n + i] = exchange[i]
  BY <1>1
<1>4. Len(full) <= MaxPath
  BY <1>1, <1>3 DEF Distinguished
<1> HIDE DEF full, n
<1>5. /\ WithoutDots(full) \in Seq(Characters)
      /\ Len(WithoutDots(full)) = Len(full)
      /\ \A i \in 1 .. Len(full) : full[i] # Dot => WithoutDots(full)[i] = full[i]
  BY <1>3 DEF WithoutDots
<1>6. Shortened(WithoutDots(full), MaxPath) = WithoutDots(full)
  BY <1>3, <1>4, <1>5 DEF Shortened
<1>7. ExchangePath(exchange) = WithoutDots(full)
  BY <1>6 DEF ExchangePath, SharedMemoryPath, TopicForExchange, full
<1>8. \A i \in 1 .. Len(exchange) : n + i \in 1 .. Len(full)
  BY <1>1, <1>3
<1> QED
  BY <1>1, <1>2, <1>3, <1>5, <1>7, <1>8 DEF n

\* getSharedMemoryPath() keeps the rings of two exchanges apart when their names are
\* short enough and have no dots.
THEOREM ExchangesHaveOwnRegions ==
  ASSUME NEW e1, NEW e2, Distinguished(e1), Distinguished(e2),
         Prefix \in Seq(Characters), TopicPrefix \in Seq(Characters), MaxPath \in Nat,
         Underscore \in Characters,
         ExchangePath(e1) = ExchangePath(e2)
  PROVE  e1 = e2
<1> DEFINE n == Len(Prefix) + Len(TopicPrefix)
<1>1. e1 \in Seq(Characters) /\ e2 \in Seq(Characters) /\ n \in Nat
  BY DEF Distinguished
<1>2. n + Len(e1) = n + Len(e2)
  BY PathOfShortName
<1>3. Len(e1) = Len(e2)
  BY <1>1, <1>2
<1>4. \A i \in 1 .. Len(e1) : e1[i] = e2[i]
  BY <1>3, PathOfShortName
<1> QED
  BY <1>1, <1>3, <1>4
=============================================================================
