--------------------------- MODULE RegionSlotsProofs ---------------------------
(***************************************************************************)
(* Theorems about the slots in SharedRegion: who holds one, for how long,  *)
(* and what the end of a subscription, clearAllSubscribers() and crashes   *)
(* do to it, for any number of processes, objects and slots.               *)
(***************************************************************************)
EXTENDS SharedRegionProofs, FiniteSetTheorems

(***************************************************************************)
(* The inductive invariant.                                                *)
(***************************************************************************)
\* The process has a subscription.
Holding(p) == proc[p].handle # NoHandle

SlotOf(p) == Mine(p).slots[proc[p].handle.index]

\* Who may have a handle, and who may clear.
HandleOK(p) ==
  /\ Holding(p) => /\ p \in Subscribers /\ proc[p].pc \in {"ready", "freeing"}
                   /\ proc[p].handle.index \in Slots /\ proc[p].handle.generation \in Nat \ {0}
  /\ proc[p].pc = "freeing" => Holding(p)
  /\ proc[p].pc \in {"clear", "bump"} => p = Publisher
  /\ proc[p].pc = "bump" => proc[p].slot \in Slots

\* clearAllSubscribers() began with generations below the bound.
GenerationsOK ==
  /\ \A o \in Objects, i \in Slots : region[o].slots[i].generation <= MaxGeneration + 1
  /\ proc[Publisher].pc \in {"clear", "bump"} =>
       \A i \in Slots : i >= proc[Publisher].slot => Mine(Publisher).slots[i].generation <= MaxGeneration

\* While processes initialize one after another: nobody creates an object over another's,
\* and nobody works on an object whose header is being made.
Building(p) ==
  \/ proc[p].pc \in {"truncate", "construct", "free_slots"}
  \/ proc[p].pc = "map" /\ proc[p].is_creator

AloneOK ==
  ~Happened("overlap") =>
    /\ \A p, q \in Processes : Initializing(p) /\ Initializing(q) => p = q
    /\ \A p \in Processes : proc[p].pc = "create" => name = NoObject
    /\ \A p, q \in Processes :
         Building(p) /\ proc[q].pc \in Working => proc[q].object # proc[p].object

\* The generation tells the owners of a slot apart.
OwnersOK ==
  ~Happened("overlap") =>
    /\ \A p \in Processes : Holding(p) => proc[p].handle.generation <= SlotOf(p).generation
    /\ \A p, q \in Processes :
         /\ p # q /\ Holding(p) /\ Holding(q)
         /\ proc[p].object = proc[q].object /\ proc[p].handle.index = proc[q].handle.index
         => proc[p].handle.generation # proc[q].handle.generation

\* The slot is still what the process made of it.
Kept(p) ==
  SlotOf(p).active = 1 /\ SlotOf(p).generation = proc[p].handle.generation

KeptOK ==
  ~Happened("overlap") /\ ~Happened("wiped") => \A p \in Processes : Holding(p) => Kept(p)

\* Nothing happens to the slot between the test of unregisterSubscriber() and its store.
FreeingOK ==
  ~Happened("overlap") /\ ~Happened("torn") =>
    \A p \in Processes : proc[p].pc = "freeing" => Kept(p)

ActiveHeld ==
  ~Happened("overlap") /\ ~Happened("leaked") /\ ~Happened("wiped") =>
    \A o \in Objects, i \in Slots :
      region[o].slots[i].active = 1 =>
        \E p \in Subscribers : proc[p].object = o /\ proc[p].handle.index = i

SlotInv ==
  /\ \A p \in Processes : HandleOK(p)
  /\ GenerationsOK
  /\ AloneOK
  /\ OwnersOK
  /\ KeptOK
  /\ FreeingOK
  /\ ActiveHeld
  /\ FailureLeavesNoTrap

\* A holder has an object and a slot.
LEMMA HolderTypes ==
  ASSUME RegionInv, NEW p \in Processes, HandleOK(p), Holding(p)
  PROVE  /\ proc[p].object \in Objects /\ proc[p].pc \in Working
         /\ proc[p].handle.index \in Slots /\ proc[p].handle.generation \in Nat \ {0}
         /\ region[proc[p].object].slots \in [Slots -> SlotContents]
         /\ SlotOf(p) = region[proc[p].object].slots[proc[p].handle.index]
         /\ SlotOf(p) \in SlotContents
<1>1. proc[p].pc \in Working /\ proc[p].handle.index \in Slots
  BY DEF HandleOK, Working
<1> QED
  BY <1>1, OwnSlots DEF HandleOK, SlotOf, Mine

\* The slots of every object.
LEMMA SlotTypes ==
  ASSUME RegionInv, NEW o \in Objects, NEW i \in Slots
  PROVE  /\ region[o].slots \in [Slots -> SlotContents]
         /\ region[o].slots[i].active \in {0, 1} /\ region[o].slots[i].generation \in Nat
<1>1. region[o] \in Regions
  BY DEF RegionInv, StructureOK
<1> QED
  BY <1>1 DEF Regions, SlotContents

-----------------------------------------------------------------------------
\* A step of a process beside the slots and subscriptions.
Beside(p) ==
  /\ \A o \in Objects : region'[o].slots = region[o].slots
  /\ \A q \in Processes \ {p} : proc'[q] = proc[q]
  /\ ~Holding(p) /\ proc'[p].handle = proc[p].handle /\ proc'[p].pc # "freeing"
  /\ history \subseteq history'

\* Such a step leaves alone what is said about the holders of slots.
LEMMA BesideStep ==
  ASSUME RegionInv, SlotInv, NEW p \in Processes, Beside(p)
  PROVE  OwnersOK' /\ KeptOK' /\ FreeingOK' /\ ActiveHeld'
<1> USE DEF SlotInv
<1>1. ASSUME NEW q \in Processes, Holding(q)'
      PROVE  /\ q # p /\ Holding(q) /\ proc'[q] = proc[q] /\ SlotOf(q)' = SlotOf(q)
             /\ proc[q].object \in Objects
  <2>1. q # p /\ Holding(q) /\ proc'[q] = proc[q]
    BY <1>1 DEF Beside, Holding
  <2> QED
    BY <2>1, HolderTypes DEF Beside, SlotOf, Mine
<1>2. OwnersOK'
  BY <1>1 DEF OwnersOK, Happened, Beside
<1>3. KeptOK'
  BY <1>1 DEF KeptOK, Kept, Happened, Beside
<1>4. FreeingOK'
  <2>1. ASSUME NEW q \in Processes, proc'[q].pc = "freeing"
        PROVE  proc[q].pc = "freeing" /\ Holding(q)'
    BY <2>1 DEF Beside, HandleOK, Holding
  <2> QED
    BY <1>1, <2>1 DEF FreeingOK, Kept, Happened, Beside
<1>5. ActiveHeld'
  <2>1. ASSUME NEW q \in Subscribers PROVE q \in Processes
    BY DEF Processes
  <2>2. ASSUME NEW q \in Subscribers, NEW i \in Slots, proc[q].handle.index = i
        PROVE  proc'[q] = proc[q]
    <3>1. 0 \notin Slots
      BY DEF Slots
    <3> QED
      BY <2>1, <2>2, <3>1 DEF Beside, Holding, NoHandle, NoSlot
  <2> QED
    BY <2>2 DEF ActiveHeld, Happened, Beside
<1> QED
  BY <1>2, <1>3, <1>4, <1>5

\* A process that leaves; what it left behind is free or was remembered.
LEMMA AwayStep ==
  ASSUME RegionInv, SlotInv, NEW p \in Processes, NEW n, Detach(p, n),
         history \subseteq history', Holding(p) => "leaked" \in history'
  PROVE  /\ \A q \in Processes : HandleOK(q)'
         /\ GenerationsOK' /\ OwnersOK' /\ KeptOK' /\ FreeingOK' /\ ActiveHeld'
<1> USE DEF SlotInv
<1>p. /\ proc'[p] = Outside
      /\ \A q \in Processes \ {p} : proc'[q] = proc[q]
  BY DEF Detach, RegionInv, StructureOK
<1>r. \A o \in Objects : \/ region'[o] = region[o]
                         \/ /\ region'[o] = BlankRegion
                            /\ \A q \in Processes \ {p} : proc[q].object # o
  BY DEF Detach
<1>o. Outside.handle = NoHandle /\ Outside.pc = "out"
  BY DEF Outside
<1>1. ASSUME NEW q \in Processes, Holding(q)'
      PROVE  /\ q # p /\ Holding(q) /\ proc'[q] = proc[q] /\ SlotOf(q)' = SlotOf(q)
  <2>1. q # p /\ Holding(q) /\ proc'[q] = proc[q]
    BY <1>1, <1>p, <1>o DEF Holding
  <2> QED
    BY <1>r, <2>1, HolderTypes DEF SlotOf, Mine
<1>2. OwnersOK'
  BY <1>1 DEF OwnersOK, Happened
<1>3. KeptOK'
  BY <1>1 DEF KeptOK, Kept, Happened
<1>6. ASSUME NEW q \in Processes PROVE HandleOK(q)'
  <2>1. CASE q = p
    BY <1>p, <1>o, <2>1 DEF HandleOK, Holding
  <2>2. CASE q # p
    BY <1>p, <2>2 DEF HandleOK, Holding
  <2> QED
    BY <2>1, <2>2
<1>4. FreeingOK'
  <2>1. ASSUME NEW q \in Processes, proc'[q].pc = "freeing"
        PROVE  proc[q].pc = "freeing" /\ Holding(q)'
    BY <2>1, <1>p, <1>o DEF HandleOK, Holding
  <2> QED
    BY <1>1, <2>1 DEF FreeingOK, Kept, Happened
<1>b. \A i \in Slots : BlankRegion.slots[i].active = 0 /\ BlankRegion.slots[i].generation = 0
  BY DEF BlankRegion, FreeSlot
<1>5. ActiveHeld'
  <2> SUFFICES ASSUME ~Happened("overlap")', ~Happened("leaked")', ~Happened("wiped")',
                      NEW o \in Objects, NEW i \in Slots, region'[o].slots[i].active = 1
               PROVE  \E q \in Subscribers : proc'[q].object = o /\ proc'[q].handle.index = i
    BY DEF ActiveHeld
  <2>1. region'[o] = region[o]
    BY <1>r, <1>b
  <2>2. PICK q \in Subscribers : proc[q].object = o /\ proc[q].handle.index = i
    BY <2>1 DEF ActiveHeld, Happened
  <2>3. q # p
    <3>1. ~Holding(p) /\ 0 \notin Slots
      BY DEF Happened, Slots
    <3> QED
      BY <2>2, <3>1 DEF Holding, NoHandle, NoSlot
  <2> QED
    BY <1>p, <2>2, <2>3 DEF Processes
<1>7. GenerationsOK'
  <2>1. \A o \in Objects, i \in Slots : region'[o].slots[i].generation <= MaxGeneration + 1
    BY <1>r, <1>b, RegionAssumption DEF GenerationsOK
  <2>2. ASSUME proc'[Publisher].pc \in {"clear", "bump"}, NEW i \in Slots, i >= proc'[Publisher].slot
        PROVE  Mine(Publisher)'.slots[i].generation <= MaxGeneration
    <3>1. Publisher # p /\ proc'[Publisher] = proc[Publisher] /\ Publisher \in Processes
      BY <1>p, <1>o, <2>2 DEF Processes
    <3>2. proc[Publisher].object \in Objects
      BY <2>2, <3>1, OwnSlots DEF Working
    <3> QED
      BY <1>r, <2>2, <3>1, <3>2 DEF GenerationsOK, Mine
  <2> QED
    BY <2>1, <2>2 DEF GenerationsOK
<1> QED
  BY <1>2, <1>3, <1>4, <1>5, <1>6, <1>7

-----------------------------------------------------------------------------
(***************************************************************************)
(* The steps of initialize() and of the processes that leave: who is alone. *)
(***************************************************************************)
\* A step of a process that is not initializing afterwards.
LEMMA AloneOutside ==
  ASSUME SlotInv, NEW p \in Processes, \A q \in Processes \ {p} : proc'[q] = proc[q],
         ~Initializing(p)', name' \in {name, NoObject}, history \subseteq history',
         proc'[p].pc \in Working => /\ proc[p].pc \in Working
                                    /\ proc'[p].object = proc[p].object
  PROVE  AloneOK'
<1> SUFFICES ASSUME ~Happened("overlap")' PROVE AloneOK'
  BY DEF AloneOK
<1>1. ~Happened("overlap") /\ AloneOK
  BY DEF SlotInv, Happened
<1>2. \A q \in Processes : Initializing(q)' => q # p /\ Initializing(q) /\ proc'[q] = proc[q]
  BY DEF Initializing
<1>3. \A q \in Processes : Building(q)' => q # p /\ Building(q) /\ proc'[q] = proc[q]
  BY DEF Building, Initializing
<1>4. \A q \in Processes : proc'[q].pc \in Working => /\ proc[q].pc \in Working
                                                      /\ proc'[q].object = proc[q].object
  OBVIOUS
<1>5. \A q \in Processes : proc'[q].pc = "create" => name' = NoObject
  BY <1>1, <1>2 DEF AloneOK, Initializing
<1> QED
  BY <1>1, <1>2, <1>3, <1>4, <1>5 DEF AloneOK

\* A step of initialize() after shm_open(O_RDWR).
LEMMA AloneInside ==
  ASSUME SlotInv, NEW p \in Processes, \A q \in Processes \ {p} : proc'[q] = proc[q],
         Initializing(p), proc'[p].pc # "create", history \subseteq history',
         ~Happened("overlap") /\ Building(p)' =>
           \A q \in Processes \ {p} : proc[q].pc \in Working => proc[q].object # proc'[p].object
  PROVE  AloneOK'
<1> SUFFICES ASSUME ~Happened("overlap")' PROVE AloneOK'
  BY DEF AloneOK
<1>1. ~Happened("overlap") /\ AloneOK
  BY DEF SlotInv, Happened
<1>2. \A q \in Processes : Initializing(q)' => q = p
  BY <1>1 DEF AloneOK, Initializing
<1>3. \A q \in Processes : Building(q)' => Initializing(q)'
  BY DEF Building, Initializing
<1>4. Building(p)' => proc'[p].pc \notin Working
  BY DEF Building, Working
<1>5. \A q \in Processes : proc'[q].pc = "create" => FALSE
  BY <1>2 DEF Initializing
<1> QED
  BY <1>1, <1>2, <1>3, <1>4, <1>5 DEF AloneOK

\* An object without a size stays the business of the process that is giving it one.
LEMMA TrapStep ==
  ASSUME RegionInv, SlotInv, NEW p \in Processes, \A q \in Processes \ {p} : proc'[q] = proc[q],
         name' \in {name, NoObject}, history \subseteq history',
         name' # NoObject /\ region[name].sized => region'[name].sized,
         name' # NoObject /\ proc[p].pc = "truncate" /\ proc[p].object = name /\ ~region[name].sized =>
           \/ proc'[p].pc = "truncate" /\ proc'[p].object = name
           \/ region'[name].sized
           \/ "abandoned" \in history'
  PROVE  FailureLeavesNoTrap'
<1> SUFFICES ASSUME name' # NoObject, ~region'[name'].sized, "abandoned" \notin history'
             PROVE  \E q \in Processes : proc'[q].pc = "truncate" /\ proc'[q].object = name'
  BY DEF FailureLeavesNoTrap, Happened
<1>1. name' = name /\ ~region[name].sized /\ "abandoned" \notin history
  OBVIOUS
<1>2. PICK q \in Processes : proc[q].pc = "truncate" /\ proc[q].object = name
  BY <1>1 DEF SlotInv, FailureLeavesNoTrap, Happened
<1> QED
  BY <1>1, <1>2

\* Handles, for a step beside the slots.
LEMMA HandleBeside ==
  ASSUME RegionInv, SlotInv, NEW p \in Processes, Beside(p),
         proc'[p].pc \in {"clear", "bump"} => p = Publisher,
         proc'[p].pc = "bump" => proc'[p].slot \in Slots
  PROVE  \A q \in Processes : HandleOK(q)'
<1> TAKE q \in Processes
<1>1. CASE q = p
  BY <1>1 DEF HandleOK, Holding, Beside
<1>2. CASE q # p
  BY <1>2 DEF SlotInv, HandleOK, Holding, Beside
<1> QED
  BY <1>1, <1>2

\* The bound on generations, for steps that clear nothing and count none.
LEMMA GenerationsBeside ==
  ASSUME RegionInv, SlotInv, NEW p \in Processes, Beside(p),
         proc'[p].pc \notin {"clear", "bump"}
  PROVE  GenerationsOK'
<1>1. \A o \in Objects, i \in Slots : region'[o].slots[i].generation <= MaxGeneration + 1
  BY DEF SlotInv, GenerationsOK, Beside
<1>2. ASSUME proc'[Publisher].pc \in {"clear", "bump"}, NEW i \in Slots, i >= proc'[Publisher].slot
      PROVE  Mine(Publisher)'.slots[i].generation <= MaxGeneration
  <2>1. Publisher # p /\ proc'[Publisher] = proc[Publisher] /\ Publisher \in Processes
    BY <1>2 DEF Processes, Beside
  <2>2. proc[Publisher].object \in Objects
    BY <1>2, <2>1, OwnSlots DEF Working
  <2> QED
    BY <1>2, <2>1, <2>2 DEF SlotInv, GenerationsOK, Mine, Beside
<1> QED
  BY <1>1, <1>2 DEF GenerationsOK

\* shm_open(O_RDWR).
LEMMA OpenSlots ==
  ASSUME RegionInv, SlotInv, NEW p \in Processes, Open(p)
  PROVE  SlotInv'
<1> DEFINE new == IF name = NoObject THEN [Outside EXCEPT !.pc = "create"]
                                     ELSE [Outside EXCEPT !.pc = "map", !.object = name]
<1>1. /\ proc'[p] = new /\ \A q \in Processes \ {p} : proc'[q] = proc[q]
      /\ name' = name /\ region' = region /\ proc[p].pc = "out"
      /\ history \subseteq history'
      /\ "overlap" \notin history' => \A q \in Processes : ~Initializing(q)
  BY DEF Open, Note, Remember, Noted, RegionInv, StructureOK
<1>2. /\ new.handle = NoHandle /\ ~new.is_creator /\ new.object = name
      /\ new.pc = IF name = NoObject THEN "create" ELSE "map"
  BY DEF Outside
<1>3. ~Holding(p)
  BY <1>1 DEF SlotInv, HandleOK
<1> HIDE DEF new
<1>4. Beside(p) /\ proc'[p].pc \notin {"clear", "bump"}
  BY <1>1, <1>2, <1>3 DEF Beside, Holding
<1>5. AloneOK'
  <2> SUFFICES ASSUME ~Happened("overlap")' PROVE AloneOK'
    BY DEF AloneOK
  <2>1. \A q \in Processes : Initializing(q)' => q = p
    BY <1>1 DEF Initializing, Happened
  <2>2. \A q \in Processes : ~Building(q)'
    <3>1. ~Building(p)'
      BY <1>1, <1>2 DEF Building
    <3>2. \A q \in Processes : Building(q)' => Initializing(q)'
      BY DEF Building, Initializing
    <3> QED
      BY <2>1, <3>1, <3>2
  <2>3. \A q \in Processes : proc'[q].pc = "create" => name' = NoObject
    BY <1>1, <1>2, <2>1 DEF Initializing
  <2> QED
    BY <2>1, <2>2, <2>3 DEF AloneOK
<1>6. FailureLeavesNoTrap'
  BY <1>1, TrapStep
<1> QED
  BY <1>4, <1>5, <1>6, BesideStep, HandleBeside, GenerationsBeside DEF SlotInv

\* shm_open(O_CREAT | O_RDWR).
LEMMA CreateSlots ==
  ASSUME RegionInv, SlotInv, NEW p \in Processes, Create(p)
  PROVE  SlotInv'
<1>1. PICK o \in Objects :
        /\ IF name = NoObject THEN ~InUse(o) ELSE o = name
        /\ name' = o
        /\ proc' = [proc EXCEPT ![p] = [@ EXCEPT !.pc = "truncate", !.object = o, !.is_creator = TRUE]]
  BY DEF Create
<1> DEFINE new == [proc[p] EXCEPT !.pc = "truncate", !.object = o, !.is_creator = TRUE]
<1>2. /\ proc'[p] = new /\ \A q \in Processes \ {p} : proc'[q] = proc[q]
      /\ region' = region /\ proc[p].pc = "create" /\ history \subseteq history'
  BY <1>1 DEF Create, Note, Remember, Noted, RegionInv, StructureOK
<1>3. new.handle = proc[p].handle /\ new.pc = "truncate" /\ new.object = o
  BY DEF RegionInv, StructureOK, Records
<1>4. ~Holding(p)
  BY <1>2 DEF SlotInv, HandleOK
<1> HIDE DEF new
<1>5. Beside(p) /\ proc'[p].pc \notin {"clear", "bump"}
  BY <1>2, <1>3, <1>4 DEF Beside
<1>6. AloneOK'
  <2>1. ASSUME ~Happened("overlap"), NEW q \in Processes \ {p}, proc[q].pc \in Working
        PROVE  proc[q].object # proc'[p].object
    <3>1. name = NoObject
      BY <1>2, <2>1 DEF SlotInv, AloneOK
    <3> QED
      BY <1>1, <1>2, <1>3, <3>1 DEF InUse
  <2>2. Initializing(p) /\ proc'[p].pc # "create"
    BY <1>2, <1>3 DEF Initializing
  <2> QED
    BY <1>2, <2>1, <2>2, AloneInside
<1>7. FailureLeavesNoTrap'
  BY <1>1, <1>2, <1>3 DEF FailureLeavesNoTrap
<1> QED
  BY <1>5, <1>6, <1>7, BesideStep, HandleBeside, GenerationsBeside DEF SlotInv

-----------------------------------------------------------------------------
(***************************************************************************)
(* initialize() after the object is there, and leaving it.                 *)
(***************************************************************************)
\* The steps that size the object, find the header valid or not, and make it valid.
LEMMA HeaderSlots ==
  ASSUME RegionInv, SlotInv, NEW p \in Processes,
         Truncate(p) \/ CheckHeader(p) \/ ConstructMagic(p)
  PROVE  SlotInv'
<1> DEFINE o == proc[p].object
<1>1. /\ o \in Objects /\ proc[p] \in Records /\ region[o] \in Regions
      /\ region \in [Objects -> Regions] /\ proc \in [Processes -> Records]
      /\ Initializing(p) /\ name' = name /\ history' = history
  BY OwnObject
  DEF Truncate, CheckHeader, ConstructMagic, Mine, RegionInv, StructureOK, Initializing
<1>2. /\ \A q \in Processes \ {p} : proc'[q] = proc[q]
      /\ proc'[p].handle = proc[p].handle
      /\ proc'[p].object = o /\ proc'[p].is_creator = proc[p].is_creator
      /\ proc'[p].pc \in {"map", "construct", "free_slots", "ready"}
      /\ \A x \in Objects : /\ region'[x].slots = region[x].slots
                            /\ region[x].sized => region'[x].sized
  <2>1. CASE Truncate(p)
    BY <1>1, <2>1 DEF Truncate, Records, Regions
  <2>2. CASE CheckHeader(p)
    BY <1>1, <2>2 DEF CheckHeader, Records
  <2>3. CASE ConstructMagic(p)
    BY <1>1, <2>3 DEF ConstructMagic, Records, Regions
  <2> QED
    BY <2>1, <2>2, <2>3
<1>3. ~Holding(p)
  BY <1>1 DEF SlotInv, HandleOK, Initializing
<1>4. Beside(p) /\ proc'[p].pc \notin {"clear", "bump"}
  BY <1>1, <1>2, <1>3 DEF Beside
<1>5. AloneOK'
  <2>1. ASSUME ~Happened("overlap"), Building(p)', NEW q \in Processes \ {p}, proc[q].pc \in Working
        PROVE  proc[q].object # proc'[p].object
    <3>1. CASE Building(p)
      BY <1>2, <2>1, <3>1 DEF SlotInv, AloneOK
    <3>2. CASE ~Building(p)
      <4>1. CheckHeader(p) /\ ~Mine(p).magic
        <5>1. CheckHeader(p) /\ ~proc[p].is_creator
          BY <3>2 DEF Truncate, CheckHeader, ConstructMagic, Building
        <5>2. Mine(p).magic => proc'[p].pc = "ready"
          BY <1>1, <5>1 DEF CheckHeader, Records
        <5> QED
          BY <2>1, <5>1, <5>2 DEF Building
      <4>2. Mine(q).magic
        BY <2>1 DEF RegionInv, HeaderOK
      <4> QED
        BY <1>2, <4>1, <4>2 DEF Mine
    <3> QED
      BY <3>1, <3>2
  <2> QED
    BY <1>1, <1>2, <2>1, AloneInside
<1>6. FailureLeavesNoTrap'
  <2>1. proc[p].pc = "truncate" => region'[o].sized
    BY <1>1 DEF Truncate, CheckHeader, ConstructMagic, Regions
  <2>2. name # NoObject => name \in Objects
    BY DEF RegionInv, StructureOK
  <2> QED
    BY <1>1, <1>2, <2>1, <2>2, TrapStep
<1> QED
  BY <1>4, <1>5, <1>6, BesideStep, HandleBeside, GenerationsBeside DEF SlotInv

\* The slots of a new header; while processes initialize one after another, nobody has
\* one of them.
LEMMA ConstructSlotsStep ==
  ASSUME RegionInv, SlotInv, NEW p \in Processes, ConstructSlots(p)
  PROVE  SlotInv'
<1> USE DEF SlotInv
<1> DEFINE o == proc[p].object
<1>1. /\ o \in Objects /\ proc[p] \in Records /\ region[o] \in Regions
      /\ region \in [Objects -> Regions] /\ proc \in [Processes -> Records]
      /\ Initializing(p) /\ proc[p].pc = "free_slots" /\ name' = name /\ history' = history
  BY OwnObject
  DEF ConstructSlots, Mine, RegionInv, StructureOK, Initializing
<1>2. /\ \A q \in Processes \ {p} : proc'[q] = proc[q]
      /\ proc'[p].handle = proc[p].handle /\ proc'[p].pc = "ready"
      /\ proc'[p].object = o
      /\ region'[o].slots = [i \in Slots |-> FreeSlot]
      /\ \A x \in Objects : /\ x # o => region'[x].slots = region[x].slots
                            /\ region'[x].sized = region[x].sized
  BY <1>1 DEF ConstructSlots, Records, Regions
<1>3. \A i \in Slots : region'[o].slots[i].active = 0 /\ region'[o].slots[i].generation = 0
  BY <1>2 DEF FreeSlot
<1>4. ~Holding(p) /\ ~Holding(p)'
  BY <1>1, <1>2 DEF HandleOK, Initializing, Holding
<1>5. ASSUME ~Happened("overlap"), NEW q \in Processes, Holding(q)'
      PROVE  /\ q # p /\ Holding(q) /\ proc'[q] = proc[q] /\ SlotOf(q)' = SlotOf(q)
  <2>1. q # p /\ Holding(q) /\ proc'[q] = proc[q]
    BY <1>2, <1>4, <1>5 DEF Holding
  <2>2. proc[q].object # o /\ proc[q].object \in Objects
    BY <1>1, <1>5, <2>1, HolderTypes DEF AloneOK, Building
  <2> QED
    BY <1>2, <2>1, <2>2 DEF SlotOf, Mine
<1>6. OwnersOK'
  BY <1>1, <1>5 DEF OwnersOK, Happened
<1>7. KeptOK'
  BY <1>1, <1>5 DEF KeptOK, Kept, Happened
<1>8. FreeingOK'
  <2>1. ASSUME NEW q \in Processes, proc'[q].pc = "freeing"
        PROVE  proc[q].pc = "freeing" /\ Holding(q)'
    BY <1>2, <2>1 DEF HandleOK, Holding
  <2> QED
    BY <1>1, <1>5, <2>1 DEF FreeingOK, Kept, Happened
<1>9. ActiveHeld'
  <2> SUFFICES ASSUME ~Happened("overlap")', ~Happened("leaked")', ~Happened("wiped")',
                      NEW x \in Objects, NEW i \in Slots, region'[x].slots[i].active = 1
               PROVE  \E q \in Subscribers : proc'[q].object = x /\ proc'[q].handle.index = i
    BY DEF ActiveHeld
  <2>1. x # o /\ region[x].slots[i].active = 1
    BY <1>2, <1>3
  <2>2. PICK q \in Subscribers : proc[q].object = x /\ proc[q].handle.index = i
    BY <1>1, <2>1 DEF ActiveHeld, Happened
  <2> QED
    BY <1>2, <2>1, <2>2 DEF Processes
<1>10. ASSUME NEW q \in Processes PROVE HandleOK(q)'
  <2>1. CASE q = p
    BY <1>2, <1>4, <2>1 DEF HandleOK
  <2>2. CASE q # p
    BY <1>2, <2>2 DEF HandleOK, Holding
  <2> QED
    BY <2>1, <2>2
<1>11. GenerationsOK'
  <2>1. ASSUME NEW x \in Objects, NEW i \in Slots
        PROVE  region'[x].slots[i].generation <= MaxGeneration + 1
    BY <1>2, <1>3, RegionAssumption DEF GenerationsOK
  <2>2. ASSUME proc'[Publisher].pc \in {"clear", "bump"}, NEW i \in Slots, i >= proc'[Publisher].slot
        PROVE  Mine(Publisher)'.slots[i].generation <= MaxGeneration
    <3>1. Publisher # p /\ proc'[Publisher] = proc[Publisher] /\ Publisher \in Processes
      BY <1>2, <2>2 DEF Processes
    <3>2. proc[Publisher].object \in Objects
      BY <2>2, <3>1, OwnSlots DEF Working
    <3> QED
      BY <1>2, <1>3, <2>2, <3>1, <3>2, RegionAssumption DEF GenerationsOK, Mine
  <2> QED
    BY <2>1, <2>2 DEF GenerationsOK
<1>12. AloneOK'
  <2>1. ~Building(p)'
    BY <1>2 DEF Building
  <2> QED
    BY <1>1, <1>2, <2>1, AloneInside
<1>13. FailureLeavesNoTrap'
  <2>1. name # NoObject => name \in Objects
    BY DEF RegionInv, StructureOK
  <2> QED
    BY <1>1, <1>2, <2>1, TrapStep
<1> QED
  BY <1>6, <1>7, <1>8, <1>9, <1>10, <1>11, <1>12, <1>13

\* The ways a process leaves.
LEMMA LeaveSlots ==
  ASSUME RegionInv, SlotInv, NEW p \in Processes,
         GiveUp(p) \/ TruncateFails(p) \/ Fault(p) \/ RingCleanup(p) \/ Crash(p)
  PROVE  SlotInv'
<1>1. PICK n \in {name, NoObject} : Detach(p, n)
  BY DEF GiveUp, TruncateFails, Fault, RingCleanup, Crash
<1>2. /\ name' = n /\ proc'[p] = Outside /\ \A q \in Processes \ {p} : proc'[q] = proc[q]
      /\ \A o \in Objects : o = n => region'[o] = region[o]
  BY <1>1 DEF Detach, RegionInv, StructureOK
<1>3. history \subseteq history'
  BY DEF GiveUp, TruncateFails, Fault, RingCleanup, Crash, Note, Remember
<1>4. Holding(p) => "leaked" \in history'
  <2>1. CASE Crash(p)
    BY <2>1 DEF Crash, Remember, Noted, Holding
  <2>2. CASE GiveUp(p) \/ TruncateFails(p) \/ Fault(p) \/ RingCleanup(p)
    BY <2>2 DEF GiveUp, TruncateFails, Fault, RingCleanup, SlotInv, HandleOK
  <2> QED
    BY <2>1, <2>2
<1>5. AloneOK'
  <2>1. ~Initializing(p)' /\ proc'[p].pc \notin Working
    BY <1>2 DEF Initializing, Outside, Working
  <2> QED
    BY <1>2, <1>3, <2>1, AloneOutside
<1>6. FailureLeavesNoTrap'
  <2>1. name' # NoObject => name' = name /\ name \in Objects /\ region'[name] = region[name]
    BY <1>2 DEF RegionInv, StructureOK
  <2>2. CASE Crash(p)
    <3>1. proc[p].pc = "truncate" /\ ~Mine(p).sized => "abandoned" \in history'
      BY <2>2 DEF Crash, Remember, Noted
    <3> QED
      BY <1>2, <1>3, <2>1, <3>1, TrapStep DEF Mine
  <2>3. CASE TruncateFails(p)
    BY <2>3 DEF TruncateFails, Detach, FailureLeavesNoTrap
  <2>4. CASE GiveUp(p) \/ Fault(p) \/ RingCleanup(p)
    <3>1. proc[p].pc # "truncate"
      BY <2>4 DEF GiveUp, Fault, RingCleanup
    <3> QED
      BY <1>2, <1>3, <2>1, <3>1, TrapStep
  <2> QED
    BY <2>2, <2>3, <2>4
<1> QED
  BY <1>1, <1>3, <1>4, <1>5, <1>6, AwayStep DEF SlotInv

-----------------------------------------------------------------------------
(***************************************************************************)
(* The use of the region: subscribe().                                     *)
(***************************************************************************)
\* A step of a process that works on its object, and goes on or ends with it.
WorkStep(p) ==
  /\ \A q \in Processes \ {p} : proc'[q] = proc[q]
  /\ proc[p].pc \in Working /\ proc'[p].pc \in Working
  /\ proc'[p].object = proc[p].object
  /\ name' = name /\ history \subseteq history'
  /\ \A o \in Objects : region'[o].sized = region[o].sized

\* A step of a process at work begins no initialize().
LEMMA WorkAlone ==
  ASSUME RegionInv, SlotInv, NEW p \in Processes, WorkStep(p)
  PROVE  AloneOK' /\ FailureLeavesNoTrap'
<1>1. ~Initializing(p)' /\ proc[p].pc # "truncate"
  BY DEF WorkStep, Initializing, Working
<1>2. name # NoObject => name \in Objects
  BY DEF RegionInv, StructureOK
<1>3. AloneOK'
  BY <1>1, AloneOutside DEF WorkStep
<1> QED
  BY <1>1, <1>2, <1>3, TrapStep DEF WorkStep

\* It leaves the handles of the others alone.
LEMMA OtherHandles ==
  ASSUME SlotInv, NEW p \in Processes, WorkStep(p), HandleOK(p)'
  PROVE  \A q \in Processes : HandleOK(q)'
<1> TAKE q \in Processes
<1>1. CASE q = p
  BY <1>1
<1>2. CASE q # p
  BY <1>2 DEF SlotInv, HandleOK, Holding, WorkStep
<1> QED
  BY <1>1, <1>2

\* What is known of the slots while a subscriber works on them.
LEMMA SubscribeSlots ==
  ASSUME RegionInv, SlotInv, NEW p \in Subscribers, Subscribe(p)
  PROVE  SlotInv'
<1> USE DEF SlotInv
<1> DEFINE o == proc[p].object
<1>1. /\ p \in Processes /\ p # Publisher /\ proc[p] \in Records /\ o \in Objects
      /\ region[o].slots \in [Slots -> SlotContents] /\ region \in [Objects -> Regions]
      /\ proc \in [Processes -> Records]
      /\ name' = name /\ history' = history /\ proc[p].pc = "ready" /\ ~Holding(p)
  BY OwnSlots, RegionAssumption
  DEF Subscribe, Working, Processes, RegionInv, StructureOK, Holding
<1>2. PICK i \in Slots :
        /\ Mine(p).slots[i].active = 0
        /\ Mine(p).slots[i].generation < MaxGeneration
        /\ region' = [region EXCEPT ![o].slots[i] = [active |-> 1, generation |-> @.generation + 1]]
        /\ proc' = [proc EXCEPT ![p].handle =
                      [index |-> i, generation |-> Mine(p).slots[i].generation + 1]]
  BY DEF Subscribe
<1> DEFINE g == region[o].slots[i].generation
           h == [index |-> i, generation |-> g + 1]
<1>3. /\ g \in Nat /\ region[o].slots[i].active = 0 /\ g < MaxGeneration
      /\ region[o].slots[i].generation = g
  BY <1>1, <1>2, SlotTypes DEF Mine
<1>4. /\ \A q \in Processes \ {p} : proc'[q] = proc[q]
      /\ proc'[p].handle = h /\ proc'[p].pc = "ready" /\ proc'[p].object = o
  BY <1>1, <1>2 DEF Records, Mine
<1>5. /\ region'[o].slots[i].active = 1 /\ region'[o].slots[i].generation = g + 1
      /\ \A x \in Objects, j \in Slots : x # o \/ j # i => region'[x].slots[j] = region[x].slots[j]
      /\ \A x \in Objects : region'[x].sized = region[x].sized
  <2>1. region' = [region EXCEPT ![o].slots[i] = [active |-> 1, generation |-> g + 1]]
    BY <1>2
  <2> HIDE DEF o, g
  <2>2. region'[o].slots = [region[o].slots EXCEPT ![i] = [active |-> 1, generation |-> g + 1]]
    BY <1>1, <2>1 DEF Regions
  <2>3. \A x \in Objects : region'[x].sized = region[x].sized /\ (x # o => region'[x] = region[x])
    BY <1>1, <2>1 DEF Regions
  <2> QED
    BY <1>1, <2>2, <2>3
<1>w. WorkStep(p)
  BY <1>1, <1>4, <1>5 DEF WorkStep, Working
<1>6. h.index = i /\ h.generation = g + 1 /\ h # NoHandle
  BY <1>3 DEF NoHandle, NoSlot, Slots
<1> HIDE DEF o, g, h
<1>7. HandleOK(p)'
  BY <1>1, <1>3, <1>4, <1>6 DEF HandleOK, Holding
<1>8. SlotOf(p)' = region'[o].slots[i]
  BY <1>4, <1>6 DEF SlotOf, Mine
<1>9. ASSUME NEW q \in Processes, Holding(q)', q # p
      PROVE  /\ Holding(q) /\ proc'[q] = proc[q] /\ proc[q].object \in Objects
             /\ proc[q].handle.index \in Slots /\ proc[q].handle.generation \in Nat
             /\ SlotOf(q) = region[proc[q].object].slots[proc[q].handle.index]
             /\ SlotOf(q)' = region'[proc[q].object].slots[proc[q].handle.index]
             /\ SlotOf(q).generation \in Nat
  <2>1. Holding(q) /\ proc'[q] = proc[q]
    BY <1>4, <1>9 DEF Holding
  <2> QED
    BY <2>1, HolderTypes DEF SlotOf, Mine, SlotContents
<1>10. ASSUME NEW q \in Processes, Holding(q)', q # p
       PROVE  \/ SlotOf(q)' = SlotOf(q)
              \/ proc[q].object = o /\ proc[q].handle.index = i
  <2> DEFINE x == proc[q].object
             j == proc[q].handle.index
  <2>1. /\ x \in Objects /\ j \in Slots
        /\ SlotOf(q) = region[x].slots[j] /\ SlotOf(q)' = region'[x].slots[j]
    BY <1>9, <1>10
  <2> HIDE DEF x, j
  <2>2. (x = o /\ j = i) \/ region'[x].slots[j] = region[x].slots[j]
    BY <1>5, <2>1
  <2> QED
    BY <2>1, <2>2 DEF x, j
<1>11. OwnersOK'
  <2> SUFFICES ASSUME ~Happened("overlap") PROVE OwnersOK'
    BY <1>1 DEF OwnersOK, Happened
  <2>1. ASSUME NEW q \in Processes, Holding(q)'
        PROVE  proc'[q].handle.generation <= SlotOf(q)'.generation
    <3>1. CASE q = p
      <4>1. proc'[p].handle.generation = g + 1
        BY <1>4, <1>6
      <4>2. SlotOf(p)'.generation = g + 1
        BY <1>5, <1>8
      <4> QED
        BY <1>3, <3>1, <4>1, <4>2
    <3>2. CASE q # p
      <4>1. proc[q].handle.generation <= SlotOf(q).generation
        BY <1>9, <2>1, <3>2 DEF OwnersOK
      <4>2. SlotOf(q)' = SlotOf(q) \/ (SlotOf(q).generation = g /\ SlotOf(q)'.generation = g + 1)
        BY <1>3, <1>5, <1>9, <1>10, <2>1, <3>2
      <4> QED
        BY <1>3, <1>9, <2>1, <3>2, <4>1, <4>2
    <3> QED
      BY <3>1, <3>2
  <2>2. ASSUME NEW q \in Processes, q # p, Holding(q)',
               proc'[q].object = o, proc'[q].handle.index = i
        PROVE  proc'[q].handle.generation <= g
    BY <1>3, <1>9, <2>2 DEF OwnersOK
  <2>3. ASSUME NEW q \in Processes, NEW r \in Processes, q # r, Holding(q)', Holding(r)',
               proc'[q].object = proc'[r].object, proc'[q].handle.index = proc'[r].handle.index
        PROVE  proc'[q].handle.generation # proc'[r].handle.generation
    <3>0. /\ proc'[p].object = o /\ proc'[p].handle.index = i
          /\ proc'[p].handle.generation = g + 1
      BY <1>4, <1>6
    <3>1. CASE q = p
      <4>1. proc'[r].handle.generation <= g /\ proc'[r].handle.generation \in Nat
        BY <1>9, <2>2, <2>3, <3>0, <3>1
      <4> QED
        BY <1>3, <3>0, <3>1, <4>1
    <3>2. CASE r = p
      <4>1. proc'[q].handle.generation <= g /\ proc'[q].handle.generation \in Nat
        BY <1>9, <2>2, <2>3, <3>0, <3>2
      <4> QED
        BY <1>3, <3>0, <3>2, <4>1
    <3>3. CASE q # p /\ r # p
      BY <1>9, <2>3, <3>3 DEF OwnersOK
    <3> QED
      BY <3>1, <3>2, <3>3
  <2> QED
    BY <2>1, <2>3 DEF OwnersOK
<1>12. KeptOK'
  <2> SUFFICES ASSUME ~Happened("overlap"), ~Happened("wiped"), NEW q \in Processes, Holding(q)'
               PROVE  Kept(q)'
    BY <1>1 DEF KeptOK, Happened
  <2>1. CASE q = p
    BY <1>4, <1>5, <1>6, <1>8, <2>1 DEF Kept
  <2>2. CASE q # p
    <3>1. Kept(q)
      BY <1>9, <2>2 DEF KeptOK
    <3>2. SlotOf(q)' = SlotOf(q)
      BY <1>3, <1>9, <1>10, <2>2, <3>1 DEF Kept
    <3> QED
      BY <1>9, <2>2, <3>1, <3>2 DEF Kept
  <2> QED
    BY <2>1, <2>2
<1>13. FreeingOK'
  <2> SUFFICES ASSUME ~Happened("overlap"), ~Happened("torn"), NEW q \in Processes,
                      proc'[q].pc = "freeing"
               PROVE  Kept(q)'
    BY <1>1 DEF FreeingOK, Happened
  <2>1. q # p /\ proc[q].pc = "freeing" /\ Holding(q)'
    BY <1>4 DEF HandleOK, Holding
  <2>2. Kept(q)
    BY <2>1 DEF FreeingOK
  <2>3. SlotOf(q)' = SlotOf(q)
    BY <1>3, <1>9, <1>10, <2>1, <2>2 DEF Kept
  <2> QED
    BY <1>9, <2>1, <2>2, <2>3 DEF Kept
<1>14. ActiveHeld'
  <2> SUFFICES ASSUME ~Happened("overlap"), ~Happened("leaked"), ~Happened("wiped"),
                      NEW x \in Objects, NEW j \in Slots, region'[x].slots[j].active = 1
               PROVE  \E q \in Subscribers : proc'[q].object = x /\ proc'[q].handle.index = j
    BY <1>1 DEF ActiveHeld, Happened
  <2>1. CASE x = o /\ j = i
    BY <1>4, <1>6, <2>1
  <2>2. CASE ~(x = o /\ j = i)
    <3>1. PICK q \in Subscribers : proc[q].object = x /\ proc[q].handle.index = j
      BY <1>5, <2>2 DEF ActiveHeld
    <3>2. q # p
      BY <1>1, <3>1 DEF Holding, NoHandle, NoSlot, Slots
    <3> QED
      BY <1>4, <3>1, <3>2 DEF Processes
  <2> QED
    BY <2>1, <2>2
<1>15. GenerationsOK'
  <2>1. ASSUME NEW x \in Objects, NEW j \in Slots
        PROVE  region'[x].slots[j].generation <= MaxGeneration + 1
    BY <1>3, <1>5, RegionAssumption DEF GenerationsOK
  <2>2. ASSUME proc'[Publisher].pc \in {"clear", "bump"}, NEW j \in Slots, j >= proc'[Publisher].slot
        PROVE  Mine(Publisher)'.slots[j].generation <= MaxGeneration
    <3>1. Publisher # p /\ proc'[Publisher] = proc[Publisher] /\ Publisher \in Processes
      BY <1>1, <1>4 DEF Processes
    <3>2. proc[Publisher].object \in Objects
      BY <2>2, <3>1, OwnSlots DEF Working
    <3>3. region[proc[Publisher].object].slots[j].generation <= MaxGeneration
      BY <2>2, <3>1 DEF GenerationsOK, Mine
    <3>4. region'[proc[Publisher].object].slots[j].generation <= MaxGeneration
      <4> DEFINE x == proc[Publisher].object
      <4>1. x \in Objects /\ region[x].slots[j].generation <= MaxGeneration
        BY <3>2, <3>3
      <4> SUFFICES region'[x].slots[j].generation <= MaxGeneration
        OBVIOUS
      <4> HIDE DEF x
      <4>2. CASE x = o /\ j = i
        BY <1>3, <1>5, <4>2, RegionAssumption
      <4>3. CASE x # o \/ j # i
        <5>1. region'[x].slots[j] = region[x].slots[j]
          BY <1>5, <4>1, <4>3
        <5> QED
          BY <4>1, <5>1
      <4> QED
        BY <4>2, <4>3
    <3> QED
      BY <3>1, <3>4 DEF Mine
  <2> QED
    BY <2>1, <2>2 DEF GenerationsOK
<1> QED
  BY <1>1, <1>7, <1>w, <1>11, <1>12, <1>13, <1>14, <1>15, WorkAlone, OtherHandles

-----------------------------------------------------------------------------
(***************************************************************************)
(* The steps that store to one slot.                                       *)
(***************************************************************************)
\* A process stores to slot i of object o, or leaves it; the handle stays or is dropped.
SlotLeft(o, i) ==
  /\ region'[o].slots[i].active = region[o].slots[i].active
  /\ region'[o].slots[i].generation = region[o].slots[i].generation

StoresTo(p, o, i) ==
  /\ WorkStep(p) /\ proc'[p].pc # "freeing"
  /\ \A x \in Objects, j \in Slots : x # o \/ j # i => region'[x].slots[j] = region[x].slots[j]
  /\ region'[o].slots[i].active \in {0, region[o].slots[i].active}
  /\ region'[o].slots[i].generation \in {region[o].slots[i].generation,
                                         region[o].slots[i].generation + 1}
  /\ proc'[p].handle \in {proc[p].handle, NoHandle}
  /\ ~Happened("wiped")' =>
       \/ SlotLeft(o, i)
       \/ \A q \in Processes : Holding(q)' /\ proc[q].object = o => proc[q].handle.index # i
  /\ ~Happened("torn")' =>
       \/ SlotLeft(o, i)
       \/ \A q \in Processes : Holding(q)' /\ proc[q].object = o /\ proc'[q].pc = "freeing"
                                 => proc[q].handle.index # i
  /\ Holding(p) /\ ~Holding(p)' =>
       \/ "leaked" \in history'
       \/ proc[p].object = o /\ proc[p].handle.index = i /\ region'[o].slots[i].active = 0

\* What is said about the holders of slots survives such a store.
LEMMA StoreStep ==
  ASSUME RegionInv, SlotInv, NEW p \in Processes, NEW o \in Objects, NEW i \in Slots,
         StoresTo(p, o, i)
  PROVE  OwnersOK' /\ KeptOK' /\ FreeingOK' /\ ActiveHeld'
<1> USE DEF SlotInv
<1>1. history \subseteq history' /\ \A q \in Processes \ {p} : proc'[q] = proc[q]
  BY DEF StoresTo, WorkStep
<1>2. ASSUME NEW q \in Processes, Holding(q)'
      PROVE  /\ Holding(q) /\ proc'[q].handle = proc[q].handle /\ proc'[q].object = proc[q].object
             /\ proc'[q].pc = "freeing" => proc[q].pc = "freeing"
             /\ proc[q].object \in Objects /\ proc[q].handle.index \in Slots
             /\ proc[q].handle.generation \in Nat
             /\ SlotOf(q) = region[proc[q].object].slots[proc[q].handle.index]
             /\ SlotOf(q)' = region'[proc[q].object].slots[proc[q].handle.index]
             /\ SlotOf(q).generation \in Nat
  <2>1. /\ Holding(q) /\ proc'[q].handle = proc[q].handle /\ proc'[q].object = proc[q].object
        /\ proc'[q].pc = "freeing" => proc[q].pc = "freeing"
    BY <1>1, <1>2 DEF StoresTo, WorkStep, Holding
  <2> QED
    BY <2>1, HolderTypes DEF SlotOf, Mine, SlotContents
<1>3. ASSUME NEW q \in Processes, Holding(q)'
      PROVE  \/ SlotOf(q)' = SlotOf(q)
             \/ proc[q].object = o /\ proc[q].handle.index = i
  <2> DEFINE x == proc[q].object
             j == proc[q].handle.index
  <2>1. /\ x \in Objects /\ j \in Slots
        /\ SlotOf(q) = region[x].slots[j] /\ SlotOf(q)' = region'[x].slots[j]
    BY <1>2, <1>3
  <2> HIDE DEF x, j
  <2>2. (x = o /\ j = i) \/ region'[x].slots[j] = region[x].slots[j]
    BY <2>1 DEF StoresTo
  <2> QED
    BY <2>1, <2>2 DEF x, j
<1>4. OwnersOK'
  <2> SUFFICES ASSUME ~Happened("overlap")' PROVE OwnersOK'
    BY DEF OwnersOK
  <2>o. ~Happened("overlap")
    BY <1>1 DEF Happened
  <2>1. ASSUME NEW q \in Processes, Holding(q)'
        PROVE  proc'[q].handle.generation <= SlotOf(q)'.generation
    <3>1. proc[q].handle.generation <= SlotOf(q).generation
      BY <1>2, <2>1, <2>o DEF OwnersOK
    <3>2. SlotOf(q)'.generation \in {SlotOf(q).generation, SlotOf(q).generation + 1}
      BY <1>2, <1>3, <2>1 DEF StoresTo
    <3> QED
      BY <1>2, <2>1, <3>1, <3>2
  <2>2. ASSUME NEW q \in Processes, NEW r \in Processes, q # r, Holding(q)', Holding(r)',
               proc'[q].object = proc'[r].object, proc'[q].handle.index = proc'[r].handle.index
        PROVE  proc'[q].handle.generation # proc'[r].handle.generation
    BY <1>2, <2>2, <2>o DEF OwnersOK
  <2> QED
    BY <2>1, <2>2 DEF OwnersOK
<1>5. ASSUME NEW q \in Processes, Holding(q)', Kept(q),
             SlotLeft(o, i) \/ ~(proc[q].object = o /\ proc[q].handle.index = i)
      PROVE  Kept(q)'
  <2>1. /\ SlotOf(q)'.active = SlotOf(q).active
        /\ SlotOf(q)'.generation = SlotOf(q).generation
    BY <1>2, <1>3, <1>5 DEF SlotLeft
  <2> QED
    BY <1>2, <1>5, <2>1 DEF Kept
<1>6. KeptOK'
  <2> SUFFICES ASSUME ~Happened("overlap")', ~Happened("wiped")', NEW q \in Processes, Holding(q)'
               PROVE  Kept(q)'
    BY DEF KeptOK
  <2>1. Kept(q)
    BY <1>1, <1>2 DEF KeptOK, Happened
  <2> QED
    BY <1>5, <2>1 DEF StoresTo
<1>7. FreeingOK'
  <2> SUFFICES ASSUME ~Happened("overlap")', ~Happened("torn")', NEW q \in Processes,
                      proc'[q].pc = "freeing"
               PROVE  Kept(q)'
    BY DEF FreeingOK
  <2>1. q # p /\ proc[q].pc = "freeing"
    BY <1>1 DEF StoresTo
  <2>2. Holding(q)' /\ Kept(q)
    BY <1>1, <2>1 DEF FreeingOK, Happened, HandleOK, Holding
  <2> QED
    BY <1>5, <2>2 DEF StoresTo
<1>8. ActiveHeld'
  <2> SUFFICES ASSUME ~Happened("overlap")', ~Happened("leaked")', ~Happened("wiped")',
                      NEW x \in Objects, NEW j \in Slots, region'[x].slots[j].active = 1
               PROVE  \E q \in Subscribers : proc'[q].object = x /\ proc'[q].handle.index = j
    BY DEF ActiveHeld
  <2>1. region[x].slots[j].active = 1
    <3>1. CASE x = o /\ j = i
      <4>1. region'[o].slots[i].active \in {0, region[o].slots[i].active}
        BY DEF StoresTo
      <4> QED
        BY <3>1, <4>1
    <3>2. CASE x # o \/ j # i
      <4>1. region'[x].slots[j] = region[x].slots[j]
        BY <3>2 DEF StoresTo
      <4> QED
        BY <4>1
    <3> QED
      BY <3>1, <3>2
  <2>2. PICK q \in Subscribers : proc[q].object = x /\ proc[q].handle.index = j
    BY <1>1, <2>1 DEF ActiveHeld, Happened
  <2>3. q \in Processes /\ Holding(q)
    BY <2>2 DEF Processes, Holding, NoHandle, NoSlot, Slots
  <2>4. Holding(q)'
    <3>1. CASE q = p
      <4>1. ~Holding(p)' =>
              proc[p].object = o /\ proc[p].handle.index = i /\ region'[o].slots[i].active = 0
        BY <2>3, <3>1 DEF StoresTo, Happened
      <4> QED
        BY <2>2, <3>1, <4>1
    <3>2. CASE q # p
      BY <1>1, <2>3, <3>2 DEF Holding
    <3> QED
      BY <3>1, <3>2
  <2> QED
    BY <1>2, <2>2, <2>3, <2>4
<1> QED
  BY <1>4, <1>6, <1>7, <1>8

\* The bound on generations, while nobody counts one.
LEMMA GenerationsStored ==
  ASSUME RegionInv, SlotInv, NEW p \in Processes, WorkStep(p), p # Publisher \/ proc'[p].pc = "unmap",
         \A x \in Objects, j \in Slots :
           region'[x].slots[j].generation = region[x].slots[j].generation
  PROVE  GenerationsOK'
<1>1. \A x \in Objects, j \in Slots : region'[x].slots[j].generation <= MaxGeneration + 1
  BY DEF SlotInv, GenerationsOK
<1>2. ASSUME proc'[Publisher].pc \in {"clear", "bump"}, NEW j \in Slots, j >= proc'[Publisher].slot
      PROVE  Mine(Publisher)'.slots[j].generation <= MaxGeneration
  <2>1. proc'[Publisher] = proc[Publisher] /\ Publisher \in Processes
    BY <1>2 DEF Processes, WorkStep
  <2>2. proc[Publisher].object \in Objects
    BY <1>2, <2>1, OwnSlots DEF Working
  <2> QED
    BY <1>2, <2>1, <2>2 DEF SlotInv, GenerationsOK, Mine
<1> QED
  BY <1>1, <1>2 DEF GenerationsOK

\* Nothing is said about holders once two processes initialized side by side.
LEMMA Overlapped ==
  ASSUME Happened("overlap")' PROVE OwnersOK' /\ KeptOK' /\ FreeingOK' /\ ActiveHeld'
BY DEF OwnersOK, KeptOK, FreeingOK, ActiveHeld

-----------------------------------------------------------------------------
(***************************************************************************)
(* unsubscribe() and TopicChannel::cleanup().                              *)
(***************************************************************************)
\* Storing 0 in active.
LEMMA ActiveStored ==
  ASSUME RegionInv, NEW o \in Objects, NEW i \in Slots,
         region' = [region EXCEPT ![o].slots[i].active = 0]
  PROVE  /\ region'[o].slots[i].active = 0
         /\ region'[o].slots[i].generation = region[o].slots[i].generation
         /\ \A x \in Objects, j \in Slots :
              x # o \/ j # i => region'[x].slots[j] = region[x].slots[j]
         /\ \A x \in Objects : region'[x].sized = region[x].sized
<1> DEFINE c == [region[o].slots[i] EXCEPT !.active = 0]
           slots == [region[o].slots EXCEPT ![i] = c]
           r == [region[o] EXCEPT !.slots = slots]
<1>1. /\ region \in [Objects -> Regions] /\ region[o] \in Regions
      /\ region[o].slots \in [Slots -> SlotContents] /\ region[o].slots[i] \in SlotContents
  BY DEF RegionInv, StructureOK, Regions, SlotContents
<1>2. c.active = 0 /\ c.generation = region[o].slots[i].generation
  BY <1>1 DEF SlotContents
<1>3. region' = [region EXCEPT ![o] = r]
  OBVIOUS
<1> HIDE DEF c
<1>4. slots[i] = c /\ \A j \in Slots : j # i => slots[j] = region[o].slots[j]
  BY <1>1
<1> HIDE DEF slots
<1>5. r.slots = slots /\ r.sized = region[o].sized
  BY <1>1 DEF Regions
<1> HIDE DEF r
<1>6. region'[o] = r /\ \A x \in Objects : x # o => region'[x] = region[x]
  BY <1>1, <1>3
<1>7. region'[o].slots[i] = c /\ \A j \in Slots : j # i => region'[o].slots[j] = region[o].slots[j]
  BY <1>4, <1>5, <1>6
<1>8. \A x \in Objects, j \in Slots : x # o \/ j # i => region'[x].slots[j] = region[x].slots[j]
  BY <1>6, <1>7
<1>9. \A x \in Objects : region'[x].sized = region[x].sized
  BY <1>5, <1>6
<1> QED
  BY <1>2, <1>7, <1>8, <1>9

\* unregisterSubscriber(): the test.
LEMMA UnsubscribeSlots ==
  ASSUME RegionInv, SlotInv, NEW p \in Subscribers, Unsubscribe(p)
  PROVE  SlotInv'
<1> USE DEF SlotInv
<1> DEFINE o == proc[p].object
           i == proc[p].handle.index
           same == SameGeneration(p, proc[p].handle)
           new == IF same THEN [proc[p] EXCEPT !.pc = "freeing"]
                          ELSE [proc[p] EXCEPT !.handle = NoHandle]
<1>1. /\ p \in Processes /\ p # Publisher /\ proc[p] \in Records
      /\ name' = name /\ region' = region /\ proc[p].pc = "ready" /\ Holding(p)
      /\ history \subseteq history'
  BY RegionAssumption DEF Unsubscribe, Processes, RegionInv, StructureOK, Holding, Note, Remember
<1>2. /\ proc'[p] = new /\ \A q \in Processes \ {p} : proc'[q] = proc[q]
  BY <1>1 DEF Unsubscribe, RegionInv, StructureOK
<1>3. /\ new.object = o /\ new.pc = IF same THEN "freeing" ELSE "ready"
      /\ new.handle = IF same THEN proc[p].handle ELSE NoHandle
  BY <1>1 DEF Records
<1>4. /\ o \in Objects /\ i \in Slots /\ SlotOf(p) = region[o].slots[i]
      /\ SlotOf(p) \in SlotContents
  BY <1>1, HolderTypes
<1> HIDE DEF new
<1>w. WorkStep(p)
  BY <1>1, <1>2, <1>3 DEF WorkStep, Working
<1>5. HandleOK(p)'
  BY <1>1, <1>2, <1>3 DEF HandleOK, Holding
<1>6. GenerationsOK'
  BY <1>1, <1>w, GenerationsStored
<1>7. ASSUME same PROVE OwnersOK' /\ KeptOK' /\ FreeingOK' /\ ActiveHeld'
  <2>1. ASSUME NEW q \in Processes
        PROVE  /\ proc'[q].handle = proc[q].handle /\ proc'[q].object = proc[q].object
               /\ SlotOf(q)' = SlotOf(q) /\ Holding(q)' = Holding(q)
               /\ q # p => proc'[q].pc = proc[q].pc
    BY <1>1, <1>2, <1>3, <1>7 DEF SlotOf, Mine, Holding
  <2>2. OwnersOK'
    BY <1>1, <2>1 DEF OwnersOK, Happened
  <2>3. KeptOK'
    BY <1>1, <2>1 DEF KeptOK, Kept, Happened
  <2>4. FreeingOK'
    <3> SUFFICES ASSUME ~Happened("overlap")', ~Happened("torn")', NEW q \in Processes,
                        proc'[q].pc = "freeing"
                 PROVE  Kept(q)'
      BY DEF FreeingOK
    <3>1. CASE q # p
      BY <1>1, <2>1, <3>1 DEF FreeingOK, Kept, Happened
    <3>2. CASE q = p
      <4>1. region[o].slots[i].active # 0
        BY <1>7 DEF Unsubscribe, Note, Remember, Noted, Happened, Mine
      <4>2. region[o].slots[i].generation = proc[p].handle.generation
        BY <1>7 DEF SameGeneration, Mine
      <4> QED
        BY <1>4, <2>1, <3>2, <4>1, <4>2 DEF Kept, SlotContents
    <3> QED
      BY <3>1, <3>2
  <2>5. ActiveHeld'
    BY <1>1, <2>1 DEF ActiveHeld, Happened, Processes
  <2> QED
    BY <2>2, <2>3, <2>4, <2>5
<1>8. ASSUME ~same PROVE OwnersOK' /\ KeptOK' /\ FreeingOK' /\ ActiveHeld'
  <2>1. CASE Happened("overlap")'
    BY <2>1, Overlapped
  <2>2. CASE ~Happened("overlap")' /\ ~Happened("wiped")
    <3>1. Kept(p)
      BY <1>1, <2>2 DEF KeptOK, Happened
    <3> QED
      BY <1>4, <1>8, <3>1 DEF Kept, SameGeneration, SlotOf, Mine, NoSlot, Slots
  <2>3. CASE ~Happened("overlap")' /\ Happened("wiped")
    <3>1. ASSUME NEW q \in Processes, Holding(q)' \/ q # p
          PROVE  q # p /\ proc'[q] = proc[q] /\ SlotOf(q)' = SlotOf(q) /\ Holding(q)' = Holding(q)
      BY <1>1, <1>2, <1>3, <1>8, <3>1 DEF SlotOf, Mine, Holding
    <3>2. OwnersOK'
      BY <1>1, <3>1 DEF OwnersOK, Happened
    <3>3. FreeingOK'
      <4>1. proc'[p].pc # "freeing"
        BY <1>2, <1>3, <1>8
      <4> QED
        BY <1>1, <3>1, <4>1 DEF FreeingOK, Kept, Happened
    <3>4. KeptOK' /\ ActiveHeld'
      BY <1>1, <2>3 DEF KeptOK, ActiveHeld, Happened
    <3> QED
      BY <3>2, <3>3, <3>4
  <2> QED
    BY <2>1, <2>2, <2>3
<1>9. OwnersOK' /\ KeptOK' /\ FreeingOK' /\ ActiveHeld'
  BY <1>7, <1>8
<1> QED
  BY <1>1, <1>5, <1>6, <1>9, <1>w, WorkAlone, OtherHandles

\* While processes initialize one after another, a slot that is as its owner made it
\* has no other owner.
LEMMA KeptIsAlone ==
  ASSUME SlotInv, ~Happened("overlap"), NEW p \in Processes, NEW q \in Processes, p # q,
         Holding(p), Holding(q), Kept(p), Kept(q),
         proc[p].object = proc[q].object
  PROVE  proc[p].handle.index # proc[q].handle.index
BY DEF SlotInv, OwnersOK, Kept, SlotOf, Mine

\* unregisterSubscriber(): the store.
LEMMA FreeSlots ==
  ASSUME RegionInv, SlotInv, NEW p \in Subscribers, FreeSlotOf(p)
  PROVE  SlotInv'
<1> USE DEF SlotInv
<1> DEFINE o == proc[p].object
           i == proc[p].handle.index
           new == [proc[p] EXCEPT !.pc = "ready", !.handle = NoHandle]
<1>1. /\ p \in Processes /\ p # Publisher /\ proc[p] \in Records
      /\ name' = name /\ history' = history /\ proc[p].pc = "freeing" /\ Holding(p)
      /\ region \in [Objects -> Regions]
  BY RegionAssumption DEF FreeSlotOf, Processes, RegionInv, StructureOK, HandleOK
<1>2. /\ proc'[p] = new /\ \A q \in Processes \ {p} : proc'[q] = proc[q]
      /\ region' = [region EXCEPT ![o].slots[i].active = 0]
  BY <1>1 DEF FreeSlotOf, SlotFreed, RegionInv, StructureOK
<1>3. new.object = o /\ new.pc = "ready" /\ new.handle = NoHandle
  BY <1>1 DEF Records
<1>4. o \in Objects /\ i \in Slots
  BY <1>1, HolderTypes
<1> HIDE DEF new
<1>5. /\ region'[o].slots[i].active = 0
      /\ region'[o].slots[i].generation = region[o].slots[i].generation
      /\ \A x \in Objects, j \in Slots : x # o \/ j # i => region'[x].slots[j] = region[x].slots[j]
      /\ \A x \in Objects : region'[x].sized = region[x].sized
  BY <1>2, <1>4, ActiveStored
<1>w. WorkStep(p)
  BY <1>1, <1>2, <1>3, <1>5 DEF WorkStep, Working
<1>6. HandleOK(p)'
  BY <1>1, <1>2, <1>3 DEF HandleOK, Holding
<1>7. GenerationsOK'
  <2>1. \A x \in Objects, j \in Slots :
          region'[x].slots[j].generation = region[x].slots[j].generation
    BY <1>5
  <2> QED
    BY <1>1, <1>w, <2>1, GenerationsStored
<1>8. OwnersOK' /\ KeptOK' /\ FreeingOK' /\ ActiveHeld'
  <2>1. CASE Happened("overlap")
    BY <1>1, <2>1, Overlapped DEF Happened
  <2>2. CASE ~Happened("overlap")
    <3>1. \A q \in Processes : Holding(q)' => q # p /\ Holding(q) /\ proc'[q] = proc[q]
      BY <1>2, <1>3 DEF Holding
    <3>2. ~Happened("wiped")' =>
            \A q \in Processes : Holding(q)' /\ proc[q].object = o => proc[q].handle.index # i
      BY <1>1, <2>2, <3>1, KeptIsAlone DEF KeptOK, Happened
    <3>3. ~Happened("torn")' =>
            \A q \in Processes : Holding(q)' /\ proc[q].object = o /\ proc'[q].pc = "freeing"
                                   => proc[q].handle.index # i
      BY <1>1, <2>2, <3>1, KeptIsAlone DEF FreeingOK, Happened
    <3>4. StoresTo(p, o, i)
      BY <1>2, <1>3, <1>5, <1>w, <3>2, <3>3 DEF StoresTo
    <3> QED
      BY <1>1, <1>4, <3>4, StoreStep
  <2> QED
    BY <2>1, <2>2
<1> QED
  BY <1>1, <1>6, <1>7, <1>8, <1>w, WorkAlone, OtherHandles

\* TopicChannel::cleanup(): its handles have generation 0, which is no subscription's.
LEMMA CleanupSlots ==
  ASSUME RegionInv, SlotInv, NEW p \in Processes, ChannelCleanup(p)
  PROVE  SlotInv'
<1> USE DEF SlotInv
<1> DEFINE o == proc[p].object
           i == proc[p].handle.index
           same == SameGeneration(p, [proc[p].handle EXCEPT !.generation = 0])
           new == [proc[p] EXCEPT !.pc = "unmap", !.handle = NoHandle]
<1>1. /\ proc[p] \in Records /\ name' = name /\ proc[p].pc = "ready"
      /\ history \subseteq history'
      /\ Holding(p) => "leaked" \in history'
      /\ region \in [Objects -> Regions]
  BY DEF ChannelCleanup, RegionInv, StructureOK, Note, Remember, Noted, Holding
<1>2. /\ proc'[p] = new /\ \A q \in Processes \ {p} : proc'[q] = proc[q]
      /\ IF same THEN region' = [region EXCEPT ![o].slots[i].active = 0] ELSE region' = region
  BY <1>1 DEF ChannelCleanup, SlotFreed, RegionInv, StructureOK
<1>3. new.object = o /\ new.pc = "unmap" /\ new.handle = NoHandle
  BY <1>1 DEF Records
<1>4. o \in Objects /\ 1 \in Slots
  BY <1>1, OwnSlots, RegionAssumption DEF Working, Slots
<1> HIDE DEF new
<1>5. /\ \A x \in Objects, j \in Slots :
           region'[x].slots[j].generation = region[x].slots[j].generation
      /\ \A x \in Objects : region'[x].sized = region[x].sized
  <2>1. CASE same
    <3>1. i \in Slots
      BY <1>1, <2>1 DEF SameGeneration, Records, Slots, NoSlot
    <3>2. region' = [region EXCEPT ![o].slots[i].active = 0]
      BY <1>2, <2>1
    <3>3. /\ region'[o].slots[i].generation = region[o].slots[i].generation
          /\ \A x \in Objects, j \in Slots :
               x # o \/ j # i => region'[x].slots[j] = region[x].slots[j]
          /\ \A x \in Objects : region'[x].sized = region[x].sized
      BY <1>4, <3>1, <3>2, ActiveStored
    <3> QED
      BY <3>3
  <2>2. CASE ~same
    <3>1. region' = region
      BY <1>2, <2>2
    <3> QED
      BY <3>1
  <2> QED
    BY <2>1, <2>2
<1>w. WorkStep(p)
  <2> HIDE DEF same
  <2> QED
    BY <1>1, <1>2, <1>3, <1>5 DEF WorkStep, Working
<1>6. HandleOK(p)'
  BY <1>1, <1>2, <1>3 DEF HandleOK, Holding
<1>7. GenerationsOK'
  BY <1>2, <1>3, <1>5, <1>w, GenerationsStored
<1>8. OwnersOK' /\ KeptOK' /\ FreeingOK' /\ ActiveHeld'
  <2>1. CASE Happened("overlap")
    BY <1>1, <2>1, Overlapped DEF Happened
  <2>2. CASE ~Happened("overlap")
    <3>1. ~same
      <4> SUFFICES ASSUME same PROVE FALSE
        OBVIOUS
      <4>1. Holding(p)
        <5>1. [proc[p].handle EXCEPT !.generation = 0].index = i
          BY <1>1 DEF Records
        <5>2. i # NoSlot
          BY <5>1 DEF SameGeneration
        <5> QED
          BY <5>2 DEF Holding, NoHandle
      <4>2. [proc[p].handle EXCEPT !.generation = 0].generation = 0
            /\ [proc[p].handle EXCEPT !.generation = 0].index = i
        BY <1>1 DEF Records
      <4>3. SlotOf(p).generation = 0
        BY <4>2 DEF SameGeneration, SlotOf
      <4>4. proc[p].handle.generation \in Nat \ {0} /\ proc[p].handle.generation <= SlotOf(p).generation
        BY <2>2, <4>1, HolderTypes DEF OwnersOK
      <4> QED
        BY <4>3, <4>4
    <3>2. StoresTo(p, o, 1)
      BY <1>1, <1>2, <1>3, <1>4, <1>w, <3>1 DEF StoresTo, SlotLeft
    <3> QED
      BY <1>4, <3>2, StoreStep
  <2> QED
    BY <2>1, <2>2
<1> QED
  BY <1>6, <1>7, <1>8, <1>w, WorkAlone, OtherHandles

-----------------------------------------------------------------------------
(***************************************************************************)
(* clearAllSubscribers().                                                  *)
(***************************************************************************)
\* Counting the generation.
LEMMA GenerationCounted ==
  ASSUME RegionInv, NEW o \in Objects, NEW i \in Slots,
         region' = [region EXCEPT ![o].slots = [region[o].slots EXCEPT ![i].generation = @ + 1]]
  PROVE  /\ region'[o].slots[i].active = region[o].slots[i].active
         /\ region'[o].slots[i].generation = region[o].slots[i].generation + 1
         /\ \A x \in Objects, j \in Slots :
              x # o \/ j # i => region'[x].slots[j] = region[x].slots[j]
         /\ \A x \in Objects : region'[x].sized = region[x].sized
<1> DEFINE c == [region[o].slots[i] EXCEPT !.generation = region[o].slots[i].generation + 1]
           slots == [region[o].slots EXCEPT ![i] = c]
           r == [region[o] EXCEPT !.slots = slots]
<1>1. /\ region \in [Objects -> Regions] /\ region[o] \in Regions
      /\ region[o].slots \in [Slots -> SlotContents] /\ region[o].slots[i] \in SlotContents
  BY DEF RegionInv, StructureOK, Regions, SlotContents
<1>2. c.generation = region[o].slots[i].generation + 1 /\ c.active = region[o].slots[i].active
  BY <1>1 DEF SlotContents
<1>3. region' = [region EXCEPT ![o] = r]
  OBVIOUS
<1> HIDE DEF c
<1>4. slots[i] = c /\ \A j \in Slots : j # i => slots[j] = region[o].slots[j]
  BY <1>1
<1> HIDE DEF slots
<1>5. r.slots = slots /\ r.sized = region[o].sized
  BY <1>1 DEF Regions
<1> HIDE DEF r
<1>6. region'[o] = r /\ \A x \in Objects : x # o => region'[x] = region[x]
  BY <1>1, <1>3
<1>7. region'[o].slots[i] = c /\ \A j \in Slots : j # i => region'[o].slots[j] = region[o].slots[j]
  BY <1>4, <1>5, <1>6
<1>8. \A x \in Objects, j \in Slots : x # o \/ j # i => region'[x].slots[j] = region[x].slots[j]
  BY <1>6, <1>7
<1>9. \A x \in Objects : region'[x].sized = region[x].sized
  BY <1>5, <1>6
<1> QED
  BY <1>2, <1>7, <1>8, <1>9

\* clearAllSubscribers() before its first slot and after its last one.
LEMMA ClearEnds ==
  ASSUME RegionInv, SlotInv, StartClear \/ EndClear
  PROVE  SlotInv'
<1> DEFINE p == Publisher
<1>1. /\ p \in Processes /\ proc[p] \in Records /\ proc[p].pc \in {"ready", "clear"}
      /\ proc \in [Processes -> Records]
      /\ name' = name /\ region' = region /\ history' = history
  BY DEF StartClear, EndClear, Processes, RegionInv, StructureOK
<1>2. /\ \A q \in Processes \ {p} : proc'[q] = proc[q]
      /\ proc'[p].handle = proc[p].handle /\ proc'[p].object = proc[p].object
      /\ StartClear => proc'[p].pc = "clear" /\ proc'[p].slot = 1
      /\ EndClear => proc'[p].pc = "ready"
  <2>1. CASE StartClear
    BY <1>1, <2>1 DEF StartClear, EndClear, Records
  <2>2. CASE EndClear
    BY <1>1, <2>2 DEF StartClear, EndClear, Records
  <2> QED
    BY <2>1, <2>2
<1>3. ~Holding(p)
  BY <1>1, RegionAssumption DEF SlotInv, HandleOK
<1>4. Beside(p) /\ WorkStep(p)
  BY <1>1, <1>2, <1>3 DEF Beside, WorkStep, Working
<1>5. \A q \in Processes : HandleOK(q)'
  BY <1>1, <1>2, <1>4, HandleBeside
<1>6. GenerationsOK'
  <2>1. CASE StartClear
    <3>1. \A i \in Slots : Mine(p)'.slots[i].generation <= MaxGeneration
      <4>1. \A i \in Slots : Mine(p).slots[i].generation \in Nat
        <5>1. proc[p].object \in Objects
          BY <1>1, OwnSlots DEF Working
        <5> QED
          BY <5>1, SlotTypes DEF Mine
      <4>2. /\ \A i \in Slots : Mine(p).slots[i].generation < MaxGeneration
            /\ Mine(p)' = Mine(p)
        BY <1>1, <1>2, <2>1 DEF StartClear, Mine
      <4> QED
        BY <4>1, <4>2, RegionAssumption
    <3> QED
      BY <1>1, <3>1 DEF SlotInv, GenerationsOK
  <2>2. CASE EndClear
    BY <1>1, <1>2, <1>4, <2>2, GenerationsBeside
  <2> QED
    BY <2>1, <2>2
<1> QED
  BY <1>1, <1>4, <1>5, <1>6, BesideStep, WorkAlone DEF SlotInv

\* Its stores to one slot.
LEMMA ClearSlots ==
  ASSUME RegionInv, SlotInv, ClearActive \/ BumpGeneration
  PROVE  SlotInv'
<1> USE DEF SlotInv
<1> DEFINE p == Publisher
           o == proc[p].object
           i == proc[p].slot
<1>1. /\ p \in Processes /\ proc[p] \in Records /\ proc[p].pc \in {"clear", "bump"}
      /\ proc \in [Processes -> Records]
      /\ name' = name /\ NoteCleared(i) /\ history \subseteq history'
  BY DEF ClearActive, BumpGeneration, Processes, RegionInv, StructureOK, NoteCleared, Remember
<1>2. i \in Slots /\ o \in Objects /\ i \in Nat
  <2>1. i \in Slots
    BY <1>1 DEF ClearActive, BumpGeneration, HandleOK
  <2> QED
    BY <1>1, <2>1, OwnSlots DEF Working, Records
<1>3. /\ \A q \in Processes \ {p} : proc'[q] = proc[q]
      /\ proc'[p].handle = proc[p].handle /\ proc'[p].object = o
      /\ ClearActive => proc'[p].pc = "bump" /\ proc'[p].slot = i
      /\ BumpGeneration => proc'[p].pc = "clear" /\ proc'[p].slot = i + 1
      /\ proc'[p].pc \in {"clear", "bump"}
  <2>1. CASE ClearActive
    BY <1>1, <2>1 DEF ClearActive, BumpGeneration, Records
  <2>2. CASE BumpGeneration
    BY <1>1, <2>2 DEF ClearActive, BumpGeneration, Records
  <2> QED
    BY <2>1, <2>2
<1>4. ~Holding(p)
  BY <1>1, RegionAssumption DEF HandleOK
<1>5. /\ \A x \in Objects, j \in Slots : x # o \/ j # i => region'[x].slots[j] = region[x].slots[j]
      /\ \A x \in Objects : region'[x].sized = region[x].sized
      /\ region'[o].slots[i].active \in {0, region[o].slots[i].active}
      /\ region'[o].slots[i].generation \in {region[o].slots[i].generation,
                                             region[o].slots[i].generation + 1}
      /\ ClearActive => region'[o].slots[i].generation = region[o].slots[i].generation
      /\ region[o].slots[i].generation \in Nat
  <2>0. region[o].slots[i].generation \in Nat
    BY <1>2, SlotTypes
  <2>1. CASE ClearActive
    <3>1. region' = [region EXCEPT ![o].slots[i].active = 0]
      BY <2>1 DEF ClearActive
    <3>2. /\ region'[o].slots[i].active = 0
          /\ region'[o].slots[i].generation = region[o].slots[i].generation
          /\ \A x \in Objects, j \in Slots :
               x # o \/ j # i => region'[x].slots[j] = region[x].slots[j]
          /\ \A x \in Objects : region'[x].sized = region[x].sized
      BY <1>2, <3>1, ActiveStored
    <3> QED
      BY <2>0, <3>2
  <2>2. CASE BumpGeneration
    <3>1. region' = [region EXCEPT ![o].slots = [region[o].slots EXCEPT ![i].generation = @ + 1]]
      BY <2>2 DEF BumpGeneration
    <3>2. /\ region'[o].slots[i].active = region[o].slots[i].active
          /\ region'[o].slots[i].generation = region[o].slots[i].generation + 1
          /\ \A x \in Objects, j \in Slots :
               x # o \/ j # i => region'[x].slots[j] = region[x].slots[j]
          /\ \A x \in Objects : region'[x].sized = region[x].sized
      BY <1>2, <3>1, GenerationCounted
    <3>3. ~ClearActive
      BY <2>2 DEF ClearActive, BumpGeneration
    <3> QED
      BY <2>0, <3>2, <3>3
  <2> QED
    BY <2>1, <2>2
<1>w. WorkStep(p)
  BY <1>1, <1>3, <1>5 DEF WorkStep, Working
<1>6. HandleOK(p)'
  BY <1>2, <1>3, <1>4 DEF HandleOK, Holding, ClearActive, BumpGeneration
<1>7. ASSUME NEW q \in Processes, Holding(q)', proc[q].object = o, proc[q].handle.index = i
      PROVE  q \in Holders(i) /\ proc'[q] = proc[q]
  <2>1. q # p /\ proc'[q] = proc[q] /\ Holding(q)
    BY <1>3, <1>4, <1>7 DEF Holding
  <2> QED
    BY <1>7, <2>1 DEF HandleOK, Holders
<1>8. StoresTo(p, o, i)
  <2>1. ~Happened("wiped")' =>
          \A q \in Processes : Holding(q)' /\ proc[q].object = o => proc[q].handle.index # i
    BY <1>1, <1>7 DEF NoteCleared, Remember, Noted, Happened
  <2>2. ~Happened("torn")' =>
          \A q \in Processes : Holding(q)' /\ proc[q].object = o /\ proc'[q].pc = "freeing"
                                 => proc[q].handle.index # i
    BY <1>1, <1>7 DEF NoteCleared, Remember, Noted, Happened
  <2> QED
    BY <1>2, <1>3, <1>4, <1>5, <1>w, <2>1, <2>2 DEF StoresTo
<1>9. GenerationsOK'
  <2>1. region[o].slots[i].generation <= MaxGeneration
    BY <1>1, <1>2 DEF GenerationsOK, Mine
  <2>2. ASSUME NEW x \in Objects, NEW j \in Slots
        PROVE  region'[x].slots[j].generation <= MaxGeneration + 1
    <3>1. CASE x = o /\ j = i
      <4> DEFINE g == region[o].slots[i].generation
      <4>1. /\ g \in Nat /\ g <= MaxGeneration /\ MaxGeneration \in Nat
            /\ region'[o].slots[i].generation \in {g, g + 1}
        BY <1>5, <2>1, RegionAssumption
      <4> HIDE DEF g
      <4>2. region'[o].slots[i].generation <= MaxGeneration + 1
        BY <4>1
      <4> QED
        BY <3>1, <4>2
    <3>2. CASE ~(x = o /\ j = i)
      BY <1>5, <3>2 DEF GenerationsOK
    <3> QED
      BY <3>1, <3>2
  <2>3. ASSUME NEW j \in Slots, j >= proc'[p].slot
        PROVE  Mine(p)'.slots[j].generation <= MaxGeneration
    <3>1. CASE BumpGeneration
      <4>1. j # i /\ j >= i
        BY <1>2, <1>3, <2>3, <3>1 DEF Slots
      <4>2. region[o].slots[j].generation <= MaxGeneration
        BY <1>1, <1>2, <4>1 DEF GenerationsOK, Mine
      <4>3. Mine(p)'.slots[j] = region[o].slots[j]
        BY <1>2, <1>3, <1>5, <4>1 DEF Mine
      <4> QED
        BY <4>2, <4>3
    <3>2. CASE ClearActive
      <4>1. j >= i
        BY <1>3, <2>3, <3>2
      <4>2. region'[o].slots[j].generation = region[o].slots[j].generation
        BY <1>2, <1>5, <3>2
      <4> QED
        BY <1>1, <1>3, <4>1, <4>2 DEF GenerationsOK, Mine
    <3> QED
      BY <3>1, <3>2
  <2> QED
    BY <2>2, <2>3 DEF GenerationsOK
<1> QED
  BY <1>1, <1>2, <1>6, <1>8, <1>9, <1>w, StoreStep, WorkAlone, OtherHandles

-----------------------------------------------------------------------------
(***************************************************************************)
(* Theorems.                                                               *)
(***************************************************************************)
\* The empty system.
LEMMA SlotInvInit == RegionInit => SlotInv
<1> SUFFICES ASSUME RegionInit PROVE SlotInv
  OBVIOUS
<1>1. \A p \in Processes : proc[p].pc = "out" /\ proc[p].handle = NoHandle
  BY DEF RegionInit, Outside
<1>2. \A o \in Objects, i \in Slots :
        region[o].slots[i].active = 0 /\ region[o].slots[i].generation = 0
  BY DEF RegionInit, BlankRegion, FreeSlot
<1>3. Publisher \in Processes
  BY DEF Processes
<1>4. name = NoObject
  BY DEF RegionInit
<1>5. \A p \in Processes : ~Holding(p) /\ ~Initializing(p) /\ ~Building(p)
  BY <1>1 DEF Holding, Initializing, Building
<1>6. (\A p \in Processes : HandleOK(p)) /\ AloneOK /\ OwnersOK /\ KeptOK /\ FreeingOK
  BY <1>1, <1>5 DEF HandleOK, AloneOK, OwnersOK, KeptOK, FreeingOK
<1>7. GenerationsOK
  BY <1>1, <1>2, <1>3, RegionAssumption DEF GenerationsOK
<1>8. ActiveHeld /\ FailureLeavesNoTrap
  BY <1>2, <1>4 DEF ActiveHeld, FailureLeavesNoTrap
<1> QED
  BY <1>6, <1>7, <1>8 DEF SlotInv

\* Every step.
LEMMA SlotInvStep == RegionInv /\ SlotInv /\ [RegionNext]_vars => SlotInv'
<1> SUFFICES ASSUME RegionInv, SlotInv, [RegionNext]_vars PROVE SlotInv'
  OBVIOUS
<1>1. ASSUME NEW p \in Processes, Initialize(p) PROVE SlotInv'
  BY <1>1, OpenSlots, CreateSlots, HeaderSlots, ConstructSlotsStep, LeaveSlots DEF Initialize
<1>2. ASSUME NEW p \in Processes, Cleanup(p) \/ Crash(p) PROVE SlotInv'
  BY <1>2, CleanupSlots, LeaveSlots DEF Cleanup
<1>3. ASSUME NEW p \in Subscribers, Subscribe(p) \/ Unsubscribe(p) \/ FreeSlotOf(p) PROVE SlotInv'
  BY <1>3, SubscribeSlots, UnsubscribeSlots, FreeSlots
<1>4. CASE ClearAllSubscribers
  BY <1>4, ClearEnds, ClearSlots DEF ClearAllSubscribers
<1>5. CASE UNCHANGED vars
  <2>1. \A p \in Processes : HandleOK(p)' /\ (Holding(p)' <=> Holding(p)) /\ (Kept(p)' <=> Kept(p))
    BY <1>5 DEF vars, SlotInv, HandleOK, Holding, Kept, SlotOf, Mine
  <2>2. GenerationsOK' /\ AloneOK'
    BY <1>5
    DEF vars, SlotInv, GenerationsOK, Mine, AloneOK, Happened, Initializing, Building
  <2>3. OwnersOK'
    BY <1>5 DEF vars, SlotInv, OwnersOK, Happened, Holding, SlotOf, Mine
  <2>4. KeptOK' /\ FreeingOK'
    BY <1>5, <2>1 DEF vars, SlotInv, KeptOK, FreeingOK, Happened
  <2>5. ActiveHeld' /\ FailureLeavesNoTrap'
    BY <1>5 DEF vars, SlotInv, ActiveHeld, FailureLeavesNoTrap, Happened
  <2> QED
    BY <2>1, <2>2, <2>3, <2>4, <2>5 DEF SlotInv
<1> QED
  BY <1>1, <1>2, <1>3, <1>4, <1>5 DEF RegionNext

\* The invariant of the slots holds in every reachable state of the region.
THEOREM SlotInvariance == RegionSpec => []SlotInv
<1> QED
  BY SlotInvInit, SlotInvStep, RegionInvariance, PTL DEF RegionSpec

\* The types, the bound of the generations and the places of handles.
THEOREM RegionTypesOK == RegionSpec => []RegionTypeOK
<1>1. RegionInv /\ SlotInv => RegionTypeOK
  <2> SUFFICES ASSUME RegionInv, SlotInv PROVE RegionTypeOK
    OBVIOUS
  <2> DEFINE Slot == [active : {0, 1}, generation : 0 .. (MaxGeneration + 1)]
             Region == [sized : BOOLEAN, magic : BOOLEAN, slots : [Slots -> Slot]]
  <2>1. ASSUME NEW o \in Objects, NEW i \in Slots PROVE region[o].slots[i] \in Slot
    <3>1. /\ region[o].slots[i] \in SlotContents
          /\ region[o].slots[i].generation <= MaxGeneration + 1
      BY SlotTypes DEF SlotInv, GenerationsOK
    <3>2. region[o].slots[i].generation \in 0 .. (MaxGeneration + 1)
      BY <3>1, RegionAssumption DEF SlotContents
    <3> HIDE DEF SlotInv
    <3> QED
      BY <3>1, <3>2 DEF SlotContents
  <2>2. ASSUME NEW o \in Objects PROVE region[o] \in Region
    <3>1. region[o] \in Regions
      BY DEF RegionInv, StructureOK
    <3>2. region[o].slots \in [Slots -> Slot]
      BY <2>1, <3>1 DEF Regions
    <3> HIDE DEF Slot
    <3> QED
      BY <3>1, <3>2 DEF Regions
  <2>3. region \in [Objects -> Region]
    <3> HIDE DEF Region
    <3> QED
      BY <2>2 DEF RegionInv, StructureOK
  <2>4. name \in {NoObject} \cup Objects /\ history \subseteq Situations
    BY DEF RegionInv, StructureOK
  <2>5. ASSUME NEW p \in Processes
        PROVE  /\ proc[p].pc \in {"out", "create"} <=> proc[p].object = NoObject
               /\ proc[p].handle # NoHandle => Ready(p) /\ p \in Subscribers
    BY DEF RegionInv, PlaceOK, SlotInv, HandleOK, Holding, Ready
  <2> QED
    BY <2>3, <2>4, <2>5 DEF RegionTypeOK
<1> QED
  BY <1>1, RegionInvariance, SlotInvariance, PTL

\* Nobody finds an object without memory behind it, unless its creator crashed.
THEOREM NoTrapLeft == RegionSpec => []FailureLeavesNoTrap
<1>1. SlotInv => FailureLeavesNoTrap
  BY DEF SlotInv
<1> QED
  BY <1>1, SlotInvariance, PTL

\* A registration keeps its slot, whoever crashed or left before.
THEOREM RegistrationsKept == RegionSpec => []RegistrationKept
<1>1. RegionInv /\ SlotInv => RegistrationKept
  <2> SUFFICES ASSUME RegionInv, SlotInv, ~Happened("overlap"), ~Happened("wiped"),
                      NEW p \in Subscribers, proc[p].handle # NoHandle
               PROVE  Mine(p).slots[proc[p].handle.index]
                        = [active |-> 1, generation |-> proc[p].handle.generation]
    BY DEF RegistrationKept
  <2>1. p \in Processes /\ Holding(p)
    BY DEF Processes, Holding
  <2>2. HandleOK(p) /\ Kept(p)
    BY <2>1 DEF SlotInv, KeptOK
  <2>3. SlotOf(p) \in SlotContents
    BY <2>1, <2>2, HolderTypes
  <2>4. SlotOf(p) = [active |-> 1, generation |-> proc[p].handle.generation]
    BY <2>2, <2>3 DEF Kept, SlotContents
  <2> QED
    BY <2>4 DEF SlotOf
<1> QED
  BY <1>1, RegionInvariance, SlotInvariance, PTL

\* An active slot is held by exactly one running process, a free one by nobody.
THEOREM SlotsHeld == RegionSpec => []SlotsAccountedFor
<1>1. RegionInv /\ SlotInv => SlotsAccountedFor
  <2> SUFFICES ASSUME RegionInv, SlotInv,
                      ~Happened("overlap"), ~Happened("leaked"), ~Happened("wiped"),
                      NEW o \in Objects, NEW i \in Slots
               PROVE  region[o].slots[i].active =
                        Cardinality({p \in Subscribers : proc[p].object = o /\ proc[p].handle.index = i})
    BY DEF SlotsAccountedFor
  <2> DEFINE S == {p \in Subscribers : proc[p].object = o /\ proc[p].handle.index = i}
  <2>1. ASSUME NEW p \in S
        PROVE  p \in Processes /\ Holding(p) /\ Kept(p) /\ region[o].slots[i].active = 1
    <3>1. p \in Processes /\ proc[p].object = o /\ proc[p].handle.index = i
      BY DEF Processes
    <3>2. Holding(p)
      <4>1. 0 \notin Slots
        BY DEF Slots
      <4> QED
        BY <3>1, <4>1 DEF Holding, NoHandle, NoSlot
    <3> QED
      BY <3>1, <3>2 DEF SlotInv, KeptOK, Kept, SlotOf, Mine
  <2>2. \A p, q \in S : p = q
    BY <2>1, KeptIsAlone
  <2>3. CASE region[o].slots[i].active = 1
    <3>1. PICK p \in Subscribers : proc[p].object = o /\ proc[p].handle.index = i
      BY <2>3 DEF SlotInv, ActiveHeld
    <3>2. S = {p}
      BY <2>2, <3>1
    <3> QED
      BY <2>3, <3>2, FS_Singleton
  <2>4. CASE region[o].slots[i].active = 0
    <3>1. S = {}
      BY <2>1, <2>4
    <3> QED
      BY <2>4, <3>1, FS_EmptySet
  <2> QED
    BY <2>3, <2>4, SlotTypes
<1> QED
  BY <1>1, RegionInvariance, SlotInvariance, PTL

\* The end of a subscription never frees the slot under the handle of another process.
THEOREM UnregisterKeepsOthers == RegionSpec => UnregisterSparesOthers
<1> DEFINE Spares ==
      ~Happened("overlap") /\ ~Happened("torn") =>
        \A p, q \in Subscribers :
          p # q /\ FreeSlotOf(p) /\ proc[q].object = proc[p].object
            => ~(proc[q].handle.index = proc[p].handle.index /\ SameGeneration(q, proc[q].handle))
<1>1. RegionInv /\ SlotInv /\ [RegionNext]_vars => [Spares]_vars
  <2> SUFFICES ASSUME RegionInv, SlotInv, ~Happened("overlap"), ~Happened("torn"),
                      NEW p \in Subscribers, NEW q \in Subscribers, p # q,
                      FreeSlotOf(p), proc[q].object = proc[p].object,
                      proc[q].handle.index = proc[p].handle.index,
                      SameGeneration(q, proc[q].handle)
               PROVE  FALSE
    OBVIOUS
  <2>1. p \in Processes /\ q \in Processes /\ proc[p].pc = "freeing"
    BY DEF Processes, FreeSlotOf
  <2>2. Holding(p) /\ Kept(p)
    BY <2>1 DEF SlotInv, HandleOK, FreeingOK
  <2>3. Holding(q)
    BY DEF SameGeneration, Holding, NoHandle
  <2>4. proc[q].handle.generation = proc[p].handle.generation
    BY <2>2 DEF Kept, SlotOf, Mine, SameGeneration
  <2> QED
    BY <2>1, <2>2, <2>3, <2>4 DEF SlotInv, OwnersOK
<1> QED
  BY <1>1, RegionInvariance, SlotInvariance, PTL DEF RegionSpec, UnregisterSparesOthers
=============================================================================
