--------------------------- MODULE SlotMaintenance ---------------------------
(***************************************************************************)
(* The publisher's heartbeat thread over the slots of RingPositions:       *)
(* checkSubscriberHeartbeats() frees the slots of dead subscribers, one    *)
(* access to the shared header per step, while processes register, poll,   *)
(* unregister and crash.                                                   *)
(***************************************************************************)
EXTENDS RingPositions

VARIABLE
  sweep   \* locals of checkSubscriberHeartbeats(): step, index i, pid and generation loaded

SweepSteps == {"rest", "look", "age", "load_pid", "judge", "active", "heartbeat",
               "cursor", "pid", "gen_load", "gen_store", "min"}

\* At a step with no local loaded that is still needed.
SweepAt(step, i) == [step |-> step, slot |-> i, pid |-> NoPid, gen |-> 0]

\* Nothing of RingPositions but the named slot field changes.
OtherThanSlots == <<header, pc, alive, scan, size, claimed, locals>>

SweepTo(step) == sweep' = SweepAt(step, sweep.slot)

AtSweep(step) == sweep.step = step

\* The loop variable moves on to the next slot.
NextSlot == sweep' = SweepAt("look", sweep.slot + 1)

-----------------------------------------------------------------------------
(***************************************************************************)
(* checkSubscriberHeartbeats(): one pass over the slots.                   *)
(***************************************************************************)
SweepStart ==
  /\ AtSweep("rest")
  /\ sweep' = SweepAt("look", 0)
  /\ UNCHANGED vars

SweepEnd ==
  /\ AtSweep("look")
  /\ sweep.slot = MaxSubscribers
  /\ sweep' = SweepAt("rest", 0)
  /\ UNCHANGED vars

SweepLook ==
  /\ AtSweep("look")
  /\ sweep.slot \in Slots
  /\ IF active[sweep.slot] = 1 THEN SweepTo("age") ELSE NextSlot
  /\ UNCHANGED vars

\* A heartbeat was recorded, and it is older than the timeout.  One that is stored
\* after the sweep has read the clock makes the unsigned difference wrap and counts
\* as old too: here it may Age at once.
SweepAge ==
  /\ AtSweep("age")
  /\ IF last_heartbeat[sweep.slot] = "stale" THEN SweepTo("load_pid") ELSE NextSlot
  /\ UNCHANGED vars

SweepLoadPid ==
  /\ AtSweep("load_pid")
  /\ sweep' = [sweep EXCEPT !.step = "judge", !.pid = pid[sweep.slot]]
  /\ UNCHANGED vars

\* isProcessAlive(): no process has pid 0.  kill(pid, 0) is taken to tell whether the
\* process runs: any failure of it, EPERM too, counts as dead in the code, and a pid
\* that another process was given as alive.
ProcessAlive(q) == q # NoPid /\ alive[q]

\* Mutant: an old heartbeat is enough.
SweepJudgeByAge ==
  /\ AtSweep("judge")
  /\ SweepTo("active")
  /\ UNCHANGED vars

\* Mutant: the process check inverted.
SweepJudgeInverted ==
  /\ AtSweep("judge")
  /\ IF ProcessAlive(sweep.pid) THEN SweepTo("active") ELSE NextSlot
  /\ UNCHANGED vars

SweepJudge ==
  /\ AtSweep("judge")
  /\ IF ProcessAlive(sweep.pid) THEN NextSlot ELSE SweepTo("active")
  /\ UNCHANGED vars

ClearActive ==
  /\ AtSweep("active")
  /\ active' = [active EXCEPT ![sweep.slot] = 0]
  /\ SweepTo("heartbeat")
  /\ UNCHANGED <<OtherThanSlots, cursor, last_heartbeat, pid, generation>>

ClearHeartbeat ==
  /\ AtSweep("heartbeat")
  /\ last_heartbeat' = [last_heartbeat EXCEPT ![sweep.slot] = "never"]
  /\ SweepTo("cursor")
  /\ UNCHANGED <<OtherThanSlots, active, cursor, pid, generation>>

\* Mutant: -1 as the cursor of a free slot.
ClearCursorMinusOne ==
  /\ AtSweep("cursor")
  /\ cursor' = [cursor EXCEPT ![sweep.slot] = -1]
  /\ SweepTo("pid")
  /\ UNCHANGED <<OtherThanSlots, active, last_heartbeat, pid, generation>>

ClearCursor ==
  /\ AtSweep("cursor")
  /\ cursor' = [cursor EXCEPT ![sweep.slot] = 0]
  /\ SweepTo("pid")
  /\ UNCHANGED <<OtherThanSlots, active, last_heartbeat, pid, generation>>

ClearPid ==
  /\ AtSweep("pid")
  /\ pid' = [pid EXCEPT ![sweep.slot] = NoPid]
  /\ SweepTo("gen_load")
  /\ UNCHANGED <<OtherThanSlots, active, cursor, last_heartbeat, generation>>

\* generation++ is a load and a store.
LoadGeneration ==
  /\ AtSweep("gen_load")
  /\ sweep' = [sweep EXCEPT !.step = "gen_store", !.gen = generation[sweep.slot]]
  /\ UNCHANGED vars

StoreGeneration ==
  /\ AtSweep("gen_store")
  /\ generation' = [generation EXCEPT ![sweep.slot] = sweep.gen + 1]
  /\ pc' = [pc EXCEPT ![Janitor] = "scan0"]
  /\ SweepTo("min")
  /\ UNCHANGED <<header, active, cursor, last_heartbeat, pid, alive, scan, size,
                 claimed, locals>>

\* updateMinConsumerPosition()
SweepMin ==
  /\ AtSweep("min")
  /\ \/ (ScanStart(Janitor) \/ ScanSlot(Janitor)) /\ UNCHANGED sweep
     \/ /\ ScanStore(Janitor, "idle")
        /\ NextSlot
        /\ UNCHANGED <<producer_pos, slots, alive, size, claimed, locals>>

Sweep ==
  \/ SweepStart
  \/ SweepLook
  \/ SweepAge
  \/ SweepLoadPid
  \/ SweepJudge
  \/ ClearActive
  \/ ClearHeartbeat
  \/ ClearCursor
  \/ ClearPid
  \/ LoadGeneration
  \/ StoreGeneration
  \/ SweepMin
  \/ SweepEnd

-----------------------------------------------------------------------------
\* The timeout passes without a frame for the subscriber of slot i.
Age(i) ==
  /\ last_heartbeat[i] = "fresh"
  /\ last_heartbeat' = [last_heartbeat EXCEPT ![i] = "stale"]
  /\ UNCHANGED <<OtherThanSlots, active, cursor, pid, generation, sweep>>

MaintenanceInit ==
  /\ Init
  /\ sweep = SweepAt("rest", 0)

MaintenanceNext ==
  \/ Next /\ UNCHANGED sweep
  \/ \E p \in Processes : Crash(p) /\ UNCHANGED sweep
  \/ Sweep
  \/ \E i \in Slots : Age(i)

MaintenanceSpec == MaintenanceInit /\ [][MaintenanceNext]_<<vars, sweep>>

\* heartbeatLoop() sweeps for ever and time passes; no process has to go on.
FairMaintenanceSpec ==
  /\ MaintenanceSpec
  /\ WF_<<vars, sweep>>(Sweep)
  /\ \A i \in Slots : WF_<<vars, sweep>>(Age(i))

-----------------------------------------------------------------------------
(***************************************************************************)
(* Properties.                                                             *)
(***************************************************************************)

\* The sweep's locals have their types.
SweepTypeOK ==
  /\ TypeOK
  /\ sweep \in [step : SweepSteps, slot : 0 .. MaxSubscribers,
                pid : Processes \cup {NoPid}, gen : Nat]

\* The slot that p claimed had no owner before it.
FirstOwner(p) ==
  Holding(p) /\ pc[p] \in ShownLabels /\ generation[slot[p]] = 1

\* checkSubscriberHeartbeats(), "Check if process is still alive before cleaning
\* up": the process that claims a slot first keeps it for as long as it lives.
\* It rests on registerSubscriber() storing the pid before the heartbeat.
FirstOwnerKeepsSlot ==
  \A p \in Processes : alive[p] /\ FirstOwner(p) => active[slot[p]] = 1 /\ pid[slot[p]] = p

\* Neither a slot freed beside it nor the minimum that the clean-up computes and
\* stores later takes the writer's back-pressure away from a live first owner.
FirstOwnerProtected ==
  \A p \in Processes :
    alive[p] /\ FirstOwner(p) /\ Anchored(p) => min_consumer_pos <= Floor(p)

DeadOwner(i) == active[i] = 1 /\ ~ProcessAlive(pid[i])

\* "Periodically cleans up dead/slow subscriber slots via heartbeat monitoring to
\* prevent them from blocking the ring" (README), for a slot that shows a heartbeat:
\* it is freed, or a clean-up that overlapped a registration wiped the heartbeat.
\* A slot that shows none, as after a crash before registerSubscriber() stores it, is
\* never freed.
DeadSlotsFreed ==
  \A i \in Slots :
    DeadOwner(i) /\ last_heartbeat[i] # "never"
      ~> ~DeadOwner(i) \/ last_heartbeat[i] = "never"
=============================================================================
