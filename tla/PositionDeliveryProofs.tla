------------------------ MODULE PositionDeliveryProofs ------------------------
(***************************************************************************)
(* Theorems about PositionDelivery, for any number of publishing threads,  *)
(* strategies, frames, sequence numbers and publisher objects.             *)
(***************************************************************************)
EXTENDS PositionDelivery, TLAPS

-----------------------------------------------------------------------------
(***************************************************************************)
(* The publisher.                                                          *)
(***************************************************************************)
Entries == [session : Nat, strategy : Strategies, seq : Nat \ {0}]

\* What a thread inside publishPositions() has drawn and loaded so far.
Calls ==
  {Idle} \cup [at : {"check", "load"}, strategy : Strategies, seq : 1 .. MaxSequence]
         \cup [at : {"write"}, strategy : Strategies, seq : 1 .. MaxSequence, session : Nat]

\* A publisher object that is not connected, and was not disconnected, has no calls;
\* what its threads have loaded is its session, or no session.
CallsOK ==
  /\ call \in [PubThreads -> Calls]
  /\ ~connected /\ ~cleanup_started => \A t \in PubThreads : call[t] = Idle
  /\ connected \/ cleanup_started => session_id \in {0, sessions}
  /\ \A t \in PubThreads : call[t].at = "write" => call[t].session \in {0, sessions}

\* The sessions of the frames never go back.
SessionsInOrder ==
  /\ \A i \in DOMAIN log : log[i].session <= sessions
  /\ \A i, j \in DOMAIN log : i < j => log[j].session = 0 \/ log[i].session <= log[j].session

PublisherInv == PublisherTypeOK /\ CallsOK /\ SessionsInOrder

\* The bounds are numbers.
LEMMA BoundsLemma == MaxSequence \in Nat /\ MaxSessions \in Nat /\ MaxLog \in Nat
BY PublisherAssumption

\* The log only grows, by frames of the current session or of none.
LogGrows ==
  \/ log' = log
  \/ \E frame \in Entries : frame.session \in {0, sessions} /\ log' = Append(log, frame)

\* What publishPositions() may do to the topic.
LEMMA PublishStep ==
  ASSUME PublisherInv, NEW t \in PubThreads, PublishPositions(t)
  PROVE  LogGrows /\ sessions' = sessions /\ producer_heartbeat' = producer_heartbeat
<1>1. CASE Publish(t)
  <2> DEFINE frame == [session |-> call[t].session, strategy |-> call[t].strategy,
                       seq |-> call[t].seq]
  <2>1. call[t] \in [at : {"write"}, strategy : Strategies, seq : 1 .. MaxSequence, session : Nat]
    BY <1>1 DEF Publish, PublisherInv, CallsOK, Calls, Idle
  <2>2. frame \in Entries /\ frame.session \in {0, sessions}
    BY <1>1, <2>1, BoundsLemma DEF Entries, Publish, PublisherInv, CallsOK
  <2>3. log' = log \/ log' = Append(log, frame)
    BY <1>1 DEF Publish, ChannelPublish
  <2> QED
    BY <1>1, <2>2, <2>3 DEF Publish, LogGrows
<1>2. CASE ~Publish(t)
  BY <1>2
  DEF PublishPositions, TakeSequence, GiveUp, CheckSessionId, LoadSessionId, topic, LogGrows
<1> QED
  BY <1>1, <1>2

\* What a publisher step may do to the topic and to the counter of sessions.
LEMMA PublisherFrame ==
  ASSUME PublisherInv, Publisher
  PROVE  LogGrows /\ sessions' \in Nat /\ sessions <= sessions'
<1>1. ASSUME NEW t \in PubThreads, PublishPositions(t)
      PROVE  LogGrows /\ sessions' \in Nat /\ sessions <= sessions'
  BY <1>1, PublishStep, BoundsLemma DEF PublisherInv, PublisherTypeOK
<1>2. CASE \/ Connect \/ Wake \/ SendHeartbeat \/ Disconnect
           \/ JoinHeartbeat \/ ClearSession \/ Restart
  BY <1>2, BoundsLemma
  DEF Connect, Wake, SendHeartbeat, Disconnect, JoinHeartbeat, ClearSession, Restart, topic,
      LogGrows, PublisherInv, PublisherTypeOK
<1> QED
  BY <1>1, <1>2 DEF Publisher

\* New sessions have greater ids, and a frame carries the newest one or none.
LEMMA SessionsInOrderStep ==
  ASSUME SessionsInOrder, log \in Seq(Entries), LogGrows, sessions \in Nat, sessions' \in Nat,
         sessions <= sessions'
  PROVE  SessionsInOrder' /\ log' \in Seq(Entries)
<1>1. CASE log' = log
  <2>1. DOMAIN log = 1 .. Len(log) /\ \A i \in DOMAIN log : log[i] \in Entries
    OBVIOUS
  <2>2. \A i \in DOMAIN log : log[i].session \in Nat
    BY <2>1 DEF Entries
  <2> QED
    BY <1>1, <2>2 DEF SessionsInOrder
<1>2. ASSUME NEW frame \in Entries, frame.session \in {0, sessions}, log' = Append(log, frame)
      PROVE  SessionsInOrder' /\ log' \in Seq(Entries)
  <2>1. /\ log' \in Seq(Entries) /\ Len(log) \in Nat
        /\ DOMAIN log = 1 .. Len(log) /\ DOMAIN log' = 1 .. (Len(log) + 1)
        /\ \A i \in 1 .. Len(log) : log'[i] = log[i]
        /\ log'[Len(log) + 1] = frame
        /\ \A i \in 1 .. Len(log) : log[i] \in Entries
    BY <1>2
  <2>2. \A i \in 1 .. Len(log) : log[i].session \in Nat /\ log[i].session <= sessions
    BY <2>1 DEF SessionsInOrder, Entries
  <2>3. ASSUME NEW i \in 1 .. (Len(log) + 1)
        PROVE  log'[i].session \in Nat /\ log'[i].session <= sessions'
    <3>1. CASE i = Len(log) + 1
      BY <1>2, <2>1, <3>1 DEF Entries
    <3>2. CASE i \in 1 .. Len(log)
      BY <2>1, <2>2, <3>2
    <3> QED
      BY <2>1, <3>1, <3>2
  <2>4. ASSUME NEW i \in 1 .. (Len(log) + 1), NEW j \in 1 .. (Len(log) + 1), i < j
        PROVE  log'[j].session = 0 \/ log'[i].session <= log'[j].session
    <3>1. CASE j = Len(log) + 1
      BY <1>2, <2>1, <2>2, <2>4, <3>1
    <3>2. CASE j \in 1 .. Len(log)
      BY <2>1, <2>4, <3>2 DEF SessionsInOrder
    <3> QED
      BY <2>1, <3>1, <3>2
  <2> QED
    BY <2>1, <2>3, <2>4 DEF SessionsInOrder
<1> QED
  BY <1>1, <1>2 DEF LogGrows

\* One step of publishPositions() in thread t.
LEMMA CallStep ==
  ASSUME PublisherInv, NEW t \in PubThreads, PublishPositions(t)
  PROVE  /\ UNCHANGED <<flags, session_id, beat, closing, sessions>>
         /\ sequence_number' \in 0 .. MaxSequence
         /\ call'[t] \in Calls
         /\ call' = [call EXCEPT ![t] = call'[t]]
         /\ call'[t].at = "write" => call'[t].session \in {0, sessions}
         /\ connected \/ cleanup_started
<1>0. /\ call \in [PubThreads -> Calls] /\ call[t] \in Calls
      /\ sequence_number \in 0 .. MaxSequence /\ MaxSequence \in Nat
      /\ sessions \in Nat /\ session_id \in Nat
  BY BoundsLemma DEF PublisherInv, PublisherTypeOK, CallsOK
<1>1. CASE \E strategy \in Strategies : TakeSequence(t, strategy)
  <2>1. PICK strategy \in Strategies : TakeSequence(t, strategy)
    BY <1>1
  <2> DEFINE new == [at |-> "check", strategy |-> strategy, seq |-> sequence_number + 1]
  <2>2. call' = [call EXCEPT ![t] = new] /\ call'[t] = new
    BY <1>0, <2>1 DEF TakeSequence
  <2>3. new \in Calls
    BY <1>0, <2>1 DEF TakeSequence, Calls
  <2> QED
    BY <1>0, <2>1, <2>2, <2>3 DEF TakeSequence, flags
<1>2. CASE GiveUp(t) \/ Publish(t)
  <2>1. call' = [call EXCEPT ![t] = Idle] /\ call'[t] = Idle
    BY <1>0, <1>2 DEF GiveUp, Publish
  <2>2. call[t] # Idle
    BY <1>2 DEF GiveUp, Publish, Idle
  <2> QED
    BY <1>0, <1>2, <2>1, <2>2 DEF GiveUp, Publish, Calls, Idle, PublisherInv, CallsOK
<1>3. CASE CheckSessionId(t)
  <2> DEFINE new == [call[t] EXCEPT !.at = "load"]
  <2>1. call' = [call EXCEPT ![t] = new] /\ call'[t] = new
    BY <1>0, <1>3 DEF CheckSessionId
  <2>2. call[t] \in [at : {"check", "load"}, strategy : Strategies, seq : 1 .. MaxSequence]
    BY <1>0, <1>3 DEF CheckSessionId, Calls, Idle
  <2>3. new \in Calls /\ new.at = "load"
    BY <2>2 DEF Calls
  <2> QED
    BY <1>0, <1>3, <2>1, <2>3 DEF CheckSessionId
<1>4. CASE LoadSessionId(t)
  <2> DEFINE new == [at |-> "write", strategy |-> call[t].strategy, seq |-> call[t].seq,
                     session |-> session_id]
  <2>1. call' = [call EXCEPT ![t] = new] /\ call'[t] = new
    BY <1>0, <1>4 DEF LoadSessionId
  <2>2. call[t] \in [at : {"check", "load"}, strategy : Strategies, seq : 1 .. MaxSequence]
    BY <1>0, <1>4 DEF LoadSessionId, Calls, Idle
  <2>3. new \in Calls
    BY <1>0, <2>2 DEF Calls
  <2>4. call[t] # Idle
    BY <1>4 DEF LoadSessionId, Idle
  <2>5. connected \/ cleanup_started
    BY <2>4 DEF PublisherInv, CallsOK
  <2> QED
    BY <1>0, <1>4, <2>1, <2>3, <2>5 DEF LoadSessionId, PublisherInv, CallsOK
<1> QED
  BY <1>1, <1>2, <1>3, <1>4 DEF PublishPositions

\* The steps outside publishPositions().
LEMMA ObjectStep ==
  ASSUME PublisherInv,
         Connect \/ Wake \/ SendHeartbeat \/ Disconnect \/ JoinHeartbeat \/ ClearSession \/ Restart
  PROVE  /\ PublisherTypeOK' /\ CallsOK'
<1> USE BoundsLemma DEF PublisherInv, topic, flags
<1>i. Idle \in Calls /\ Idle.at = "idle"
  BY DEF Calls, Idle
<1>1. CASE Connect
  <2>1. PublisherTypeOK'
    BY <1>1, PublisherAssumption DEF Connect, PublisherTypeOK
  <2>2. CallsOK'
    BY <1>1, <1>i DEF Connect, CallsOK, Idle
  <2> QED
    BY <2>1, <2>2
<1>2. CASE Wake \/ SendHeartbeat
  <2>1. CallsOK'
    BY <1>2 DEF Wake, SendHeartbeat, CallsOK
  <2>2. PublisherTypeOK'
    BY <1>2 DEF Wake, SendHeartbeat, PublisherTypeOK
  <2> QED
    BY <2>1, <2>2
<1>3. CASE Disconnect
  <2>1. CallsOK'
    BY <1>3 DEF Disconnect, CallsOK
  <2>2. PublisherTypeOK'
    BY <1>3 DEF Disconnect, PublisherTypeOK
  <2> QED
    BY <2>1, <2>2
<1>5. CASE JoinHeartbeat \/ ClearSession
  <2>1. CallsOK'
    BY <1>5 DEF JoinHeartbeat, ClearSession, CallsOK
  <2>2. PublisherTypeOK'
    BY <1>5 DEF JoinHeartbeat, ClearSession, PublisherTypeOK
  <2> QED
    BY <2>1, <2>2
<1>4. CASE Restart
  <2>1. CallsOK'
    BY <1>4, <1>i DEF Restart, CallsOK
  <2>2. \A t \in PubThreads : call'[t] = Idle
    BY <1>4 DEF Restart
  <2>3. 0 \in 0 .. sessions /\ 0 \in 0 .. MaxSequence /\ sessions \in 0 .. MaxSessions
    BY DEF PublisherTypeOK
  <2>4. PublisherTypeOK'
    <3> HIDE BoundsLemma
    <3>1. log' = log /\ producer_heartbeat' = producer_heartbeat /\ sessions' = sessions
      BY <1>4 DEF Restart
    <3>2. /\ ~connected' /\ ~running' /\ ~cleanup_started'
          /\ session_id' = 0 /\ sequence_number' = 0 /\ beat' = "none" /\ closing' = "no"
      BY <1>4 DEF Restart
    <3>3. {connected', running', cleanup_started'} \subseteq BOOLEAN
      BY <1>4 DEF Restart
    <3> QED
      BY <1>i, <2>2, <2>3, <3>1, <3>2, <3>3 DEF PublisherTypeOK
  <2> QED
    BY <2>1, <2>4
<1> QED
  BY <1>1, <1>2, <1>3, <1>4, <1>5

\* The publisher's part of the invariant is kept by each of its steps.
LEMMA PublisherStepInv ==
  ASSUME PublisherInv, Publisher
  PROVE  PublisherInv'
<1>1. SessionsInOrder' /\ log' \in Seq(Entries)
  BY PublisherFrame, SessionsInOrderStep, BoundsLemma DEF PublisherInv, PublisherTypeOK, Entries
<1>2. CASE \E t \in PubThreads : PublishPositions(t)
  <2>1. PICK t \in PubThreads : PublishPositions(t)
    BY <1>2
  <2> USE <2>1, PublishStep, CallStep
  <2>2. PublisherTypeOK'
    <3>1. \A u \in PubThreads : call[u].at \in {"idle", "check", "load", "write"}
      BY DEF PublisherInv, PublisherTypeOK
    <3>2. call'[t].at \in {"idle", "check", "load", "write"}
      BY DEF Calls, Idle
    <3> QED
      BY <1>1, <3>1, <3>2 DEF PublisherInv, PublisherTypeOK, CallsOK, flags, Entries
  <2>3. CallsOK'
    <3>1. call' \in [PubThreads -> Calls]
      BY DEF PublisherInv, CallsOK
    <3>2. \A u \in PubThreads : call'[u].at = "write" => call'[u].session \in {0, sessions}
      BY DEF PublisherInv, CallsOK
    <3> QED
      BY <3>1, <3>2 DEF PublisherInv, CallsOK, flags
  <2> QED
    BY <1>1, <2>2, <2>3 DEF PublisherInv
<1>3. CASE \/ Connect \/ Wake \/ SendHeartbeat \/ Disconnect
           \/ JoinHeartbeat \/ ClearSession \/ Restart
  BY <1>1, <1>3, ObjectStep DEF PublisherInv
<1> QED
  BY <1>2, <1>3 DEF Publisher

-----------------------------------------------------------------------------
(***************************************************************************)
(* The subscriber's threads.                                               *)
(***************************************************************************)

\* Which thread may be where while the application is in which call.
ThreadsOK ==
  /\ sub_running <=> app \in {"subscribed", "polling"}
  /\ \A t \in Pollers : poll[t].at = "rest" => poll[t] = Resting
  /\ poll["app"] # Resting => app = "polling" /\ app_polled
  /\ app \in {"none", "connect", "join_heartbeat", "unregister"} => poll["message"] = Resting
  /\ app \in {"none", "connect", "unregister"} => watch = Unwatched

\* The steps that touch neither the log nor what was read of it.
Quiet == UNCHANGED <<log, cursor, tracking, poll, history>>

\* Register and Unregister: nothing is left of an earlier subscription.
Reset ==
  /\ log' = log /\ poll' = poll
  /\ start' = cursor' /\ cursor' \in 0 .. Len(log)
  /\ handed' = {} /\ flagged' = {} /\ app_polled' = FALSE
  /\ current_session_id' = 0 /\ strategy_sequence_map' = NothingSeen
  /\ \A t \in Pollers : poll[t] = Resting

PollLabels == {"rest", "session", "clear", "adopt", "order", "deliver", "advance"}

\* The steps of a subscriber other than those of a poll.
OtherStep ==
  \/ Subscribe
  \/ Here(StartThreads)
  \/ Notice
  \/ Here(OtherWatch)
  \/ Here(Unsubscribe)

\* Of them only the first and the last of a subscription touch what was read.
LEMMA OtherKinds ==
  ASSUME SubscriberTypeOK, ThreadsOK, log \in Seq(Entries), OtherStep
  PROVE  /\ Quiet \/ Reset
         /\ UNCHANGED <<topic, publisher>>
<1> USE DEF topic, tracking, history
<1>0. Len(log) \in Nat /\ "message" \in Pollers /\ "app" \in Pollers
  BY DEF Pollers
<1>1. CASE Subscribe
  BY <1>1, <1>0 DEF Subscribe, Register, Reset, ThreadsOK, Pollers
<1>2. CASE Here(Unregister)
  BY <1>2, <1>0 DEF Here, Unregister, Reset, ThreadsOK, Pollers
<1>3. CASE \/ Here(StartThreads)
           \/ Notice
           \/ Here(OtherWatch)
           \/ Here(StopThreads \/ JoinMessage \/ JoinWatch)
  BY <1>3
  DEF Here, StartThreads, Notice, PublisherDisconnected, OtherWatch, WatchLoad, WatchEnds,
      HeartbeatLost, HeartbeatRecovered, StopThreads, JoinMessage, JoinWatch, Quiet
<1> QED
  BY <1>1, <1>2, <1>3 DEF OtherStep, Here, Unsubscribe

Apps == {"none", "connect", "subscribed", "polling", "join_message", "join_heartbeat", "unregister"}

Watches == [at : {"none", "sleep", "judge", "callback"}, alive : BOOLEAN, lost : BOOLEAN]

ThreadTypes == app \in Apps /\ sub_running \in BOOLEAN /\ watch \in Watches
               /\ producer_heartbeat_lost \in BOOLEAN

\* The heartbeat thread runs and does not end.
LEMMA WatchMoves ==
  ASSUME ThreadTypes, ThreadsOK, watch.at # "none", watch' \in Watches,
         producer_heartbeat_lost' \in BOOLEAN,
         UNCHANGED <<app, sub_running, poll, app_polled>>
  PROVE  ThreadTypes' /\ ThreadsOK'
<1>1. app \notin {"none", "connect", "unregister"}
  BY DEF ThreadsOK, Unwatched
<1> QED
  BY <1>1 DEF ThreadTypes, ThreadsOK

\* The order of the threads' starts and joins is kept.
LEMMA ThreadsStep ==
  ASSUME ThreadTypes, ThreadsOK, OtherStep
  PROVE  ThreadTypes' /\ ThreadsOK'
<1>w. /\ Unwatched \in Watches
      /\ [Unwatched EXCEPT !.at = "sleep"] \in Watches
      /\ [watch EXCEPT !.at = "callback"] \in Watches
      /\ [at |-> "judge", alive |-> ProducerAlive, lost |-> producer_heartbeat_lost] \in Watches
  BY DEF ThreadTypes, Watches, Unwatched, ProducerAlive
<1>1. CASE Subscribe
  BY <1>1 DEF Subscribe, Register, ThreadTypes, ThreadsOK, Apps
<1>2. CASE Here(StartThreads)
  BY <1>2, <1>w DEF Here, StartThreads, history, ThreadTypes, ThreadsOK, Apps
<1>3. CASE Notice \/ Here(WatchLoad) \/ Here(HeartbeatLost) \/ Here(HeartbeatRecovered)
  <2>1. /\ watch.at # "none" /\ watch' \in Watches /\ producer_heartbeat_lost' \in BOOLEAN
        /\ UNCHANGED <<app, sub_running, poll, app_polled>>
    BY <1>3, <1>w
    DEF Notice, PublisherDisconnected, Here, WatchLoad, HeartbeatLost, HeartbeatRecovered, history,
        ThreadTypes
  <2> QED
    BY <2>1, WatchMoves
<1>4. CASE Here(WatchEnds)
  BY <1>4, <1>w DEF Here, WatchEnds, history, ThreadTypes, ThreadsOK
<1>5. CASE Here(StopThreads)
  BY <1>5 DEF Here, StopThreads, history, ThreadTypes, ThreadsOK, Apps
<1>6. CASE Here(JoinMessage)
  BY <1>6 DEF Here, JoinMessage, history, ThreadTypes, ThreadsOK, Apps
<1>7. CASE Here(JoinWatch)
  BY <1>7 DEF Here, JoinWatch, history, ThreadTypes, ThreadsOK, Apps
<1>8. CASE Here(Unregister)
  <2>1. app = "unregister" /\ app' = "none" /\ ~app_polled' /\ producer_heartbeat_lost' = FALSE
        /\ UNCHANGED <<sub_running, poll, watch>>
    BY <1>8 DEF Here, Unregister
  <2> QED
    BY <2>1 DEF ThreadTypes, ThreadsOK, Apps
<1> QED
  BY <1>1, <1>2, <1>3, <1>4, <1>5, <1>6, <1>7, <1>8 DEF OtherStep, Here, OtherWatch, Unsubscribe

-----------------------------------------------------------------------------
(***************************************************************************)
(* What the pollers have read.                                             *)
(***************************************************************************)
ReadingTypes ==
  /\ poll \in [Pollers -> [at : PollLabels, frame : Nat]]
  /\ cursor \in Nat /\ start \in Nat /\ start <= cursor /\ cursor <= Len(log)
  /\ current_session_id \in Nat /\ strategy_sequence_map \in [SubStrategies -> Nat]
  /\ handed \subseteq start + 1 .. Len(log) /\ flagged \subseteq 1 .. Len(log)
  /\ app_polled \in BOOLEAN

\* A poller that has found a frame leaves none below it that was not handed over.
ReadingOK(t) ==
  /\ poll[t].at # "rest" => /\ poll[t].frame \in start + 1 .. Len(log)
                            /\ start + 1 .. poll[t].frame - 1 \subseteq handed
  /\ poll[t].at = "advance" => poll[t].frame \in handed

\* While only the message thread polls, it takes the frames in order.
LoopOK ==
  ~app_polled =>
    /\ poll["message"].at # "rest" => poll["message"].frame = cursor + 1
    /\ \A i \in handed : i <= cursor \/ (poll["message"].at = "advance" /\ i = cursor + 1)

\* The frames that were validated.
Validated ==
  handed \cup {poll[t].frame : t \in {u \in Pollers : poll[u].at \in {"deliver", "advance"}}}

\* What strategy_sequence_map holds of strategy s is the number of a validated frame of s;
\* with one poller, of the session being read.
SourceOK(s) ==
  strategy_sequence_map[s] # 0 =>
    \E i \in Validated : /\ log[i].strategy = s
                         /\ log[i].seq = strategy_sequence_map[s]
                         /\ app_polled \/ log[i].session = current_session_id

\* Where the message thread is between two sessions.
SessionOK ==
  ~app_polled =>
    /\ poll["message"].at = "adopt" => strategy_sequence_map = NothingSeen
    /\ poll["message"].at \in {"order", "deliver", "advance"} =>
         current_session_id = log[poll["message"].frame].session

ReadingInv ==
  /\ ReadingTypes
  /\ \A t \in Pollers : ReadingOK(t)
  /\ NothingSkipped
  /\ LoopOK
  /\ \A s \in SubStrategies : SourceOK(s)
  /\ SessionOK

\* A step of a poll moves its own thread only.
LEMMA LabelEffect ==
  ASSUME poll \in [Pollers -> [at : PollLabels, frame : Nat]], NEW t \in Pollers,
         NEW label \in PollLabels, To(t, label)
  PROVE  /\ poll'[t].at = label /\ poll'[t].frame = poll[t].frame
         /\ \A u \in Pollers \ {t} : poll'[u] = poll[u]
         /\ poll' \in [Pollers -> [at : PollLabels, frame : Nat]]
BY DEF To

\* Frames keep their place in the log.
LEMMA LogStays ==
  ASSUME log \in Seq(Entries), LogGrows
  PROVE  /\ log' \in Seq(Entries) /\ Len(log) \in Nat /\ Len(log') \in Nat
         /\ Len(log) <= Len(log')
         /\ \A i \in 1 .. Len(log) : log'[i] = log[i]
<1>1. CASE log' = log
  BY <1>1
<1>2. ASSUME NEW frame \in Entries, log' = Append(log, frame)
      PROVE  /\ log' \in Seq(Entries) /\ Len(log) \in Nat /\ Len(log') \in Nat
             /\ Len(log) <= Len(log')
             /\ \A i \in 1 .. Len(log) : log'[i] = log[i]
  BY <1>2
<1> QED
  BY <1>1, <1>2 DEF LogGrows

\* Frames that are appended disturb no poll.
LEMMA GrowReading ==
  ASSUME ReadingInv, log \in Seq(Entries), LogGrows, UNCHANGED subscriber
  PROVE  ReadingInv'
<1>1. /\ UNCHANGED <<cursor, current_session_id, strategy_sequence_map, poll>>
      /\ UNCHANGED <<start, handed, flagged, app_polled>>
  BY DEF subscriber, tracking, history
<1>2. /\ Len(log) \in Nat /\ Len(log') \in Nat /\ Len(log) <= Len(log')
      /\ \A i \in 1 .. Len(log) : log'[i] = log[i]
  BY LogStays
<1> USE <1>1, <1>2 DEF ReadingInv
<1>3. ReadingTypes'
  BY DEF ReadingTypes
<1>4. ASSUME NEW t \in Pollers PROVE ReadingOK(t)'
  BY DEF ReadingOK, ReadingTypes
<1>5. NothingSkipped' /\ LoopOK'
  BY DEF NothingSkipped, LoopOK
<1>6. Validated' = Validated /\ \A i \in Validated : log'[i] = log[i]
  BY DEF Validated, ReadingTypes, ReadingOK
<1>7. ASSUME NEW s \in SubStrategies PROVE SourceOK(s)'
  BY <1>6 DEF SourceOK
<1>8. SessionOK'
  BY DEF SessionOK, ReadingOK, ReadingTypes, Pollers
<1> QED
  BY <1>3, <1>4, <1>5, <1>7, <1>8

\* Steps of the heartbeat thread, and starts and joins.
LEMMA QuietReading ==
  ASSUME ReadingInv, Quiet
  PROVE  ReadingInv'
BY DEF Quiet, tracking, history, ReadingInv, ReadingTypes, ReadingOK, NothingSkipped, LoopOK,
       SourceOK, SessionOK, Validated

\* A new subscription has nothing to hand over below its cursor.
LEMMA EmptyRange == \A n \in Int : \A i \in n + 1 .. n : FALSE
OBVIOUS

\* A subscription begins and ends with nothing read.
LEMMA ResetReading ==
  ASSUME ReadingInv, log \in Seq(Entries), Reset
  PROVE  ReadingInv'
<1> USE DEF Reset
<1>1. Len(log) \in Nat /\ \A t \in Pollers : poll[t].at = "rest"
  BY DEF Resting
<1>2. ReadingTypes'
  <2>1. cursor' \in Nat /\ start' \in Nat /\ start' <= cursor' /\ cursor' <= Len(log')
    BY <1>1
  <2>2. NothingSeen \in [SubStrategies -> Nat]
    BY DEF NothingSeen
  <2>3. poll' \in [Pollers -> [at : PollLabels, frame : Nat]]
    BY DEF ReadingInv, ReadingTypes
  <2> QED
    BY <2>1, <2>2, <2>3 DEF ReadingTypes
<1>3. NothingSkipped'
  <2>1. cursor' \in Int /\ start' \in Int /\ start' = cursor'
    BY <1>1
  <2>2. \A i \in start' + 1 .. cursor' : FALSE
    BY <2>1, EmptyRange
  <2> QED
    BY <2>2 DEF NothingSkipped
<1>6. LoopOK' /\ SessionOK'
  BY <1>1 DEF LoopOK, SessionOK, Pollers
<1>4. ASSUME NEW t \in Pollers PROVE ReadingOK(t)'
  BY <1>1 DEF ReadingOK
<1>5. ASSUME NEW s \in SubStrategies PROVE SourceOK(s)'
  BY DEF SourceOK, NothingSeen
<1> QED
  BY <1>2, <1>3, <1>4, <1>5, <1>6 DEF ReadingInv

\* Inside pollMessages(): a thread other than the message thread shows in app_polled.
LEMMA PollerKnown ==
  ASSUME ThreadsOK, NEW t \in Pollers, poll[t] # Resting
  PROVE  /\ ~app_polled => t = "message"
         /\ t = "app" => app = "polling"
BY DEF ThreadsOK, Pollers

\* A poll begins and ends only where its thread may poll.
LEMMA PollThreads ==
  ASSUME ThreadTypes, ThreadsOK, ReadingTypes, NEW t \in Pollers, Here(PollMessages(t))
  PROVE  ThreadTypes' /\ ThreadsOK'
<1> USE DEF Pollers
<1>r. poll[t].at # "rest" => poll[t] # Resting
  BY DEF Resting
<1>t. poll[t] \in [at : PollLabels, frame : Nat]
  BY DEF ReadingTypes
<1>1. CASE FindFrame(t)
  <2>1. /\ sub_running /\ poll'[t] # Resting /\ poll'[t].at # "rest"
        /\ \A u \in Pollers \ {t} : poll'[u] = poll[u]
        /\ UNCHANGED <<sub_running, watch, producer_heartbeat_lost>>
    BY <1>1 DEF FindFrame, MayPoll, Resting, ReadingTypes
  <2>5. app_polled' <=> (app_polled \/ t = "app")
    BY <1>1 DEF FindFrame
  <2>6. sub_running' = sub_running /\ app' = IF t = "app" THEN "polling" ELSE app
    BY <1>1 DEF FindFrame
  <2>4. /\ app \in {"subscribed", "polling"} /\ app' \in {"subscribed", "polling"} /\ sub_running'
        /\ t = "app" => app' = "polling" /\ app_polled'
        /\ t # "app" => app' = app
        /\ app_polled => app_polled'
    BY <2>1, <2>5, <2>6 DEF ThreadsOK
  <2>2. CASE t = "app"
    BY <2>1, <2>2, <2>4 DEF ThreadTypes, ThreadsOK, Apps
  <2>3. CASE t = "message"
    BY <2>1, <2>3, <2>4 DEF ThreadTypes, ThreadsOK, Apps
  <2> QED
    BY <2>2, <2>3
<1>2. ASSUME NEW label \in PollLabels \ {"rest"}, To(t, label), poll[t].at # "rest",
             UNCHANGED <<app, sub_running, watch, producer_heartbeat_lost, app_polled>>
      PROVE  ThreadTypes' /\ ThreadsOK'
  <2>1. /\ poll'[t].at # "rest"
        /\ \A u \in Pollers \ {t} : poll'[u] = poll[u]
    BY <1>2, LabelEffect DEF ReadingTypes
  <2> QED
    BY <1>2, <1>r, <2>1 DEF ThreadTypes, ThreadsOK
<1>3. CASE CheckSession(t) \/ ClearMap(t) \/ AdoptSession(t) \/ ValidateOrdering(t) \/ Deliver(t)
  <2>1. \E label \in PollLabels \ {"rest"} : To(t, label)
    BY <1>3 DEF CheckSession, ClearMap, AdoptSession, ValidateOrdering, Deliver, PollLabels
  <2> QED
    BY <1>2, <1>3, <2>1
    DEF CheckSession, ClearMap, AdoptSession, ValidateOrdering, Deliver, history
<1>4. CASE Advance(t)
  <2>1. /\ poll'[t] = Resting /\ \A u \in Pollers \ {t} : poll'[u] = poll[u]
        /\ poll[t] # Resting
        /\ UNCHANGED <<sub_running, watch, producer_heartbeat_lost, app_polled>>
    BY <1>4, <1>r DEF Advance, history, ReadingTypes
  <2>2. CASE t = "app"
    BY <1>4, <2>1, <2>2 DEF Advance, ThreadTypes, ThreadsOK, Apps
  <2>3. CASE t = "message"
    BY <1>4, <2>1, <2>3 DEF Advance, ThreadTypes, ThreadsOK, Apps
  <2> QED
    BY <2>2, <2>3
<1> QED
  BY <1>1, <1>3, <1>4 DEF Here, PollMessages

\* A number in the map keeps its frame.
LEMMA SourceStays ==
  ASSUME NEW s \in SubStrategies, SourceOK(s), log' = log, Validated \subseteq Validated',
         strategy_sequence_map'[s] \in {0, strategy_sequence_map[s]},
         app_polled \/ current_session_id' = current_session_id,
         app_polled => app_polled'
  PROVE  SourceOK(s)'
BY DEF SourceOK

\* poll() finds the frame behind the cursor.
LEMMA FindFrameReading ==
  ASSUME ReadingInv, ThreadsOK, log \in Seq(Entries), NEW t \in Pollers, FindFrame(t)
  PROVE  ReadingInv'
<1> USE DEF ReadingInv
<1>1. /\ log' = log /\ cursor' = cursor /\ start' = start /\ handed' = handed /\ flagged' = flagged
      /\ current_session_id' = current_session_id
      /\ strategy_sequence_map' = strategy_sequence_map
      /\ app_polled' <=> (app_polled \/ t = "app")
      /\ app_polled' \in BOOLEAN
      /\ poll' = [poll EXCEPT ![t] = [at |-> "session", frame |-> cursor + 1]]
      /\ cursor < Len(log) /\ poll[t] = Resting
  BY DEF FindFrame, topic, tracking
<1>2. /\ poll'[t] = [at |-> "session", frame |-> cursor + 1]
      /\ poll'[t].at = "session" /\ poll'[t].frame = cursor + 1
      /\ \A u \in Pollers \ {t} : poll'[u] = poll[u]
  BY <1>1 DEF ReadingTypes
<1>3. ReadingTypes'
  <2>1. [at |-> "session", frame |-> cursor + 1] \in [at : PollLabels, frame : Nat]
    BY DEF PollLabels, ReadingTypes
  <2> QED
    BY <1>1, <2>1 DEF ReadingTypes
<1>4. ASSUME NEW u \in Pollers PROVE ReadingOK(u)'
  <2>1. CASE u = t
    <3>1. poll'[u].at = "session" /\ poll'[u].frame = cursor + 1
      BY <1>2, <2>1
    <3>2. cursor + 1 \in start + 1 .. Len(log) /\ (cursor + 1) - 1 = cursor
      BY <1>1 DEF ReadingTypes
    <3>3. /\ poll'[u].frame \in start' + 1 .. Len(log')
          /\ start' + 1 .. poll'[u].frame - 1 = start + 1 .. cursor
      BY <1>1, <3>1, <3>2
    <3> QED
      BY <1>1, <3>1, <3>3 DEF ReadingOK, NothingSkipped
  <2>2. CASE u # t
    BY <1>1, <1>2, <2>2 DEF ReadingOK
  <2> QED
    BY <2>1, <2>2
<1>5. NothingSkipped'
  BY <1>1 DEF NothingSkipped
<1>6. LoopOK' /\ SessionOK'
  <2>1. SUFFICES ASSUME ~app_polled' PROVE LoopOK' /\ SessionOK'
    BY DEF LoopOK, SessionOK
  <2>2. ~app_polled /\ t = "message" /\ poll[t].at = "rest"
    BY <1>1, <2>1 DEF Pollers, Resting
  <2>3. \A i \in handed : i <= cursor
    BY <2>2 DEF LoopOK
  <2> QED
    BY <1>1, <1>2, <2>2, <2>3 DEF LoopOK, SessionOK
<1>7. Validated \subseteq Validated'
  BY <1>1, <1>2 DEF Validated, Resting
<1>8. ASSUME NEW s \in SubStrategies PROVE SourceOK(s)'
  BY <1>1, <1>7, SourceStays
<1> QED
  BY <1>3, <1>4, <1>5, <1>6, <1>8

\* The steps between two labels that leave cursor and history alone.
LEMMA SessionReading ==
  ASSUME ReadingInv, ThreadsOK, log \in Seq(Entries), NEW t \in Pollers,
         CheckSession(t) \/ ClearMap(t) \/ AdoptSession(t)
  PROVE  ReadingInv'
<1> USE DEF ReadingInv
<1>1. /\ log' = log /\ cursor' = cursor /\ UNCHANGED <<start, handed, flagged, app_polled>>
      /\ poll[t].at \in {"session", "clear", "adopt"}
  BY DEF CheckSession, ClearMap, AdoptSession, topic, history
<1>l. PICK label \in {"order", "clear", "adopt"} : To(t, label)
  BY DEF CheckSession, ClearMap, AdoptSession
<1>2. /\ poll'[t].at = label /\ poll'[t].frame = poll[t].frame
      /\ \A u \in Pollers \ {t} : poll'[u] = poll[u]
      /\ poll' \in [Pollers -> [at : PollLabels, frame : Nat]]
      /\ poll[t] # Resting
  BY <1>1, <1>l, LabelEffect DEF ReadingTypes, PollLabels, Resting
<1>f. poll[t].frame \in 1 .. Len(log) /\ Frame(t) \in Entries
  <2>1. poll[t].frame \in 1 .. Len(log)
    BY <1>1 DEF ReadingOK, ReadingTypes
  <2> QED
    BY <2>1 DEF Frame
<1>3. ReadingTypes'
  <2>1. current_session_id' \in Nat
    BY <1>f DEF CheckSession, ClearMap, AdoptSession, tracking, Entries, ReadingTypes
  <2>2. strategy_sequence_map' \in [SubStrategies -> Nat]
    BY DEF CheckSession, ClearMap, AdoptSession, tracking, NothingSeen, ReadingTypes
  <2> QED
    BY <1>1, <1>2, <2>1, <2>2 DEF ReadingTypes
<1>4. ASSUME NEW u \in Pollers PROVE ReadingOK(u)'
  BY <1>1, <1>2 DEF ReadingOK
<1>5. NothingSkipped'
  BY <1>1 DEF NothingSkipped
<1>p. app_polled \/ t = "message"
  BY <1>2, PollerKnown
<1>6. LoopOK'
  BY <1>1, <1>2, <1>p DEF LoopOK, Pollers
<1>9. SessionOK'
  BY <1>1, <1>2, <1>p, <1>l
  DEF SessionOK, Pollers, CheckSession, ClearMap, AdoptSession, tracking, Frame, To
<1>7. Validated \subseteq Validated'
  BY <1>1, <1>2 DEF Validated
<1>8. ASSUME NEW s \in SubStrategies PROVE SourceOK(s)'
  <2>1. CASE app_polled \/ ~AdoptSession(t)
    BY <1>1, <1>7, <2>1, SourceStays DEF CheckSession, ClearMap, AdoptSession, tracking, NothingSeen
  <2>2. CASE ~app_polled /\ AdoptSession(t)
    BY <1>p, <2>2 DEF AdoptSession, SourceOK, SessionOK, NothingSeen
  <2> QED
    BY <2>1, <2>2
<1> QED
  BY <1>3, <1>4, <1>5, <1>6, <1>8, <1>9

\* validateOrdering() stores the number of the frame it validates.
LEMMA ValidateReading ==
  ASSUME ReadingInv, ThreadsOK, log \in Seq(Entries), NEW t \in Pollers, ValidateOrdering(t)
  PROVE  ReadingInv'
<1> USE DEF ReadingInv
<1>1. /\ log' = log /\ cursor' = cursor
      /\ UNCHANGED <<start, handed, app_polled, current_session_id>>
      /\ poll[t].at = "order" /\ To(t, "deliver")
  BY DEF ValidateOrdering, topic
<1>2. /\ poll'[t].at = "deliver" /\ poll'[t].frame = poll[t].frame
      /\ \A u \in Pollers \ {t} : poll'[u] = poll[u]
      /\ poll' \in [Pollers -> [at : PollLabels, frame : Nat]]
      /\ poll[t] # Resting
  BY <1>1, LabelEffect DEF ReadingTypes, PollLabels, Resting
<1>f. poll[t].frame \in 1 .. Len(log) /\ Frame(t) \in Entries
  <2>1. poll[t].frame \in 1 .. Len(log)
    BY <1>1 DEF ReadingOK, ReadingTypes
  <2> QED
    BY <2>1 DEF Frame
<1>s. Frame(t).strategy \in SubStrategies /\ Frame(t).seq \in Nat
  BY <1>f, DeliveryAssumption DEF Entries
<1>m. /\ strategy_sequence_map \in [SubStrategies -> Nat]
      /\ \/ strategy_sequence_map' = strategy_sequence_map
         \/ strategy_sequence_map' =
              [strategy_sequence_map EXCEPT ![Frame(t).strategy] = Frame(t).seq]
      /\ flagged' \subseteq flagged \cup {poll[t].frame}
  BY DEF ValidateOrdering, ReadingTypes
<1>3. ReadingTypes'
  BY <1>1, <1>2, <1>f, <1>s, <1>m DEF ReadingTypes
<1>4. ASSUME NEW u \in Pollers PROVE ReadingOK(u)'
  BY <1>1, <1>2 DEF ReadingOK
<1>5. NothingSkipped'
  BY <1>1 DEF NothingSkipped
<1>p. app_polled \/ t = "message"
  BY <1>2, PollerKnown
<1>6. LoopOK' /\ SessionOK'
  BY <1>1, <1>2, <1>p DEF LoopOK, SessionOK, Pollers
<1>7. Validated \subseteq Validated' /\ poll[t].frame \in Validated'
  BY <1>1, <1>2 DEF Validated
<1>8. ASSUME NEW s \in SubStrategies PROVE SourceOK(s)'
  <2>1. CASE strategy_sequence_map'[s] = strategy_sequence_map[s]
    BY <1>1, <1>7, <2>1, SourceStays
  <2>2. CASE strategy_sequence_map'[s] # strategy_sequence_map[s]
    <3>1. s = Frame(t).strategy /\ strategy_sequence_map'[s] = Frame(t).seq
      BY <1>m, <1>s, <2>2
    <3>2. app_polled \/ Frame(t).session = current_session_id
      BY <1>1, <1>p DEF SessionOK, Frame
    <3> QED
      BY <1>1, <1>2, <1>7, <3>1, <3>2 DEF SourceOK, Frame
  <2> QED
    BY <2>1, <2>2
<1> QED
  BY <1>3, <1>4, <1>5, <1>6, <1>8

\* The callback.
LEMMA DeliverReading ==
  ASSUME ReadingInv, ThreadsOK, log \in Seq(Entries), NEW t \in Pollers, Deliver(t)
  PROVE  ReadingInv'
<1> USE DEF ReadingInv
<1>1. /\ log' = log /\ cursor' = cursor
      /\ UNCHANGED <<start, flagged, app_polled, current_session_id, strategy_sequence_map>>
      /\ handed' = handed \cup {poll[t].frame}
      /\ poll[t].at = "deliver" /\ To(t, "advance")
  BY DEF Deliver, topic, tracking
<1>2. /\ poll'[t].at = "advance" /\ poll'[t].frame = poll[t].frame
      /\ \A u \in Pollers \ {t} : poll'[u] = poll[u]
      /\ poll' \in [Pollers -> [at : PollLabels, frame : Nat]]
      /\ poll[t] # Resting
  BY <1>1, LabelEffect DEF ReadingTypes, PollLabels, Resting
<1>f. poll[t].frame \in start + 1 .. Len(log)
  BY <1>1 DEF ReadingOK
<1>3. ReadingTypes'
  BY <1>1, <1>2, <1>f DEF ReadingTypes
<1>4. ASSUME NEW u \in Pollers PROVE ReadingOK(u)'
  BY <1>1, <1>2 DEF ReadingOK
<1>5. NothingSkipped'
  BY <1>1 DEF NothingSkipped
<1>p. app_polled \/ t = "message"
  BY <1>2, PollerKnown
<1>6. LoopOK' /\ SessionOK'
  BY <1>1, <1>2, <1>p DEF LoopOK, SessionOK, Pollers
<1>7. Validated \subseteq Validated'
  BY <1>1, <1>2 DEF Validated
<1>8. ASSUME NEW s \in SubStrategies PROVE SourceOK(s)'
  BY <1>1, <1>7, SourceStays
<1> QED
  BY <1>3, <1>4, <1>5, <1>6, <1>8

\* The cursor moves behind the frame that was handed over.
LEMMA AdvanceReading ==
  ASSUME ReadingInv, ThreadsOK, log \in Seq(Entries), NEW t \in Pollers, Advance(t)
  PROVE  ReadingInv'
<1> USE DEF ReadingInv
<1>1. /\ log' = log /\ cursor' = poll[t].frame
      /\ UNCHANGED <<start, handed, flagged, app_polled, current_session_id, strategy_sequence_map>>
      /\ poll[t].at = "advance" /\ poll' = [poll EXCEPT ![t] = Resting]
  BY DEF Advance, topic, tracking, history
<1>2. /\ poll'[t] = Resting /\ poll'[t].at = "rest" /\ poll[t] # Resting
      /\ \A u \in Pollers \ {t} : poll'[u] = poll[u]
      /\ poll' \in [Pollers -> [at : PollLabels, frame : Nat]]
  BY <1>1 DEF ReadingTypes, PollLabels, Resting
<1>f. /\ poll[t].frame \in start + 1 .. Len(log) /\ poll[t].frame \in handed
      /\ start + 1 .. poll[t].frame - 1 \subseteq handed
  BY <1>1 DEF ReadingOK
<1>3. ReadingTypes'
  BY <1>1, <1>2, <1>f DEF ReadingTypes
<1>4. ASSUME NEW u \in Pollers PROVE ReadingOK(u)'
  BY <1>1, <1>2 DEF ReadingOK
<1>5. NothingSkipped'
  <2>1. ASSUME NEW i \in start + 1 .. poll[t].frame PROVE i \in handed
    <3>1. i = poll[t].frame \/ i \in start + 1 .. poll[t].frame - 1
      BY <1>f DEF ReadingTypes
    <3> QED
      BY <1>f, <3>1
  <2> QED
    BY <1>1, <2>1 DEF NothingSkipped
<1>p. app_polled \/ t = "message"
  BY <1>2, PollerKnown
<1>6. LoopOK' /\ SessionOK'
  <2>1. SUFFICES ASSUME ~app_polled' PROVE LoopOK' /\ SessionOK'
    BY DEF LoopOK, SessionOK
  <2>2. t = "message" /\ cursor' = cursor + 1 /\ \A i \in handed : i <= cursor \/ i = cursor + 1
    BY <1>1, <1>p, <2>1 DEF LoopOK
  <2>3. \A i \in handed : i <= cursor'
    BY <2>2 DEF ReadingTypes
  <2> QED
    BY <1>1, <1>2, <2>2, <2>3 DEF LoopOK, SessionOK
<1>7. Validated \subseteq Validated'
  BY <1>1, <1>2, <1>f DEF Validated
<1>8. ASSUME NEW s \in SubStrategies PROVE SourceOK(s)'
  BY <1>1, <1>7, SourceStays
<1> QED
  BY <1>3, <1>4, <1>5, <1>6, <1>8

\* Every step of pollMessages().
LEMMA PollReading ==
  ASSUME ReadingInv, ThreadsOK, log \in Seq(Entries), NEW t \in Pollers, PollMessages(t)
  PROVE  ReadingInv'
BY FindFrameReading, SessionReading, ValidateReading, DeliverReading, AdvanceReading
DEF PollMessages

-----------------------------------------------------------------------------
(***************************************************************************)
(* What the map and the session say of the frames that were handed over,   *)
(* while only the message thread polls and every frame has its session.    *)
(***************************************************************************)

\* Between two frames the session is that of the frame before the cursor.
SessionOfLast ==
  /\ poll["message"].at \in {"rest", "session", "clear", "adopt"} /\ cursor > start =>
       current_session_id = log[cursor].session
  /\ poll["message"].at \in {"clear", "adopt"} =>
       log[poll["message"].frame].session # current_session_id

\* The map holds no number below one that was handed over in this session.
MapCovers ==
  /\ poll["message"].at # "adopt" =>
       \A i \in handed : log[i].session = current_session_id
                           => log[i].seq <= strategy_sequence_map[log[i].strategy]
  /\ poll["message"].at \in {"deliver", "advance"} =>
       Frame("message").seq <= strategy_sequence_map[Frame("message").strategy]

CountedBefore ==
  poll["message"].at = "deliver" =>
    \A i \in handed : Disordered(i, poll["message"].frame) => poll["message"].frame \in flagged

SeenOK == ~app_polled /\ SessionsIntact => SessionOfLast /\ MapCovers /\ CountedBefore

\* Frames of the log, for the provers.
LEMMA FrameTypes ==
  ASSUME log \in Seq(Entries), NEW i \in 1 .. Len(log)
  PROVE  /\ i \in DOMAIN log /\ log[i] \in Entries
         /\ log[i].session \in Nat /\ log[i].seq \in Nat
         /\ log[i].strategy \in SubStrategies
<1>1. i \in DOMAIN log /\ log[i] \in Entries
  OBVIOUS
<1> QED
  BY <1>1, DeliveryAssumption DEF Entries

\* Frames that are appended do not change what was seen.
LEMMA GrowSeen ==
  ASSUME ReadingInv, SeenOK, log \in Seq(Entries), LogGrows, UNCHANGED subscriber
  PROVE  SeenOK'
<1>1. /\ UNCHANGED <<cursor, current_session_id, strategy_sequence_map, poll>>
      /\ UNCHANGED <<start, handed, flagged, app_polled>>
  BY DEF subscriber, tracking, history
<1>2. /\ Len(log) \in Nat /\ Len(log') \in Nat /\ Len(log) <= Len(log')
      /\ \A i \in 1 .. Len(log) : log'[i] = log[i]
      /\ DOMAIN log = 1 .. Len(log) /\ DOMAIN log' = 1 .. Len(log')
  <2>1. log' \in Seq(Entries)
    BY LogStays
  <2> QED
    BY <2>1, LogStays
<1>3. SUFFICES ASSUME ~app_polled, SessionsIntact'
               PROVE  (SessionOfLast /\ MapCovers /\ CountedBefore)'
  BY <1>1 DEF SeenOK
<1>4. SessionsIntact
  BY <1>2, <1>3 DEF SessionsIntact
<1>5. SessionOfLast /\ MapCovers /\ CountedBefore
  BY <1>3, <1>4 DEF SeenOK
<1>6. /\ \A i \in handed : log'[i] = log[i]
      /\ poll["message"].at # "rest" => /\ poll["message"].frame \in 1 .. Len(log)
                                        /\ log'[poll["message"].frame] = log[poll["message"].frame]
      /\ cursor > start => log'[cursor] = log[cursor]
  <2>1. handed \subseteq 1 .. Len(log)
    BY DEF ReadingInv, ReadingTypes
  <2>2. poll["message"].at # "rest" => poll["message"].frame \in 1 .. Len(log)
    BY DEF ReadingInv, ReadingTypes, ReadingOK, Pollers
  <2>3. cursor > start => cursor \in 1 .. Len(log)
    BY DEF ReadingInv, ReadingTypes
  <2> QED
    BY <1>2, <2>1, <2>2, <2>3
<1>7. SessionOfLast'
  BY <1>1, <1>5, <1>6 DEF SessionOfLast
<1>8. MapCovers'
  BY <1>1, <1>5, <1>6 DEF MapCovers, Frame
<1>9. CountedBefore'
  BY <1>1, <1>5, <1>6 DEF CountedBefore, Disordered
<1> QED
  BY <1>7, <1>8, <1>9

\* Nor do the steps that leave the polls alone.
LEMMA QuietSeen ==
  ASSUME SeenOK, Quiet
  PROVE  SeenOK'
BY DEF Quiet, tracking, history, SeenOK, SessionsIntact, SessionOfLast, MapCovers, CountedBefore,
       Disordered, Frame

\* A new subscription has seen nothing.
LEMMA ResetSeen ==
  ASSUME ReadingInv, log \in Seq(Entries), Reset
  PROVE  SeenOK'
<1>1. poll'["message"].at = "rest" /\ handed' = {} /\ cursor' = start' /\ cursor' \in Int
  BY DEF Reset, Pollers, Resting
<1>2. ~(cursor' > start')
  BY <1>1
<1> QED
  BY <1>1, <1>2 DEF SeenOK, SessionOfLast, MapCovers, CountedBefore

\* The steps of pollMessages() in the message thread.
LEMMA SessionSeen ==
  ASSUME ReadingInv, ThreadsOK, SessionsInOrder, SeenOK, log \in Seq(Entries),
         NEW t \in Pollers,
         FindFrame(t) \/ CheckSession(t) \/ ClearMap(t) \/ AdoptSession(t)
  PROVE  SeenOK'
<1>1. SUFFICES ASSUME ~app_polled', SessionsIntact'
               PROVE  (SessionOfLast /\ MapCovers /\ CountedBefore)'
  BY DEF SeenOK
<1>2. /\ log' = log /\ cursor' = cursor /\ UNCHANGED <<start, handed, flagged>>
      /\ ~app_polled /\ SessionsIntact /\ t = "message"
  <2>1. CASE FindFrame(t)
    BY <1>1, <2>1 DEF FindFrame, topic, SessionsIntact, Pollers
  <2>2. CASE CheckSession(t) \/ ClearMap(t) \/ AdoptSession(t)
    <3>1. poll[t] # Resting
      BY <2>2 DEF CheckSession, ClearMap, AdoptSession, Resting
    <3> QED
      BY <1>1, <2>2, <3>1, PollerKnown
      DEF CheckSession, ClearMap, AdoptSession, topic, history, SessionsIntact
  <2> QED
    BY <2>1, <2>2
<1>3. SessionOfLast /\ MapCovers
  BY <1>2 DEF SeenOK
<1>4. CASE FindFrame(t)
  <2>1. /\ poll["message"].at = "rest" /\ poll'["message"].at = "session"
        /\ UNCHANGED <<current_session_id, strategy_sequence_map>>
    BY <1>2, <1>4 DEF FindFrame, tracking, Resting, ReadingInv, ReadingTypes, Pollers
  <2> QED
    BY <1>2, <1>3, <2>1 DEF SessionOfLast, MapCovers, CountedBefore
<1>l. ASSUME NEW label \in PollLabels, To(t, label)
      PROVE  poll'["message"].at = label /\ poll'["message"].frame = poll["message"].frame
  BY <1>2, <1>l, LabelEffect DEF ReadingInv, ReadingTypes
<1>5. CASE CheckSession(t)
  <2>1. /\ UNCHANGED <<current_session_id, strategy_sequence_map>>
        /\ poll["message"].at = "session"
        /\ poll'["message"].at = IF current_session_id = Frame("message").session
                                   THEN "order" ELSE "clear"
        /\ poll'["message"].frame = poll["message"].frame
    BY <1>2, <1>5, <1>l DEF CheckSession, tracking, PollLabels
  <2> QED
    BY <1>2, <1>3, <2>1 DEF SessionOfLast, MapCovers, CountedBefore, Frame
<1>6. CASE ClearMap(t)
  <2>1. /\ current_session_id' = current_session_id
        /\ poll["message"].at = "clear" /\ poll'["message"].at = "adopt"
        /\ poll'["message"].frame = poll["message"].frame
    BY <1>2, <1>6, <1>l DEF ClearMap, PollLabels
  <2> QED
    BY <1>2, <1>3, <2>1 DEF SessionOfLast, MapCovers, CountedBefore
<1>7. CASE AdoptSession(t)
  <2> DEFINE x == poll["message"].frame
  <2>1. /\ current_session_id' = log[x].session /\ strategy_sequence_map' = strategy_sequence_map
        /\ poll["message"].at = "adopt" /\ poll'["message"].at = "order"
    BY <1>2, <1>7, <1>l DEF AdoptSession, PollLabels, Frame
  <2>2. x = cursor + 1 /\ x \in 1 .. Len(log)
    BY <1>2, <2>1 DEF ReadingInv, LoopOK, ReadingOK, ReadingTypes, Pollers
  <2>3. ASSUME NEW i \in handed PROVE log[i].session # log[x].session
    <3>1. i \in start + 1 .. Len(log) /\ i <= cursor
      BY <1>2, <2>1 DEF ReadingInv, LoopOK, ReadingTypes
    <3>2. /\ i \in 1 .. Len(log) /\ cursor \in 1 .. Len(log) /\ cursor > start
          /\ i < cursor \/ i = cursor
          /\ cursor < x
      BY <2>2, <3>1 DEF ReadingInv, ReadingTypes
    <3>3. /\ log[i].session \in Nat /\ log[cursor].session \in Nat /\ log[x].session \in Nat
          /\ i \in DOMAIN log /\ cursor \in DOMAIN log /\ x \in DOMAIN log
      BY <2>2, <3>2, FrameTypes
    <3>4. log[x].session # 0 /\ log[cursor].session # 0
      BY <1>2, <3>3 DEF SessionsIntact
    <3>5. log[cursor].session <= log[x].session
      BY <3>2, <3>3, <3>4 DEF SessionsInOrder
    <3>6. log[i].session <= log[cursor].session
      BY <3>2, <3>3, <3>4 DEF SessionsInOrder
    <3>7. log[cursor].session # log[x].session
      BY <1>3, <2>1, <3>2 DEF SessionOfLast
    <3> QED
      BY <3>3, <3>5, <3>6, <3>7
  <2> QED
    BY <1>2, <1>3, <2>1, <2>3 DEF SessionOfLast, MapCovers, CountedBefore
<1> QED
  BY <1>4, <1>5, <1>6, <1>7

\* validateOrdering() raises the number of its strategy, or counts the frame.
LEMMA ValidateSeen ==
  ASSUME ReadingInv, ThreadsOK, SeenOK, log \in Seq(Entries), NEW t \in Pollers,
         ValidateOrdering(t)
  PROVE  SeenOK'
<1>1. SUFFICES ASSUME ~app_polled', SessionsIntact'
               PROVE  (SessionOfLast /\ MapCovers /\ CountedBefore)'
  BY DEF SeenOK
<1>2. /\ log' = log /\ UNCHANGED <<cursor, start, handed, current_session_id>>
      /\ ~app_polled /\ SessionsIntact /\ t = "message"
      /\ poll["message"].at = "order"
      /\ poll'["message"].at = "deliver" /\ poll'["message"].frame = poll["message"].frame
  <2>1. /\ log' = log /\ UNCHANGED <<cursor, start, handed, app_polled, current_session_id>>
        /\ To(t, "deliver") /\ poll[t].at = "order" /\ poll[t] # Resting
    BY DEF ValidateOrdering, topic, Resting
  <2>2. t = "message" /\ ~app_polled
    BY <1>1, <2>1, PollerKnown
  <2> QED
    BY <1>1, <2>1, <2>2, LabelEffect DEF ReadingInv, ReadingTypes, PollLabels, SessionsIntact
<1> DEFINE x == poll["message"].frame
           s == log[x].strategy
           map == strategy_sequence_map
<1>3. x \in 1 .. Len(log)
  BY <1>2 DEF ReadingInv, ReadingOK, ReadingTypes, Pollers
<1>4. log[x].seq \in Nat /\ s \in SubStrategies /\ log[x].session = current_session_id
  BY <1>2, <1>3, FrameTypes DEF ReadingInv, SessionOK
<1>5. \A i \in handed : /\ log[i].seq \in Nat /\ log[i].strategy \in SubStrategies
                        /\ log[i].session = current_session_id => log[i].seq <= map[log[i].strategy]
  <2>1. handed \subseteq 1 .. Len(log)
    BY DEF ReadingInv, ReadingTypes
  <2> QED
    BY <1>2, <2>1, FrameTypes DEF SeenOK, MapCovers
<1>6. \A r \in SubStrategies : map[r] \in Nat
  BY DEF ReadingInv, ReadingTypes
<1>7. CASE log[x].seq > map[s]
  <2>1. map' = [map EXCEPT ![s] = log[x].seq]
    BY <1>2, <1>7 DEF ValidateOrdering, Frame
  <2>2. /\ \A r \in SubStrategies : map[r] <= map'[r] /\ map'[r] \in Nat
        /\ map'[s] = log[x].seq
    BY <1>4, <1>6, <1>7, <2>1 DEF ReadingInv, ReadingTypes
  <2>3. ASSUME NEW i \in handed, log[i].session = current_session_id
        PROVE  log[i].seq <= map'[log[i].strategy]
    <3> DEFINE a == log[i].seq
               b == map[log[i].strategy]
               c == map'[log[i].strategy]
    <3>1. a \in Nat /\ b \in Nat /\ c \in Nat /\ a <= b /\ b <= c
      BY <1>5, <1>6, <2>2, <2>3
    <3> QED
      BY <3>1
  <2>4. ASSUME NEW i \in handed, Disordered(i, x) PROVE FALSE
    BY <1>4, <1>5, <1>6, <1>7, <2>4 DEF Disordered
  <2> QED
    BY <1>2, <1>4, <2>2, <2>3, <2>4
    DEF SessionOfLast, MapCovers, CountedBefore, Frame, Disordered
<1>8. CASE ~(log[x].seq > map[s])
  <2>1. map' = map /\ x \in flagged'
    BY <1>2, <1>8 DEF ValidateOrdering, Frame
  <2>2. log[x].seq <= map[s]
    BY <1>4, <1>6, <1>8
  <2> QED
    BY <1>2, <1>5, <2>1, <2>2 DEF SessionOfLast, MapCovers, CountedBefore, Frame
<1> QED
  BY <1>7, <1>8

\* The callback and the new cursor.
LEMMA HandOverSeen ==
  ASSUME ReadingInv, ThreadsOK, SeenOK, log \in Seq(Entries), NEW t \in Pollers,
         Deliver(t) \/ Advance(t)
  PROVE  SeenOK'
<1>1. SUFFICES ASSUME ~app_polled', SessionsIntact'
               PROVE  (SessionOfLast /\ MapCovers /\ CountedBefore)'
  BY DEF SeenOK
<1>2. /\ log' = log /\ UNCHANGED <<start, flagged, current_session_id, strategy_sequence_map>>
      /\ ~app_polled /\ SessionsIntact /\ t = "message"
  <2>1. poll[t] # Resting /\ log' = log /\ app_polled' = app_polled
    BY DEF Deliver, Advance, topic, history, Resting
  <2> QED
    BY <1>1, <2>1, PollerKnown DEF Deliver, Advance, tracking, history, SessionsIntact
<1>3. MapCovers
  BY <1>2 DEF SeenOK
<1>4. CASE Deliver(t)
  <2>1. /\ poll["message"].at = "deliver" /\ poll'["message"].at = "advance"
        /\ poll'["message"].frame = poll["message"].frame
        /\ handed' = handed \cup {poll["message"].frame}
    BY <1>2, <1>4, LabelEffect DEF Deliver, ReadingInv, ReadingTypes, PollLabels
  <2> QED
    BY <1>2, <1>3, <2>1 DEF SessionOfLast, MapCovers, CountedBefore, Frame
<1>5. CASE Advance(t)
  <2>1. /\ poll["message"].at = "advance" /\ poll'["message"].at = "rest"
        /\ cursor' = poll["message"].frame /\ handed' = handed
    BY <1>2, <1>5 DEF Advance, history, ReadingInv, ReadingTypes, Resting
  <2>2. current_session_id = log[cursor'].session
    BY <1>2, <2>1 DEF ReadingInv, SessionOK
  <2> QED
    BY <1>2, <1>3, <2>1, <2>2 DEF SessionOfLast, MapCovers, CountedBefore
<1> QED
  BY <1>4, <1>5

\* Every step of pollMessages().
LEMMA PollSeen ==
  ASSUME ReadingInv, ThreadsOK, SessionsInOrder, SeenOK, log \in Seq(Entries),
         NEW t \in Pollers, PollMessages(t)
  PROVE  SeenOK'
BY SessionSeen, ValidateSeen, HandOverSeen DEF PollMessages

-----------------------------------------------------------------------------
(***************************************************************************)
(* The heartbeat thread.                                                   *)
(***************************************************************************)

\* What the thread has loaded still holds of the flag, which no other thread stores.
WatchOK ==
  /\ producer_heartbeat_lost \in BOOLEAN /\ watch \in Watches
  /\ watch.at = "judge" => watch.lost = producer_heartbeat_lost /\ watch.alive = watch.lost
  /\ watch.at = "callback" => producer_heartbeat_lost

\* An outage for which no callback has been made yet.
Owed ==
  /\ app # "none"
  /\ \/ watch.at = "callback"
     \/ watch.at = "judge" /\ ~watch.alive
     \/ /\ producer_heartbeat = "stale"
        /\ ~producer_heartbeat_lost \/ (watch.at = "judge" /\ watch.alive)

OutagesOK == outages \in 0 .. MaxOutages /\ (Owed => outages >= 1)

\* Where the heartbeat thread may be.
LEMMA Loaded ==
  /\ Unwatched.at = "none"
  /\ [Unwatched EXCEPT !.at = "sleep"].at = "sleep"
  /\ watch \in Watches => /\ [watch EXCEPT !.at = "callback"].at = "callback"
                          /\ watch.alive \in BOOLEAN /\ watch.lost \in BOOLEAN
                          /\ watch.at \in {"none", "sleep", "judge", "callback"}
BY DEF Unwatched, Watches

\* Every outage is judged once.
LEMMA WatchStep ==
  ASSUME ThreadTypes, ThreadsOK, WatchOK, OutagesOK, OtherStep
  PROVE  WatchOK' /\ OutagesOK'
<1> USE Loaded DEF MaxOutages
<1>t. producer_heartbeat_lost' \in BOOLEAN /\ watch' \in Watches
  BY ThreadsStep DEF ThreadTypes
<1>1. CASE Subscribe
  BY <1>1, <1>t
  DEF Subscribe, Register, ThreadsOK, WatchOK, OutagesOK, Owed, ProducerAlive, topic
<1>2. CASE Here(StartThreads)
  BY <1>2, <1>t DEF Here, StartThreads, ThreadsOK, WatchOK, OutagesOK, Owed, topic
<1>3. CASE Notice
  BY <1>3, <1>t
  DEF Notice, PublisherDisconnected, ThreadsOK, WatchOK, OutagesOK, Owed, topic, Unwatched
<1>4. CASE Here(WatchLoad)
  BY <1>4, <1>t DEF Here, WatchLoad, WatchOK, OutagesOK, Owed, topic, ProducerAlive
<1>5. CASE Here(WatchEnds)
  BY <1>5, <1>t DEF Here, WatchEnds, WatchOK, OutagesOK, Owed, topic
<1>6. CASE Here(HeartbeatLost)
  BY <1>6, <1>t DEF Here, HeartbeatLost, WatchOK, OutagesOK, Owed, topic
<1>7. CASE Here(HeartbeatRecovered)
  BY <1>7, <1>t DEF Here, HeartbeatRecovered, WatchOK, OutagesOK, Owed, topic
<1>8. CASE Here(StopThreads) \/ Here(JoinMessage) \/ Here(JoinWatch)
  BY <1>8, <1>t DEF Here, StopThreads, JoinMessage, JoinWatch, WatchOK, OutagesOK, Owed, topic
<1>9. CASE Here(Unregister)
  BY <1>9, <1>t DEF Here, Unregister, WatchOK, OutagesOK, Owed, topic, ThreadsOK
<1> QED
  BY <1>1, <1>2, <1>3, <1>4, <1>5, <1>6, <1>7, <1>8, <1>9
  DEF OtherStep, Here, OtherWatch, Unsubscribe

\* Neither a publisher nor a poll makes an outage, and heartbeats end it.
LEMMA OutagesKept ==
  ASSUME WatchOK, OutagesOK, UNCHANGED <<watch, producer_heartbeat_lost, outages>>,
         app' = "none" <=> app = "none",
         producer_heartbeat' \in {producer_heartbeat, "fresh"}
  PROVE  WatchOK' /\ OutagesOK'
BY DEF WatchOK, OutagesOK, Owed

-----------------------------------------------------------------------------
(***************************************************************************)
(* The inductive invariant.                                                *)
(***************************************************************************)
DeliveryInv ==
  /\ PublisherInv
  /\ ThreadTypes
  /\ ThreadsOK
  /\ ReadingInv
  /\ SeenOK
  /\ WatchOK
  /\ OutagesOK

\* Steps of others leave the publisher's part as it is.
LEMMA PublisherOther ==
  ASSUME PublisherInv, UNCHANGED <<log, publisher>>,
         producer_heartbeat' \in {"never", "fresh", "stale"}
  PROVE  PublisherInv'
BY DEF PublisherInv, PublisherTypeOK, CallsOK, SessionsInOrder, publisher, flags

\* The inductive invariant holds at the start ...
LEMMA InitStep ==
  ASSUME DeliveryInit PROVE DeliveryInv
<1> USE DEF DeliveryInit, PublisherInit, SubscriberInit
<1>1. PublisherInv
  <2>1. log = << >> /\ log \in Seq(Entries) /\ DOMAIN log = {}
    OBVIOUS
  <2>2. PublisherTypeOK
    <3>1. {connected, running, cleanup_started} \subseteq BOOLEAN
      OBVIOUS
    <3>2. /\ session_id \in 0 .. sessions /\ sequence_number \in 0 .. MaxSequence
          /\ sessions \in 0 .. MaxSessions
      BY BoundsLemma
    <3>3. \A t \in PubThreads : call[t].at = "idle"
      BY DEF Idle
    <3>4. log \in Seq([session : Nat, strategy : Strategies, seq : Nat \ {0}])
      BY <2>1 DEF Entries
    <3> QED
      BY <3>1, <3>2, <3>3, <3>4 DEF PublisherTypeOK
  <2>3. CallsOK
    BY DEF CallsOK, Calls, Idle
  <2>4. SessionsInOrder
    BY <2>1 DEF SessionsInOrder
  <2> QED
    BY <2>2, <2>3, <2>4 DEF PublisherInv
<1>2. ThreadTypes /\ ThreadsOK
  BY DEF ThreadTypes, ThreadsOK, Apps, Watches, Unwatched, Resting, Pollers
<1>3. /\ \A t \in Pollers : poll[t] = Resting /\ poll[t].at = "rest"
      /\ start = 0 /\ cursor = 0 /\ Len(log) = 0
  BY DEF Resting
<1>4. ReadingInv
  <2>1. ReadingTypes
    <3>1. NothingSeen \in [SubStrategies -> Nat]
      BY DEF NothingSeen
    <3>2. poll \in [Pollers -> [at : PollLabels, frame : Nat]]
      BY DEF Resting, PollLabels
    <3>3. /\ cursor \in Nat /\ start \in Nat /\ start <= cursor /\ cursor <= Len(log)
          /\ current_session_id \in Nat
      BY <1>3
    <3> QED
      BY <3>1, <3>2, <3>3 DEF ReadingTypes
  <2>2. NothingSkipped
    BY <1>3 DEF NothingSkipped
  <2>3. \A t \in Pollers : ReadingOK(t)
    BY <1>3 DEF ReadingOK
  <2>4. LoopOK /\ SessionOK
    BY <1>3 DEF LoopOK, SessionOK, Pollers
  <2>5. \A s \in SubStrategies : SourceOK(s)
    BY DEF SourceOK, NothingSeen
  <2> QED
    BY <2>1, <2>2, <2>3, <2>4, <2>5 DEF ReadingInv
<1>5. SeenOK
  BY <1>3 DEF SeenOK, SessionOfLast, MapCovers, CountedBefore, Pollers
<1>6. WatchOK /\ OutagesOK
  BY <1>2 DEF ThreadTypes, WatchOK, OutagesOK, Owed, Unwatched, MaxOutages
<1> QED
  BY <1>1, <1>2, <1>4, <1>5, <1>6 DEF DeliveryInv

\* ... it has the subscriber's types in it ...
LEMMA SubscriberTypes ==
  ASSUME ThreadTypes, ReadingTypes
  PROVE  SubscriberTypeOK
BY DEF ThreadTypes, ReadingTypes, SubscriberTypeOK, Apps, Watches, PollLabels

\* ... and every step keeps it.
LEMMA NextStep ==
  ASSUME DeliveryInv, [DeliveryNext]_delivery
  PROVE  DeliveryInv'
<1> USE DEF DeliveryInv
<1>l. log \in Seq(Entries) /\ SessionsInOrder /\ producer_heartbeat \in {"never", "fresh", "stale"}
  BY DEF PublisherInv, PublisherTypeOK, Entries
<1>r. ReadingTypes
  BY DEF ReadingInv
<1>1. CASE PublisherStep
  <2>1. UNCHANGED <<subscriber, outages>> /\ Publisher
    BY <1>1 DEF PublisherStep
  <2>2. PublisherInv' /\ LogGrows
    BY <2>1, PublisherStepInv, PublisherFrame
  <2>3. ReadingInv' /\ SeenOK'
    BY <1>l, <2>1, <2>2, GrowReading, GrowSeen
  <2>4. ThreadTypes' /\ ThreadsOK'
    BY <2>1 DEF subscriber, history, ThreadTypes, ThreadsOK
  <2>5. producer_heartbeat' \in {producer_heartbeat, "fresh"}
    <3>1. CASE \E t \in PubThreads : PublishPositions(t)
      BY <3>1, PublishStep
    <3>2. CASE ~\E t \in PubThreads : PublishPositions(t)
      BY <2>1, <3>2
      DEF Publisher, Connect, Wake, SendHeartbeat, Disconnect, JoinHeartbeat, ClearSession,
          Restart, topic
    <3> QED
      BY <3>1, <3>2
  <2>6. WatchOK' /\ OutagesOK'
    BY <2>1, <2>5, OutagesKept DEF subscriber
  <2> QED
    BY <2>2, <2>3, <2>4, <2>6
<1>2. CASE OtherStep
  <2>1. (Quiet \/ Reset) /\ UNCHANGED <<topic, publisher>>
    BY <1>2, <1>l, <1>r, OtherKinds, SubscriberTypes
  <2>2. ReadingInv' /\ SeenOK'
    BY <1>l, <2>1, QuietReading, QuietSeen, ResetReading, ResetSeen
  <2>3. PublisherInv'
    BY <1>l, <2>1, PublisherOther DEF topic
  <2> QED
    BY <1>2, <2>2, <2>3, ThreadsStep, WatchStep
<1>3. ASSUME NEW t \in Pollers, Here(PollMessages(t))
      PROVE  DeliveryInv'
  <2>1. PollMessages(t) /\ UNCHANGED <<publisher, outages>>
    BY <1>3 DEF Here
  <2>2. /\ UNCHANGED <<topic, watch, producer_heartbeat_lost>>
        /\ app' = "none" <=> app = "none"
    <3>1. CASE FindFrame(t)
      BY <3>1 DEF FindFrame, MayPoll, ThreadsOK
    <3>2. CASE Advance(t)
      <4>1. poll[t] # Resting
        BY <3>2 DEF Advance, Resting
      <4> QED
        BY <3>2, <4>1, PollerKnown DEF Advance
    <3>3. CASE \/ CheckSession(t) \/ ClearMap(t) \/ AdoptSession(t)
               \/ ValidateOrdering(t) \/ Deliver(t)
      BY <3>3 DEF CheckSession, ClearMap, AdoptSession, ValidateOrdering, Deliver
    <3> QED
      BY <2>1, <3>1, <3>2, <3>3 DEF PollMessages
  <2>3. PublisherInv'
    BY <1>l, <2>1, <2>2, PublisherOther DEF topic
  <2>4. ReadingInv' /\ SeenOK'
    BY <1>l, <2>1, PollReading, PollSeen
  <2>5. WatchOK' /\ OutagesOK'
    BY <2>1, <2>2, OutagesKept DEF topic
  <2> QED
    BY <1>3, <1>r, <2>3, <2>4, <2>5, PollThreads
<1>4. CASE Outage
  <2>1. UNCHANGED <<log, publisher, subscriber>> /\ producer_heartbeat' = "stale"
    BY <1>4 DEF Outage, HeartbeatAges
  <2>2. PublisherInv'
    BY <2>1, PublisherOther
  <2>3. Quiet /\ UNCHANGED <<app, sub_running, watch, producer_heartbeat_lost>>
    BY <2>1 DEF subscriber, Quiet
  <2>4. ThreadTypes' /\ ThreadsOK'
    BY <2>3 DEF Quiet, history, ThreadTypes, ThreadsOK
  <2>5. WatchOK' /\ outages' \in 1 .. MaxOutages
    BY <1>4, <2>3 DEF Outage, WatchOK, OutagesOK, MaxOutages
  <2> QED
    BY <2>2, <2>3, <2>4, <2>5, QuietReading, QuietSeen DEF OutagesOK, MaxOutages
<1>5. CASE UNCHANGED delivery
  <2>1. /\ Quiet
        /\ UNCHANGED <<app, sub_running, watch, producer_heartbeat_lost, outages>>
        /\ UNCHANGED <<topic, publisher>>
    BY <1>5 DEF delivery, subscriber, Quiet, topic
  <2>2. PublisherInv'
    BY <1>l, <2>1, PublisherOther DEF topic
  <2>3. ThreadTypes' /\ ThreadsOK'
    BY <2>1 DEF Quiet, history, ThreadTypes, ThreadsOK
  <2>4. WatchOK' /\ OutagesOK'
    BY <2>1, OutagesKept DEF topic
  <2> QED
    BY <2>1, <2>2, <2>3, <2>4, QuietReading, QuietSeen
<1> QED
  BY <1>1, <1>2, <1>3, <1>4, <1>5 DEF DeliveryNext, OtherStep

\* The inductive invariant holds in every state of PositionDelivery.
THEOREM DeliveryInvariance == DeliverySpec => []DeliveryInv
<1>1. DeliveryInit => DeliveryInv
  BY InitStep
<1>2. DeliveryInv /\ [DeliveryNext]_delivery => DeliveryInv'
  BY NextStep
<1> QED
  BY <1>1, <1>2, PTL DEF DeliverySpec

\* Type correctness of publisher and subscriber.
THEOREM DeliveryTypes == DeliverySpec => []DeliveryTypeOK
<1>1. DeliveryInv => DeliveryTypeOK
  BY SubscriberTypes
  DEF DeliveryInv, DeliveryTypeOK, PublisherInv, ReadingInv, OutagesOK, MaxOutages
<1> QED
  BY <1>1, DeliveryInvariance, PTL

\* poll() stores the cursor only after the handler: no frame below the cursor was
\* missed, also with an application that polls beside messageLoop().
THEOREM NoFrameSkipped == DeliverySpec => []NothingSkipped
<1>1. DeliveryInv => NothingSkipped
  BY DEF DeliveryInv, ReadingInv
<1> QED
  BY <1>1, DeliveryInvariance, PTL

\* disconnect() joins both threads and pollMessages() holds the client's mutex: nothing
\* runs for a subscription that is gone.
THEOREM NoLateCallback == DeliverySpec => []NoCallbackAfterUnsubscribe
<1>1. DeliveryInv => NoCallbackAfterUnsubscribe
  BY DEF DeliveryInv, ThreadsOK, NoCallbackAfterUnsubscribe, Pollers
<1> QED
  BY <1>1, DeliveryInvariance, PTL

\* heartbeatLoop() makes no disconnect callback without an outage of its own.
THEOREM OutagesReportedOnce == DeliverySpec => []OutageReportedOnce
<1>1. DeliveryInv => OutageReportedOnce
  BY DEF DeliveryInv, OutagesOK, OutageReportedOnce, MaxOutages
<1> QED
  BY <1>1, DeliveryInvariance, PTL

\* messageLoop() alone hands the frames over in the order of the log.
THEOREM LoopInOrder == DeliverySpec => LoopDeliversInOrder
<1>1. ASSUME DeliveryInv, NEW t \in Pollers, Deliver(t), ~app_polled, NEW i \in handed
      PROVE  i < poll[t].frame
  <2>1. poll[t].at = "deliver" /\ poll[t] # Resting
    BY <1>1 DEF Deliver, Resting
  <2>2. t = "message"
    BY <1>1, <2>1, PollerKnown DEF DeliveryInv
  <2>3. poll[t].frame = cursor + 1 /\ i <= cursor
    BY <1>1, <2>1, <2>2 DEF DeliveryInv, ReadingInv, LoopOK
  <2>4. i \in Int /\ cursor \in Int
    BY <1>1 DEF DeliveryInv, ReadingInv, ReadingTypes
  <2> QED
    BY <2>3, <2>4
<1>2. DeliveryInv => [\A t \in Pollers :
         Deliver(t) /\ ~app_polled => \A i \in handed : i < poll[t].frame]_delivery
  BY <1>1
<1> QED
  BY <1>2, DeliveryInvariance, PTL DEF LoopDeliversInOrder

\* A frame that validateOrdering() counts did come after one of its session and strategy
\* with no smaller number: restarts of the publisher are not counted as errors.
THEOREM ErrorsAreReal == DeliverySpec => OrderingErrorsReal
<1> DEFINE others(t) == {u \in Pollers \ {t} : poll[u].at \in {"deliver", "advance"}}
<1>1. ASSUME DeliveryInv, NEW t \in Pollers, ValidateOrdering(t), OneViewOfSession,
             poll[t].frame \in flagged' \ flagged
      PROVE  \E i \in handed \cup {poll[u].frame : u \in others(t)} : Disordered(i, poll[t].frame)
  <2> DEFINE x == poll[t].frame
             s == log[x].strategy
  <2>1. poll[t].at = "order" /\ poll[t] # Resting
    BY <1>1 DEF ValidateOrdering, Resting
  <2>l. log \in Seq(Entries)
    BY <1>1 DEF DeliveryInv, PublisherInv, PublisherTypeOK, Entries
  <2>2. x \in 1 .. Len(log)
    BY <1>1, <2>1 DEF DeliveryInv, ReadingInv, ReadingOK, ReadingTypes
  <2>3. /\ x \in DOMAIN log /\ log[x].seq \in Nat /\ log[x].seq # 0 /\ s \in SubStrategies
    BY <2>l, <2>2, FrameTypes DEF Entries
  <2>4. ~(log[x].seq > strategy_sequence_map[s])
    BY <1>1 DEF ValidateOrdering, Frame
  <2>5. strategy_sequence_map[s] \in Nat
    BY <1>1, <2>3 DEF DeliveryInv, ReadingInv, ReadingTypes
  <2>6. log[x].seq <= strategy_sequence_map[s] /\ strategy_sequence_map[s] # 0
    BY <2>3, <2>4, <2>5
  <2>7. PICK i \in Validated : /\ log[i].strategy = s
                               /\ log[i].seq = strategy_sequence_map[s]
                               /\ app_polled \/ log[i].session = current_session_id
    BY <1>1, <2>3, <2>6 DEF DeliveryInv, ReadingInv, SourceOK
  <2>8. i \in handed \cup {poll[u].frame : u \in others(t)}
    BY <2>1, <2>7 DEF Validated
  <2>9. i \in DOMAIN log
    <3>1. Validated \subseteq 1 .. Len(log)
      <4>1. handed \subseteq 1 .. Len(log)
        BY <1>1 DEF DeliveryInv, ReadingInv, ReadingTypes
      <4>2. ASSUME NEW u \in Pollers, poll[u].at \in {"deliver", "advance"}
            PROVE  poll[u].frame \in 1 .. Len(log)
        BY <1>1, <4>2 DEF DeliveryInv, ReadingInv, ReadingTypes, ReadingOK
      <4> QED
        BY <4>1, <4>2 DEF Validated
    <3> QED
      BY <2>l, <2>7, <3>1
  <2>10. log[i].session = log[x].session
    <3>1. CASE app_polled
      BY <1>1, <2>3, <2>9, <3>1 DEF OneViewOfSession
    <3>2. CASE ~app_polled
      BY <1>1, <2>1, <2>7, <3>2, PollerKnown DEF DeliveryInv, ReadingInv, SessionOK
    <3> QED
      BY <3>1, <3>2
  <2> QED
    BY <2>6, <2>7, <2>8, <2>10 DEF Disordered
<1>2. DeliveryInv => [\A t \in Pollers :
         /\ ValidateOrdering(t) /\ OneViewOfSession
         /\ poll[t].frame \in flagged' \ flagged
         => LET others_ == {u \in Pollers \ {t} : poll[u].at \in {"deliver", "advance"}}
            IN \E i \in handed \cup {poll[u].frame : u \in others_} :
                 Disordered(i, poll[t].frame)]_delivery
  BY <1>1
<1> QED
  BY <1>2, DeliveryInvariance, PTL DEF OrderingErrorsReal

\* With one poller, and no frame without a session, every frame that is handed over out
\* of order was counted before.
THEOREM AllDisorderCounted == DeliverySpec => DisorderCounted
<1>1. ASSUME DeliveryInv, NEW t \in Pollers, Deliver(t), ~app_polled, SessionsIntact,
             NEW i \in handed, Disordered(i, poll[t].frame)
      PROVE  poll[t].frame \in flagged
  <2>1. poll[t].at = "deliver" /\ poll[t] # Resting
    BY <1>1 DEF Deliver, Resting
  <2>2. t = "message"
    BY <1>1, <2>1, PollerKnown DEF DeliveryInv
  <2> QED
    BY <1>1, <2>1, <2>2 DEF DeliveryInv, SeenOK, CountedBefore
<1>2. DeliveryInv => [\A t \in Pollers :
         /\ Deliver(t) /\ ~app_polled /\ SessionsIntact
         /\ \E i \in handed : Disordered(i, poll[t].frame)
         => poll[t].frame \in flagged]_delivery
  BY <1>1
<1> QED
  BY <1>2, DeliveryInvariance, PTL DEF DisorderCounted
=============================================================================
