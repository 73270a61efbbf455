-------------------------- MODULE PositionPublisher --------------------------
(***************************************************************************)
(* PositionPublisher (position_publisher.cpp): the publisher of one topic, *)
(* with application threads inside publishPositions(), the heartbeat       *)
(* thread, disconnect(), and a process that can end at any point and be    *)
(* started again.  Every connect() is by a new object: cleanup_started_    *)
(* is never reset, and an application that disconnects an object before it *)
(* connects it, or connects it again, is not modelled.  The statistics     *)
(* counters are left out.                                                  *)
(***************************************************************************)
EXTENDS TopicLog

CONSTANTS
  PubThreads,   \* application threads that call publishPositions()
  Strategies,   \* strategy_id values
  AutoHeartbeat,\* config_.auto_heartbeat: connect() starts the heartbeat thread
  MaxLog,       \* bound: frames written
  MaxSequence,  \* bound: sequence numbers drawn by one publisher object
  MaxSessions   \* bound: publisher objects that connect

ASSUME PublisherAssumption ==
  /\ AutoHeartbeat \in BOOLEAN
  /\ {MaxLog, MaxSequence, MaxSessions} \subseteq Nat

VARIABLES
  connected, running, cleanup_started, session_id, sequence_number,
  call,      \* what each application thread does in publishPositions()
  beat,      \* the heartbeat thread: "none", "sleep" or "send"
  closing,   \* disconnect(): "no", "join", "session"
  sessions   \* session ids drawn so far: they are taken to be distinct

flags == <<connected, running, cleanup_started>>
publisher == <<flags, session_id, sequence_number, call, beat, closing, sessions>>

Idle == [at |-> "idle"]

-----------------------------------------------------------------------------
\* connect(): a session id, the flags, the heartbeat thread.
Connect ==
  /\ ~connected
  /\ ~cleanup_started
  /\ sessions < MaxSessions
  /\ sessions' = sessions + 1
  /\ session_id' = sessions + 1
  /\ connected' = TRUE
  /\ running' = TRUE
  /\ beat' = IF AutoHeartbeat THEN "sleep" ELSE "none"
  /\ UNCHANGED <<topic, cleanup_started, sequence_number, call, closing>>

-----------------------------------------------------------------------------
(***************************************************************************)
(* publishPositions() and publishInternal().                               *)
(***************************************************************************)
TakeSequence(t, strategy) ==
  /\ connected
  /\ call[t] = Idle
  /\ sequence_number < MaxSequence
  /\ sequence_number' = sequence_number + 1
  /\ call' = [call EXCEPT ![t] =
       [at |-> "check", strategy |-> strategy, seq |-> sequence_number + 1]]
  /\ UNCHANGED <<topic, flags, session_id, beat, closing, sessions>>

\* publishInternal(): not connected any more, or no session.
GiveUp(t) ==
  /\ call[t].at = "check"
  /\ ~connected \/ session_id = 0
  /\ call' = [call EXCEPT ![t] = Idle]
  /\ UNCHANGED <<topic, flags, session_id, sequence_number, beat, closing, sessions>>

CheckSessionId(t) ==
  /\ call[t].at = "check"
  /\ connected
  /\ session_id # 0
  /\ call' = [call EXCEPT ![t].at = "load"]
  /\ UNCHANGED <<topic, flags, session_id, sequence_number, beat, closing, sessions>>

\* The argument of publish(): session_id_ is a plain integer, read again.
LoadSessionId(t) ==
  /\ call[t].at = "load"
  /\ call' = [call EXCEPT ![t] =
       [at |-> "write", strategy |-> @.strategy, seq |-> @.seq, session |-> session_id]]
  /\ UNCHANGED <<topic, flags, session_id, sequence_number, beat, closing, sessions>>

Publish(t) ==
  /\ call[t].at = "write"
  /\ \E written \in BOOLEAN :
       /\ written => Len(log) < MaxLog
       /\ ChannelPublish([session |-> call[t].session, strategy |-> call[t].strategy,
                          seq |-> call[t].seq], written)
  /\ call' = [call EXCEPT ![t] = Idle]
  /\ UNCHANGED <<producer_heartbeat, flags, session_id, sequence_number, beat, closing,
                 sessions>>

PublishPositions(t) ==
  \/ \E strategy \in Strategies : TakeSequence(t, strategy)
  \/ GiveUp(t)
  \/ CheckSessionId(t)
  \/ LoadSessionId(t)
  \/ Publish(t)

-----------------------------------------------------------------------------
(***************************************************************************)
(* heartbeatLoop().  checkSubscriberHeartbeats() is in SlotMaintenance.    *)
(***************************************************************************)
Wake ==
  /\ beat = "sleep"
  /\ beat' = IF running THEN "send" ELSE "none"
  /\ UNCHANGED <<topic, flags, session_id, sequence_number, call, closing, sessions>>

SendHeartbeat ==
  /\ beat = "send"
  /\ producer_heartbeat' = IF connected THEN "fresh" ELSE producer_heartbeat
  /\ beat' = "sleep"
  /\ UNCHANGED <<log, flags, session_id, sequence_number, call, closing, sessions>>

-----------------------------------------------------------------------------
(***************************************************************************)
(* disconnect(), called by another thread, and the end of the process.     *)
(***************************************************************************)
Disconnect ==
  /\ connected
  /\ ~cleanup_started
  /\ cleanup_started' = TRUE
  /\ running' = FALSE
  /\ connected' = FALSE
  /\ closing' = "join"
  /\ UNCHANGED <<topic, session_id, sequence_number, call, beat, sessions>>

JoinHeartbeat ==
  /\ closing = "join"
  /\ beat = "none"
  /\ closing' = "session"
  /\ UNCHANGED <<topic, flags, session_id, sequence_number, call, beat, sessions>>

ClearSession ==
  /\ closing = "session"
  /\ session_id' = 0
  /\ closing' = "no"
  /\ UNCHANGED <<topic, flags, sequence_number, call, beat, sessions>>

\* The process crashes, or ends in order without having created the shared region
\* (its creator would unlink it), and another one takes over with an object of its
\* own; what the old one wrote stays in the topic.
Restart ==
  /\ connected \/ cleanup_started
  /\ connected' = FALSE
  /\ running' = FALSE
  /\ cleanup_started' = FALSE
  /\ session_id' = 0
  /\ sequence_number' = 0
  /\ call' = [t \in PubThreads |-> Idle]
  /\ beat' = "none"
  /\ closing' = "no"
  /\ UNCHANGED <<topic, sessions>>

Publisher ==
  \/ Connect
  \/ \E t \in PubThreads : PublishPositions(t)
  \/ Wake
  \/ SendHeartbeat
  \/ Disconnect
  \/ JoinHeartbeat
  \/ ClearSession
  \/ Restart

PublisherInit ==
  /\ log = << >>
  /\ producer_heartbeat = "never"
  /\ connected = FALSE
  /\ running = FALSE
  /\ cleanup_started = FALSE
  /\ session_id = 0
  /\ sequence_number = 0
  /\ call = [t \in PubThreads |-> Idle]
  /\ beat = "none"
  /\ closing = "no"
  /\ sessions = 0

PublisherTypeOK ==
  /\ log \in Seq([session : Nat, strategy : Strategies, seq : Nat \ {0}])
  /\ producer_heartbeat \in {"never", "fresh", "stale"}
  /\ {connected, running, cleanup_started} \subseteq BOOLEAN
  /\ session_id \in 0 .. sessions
  /\ sequence_number \in 0 .. MaxSequence
  /\ \A t \in PubThreads : call[t].at \in {"idle", "check", "load", "write"}
  /\ beat \in {"none", "sleep", "send"}
  /\ closing \in {"no", "join", "session"}
  /\ sessions \in 0 .. MaxSessions
=============================================================================
