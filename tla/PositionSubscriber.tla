------------------------- MODULE PositionSubscriber -------------------------
(***************************************************************************)
(* PositionSubscriber (position_subscriber.cpp) as PositionClient runs it: *)
(* one application thread subscribes, unsubscribes and calls pollMessages()*)
(* under the client's subscribers_mutex_, so those calls never overlap;    *)
(* the subscriber's own message and heartbeat threads run beside it.       *)
(* Positions are indices of the topic's log: the cursor is the number of   *)
(* frames before the next one to read.                                     *)
(***************************************************************************)
EXTENDS TopicLog, FiniteSets

CONSTANTS
  SubStrategies,  \* the strategy ids that occur
  AppPolls        \* whether the application calls pollMessages()

ASSUME SubscriberAssumption == AppPolls \in BOOLEAN

Pollers == {"message", "app"}

VARIABLES
  app,          \* the application thread: which call of the client it is in
  cursor,       \* the slot's cursor
  sub_running,  \* running_ and connected_, which change together
  current_session_id, strategy_sequence_map, producer_heartbeat_lost,
  poll,         \* where each polling thread is, with the frame it has found
  watch,        \* the heartbeat thread: where it is, with what it has loaded
  \* history of the subscription
  start,        \* the cursor it began with
  handed,       \* the frames its callback was given
  flagged,      \* the frames counted in ordering_errors_
  app_polled    \* the application has polled

tracking == <<current_session_id, strategy_sequence_map>>
history == <<start, handed, flagged, app_polled>>
subscriber == <<app, cursor, sub_running, tracking, producer_heartbeat_lost, poll,
                watch, history>>

Resting == [at |-> "rest", frame |-> 0]
Unwatched == [at |-> "none", alive |-> TRUE, lost |-> FALSE]
NothingSeen == [s \in SubStrategies |-> 0]

-----------------------------------------------------------------------------
(***************************************************************************)
(* subscribeToExchange(): a new subscriber object and its connect().       *)
(***************************************************************************)

\* registerSubscriber(): the slot's cursor is the producer's position.
Register ==
  /\ app = "none"
  /\ app' = "connect"
  /\ cursor' = Len(log)
  /\ current_session_id' = 0
  /\ strategy_sequence_map' = NothingSeen
  /\ producer_heartbeat_lost' = FALSE
  /\ start' = Len(log)
  /\ handed' = {}
  /\ flagged' = {}
  /\ app_polled' = FALSE
  /\ UNCHANGED <<topic, sub_running, poll, watch>>

\* The flags are set, and the two threads start.
StartThreads ==
  /\ app = "connect"
  /\ app' = "subscribed"
  /\ sub_running' = TRUE
  /\ watch' = [Unwatched EXCEPT !.at = "sleep"]
  /\ UNCHANGED <<topic, cursor, tracking, producer_heartbeat_lost, poll, history>>

-----------------------------------------------------------------------------
(***************************************************************************)
(* pollMessages() by thread t: poll() finds a frame at the cursor, and     *)
(* processMessage() is its handler.                                        *)
(***************************************************************************)
To(t, label) == poll' = [poll EXCEPT ![t].at = label]

Frame(t) == log[poll[t].frame]

\* The message thread polls while running_; the application thread when its client
\* still has the subscriber.
MayPoll(t) ==
  /\ sub_running
  /\ t = "app" => AppPolls /\ app = "subscribed"

FindFrame(t) ==
  /\ poll[t] = Resting
  /\ MayPoll(t)
  /\ cursor < Len(log)
  /\ poll' = [poll EXCEPT ![t] = [at |-> "session", frame |-> cursor + 1]]
  /\ app_polled' = (app_polled \/ t = "app")
  /\ app' = IF t = "app" THEN "polling" ELSE app
  /\ UNCHANGED <<topic, cursor, sub_running, tracking, producer_heartbeat_lost, watch,
                 start, handed, flagged>>

\* Mutant: a frame of another session is left where it is.
CheckSessionOnce(t) ==
  /\ poll[t].at = "session"
  /\ current_session_id \in {0, Frame(t).session}
  /\ To(t, IF current_session_id = Frame(t).session THEN "order" ELSE "clear")
  /\ UNCHANGED <<topic, app, cursor, sub_running, tracking, producer_heartbeat_lost,
                 watch, history>>

\* "Check for session change (producer restart detection)".
CheckSession(t) ==
  /\ poll[t].at = "session"
  /\ To(t, IF current_session_id = Frame(t).session THEN "order" ELSE "clear")
  /\ UNCHANGED <<topic, app, cursor, sub_running, tracking, producer_heartbeat_lost,
                 watch, history>>

\* Mutant: the map survives the session.
KeepMap(t) ==
  /\ poll[t].at = "clear"
  /\ To(t, "adopt")
  /\ UNCHANGED <<topic, app, cursor, sub_running, tracking, producer_heartbeat_lost,
                 watch, history>>

ClearMap(t) ==
  /\ poll[t].at = "clear"
  /\ strategy_sequence_map' = NothingSeen
  /\ To(t, "adopt")
  /\ UNCHANGED <<topic, app, cursor, sub_running, current_session_id,
                 producer_heartbeat_lost, watch, history>>

AdoptSession(t) ==
  /\ poll[t].at = "adopt"
  /\ current_session_id' = Frame(t).session
  /\ To(t, "order")
  /\ UNCHANGED <<topic, app, cursor, sub_running, strategy_sequence_map,
                 producer_heartbeat_lost, watch, history>>

\* Mutant: only a repeated number is an error.
ValidateNoRepeat(t) ==
  /\ poll[t].at = "order"
  /\ LET s == Frame(t).strategy
     IN IF Frame(t).seq # strategy_sequence_map[s]
          THEN /\ strategy_sequence_map' = [strategy_sequence_map EXCEPT ![s] = Frame(t).seq]
               /\ UNCHANGED flagged
          ELSE /\ flagged' = flagged \cup {poll[t].frame}
               /\ UNCHANGED strategy_sequence_map
  /\ To(t, "deliver")
  /\ UNCHANGED <<topic, app, cursor, sub_running, current_session_id,
                 producer_heartbeat_lost, watch, start, handed, app_polled>>

\* validateOrdering(), under sequence_mutex_ (enable_ordering_check is on by
\* default): greater than the last seen of its strategy, or counted as an error; the
\* frame is delivered all the same.  A strategy not in the map has 0, less than any
\* sequence number.
ValidateOrdering(t) ==
  /\ poll[t].at = "order"
  /\ LET s == Frame(t).strategy
     IN IF Frame(t).seq > strategy_sequence_map[s]
          THEN /\ strategy_sequence_map' = [strategy_sequence_map EXCEPT ![s] = Frame(t).seq]
               /\ UNCHANGED flagged
          ELSE /\ flagged' = flagged \cup {poll[t].frame}
               /\ UNCHANGED strategy_sequence_map
  /\ To(t, "deliver")
  /\ UNCHANGED <<topic, app, cursor, sub_running, current_session_id,
                 producer_heartbeat_lost, watch, start, handed, app_polled>>

\* Mutant: the callback gets the frame after the one that was found.
DeliverNext(t) ==
  /\ poll[t].at = "deliver"
  /\ handed' = handed \cup {poll[t].frame + 1}
  /\ To(t, "advance")
  /\ UNCHANGED <<topic, app, cursor, sub_running, tracking, producer_heartbeat_lost,
                 watch, start, flagged, app_polled>>

\* The position callback, under callback_mutex_.
Deliver(t) ==
  /\ poll[t].at = "deliver"
  /\ handed' = handed \cup {poll[t].frame}
  /\ To(t, "advance")
  /\ UNCHANGED <<topic, app, cursor, sub_running, tracking, producer_heartbeat_lost,
                 watch, start, flagged, app_polled>>

\* Mutant: the cursor goes to the producer's position.
AdvanceToEnd(t) ==
  /\ poll[t].at = "advance"
  /\ cursor' = Len(log)
  /\ poll' = [poll EXCEPT ![t] = Resting]
  /\ app' = IF t = "app" THEN "subscribed" ELSE app
  /\ UNCHANGED <<topic, sub_running, tracking, producer_heartbeat_lost, watch, history>>

\* Mutant: the cursor stays at the frame.
AdvanceNowhere(t) ==
  /\ poll[t].at = "advance"
  /\ cursor' = poll[t].frame - 1
  /\ poll' = [poll EXCEPT ![t] = Resting]
  /\ app' = IF t = "app" THEN "subscribed" ELSE app
  /\ UNCHANGED <<topic, sub_running, tracking, producer_heartbeat_lost, watch, history>>

\* poll() stores the cursor behind the frame, and the call returns.
Advance(t) ==
  /\ poll[t].at = "advance"
  /\ cursor' = poll[t].frame
  /\ poll' = [poll EXCEPT ![t] = Resting]
  /\ app' = IF t = "app" THEN "subscribed" ELSE app
  /\ UNCHANGED <<topic, sub_running, tracking, producer_heartbeat_lost, watch, history>>

PollMessages(t) ==
  \/ FindFrame(t)
  \/ CheckSession(t)
  \/ ClearMap(t)
  \/ AdoptSession(t)
  \/ ValidateOrdering(t)
  \/ Deliver(t)
  \/ Advance(t)

-----------------------------------------------------------------------------
(***************************************************************************)
(* heartbeatLoop(): the transitions of the producer's heartbeat.  Nothing  *)
(* is done while it stays what it was.                                     *)
(***************************************************************************)
WatchLoad ==
  /\ watch.at = "sleep"
  /\ sub_running
  /\ LET seen == [at |-> "judge", alive |-> ProducerAlive,
                  lost |-> producer_heartbeat_lost]
     IN watch' = IF seen.alive = seen.lost THEN seen ELSE watch
  /\ UNCHANGED <<topic, app, cursor, sub_running, tracking, producer_heartbeat_lost,
                 poll, history>>

WatchEnds ==
  /\ watch.at = "sleep"
  /\ ~sub_running
  /\ watch' = Unwatched
  /\ UNCHANGED <<topic, app, cursor, sub_running, tracking, producer_heartbeat_lost,
                 poll, history>>

\* Mutant: producer_heartbeat_lost_ is not set.
HeartbeatLostForgotten ==
  /\ watch.at = "judge"
  /\ ~watch.alive
  /\ watch' = [watch EXCEPT !.at = "callback"]
  /\ UNCHANGED <<topic, app, cursor, sub_running, tracking, producer_heartbeat_lost,
                 poll, history>>

HeartbeatLost ==
  /\ watch.at = "judge"
  /\ ~watch.alive
  /\ producer_heartbeat_lost' = TRUE
  /\ watch' = [watch EXCEPT !.at = "callback"]
  /\ UNCHANGED <<topic, app, cursor, sub_running, tracking, poll, history>>

\* The error callback and the disconnect callback.
PublisherDisconnected ==
  /\ watch.at = "callback"
  /\ watch' = [Unwatched EXCEPT !.at = "sleep"]
  /\ UNCHANGED <<topic, app, cursor, sub_running, tracking, producer_heartbeat_lost,
                 poll, history>>

HeartbeatRecovered ==
  /\ watch.at = "judge"
  /\ watch.alive
  /\ producer_heartbeat_lost' = FALSE
  /\ watch' = [Unwatched EXCEPT !.at = "sleep"]
  /\ UNCHANGED <<topic, app, cursor, sub_running, tracking, poll, history>>

-----------------------------------------------------------------------------
(***************************************************************************)
(* unsubscribeFromExchange(): disconnect(), and the object is destroyed.   *)
(***************************************************************************)
StopThreads ==
  /\ app = "subscribed"
  /\ app' = "join_message"
  /\ sub_running' = FALSE
  /\ UNCHANGED <<topic, cursor, tracking, producer_heartbeat_lost, poll, watch, history>>

\* Mutant: the message thread is detached instead of joined.
DetachMessage ==
  /\ app = "join_message"
  /\ app' = "join_heartbeat"
  /\ UNCHANGED <<topic, cursor, sub_running, tracking, producer_heartbeat_lost, poll,
                 watch, history>>

JoinMessage ==
  /\ app = "join_message"
  /\ poll["message"] = Resting
  /\ app' = "join_heartbeat"
  /\ UNCHANGED <<topic, cursor, sub_running, tracking, producer_heartbeat_lost, poll,
                 watch, history>>

JoinWatch ==
  /\ app = "join_heartbeat"
  /\ watch = Unwatched
  /\ app' = "unregister"
  /\ UNCHANGED <<topic, cursor, sub_running, tracking, producer_heartbeat_lost, poll,
                 watch, history>>

\* Nothing of the object is left.
Unregister ==
  /\ app = "unregister"
  /\ app' = "none"
  /\ cursor' = 0
  /\ start' = 0
  /\ handed' = {}
  /\ flagged' = {}
  /\ app_polled' = FALSE
  /\ current_session_id' = 0
  /\ strategy_sequence_map' = NothingSeen
  /\ producer_heartbeat_lost' = FALSE
  /\ UNCHANGED <<topic, sub_running, poll, watch>>

Unsubscribe ==
  \/ StopThreads
  \/ JoinMessage
  \/ JoinWatch
  \/ Unregister

SubscriberInit ==
  /\ app = "none"
  /\ cursor = 0
  /\ sub_running = FALSE
  /\ current_session_id = 0
  /\ strategy_sequence_map = NothingSeen
  /\ producer_heartbeat_lost = FALSE
  /\ poll = [t \in Pollers |-> Resting]
  /\ watch = Unwatched
  /\ start = 0
  /\ handed = {}
  /\ flagged = {}
  /\ app_polled = FALSE

SubscriberTypeOK ==
  /\ app \in {"none", "connect", "subscribed", "polling", "join_message",
              "join_heartbeat", "unregister"}
  /\ {cursor, start, current_session_id} \subseteq Nat
  /\ {sub_running, producer_heartbeat_lost, app_polled} \subseteq BOOLEAN
  /\ strategy_sequence_map \in [SubStrategies -> Nat]
  /\ poll \in [Pollers -> [at : {"rest", "session", "clear", "adopt", "order",
                                 "deliver", "advance"}, frame : Nat]]
  /\ watch \in [at : {"none", "sleep", "judge", "callback"}, alive : BOOLEAN,
                lost : BOOLEAN]
  /\ handed \cup flagged \subseteq 1 .. Len(log)
=============================================================================
