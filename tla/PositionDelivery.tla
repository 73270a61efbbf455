-------------------------- MODULE PositionDelivery --------------------------
(***************************************************************************)
(* One publisher, which may crash and be restarted, and one subscriber of  *)
(* its topic: PositionPublisher and PositionSubscriber over TopicLog.      *)
(***************************************************************************)
EXTENDS PositionPublisher, PositionSubscriber

VARIABLE
  outages   \* history: outages during the subscription, less disconnect callbacks

delivery == <<topic, publisher, subscriber, outages>>

\* strategy_sequence_map_ takes any strategy id that a frame carries.
ASSUME DeliveryAssumption == Strategies \subseteq SubStrategies

\* Bound: further outages are not counted.
MaxOutages == 2

DeliveryInit ==
  /\ PublisherInit
  /\ SubscriberInit
  /\ outages = 0

PublisherStep == Publisher /\ UNCHANGED <<subscriber, outages>>

\* The heartbeat becomes too old, or already is when the subscription begins.
Outage ==
  /\ HeartbeatAges
  /\ outages' = IF outages < MaxOutages THEN outages + 1 ELSE outages
  /\ UNCHANGED <<publisher, subscriber>>

Subscribe ==
  /\ Register
  /\ outages' = IF ProducerAlive THEN 0 ELSE 1
  /\ UNCHANGED publisher

Notice == PublisherDisconnected /\ outages' = outages - 1 /\ UNCHANGED publisher

\* The other steps of a subscription.
Here(A) == A /\ UNCHANGED <<publisher, outages>>
OtherWatch == WatchLoad \/ WatchEnds \/ HeartbeatLost \/ HeartbeatRecovered

DeliveryNext ==
  \/ PublisherStep
  \/ Subscribe
  \/ Here(StartThreads)
  \/ \E t \in Pollers : Here(PollMessages(t))
  \/ Notice
  \/ Here(OtherWatch)
  \/ Here(Unsubscribe)
  \/ Outage

DeliverySpec == DeliveryInit /\ [][DeliveryNext]_delivery

\* The subscriber's threads run, time passes, and a call of the application into
\* its client goes on; nobody has to publish, subscribe or unsubscribe.
GoOn ==
  \/ StartThreads
  \/ poll["app"] # Resting /\ PollMessages("app")
  \/ JoinMessage
  \/ JoinWatch
  \/ Unregister

FairDeliverySpec ==
  /\ DeliverySpec
  /\ WF_delivery(Here(PollMessages("message")))
  /\ WF_delivery(Notice \/ Here(OtherWatch))
  /\ WF_delivery(Outage)
  /\ WF_delivery(Here(GoOn))

-----------------------------------------------------------------------------
(***************************************************************************)
(* Properties.                                                             *)
(***************************************************************************)

\* Types of both sides.
DeliveryTypeOK ==
  /\ PublisherTypeOK
  /\ SubscriberTypeOK
  /\ outages \in -1 .. MaxOutages

\* Frame j may not follow frame i: same session and strategy, and no greater
\* sequence number.
Disordered(i, j) ==
  /\ log[i].session = log[j].session
  /\ log[i].strategy = log[j].strategy
  /\ log[j].seq <= log[i].seq

\* "FIFO delivery" (README): the callback gets every frame once, in log order.
DeliveredInOrder ==
  [][\A t \in Pollers : Deliver(t) => \A i \in handed : i < poll[t].frame]_delivery

\* The same as long as only messageLoop() polls.
LoopDeliversInOrder ==
  [][\A t \in Pollers :
       Deliver(t) /\ ~app_polled => \A i \in handed : i < poll[t].frame]_delivery

\* Whoever polls, and however a slow poller sets the cursor back, no frame below
\* the cursor was missed: poll() stores the cursor after the handler.
NothingSkipped == start + 1 .. cursor \subseteq handed

\* validateOrdering() counts only what was delivered after a frame of its session
\* and strategy with no smaller number: a restarted publisher, counting from 1
\* again, raises no ordering error.  With a second poller this needs one session.
OneViewOfSession == ~app_polled \/ \A i, j \in DOMAIN log : log[i].session = log[j].session

OrderingErrorsReal ==
  [][\A t \in Pollers :
       /\ ValidateOrdering(t) /\ OneViewOfSession
       /\ poll[t].frame \in flagged' \ flagged
       => LET others == {u \in Pollers \ {t} : poll[u].at \in {"deliver", "advance"}}
          IN \E i \in handed \cup {poll[u].frame : u \in others} :
               Disordered(i, poll[t].frame)]_delivery

\* disconnect() may set session_id_ to 0 between the check of a publish() in
\* another thread and its use: the frame then carries no session.
SessionsIntact == \A i \in DOMAIN log : log[i].session # 0

\* "Consumer also check for ordering for safety" (README): a frame that the
\* callback gets out of order is in the count, as long as every frame has its
\* session and only messageLoop() polls.  A second poller can clear the map again
\* for the same session change.
DisorderCounted ==
  [][\A t \in Pollers :
       /\ Deliver(t) /\ ~app_polled /\ SessionsIntact
       /\ \E i \in handed : Disordered(i, poll[t].frame)
       => poll[t].frame \in flagged]_delivery

\* heartbeatLoop(): every disconnect callback stands for an outage of its own,
\* although the heartbeat and the lost flag are loaded before the callback and
\* heartbeats may be stored in between.
OutageReportedOnce == outages >= 0

\* disconnect() has joined the threads before the slot is given up: no callback
\* runs for a subscription that is gone.
NoCallbackAfterUnsubscribe ==
  app \in {"none", "unregister"} =>
    /\ \A t \in Pollers : poll[t] = Resting
    /\ watch = Unwatched

\* A frame that the subscriber has not passed is handed to the callback unless
\* the application unsubscribes, also across restarts of the publisher.
EventuallyDelivered ==
  \A i \in 1 .. MaxLog :
    app = "subscribed" /\ i \in DOMAIN log /\ cursor < i
      ~> i \in handed \/ app \notin {"subscribed", "polling"}

\* A publisher that has once sent a heartbeat and whose heartbeat thread is gone
\* is reported to a subscriber that stays, unless it is restarted.
OutageNoticed ==
  beat = "none" /\ producer_heartbeat # "never" /\ app = "subscribed"
    ~> \/ producer_heartbeat_lost
       \/ beat # "none"
       \/ app \notin {"subscribed", "polling"}
=============================================================================
