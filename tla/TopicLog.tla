------------------------------ MODULE TopicLog ------------------------------
(***************************************************************************)
(* One topic as PositionPublisher and PositionSubscriber use it through    *)
(* TopicChannel: a log of frames and the producer's heartbeat.  RingFrames *)
(* implements it with frames of one size and until the ring is lapped;     *)
(* frames_second_lap and frames_padding show what the ring does otherwise. *)
(* The ring drops what does not fit, so that publish() may fail.           *)
(***************************************************************************)
EXTENDS Integers, Sequences

VARIABLES
  log,               \* the frames written, with the session and the sequence number
  producer_heartbeat \* SharedMemoryHeader's producer_heartbeat_ns, by its age

topic == <<log, producer_heartbeat>>

\* TopicChannel::publish(): the frame is appended, or dropped (ring full).  No frame is
\* overwritten or read before it is committed, which the ring promises as said above.
ChannelPublish(frame, written) ==
  log' = IF written THEN Append(log, frame) ELSE log

\* Mutant: a heartbeat counts for ever.
ProducerAliveForEver == producer_heartbeat # "never"

\* isProducerAlive(): within the timeout, or no heartbeat was ever stored.
ProducerAlive == producer_heartbeat # "stale"

\* The timeout passes without a heartbeat.
HeartbeatAges ==
  /\ producer_heartbeat = "fresh"
  /\ producer_heartbeat' = "stale"
  /\ UNCHANGED log
=============================================================================
