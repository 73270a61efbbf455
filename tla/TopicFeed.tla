------------------------------ MODULE TopicFeed ------------------------------
(***************************************************************************)
(* What a topic promises its readers while nobody is overrun: one log of   *)
(* messages; a subscriber gets every message published after it subscribed,*)
(* once, in order ("FIFO delivery", README).  A message is its number in   *)
(* the log.                                                                *)
(***************************************************************************)
EXTENDS Integers

CONSTANTS
  Processes   \* the readers

VARIABLES
  published,  \* length of the log
  next,       \* number of the message a subscriber gets next, 0: no promise
  last        \* the last message handed to the reader, 0: none

feed == <<published, next, last>>

FeedInit ==
  /\ published = 0
  /\ next = [p \in Processes |-> 0]
  /\ last = [p \in Processes |-> 0]

Publish ==
  /\ published' = published + 1
  /\ UNCHANGED <<next, last>>

\* A new subscriber starts with the first message published from now on.
Join(p) ==
  /\ next[p] = 0
  /\ next' = [next EXCEPT ![p] = published + 1]
  /\ UNCHANGED <<published, last>>

Deliver(p) ==
  /\ next[p] \in 1 .. published
  /\ last' = [last EXCEPT ![p] = next[p]]
  /\ next' = [next EXCEPT ![p] = @ + 1]
  /\ UNCHANGED published

\* It unsubscribes, or the ring declares it overrun: nothing is promised.
Leave(p) ==
  /\ next[p] # 0
  /\ next' = [next EXCEPT ![p] = 0]
  /\ UNCHANGED <<published, last>>

FeedNext ==
  \/ Publish
  \/ \E p \in Processes : Join(p) \/ Deliver(p) \/ Leave(p)

FeedSpec == FeedInit /\ [][FeedNext]_feed
=============================================================================
