----------------------------- MODULE ClientLocks -----------------------------
(***************************************************************************)
(* The threads and mutexes of one process that uses a PositionClient with  *)
(* a publisher and any number of subscriptions, as the example program     *)
(* does: calls of the application, callbacks that call the client back,    *)
(* disconnect(), the signal handler and the end of the process.            *)
(*                                                                         *)
(* A thread, a mutex or a method is a pair <<name, exchange>>: that of the *)
(* subscriber of an exchange, or, with NoExchange, of the client or its    *)
(* publisher.  todo[t] is what thread t has still to do, in sequence:      *)
(*   Acquire(l), Release(l)   the scope of a lock_guard                    *)
(*   Call(m)                  method m, which unfolds to its body          *)
(*   Await(u)                 std::thread::join() of thread u              *)
(*   Caught                   the end of a try that catches system_error   *)
(* Mutexes that are never held while something else is waited for are left *)
(* out: handlers_mutex_, topics_mutex_, sequence_mutex_, heartbeat_mutex_  *)
(* and Logger's mutex_.                                                    *)
(***************************************************************************)
EXTENDS Naturals, Sequences, FiniteSets

CONSTANTS
  Exchanges,      \* what may be subscribed to
  NoExchange,
  Configured,     \* config_.subscribed_exchanges, a sequence
  CallbackCalls,  \* what the application's callbacks may call
  MaxSituations   \* bound: how many of the situations named below come up

ASSUME ClientAssumption ==
  /\ IsFiniteSet(Exchanges)
  /\ NoExchange \notin Exchanges
  /\ Configured \in Seq(Exchanges)
  /\ CallbackCalls \subseteq {"publish", "setErrorCallback", "statistics", "unsubscribe"}
  /\ MaxSituations \in Nat \ {0}

Client(name) == <<name, NoExchange>>

App == Client("app")
Beat == Client("beat")
Readers(x) == {<<"message", x>>, <<"watch", x>>}
Workers == {Beat} \cup {"message", "watch"} \X Exchanges
Threads == {App} \cup Workers
NoThread == Client("none")
Owners == Exchanges \cup {NoExchange}

Subscribers == Client("subscribers")                  \* subscribers_mutex_
CallbackMutex(x) == <<"subscriber_callback", x>>
Locks == {Subscribers, Client("client_callback"), Client("publisher_callback")}
           \cup {CallbackMutex(x) : x \in Exchanges}

VARIABLES
  todo,       \* per thread
  owner,      \* per mutex
  joinable,   \* the workers that were started and not joined
  publisher,  \* the flags of the PositionPublisher
  subscriber, \* per exchange: those of its PositionSubscriber, if subscribers_ has one
  process,    \* running, unmapped (the registry is gone), ended or terminated
  signalled,  \* bound: one signal
  lifecycle,  \* the last of connect() and disconnect() that returned
  history     \* which of the situations named below have come up

flags == <<joinable, publisher, subscriber, process, signalled, lifecycle>>
vars == <<todo, owner, flags, history>>

\* What happened, for the conditions of the properties:
\*   reentry      a callback called what needs a mutex that is held around it
\*   unsubscribed a callback called unsubscribeFromExchange()
\*   interrupted  the signal came while the main thread was inside a call
\*   reconnected  connect() was called after disconnect()
\*   untidy       the program ended without disconnect()
Situations == {"reentry", "unsubscribed", "interrupted", "reconnected", "untidy"}

Happened(S) == history \cap S # {}

\* The situations of S come up as well.  A second connect() always may, the others as far
\* as the bound goes.
ComeUp(S) ==
  /\ history' = history \cup S
  /\ S \subseteq {"reconnected"} \/ Cardinality(history') <= MaxSituations

Acquire(l) == <<"lock", l>>
Release(l) == <<"unlock", l>>
Call(m) == <<"call", m>>
Await(u) == <<"join", u>>
Caught == <<"catch", Client("system_error")>>

Idle(t) == todo[t] = <<>>
At(t, kind) == todo[t] # <<>> /\ Head(todo[t])[1] = kind
What(t) == Head(todo[t])[2]
Calls(t, m) == todo[t] # <<>> /\ Head(todo[t]) = <<"call", m>>

\* Thread t goes on with the steps s in place of its first one.
Unfold(t, s) == todo' = [todo EXCEPT ![t] = s \o Tail(@)]

Does(t, m, s) == Calls(t, m) /\ Unfold(t, s)

Guarded(l, m) == <<Acquire(l), Call(m), Release(l)>>

\* Method n of the subscribers of the exchanges s, one after the other.
Each(n, s) == [i \in 1 .. Len(s) |-> Call(<<n, s[i]>>)]

\* The elements of S in any order, as in an unordered_map.
Orders(S) == {s \in [1 .. Cardinality(S) -> S] : \A x \in S : \E i \in DOMAIN s : s[i] = x}

Present == {x \in Exchanges : subscriber[x].present}

-----------------------------------------------------------------------------
(***************************************************************************)
(* What the methods do that only call others, while the subscriber reads   *)
(* and the publisher publishes (running_ of the one and the other), or no  *)
(* longer does.                                                            *)
(***************************************************************************)
\* Mutant: lock() in place of a lock_guard, and the return before unlock().
ErrorOfKeepsMutex(l) == <<Acquire(l), Call(Client("clientError")), Caught>>

ErrorOf(l) == <<Acquire(l), Call(Client("clientError")), Release(l), Caught>>

\* Mutant: the callback mutex is taken once around both notifications.
HeartbeatLostUnderLock(x) ==
  LET l == CallbackMutex(x)
  IN <<Acquire(l), Acquire(l), Call(Client("clientError")), Release(l),
       Call(<<"disconnectCallback", x>>), Release(l), Caught, Call(<<"heartbeatLoop", x>>)>>

\* heartbeatLoop() of the subscriber when the producer has gone silent: two notifications,
\* and another round.
HeartbeatLost(x) ==
  LET l == CallbackMutex(x)
  IN <<Acquire(l), Call(Client("clientError")), Release(l), Caught,
       Acquire(l), Call(<<"disconnectCallback", x>>), Release(l), Caught,
       Call(<<"heartbeatLoop", x>>)>>

\* The threads' loops: another round while running_ is set.  The producer's heartbeat is
\* fresh, or lost.
Loops == [x \in Owners |-> [running \in BOOLEAN |->
  [messageLoop   |-> {IF running THEN <<Call(<<"poll", x>>), Call(<<"messageLoop", x>>)>>
                      ELSE <<>>},
   heartbeatLoop |-> IF running
                     THEN {<<Call(<<"producerAlive", x>>), Call(<<"heartbeatLoop", x>>)>>,
                           HeartbeatLost(x)}
                     ELSE {<<>>},
   producerAlive |-> {<<>>},
   beatLoop      |-> {IF running THEN <<Call(<<"beatLoop", x>>)>> ELSE <<>>}]]]

\* PositionSubscriber::pollMessages() finds no frame, or processMessage() takes one to the
\* callback or fails before.  What is thrown then, or by the callback unless it is a
\* system_error, goes to handleError().  PositionPublisher::publishPositions(): written, or
\* the ring is full.
Delivery == [x \in Owners |-> [running \in BOOLEAN |->
  [poll        |-> {<<>>} \cup
                   (IF running
                    THEN {<<Acquire(CallbackMutex(x)), Call(<<"positionCallback", x>>),
                            Release(CallbackMutex(x)), Call(<<"processed", x>>), Caught>>,
                          <<Call(<<"processed", x>>), Caught>>}
                    ELSE {}),
   processed   |-> {<<>>, Guarded(CallbackMutex(x), Client("clientError"))},
   publish     |-> {<<>>} \cup
                   (IF running THEN {ErrorOf(Client("publisher_callback"))} ELSE {}),
   clientError |-> {Guarded(Client("client_callback"), Client("errorCallback"))}]]]

\* The calls of PositionClient.  "statistics" stands for isConnected(), getReceivedCount()
\* and the others that only read under subscribers_mutex_.
ClientCalls == [x \in Owners |-> [running \in BOOLEAN |->
  [connect          |-> {<<Call(Client("startPublisher"))>> \o Each("subscribe", Configured)
                           \o <<Call(Client("connected"))>>}
                        \* the publisher's topic cannot be opened
                        \cup (IF running THEN {} ELSE {<<>>}),
   disconnect       |-> {<<Call(Client("disconnectPublisher")),
                           Acquire(Subscribers), Call(Client("disconnectAll")),
                           Call(Client("clear")), Release(Subscribers),
                           Call(Client("disconnected"))>>},
   subscribe        |-> {Guarded(Subscribers, <<"startSubscriber", x>>)},
   unsubscribe      |-> {<<Acquire(Subscribers), Call(<<"disconnectSubscriber", x>>),
                           Call(<<"erase", x>>), Release(Subscribers)>>},
   pollMessages     |-> {Guarded(Subscribers, Client("pollAll"))},
   setErrorCallback |-> {<<Acquire(Client("client_callback")),
                           Release(Client("client_callback"))>>},
   statistics       |-> {<<Acquire(Subscribers), Release(Subscribers)>>},
   \* exit() ends the registry, a function's static, before the client, a global.
   exit             |-> {<<Call(Client("unmap")), Call(Client("disconnect")),
                           Call(Client("destroy"))>>}]]]

\* The object that has x runs its threads or publishes.
Running(x) == IF x = NoExchange THEN publisher.running ELSE subscriber[x].running

\* The method that thread t calls is one of bodies, and unfolds.
OneOf(t, bodies) ==
  /\ What(t)[1] \in DOMAIN bodies
  /\ \E s \in bodies[What(t)[1]] : Unfold(t, s)

\* A method that only calls others.
Invoke(t) ==
  /\ At(t, "call")
  /\ LET x == What(t)[2]
     IN \/ OneOf(t, Loops[x][Running(x)])
        \/ OneOf(t, Delivery[x][Running(x)])
        \/ OneOf(t, ClientCalls[x][Running(x)])
  /\ UNCHANGED <<owner, flags, history>>

\* The loops over subscribers_, under its mutex.
ForAll(t) ==
  /\ \/ /\ Calls(t, Client("disconnectAll"))
        /\ \E s \in Orders(Present) : Unfold(t, Each("disconnectSubscriber", s))
     \/ /\ Calls(t, Client("pollAll"))
        /\ \E s \in Orders(Present) : Unfold(t, Each("poll", s))
  /\ UNCHANGED <<owner, flags, history>>

\* A callback of the application.  Whichever it is, some mutexes are held around it: by
\* its own thread, and perhaps subscribers_mutex_ by one that waits for it.
Callbacks ==
  {Client("errorCallback")} \cup {"positionCallback", "disconnectCallback"} \X Exchanges

Harmless(m) == IF m = Client("errorCallback") THEN {} ELSE {"publish", "setErrorCallback"}

Callback(t) ==
  /\ At(t, "call")
  /\ What(t) \in Callbacks
  /\ \/ Unfold(t, <<>>) /\ UNCHANGED history
     \/ \E n \in CallbackCalls :
          /\ \E x \in IF n = "unsubscribe" THEN Exchanges ELSE {NoExchange} :
               Unfold(t, <<Call(<<n, x>>)>>)
          /\ ComeUp((IF n \in Harmless(What(t)) THEN {} ELSE {"reentry"})
                      \cup (IF n = "unsubscribe" THEN {"unsubscribed"} ELSE {}))
  /\ UNCHANGED <<owner, flags>>

-----------------------------------------------------------------------------
(***************************************************************************)
(* Mutexes and joins.                                                      *)
(***************************************************************************)
Lock(t) ==
  /\ At(t, "lock")
  /\ owner[What(t)] = NoThread
  /\ owner' = [owner EXCEPT ![What(t)] = t]
  /\ Unfold(t, <<>>)
  /\ UNCHANGED <<flags, history>>

Unlock(t) ==
  /\ At(t, "unlock")
  /\ owner' = [owner EXCEPT ![What(t)] = NoThread]
  /\ Unfold(t, <<>>)
  /\ UNCHANGED <<flags, history>>

Leave(t) ==
  /\ At(t, "catch")
  /\ Unfold(t, <<>>)
  /\ UNCHANGED <<owner, flags, history>>

\* joinable() is tested before join().
Join(t) ==
  /\ At(t, "join")
  /\ What(t) # t
  /\ What(t) \in joinable => Idle(What(t))
  /\ joinable' = joinable \ {What(t)}
  /\ Unfold(t, <<>>)
  /\ UNCHANGED <<owner, publisher, subscriber, process, signalled, lifecycle, history>>

\* A thread that joins itself gets a system_error: the scopes up to the next catch are
\* left and their mutexes released.
JoinItself(t) ==
  /\ At(t, "join")
  /\ What(t) = t
  /\ \E c \in DOMAIN todo[t] :
       /\ todo[t][c] = Caught
       /\ \A i \in 1 .. c - 1 : todo[t][i] # Caught
       /\ todo' = [todo EXCEPT ![t] = SubSeq(@, c + 1, Len(@))]
       /\ owner' = [l \in Locks |->
                      IF \E i \in 1 .. c : todo[t][i] = Release(l) THEN NoThread ELSE owner[l]]
  /\ UNCHANGED <<flags, history>>

-----------------------------------------------------------------------------
(***************************************************************************)
(* Steps that change the flags.                                            *)
(***************************************************************************)
\* Thread t goes on, and each thread of loops starts with its loop.
Start(t, loops) ==
  todo' = [u \in Threads |->
             IF u \in DOMAIN loops THEN <<Call(loops[u])>>
             ELSE IF u = t THEN Tail(todo[u]) ELSE todo[u]]

\* The process is gone, and its threads with it.
End(how) ==
  /\ process' = how
  /\ todo' = [t \in Threads |-> <<>>]

\* A std::thread that is still joinable is destroyed or assigned to: std::terminate().
Terminate == End("terminated")

\* PositionPublisher::connect(); cleanup_started_ is left as it is.
StartPublisher(t) ==
  /\ Calls(t, Client("startPublisher"))
  /\ publisher' = [publisher EXCEPT !.running = TRUE]
  /\ \/ publisher.running /\ Unfold(t, <<>>) /\ UNCHANGED <<joinable, process>>
     \/ ~publisher.running /\ Beat \in joinable /\ Terminate /\ UNCHANGED joinable
     \/ /\ ~publisher.running /\ Beat \notin joinable
        /\ Start(t, [u \in {Beat} |-> Client("beatLoop")])
        /\ joinable' = joinable \cup {Beat}
        /\ UNCHANGED process
  /\ ComeUp(IF publisher.cleanup_started THEN {"reconnected"} ELSE {})
  /\ UNCHANGED <<owner, subscriber, signalled, lifecycle>>

\* Mutant: the heartbeat thread is not waited for.
StopPublisherEarly(t) ==
  /\ Does(t, Client("disconnectPublisher"), <<>>)
  /\ publisher' = [running |-> FALSE, cleanup_started |-> TRUE]
  /\ UNCHANGED <<owner, joinable, subscriber, process, signalled, lifecycle, history>>

\* PositionPublisher::disconnect(), which does its work once.
StopPublisher(t) ==
  /\ \/ /\ publisher.cleanup_started
        /\ Does(t, Client("disconnectPublisher"), <<>>)
        /\ UNCHANGED publisher
     \/ /\ ~publisher.cleanup_started
        /\ Does(t, Client("disconnectPublisher"), <<Await(Beat)>>)
        /\ publisher' = [running |-> FALSE, cleanup_started |-> TRUE]
  /\ UNCHANGED <<owner, joinable, subscriber, process, signalled, lifecycle, history>>

NoSubscriber == [present |-> FALSE, running |-> FALSE, cleanup_started |-> FALSE]

\* subscribeToExchange() under its mutex: already there, connected, or connect() fails.
StartSubscriber(t) ==
  /\ \E x \in Exchanges :
       \/ Does(t, <<"startSubscriber", x>>, <<>>) /\ UNCHANGED <<joinable, subscriber>>
       \/ /\ Calls(t, <<"startSubscriber", x>>)
          /\ ~subscriber[x].present
          /\ subscriber' = [subscriber EXCEPT ![x] = [present |-> TRUE, running |-> TRUE,
                                                      cleanup_started |-> FALSE]]
          /\ joinable' = joinable \cup Readers(x)
          /\ Start(t, [u \in Readers(x) |->
                         <<IF u[1] = "message" THEN "messageLoop" ELSE "heartbeatLoop", x>>])
  /\ UNCHANGED <<owner, publisher, process, signalled, lifecycle, history>>

\* disconnect() of an object that is gone, or a second one.
StoppedBefore(t, x) ==
  /\ ~subscriber[x].present \/ subscriber[x].cleanup_started
  /\ Does(t, <<"disconnectSubscriber", x>>, <<>>)
  /\ UNCHANGED subscriber

\* The first one, which leaves running_ as it says and does s.
StopsNow(t, x, running, s) ==
  /\ subscriber[x].present /\ ~subscriber[x].cleanup_started
  /\ Does(t, <<"disconnectSubscriber", x>>, s)
  /\ subscriber' = [subscriber EXCEPT ![x] = [present |-> TRUE, running |-> running,
                                              cleanup_started |-> TRUE]]

\* Mutant: the threads are not told to stop.
StopSubscriberRunning(t) ==
  /\ \E x \in Exchanges :
       \/ StoppedBefore(t, x)
       \/ StopsNow(t, x, subscriber[x].running,
                   <<Await(<<"message", x>>), Await(<<"watch", x>>)>>)
  /\ UNCHANGED <<owner, joinable, publisher, process, signalled, lifecycle, history>>

\* Mutant: the heartbeat thread is not waited for.
StopSubscriberEarly(t) ==
  /\ \E x \in Exchanges :
       StoppedBefore(t, x) \/ StopsNow(t, x, FALSE, <<Await(<<"message", x>>)>>)
  /\ UNCHANGED <<owner, joinable, publisher, process, signalled, lifecycle, history>>

\* PositionSubscriber::disconnect() of the one in subscribers_, once per object.
StopSubscriber(t) ==
  /\ \E x \in Exchanges :
       \/ StoppedBefore(t, x)
       \/ StopsNow(t, x, FALSE, <<Await(<<"message", x>>), Await(<<"watch", x>>)>>)
  /\ UNCHANGED <<owner, joinable, publisher, process, signalled, lifecycle, history>>

\* The destructors of the subscribers of S find their disconnect() done.
Remove(t, S) ==
  /\ subscriber' = [x \in Exchanges |-> IF x \in S THEN NoSubscriber ELSE subscriber[x]]
  /\ IF \A x \in S : Readers(x) \cap joinable = {}
     THEN Unfold(t, <<>>) /\ UNCHANGED process
     ELSE Terminate
  /\ UNCHANGED <<owner, joinable, publisher, signalled, lifecycle, history>>

\* subscribers_.erase(), and subscribers_.clear().
Erase(t) ==
  \/ \E x \in Exchanges : Calls(t, <<"erase", x>>) /\ Remove(t, {x})
  \/ Calls(t, Client("clear")) /\ Remove(t, Exchanges)

\* connect() or disconnect() of the client is about to return.
Return(t) ==
  /\ Calls(t, Client("connected")) \/ Calls(t, Client("disconnected"))
  /\ lifecycle' = What(t)[1]
  /\ Unfold(t, <<>>)
  /\ UNCHANGED <<owner, joinable, publisher, subscriber, process, signalled, history>>

\* TopicRegistry::~TopicRegistry(): every ring of the process is unmapped.
Unmap(t) ==
  /\ Does(t, Client("unmap"), <<>>)
  /\ process' = "unmapped"
  /\ UNCHANGED <<owner, joinable, publisher, subscriber, signalled, lifecycle, history>>

\* The client's members are destroyed, and the process ends.
Destroy(t) ==
  /\ Calls(t, Client("destroy"))
  /\ IF joinable = {} THEN End("ended") ELSE Terminate
  /\ UNCHANGED <<owner, joinable, publisher, subscriber, signalled, lifecycle, history>>

Step(t) ==
  \/ Invoke(t)
  \/ ForAll(t)
  \/ Callback(t)
  \/ Unlock(t)
  \/ Leave(t)
  \/ Join(t)
  \/ JoinItself(t)
  \/ StartPublisher(t)
  \/ StopPublisher(t)
  \/ StartSubscriber(t)
  \/ StopSubscriber(t)
  \/ Erase(t)
  \/ Return(t)
  \/ Unmap(t)
  \/ Destroy(t)

Run(t) == Step(t) \/ Lock(t)

-----------------------------------------------------------------------------
(***************************************************************************)
(* The application: its main thread, and the signal handler that takes it  *)
(* over wherever it is.                                                    *)
(***************************************************************************)
AppCalls ==
  {Client(n) : n \in {"connect", "disconnect", "pollMessages", "publish", "statistics",
                      "setErrorCallback"}}
    \cup {"subscribe", "unsubscribe"} \X Exchanges

AppCall ==
  /\ Idle(App)
  /\ process = "running"
  /\ \E m \in AppCalls : todo' = [todo EXCEPT ![App] = <<Call(m)>>]
  /\ UNCHANGED <<owner, flags, history>>

\* main() returns, or leaves by an exception.
AppReturns ==
  /\ Idle(App)
  /\ process = "running"
  /\ todo' = [todo EXCEPT ![App] = <<Call(Client("exit"))>>]
  /\ ComeUp(IF joinable = {} THEN {} ELSE {"untidy"})
  /\ UNCHANGED <<owner, flags>>

\* signalHandler() never returns to what it interrupted, and keeps its mutexes: those of
\* the client and, not modelled, topics_mutex_ and Logger's mutex_, which the example's
\* main thread takes outside the calls of the client as well.
Signal ==
  /\ ~signalled
  /\ process = "running"
  /\ signalled' = TRUE
  /\ todo' = [todo EXCEPT ![App] = <<Call(Client("disconnect")), Call(Client("exit"))>>]
  /\ ComeUp(IF Idle(App) THEN {} ELSE {"interrupted"})
  /\ UNCHANGED <<owner, joinable, publisher, subscriber, process, lifecycle>>

ClientInit ==
  /\ todo = [t \in Threads |-> <<>>]
  /\ owner = [l \in Locks |-> NoThread]
  /\ joinable = {}
  /\ publisher = [running |-> FALSE, cleanup_started |-> FALSE]
  /\ subscriber = [x \in Exchanges |-> NoSubscriber]
  /\ process = "running"
  /\ signalled = FALSE
  /\ lifecycle = "disconnected"
  /\ history = {}

ClientNext ==
  \/ \E t \in Threads : Run(t)
  \/ AppCall
  \/ AppReturns
  \/ Signal

\* Threads that can go on do; callbacks return.  The workers sleep between two of their
\* turns (without use_busy_spin), outside all mutexes, so that the main thread gets the
\* one it waits for.
FairClientSpec ==
  /\ ClientInit
  /\ [][ClientNext]_vars
  /\ \A t \in Threads : WF_vars(Run(t))
  /\ SF_vars(Lock(App))

-----------------------------------------------------------------------------
(***************************************************************************)
(* Properties.                                                             *)
(***************************************************************************)

\* Every variable has its type, and a mutex is held by a thread that has the rest of the
\* lock_guard's scope to do, unless the signal handler has taken it over.
ClientTypeOK ==
  /\ owner \in [Locks -> Threads \cup {NoThread}]
  /\ joinable \subseteq Workers
  /\ process \in {"running", "unmapped", "ended", "terminated"}
  /\ lifecycle \in {"connected", "disconnected"}
  /\ history \subseteq Situations
  /\ \A l \in Locks :
       owner[l] # NoThread /\ process \in {"running", "unmapped"}
           /\ ~Happened({"interrupted"}) =>
         \E i \in DOMAIN todo[owner[l]] : todo[owner[l]][i] = Release(l)

\* Whom a thread waits for: the holder of a mutex, or a thread that it joins.
WaitsFor(t) ==
  IF At(t, "lock") /\ owner[What(t)] # NoThread THEN {owner[What(t)]}
  ELSE IF At(t, "join") /\ What(t) \in joinable /\ ~Idle(What(t)) THEN {What(t)}
  ELSE {}

\* disconnect() and unsubscribeFromExchange() join threads under subscribers_mutex_, and
\* callbacks run under up to three mutexes: no set of threads waits for each other, as
\* long as callbacks keep to the harmless calls and the signal finds the main thread idle.
\* Idle has to mean outside LOG_INFO and getOrCreateTopic() too: a signal that interrupts
\* the main thread in one of these leaves it with a mutex that the LOG_INFO of disconnect(),
\* or the registry's destructor, waits for.
NoDeadlock ==
  ~Happened({"reentry", "interrupted"}) =>
    \A S \in (SUBSET Threads) \ {{}} : \E t \in S : WaitsFor(t) \cap S = {}

\* The process is never ended by std::terminate(): every thread is joined before its
\* object goes.  A callback that unsubscribes joins itself, and one more disconnect()
\* after a second connect() joins nobody.
NeverTerminated ==
  ~Happened({"unsubscribed", "interrupted", "reconnected"}) => process # "terminated"

\* The destructor of the registry unmaps the rings when no thread of the client is left
\* that could be in the middle of a poll or a heartbeat: after a disconnect() by the
\* application or by a signal that finds it idle, whatever callbacks have called.
UnmappedAfterThreads ==
  process = "unmapped" /\ ~Happened({"interrupted", "reconnected", "untidy"}) =>
    \A t \in Workers : Idle(t)

\* When disconnect() has returned to the application, what connect() and the calls after it
\* started is over: the publisher publishes no more and its thread has ended, and so have
\* the threads of every exchange that was not subscribed to again.  Not so after a second
\* connect(): cleanup_started_ is never reset, and disconnect() stops nothing then.
DisconnectStopsAll ==
  process = "running" /\ lifecycle = "disconnected" /\ Idle(App)
    /\ ~Happened({"reconnected"}) =>
       /\ ~publisher.running /\ Idle(Beat)
       /\ \A x \in Exchanges \ Present : \A t \in Readers(x) : Idle(t)

\* Every call of the application returns, disconnect() and the end of the process included,
\* unless a callback or the signal does what NoDeadlock excludes; an end by
\* std::terminate() counts as a return.
CallsReturn ==
  ~Idle(App) ~> Idle(App) \/ Happened({"reentry", "interrupted"})
=============================================================================
