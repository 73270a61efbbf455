-------------------------- MODULE ClientLocksProofs --------------------------
(***************************************************************************)
(* ClientLocks for any subscriptions and any callbacks: its types, the     *)
(* scopes of its locks, no deadlock, no std::terminate(), and nothing that *)
(* runs after disconnect() or after the registry is gone.                  *)
(***************************************************************************)
EXTENDS ClientLocks, FiniteSetTheorems, SequenceTheorems, TLAPS

-----------------------------------------------------------------------------
(***************************************************************************)
(* What is in todo.                                                        *)
(***************************************************************************)
SubscriberMethods ==
  {"messageLoop", "heartbeatLoop", "producerAlive", "poll", "positionCallback", "processed",
   "disconnectCallback", "subscribe", "startSubscriber", "unsubscribe",
   "disconnectSubscriber", "erase"}

ClientMethods ==
  {"beatLoop", "publish", "clientError", "errorCallback", "connect", "startPublisher",
   "connected", "disconnect", "disconnectPublisher", "disconnectAll", "clear",
   "disconnected", "pollMessages", "pollAll", "setErrorCallback", "statistics", "exit",
   "unmap", "destroy"}

Methods == (SubscriberMethods \X Exchanges) \cup (ClientMethods \X {NoExchange})

Items ==
  ({"lock", "unlock"} \X Locks) \cup ({"call"} \X Methods) \cup ({"join"} \X Workers)
    \cup {Caught}

\* Step i calls a method with one of these names.
Named(i, names) == i[1] = "call" /\ i[2][1] \in names

\* What a worker does when no callback unsubscribes, and in any case.
Quiet(i) ==
  \/ i[1] \in {"lock", "unlock", "catch"}
  \/ Named(i, {"messageLoop", "heartbeatLoop", "producerAlive", "poll", "positionCallback",
               "processed", "disconnectCallback", "beatLoop", "publish", "clientError", "errorCallback",
               "setErrorCallback", "statistics"})

OfWorker(i) ==
  \/ Quiet(i)
  \/ Named(i, {"unsubscribe", "disconnectSubscriber", "erase"})
  \/ i[1] = "join" /\ i[2] # Beat

\* What connect() and subscribeToExchange() do.
Starter(i) == Named(i, {"connect", "startPublisher", "subscribe", "startSubscriber"})
OfStart(i) ==
  Starter(i) \/ i \in {Call(Client("connected")), Acquire(Subscribers), Release(Subscribers)}

\* The order in which mutexes are taken.  A join counts as one more of them, after
\* subscribers_mutex_; a method counts as the first that it may take.
LockRank(l) ==
  IF l = Subscribers THEN 1
  ELSE IF l[1] = "subscriber_callback" THEN 3
  ELSE IF l[1] = "publisher_callback" THEN 4
  ELSE 5

MethodRank(n) ==
  IF n \in {"connect", "disconnect", "subscribe", "unsubscribe", "pollMessages", "statistics",
            "exit"} THEN 1
  ELSE IF n \in {"disconnectPublisher", "disconnectAll", "disconnectSubscriber"} THEN 2
  ELSE IF n \in {"messageLoop", "heartbeatLoop", "poll", "processed", "pollAll"} THEN 3
  ELSE IF n \in {"positionCallback", "disconnectCallback", "publish"} THEN 4
  ELSE IF n \in {"clientError", "setErrorCallback"} THEN 5
  ELSE 6

Rank(i) ==
  IF i[1] = "lock" THEN LockRank(i[2])
  ELSE IF i[1] = "join" THEN 2
  ELSE IF i[1] = "call" THEN MethodRank(i[2][1])
  ELSE 6

\* What disconnect(), unsubscribeFromExchange() and exit() come to.
Finishes(i) == Named(i, {"disconnected", "clear", "erase", "exit", "unmap", "destroy"})

-----------------------------------------------------------------------------
(***************************************************************************)
(* Properties of a sequence of steps.                                      *)
(***************************************************************************)
Has(q, S) == \E i \in DOMAIN q : q[i] \in S

\* A step of A comes after one of B.
Ordered(q, A, B) == \A i \in DOMAIN q : q[i] \in A => \E j \in 1 .. i - 1 : q[j] \in B

\* After place i mutex l is released, and nothing before that takes an earlier one.
Under(q, l, i) ==
  \E k \in DOMAIN q :
    /\ i < k /\ q[k] = Release(l)
    /\ \A j \in i + 1 .. k - 1 : Rank(q[j]) > LockRank(l)

Nested(q) == \A i \in DOMAIN q : \A l \in Locks : q[i] = Acquire(l) => Under(q, l, i)

\* A mutex that is taken is released.
Closed(q) ==
  \A i \in DOMAIN q : \A l \in Locks :
    q[i] = Acquire(l) => \E k \in DOMAIN q : i < k /\ q[k] = Release(l)

\* A join is preceded only by joins.
JoinsFirst(q) ==
  \A i \in DOMAIN q : q[i][1] = "join" => \A j \in 1 .. i : q[j][1] = "join"

StartsOnly(q) == (\E i \in DOMAIN q : Starter(q[i])) => \A i \in DOMAIN q : OfStart(q[i])

\* connect() of the client returns after that of the publisher.
ConnectedLater(q) ==
  \A i \in DOMAIN q : q[i] = Call(Client("startPublisher")) =>
    \E k \in DOMAIN q : i < k /\ q[k] = Call(Client("connected"))

\* r is q with the steps s in place of its first one.
Spliced(r, s, q) ==
  /\ r \in Seq(Items) /\ s \in Seq(Items) /\ q \in Seq(Items) /\ q # <<>>
  /\ DOMAIN r = 1 .. Len(r) /\ DOMAIN s = 1 .. Len(s) /\ DOMAIN q = 1 .. Len(q)
  /\ Len(s) \in Nat /\ Len(q) \in Nat \ {0} /\ Len(r) = Len(s) + Len(q) - 1
  /\ \A i \in 1 .. Len(s) : r[i] = s[i]
  /\ \A i \in 2 .. Len(q) : r[Len(s) + i - 1] = q[i]

\* What remains of a sequence with steps in place of its first one.
LEMMA Splice ==
  ASSUME NEW s \in Seq(Items), NEW q \in Seq(Items), q # <<>>
  PROVE  Spliced(s \o Tail(q), s, q)
<1>1. /\ Tail(q) \in Seq(Items) /\ Len(Tail(q)) = Len(q) - 1 /\ Len(q) \in Nat \ {0}
      /\ \A i \in 2 .. Len(q) : i - 1 \in 1 .. Len(Tail(q)) /\ Tail(q)[i - 1] = q[i]
  OBVIOUS
<1> DEFINE tail == Tail(q)
<1> HIDE DEF tail
<1>2. /\ s \o tail \in Seq(Items) /\ Len(s \o tail) = Len(s) + Len(tail)
      /\ \A i \in 1 .. Len(s) : (s \o tail)[i] = s[i]
      /\ \A i \in 1 .. Len(tail) : (s \o tail)[Len(s) + i] = tail[i]
  BY <1>1 DEF tail
<1>3. \A i \in 2 .. Len(q) : (s \o tail)[Len(s) + i - 1] = q[i]
  <2> SUFFICES ASSUME NEW i \in 2 .. Len(q) PROVE (s \o tail)[Len(s) + i - 1] = q[i]
    OBVIOUS
  <2>1. Len(s) + (i - 1) = Len(s) + i - 1 /\ Len(s) \in Nat
    OBVIOUS
  <2> QED
    BY <1>1, <1>2, <2>1 DEF tail
<1> QED
  BY <1>1, <1>2, <1>3 DEF Spliced, tail

\* A place of the new sequence is one of the steps, or one of the rest.
LEMMA SplicePlaces ==
  ASSUME NEW r, NEW s, NEW q, Spliced(r, s, q), NEW i \in DOMAIN r
  PROVE  \/ i \in DOMAIN s /\ r[i] = s[i]
         \/ \E k \in 2 .. Len(q) : i = Len(s) + k - 1 /\ r[i] = q[k] /\ k \in DOMAIN q
<1>1. CASE i <= Len(s)
  BY <1>1 DEF Spliced
<1>2. CASE i > Len(s)
  <2>1. i - Len(s) + 1 \in 2 .. Len(q) /\ i = Len(s) + (i - Len(s) + 1) - 1
    BY <1>2 DEF Spliced
  <2> QED
    BY <2>1 DEF Spliced
<1> QED
  BY <1>1, <1>2 DEF Spliced

\* Which steps there are afterwards.
LEMMA SpliceHas ==
  ASSUME NEW r, NEW s, NEW q, Spliced(r, s, q), NEW S
  PROVE  Has(r, S) <=> Has(s, S) \/ \E k \in 2 .. Len(q) : q[k] \in S
<1>1. ASSUME NEW i \in DOMAIN s PROVE i \in DOMAIN r /\ r[i] = s[i]
  BY <1>1 DEF Spliced
<1>2. ASSUME NEW k \in 2 .. Len(q)
      PROVE  Len(s) + k - 1 \in DOMAIN r /\ r[Len(s) + k - 1] = q[k]
  BY <1>2 DEF Spliced
<1> QED
  BY <1>1, <1>2, SplicePlaces DEF Has

\* An order that the steps keep, and carry on from the first one, is kept.
LEMMA SpliceOrdered ==
  ASSUME NEW r, NEW s, NEW q, Spliced(r, s, q), NEW A, NEW B,
         Ordered(q, A, B), Ordered(s, A, B), q[1] \in B => Has(s, B)
  PROVE  Ordered(r, A, B)
<1> SUFFICES ASSUME NEW i \in DOMAIN r, r[i] \in A PROVE \E j \in 1 .. i - 1 : r[j] \in B
  BY DEF Ordered
<1>1. CASE i \in DOMAIN s /\ r[i] = s[i]
  <2>1. PICK j \in 1 .. i - 1 : s[j] \in B
    BY <1>1 DEF Ordered
  <2> QED
    BY <1>1, <2>1 DEF Spliced
<1>2. ASSUME NEW k \in 2 .. Len(q), i = Len(s) + k - 1, r[i] = q[k], k \in DOMAIN q
      PROVE  \E j \in 1 .. i - 1 : r[j] \in B
  <2>1. PICK j \in 1 .. k - 1 : q[j] \in B
    BY <1>2 DEF Ordered
  <2>2. CASE j = 1
    <3>1. PICK m \in DOMAIN s : s[m] \in B
      BY <2>1, <2>2 DEF Has
    <3>2. m \in 1 .. i - 1
      BY SMTT(20), <1>2, <3>1 DEF Spliced
    <3>3. r[m] = s[m]
      BY <3>1 DEF Spliced
    <3> QED
      BY <3>1, <3>2, <3>3
  <2>3. CASE j # 1
    <3>1. j \in 2 .. Len(q) /\ Len(s) + j - 1 \in 1 .. i - 1
      BY <1>2, <2>1, <2>3 DEF Spliced
    <3>2. r[Len(s) + j - 1] = q[j]
      BY <3>1 DEF Spliced
    <3> QED
      BY <2>1, <3>1, <3>2
  <2> QED
    BY <2>2, <2>3
<1> QED
  BY <1>1, <1>2, SplicePlaces

\* Where a mutex is released in the rest, it still is.
LEMMA SpliceUnder ==
  ASSUME NEW r, NEW s, NEW q, Spliced(r, s, q), NEW l \in Locks, NEW i \in Nat,
         Under(q, l, i), i \in 1 .. Len(q)
  PROVE  Under(r, l, Len(s) + i - 1)
<1>1. PICK k \in DOMAIN q : /\ i < k /\ q[k] = Release(l)
                            /\ \A j \in i + 1 .. k - 1 : Rank(q[j]) > LockRank(l)
  BY DEF Under
<1>2. /\ k \in 2 .. Len(q) /\ Len(s) + k - 1 \in DOMAIN r /\ Len(s) + i - 1 < Len(s) + k - 1
      /\ r[Len(s) + k - 1] = Release(l)
  BY <1>1 DEF Spliced
<1>3. ASSUME NEW j \in Len(s) + i - 1 + 1 .. Len(s) + k - 1 - 1
      PROVE  Rank(r[j]) > LockRank(l)
  <2>1. Len(s) \in Nat /\ Len(q) \in Nat /\ i \in Nat /\ i >= 1 /\ k \in Nat /\ k <= Len(q)
        /\ j \in Int /\ Len(s) + i <= j /\ j <= Len(s) + k - 2
    BY SMTT(30), <1>2, <1>3 DEF Spliced
  <2>2. j - Len(s) + 1 \in i + 1 .. k - 1 /\ j - Len(s) + 1 \in 2 .. Len(q)
        /\ j = Len(s) + (j - Len(s) + 1) - 1
    BY <2>1
  <2>3. r[j] = q[j - Len(s) + 1]
    BY <2>2 DEF Spliced
  <2> QED
    BY <1>1, <2>2, <2>3
<1> QED
  BY <1>2, <1>3 DEF Under

\* A mutex that the thread holds: its scope now begins with s.
LEMMA SpliceHeld ==
  ASSUME NEW r, NEW s, NEW q, Spliced(r, s, q), NEW l \in Locks,
         Under(q, l, 0), q[1] # Release(l),
         \A i \in DOMAIN s : Rank(s[i]) > LockRank(l)
  PROVE  Under(r, l, 0)
<1>1. PICK k \in DOMAIN q : /\ 0 < k /\ q[k] = Release(l)
                            /\ \A j \in 1 .. k - 1 : Rank(q[j]) > LockRank(l)
  BY DEF Under
<1>2. /\ k \in 2 .. Len(q) /\ Len(s) + k - 1 \in DOMAIN r /\ 0 < Len(s) + k - 1
      /\ r[Len(s) + k - 1] = Release(l)
  BY <1>1 DEF Spliced
<1>3. ASSUME NEW j \in 1 .. Len(s) + k - 1 - 1
      PROVE  Rank(r[j]) > LockRank(l)
  <2>1. CASE j \in DOMAIN s
    BY <2>1 DEF Spliced
  <2>2. CASE j \notin DOMAIN s
    <3>1. j - Len(s) + 1 \in 1 .. k - 1 /\ j - Len(s) + 1 \in 2 .. Len(q)
          /\ j = Len(s) + (j - Len(s) + 1) - 1
      BY SMTT(30), <1>2, <1>3, <2>2 DEF Spliced
    <3>2. r[j] = q[j - Len(s) + 1]
      BY <3>1 DEF Spliced
    <3> QED
      BY <1>1, <3>1, <3>2
  <2> QED
    BY <2>1, <2>2
<1> QED
  BY <1>2, <1>3 DEF Under

\* Scopes stay nested.
LEMMA SpliceNested ==
  ASSUME NEW r, NEW s, NEW q, Spliced(r, s, q), Nested(q), Nested(s)
  PROVE  Nested(r)
<1> SUFFICES ASSUME NEW i \in DOMAIN r, NEW l \in Locks, r[i] = Acquire(l)
             PROVE  Under(r, l, i)
  BY DEF Nested
<1>1. CASE i \in DOMAIN s /\ r[i] = s[i]
  <2>1. PICK k \in DOMAIN s : /\ i < k /\ s[k] = Release(l)
                              /\ \A j \in i + 1 .. k - 1 : Rank(s[j]) > LockRank(l)
    BY <1>1 DEF Nested, Under
  <2>2. k \in DOMAIN r /\ \A j \in i + 1 .. k : j \in DOMAIN s /\ r[j] = s[j]
    BY <1>1, <2>1 DEF Spliced
  <2>3. k \in i + 1 .. k /\ \A j \in i + 1 .. k - 1 : j \in i + 1 .. k
    BY <1>1, <2>1 DEF Spliced
  <2> QED
    BY <2>1, <2>2, <2>3 DEF Under
<1>2. ASSUME NEW k \in 2 .. Len(q), i = Len(s) + k - 1, r[i] = q[k], k \in DOMAIN q
      PROVE  Under(r, l, i)
  <2>1. Under(q, l, k) /\ k \in 1 .. Len(q) /\ k \in Nat
    BY <1>2 DEF Nested, Spliced
  <2> QED
    BY <1>2, <2>1, SpliceUnder
<1> QED
  BY <1>1, <1>2, SplicePlaces

\* What is taken is still released.
LEMMA SpliceClosed ==
  ASSUME NEW r, NEW s, NEW q, Spliced(r, s, q), Closed(q), Closed(s)
  PROVE  Closed(r)
<1> SUFFICES ASSUME NEW i \in DOMAIN r, NEW l \in Locks, r[i] = Acquire(l)
             PROVE  \E k \in DOMAIN r : i < k /\ r[k] = Release(l)
  BY DEF Closed
<1>1. CASE i \in DOMAIN s /\ r[i] = s[i]
  <2>1. PICK k \in DOMAIN s : i < k /\ s[k] = Release(l)
    BY <1>1 DEF Closed
  <2> QED
    BY <1>1, <2>1 DEF Spliced
<1>2. ASSUME NEW k \in 2 .. Len(q), i = Len(s) + k - 1, r[i] = q[k], k \in DOMAIN q
      PROVE  \E m \in DOMAIN r : i < m /\ r[m] = Release(l)
  <2>1. PICK m \in DOMAIN q : k < m /\ q[m] = Release(l)
    BY <1>2 DEF Closed
  <2>2. m \in 2 .. Len(q) /\ Len(s) + m - 1 \in DOMAIN r /\ i < Len(s) + m - 1
    BY SMTT(30), <1>2, <2>1 DEF Spliced
  <2> QED
    BY <2>1, <2>2 DEF Spliced
<1> QED
  BY <1>1, <1>2, SplicePlaces

\* connect() still returns after that of the publisher.
LEMMA SpliceConnected ==
  ASSUME NEW r, NEW s, NEW q, Spliced(r, s, q), ConnectedLater(q), ConnectedLater(s)
  PROVE  ConnectedLater(r)
<1> DEFINE h == Call(Client("startPublisher"))
           g == Call(Client("connected"))
<1> SUFFICES ASSUME NEW i \in DOMAIN r, r[i] = h
             PROVE  \E k \in DOMAIN r : i < k /\ r[k] = g
  BY DEF ConnectedLater
<1> HIDE DEF g, h
<1>1. CASE i \in DOMAIN s /\ r[i] = s[i]
  <2>1. PICK k \in DOMAIN s : i < k /\ s[k] = g
    BY <1>1 DEF ConnectedLater, g, h
  <2> QED
    BY <1>1, <2>1 DEF Spliced
<1>2. ASSUME NEW k \in 2 .. Len(q), i = Len(s) + k - 1, r[i] = q[k], k \in DOMAIN q
      PROVE  \E m \in DOMAIN r : i < m /\ r[m] = g
  <2>1. PICK m \in DOMAIN q : k < m /\ q[m] = g
    BY <1>2 DEF ConnectedLater, g, h
  <2>2. m \in 2 .. Len(q) /\ Len(s) + m - 1 \in DOMAIN r /\ i < Len(s) + m - 1
    BY SMTT(30), <1>2, <2>1 DEF Spliced
  <2> QED
    BY <2>1, <2>2 DEF Spliced
<1> QED
  BY <1>1, <1>2, SplicePlaces

\* Joins come first: there are none behind a first step that is not one.
LEMMA SpliceJoins ==
  ASSUME NEW r, NEW s, NEW q, Spliced(r, s, q), JoinsFirst(q),
         q[1][1] = "join" => s = <<>>, JoinsFirst(s)
  PROVE  JoinsFirst(r)
<1> SUFFICES ASSUME NEW i \in DOMAIN r, r[i][1] = "join", NEW j \in 1 .. i
             PROVE  r[j][1] = "join"
  BY DEF JoinsFirst
<1>1. CASE i \in DOMAIN s /\ r[i] = s[i]
  <2>1. j \in DOMAIN s /\ r[j] = s[j]
    BY <1>1 DEF Spliced
  <2> QED
    BY <1>1, <2>1 DEF JoinsFirst
<1>2. ASSUME NEW k \in 2 .. Len(q), i = Len(s) + k - 1, r[i] = q[k], k \in DOMAIN q
      PROVE  r[j][1] = "join"
  <2>1. \A m \in 1 .. k : q[m][1] = "join"
    BY <1>2 DEF JoinsFirst
  <2>2. Len(s) = 0
    BY <2>1
  <2>3. j + 1 \in 2 .. Len(q) /\ j + 1 \in 1 .. k /\ j = Len(s) + (j + 1) - 1
    BY <1>2, <2>2 DEF Spliced
  <2>4. r[j] = q[j + 1]
    BY <2>3 DEF Spliced
  <2> QED
    BY <2>1, <2>3, <2>4
<1> QED
  BY <1>1, <1>2, SplicePlaces

\* What starts threads still does nothing else.
LEMMA SpliceStarts ==
  ASSUME NEW r, NEW s, NEW q, Spliced(r, s, q), StartsOnly(q),
         (\E i \in DOMAIN s : Starter(s[i])) => Starter(q[1]),
         OfStart(q[1]) => \A i \in DOMAIN s : OfStart(s[i])
  PROVE  StartsOnly(r)
<1> SUFFICES ASSUME NEW i \in DOMAIN r, Starter(r[i]), NEW j \in DOMAIN r
             PROVE  OfStart(r[j])
  BY DEF StartsOnly
<1>1. \E m \in DOMAIN q : Starter(q[m])
  <2>1. 1 \in DOMAIN q
    BY DEF Spliced
  <2> QED
    BY <2>1, SplicePlaces
<1>2. \A m \in DOMAIN q : OfStart(q[m])
  BY <1>1 DEF StartsOnly
<1>3. 1 \in DOMAIN q
  BY DEF Spliced
<1> QED
  BY <1>2, <1>3, SplicePlaces

-----------------------------------------------------------------------------
(***************************************************************************)
(* What a method may unfold to.                                            *)
(***************************************************************************)
\* The steps s may take the place of step h.
Fits(h, s) ==
  /\ s \in Seq(Items) /\ Closed(s) /\ JoinsFirst(s) /\ ConnectedLater(s)
  /\ h[1] = "join" => s = <<>>
  /\ OfWorker(h) => \A i \in DOMAIN s : OfWorker(s[i])
  /\ (\E i \in DOMAIN s : Starter(s[i])) => Starter(h)
  /\ OfStart(h) => \A i \in DOMAIN s : OfStart(s[i])
  /\ \A i \in DOMAIN s :
       /\ Finishes(s[i]) => Named(h, {"disconnect", "unsubscribe", "exit"})
       /\ s[i][1] = "join" => Named(h, {"disconnectPublisher", "disconnectSubscriber"})

\* They do when callbacks keep to the harmless calls, and when none unsubscribes.
InOrder(h, s) == Nested(s) /\ \A i \in DOMAIN s : Rank(s[i]) >= Rank(h)
StaysQuiet(h, s) == Quiet(h) => \A i \in DOMAIN s : Quiet(s[i])

FitsWell(h, s) == Fits(h, s) /\ InOrder(h, s) /\ StaysQuiet(h, s)

\* Any step may be the end of its method.
LEMMA FitsNothing == ASSUME NEW h PROVE FitsWell(h, <<>>)
BY DEF FitsWell, Fits, InOrder, StaysQuiet, Closed, JoinsFirst, ConnectedLater, Nested

\* Nested scopes end.
LEMMA NestedClosed == ASSUME NEW s, Nested(s) PROVE Closed(s)
BY DEF Nested, Closed, Under

\* Steps that a worker does.
LEMMA FitsQuiet ==
  ASSUME NEW h, h[1] = "call", ~OfStart(h),
         NEW s \in Seq(Items), \A i \in DOMAIN s : Quiet(s[i]), InOrder(h, s)
  PROVE  FitsWell(h, s)
<1>1. \A i \in DOMAIN s :
        s[i][1] # "join" /\ ~Starter(s[i]) /\ OfWorker(s[i]) /\ ~Finishes(s[i])
  BY DEF Quiet, Starter, OfWorker, Named, Finishes
<1>2. \A i \in DOMAIN s : s[i] # Call(Client("startPublisher"))
  BY DEF Quiet, Named, Call, Client
<1>3. Closed(s)
  BY NestedClosed DEF InOrder
<1> QED
  BY <1>1, <1>2, <1>3 DEF FitsWell, Fits, StaysQuiet, JoinsFirst, ConnectedLater

\* A single call.
LEMMA FitsCall ==
  ASSUME NEW h, NEW m \in Methods
  PROVE  LET s == <<Call(m)>>
         IN /\ s \in Seq(Items) /\ Closed(s) /\ JoinsFirst(s) /\ Nested(s)
            /\ DOMAIN s = {1} /\ s[1] = Call(m)
<1>1. Call(m) \in Items /\ Call(m)[1] = "call" /\ \A l \in Locks : Call(m) # Acquire(l)
  BY DEF Items, Call, Acquire
<1>2. <<Call(m)>> \in Seq(Items) /\ DOMAIN <<Call(m)>> = {1} /\ <<Call(m)>>[1] = Call(m)
  BY <1>1
<1> QED
  BY <1>1, <1>2 DEF Closed, JoinsFirst, Nested

\* The scope of a lock_guard with one call, which takes only later mutexes; in a try.
LEMMA GuardedCall ==
  ASSUME NEW l \in Locks, NEW m \in Methods, Rank(Call(m)) > LockRank(l)
  PROVE  LET s == Guarded(l, m)
         IN /\ s \in Seq(Items) /\ Nested(s) /\ DOMAIN s = {1, 2, 3}
            /\ s[1] = Acquire(l) /\ s[2] = Call(m) /\ s[3] = Release(l)
<1> DEFINE s == <<Acquire(l), Call(m), Release(l)>>
<1>1. Acquire(l) \in Items /\ Call(m) \in Items /\ Release(l) \in Items
  BY DEF Items, Acquire, Call, Release
<1>2. /\ s \in Seq(Items) /\ DOMAIN s = {1, 2, 3}
      /\ s[1] = Acquire(l) /\ s[2] = Call(m) /\ s[3] = Release(l)
  BY <1>1
<1> HIDE DEF s
<1>3. \A k \in Locks : Acquire(k) # Call(m) /\ Acquire(k) # Release(l)
                       /\ (Acquire(k) = Acquire(l) => k = l)
  BY DEF Acquire, Call, Release
<1>4. Under(s, l, 1)
  <2>1. \A j \in 1 + 1 .. 3 - 1 : j = 2
    OBVIOUS
  <2> QED
    BY <1>2, <2>1 DEF Under
<1>5. Nested(s)
  BY <1>2, <1>3, <1>4 DEF Nested
<1> QED
  BY <1>2, <1>5 DEF s, Guarded

\* The same inside a try.
LEMMA GuardedTry ==
  ASSUME NEW l \in Locks, NEW m \in Methods, Rank(Call(m)) > LockRank(l)
  PROVE  LET s == <<Acquire(l), Call(m), Release(l), Caught>>
         IN /\ s \in Seq(Items) /\ Nested(s) /\ DOMAIN s = {1, 2, 3, 4}
            /\ s[1] = Acquire(l) /\ s[2] = Call(m) /\ s[3] = Release(l) /\ s[4] = Caught
<1> DEFINE s == <<Acquire(l), Call(m), Release(l), Caught>>
<1>1. Acquire(l) \in Items /\ Call(m) \in Items /\ Release(l) \in Items /\ Caught \in Items
  BY DEF Items, Acquire, Call, Release
<1>2. /\ s \in Seq(Items) /\ DOMAIN s = {1, 2, 3, 4}
      /\ s[1] = Acquire(l) /\ s[2] = Call(m) /\ s[3] = Release(l) /\ s[4] = Caught
  BY <1>1
<1> HIDE DEF s
<1>3. \A k \in Locks : Acquire(k) # Call(m) /\ Acquire(k) # Release(l) /\ Acquire(k) # Caught
                       /\ (Acquire(k) = Acquire(l) => k = l)
  BY DEF Acquire, Call, Release, Caught
<1>4. Under(s, l, 1)
  <2>1. \A j \in 1 + 1 .. 3 - 1 : j = 2
    OBVIOUS
  <2> QED
    BY <1>2, <2>1 DEF Under
<1>5. Nested(s)
  BY <1>2, <1>3, <1>4 DEF Nested
<1> QED
  BY <1>2, <1>5 DEF s

\* Steps of which none takes a mutex.
LEMMA NestedFree ==
  ASSUME NEW s, \A i \in DOMAIN s : s[i][1] # "lock"
  PROVE  Nested(s)
BY DEF Nested, Acquire

-----------------------------------------------------------------------------
(***************************************************************************)
(* The bodies of the methods.                                              *)
(***************************************************************************)
\* The loops of the threads unfold in order.
LEMMA LoopBodies ==
  ASSUME NEW n, NEW x, <<n, x>> \in Methods, NEW running \in BOOLEAN,
         n \in DOMAIN Loops[x][running], NEW s \in Loops[x][running][n]
  PROVE  FitsWell(Call(<<n, x>>), s)
<1> DEFINE h == Call(<<n, x>>)
<1>1. /\ x \in Owners
      /\ n \in {"messageLoop", "heartbeatLoop", "producerAlive"} => x \in Exchanges
      /\ n = "beatLoop" => x = NoExchange
  BY ClientAssumption DEF Methods, Owners, SubscriberMethods, ClientMethods
<1>2. n \in {"messageLoop", "heartbeatLoop", "producerAlive", "beatLoop"}
  BY <1>1 DEF Loops
<1>3. h[1] = "call" /\ ~OfStart(h)
  BY <1>2 DEF OfStart, Starter, Named, Call, Client, Acquire, Release
<1>4. CASE n = "messageLoop"
  <2>1. s = <<>> \/ s = <<Call(<<"poll", x>>), Call(<<"messageLoop", x>>)>>
    BY <1>1, <1>4 DEF Loops
  <2>2. CASE s = <<Call(<<"poll", x>>), Call(<<"messageLoop", x>>)>>
    <3>1. Call(<<"poll", x>>) \in Items /\ Call(<<"messageLoop", x>>) \in Items
      BY <1>1, <1>4 DEF Items, Call, Methods, SubscriberMethods
    <3>2. /\ s \in Seq(Items) /\ DOMAIN s = {1, 2}
          /\ s[1] = Call(<<"poll", x>>) /\ s[2] = Call(<<"messageLoop", x>>)
      BY <2>2, <3>1
    <3>3. \A i \in DOMAIN s : Quiet(s[i]) /\ s[i][1] # "lock" /\ Rank(s[i]) >= 3
      BY <3>2 DEF Quiet, Named, Call, Rank, MethodRank
    <3>4. Rank(h) = 3
      BY <1>4 DEF Call, Rank, MethodRank
    <3> QED
      BY <1>3, <3>2, <3>3, <3>4, NestedFree, FitsQuiet DEF InOrder
  <2> QED
    BY <2>1, <2>2, FitsNothing
<1>5. CASE n = "heartbeatLoop"
  <2>1. \/ s = <<>>
        \/ s = <<Call(<<"producerAlive", x>>), Call(<<"heartbeatLoop", x>>)>>
        \/ s = HeartbeatLost(x)
    BY <1>1, <1>5 DEF Loops
  <2>2. CASE s = <<Call(<<"producerAlive", x>>), Call(<<"heartbeatLoop", x>>)>>
    <3>1. Call(<<"producerAlive", x>>) \in Items /\ Call(<<"heartbeatLoop", x>>) \in Items
      BY <1>1, <1>5 DEF Items, Call, Methods, SubscriberMethods
    <3>2. /\ s \in Seq(Items) /\ DOMAIN s = {1, 2}
          /\ s[1] = Call(<<"producerAlive", x>>) /\ s[2] = Call(<<"heartbeatLoop", x>>)
      BY <2>2, <3>1
    <3>3. \A i \in DOMAIN s : Quiet(s[i]) /\ s[i][1] # "lock" /\ Rank(s[i]) >= 3
      BY <3>2 DEF Quiet, Named, Call, Rank, MethodRank
    <3>4. Rank(h) = 3
      BY <1>5 DEF Call, Rank, MethodRank
    <3> QED
      BY <1>3, <3>2, <3>3, <3>4, NestedFree, FitsQuiet DEF InOrder
  <2>3. CASE s = HeartbeatLost(x)
    <3> DEFINE l == CallbackMutex(x)
               a == Call(Client("clientError"))
               b == Call(<<"disconnectCallback", x>>)
               c == Call(<<"heartbeatLoop", x>>)
    <3>1. /\ l \in Locks /\ Acquire(l) \in Items /\ Release(l) \in Items /\ Caught \in Items
          /\ a \in Items /\ b \in Items /\ c \in Items
      BY <1>1, <1>5 DEF Items, Acquire, Release, Call, Client, Methods, SubscriberMethods,
                        ClientMethods, Locks
    <3>2. /\ Quiet(Acquire(l)) /\ Quiet(Release(l)) /\ Quiet(Caught)
          /\ Quiet(a) /\ Quiet(b) /\ Quiet(c)
      BY DEF Quiet, Named, Acquire, Release, Call, Caught, Client
    <3>3. /\ Rank(Acquire(l)) = 3 /\ Rank(Release(l)) = 6 /\ Rank(Caught) = 6
          /\ Rank(a) = 5 /\ Rank(b) = 4 /\ Rank(c) = 3 /\ Rank(h) = 3 /\ LockRank(l) = 3
      BY <1>5 DEF Rank, MethodRank, LockRank, Acquire, Release, Call, Caught, Client,
                  CallbackMutex, Subscribers
    <3>4. /\ \A k \in Locks : Acquire(k) = Acquire(l) => k = l
          /\ \A k \in Locks : /\ Acquire(k) # Release(l) /\ Acquire(k) # Caught
                              /\ Acquire(k) # a /\ Acquire(k) # b /\ Acquire(k) # c
      BY DEF Acquire, Release, Call, Caught
    <3> HIDE DEF l, a, b, c
    <3>5. s = <<Acquire(l), a, Release(l), Caught, Acquire(l), b, Release(l), Caught, c>>
      BY <2>3 DEF HeartbeatLost, l, a, b, c
    <3>6. /\ s \in Seq(Items) /\ DOMAIN s = 1 .. 9
          /\ s[1] = Acquire(l) /\ s[2] = a /\ s[3] = Release(l) /\ s[4] = Caught
          /\ s[5] = Acquire(l) /\ s[6] = b /\ s[7] = Release(l) /\ s[8] = Caught /\ s[9] = c
      BY <3>1, <3>5
    <3>7. \A i \in 1 .. 9 : \/ i = 1 \/ i = 2 \/ i = 3 \/ i = 4 \/ i = 5
                            \/ i = 6 \/ i = 7 \/ i = 8 \/ i = 9
      OBVIOUS
    <3>8. \A i \in DOMAIN s : Quiet(s[i]) /\ Rank(s[i]) >= 3
      BY <3>2, <3>3, <3>6, <3>7
    <3>9. Nested(s)
      <4>1. Under(s, l, 1)
        <5>1. \A j \in 1 + 1 .. 3 - 1 : j = 2
          OBVIOUS
        <5> QED
          BY <3>3, <3>6, <5>1 DEF Under
      <4>2. Under(s, l, 5)
        <5>1. \A j \in 5 + 1 .. 7 - 1 : j = 6
          OBVIOUS
        <5> QED
          BY <3>3, <3>6, <5>1 DEF Under
      <4> QED
        BY <3>4, <3>6, <3>7, <4>1, <4>2 DEF Nested
    <3> QED
      BY <1>3, <3>3, <3>6, <3>8, <3>9, FitsQuiet DEF InOrder
  <2> QED
    BY <2>1, <2>2, <2>3, FitsNothing
<1>6. CASE n = "producerAlive"
  BY <1>1, <1>6, FitsNothing DEF Loops
<1>7. CASE n = "beatLoop"
  <2>1. s = <<>> \/ s = <<Call(<<"beatLoop", x>>)>>
    BY <1>1, <1>7 DEF Loops
  <2>2. CASE s = <<Call(<<"beatLoop", x>>)>>
    <3>1. s \in Seq(Items) /\ Nested(s) /\ DOMAIN s = {1} /\ s[1] = h
      BY <1>7, <2>2, FitsCall
    <3>2. \A i \in DOMAIN s : Quiet(s[i]) /\ s[i] = h
      BY <1>7, <3>1 DEF Quiet, Named, Call
    <3>3. Rank(h) = 6
      BY <1>7 DEF Rank, MethodRank, Call
    <3> QED
      BY <1>3, <3>1, <3>2, <3>3, FitsQuiet DEF InOrder
  <2> QED
    BY <2>1, <2>2, FitsNothing
<1> QED
  BY <1>2, <1>4, <1>5, <1>6, <1>7

\* The order of the mutexes has six places.
LEMMA RankType == ASSUME NEW i PROVE Rank(i) \in 1 .. 6
<1>1. ASSUME NEW l PROVE LockRank(l) \in 1 .. 5
  BY DEF LockRank
<1>2. ASSUME NEW n PROVE MethodRank(n) \in 1 .. 6
  BY DEF MethodRank
<1> QED
  BY <1>1, <1>2 DEF Rank

\* A poll, a publication and an error report unfold in order.
LEMMA DeliveryBodies ==
  ASSUME NEW n, NEW x, <<n, x>> \in Methods, NEW running \in BOOLEAN,
         n \in DOMAIN Delivery[x][running], NEW s \in Delivery[x][running][n]
  PROVE  FitsWell(Call(<<n, x>>), s)
<1> DEFINE h == Call(<<n, x>>)
<1>1. /\ x \in Owners /\ (n \in {"poll", "processed"} => x \in Exchanges)
      /\ n \in {"publish", "clientError"} => x = NoExchange
  BY ClientAssumption DEF Methods, Owners, SubscriberMethods, ClientMethods
<1>2. n \in {"poll", "processed", "publish", "clientError"}
  BY <1>1 DEF Delivery
<1>3. h[1] = "call" /\ ~OfStart(h)
  BY <1>2 DEF OfStart, Starter, Named, Call, Client, Acquire, Release
<1>4. ASSUME NEW l \in Locks, NEW m \in Methods, Quiet(Call(m)),
             Rank(Call(m)) > LockRank(l), LockRank(l) >= Rank(h)
      PROVE  FitsWell(h, <<Acquire(l), Call(m), Release(l), Caught>>)
             /\ FitsWell(h, Guarded(l, m))
  <2>1. /\ Quiet(Acquire(l)) /\ Quiet(Release(l)) /\ Quiet(Caught)
        /\ Rank(Acquire(l)) = LockRank(l) /\ Rank(Release(l)) = 6 /\ Rank(Caught) = 6
    BY DEF Quiet, Acquire, Release, Caught, Rank
  <2>2. Rank(Acquire(l)) \in Int /\ Rank(Call(m)) \in Int /\ Rank(h) \in Int /\ Rank(h) <= 6
    BY RankType
  <2>3. FitsWell(h, <<Acquire(l), Call(m), Release(l), Caught>>)
    <3> DEFINE s2 == <<Acquire(l), Call(m), Release(l), Caught>>
    <3>1. /\ s2 \in Seq(Items) /\ Nested(s2) /\ DOMAIN s2 = {1, 2, 3, 4}
          /\ s2[1] = Acquire(l) /\ s2[2] = Call(m) /\ s2[3] = Release(l) /\ s2[4] = Caught
      BY <1>4, GuardedTry
    <3> HIDE DEF s2
    <3>2. \A i \in DOMAIN s2 : Quiet(s2[i]) /\ Rank(s2[i]) >= Rank(h)
      BY <1>4, <2>1, <2>2, <3>1
    <3> QED
      BY <1>3, <3>1, <3>2, FitsQuiet DEF InOrder, s2
  <2>4. FitsWell(h, Guarded(l, m))
    <3> DEFINE s2 == Guarded(l, m)
    <3>1. /\ s2 \in Seq(Items) /\ Nested(s2) /\ DOMAIN s2 = {1, 2, 3}
          /\ s2[1] = Acquire(l) /\ s2[2] = Call(m) /\ s2[3] = Release(l)
      BY <1>4, GuardedCall
    <3> HIDE DEF s2
    <3>2. \A i \in DOMAIN s2 : Quiet(s2[i]) /\ Rank(s2[i]) >= Rank(h)
      BY <1>4, <2>1, <2>2, <3>1
    <3> QED
      BY <1>3, <3>1, <3>2, FitsQuiet DEF InOrder, s2
  <2> QED
    BY <2>3, <2>4
<1>5. CASE n = "poll"
  <2> DEFINE l == CallbackMutex(x)
             a == Call(<<"positionCallback", x>>)
             b == Call(<<"processed", x>>)
  <2>1. \/ s = <<>>
        \/ s = <<Acquire(l), a, Release(l), b, Caught>>
        \/ s = <<b, Caught>>
    BY <1>1, <1>5 DEF Delivery
  <2>2. /\ l \in Locks /\ Acquire(l) \in Items /\ Release(l) \in Items /\ Caught \in Items
        /\ a \in Items /\ b \in Items
    BY <1>1, <1>5 DEF Items, Acquire, Release, Call, Methods, SubscriberMethods, Locks
  <2>3. /\ Quiet(Acquire(l)) /\ Quiet(Release(l)) /\ Quiet(Caught) /\ Quiet(a) /\ Quiet(b)
    BY DEF Quiet, Named, Acquire, Release, Call, Caught
  <2>4. /\ Rank(Acquire(l)) = 3 /\ Rank(Release(l)) = 6 /\ Rank(Caught) = 6
        /\ Rank(a) = 4 /\ Rank(b) = 3 /\ Rank(h) = 3 /\ LockRank(l) = 3
    BY <1>5 DEF Rank, MethodRank, LockRank, Acquire, Release, Call, Caught, Client,
                CallbackMutex, Subscribers
  <2>5. /\ \A k \in Locks : Acquire(k) = Acquire(l) => k = l
        /\ \A k \in Locks : /\ Acquire(k) # Release(l) /\ Acquire(k) # Caught
                            /\ Acquire(k) # a /\ Acquire(k) # b
    BY DEF Acquire, Release, Call, Caught
  <2> HIDE DEF l, a, b
  <2>6. CASE s = <<Acquire(l), a, Release(l), b, Caught>>
    <3>1. /\ s \in Seq(Items) /\ DOMAIN s = 1 .. 5
          /\ s[1] = Acquire(l) /\ s[2] = a /\ s[3] = Release(l) /\ s[4] = b /\ s[5] = Caught
      BY <2>2, <2>6
    <3>2. \A i \in 1 .. 5 : i = 1 \/ i = 2 \/ i = 3 \/ i = 4 \/ i = 5
      OBVIOUS
    <3>3. \A i \in DOMAIN s : Quiet(s[i]) /\ Rank(s[i]) >= 3
      BY <2>3, <2>4, <3>1, <3>2
    <3>4. Under(s, l, 1)
      <4>1. \A j \in 1 + 1 .. 3 - 1 : j = 2
        OBVIOUS
      <4> QED
        BY <2>4, <3>1, <4>1 DEF Under
    <3>5. Nested(s)
      BY <2>5, <3>1, <3>2, <3>4 DEF Nested
    <3> QED
      BY <1>3, <2>4, <3>1, <3>3, <3>5, FitsQuiet DEF InOrder
  <2>7. CASE s = <<b, Caught>>
    <3>1. s \in Seq(Items) /\ DOMAIN s = {1, 2} /\ s[1] = b /\ s[2] = Caught
      BY <2>2, <2>7
    <3>2. \A i \in DOMAIN s : Quiet(s[i]) /\ Rank(s[i]) >= 3
      BY <2>3, <2>4, <3>1
    <3>3. Nested(s)
      BY <2>5, <3>1 DEF Nested
    <3> QED
      BY <1>3, <2>4, <3>1, <3>2, <3>3, FitsQuiet DEF InOrder
  <2> QED
    BY <2>1, <2>6, <2>7, FitsNothing
<1>8. CASE n = "processed"
  <2> DEFINE l == CallbackMutex(x)
  <2>1. s = <<>> \/ s = Guarded(l, Client("clientError"))
    BY <1>1, <1>8 DEF Delivery
  <2>2. l \in Locks /\ Client("clientError") \in Methods
    BY <1>1, <1>8 DEF Locks, Methods, ClientMethods, Client
  <2>3. /\ Quiet(Call(Client("clientError"))) /\ Rank(Call(Client("clientError"))) = 5
        /\ LockRank(l) = 3 /\ Rank(h) = 3
    BY <1>8 DEF Quiet, Named, Call, Rank, MethodRank, LockRank, CallbackMutex, Subscribers,
                Client
  <2>4. FitsWell(h, Guarded(l, Client("clientError")))
    <3>1. Rank(Call(Client("clientError"))) > LockRank(l) /\ LockRank(l) >= Rank(h)
      BY <2>3
    <3> HIDE DEF l, h
    <3> QED
      BY <1>4, <2>2, <2>3, <3>1
  <2> QED
    BY <2>1, <2>4, FitsNothing
<1>6. CASE n = "publish"
  <2> DEFINE l == Client("publisher_callback")
  <2>1. s = <<>> \/ s = <<Acquire(l), Call(Client("clientError")), Release(l), Caught>>
    BY <1>1, <1>6 DEF Delivery, ErrorOf
  <2>2. l \in Locks /\ Client("clientError") \in Methods
    BY DEF Locks, Methods, ClientMethods, Client
  <2>3. /\ Quiet(Call(Client("clientError"))) /\ Rank(Call(Client("clientError"))) = 5
        /\ LockRank(l) = 4 /\ Rank(h) = 4
    BY <1>6 DEF Quiet, Named, Call, Rank, MethodRank, LockRank, Subscribers, Client
  <2>4. FitsWell(h, <<Acquire(l), Call(Client("clientError")), Release(l), Caught>>)
    <3>1. /\ Rank(Call(Client("clientError"))) > LockRank(l)
          /\ LockRank(l) >= Rank(h)
      BY <2>3
    <3> HIDE DEF l, h
    <3> QED
      BY <1>4, <2>2, <2>3, <3>1
  <2>5. FitsWell(h, s)
    <3>1. CASE s = <<>>
      BY <3>1, FitsNothing
    <3>2. CASE s = <<Acquire(l), Call(Client("clientError")), Release(l), Caught>>
      BY <2>4, <3>2
    <3> QED
      BY <2>1, <3>1, <3>2
  <2> QED
    BY <2>5
<1>7. CASE n = "clientError"
  <2> DEFINE l == Client("client_callback")
  <2>1. s = Guarded(l, Client("errorCallback"))
    BY <1>1, <1>7 DEF Delivery
  <2>2. l \in Locks /\ Client("errorCallback") \in Methods
    BY DEF Locks, Methods, ClientMethods, Client
  <2>3. /\ Quiet(Call(Client("errorCallback"))) /\ Rank(Call(Client("errorCallback"))) = 6
        /\ LockRank(l) = 5 /\ Rank(h) = 5
    BY <1>7 DEF Quiet, Named, Call, Rank, MethodRank, LockRank, Subscribers, Client
  <2>4. FitsWell(h, Guarded(l, Client("errorCallback")))
    <3>1. Rank(Call(Client("errorCallback"))) > LockRank(l) /\ LockRank(l) >= Rank(h)
      BY <2>3
    <3> HIDE DEF l, h
    <3> QED
      BY <1>4, <2>2, <2>3, <3>1
  <2> QED
    BY <2>1, <2>4
<1> QED
  BY <1>2, <1>5, <1>6, <1>7, <1>8

\* connect() calls, and none of the calls takes a mutex itself.
LEMMA ConnectBody ==
  LET s == <<Call(Client("startPublisher"))>> \o Each("subscribe", Configured)
             \o <<Call(Client("connected"))>>
  IN FitsWell(Call(Client("connect")), s)
<1> DEFINE a == Call(Client("startPublisher"))
           b == Call(Client("connected"))
           middle == Each("subscribe", Configured)
           front == <<a>> \o middle
           s == front \o <<b>>
           h == Call(Client("connect"))
           n == Len(Configured)
<1>1. a \in Items /\ b \in Items
  BY DEF Items, Methods, ClientMethods, Call, Client
<1>2. /\ n \in Nat /\ middle \in Seq(Items) /\ Len(middle) = n
      /\ \A i \in 1 .. n : \E x \in Exchanges : middle[i] = Call(<<"subscribe", x>>)
  <2>1. \A i \in 1 .. n : Configured[i] \in Exchanges /\ n \in Nat
    BY ClientAssumption
  <2>2. \A x \in Exchanges : Call(<<"subscribe", x>>) \in Items
    BY DEF Items, Methods, SubscriberMethods, Call
  <2>3. n \in Nat
    BY ClientAssumption
  <2> QED
    BY <2>1, <2>2, <2>3 DEF Each
<1>3. <<a>> \in Seq(Items) /\ Len(<<a>>) = 1 /\ <<a>>[1] = a
      /\ <<b>> \in Seq(Items) /\ Len(<<b>>) = 1 /\ <<b>>[1] = b
  BY <1>1
<1> HIDE DEF middle, a, b, n
<1>4. /\ front \in Seq(Items) /\ Len(front) = n + 1 /\ front[1] = a
      /\ \A i \in 1 .. n : front[1 + i] = middle[i]
  BY <1>2, <1>3
<1> HIDE DEF front
<1>5. /\ s \in Seq(Items) /\ DOMAIN s = 1 .. n + 2
      /\ \A i \in 1 .. n + 1 : s[i] = front[i]
      /\ s[n + 2] = b
  <2>1. Len(s) = n + 2
    BY <1>2, <1>3, <1>4
  <2> QED
    BY <1>2, <1>3, <1>4, <2>1
<1> HIDE DEF s
<1>6. ASSUME NEW i \in DOMAIN s
      PROVE  \/ s[i] = a
             \/ s[i] = b /\ i = n + 2
             \/ \E x \in Exchanges : s[i] = Call(<<"subscribe", x>>)
  <2>1. CASE i = 1
    BY <1>2, <1>4, <1>5, <2>1
  <2>2. CASE i = n + 2
    BY <1>5, <2>2
  <2>3. CASE i # 1 /\ i # n + 2
    <3>1. i - 1 \in 1 .. n /\ 1 + (i - 1) = i
      BY <1>2, <1>5, <2>3
    <3>2. s[i] = middle[i - 1]
      BY <1>2, <1>4, <1>5, <3>1
    <3> QED
      BY <1>2, <3>1, <3>2
  <2> QED
    BY <2>1, <2>2, <2>3
<1>7. \A x \in Exchanges : LET c == Call(<<"subscribe", x>>)
                           IN c[1] = "call" /\ OfStart(c) /\ c # a /\ c # b
  BY DEF a, Call, Client, OfStart, Starter, Named, b
<1>8. a[1] = "call" /\ b[1] = "call" /\ OfStart(a) /\ OfStart(b) /\ a # b
  BY DEF a, b, Call, Client, OfStart, Starter, Named
<1>9. \A i \in DOMAIN s : s[i][1] = "call" /\ OfStart(s[i]) /\ ~Finishes(s[i])
  <2>1. \A k : k[1] = "call" /\ OfStart(k) => ~Finishes(k)
    BY DEF OfStart, Starter, Named, Finishes, Call, Client, Acquire, Release
  <2> QED
    BY <1>6, <1>7, <1>8, <2>1
<1>10. Nested(s) /\ JoinsFirst(s)
  <2>1. \A i \in DOMAIN s : s[i][1] # "lock" /\ s[i][1] # "join"
    BY <1>9
  <2> QED
    BY <2>1, NestedFree DEF JoinsFirst
<1>11. ConnectedLater(s)
  <2>1. \A i \in DOMAIN s : s[i] = a => i < n + 2 /\ n + 2 \in DOMAIN s
    BY <1>2, <1>5, <1>8
  <2> QED
    BY <1>5, <2>1 DEF ConnectedLater, a, b
<1>12. Rank(h) = 1 /\ Starter(h) /\ h[1] = "call" /\ ~Quiet(h) /\ ~OfWorker(h)
  BY DEF h, Rank, MethodRank, Call, Client, Starter, Named, Quiet, OfWorker
<1>13. \A i \in DOMAIN s : Rank(s[i]) >= Rank(h)
  BY <1>12, RankType
<1>14. Closed(s)
  BY <1>10, NestedClosed
<1> QED
  BY <1>5, <1>9, <1>10, <1>11, <1>12, <1>13, <1>14
  DEF FitsWell, Fits, InOrder, StaysQuiet, s, front, middle, a, b

\* The scope of subscribers_mutex_, which no worker takes unless a callback unsubscribes.
LEMMA FitsGuarded ==
  ASSUME NEW h, h[1] = "call", Rank(h) = 1, ~Quiet(h), ~OfWorker(h),
         NEW m \in Methods, Rank(Call(m)) > 1, Call(m) # Call(Client("startPublisher")),
         Starter(Call(m)) => Starter(h), OfStart(h) => OfStart(Call(m)), ~Finishes(Call(m))
  PROVE  FitsWell(h, Guarded(Subscribers, m))
<1> DEFINE l == Subscribers
           s == Guarded(Subscribers, m)
<1>1. l \in Locks /\ LockRank(l) = 1
  BY DEF Locks, LockRank
<1>2. /\ s \in Seq(Items) /\ Nested(s) /\ DOMAIN s = {1, 2, 3}
      /\ s[1] = Acquire(l) /\ s[2] = Call(m) /\ s[3] = Release(l)
  BY <1>1, GuardedCall
<1>3. /\ \A k \in {Acquire(l), Call(m), Release(l)} :
           k[1] # "join" /\ k # Call(Client("startPublisher"))
      /\ ~Starter(Acquire(l)) /\ ~Starter(Release(l))
      /\ OfStart(Acquire(l)) /\ OfStart(Release(l))
      /\ ~Finishes(Acquire(l)) /\ ~Finishes(Release(l))
  BY DEF Acquire, Call, Release, Starter, Named, OfStart, Finishes
<1> HIDE DEF s, l
<1>4. \A i \in DOMAIN s : s[i] \in {Acquire(l), Call(m), Release(l)}
  BY <1>2
<1>5. JoinsFirst(s) /\ ConnectedLater(s)
  BY <1>3, <1>4 DEF JoinsFirst, ConnectedLater
<1>6. \A i \in DOMAIN s : Rank(s[i]) >= Rank(h)
  BY RankType
<1> QED
  BY <1>2, <1>3, <1>4, <1>5, <1>6, NestedClosed DEF FitsWell, Fits, InOrder, StaysQuiet, s

\* Calls one after the other, none of which starts a thread.
LEMMA FitsCalls ==
  ASSUME NEW h, h[1] = "call", ~OfStart(h), NEW s \in Seq(Items),
         \A i \in DOMAIN s : /\ s[i][1] = "call" /\ ~Starter(s[i]) /\ Rank(s[i]) >= Rank(h)
                             /\ OfWorker(h) => OfWorker(s[i])
                             /\ Finishes(s[i]) =>
                                  Named(h, {"disconnect", "unsubscribe", "exit"}),
         StaysQuiet(h, s)
  PROVE  FitsWell(h, s)
<1>1. \A i \in DOMAIN s :
        s[i] # Call(Client("startPublisher")) /\ s[i][1] # "lock" /\ s[i][1] # "join"
  BY DEF Starter, Named, Call, Client
<1>2. Nested(s) /\ Closed(s) /\ JoinsFirst(s) /\ ConnectedLater(s)
  BY <1>1, NestedFree, NestedClosed DEF JoinsFirst, ConnectedLater
<1> QED
  BY <1>1, <1>2 DEF FitsWell, Fits, InOrder

\* The scope of a mutex whose steps take only later ones.
LEMMA NestedScope ==
  ASSUME NEW s \in Seq(Items), NEW l \in Locks, NEW i \in DOMAIN s, NEW k \in DOMAIN s, i < k,
         s[i] = Acquire(l), s[k] = Release(l),
         \A j \in DOMAIN s : j # i => s[j][1] # "lock" /\ (j # k => Rank(s[j]) > LockRank(l))
  PROVE  Nested(s)
<1>1. i \in Nat /\ k \in Nat /\ \A j \in i + 1 .. k - 1 : j \in DOMAIN s /\ j # i /\ j # k
  OBVIOUS
<1>2. Under(s, l, i)
  BY <1>1 DEF Under
<1>3. \A m \in Locks : Acquire(m) = s[i] => m = l
  BY DEF Acquire
<1>4. \A m \in Locks : Acquire(m)[1] = "lock"
  BY DEF Acquire
<1> QED
  BY <1>2, <1>3, <1>4 DEF Nested

DisconnectBody ==
  <<Call(Client("disconnectPublisher")), Acquire(Subscribers), Call(Client("disconnectAll")),
    Call(Client("clear")), Release(Subscribers), Call(Client("disconnected"))>>

UnsubscribeBody(x) ==
  <<Acquire(Subscribers), Call(<<"disconnectSubscriber", x>>), Call(<<"erase", x>>),
    Release(Subscribers)>>

ExitBody == <<Call(Client("unmap")), Call(Client("disconnect")), Call(Client("destroy"))>>

\* disconnect() of the client unfolds in order.
LEMMA DisconnectFits ==
  LET s == DisconnectBody
  IN /\ FitsWell(Call(Client("disconnect")), s)
     /\ s \in Seq(Items) /\ DOMAIN s = 1 .. 6
     /\ s[1] = Call(Client("disconnectPublisher")) /\ s[2] = Acquire(Subscribers)
     /\ s[3] = Call(Client("disconnectAll")) /\ s[4] = Call(Client("clear"))
     /\ s[5] = Release(Subscribers) /\ s[6] = Call(Client("disconnected"))
<1> DEFINE s == DisconnectBody
           h == Call(Client("disconnect"))
           l == Subscribers
           a == Call(Client("disconnectPublisher"))
           b == Call(Client("disconnectAll"))
           c == Call(Client("clear"))
           d == Call(Client("disconnected"))
<1>1. /\ a \in Items /\ b \in Items /\ c \in Items /\ d \in Items /\ l \in Locks
      /\ Acquire(l) \in Items /\ Release(l) \in Items
  BY DEF Items, Methods, ClientMethods, Call, Client, Acquire, Release, Locks
<1>2. /\ s \in Seq(Items) /\ DOMAIN s = 1 .. 6
      /\ s[1] = a /\ s[2] = Acquire(l) /\ s[3] = b /\ s[4] = c /\ s[5] = Release(l) /\ s[6] = d
  BY <1>1 DEF DisconnectBody
<1>3. /\ \A k \in {a, b, c, d, Release(l)} : k[1] # "lock" /\ Rank(k) > 1
      /\ \A k \in {a, b, c, d, Release(l), Acquire(l)} :
           k[1] # "join" /\ k # Call(Client("startPublisher")) /\ ~Starter(k)
      /\ LockRank(l) = 1
  BY DEF Call, Release, Acquire, Client, Rank, MethodRank, LockRank, Starter, Named
<1>4. h[1] = "call" /\ ~OfStart(h) /\ ~OfWorker(h) /\ ~Quiet(h) /\ Rank(h) = 1
      /\ Named(h, {"disconnect", "unsubscribe", "exit"})
  BY DEF Call, Client, OfStart, OfWorker, Quiet, Named, Rank, MethodRank, Starter,
         Acquire, Release
<1> HIDE DEF s, h, a, b, c, d, l
<1>5. \A i \in 1 .. 6 : i = 1 \/ i = 2 \/ i = 3 \/ i = 4 \/ i = 5 \/ i = 6
  OBVIOUS
<1>6. Nested(s)
  <2>1. \A j \in DOMAIN s : j # 2 => s[j][1] # "lock" /\ (j # 5 => Rank(s[j]) > LockRank(l))
    BY <1>2, <1>3, <1>5
  <2> QED
    BY SMTT(30), <1>1, <1>2, <2>1, NestedScope
<1>7. JoinsFirst(s) /\ ConnectedLater(s)
  BY <1>2, <1>3, <1>5 DEF JoinsFirst, ConnectedLater
<1>8. \A i \in DOMAIN s : Rank(s[i]) >= Rank(h) /\ s[i][1] # "join" /\ ~Starter(s[i])
  BY <1>2, <1>3, <1>4, <1>5, RankType
<1>9. FitsWell(h, s)
  BY <1>2, <1>4, <1>6, <1>7, <1>8, NestedClosed DEF FitsWell, Fits, InOrder, StaysQuiet
<1> QED
  BY <1>2, <1>9 DEF s, h, a, b, c, d, l

\* unsubscribeFromExchange() unfolds in order.
LEMMA UnsubscribeFits ==
  ASSUME NEW x \in Exchanges
  PROVE  LET s == UnsubscribeBody(x)
         IN /\ FitsWell(Call(<<"unsubscribe", x>>), s)
            /\ s \in Seq(Items) /\ DOMAIN s = 1 .. 4
            /\ s[1] = Acquire(Subscribers) /\ s[2] = Call(<<"disconnectSubscriber", x>>)
            /\ s[3] = Call(<<"erase", x>>) /\ s[4] = Release(Subscribers)
<1> DEFINE s == UnsubscribeBody(x)
           h == Call(<<"unsubscribe", x>>)
           l == Subscribers
           a == Call(<<"disconnectSubscriber", x>>)
           b == Call(<<"erase", x>>)
<1>1. a \in Items /\ b \in Items /\ l \in Locks /\ Acquire(l) \in Items /\ Release(l) \in Items
  BY DEF Items, Methods, SubscriberMethods, Call, Acquire, Release, Locks
<1>2. /\ s \in Seq(Items) /\ DOMAIN s = 1 .. 4
      /\ s[1] = Acquire(l) /\ s[2] = a /\ s[3] = b /\ s[4] = Release(l)
  BY <1>1 DEF UnsubscribeBody
<1>3. /\ \A k \in {a, b, Release(l)} : k[1] # "lock" /\ Rank(k) > 1
      /\ \A k \in {a, b, Release(l), Acquire(l)} :
           /\ k[1] # "join" /\ k # Call(Client("startPublisher")) /\ ~Starter(k) /\ OfWorker(k)
      /\ LockRank(l) = 1
  BY DEF Call, Release, Acquire, Client, Rank, MethodRank, LockRank, Starter, Named, OfWorker,
         Quiet
<1>4. h[1] = "call" /\ ~OfStart(h) /\ ~Quiet(h) /\ Rank(h) = 1
      /\ Named(h, {"disconnect", "unsubscribe", "exit"})
  BY DEF Call, Client, OfStart, Quiet, Named, Rank, MethodRank, Starter, Acquire, Release
<1> HIDE DEF s, h, a, b, l
<1>5. \A i \in 1 .. 4 : i = 1 \/ i = 2 \/ i = 3 \/ i = 4
  OBVIOUS
<1>6. Nested(s)
  <2>1. \A j \in DOMAIN s : j # 1 => s[j][1] # "lock" /\ (j # 4 => Rank(s[j]) > LockRank(l))
    BY <1>2, <1>3, <1>5
  <2> QED
    BY <1>1, <1>2, <2>1, NestedScope
<1>7. JoinsFirst(s) /\ ConnectedLater(s)
  BY <1>2, <1>3, <1>5 DEF JoinsFirst, ConnectedLater
<1>8. \A i \in DOMAIN s :
        Rank(s[i]) >= Rank(h) /\ s[i][1] # "join" /\ ~Starter(s[i]) /\ OfWorker(s[i])
  BY <1>2, <1>3, <1>4, <1>5, RankType
<1>9. FitsWell(h, s)
  BY <1>2, <1>4, <1>6, <1>7, <1>8, NestedClosed DEF FitsWell, Fits, InOrder, StaysQuiet
<1> QED
  BY <1>2, <1>9 DEF s, h, a, b, l

\* exit() unfolds in order.
LEMMA ExitFits ==
  LET s == ExitBody
  IN /\ FitsWell(Call(Client("exit")), s)
     /\ s \in Seq(Items) /\ DOMAIN s = 1 .. 3
     /\ s[1] = Call(Client("unmap")) /\ s[2] = Call(Client("disconnect"))
     /\ s[3] = Call(Client("destroy"))
<1> DEFINE s == ExitBody
           h == Call(Client("exit"))
<1>1. \A n \in ClientMethods : Call(Client(n)) \in Items
  BY DEF Items, Methods, Call, Client
<1>2. /\ s \in Seq(Items) /\ DOMAIN s = 1 .. 3
      /\ s[1] = Call(Client("unmap")) /\ s[2] = Call(Client("disconnect"))
      /\ s[3] = Call(Client("destroy"))
  BY <1>1 DEF ExitBody, ClientMethods
<1>3. \A k \in {Call(Client("unmap")), Call(Client("disconnect")), Call(Client("destroy"))} :
        k[1] = "call" /\ ~Starter(k)
  BY DEF Call, Client, Starter, Named
<1>4. h[1] = "call" /\ ~OfStart(h) /\ ~Quiet(h) /\ ~OfWorker(h) /\ Rank(h) = 1
      /\ Named(h, {"disconnect", "unsubscribe", "exit"})
  BY DEF Call, Client, OfStart, Quiet, Named, OfWorker, Rank, MethodRank, Starter, Acquire,
         Release
<1> HIDE DEF s, h
<1>5. \A i \in DOMAIN s : s[i][1] = "call" /\ ~Starter(s[i]) /\ Rank(s[i]) >= Rank(h)
  <2>1. \A i \in 1 .. 3 : i = 1 \/ i = 2 \/ i = 3
    OBVIOUS
  <2> QED
    BY <1>2, <1>3, <1>4, <2>1, RankType
<1>6. StaysQuiet(h, s)
  BY <1>4 DEF StaysQuiet
<1>7. FitsWell(h, s)
  BY <1>2, <1>4, <1>5, <1>6, FitsCalls
<1> QED
  BY <1>2, <1>7 DEF s, h

\* Every call of PositionClient unfolds in order.
LEMMA ClientCallBodies ==
  ASSUME NEW n, NEW x, <<n, x>> \in Methods, NEW running \in BOOLEAN,
         n \in DOMAIN ClientCalls[x][running], NEW s \in ClientCalls[x][running][n]
  PROVE  FitsWell(Call(<<n, x>>), s)
<1> DEFINE h == Call(<<n, x>>)
<1>1. /\ x \in Owners /\ (n \in {"subscribe", "unsubscribe"} => x \in Exchanges)
      /\ n \in {"connect", "disconnect", "pollMessages", "setErrorCallback", "statistics",
                "exit"} => x = NoExchange
  BY ClientAssumption DEF Methods, Owners, SubscriberMethods, ClientMethods
<1>2. n \in {"connect", "disconnect", "subscribe", "unsubscribe", "pollMessages",
             "setErrorCallback", "statistics", "exit"}
  BY <1>1 DEF ClientCalls
<1>3. CASE n = "connect"
  <2>1. \/ s = <<>>
        \/ s = <<Call(Client("startPublisher"))>> \o Each("subscribe", Configured)
                 \o <<Call(Client("connected"))>>
    BY <1>1, <1>3 DEF ClientCalls
  <2>2. h = Call(Client("connect"))
    BY <1>1, <1>3 DEF Client
  <2> QED
    BY <2>1, <2>2, ConnectBody, FitsNothing
<1>4. CASE n = "disconnect"
  BY <1>1, <1>4, DisconnectFits DEF ClientCalls, DisconnectBody, Client
<1>5. CASE n = "subscribe"
  <2>1. s = Guarded(Subscribers, <<"startSubscriber", x>>)
    BY <1>1, <1>5 DEF ClientCalls
  <2> DEFINE m == <<"startSubscriber", x>>
  <2>2. /\ h[1] = "call" /\ Rank(h) = 1 /\ ~Quiet(h) /\ ~OfWorker(h) /\ Starter(h)
        /\ Rank(Call(m)) > 1 /\ Call(m) # Call(Client("startPublisher"))
        /\ OfStart(Call(m)) /\ ~Finishes(Call(m))
    BY <1>5 DEF Call, Client, Rank, MethodRank, Quiet, OfWorker, Starter, OfStart, Named,
                Finishes
  <2>3. m \in Methods
    BY <1>1, <1>5 DEF Methods, SubscriberMethods
  <2> HIDE DEF h, m
  <2>4. FitsWell(h, Guarded(Subscribers, m))
    BY <2>2, <2>3, FitsGuarded
  <2> QED
    BY <2>1, <2>4 DEF h, m
<1>6. CASE n = "unsubscribe"
  BY <1>1, <1>6, UnsubscribeFits DEF ClientCalls, UnsubscribeBody
<1>7. CASE n = "pollMessages"
  <2>1. s = Guarded(Subscribers, Client("pollAll"))
    BY <1>1, <1>7 DEF ClientCalls
  <2> DEFINE m == Client("pollAll")
  <2>2. /\ h[1] = "call" /\ Rank(h) = 1 /\ ~Quiet(h) /\ ~OfWorker(h) /\ ~OfStart(h)
        /\ Rank(Call(m)) > 1 /\ Call(m) # Call(Client("startPublisher"))
        /\ ~Starter(Call(m)) /\ ~Finishes(Call(m))
    BY <1>7 DEF Call, Client, Rank, MethodRank, Quiet, OfWorker, Starter, OfStart, Named,
                Finishes, Acquire, Release
  <2>3. m \in Methods
    BY DEF Methods, ClientMethods, Client
  <2> HIDE DEF h, m
  <2>4. FitsWell(h, Guarded(Subscribers, m))
    BY <2>2, <2>3, FitsGuarded
  <2> QED
    BY <2>1, <2>4 DEF h, m
<1>8. CASE n \in {"setErrorCallback", "statistics"}
  <2> DEFINE l == IF n = "statistics" THEN Subscribers ELSE Client("client_callback")
  <2>1. s = <<Acquire(l), Release(l)>>
    BY <1>1, <1>8 DEF ClientCalls
  <2>2. /\ l \in Locks /\ Acquire(l) \in Items /\ Release(l) \in Items
        /\ LockRank(l) \in Int /\ LockRank(l) = Rank(h)
    BY <1>8 DEF Locks, Items, Acquire, Release, LockRank, Rank, Call, MethodRank, Subscribers,
                Client
  <2>3. h[1] = "call" /\ ~OfStart(h)
    BY <1>8 DEF Call, OfStart, Starter, Named, Client, Acquire, Release
  <2>4. /\ Quiet(Acquire(l)) /\ Quiet(Release(l)) /\ Rank(Acquire(l)) = LockRank(l)
        /\ Rank(Release(l)) = 6 /\ Release(l)[1] # "lock"
    BY DEF Quiet, Acquire, Release, Rank
  <2>5. Rank(h) <= 6 /\ Rank(h) \in Int
    BY RankType
  <2> HIDE DEF l, h
  <2>6. /\ s \in Seq(Items) /\ DOMAIN s = {1, 2} /\ s[1] = Acquire(l) /\ s[2] = Release(l)
    BY <2>1, <2>2
  <2>7. Nested(s)
    BY <2>2, <2>4, <2>6, NestedScope
  <2>8. \A i \in DOMAIN s : Quiet(s[i]) /\ Rank(s[i]) >= Rank(h)
    BY <2>2, <2>4, <2>5, <2>6
  <2>9. FitsWell(h, s)
    BY <2>3, <2>6, <2>7, <2>8, FitsQuiet DEF InOrder
  <2> QED
    BY <2>9 DEF h
<1>9. CASE n = "exit"
  BY <1>1, <1>9, ExitFits DEF ClientCalls, ExitBody, Client
<1> QED
  BY <1>2, <1>3, <1>4, <1>5, <1>6, <1>7, <1>8, <1>9

\* The loops over subscribers_.
LEMMA EachFits ==
  ASSUME NEW h, NEW n, NEW s \in Orders(Present),
         \/ h = Call(Client("disconnectAll")) /\ n = "disconnectSubscriber"
         \/ h = Call(Client("pollAll")) /\ n = "poll"
  PROVE  /\ FitsWell(h, Each(n, s))
         /\ \A x \in Present : \E i \in DOMAIN Each(n, s) : Each(n, s)[i] = Call(<<n, x>>)
<1> DEFINE r == Each(n, s)
<1>1. Cardinality(Present) \in Nat
  <2>1. Present \subseteq Exchanges
    BY DEF Present
  <2> QED
    BY <2>1, ClientAssumption, FS_Subset, FS_CardinalityType
<1>2. /\ Len(s) \in Nat /\ DOMAIN s = 1 .. Len(s) /\ \A i \in 1 .. Len(s) : s[i] \in Exchanges
      /\ \A x \in Present : \E i \in DOMAIN s : s[i] = x
  <2>1. /\ s \in [1 .. Cardinality(Present) -> Present]
        /\ \A x \in Present : \E i \in DOMAIN s : s[i] = x
    BY DEF Orders
  <2>2. s \in Seq(Present)
    BY <1>1, <2>1
  <2>3. Present \subseteq Exchanges
    BY DEF Present
  <2>4. Len(s) \in Nat /\ DOMAIN s = 1 .. Len(s) /\ \A i \in 1 .. Len(s) : s[i] \in Present
    BY <2>2
  <2> QED
    BY <2>1, <2>3, <2>4
<1>3. \A x \in Exchanges : Call(<<n, x>>) \in Items
  BY DEF Items, Methods, SubscriberMethods, Call
<1>4. /\ r \in Seq(Items) /\ DOMAIN r = 1 .. Len(s)
      /\ \A i \in DOMAIN r : r[i] = Call(<<n, s[i]>>)
  BY <1>2, <1>3 DEF Each
<1>5. /\ h[1] = "call" /\ ~OfStart(h) /\ ~OfWorker(h) /\ ~Quiet(h) /\ Rank(h) \in {2, 3}
      /\ \A x : /\ Call(<<n, x>>)[1] = "call" /\ ~Starter(Call(<<n, x>>))
                /\ Rank(Call(<<n, x>>)) = Rank(h) /\ ~Finishes(Call(<<n, x>>))
  BY DEF Call, Client, OfStart, OfWorker, Quiet, Named, Starter, Finishes, Rank, MethodRank,
         Acquire, Release
<1> HIDE DEF r
<1>6. \A i \in DOMAIN r : r[i][1] = "call" /\ ~Starter(r[i]) /\ Rank(r[i]) >= Rank(h)
                          /\ ~Finishes(r[i])
  <2> SUFFICES ASSUME NEW i \in DOMAIN r
               PROVE  /\ r[i][1] = "call" /\ ~Starter(r[i]) /\ Rank(r[i]) >= Rank(h)
                      /\ ~Finishes(r[i])
    OBVIOUS
  <2>1. r[i] = Call(<<n, s[i]>>)
    BY <1>4
  <2> DEFINE x == s[i]
  <2> HIDE DEF x
  <2>2. r[i] = Call(<<n, x>>)
    BY <2>1 DEF x
  <2> QED
    BY <1>5, <2>2
<1>7. StaysQuiet(h, r)
  BY <1>5 DEF StaysQuiet
<1>8. FitsWell(h, r)
  BY <1>4, <1>5, <1>6, <1>7, FitsCalls
<1>9. \A x \in Present : \E i \in DOMAIN r : r[i] = Call(<<n, x>>)
  BY <1>2, <1>4
<1> QED
  BY <1>8, <1>9 DEF r

\* What a callback calls.
LEMMA CallbackFits ==
  ASSUME NEW c \in Callbacks, NEW n \in CallbackCalls,
         NEW x \in IF n = "unsubscribe" THEN Exchanges ELSE {NoExchange}
  PROVE  LET h == Call(c)
             s == <<Call(<<n, x>>)>>
         IN /\ Fits(h, s)
            /\ n \in Harmless(c) => InOrder(h, s)
            /\ n # "unsubscribe" => StaysQuiet(h, s)
<1> DEFINE h == Call(c)
           s == <<Call(<<n, x>>)>>
           k == Call(<<n, x>>)
<1>1. n \in {"publish", "setErrorCallback", "statistics", "unsubscribe"}
  BY ClientAssumption
<1>2. <<n, x>> \in Methods
  BY <1>1 DEF Methods, SubscriberMethods, ClientMethods
<1>3. /\ s \in Seq(Items) /\ Closed(s) /\ JoinsFirst(s) /\ Nested(s)
      /\ DOMAIN s = {1} /\ s[1] = k
  BY <1>2, FitsCall
<1>4. /\ ~Starter(k) /\ OfWorker(k) /\ ~Finishes(k) /\ k[1] = "call"
      /\ k # Call(Client("startPublisher"))
      /\ n # "unsubscribe" => Quiet(k)
      /\ n \in {"publish", "setErrorCallback"} => Rank(k) \in {4, 5}
  BY <1>1 DEF Call, Client, Starter, OfWorker, Finishes, Quiet, Named, Rank, MethodRank
<1>5. /\ h[1] = "call" /\ ~OfStart(h)
      /\ Harmless(c) # {} => Rank(h) = 4
      /\ Harmless(c) \subseteq {"publish", "setErrorCallback"}
  <2>1. CASE c = Client("errorCallback")
    BY <2>1 DEF Call, Client, OfStart, Starter, Named, Acquire, Release, Harmless
  <2>2. CASE c \in {"positionCallback", "disconnectCallback"} \X Exchanges
    BY <2>2 DEF Call, Client, OfStart, Starter, Named, Acquire, Release, Harmless, Rank,
                MethodRank
  <2> QED
    BY <2>1, <2>2 DEF Callbacks
<1> HIDE DEF s, h, k
<1>6. Fits(h, s) /\ (n # "unsubscribe" => StaysQuiet(h, s))
  BY <1>3, <1>4, <1>5 DEF Fits, StaysQuiet, ConnectedLater
<1>7. n \in Harmless(c) => InOrder(h, s)
  BY <1>3, <1>4, <1>5 DEF InOrder
<1> QED
  BY <1>6, <1>7 DEF h, s

-----------------------------------------------------------------------------
(***************************************************************************)
(* What is invariant of todo, whatever the flags are.                      *)
(***************************************************************************)
TypesInv ==
  /\ todo \in [Threads -> Seq(Items)]
  /\ owner \in [Locks -> Threads \cup {NoThread}]
  /\ joinable \subseteq Workers
  /\ publisher \in [running : BOOLEAN, cleanup_started : BOOLEAN]
  /\ subscriber \in [Exchanges -> [present : BOOLEAN, running : BOOLEAN,
                                   cleanup_started : BOOLEAN]]
  /\ process \in {"running", "unmapped", "ended", "terminated"}
  /\ lifecycle \in {"connected", "disconnected"}
  /\ history \subseteq Situations

\* Of thread t.
ThreadStatic(t) ==
  /\ Closed(todo[t])
  /\ t \in Workers => \A i \in DOMAIN todo[t] : OfWorker(todo[t][i])
  /\ t = App => /\ JoinsFirst(todo[t]) /\ StartsOnly(todo[t]) /\ ConnectedLater(todo[t])
                /\ process # "running" => \A i \in DOMAIN todo[t] : ~Starter(todo[t][i])
  /\ "reentry" \notin history => Nested(todo[t])
  /\ "reentry" \notin history /\ t \in Workers =>
       \A i \in DOMAIN todo[t] : Rank(todo[t][i]) >= 3
  /\ "unsubscribed" \notin history /\ t \in Workers =>
       \A i \in DOMAIN todo[t] : Quiet(todo[t][i])

StaticInv == \A t \in Threads : ThreadStatic(t)

\* Thread t does the steps s in place of its first one.
Advances(t, s) ==
  /\ todo[t] # <<>>
  /\ todo' = [todo EXCEPT ![t] = s \o Tail(@)]
  /\ Fits(todo[t][1], s)
  /\ "reentry" \in history' \/ InOrder(todo[t][1], s)
  /\ "unsubscribed" \in history' \/ StaysQuiet(todo[t][1], s)
  /\ history \subseteq history'

\* The main thread, the workers and no thread are different.
LEMMA ThreadTypes ==
  /\ App \notin Workers /\ App \in Threads /\ Workers \subseteq Threads
  /\ NoThread \notin Threads /\ Beat \in Workers
  /\ \A x \in Exchanges : Readers(x) \subseteq Workers /\ Beat \notin Readers(x)
BY DEF App, Workers, Threads, NoThread, Beat, Readers, Client

\* The first step of a sequence.
LEMMA FirstStep ==
  ASSUME NEW q \in Seq(Items), q # <<>>
  PROVE  Head(q) = q[1] /\ 1 \in DOMAIN q /\ q[1] \in Items
OBVIOUS

\* A thread that advances changes only its own steps.
LEMMA Advance ==
  ASSUME TypesInv, NEW t \in Threads, NEW s, Advances(t, s)
  PROVE  /\ todo' \in [Threads -> Seq(Items)]
         /\ Spliced(todo'[t], s, todo[t])
         /\ \A u \in Threads \ {t} : todo'[u] = todo[u]
<1> DEFINE q == todo[t]
<1>1. s \in Seq(Items) /\ q \in Seq(Items) /\ q # <<>>
  BY DEF TypesInv, Advances, Fits
<1>2. Spliced(s \o Tail(q), s, q)
  BY <1>1, Splice
<1>3. todo'[t] = s \o Tail(q) /\ \A u \in Threads \ {t} : todo'[u] = todo[u]
  BY DEF TypesInv, Advances
<1>4. s \o Tail(q) \in Seq(Items)
  BY <1>2 DEF Spliced
<1>5. todo' \in [Threads -> Seq(Items)]
  BY <1>4 DEF TypesInv, Advances
<1> QED
  BY <1>2, <1>3, <1>5

\* What no worker does the main thread does.
LEMMA OnlyApp ==
  ASSUME TypesInv, StaticInv, NEW t \in Threads, todo[t] # <<>>, ~OfWorker(todo[t][1])
  PROVE  t = App
<1>1. 1 \in DOMAIN todo[t]
  BY FirstStep DEF TypesInv
<1> QED
  BY <1>1 DEF StaticInv, ThreadStatic, Threads

\* Nothing changes for thread t, but that the process is no longer running.
LEMMA StaticKept ==
  ASSUME NEW t \in Threads, ThreadStatic(t), todo'[t] = todo[t], history \subseteq history',
         process' = process \/ t # App
  PROVE  ThreadStatic(t)'
BY DEF ThreadStatic

\* The thread that advances keeps what is invariant of its steps.
LEMMA StaticSpliced ==
  ASSUME NEW t \in Threads, ThreadStatic(t), NEW s, Spliced(todo'[t], s, todo[t]),
         Fits(todo[t][1], s),
         "reentry" \in history' \/ InOrder(todo[t][1], s),
         "unsubscribed" \in history' \/ StaysQuiet(todo[t][1], s),
         history \subseteq history',
         process' # process => process = "running" /\ ~OfStart(todo[t][1])
  PROVE  ThreadStatic(t)'
<1> DEFINE q == todo[t]
           r == todo'[t]
<1>1. Spliced(r, s, q) /\ Fits(q[1], s) /\ 1 \in DOMAIN q
  BY DEF Spliced
<1>2. Closed(r)
  <2>1. Closed(q) /\ Closed(s)
    BY <1>1 DEF ThreadStatic, Fits
  <2> QED
    BY <1>1, <2>1, SpliceClosed
<1>3. t \in Workers => \A i \in DOMAIN r : OfWorker(r[i])
  BY <1>1, SplicePlaces DEF ThreadStatic, Fits
<1>4. ASSUME t = App
      PROVE  /\ JoinsFirst(r) /\ StartsOnly(r) /\ ConnectedLater(r)
             /\ process' # "running" => \A i \in DOMAIN r : ~Starter(r[i])
  <2>1. /\ JoinsFirst(q) /\ StartsOnly(q) /\ ConnectedLater(q)
        /\ JoinsFirst(s) /\ ConnectedLater(s) /\ (q[1][1] = "join" => s = <<>>)
        /\ (\E i \in DOMAIN s : Starter(s[i])) => Starter(q[1])
        /\ OfStart(q[1]) => \A i \in DOMAIN s : OfStart(s[i])
    BY <1>1, <1>4 DEF ThreadStatic, Fits
  <2>2. JoinsFirst(r)
    BY <1>1, <2>1, SpliceJoins
  <2>3. StartsOnly(r)
    BY <1>1, <2>1, SpliceStarts
  <2>4. ConnectedLater(r)
    BY <1>1, <2>1, SpliceConnected
  <2>5. ASSUME process' # "running" PROVE \A i \in DOMAIN r : ~Starter(r[i])
    <3>1. \A i \in DOMAIN q : ~Starter(q[i])
      <4>1. CASE process = "running"
        <5>1. ~OfStart(q[1])
          BY <2>5, <4>1
        <5> QED
          BY <1>1, <2>1, <5>1 DEF StartsOnly
      <4>2. CASE process # "running"
        BY <1>4, <4>2 DEF ThreadStatic
      <4> QED
        BY <4>1, <4>2
    <3>2. \A i \in DOMAIN s : ~Starter(s[i])
      BY <1>1, <2>1, <3>1
    <3> QED
      BY <1>1, <3>1, <3>2, SplicePlaces
  <2> QED
    BY <2>2, <2>3, <2>4, <2>5
<1>5. ASSUME "reentry" \notin history'
      PROVE  Nested(r) /\ (t \in Workers => \A i \in DOMAIN r : Rank(r[i]) >= 3)
  <2>1. "reentry" \notin history /\ InOrder(q[1], s)
    BY <1>5
  <2>2. Nested(q) /\ Nested(s)
    BY <2>1 DEF ThreadStatic, InOrder
  <2>3. Nested(r)
    BY <1>1, <2>2, SpliceNested
  <2>4. ASSUME t \in Workers PROVE \A i \in DOMAIN r : Rank(r[i]) >= 3
    <3>1. Rank(q[1]) >= 3 /\ \A i \in DOMAIN q : Rank(q[i]) >= 3
      BY <1>1, <2>1, <2>4 DEF ThreadStatic
    <3>2. ASSUME NEW i \in DOMAIN s PROVE Rank(s[i]) >= 3
      <4>1. Rank(s[i]) >= Rank(q[1])
        BY <2>1, <3>2 DEF InOrder
      <4>2. Rank(s[i]) \in Int /\ Rank(q[1]) \in Int
        BY RankType
      <4> QED
        BY <3>1, <4>1, <4>2
    <3> QED
      BY <1>1, <3>1, <3>2, SplicePlaces
  <2> QED
    BY <2>3, <2>4
<1>6. ASSUME "unsubscribed" \notin history', t \in Workers
      PROVE  \A i \in DOMAIN r : Quiet(r[i])
  <2>1. "unsubscribed" \notin history /\ StaysQuiet(q[1], s)
    BY <1>6
  <2>2. Quiet(q[1]) /\ \A i \in DOMAIN q : Quiet(q[i])
    BY <1>1, <1>6, <2>1 DEF ThreadStatic
  <2>3. \A i \in DOMAIN s : Quiet(s[i])
    BY <2>1, <2>2 DEF StaysQuiet
  <2> QED
    BY <1>1, <2>2, <2>3, SplicePlaces
<1> QED
  BY <1>2, <1>3, <1>4, <1>5, <1>6 DEF ThreadStatic

\* So do all threads then.
LEMMA AdvanceStatic ==
  ASSUME TypesInv, StaticInv, NEW t \in Threads, NEW s, Advances(t, s),
         process' # process => process = "running" /\ ~OfStart(todo[t][1]) /\ t = App
  PROVE  StaticInv'
<1>1. Spliced(todo'[t], s, todo[t]) /\ \A u \in Threads \ {t} : todo'[u] = todo[u]
  BY Advance
<1>2. ThreadStatic(t)'
  BY <1>1, StaticSpliced DEF StaticInv, Advances
<1>3. ASSUME NEW u \in Threads \ {t} PROVE ThreadStatic(u)'
  BY <1>1, StaticKept DEF StaticInv, Advances
<1> QED
  BY <1>2, <1>3 DEF StaticInv

\* A step s that is a single one, or nothing: what the other actions do.
LEMMA AdvancesWell ==
  ASSUME TypesInv, NEW t \in Threads, todo[t] # <<>>, NEW s,
         todo' = [todo EXCEPT ![t] = s \o Tail(@)], FitsWell(todo[t][1], s),
         history \subseteq history'
  PROVE  Advances(t, s)
BY DEF Advances, FitsWell

\* A thread that calls m.
LEMMA CallsFirst ==
  ASSUME TypesInv, NEW t \in Threads, NEW m, Calls(t, m)
  PROVE  todo[t] # <<>> /\ todo[t][1] = Call(m) /\ 1 \in DOMAIN todo[t] /\ m \in Methods
<1>1. todo[t] \in Seq(Items) /\ todo[t] # <<>>
  BY DEF TypesInv, Calls
<1>2. todo[t][1] = Call(m) /\ Call(m) \in Items
  BY <1>1, FirstStep DEF Calls, Call
<1>3. m \in Methods
  BY <1>2 DEF Call, Items, Caught
<1> QED
  BY <1>1, <1>2, <1>3, FirstStep

-----------------------------------------------------------------------------
(***************************************************************************)
(* What each action does, in these terms.                                  *)
(***************************************************************************)
FlagMethods ==
  {"startPublisher", "disconnectPublisher", "startSubscriber", "disconnectSubscriber",
   "clear", "erase", "connected", "disconnected", "unmap", "destroy"}

\* A step that leaves all but todo and history alone.
Unfolds(t, s) ==
  /\ Advances(t, s)
  /\ UNCHANGED <<owner, joinable, publisher, subscriber, process, signalled, lifecycle>>
  /\ history' \subseteq history \cup {"reentry", "unsubscribed"}
  /\ todo[t][1][1] \in {"call", "catch"} /\ ~Named(todo[t][1], FlagMethods)
  /\ todo[t][1] = Call(Client("disconnect")) => s = DisconnectBody
  /\ todo[t][1] = Call(Client("exit")) => s = ExitBody
  /\ \A x \in Exchanges : todo[t][1] = Call(<<"unsubscribe", x>>) => s = UnsubscribeBody(x)
  /\ todo[t][1] = Call(Client("disconnectAll")) =>
       \A x \in Present : \E i \in DOMAIN s : s[i] = Call(<<"disconnectSubscriber", x>>)

\* The method that a thread calls next.
LEMMA FirstCall ==
  ASSUME TypesInv, NEW t \in Threads, At(t, "call")
  PROVE  \E m \in Methods : /\ Calls(t, m) /\ What(t) = m /\ todo[t] # <<>>
                            /\ todo[t][1] = Call(m) /\ m = <<m[1], m[2]>>
<1>1. todo[t] \in Seq(Items) /\ todo[t] # <<>>
  BY DEF TypesInv, At
<1>2. Head(todo[t]) = todo[t][1] /\ todo[t][1] \in Items /\ todo[t][1][1] = "call"
  BY <1>1, FirstStep DEF At
<1>3. PICK m \in Methods : todo[t][1] = <<"call", m>>
  BY <1>2 DEF Items, Caught
<1>4. m = <<m[1], m[2]>>
  BY DEF Methods
<1> QED
  BY <1>1, <1>2, <1>3, <1>4 DEF Calls, What, Call

\* Invoke does a body of the method.
LEMMA InvokeUnfolds ==
  ASSUME TypesInv, NEW t \in Threads, Invoke(t)
  PROVE  \E s : Unfolds(t, s)
<1>1. PICK m \in Methods : /\ What(t) = m /\ todo[t] # <<>> /\ todo[t][1] = Call(m)
                           /\ m = <<m[1], m[2]>>
  BY FirstCall DEF Invoke
<1> DEFINE n == m[1]
           x == m[2]
           running == Running(x)
<1>2. running \in BOOLEAN
  <2>1. x = NoExchange \/ x \in Exchanges
    BY DEF Methods
  <2> QED
    BY <2>1, ClientAssumption DEF TypesInv, Running
<1>3. /\ \/ OneOf(t, Loops[x][running]) \/ OneOf(t, Delivery[x][running])
         \/ OneOf(t, ClientCalls[x][running])
      /\ UNCHANGED <<owner, joinable, publisher, subscriber, process, signalled, lifecycle,
                     history>>
  BY <1>1 DEF Invoke, flags
<1>4. m = <<n, x>> /\ <<n, x>> \in Methods
  BY <1>1
<1>5. x \in Owners /\ (n \in {"disconnect", "exit"} => x = NoExchange)
      /\ (n = "unsubscribe" => x \in Exchanges)
  BY <1>4, ClientAssumption DEF Methods, Owners, SubscriberMethods, ClientMethods
<1> HIDE DEF n, x, running
<1>6. \E s : /\ Unfold(t, s) /\ FitsWell(Call(m), s)
             /\ n \notin FlagMethods \cup {"disconnectAll"}
             /\ n = "disconnect" => s = DisconnectBody
             /\ n = "exit" => s = ExitBody
             /\ n = "unsubscribe" => s = UnsubscribeBody(x)
  <2>1. CASE OneOf(t, Loops[x][running])
    <3>1. n \in DOMAIN Loops[x][running] /\ \E s \in Loops[x][running][n] : Unfold(t, s)
      BY <1>1, <2>1 DEF OneOf, n
    <3>2. DOMAIN Loops[x][running]
            = {"messageLoop", "heartbeatLoop", "producerAlive", "beatLoop"}
      BY <1>2, <1>5 DEF Loops
    <3>3. PICK s \in Loops[x][running][n] : Unfold(t, s)
      BY <3>1
    <3>4. FitsWell(Call(m), s)
      BY <1>2, <1>4, <3>1, LoopBodies
    <3> QED
      BY <3>1, <3>2, <3>3, <3>4 DEF FlagMethods
  <2>2. CASE OneOf(t, Delivery[x][running])
    <3>1. n \in DOMAIN Delivery[x][running] /\ \E s \in Delivery[x][running][n] : Unfold(t, s)
      BY <1>1, <2>2 DEF OneOf, n
    <3>2. DOMAIN Delivery[x][running] = {"poll", "processed", "publish", "clientError"}
      BY <1>2, <1>5 DEF Delivery
    <3>3. PICK s \in Delivery[x][running][n] : Unfold(t, s)
      BY <3>1
    <3>4. FitsWell(Call(m), s)
      BY <1>2, <1>4, <3>1, DeliveryBodies
    <3> QED
      BY <3>1, <3>2, <3>3, <3>4 DEF FlagMethods
  <2>3. CASE OneOf(t, ClientCalls[x][running])
    <3>1. /\ n \in DOMAIN ClientCalls[x][running]
          /\ \E s \in ClientCalls[x][running][n] : Unfold(t, s)
      BY <1>1, <2>3 DEF OneOf, n
    <3>2. DOMAIN ClientCalls[x][running] =
            {"connect", "disconnect", "subscribe", "unsubscribe", "pollMessages",
             "setErrorCallback", "statistics", "exit"}
      BY <1>2, <1>5 DEF ClientCalls
    <3>3. PICK s \in ClientCalls[x][running][n] : Unfold(t, s)
      BY <3>1
    <3>4. FitsWell(Call(m), s)
      BY <1>2, <1>4, <3>1, ClientCallBodies
    <3>5. /\ n = "disconnect" => s = DisconnectBody
          /\ n = "exit" => s = ExitBody
          /\ n = "unsubscribe" => s = UnsubscribeBody(x)
      <4>1. CASE n = "disconnect"
        BY <1>2, <1>5, <3>3, <4>1 DEF ClientCalls, DisconnectBody
      <4>2. CASE n = "exit"
        BY <1>2, <1>5, <3>3, <4>2 DEF ClientCalls, ExitBody
      <4>3. CASE n = "unsubscribe"
        BY <1>2, <1>5, <3>3, <4>3 DEF ClientCalls, UnsubscribeBody
      <4> QED
        BY <4>1, <4>2, <4>3
    <3>6. n \notin FlagMethods \cup {"disconnectAll"}
      BY <3>1, <3>2 DEF FlagMethods
    <3> QED
      BY <3>3, <3>4, <3>5, <3>6
  <2> QED
    BY <1>3, <2>1, <2>2, <2>3
<1>7. PICK s : /\ Unfold(t, s) /\ FitsWell(Call(m), s)
               /\ n \notin FlagMethods \cup {"disconnectAll"}
               /\ n = "disconnect" => s = DisconnectBody
               /\ n = "exit" => s = ExitBody
               /\ n = "unsubscribe" => s = UnsubscribeBody(x)
  BY <1>6
<1>8. Advances(t, s)
  BY <1>1, <1>3, <1>7, AdvancesWell DEF Unfold
<1>9. /\ Call(m)[1] = "call" /\ ~Named(Call(m), FlagMethods)
      /\ Call(m) # Call(Client("disconnectAll"))
      /\ Call(m) = Call(Client("disconnect")) => n = "disconnect"
      /\ Call(m) = Call(Client("exit")) => n = "exit"
      /\ \A y \in Exchanges :
           Call(m) = Call(<<"unsubscribe", y>>) => n = "unsubscribe" /\ x = y
  BY <1>4, <1>7 DEF Call, Client, Named
<1>10. Unfolds(t, s)
  <2>1. todo[t][1] = Call(m)
    BY <1>1
  <2> QED
    BY <1>3, <1>7, <1>8, <1>9, <2>1 DEF Unfolds
<1> QED
  BY <1>10

\* ForAll calls a method of every subscriber.
LEMMA ForAllUnfolds ==
  ASSUME TypesInv, NEW t \in Threads, ForAll(t)
  PROVE  \E s : Unfolds(t, s)
<1>1. UNCHANGED <<owner, joinable, publisher, subscriber, process, signalled, lifecycle,
                  history>>
  BY DEF ForAll, flags
<1>2. CASE /\ Calls(t, Client("disconnectAll"))
           /\ \E s \in Orders(Present) : Unfold(t, Each("disconnectSubscriber", s))
  <2>1. PICK p \in Orders(Present) : Unfold(t, Each("disconnectSubscriber", p))
    BY <1>2
  <2> DEFINE s == Each("disconnectSubscriber", p)
             h == Call(Client("disconnectAll"))
  <2>2. /\ FitsWell(h, s)
        /\ \A x \in Present : \E i \in DOMAIN s : s[i] = Call(<<"disconnectSubscriber", x>>)
    BY EachFits
  <2>3. todo[t] # <<>> /\ todo[t][1] = h
    BY <1>2, CallsFirst
  <2> HIDE DEF s, h
  <2>4. Advances(t, s)
    BY <1>1, <2>1, <2>2, <2>3, AdvancesWell DEF Unfold, s
  <2>5. /\ h[1] = "call" /\ ~Named(h, FlagMethods) /\ h # Call(Client("disconnect"))
        /\ h # Call(Client("exit")) /\ \A x \in Exchanges : h # Call(<<"unsubscribe", x>>)
    BY DEF h, Call, Client, Named, FlagMethods
  <2> QED
    BY <1>1, <2>2, <2>3, <2>4, <2>5 DEF Unfolds
<1>3. CASE /\ Calls(t, Client("pollAll"))
           /\ \E s \in Orders(Present) : Unfold(t, Each("poll", s))
  <2>1. PICK p \in Orders(Present) : Unfold(t, Each("poll", p))
    BY <1>3
  <2> DEFINE s == Each("poll", p)
             h == Call(Client("pollAll"))
  <2>2. FitsWell(h, s)
    BY EachFits
  <2>3. todo[t] # <<>> /\ todo[t][1] = h
    BY <1>3, CallsFirst
  <2> HIDE DEF s, h
  <2>4. Advances(t, s)
    BY <1>1, <2>1, <2>2, <2>3, AdvancesWell DEF Unfold, s
  <2>5. /\ h[1] = "call" /\ ~Named(h, FlagMethods) /\ h # Call(Client("disconnect"))
        /\ h # Call(Client("disconnectAll"))
        /\ h # Call(Client("exit")) /\ \A x \in Exchanges : h # Call(<<"unsubscribe", x>>)
    BY DEF h, Call, Client, Named, FlagMethods
  <2> QED
    BY <1>1, <2>3, <2>4, <2>5 DEF Unfolds
<1> QED
  BY <1>2, <1>3 DEF ForAll

\* Callback does nothing, or one call of the client.
LEMMA CallbackUnfolds ==
  ASSUME TypesInv, NEW t \in Threads, Callback(t)
  PROVE  \E s : Unfolds(t, s)
<1>1. PICK c \in Methods : /\ What(t) = c /\ todo[t] # <<>> /\ todo[t][1] = Call(c)
  BY FirstCall DEF Callback
<1> DEFINE h == Call(c)
<1>2. UNCHANGED <<owner, joinable, publisher, subscriber, process, signalled, lifecycle>>
  BY DEF Callback, flags
<1>3. /\ h[1] = "call" /\ ~Named(h, FlagMethods) /\ h # Call(Client("disconnect"))
      /\ h # Call(Client("disconnectAll"))
      /\ h # Call(Client("exit")) /\ \A x \in Exchanges : h # Call(<<"unsubscribe", x>>)
  BY <1>1 DEF Callback, Callbacks, Call, Client, Named, FlagMethods
<1>4. CASE Unfold(t, <<>>) /\ UNCHANGED history
  <2>1. Advances(t, <<>>)
    BY <1>1, <1>4, FitsNothing, AdvancesWell DEF Unfold
  <2> QED
    BY <1>1, <1>2, <1>3, <1>4, <2>1 DEF Unfolds
<1>5. CASE \E n \in CallbackCalls :
             /\ \E x \in IF n = "unsubscribe" THEN Exchanges ELSE {NoExchange} :
                  Unfold(t, <<Call(<<n, x>>)>>)
             /\ ComeUp((IF n \in Harmless(c) THEN {} ELSE {"reentry"})
                         \cup (IF n = "unsubscribe" THEN {"unsubscribed"} ELSE {}))
  <2>1. PICK n \in CallbackCalls :
             /\ \E x \in IF n = "unsubscribe" THEN Exchanges ELSE {NoExchange} :
                  Unfold(t, <<Call(<<n, x>>)>>)
             /\ ComeUp((IF n \in Harmless(c) THEN {} ELSE {"reentry"})
                         \cup (IF n = "unsubscribe" THEN {"unsubscribed"} ELSE {}))
    BY <1>5
  <2>2. PICK x \in IF n = "unsubscribe" THEN Exchanges ELSE {NoExchange} :
               Unfold(t, <<Call(<<n, x>>)>>)
    BY <2>1
  <2> DEFINE s == <<Call(<<n, x>>)>>
  <2>3. /\ Fits(h, s)
        /\ n \in Harmless(c) => InOrder(h, s)
        /\ n # "unsubscribe" => StaysQuiet(h, s)
    BY <1>1, CallbackFits DEF Callback
  <2>4. /\ history \subseteq history'
        /\ history' \subseteq history \cup {"reentry", "unsubscribed"}
        /\ n \notin Harmless(c) => "reentry" \in history'
        /\ n = "unsubscribe" => "unsubscribed" \in history'
    BY <2>1 DEF ComeUp
  <2> HIDE DEF s, h
  <2>5. Advances(t, s)
    BY <1>1, <2>2, <2>3, <2>4 DEF Advances, Unfold, s, h
  <2> QED
    BY <1>1, <1>2, <1>3, <2>4, <2>5 DEF Unfolds, h
<1> QED
  BY <1>1, <1>4, <1>5 DEF Callback

\* Leave does nothing.
LEMMA LeaveUnfolds ==
  ASSUME TypesInv, NEW t \in Threads, Leave(t)
  PROVE  \E s : Unfolds(t, s)
<1>1. UNCHANGED <<owner, joinable, publisher, subscriber, process, signalled, lifecycle,
                  history>>
  BY DEF Leave, flags
<1>2. todo[t] # <<>> /\ todo[t][1][1] = "catch"
  BY FirstStep DEF Leave, At, TypesInv
<1>3. Advances(t, <<>>)
  BY <1>1, <1>2, FitsNothing, AdvancesWell DEF Leave, Unfold
<1>4. \A m : todo[t][1] # Call(m)
  BY <1>2 DEF Call
<1> QED
  BY <1>1, <1>2, <1>3, <1>4 DEF Unfolds, Named

\* A thread that is done with its first step advances.
LEMMA PopAdvances ==
  ASSUME TypesInv, NEW t \in Threads, todo[t] # <<>>, Unfold(t, <<>>),
         history \subseteq history'
  PROVE  Advances(t, <<>>)
BY FitsNothing, AdvancesWell DEF Unfold

\* The threads of loops start.
LoopNames == {"messageLoop", "heartbeatLoop", "beatLoop"}

Launch(loops) ==
  /\ DOMAIN loops \subseteq Workers
  /\ \A u \in DOMAIN loops : loops[u] \in Methods /\ loops[u][1] \in LoopNames

\* The main thread goes on, and they do.
Launched(loops) ==
  /\ todo' \in [Threads -> Seq(Items)]
  /\ Spliced(todo'[App], <<>>, todo[App])
  /\ \A u \in DOMAIN loops : todo'[u] = <<Call(loops[u])>>
  /\ \A u \in Workers \ DOMAIN loops : todo'[u] = todo[u]

\* Start, as far as the steps are concerned.
LEMMA StartLaunches ==
  ASSUME TypesInv, todo[App] # <<>>, NEW loops, Launch(loops), Start(App, loops)
  PROVE  Launched(loops)
<1> DEFINE q == todo[App]
<1>1. /\ q \in Seq(Items) /\ q # <<>>
      /\ App \in Threads /\ App \notin Workers /\ Workers \subseteq Threads
  BY ThreadTypes DEF TypesInv
<1>2. /\ todo'[App] = Tail(q)
      /\ \A u \in DOMAIN loops : todo'[u] = <<Call(loops[u])>>
      /\ \A u \in Workers \ DOMAIN loops : todo'[u] = todo[u]
      /\ todo' \in [Threads -> {todo'[u] : u \in Threads}]
  BY <1>1 DEF Start, Launch
<1>3. Spliced(<<>> \o Tail(q), <<>>, q) /\ <<>> \o Tail(q) = Tail(q)
  <2>1. <<>> \in Seq(Items) /\ Tail(q) \in Seq(Items)
    BY <1>1
  <2>2. Spliced(<<>> \o Tail(q), <<>>, q)
    BY <1>1, <2>1, Splice
  <2>3. <<>> \o Tail(q) = Tail(q)
    BY <2>1, ConcatEmptySeq
  <2> QED
    BY <2>2, <2>3
<1>4. Spliced(todo'[App], <<>>, q)
  BY <1>2, <1>3
<1>5. ASSUME NEW u \in Threads PROVE todo'[u] \in Seq(Items)
  <2>1. CASE u = App
    BY <1>4, <2>1 DEF Spliced
  <2>2. CASE u \in DOMAIN loops
    <3>1. Call(loops[u]) \in Items
      BY <2>2 DEF Launch, Items, Call
    <3>2. todo'[u] = <<Call(loops[u])>>
      BY <1>2, <2>2
    <3> DEFINE m == Call(loops[u])
    <3> HIDE DEF m
    <3>3. m \in Items /\ todo'[u] = <<m>>
      BY <3>1, <3>2 DEF m
    <3> QED
      BY <3>3
  <2>3. CASE u \in Workers \ DOMAIN loops
    BY <1>1, <1>2, <2>3 DEF TypesInv
  <2> QED
    BY <2>1, <2>2, <2>3 DEF Threads
<1>6. todo' \in [Threads -> Seq(Items)]
  BY <1>2, <1>5
<1> QED
  BY <1>2, <1>4, <1>6 DEF Launched

\* A new thread has what is invariant of its steps.
LEMMA LoopStatic ==
  ASSUME NEW u \in Workers, NEW m \in Methods, m[1] \in LoopNames, todo'[u] = <<Call(m)>>
  PROVE  ThreadStatic(u)'
<1> DEFINE s == <<Call(m)>>
<1>1. Closed(s) /\ Nested(s) /\ DOMAIN s = {1} /\ s[1] = Call(m)
  BY FitsCall
<1>2. Quiet(Call(m)) /\ Rank(Call(m)) >= 3
  BY DEF LoopNames, Quiet, Named, Call, Rank, MethodRank
<1> HIDE DEF s
<1>3. \A i \in DOMAIN s : Quiet(s[i]) /\ OfWorker(s[i]) /\ Rank(s[i]) >= 3
  BY <1>1, <1>2 DEF OfWorker
<1>4. u # App
  BY ThreadTypes
<1>5. todo'[u] = s
  BY DEF s
<1> QED
  BY <1>1, <1>3, <1>4, <1>5 DEF ThreadStatic

\* So does one that has nothing to do.
LEMMA IdleStatic ==
  ASSUME NEW u, todo'[u] = <<>>
  PROVE  ThreadStatic(u)'
<1>1. /\ Closed(<<>>) /\ JoinsFirst(<<>>) /\ StartsOnly(<<>>) /\ ConnectedLater(<<>>)
      /\ Nested(<<>>)
  BY DEF Closed, JoinsFirst, StartsOnly, ConnectedLater, Nested
<1> QED
  BY <1>1 DEF ThreadStatic

\* Starting threads keeps what is invariant of all.
LEMMA LaunchStatic ==
  ASSUME TypesInv, StaticInv, NEW loops, Launch(loops), Launched(loops),
         UNCHANGED process, history \subseteq history'
  PROVE  StaticInv'
<1>1. App \in Threads /\ Workers \subseteq Threads
  BY ThreadTypes
<1>2. ThreadStatic(App)'
  <2>1. FitsWell(todo[App][1], <<>>)
    BY FitsNothing
  <2> QED
    BY <1>1, <2>1, StaticSpliced DEF StaticInv, Launched, FitsWell
<1>3. ASSUME NEW u \in Workers PROVE ThreadStatic(u)'
  <2>1. CASE u \in DOMAIN loops
    BY <2>1, LoopStatic DEF Launch, Launched
  <2>2. CASE u \notin DOMAIN loops
    BY <1>1, <2>2, StaticKept DEF StaticInv, Launched
  <2> QED
    BY <2>1, <2>2
<1> QED
  BY <1>2, <1>3 DEF StaticInv, Threads

\* So does the end of the process.
LEMMA EndStatic ==
  ASSUME NEW how, End(how)
  PROVE  StaticInv' /\ todo' \in [Threads -> Seq(Items)] /\ \A t \in Threads : todo'[t] = <<>>
<1>1. \A t \in Threads : todo'[t] = <<>>
  BY DEF End
<1>2. todo' \in [Threads -> Seq(Items)]
  BY DEF End
<1> QED
  BY <1>1, <1>2, IdleStatic DEF StaticInv

\* What follows place c of a sequence.
LEMMA Suffix ==
  ASSUME NEW q \in Seq(Items), NEW c \in DOMAIN q
  PROVE  LET r == SubSeq(q, c + 1, Len(q))
         IN /\ r \in Seq(Items) /\ DOMAIN r = 1 .. Len(q) - c
            /\ \A i \in 1 .. Len(q) - c : c + i \in DOMAIN q /\ r[i] = q[c + i]
<1> DEFINE m == c + 1
           n == Len(q)
           r == SubSeq(q, m, n)
<1>1. n \in Nat /\ m \in Int /\ c \in 1 .. n /\ m = c + 1 /\ \A i \in m .. n : q[i] \in Items
  OBVIOUS
<1> HIDE DEF m, n
<1>2. /\ r \in Seq(Items) /\ Len(r) = IF m <= n THEN n - m + 1 ELSE 0
      /\ \A i \in 1 .. n - m + 1 : r[i] = q[m + i - 1]
  <2>1. n \in Int
    BY <1>1
  <2> QED
    BY <1>1, <2>1, SubSeqProperties
<1> HIDE DEF r
<1>3. Len(r) = n - c /\ DOMAIN r = 1 .. Len(r)
  BY <1>1, <1>2
<1>4. \A i \in 1 .. n - c : c + i \in DOMAIN q /\ r[i] = q[c + i]
  <2> SUFFICES ASSUME NEW i \in 1 .. n - c PROVE c + i \in DOMAIN q /\ r[i] = q[c + i]
    OBVIOUS
  <2>1. i \in 1 .. n - m + 1 /\ m + i - 1 = c + i /\ c + i \in 1 .. n
    BY <1>1
  <2> QED
    BY <1>2, <2>1 DEF n
<1> QED
  BY <1>2, <1>3, <1>4 DEF m, n, r

\* A worker that joined itself goes on behind the catch.
LEMMA SuffixStatic ==
  ASSUME TypesInv, NEW t \in Workers, ThreadStatic(t), NEW c \in DOMAIN todo[t],
         todo[t][1][1] = "join",
         todo'[t] = SubSeq(todo[t], c + 1, Len(todo[t])), UNCHANGED history
  PROVE  ThreadStatic(t)' /\ todo'[t] \in Seq(Items)
<1> DEFINE q == todo[t]
           r == SubSeq(todo[t], c + 1, Len(todo[t]))
           n == Len(q)
<1>1. q \in Seq(Items) /\ n \in Nat /\ DOMAIN q = 1 .. n /\ c \in 1 .. n
  BY ThreadTypes DEF TypesInv
<1>2. /\ r \in Seq(Items) /\ DOMAIN r = 1 .. n - c
      /\ \A i \in 1 .. n - c : c + i \in DOMAIN q /\ r[i] = q[c + i]
  BY <1>1, Suffix
<1> HIDE DEF r
<1>3. t # App /\ Workers \subseteq Threads
  BY ThreadTypes
<1>4. Rank(q[1]) = 2 /\ ~Quiet(q[1]) /\ 1 \in DOMAIN q
  BY <1>1 DEF Rank, Quiet, Named
<1>5. "reentry" \in history /\ "unsubscribed" \in history
  BY <1>4 DEF ThreadStatic
<1>6. Closed(r)
  <2> SUFFICES ASSUME NEW i \in DOMAIN r, NEW l \in Locks, r[i] = Acquire(l)
               PROVE  \E k \in DOMAIN r : i < k /\ r[k] = Release(l)
    BY DEF Closed
  <2>1. PICK k \in DOMAIN q : c + i < k /\ q[k] = Release(l)
    BY <1>2 DEF ThreadStatic, Closed
  <2>2. k - c \in DOMAIN r /\ i < k - c /\ c + (k - c) = k
    BY SMTT(30), <1>1, <1>2, <2>1
  <2>3. r[k - c] = q[c + (k - c)]
    BY <1>2, <2>2
  <2> QED
    BY <2>1, <2>2, <2>3
<1>7. \A i \in DOMAIN r : OfWorker(r[i])
  BY <1>2 DEF ThreadStatic
<1>8. todo'[t] = r
  BY DEF r
<1> QED
  BY <1>2, <1>3, <1>5, <1>6, <1>7, <1>8 DEF ThreadStatic

\* disconnect() of the publisher unfolds to a join.
LEMMA AwaitFits ==
  LET h == Call(Client("disconnectPublisher"))
      s == <<Await(Beat)>>
  IN FitsWell(h, s) /\ DOMAIN s = {1} /\ s[1] = Await(Beat)
<1> DEFINE h == Call(Client("disconnectPublisher"))
           a == Await(Beat)
           s == <<a>>
<1>1. a \in Items
  BY ThreadTypes DEF Items, Await
<1>2. s \in Seq(Items) /\ DOMAIN s = {1} /\ s[1] = a
  BY <1>1
<1>3. /\ a[1] = "join" /\ ~Starter(a) /\ ~Finishes(a) /\ Rank(a) = 2
  BY DEF Await, Starter, Finishes, Named, Rank
<1>4. /\ h[1] = "call" /\ ~OfWorker(h) /\ ~Quiet(h) /\ ~OfStart(h) /\ Rank(h) = 2
      /\ Named(h, {"disconnectPublisher", "disconnectSubscriber"})
      /\ a # Call(Client("startPublisher"))
  BY DEF Call, Await, Client, OfWorker, Quiet, OfStart, Starter, Named, Rank, MethodRank,
         Acquire, Release
<1> HIDE DEF s, h, a
<1>5. Nested(s) /\ JoinsFirst(s) /\ ConnectedLater(s)
  BY <1>2, <1>3, <1>4, NestedFree DEF JoinsFirst, ConnectedLater
<1>6. FitsWell(h, s)
  BY <1>2, <1>3, <1>4, <1>5, NestedClosed DEF FitsWell, Fits, InOrder, StaysQuiet
<1> QED
  BY <1>2, <1>6 DEF s, h, a

AwaitReaders(x) == <<Await(<<"message", x>>), Await(<<"watch", x>>)>>

\* disconnect() of a subscriber unfolds to two.
LEMMA AwaitReadersFits ==
  ASSUME NEW x \in Exchanges
  PROVE  LET h == Call(<<"disconnectSubscriber", x>>)
             s == AwaitReaders(x)
         IN FitsWell(h, s) /\ DOMAIN s = {1, 2}
            /\ s[1] = Await(<<"message", x>>) /\ s[2] = Await(<<"watch", x>>)
<1> DEFINE h == Call(<<"disconnectSubscriber", x>>)
           a == Await(<<"message", x>>)
           b == Await(<<"watch", x>>)
           s == AwaitReaders(x)
<1>1. a \in Items /\ b \in Items
  BY DEF Items, Await, Workers
<1>2. s \in Seq(Items) /\ DOMAIN s = {1, 2} /\ s[1] = a /\ s[2] = b
  BY <1>1 DEF AwaitReaders
<1>3. \A k \in {a, b} : k[1] = "join" /\ ~Starter(k) /\ ~Finishes(k) /\ Rank(k) = 2
                        /\ OfWorker(k) /\ k # Call(Client("startPublisher"))
  BY DEF Await, Starter, Finishes, Named, Rank, OfWorker, Beat, Client, Call
<1>4. /\ h[1] = "call" /\ ~Quiet(h) /\ ~OfStart(h) /\ Rank(h) = 2
      /\ Named(h, {"disconnectPublisher", "disconnectSubscriber"})
  BY DEF Call, Client, Quiet, OfStart, Starter, Named, Rank, MethodRank, Acquire, Release
<1> HIDE DEF s, h, a, b
<1>5. \A i \in DOMAIN s : s[i] \in {a, b}
  BY <1>2
<1>6. \A i \in DOMAIN s : s[i][1] = "join" /\ ~Starter(s[i]) /\ ~Finishes(s[i])
        /\ Rank(s[i]) = 2 /\ OfWorker(s[i]) /\ s[i] # Call(Client("startPublisher"))
  BY <1>3, <1>5
<1>7. Nested(s) /\ ConnectedLater(s)
  BY <1>6, NestedFree DEF ConnectedLater
<1>8. JoinsFirst(s)
  BY <1>2, <1>6 DEF JoinsFirst
<1>9. FitsWell(h, s)
  BY <1>2, <1>4, <1>6, <1>7, <1>8, NestedClosed DEF FitsWell, Fits, InOrder, StaysQuiet
<1> QED
  BY <1>2, <1>9 DEF s, h, a, b

\* What StopPublisher does.
LEMMA StopPublisherAdvances ==
  ASSUME TypesInv, StaticInv, NEW t \in Threads, StopPublisher(t)
  PROVE  /\ t = App /\ todo[t][1] = Call(Client("disconnectPublisher"))
         /\ \/ publisher.cleanup_started /\ Advances(t, <<>>) /\ publisher' = publisher
            \/ /\ ~publisher.cleanup_started /\ Advances(t, <<Await(Beat)>>)
               /\ publisher' = [running |-> FALSE, cleanup_started |-> TRUE]
<1> DEFINE m == Client("disconnectPublisher")
<1>1. Calls(t, m) /\ UNCHANGED history
  BY DEF StopPublisher, Does
<1>2. todo[t] # <<>> /\ todo[t][1] = Call(m)
  BY <1>1, CallsFirst
<1>3. ~OfWorker(Call(m))
  BY DEF Call, Client, OfWorker, Quiet, Named
<1>4. t = App
  BY <1>2, <1>3, OnlyApp
<1>5. \A s : Unfold(t, s) /\ FitsWell(Call(m), s) => Advances(t, s)
  BY <1>1, <1>2, AdvancesWell DEF Unfold
<1>6. FitsWell(Call(m), <<>>) /\ FitsWell(Call(m), <<Await(Beat)>>)
  BY FitsNothing, AwaitFits
<1> QED
  BY <1>2, <1>4, <1>5, <1>6 DEF StopPublisher, Does

\* What StopSubscriber does.
LEMMA StopSubscriberAdvances ==
  ASSUME TypesInv, NEW t \in Threads, StopSubscriber(t)
  PROVE  \E x \in Exchanges :
           /\ todo[t][1] = Call(<<"disconnectSubscriber", x>>)
           /\ \/ /\ ~subscriber[x].present \/ subscriber[x].cleanup_started
                 /\ Advances(t, <<>>) /\ subscriber' = subscriber
              \/ /\ subscriber[x].present /\ ~subscriber[x].cleanup_started
                 /\ Advances(t, AwaitReaders(x))
                 /\ subscriber' = [subscriber EXCEPT ![x] =
                      [present |-> TRUE, running |-> FALSE, cleanup_started |-> TRUE]]
<1>1. PICK x \in Exchanges :
        StoppedBefore(t, x) \/ StopsNow(t, x, FALSE, AwaitReaders(x))
  BY DEF StopSubscriber, AwaitReaders
<1> DEFINE m == <<"disconnectSubscriber", x>>
<1>2. Calls(t, m) /\ UNCHANGED history
  BY <1>1 DEF StoppedBefore, StopsNow, Does, StopSubscriber
<1>3. todo[t] # <<>> /\ todo[t][1] = Call(m)
  BY <1>2, CallsFirst
<1>4. \A s : Unfold(t, s) /\ FitsWell(Call(m), s) => Advances(t, s)
  BY <1>2, <1>3, AdvancesWell DEF Unfold
<1>5. FitsWell(Call(m), <<>>) /\ FitsWell(Call(m), AwaitReaders(x))
  BY FitsNothing, AwaitReadersFits
<1> QED
  BY <1>1, <1>3, <1>4, <1>5 DEF StoppedBefore, StopsNow, Does

\* connect() of the publisher and subscribeToExchange(), which only the main thread calls.
BeatLoop == [u \in {Beat} |-> Client("beatLoop")]

ReaderLoops(x) ==
  [u \in Readers(x) |-> <<IF u[1] = "message" THEN "messageLoop" ELSE "heartbeatLoop", x>>]

\* The threads that connect() starts have a loop to do.
LEMMA LoopsLaunch ==
  /\ Launch(BeatLoop)
  /\ \A x \in Exchanges : Launch(ReaderLoops(x))
<1>1. Client("beatLoop") \in Methods /\ Client("beatLoop")[1] \in LoopNames
  BY DEF Methods, ClientMethods, Client, LoopNames
<1>2. Launch(BeatLoop)
  BY <1>1, ThreadTypes DEF Launch, BeatLoop
<1>3. ASSUME NEW x \in Exchanges PROVE Launch(ReaderLoops(x))
  <2>1. \A n \in {"messageLoop", "heartbeatLoop"} :
          <<n, x>> \in Methods /\ <<n, x>>[1] \in LoopNames
    BY DEF Methods, SubscriberMethods, LoopNames
  <2> QED
    BY <2>1, ThreadTypes DEF Launch, ReaderLoops
<1> QED
  BY <1>2, <1>3

\* What StartPublisher does.
LEMMA StartPublisherSteps ==
  ASSUME TypesInv, StaticInv, NEW t \in Threads, StartPublisher(t)
  PROVE  /\ t = App /\ todo[t][1] = Call(Client("startPublisher"))
         /\ publisher' = [publisher EXCEPT !.running = TRUE]
         /\ history' = IF publisher.cleanup_started THEN history \cup {"reconnected"}
                       ELSE history
         /\ \/ publisher.running /\ Advances(t, <<>>) /\ UNCHANGED <<joinable, process>>
            \/ ~publisher.running /\ Beat \in joinable /\ Terminate /\ UNCHANGED joinable
            \/ /\ ~publisher.running /\ Beat \notin joinable /\ Launched(BeatLoop)
               /\ joinable' = joinable \cup {Beat} /\ UNCHANGED process
<1> DEFINE m == Client("startPublisher")
<1>1. Calls(t, m) /\ history \subseteq history'
  BY DEF StartPublisher, ComeUp
<1>2. todo[t] # <<>> /\ todo[t][1] = Call(m)
  BY <1>1, CallsFirst
<1>3. ~OfWorker(Call(m))
  BY DEF Call, Client, OfWorker, Quiet, Named
<1>4. t = App
  BY <1>2, <1>3, OnlyApp
<1>5. Unfold(t, <<>>) => Advances(t, <<>>)
  BY <1>1, <1>2, PopAdvances
<1>6. Start(t, [u \in {Beat} |-> Client("beatLoop")]) => Launched(BeatLoop)
  BY <1>2, <1>4, LoopsLaunch, StartLaunches DEF BeatLoop
<1>7. history' = IF publisher.cleanup_started THEN history \cup {"reconnected"} ELSE history
  BY DEF StartPublisher, ComeUp
<1> QED
  BY <1>2, <1>4, <1>5, <1>6, <1>7 DEF StartPublisher

\* What StartSubscriber does.
LEMMA StartSubscriberSteps ==
  ASSUME TypesInv, StaticInv, NEW t \in Threads, StartSubscriber(t)
  PROVE  /\ t = App
         /\ \E x \in Exchanges :
              /\ todo[t][1] = Call(<<"startSubscriber", x>>)
              /\ \/ Advances(t, <<>>) /\ UNCHANGED <<joinable, subscriber>>
                 \/ /\ ~subscriber[x].present /\ Launched(ReaderLoops(x))
                    /\ subscriber' = [subscriber EXCEPT ![x] =
                         [present |-> TRUE, running |-> TRUE, cleanup_started |-> FALSE]]
                    /\ joinable' = joinable \cup Readers(x)
<1>1. PICK x \in Exchanges :
       \/ Does(t, <<"startSubscriber", x>>, <<>>) /\ UNCHANGED <<joinable, subscriber>>
       \/ /\ Calls(t, <<"startSubscriber", x>>)
          /\ ~subscriber[x].present
          /\ subscriber' = [subscriber EXCEPT ![x] = [present |-> TRUE, running |-> TRUE,
                                                      cleanup_started |-> FALSE]]
          /\ joinable' = joinable \cup Readers(x)
          /\ Start(t, ReaderLoops(x))
  BY DEF StartSubscriber, ReaderLoops
<1> DEFINE m == <<"startSubscriber", x>>
<1>2. Calls(t, m) /\ UNCHANGED history
  BY <1>1 DEF Does, StartSubscriber
<1>3. todo[t] # <<>> /\ todo[t][1] = Call(m)
  BY <1>2, CallsFirst
<1>4. ~OfWorker(Call(m))
  BY DEF Call, Client, OfWorker, Quiet, Named
<1>5. t = App
  BY <1>3, <1>4, OnlyApp
<1>6. Unfold(t, <<>>) => Advances(t, <<>>)
  BY <1>2, <1>3, PopAdvances
<1>7. Start(t, ReaderLoops(x)) => Launched(ReaderLoops(x))
  BY <1>3, <1>5, LoopsLaunch, StartLaunches
<1> QED
  BY <1>1, <1>3, <1>5, <1>6, <1>7 DEF Does

\* What Erase does.
LEMMA EraseSteps ==
  ASSUME TypesInv, NEW t \in Threads, Erase(t)
  PROVE  \E S \in SUBSET Exchanges :
           /\ \/ \E x \in Exchanges : todo[t][1] = Call(<<"erase", x>>) /\ S = {x}
              \/ todo[t][1] = Call(Client("clear")) /\ S = Exchanges /\ ~OfWorker(todo[t][1])
           /\ subscriber' = [x \in Exchanges |->
                               IF x \in S THEN NoSubscriber ELSE subscriber[x]]
           /\ UNCHANGED <<owner, joinable, publisher, signalled, lifecycle, history>>
           /\ \/ /\ \A x \in S : Readers(x) \cap joinable = {}
                 /\ Advances(t, <<>>) /\ UNCHANGED process
              \/ (\E x \in S : Readers(x) \cap joinable # {}) /\ Terminate
           /\ todo[t] # <<>>
<1>1. PICK S \in SUBSET Exchanges, m \in Methods :
        /\ Calls(t, m) /\ Remove(t, S)
        /\ \/ \E x \in Exchanges : m = <<"erase", x>> /\ S = {x}
           \/ m = Client("clear") /\ S = Exchanges
  BY CallsFirst DEF Erase
<1>2. todo[t] # <<>> /\ todo[t][1] = Call(m)
  BY <1>1, CallsFirst
<1>3. UNCHANGED <<owner, joinable, publisher, signalled, lifecycle, history>>
  BY <1>1 DEF Remove
<1>4. Unfold(t, <<>>) => Advances(t, <<>>)
  BY <1>2, <1>3, PopAdvances
<1>5. ~OfWorker(Call(Client("clear")))
  BY DEF Call, Client, OfWorker, Quiet, Named
<1> QED
  BY <1>1, <1>2, <1>3, <1>4, <1>5 DEF Remove

\* What Return does.
LEMMA ReturnSteps ==
  ASSUME TypesInv, StaticInv, NEW t \in Threads, Return(t)
  PROVE  /\ t = App /\ Advances(t, <<>>)
         /\ \/ todo[t][1] = Call(Client("connected")) /\ lifecycle' = "connected"
            \/ todo[t][1] = Call(Client("disconnected")) /\ lifecycle' = "disconnected"
<1>1. PICK n \in {"connected", "disconnected"} : Calls(t, Client(n))
  BY DEF Return
<1>2. todo[t] # <<>> /\ todo[t][1] = Call(Client(n)) /\ UNCHANGED history
  BY <1>1, CallsFirst DEF Return
<1>3. Advances(t, <<>>)
  BY <1>2, PopAdvances DEF Return
<1>4. ~OfWorker(Call(Client(n)))
  BY DEF Call, Client, OfWorker, Quiet, Named
<1>5. lifecycle' = n
  <2>1. What(t) = Client(n)
    BY <1>1 DEF Calls, What
  <2> QED
    BY <2>1 DEF Return, Client
<1> QED
  BY <1>2, <1>3, <1>4, <1>5, OnlyApp

\* What Unmap does.
LEMMA UnmapSteps ==
  ASSUME TypesInv, StaticInv, NEW t \in Threads, Unmap(t)
  PROVE  t = App /\ Advances(t, <<>>) /\ todo[t][1] = Call(Client("unmap"))
<1>1. Calls(t, Client("unmap")) /\ Unfold(t, <<>>) /\ UNCHANGED history
  BY DEF Unmap, Does
<1>2. todo[t] # <<>> /\ todo[t][1] = Call(Client("unmap"))
  BY <1>1, CallsFirst
<1>3. Advances(t, <<>>)
  BY <1>1, <1>2, PopAdvances
<1>4. ~OfWorker(Call(Client("unmap")))
  BY DEF Call, Client, OfWorker, Quiet, Named
<1> QED
  BY <1>2, <1>3, <1>4, OnlyApp

\* What Destroy does.
LEMMA DestroySteps ==
  ASSUME TypesInv, StaticInv, NEW t \in Threads, Destroy(t)
  PROVE  /\ t = App /\ todo[t][1] = Call(Client("destroy")) /\ 1 \in DOMAIN todo[t]
         /\ (joinable = {} /\ End("ended")) \/ (joinable # {} /\ Terminate)
<1>1. Calls(t, Client("destroy"))
  BY DEF Destroy
<1>2. todo[t] # <<>> /\ todo[t][1] = Call(Client("destroy")) /\ 1 \in DOMAIN todo[t]
  BY <1>1, CallsFirst
<1>3. ~OfWorker(Call(Client("destroy")))
  BY DEF Call, Client, OfWorker, Quiet, Named
<1> QED
  BY <1>2, <1>3, OnlyApp DEF Destroy

\* The kind of the first step.
LEMMA FirstItem ==
  ASSUME TypesInv, NEW t \in Threads, NEW k, At(t, k)
  PROVE  /\ todo[t] \in Seq(Items) /\ todo[t] # <<>> /\ 1 \in DOMAIN todo[t]
         /\ todo[t][1] \in Items /\ todo[t][1][1] = k /\ What(t) = todo[t][1][2]
BY FirstStep DEF TypesInv, At, What

\* What Lock does.
LEMMA LockSteps ==
  ASSUME TypesInv, NEW t \in Threads, Lock(t)
  PROVE  /\ \E l \in Locks :
              /\ todo[t][1] = Acquire(l) /\ owner[l] = NoThread
              /\ owner' = [owner EXCEPT ![l] = t]
         /\ Advances(t, <<>>)
         /\ UNCHANGED <<joinable, publisher, subscriber, process, signalled, lifecycle,
                        history>>
<1>1. /\ todo[t] # <<>> /\ todo[t][1] \in Items /\ todo[t][1][1] = "lock"
      /\ What(t) = todo[t][1][2]
  BY FirstItem DEF Lock
<1>2. PICK l \in Locks : todo[t][1] = Acquire(l)
  BY <1>1 DEF Items, Caught, Acquire
<1>3. What(t) = l
  BY <1>1, <1>2 DEF Acquire
<1>4. UNCHANGED <<joinable, publisher, subscriber, process, signalled, lifecycle, history>>
  BY DEF Lock, flags
<1>5. Advances(t, <<>>)
  BY <1>1, <1>4, PopAdvances DEF Lock
<1> QED
  BY <1>2, <1>3, <1>4, <1>5 DEF Lock

\* What Unlock does.
LEMMA UnlockSteps ==
  ASSUME TypesInv, NEW t \in Threads, Unlock(t)
  PROVE  /\ \E l \in Locks :
              todo[t][1] = Release(l) /\ owner' = [owner EXCEPT ![l] = NoThread]
         /\ Advances(t, <<>>)
         /\ UNCHANGED <<joinable, publisher, subscriber, process, signalled, lifecycle,
                        history>>
<1>1. /\ todo[t] # <<>> /\ todo[t][1] \in Items /\ todo[t][1][1] = "unlock"
      /\ What(t) = todo[t][1][2]
  BY FirstItem DEF Unlock
<1>2. PICK l \in Locks : todo[t][1] = Release(l)
  BY <1>1 DEF Items, Caught, Release
<1>3. What(t) = l
  BY <1>1, <1>2 DEF Release
<1>4. UNCHANGED <<joinable, publisher, subscriber, process, signalled, lifecycle, history>>
  BY DEF Unlock, flags
<1>5. Advances(t, <<>>)
  BY <1>1, <1>4, PopAdvances DEF Unlock
<1> QED
  BY <1>2, <1>3, <1>4, <1>5 DEF Unlock

\* What Join does.
LEMMA JoinSteps ==
  ASSUME TypesInv, NEW t \in Threads, Join(t)
  PROVE  /\ \E u \in Workers :
              /\ u # t /\ todo[t][1] = Await(u) /\ (u \in joinable => Idle(u))
              /\ joinable' = joinable \ {u}
         /\ Advances(t, <<>>)
         /\ UNCHANGED <<owner, publisher, subscriber, process, signalled, lifecycle, history>>
<1>1. /\ todo[t] # <<>> /\ todo[t][1] \in Items /\ todo[t][1][1] = "join"
      /\ What(t) = todo[t][1][2]
  BY FirstItem DEF Join
<1>2. PICK u \in Workers : todo[t][1] = Await(u)
  BY <1>1 DEF Items, Caught, Await
<1>3. What(t) = u
  BY <1>1, <1>2 DEF Await
<1>4. UNCHANGED <<owner, publisher, subscriber, process, signalled, lifecycle, history>>
  BY DEF Join
<1>5. Advances(t, <<>>)
  BY <1>1, <1>4, PopAdvances DEF Join
<1> QED
  BY <1>2, <1>3, <1>4, <1>5 DEF Join

\* What JoinItself does: only a worker from which a callback unsubscribed comes to it.
LEMMA JoinItselfSteps ==
  ASSUME TypesInv, StaticInv, NEW t \in Threads, JoinItself(t)
  PROVE  /\ t \in Workers /\ t # App /\ todo[t] # <<>>
         /\ todo' \in [Threads -> Seq(Items)]
         /\ \A u \in Threads \ {t} : todo'[u] = todo[u]
         /\ ThreadStatic(t)'
         /\ \E c \in DOMAIN todo[t] :
              /\ DOMAIN todo'[t] = 1 .. Len(todo[t]) - c
              /\ DOMAIN todo[t] = 1 .. Len(todo[t]) /\ Len(todo[t]) \in Nat
              /\ \A i \in 1 .. Len(todo[t]) - c : todo'[t][i] = todo[t][c + i]
              /\ owner' = [l \in Locks |->
                             IF \E i \in 1 .. c : todo[t][i] = Release(l) THEN NoThread
                             ELSE owner[l]]
         /\ UNCHANGED <<joinable, publisher, subscriber, process, signalled, lifecycle,
                        history>>
         /\ "reentry" \in history /\ "unsubscribed" \in history
<1>1. /\ todo[t] \in Seq(Items) /\ todo[t] # <<>> /\ 1 \in DOMAIN todo[t]
      /\ todo[t][1] \in Items /\ todo[t][1][1] = "join" /\ What(t) = todo[t][1][2]
  BY FirstItem DEF JoinItself
<1>2. PICK u \in Workers : todo[t][1] = Await(u)
  BY <1>1 DEF Items, Caught, Await
<1>3. t \in Workers /\ t # App
  <2>1. What(t) = u /\ What(t) = t
    BY <1>1, <1>2 DEF Await, JoinItself
  <2> QED
    BY <2>1, ThreadTypes
<1>4. PICK c \in DOMAIN todo[t] :
       /\ todo' = [todo EXCEPT ![t] = SubSeq(@, c + 1, Len(@))]
       /\ owner' = [l \in Locks |->
                      IF \E i \in 1 .. c : todo[t][i] = Release(l) THEN NoThread ELSE owner[l]]
  BY DEF JoinItself
<1>5. /\ todo'[t] = SubSeq(todo[t], c + 1, Len(todo[t]))
      /\ \A v \in Threads \ {t} : todo'[v] = todo[v]
  BY <1>4 DEF TypesInv
<1>6. UNCHANGED <<joinable, publisher, subscriber, process, signalled, lifecycle, history>>
  BY DEF JoinItself, flags
<1>7. ThreadStatic(t)' /\ todo'[t] \in Seq(Items)
  BY <1>1, <1>3, <1>5, <1>6, SuffixStatic DEF StaticInv
<1>8. todo' \in [Threads -> Seq(Items)]
  BY <1>4, <1>7 DEF TypesInv
<1>9. /\ DOMAIN todo'[t] = 1 .. Len(todo[t]) - c
      /\ \A i \in 1 .. Len(todo[t]) - c : todo'[t][i] = todo[t][c + i]
  <2>1. todo[t] \in Seq(Items)
    BY <1>1
  <2>2. LET r == SubSeq(todo[t], c + 1, Len(todo[t]))
        IN /\ DOMAIN r = 1 .. Len(todo[t]) - c
           /\ \A i \in 1 .. Len(todo[t]) - c : r[i] = todo[t][c + i]
    BY <2>1, Suffix
  <2> QED
    BY <1>5, <2>2
<1>10. "reentry" \in history /\ "unsubscribed" \in history
  <2>1. Rank(todo[t][1]) = 2 /\ ~Quiet(todo[t][1])
    BY <1>1 DEF Rank, Quiet, Named
  <2> QED
    BY <1>1, <1>3, <2>1 DEF StaticInv, ThreadStatic
<1>11. DOMAIN todo[t] = 1 .. Len(todo[t]) /\ Len(todo[t]) \in Nat
  BY <1>1
<1>12. owner' = [l \in Locks |->
                  IF \E i \in 1 .. c : todo[t][i] = Release(l) THEN NoThread ELSE owner[l]]
  BY <1>4
<1>13. \E d \in DOMAIN todo[t] :
         /\ DOMAIN todo'[t] = 1 .. Len(todo[t]) - d
         /\ DOMAIN todo[t] = 1 .. Len(todo[t]) /\ Len(todo[t]) \in Nat
         /\ \A i \in 1 .. Len(todo[t]) - d : todo'[t][i] = todo[t][d + i]
         /\ owner' = [l \in Locks |->
                        IF \E i \in 1 .. d : todo[t][i] = Release(l) THEN NoThread
                        ELSE owner[l]]
  <2> WITNESS c \in DOMAIN todo[t]
  <2> QED
    BY <1>9, <1>11, <1>12
<1> QED
  BY <1>1, <1>3, <1>5, <1>6, <1>7, <1>8, <1>10, <1>13

\* The application calls the client, ends, or is interrupted: the main thread has q to do.
Commanded(q) ==
  /\ process = "running" /\ process' = "running"
  /\ todo' \in [Threads -> Seq(Items)] /\ todo'[App] = q
  /\ \A u \in Workers : todo'[u] = todo[u]
  /\ UNCHANGED <<owner, joinable, publisher, subscriber, process, lifecycle>>
  /\ history \subseteq history' /\ history' \subseteq history \cup {"untidy", "interrupted"}
  /\ q \in Seq(Items)
  /\ Closed(q) /\ JoinsFirst(q) /\ StartsOnly(q) /\ ConnectedLater(q) /\ Nested(q)

\* The sequences that the main thread is given are well formed.
LEMMA CommandSequences ==
  ASSUME NEW m \in Methods, m # Client("startPublisher"),
         NEW q, \/ q = <<Call(m)>>
                \/ m = Client("disconnect") /\ q = <<Call(m), Call(Client("exit"))>>
  PROVE  /\ q \in Seq(Items) /\ 1 \in DOMAIN q /\ q[1] = Call(m)
         /\ Closed(q) /\ JoinsFirst(q) /\ StartsOnly(q) /\ ConnectedLater(q) /\ Nested(q)
<1> DEFINE a == Call(m)
           b == Call(Client("exit"))
<1>1. /\ a \in Items /\ b \in Items /\ a[1] = "call" /\ b[1] = "call" /\ ~Starter(b)
      /\ \A k \in {a, b} : k # Call(Client("startPublisher"))
      /\ Starter(a) => OfStart(a)
      /\ m = Client("disconnect") => ~Starter(a)
  BY DEF Items, Call, Client, Methods, ClientMethods, Starter, Named, OfStart
<1> HIDE DEF a, b
<1>2. CASE q = <<a>>
  <2>1. q \in Seq(Items) /\ DOMAIN q = {1} /\ q[1] = a
    BY <1>1, <1>2
  <2>2. Nested(q) /\ JoinsFirst(q) /\ ConnectedLater(q) /\ StartsOnly(q)
    BY <1>1, <2>1, NestedFree DEF JoinsFirst, ConnectedLater, StartsOnly
  <2> QED
    BY <2>1, <2>2, NestedClosed DEF a
<1>3. CASE m = Client("disconnect") /\ q = <<a, b>>
  <2>1. q \in Seq(Items) /\ DOMAIN q = {1, 2} /\ q[1] = a /\ q[2] = b
    BY <1>1, <1>3
  <2>2. \A i \in DOMAIN q : q[i] = a \/ q[i] = b
    BY <2>1
  <2>3. Nested(q) /\ JoinsFirst(q) /\ ConnectedLater(q) /\ StartsOnly(q)
    BY <1>1, <1>3, <2>1, <2>2, NestedFree DEF JoinsFirst, ConnectedLater, StartsOnly
  <2> QED
    BY <2>1, <2>3, NestedClosed DEF a
<1> QED
  BY <1>2, <1>3 DEF a, b

\* What gives the main thread such a sequence leaves the rest alone.
LEMMA Commands ==
  ASSUME TypesInv, NEW m \in Methods, m # Client("startPublisher"),
         NEW q, \/ q = <<Call(m)>>
                \/ m = Client("disconnect") /\ q = <<Call(m), Call(Client("exit"))>>,
         process = "running", todo' = [todo EXCEPT ![App] = q],
         UNCHANGED <<owner, joinable, publisher, subscriber, process, lifecycle>>,
         history \subseteq history', history' \subseteq history \cup {"untidy", "interrupted"}
  PROVE  Commanded(q)
<1>1. /\ q \in Seq(Items)
      /\ Closed(q) /\ JoinsFirst(q) /\ StartsOnly(q) /\ ConnectedLater(q) /\ Nested(q)
  BY CommandSequences
<1>2. /\ todo' \in [Threads -> Seq(Items)] /\ todo'[App] = q
      /\ \A u \in Workers : todo'[u] = todo[u]
  BY <1>1, ThreadTypes DEF TypesInv
<1> QED
  BY <1>1, <1>2 DEF Commanded

\* What AppCall does.
LEMMA AppCallSteps ==
  ASSUME TypesInv, AppCall
  PROVE  /\ \E m \in AppCalls : Commanded(<<Call(m)>>)
         /\ Idle(App) /\ history' = history
<1>1. PICK m \in AppCalls : todo' = [todo EXCEPT ![App] = <<Call(m)>>]
  BY DEF AppCall
<1>2. m \in Methods /\ m # Client("startPublisher")
  BY <1>1 DEF AppCalls, Methods, SubscriberMethods, ClientMethods, Client
<1>3. UNCHANGED <<owner, joinable, publisher, subscriber, process, lifecycle, history>>
  BY DEF AppCall, flags
<1>4. Commanded(<<Call(m)>>)
  BY <1>1, <1>2, <1>3, Commands DEF AppCall
<1> QED
  BY <1>1, <1>3, <1>4 DEF AppCall

\* What AppReturns does.
LEMMA AppReturnsSteps ==
  ASSUME TypesInv, AppReturns
  PROVE  /\ Commanded(<<Call(Client("exit"))>>)
         /\ Idle(App)
         /\ history' = IF joinable = {} THEN history ELSE history \cup {"untidy"}
<1>1. Client("exit") \in Methods /\ Client("exit") # Client("startPublisher")
  BY DEF Methods, ClientMethods, Client
<1>2. /\ UNCHANGED <<owner, joinable, publisher, subscriber, process, lifecycle>>
      /\ history \subseteq history'
      /\ history' \subseteq history \cup {"untidy", "interrupted"}
  BY DEF AppReturns, ComeUp, flags
<1>3. Commanded(<<Call(Client("exit"))>>)
  BY <1>1, <1>2, Commands DEF AppReturns
<1> QED
  BY <1>3 DEF AppReturns, ComeUp

\* What Signal does.
LEMMA SignalSteps ==
  ASSUME TypesInv, Signal
  PROVE  /\ Commanded(<<Call(Client("disconnect")), Call(Client("exit"))>>)
         /\ history' = IF Idle(App) THEN history ELSE history \cup {"interrupted"}
<1>1. Client("disconnect") \in Methods /\ Client("disconnect") # Client("startPublisher")
  BY DEF Methods, ClientMethods, Client
<1>2. /\ UNCHANGED <<owner, joinable, publisher, subscriber, process, lifecycle>>
      /\ history \subseteq history'
      /\ history' \subseteq history \cup {"untidy", "interrupted"}
  BY DEF Signal, ComeUp
<1>3. Commanded(<<Call(Client("disconnect")), Call(Client("exit"))>>)
  BY <1>1, <1>2, Commands DEF Signal
<1> QED
  BY <1>3 DEF Signal, ComeUp

\* Such a sequence keeps what is invariant of all threads.
LEMMA CommandStatic ==
  ASSUME TypesInv, StaticInv, NEW q, Commanded(q)
  PROVE  StaticInv'
<1>1. App \notin Workers /\ Workers \subseteq Threads
  BY ThreadTypes
<1>2. ThreadStatic(App)'
  BY <1>1 DEF Commanded, ThreadStatic
<1>3. ASSUME NEW u \in Workers PROVE ThreadStatic(u)'
  BY <1>1, StaticKept DEF StaticInv, Commanded
<1> QED
  BY <1>2, <1>3 DEF StaticInv, Threads

-----------------------------------------------------------------------------
(***************************************************************************)
(* Which threads there are, and who holds a mutex.                         *)
(***************************************************************************)
Live == process \in {"running", "unmapped"}

ThreadInv ==
  /\ \A u \in Workers \ joinable : Idle(u)
  /\ Live => \A x \in Exchanges \ Present : Readers(x) \cap joinable = {}
  /\ ~Live => \A t \in Threads : Idle(t)

\* The holder of l has its release to do, and takes nothing earlier before that.
Held(l) ==
  owner[l] # NoThread =>
    /\ Has(todo[owner[l]], {Release(l)})
    /\ "reentry" \notin history => Under(todo[owner[l]], l, 0)

HeldInv == Live /\ "interrupted" \notin history => \A l \in Locks : Held(l)

\* The steps, as far as todo and the mutexes are concerned.
Onward(t, s) ==
  /\ Advances(t, s)
  /\ UNCHANGED owner
  /\ todo[t][1][1] # "unlock"
  /\ process' # process => /\ process = "running" /\ process' = "unmapped"
                           /\ ~OfStart(todo[t][1]) /\ t = App

Launching(loops) ==
  /\ Launch(loops) /\ Launched(loops)
  /\ \A u \in DOMAIN loops : Idle(u)
  /\ todo[App][1][1] # "unlock"
  /\ UNCHANGED <<owner, process>>
  /\ history \subseteq history'

Moves ==
  \/ \E t \in Threads : \E s : Onward(t, s)
  \/ \E t \in Threads : Lock(t) \/ Unlock(t) \/ JoinItself(t)
  \/ \E loops : Launching(loops)
  \/ \E how \in {"ended", "terminated"} : End(how)
  \/ \E q : Commanded(q) /\ (Idle(App) \/ "interrupted" \in history')
  \/ UNCHANGED vars

\* Every step of a thread is one of Moves.
LEMMA RunMoves ==
  ASSUME TypesInv, StaticInv, ThreadInv, NEW t \in Threads, Run(t)
  PROVE  Moves
<1>1. /\ \A m : Call(m)[1] # "unlock"
      /\ \A u : Await(u)[1] # "unlock"
  BY DEF Call, Await
<1>2. ASSUME Invoke(t) \/ ForAll(t) \/ Callback(t) \/ Leave(t) PROVE Moves
  <2>1. PICK s : Unfolds(t, s)
    BY <1>2, InvokeUnfolds, ForAllUnfolds, CallbackUnfolds, LeaveUnfolds
  <2>2. Onward(t, s)
    BY <2>1 DEF Unfolds, Onward
  <2> QED
    BY <2>2 DEF Moves
<1>3. ASSUME Join(t) PROVE Moves
  <2>1. Onward(t, <<>>)
    BY <1>1, <1>3, JoinSteps DEF Onward
  <2> QED
    BY <2>1 DEF Moves
<1>4. ASSUME StartPublisher(t) PROVE Moves
  <2>1. UNCHANGED owner /\ history \subseteq history'
    BY <1>4 DEF StartPublisher, ComeUp
  <2>2. CASE Advances(t, <<>>) /\ UNCHANGED process
    <3>1. Onward(t, <<>>)
      BY <1>1, <1>4, <2>1, <2>2, StartPublisherSteps DEF Onward
    <3> QED
      BY <3>1 DEF Moves
  <2>3. CASE Terminate
    BY <2>3 DEF Moves, Terminate
  <2>4. CASE Beat \notin joinable /\ Launched(BeatLoop) /\ UNCHANGED process
    <3>1. Idle(Beat) /\ DOMAIN BeatLoop = {Beat}
      BY <2>4, ThreadTypes DEF ThreadInv, BeatLoop
    <3>2. Launching(BeatLoop)
      BY <1>1, <1>4, <2>1, <2>4, <3>1, StartPublisherSteps, LoopsLaunch DEF Launching
    <3> QED
      BY <3>2 DEF Moves
  <2> QED
    BY <1>4, <2>2, <2>3, <2>4, StartPublisherSteps
<1>5. ASSUME StopPublisher(t) PROVE Moves
  <2>1. \E s : Advances(t, s) /\ todo[t][1] = Call(Client("disconnectPublisher"))
    BY <1>5, StopPublisherAdvances
  <2>2. UNCHANGED <<owner, process>>
    BY <1>5 DEF StopPublisher
  <2>3. \E s : Onward(t, s)
    BY <1>1, <2>1, <2>2 DEF Onward
  <2> QED
    BY <2>3 DEF Moves
<1>6. ASSUME StartSubscriber(t) PROVE Moves
  <2>1. UNCHANGED <<owner, process, history>>
    BY <1>6 DEF StartSubscriber
  <2>2. PICK x \in Exchanges :
          /\ todo[t][1] = Call(<<"startSubscriber", x>>)
          /\ \/ Advances(t, <<>>)
             \/ ~subscriber[x].present /\ Launched(ReaderLoops(x))
    BY <1>6, StartSubscriberSteps
  <2>3. CASE Advances(t, <<>>)
    <3>1. Onward(t, <<>>)
      BY <1>1, <2>1, <2>2, <2>3 DEF Onward
    <3> QED
      BY <3>1 DEF Moves
  <2>4. CASE ~subscriber[x].present /\ Launched(ReaderLoops(x))
    <3>1. Live
      <4>1. ~Idle(t)
        BY <1>6 DEF StartSubscriber, Does, Calls, Idle
      <4> QED
        BY <4>1 DEF ThreadInv
    <3>2. \A u \in Readers(x) : Idle(u) /\ DOMAIN ReaderLoops(x) = Readers(x)
      BY <2>4, <3>1, ThreadTypes DEF ThreadInv, Present, ReaderLoops
    <3>3. DOMAIN ReaderLoops(x) = Readers(x)
      BY DEF ReaderLoops
    <3>4. Launching(ReaderLoops(x))
      <4>1. t = App
        BY <1>6, StartSubscriberSteps
      <4> QED
        BY <1>1, <2>1, <2>2, <2>4, <3>2, <3>3, <4>1, LoopsLaunch DEF Launching
    <3> QED
      BY <3>4 DEF Moves
  <2> QED
    BY <2>2, <2>3, <2>4
<1>7. ASSUME StopSubscriber(t) PROVE Moves
  <2>1. \E s : \E x \in Exchanges :
          Advances(t, s) /\ todo[t][1] = Call(<<"disconnectSubscriber", x>>)
    BY <1>7, StopSubscriberAdvances
  <2>2. UNCHANGED <<owner, process>>
    BY <1>7 DEF StopSubscriber
  <2>3. \E s : Onward(t, s)
    BY <1>1, <2>1, <2>2 DEF Onward
  <2> QED
    BY <2>3 DEF Moves
<1>8. ASSUME Erase(t) PROVE Moves
  <2>1. /\ \E m : todo[t][1] = Call(m)
        /\ UNCHANGED owner
        /\ (Advances(t, <<>>) /\ UNCHANGED process) \/ Terminate
    BY <1>8, EraseSteps
  <2>2. CASE Advances(t, <<>>) /\ UNCHANGED process
    <3>1. Onward(t, <<>>)
      BY <1>1, <2>1, <2>2 DEF Onward
    <3> QED
      BY <3>1 DEF Moves
  <2>3. CASE Terminate
    BY <2>3 DEF Moves, Terminate
  <2> QED
    BY <2>1, <2>2, <2>3
<1>9. ASSUME Return(t) PROVE Moves
  <2>1. Onward(t, <<>>)
    BY <1>1, <1>9, ReturnSteps DEF Onward, Return
  <2> QED
    BY <2>1 DEF Moves
<1>10. ASSUME Unmap(t) PROVE Moves
  <2>1. t = App /\ Advances(t, <<>>) /\ todo[t][1] = Call(Client("unmap"))
    BY <1>10, UnmapSteps
  <2>2. UNCHANGED owner /\ process' = "unmapped"
    BY <1>10 DEF Unmap
  <2>3. process \in {"running", "unmapped"}
    BY <2>1 DEF ThreadInv, Live, Idle, Advances
  <2>4. ~OfStart(Call(Client("unmap")))
    BY DEF OfStart, Starter, Named, Call, Client, Acquire, Release
  <2>5. Onward(t, <<>>)
    BY <1>1, <2>1, <2>2, <2>3, <2>4 DEF Onward
  <2> QED
    BY <2>5 DEF Moves
<1>11. ASSUME Destroy(t) PROVE Moves
  BY <1>11, DestroySteps DEF Moves, Terminate
<1> QED
  BY <1>2, <1>3, <1>4, <1>5, <1>6, <1>7, <1>8, <1>9, <1>10, <1>11 DEF Run, Step, Moves

\* Every step is.
LEMMA NextMoves ==
  ASSUME TypesInv, StaticInv, ThreadInv, [ClientNext]_vars
  PROVE  Moves
<1>1. CASE \E t \in Threads : Run(t)
  BY <1>1, RunMoves
<1>2. CASE AppCall
  BY <1>2, AppCallSteps DEF Moves
<1>3. CASE AppReturns
  BY <1>3, AppReturnsSteps DEF Moves
<1>4. CASE Signal
  <2>1. PICK q : Commanded(q)
    BY <1>4, SignalSteps
  <2>2. Idle(App) \/ "interrupted" \in history'
    BY <1>4, SignalSteps
  <2> QED
    BY <2>1, <2>2 DEF Moves
<1>5. CASE UNCHANGED vars
  BY <1>5 DEF Moves
<1> QED
  BY <1>1, <1>2, <1>3, <1>4, <1>5 DEF ClientNext

\* Every step keeps what is invariant of the threads' steps.
LEMMA StaticStep ==
  ASSUME TypesInv, StaticInv, Moves
  PROVE  StaticInv' /\ todo' \in [Threads -> Seq(Items)]
<1>1. ASSUME NEW t \in Threads, NEW s, Onward(t, s)
      PROVE  StaticInv' /\ todo' \in [Threads -> Seq(Items)]
  BY <1>1, AdvanceStatic, Advance DEF Onward
<1>2. ASSUME NEW t \in Threads, Lock(t) \/ Unlock(t)
      PROVE  StaticInv' /\ todo' \in [Threads -> Seq(Items)]
  <2>1. Advances(t, <<>>) /\ UNCHANGED process
    BY <1>2, LockSteps, UnlockSteps
  <2> QED
    BY <2>1, AdvanceStatic, Advance
<1>3. ASSUME NEW t \in Threads, JoinItself(t)
      PROVE  StaticInv' /\ todo' \in [Threads -> Seq(Items)]
  <2>1. /\ ThreadStatic(t)' /\ \A u \in Threads \ {t} : todo'[u] = todo[u]
        /\ UNCHANGED <<history, process>> /\ todo' \in [Threads -> Seq(Items)]
    BY <1>3, JoinItselfSteps
  <2>2. ASSUME NEW u \in Threads \ {t} PROVE ThreadStatic(u)'
    BY <2>1, StaticKept DEF StaticInv
  <2> QED
    BY <2>1, <2>2 DEF StaticInv
<1>4. ASSUME NEW loops, Launching(loops)
      PROVE  StaticInv' /\ todo' \in [Threads -> Seq(Items)]
  BY <1>4, LaunchStatic DEF Launching, Launched
<1>5. ASSUME NEW how, End(how)
      PROVE  StaticInv' /\ todo' \in [Threads -> Seq(Items)]
  BY <1>5, EndStatic
<1>6. ASSUME NEW q, Commanded(q)
      PROVE  StaticInv' /\ todo' \in [Threads -> Seq(Items)]
  BY <1>6, CommandStatic DEF Commanded
<1>7. CASE UNCHANGED vars
  <2>1. \A t \in Threads : ThreadStatic(t)'
    BY <1>7, StaticKept DEF StaticInv, vars, flags
  <2> QED
    BY <1>7, <2>1 DEF StaticInv, TypesInv, vars
<1> QED
  BY <1>1, <1>2, <1>3, <1>4, <1>5, <1>6, <1>7 DEF Moves

\* The places of the mutexes in the order.
LEMMA LockRankType == ASSUME NEW l PROVE LockRank(l) \in 1 .. 5
BY DEF LockRank

\* A scope whose thread does not move stays as it is.
LEMMA HeldKept ==
  ASSUME NEW l \in Locks, Held(l), owner'[l] \in {owner[l], NoThread},
         owner[l] # NoThread => todo'[owner[l]] = todo[owner[l]], history \subseteq history'
  PROVE  Held(l)'
<1>1. CASE owner'[l] = NoThread
  BY <1>1 DEF Held
<1>2. CASE owner'[l] = owner[l] /\ owner[l] # NoThread
  <2>1. todo'[owner'[l]] = todo[owner[l]]
    BY <1>2
  <2> QED
    BY <1>2, <2>1 DEF Held
<1> QED
  BY <1>1, <1>2

\* A scope whose thread goes on, but does not leave it, stays one.
LEMMA HeldSpliced ==
  ASSUME NEW l \in Locks, NEW t \in Threads, NEW s, Held(l), owner[l] = t, owner'[l] = t,
         Spliced(todo'[t], s, todo[t]), todo[t][1] # Release(l),
         "reentry" \in history' \/ InOrder(todo[t][1], s), history \subseteq history'
  PROVE  Held(l)'
<1> DEFINE q == todo[t]
           r == todo'[t]
<1>1. t # NoThread /\ Spliced(r, s, q)
  BY ThreadTypes
<1>2. Has(q, {Release(l)})
  BY <1>1 DEF Held
<1>3. Has(r, {Release(l)})
  <2>1. PICK k \in DOMAIN q : q[k] = Release(l)
    BY <1>2 DEF Has
  <2>2. k \in 2 .. Len(q)
    BY <1>1, <2>1 DEF Spliced
  <2> QED
    BY <1>1, <2>1, <2>2, SpliceHas
<1>4. ASSUME "reentry" \notin history' PROVE Under(r, l, 0)
  <2>1. "reentry" \notin history /\ InOrder(q[1], s) /\ Under(q, l, 0)
    BY <1>1, <1>4 DEF Held
  <2>2. Rank(q[1]) > LockRank(l)
    <3>1. PICK k \in DOMAIN q : /\ 0 < k /\ q[k] = Release(l)
                                /\ \A j \in 0 + 1 .. k - 1 : Rank(q[j]) > LockRank(l)
      BY <2>1 DEF Under
    <3>2. k # 1 /\ k \in Nat
      BY <1>1, <3>1 DEF Spliced
    <3>3. 1 \in 0 + 1 .. k - 1
      BY <3>1, <3>2
    <3> QED
      BY <3>1, <3>3
  <2>3. ASSUME NEW i \in DOMAIN s PROVE Rank(s[i]) > LockRank(l)
    <3>1. Rank(s[i]) >= Rank(q[1])
      BY <2>1, <2>3 DEF InOrder
    <3>2. Rank(s[i]) \in Int /\ Rank(q[1]) \in Int /\ LockRank(l) \in Int
      BY RankType, LockRankType
    <3> QED
      BY <2>2, <3>1, <3>2
  <2> QED
    BY <1>1, <2>1, <2>3, SpliceHeld
<1>5. owner'[l] = t /\ todo'[t] = r
  OBVIOUS
<1> HIDE DEF r
<1> QED
  BY <1>3, <1>4, <1>5 DEF Held

\* The scope of any mutex that the first step does not release.
LEMMA HeldAdvance ==
  ASSUME TypesInv, NEW l \in Locks, NEW t \in Threads, NEW s, Held(l), Advances(t, s),
         owner'[l] = owner[l], todo[t][1] # Release(l)
  PROVE  Held(l)'
<1>1. Spliced(todo'[t], s, todo[t]) /\ \A u \in Threads \ {t} : todo'[u] = todo[u]
  BY Advance
<1>2. owner[l] \in Threads \cup {NoThread}
  BY DEF TypesInv
<1>3. CASE owner[l] = t
  BY <1>1, <1>3, HeldSpliced DEF Advances
<1>4. CASE owner[l] # t
  BY <1>1, <1>2, <1>4, HeldKept DEF Advances
<1> QED
  BY <1>3, <1>4

\* What a thread takes it will release.
LEMMA HeldTaken ==
  ASSUME TypesInv, StaticInv, NEW l \in Locks, NEW t \in Threads, todo[t][1] = Acquire(l),
         Advances(t, <<>>), owner'[l] = t
  PROVE  Held(l)'
<1> DEFINE q == todo[t]
           r == todo'[t]
<1>1. Spliced(r, <<>>, q) /\ 1 \in DOMAIN q /\ Len(<<>>) = 0 /\ t # NoThread
  BY SMTT(30), Advance, ThreadTypes DEF Spliced
<1>2. Has(r, {Release(l)})
  <2>1. PICK k \in DOMAIN q : 1 < k /\ q[k] = Release(l)
    BY <1>1 DEF StaticInv, ThreadStatic, Closed
  <2>2. k \in 2 .. Len(q)
    BY <1>1, <2>1 DEF Spliced
  <2> QED
    BY <1>1, <2>1, <2>2, SpliceHas
<1>3. ASSUME "reentry" \notin history' PROVE Under(r, l, 0)
  <2>1. Nested(q)
    BY <1>3 DEF StaticInv, ThreadStatic, Advances
  <2>2. Under(q, l, 1) /\ 1 \in 1 .. Len(q) /\ 1 \in Nat
    BY <1>1, <2>1 DEF Nested, Spliced
  <2>3. Under(r, l, Len(<<>>) + 1 - 1)
    BY <1>1, <2>2, SpliceUnder
  <2>4. Len(<<>>) + 1 - 1 = 0
    BY <1>1
  <2> QED
    BY <2>3, <2>4
<1>4. owner'[l] = t /\ todo'[t] = r
  OBVIOUS
<1> HIDE DEF r
<1> QED
  BY <1>2, <1>3, <1>4 DEF Held

\* Every step keeps the scopes of the mutexes.
LEMMA HeldStep ==
  ASSUME TypesInv, StaticInv, ThreadInv, HeldInv, Moves,
         Live' => Live, history \subseteq history'
  PROVE  HeldInv'
<1> SUFFICES ASSUME Live', Live, "interrupted" \notin history', "interrupted" \notin history,
                    NEW l \in Locks, Held(l)
             PROVE  Held(l)'
  BY DEF HeldInv
<1>0. owner \in [Locks -> Threads \cup {NoThread}]
  BY DEF TypesInv
<1>1. ASSUME NEW t \in Threads, NEW s, Onward(t, s) PROVE Held(l)'
  <2>1. todo[t][1] # Release(l)
    BY <1>1 DEF Onward, Release
  <2> QED
    BY <1>1, <2>1, HeldAdvance DEF Onward
<1>2. ASSUME NEW t \in Threads, Lock(t) PROVE Held(l)'
  <2>1. PICK k \in Locks : todo[t][1] = Acquire(k) /\ owner' = [owner EXCEPT ![k] = t]
    BY <1>2, LockSteps
  <2>2. Advances(t, <<>>)
    BY <1>2, LockSteps
  <2>3. CASE k = l
    BY <1>0, <2>1, <2>2, <2>3, HeldTaken
  <2>4. CASE k # l
    <3>1. owner'[l] = owner[l] /\ todo[t][1] # Release(l)
      BY <1>0, <2>1, <2>4 DEF Acquire, Release
    <3> QED
      BY <2>2, <3>1, HeldAdvance
  <2> QED
    BY <2>3, <2>4
<1>3. ASSUME NEW t \in Threads, Unlock(t) PROVE Held(l)'
  <2>1. PICK k \in Locks : todo[t][1] = Release(k) /\ owner' = [owner EXCEPT ![k] = NoThread]
    BY <1>3, UnlockSteps
  <2>2. Advances(t, <<>>)
    BY <1>3, UnlockSteps
  <2>3. CASE k = l
    BY <1>0, <2>1, <2>3 DEF Held
  <2>4. CASE k # l
    <3>1. owner'[l] = owner[l] /\ todo[t][1] # Release(l)
      BY <1>0, <2>1, <2>4 DEF Release
    <3> QED
      BY <2>2, <3>1, HeldAdvance
  <2> QED
    BY <2>3, <2>4
<1>4. ASSUME NEW t \in Threads, JoinItself(t) PROVE Held(l)'
  <2>1. "reentry" \in history /\ \A u \in Threads \ {t} : todo'[u] = todo[u]
    BY <1>4, JoinItselfSteps
  <2>2. PICK c \in DOMAIN todo[t] :
              /\ DOMAIN todo'[t] = 1 .. Len(todo[t]) - c
              /\ DOMAIN todo[t] = 1 .. Len(todo[t]) /\ Len(todo[t]) \in Nat
              /\ \A i \in 1 .. Len(todo[t]) - c : todo'[t][i] = todo[t][c + i]
              /\ owner' = [m \in Locks |->
                             IF \E i \in 1 .. c : todo[t][i] = Release(m) THEN NoThread
                             ELSE owner[m]]
    BY <1>4, JoinItselfSteps
  <2>3. owner'[l] \in {owner[l], NoThread}
    BY <2>2
  <2>4. CASE owner'[l] = NoThread \/ owner[l] # t
    <3>1. owner[l] \in Threads /\ owner[l] # t => todo'[owner[l]] = todo[owner[l]]
      BY <2>1
    <3>2. CASE owner'[l] = NoThread
      BY <3>2 DEF Held
    <3>3. CASE owner[l] # t
      BY <1>0, <2>3, <3>1, <3>3, HeldKept
    <3> QED
      BY <2>4, <3>2, <3>3
  <2>5. CASE owner'[l] = t /\ owner[l] = t
    <3>1. t # NoThread
      BY ThreadTypes
    <3>2. PICK k \in DOMAIN todo[t] : todo[t][k] = Release(l)
      BY <2>5, <3>1 DEF Held, Has
    <3>3. ~(k \in 1 .. c)
      BY <2>2, <2>5, <3>1, <3>2
    <3>4. k - c \in 1 .. Len(todo[t]) - c /\ c + (k - c) = k
      BY <2>2, <3>3
    <3>5. Has(todo'[t], {Release(l)})
      BY <2>2, <3>2, <3>4 DEF Has
    <3> QED
      BY <2>1, <2>5, <3>5 DEF Held
  <2> QED
    BY <2>3, <2>4, <2>5
<1>5. ASSUME NEW loops, Launching(loops) PROVE Held(l)'
  <2>1. /\ Spliced(todo'[App], <<>>, todo[App])
        /\ \A u \in Workers \ DOMAIN loops : todo'[u] = todo[u]
        /\ \A u \in DOMAIN loops : todo[u] = <<>>
        /\ owner'[l] = owner[l]
    BY <1>5 DEF Launching, Launched, Idle
  <2>2. CASE owner[l] = App /\ todo[App][1] # Release(l)
    <3>1. InOrder(todo[App][1], <<>>)
      BY FitsNothing DEF FitsWell
    <3> QED
      BY <2>1, <2>2, <3>1, ThreadTypes, HeldSpliced
  <2>3. CASE owner[l] \in Workers
    <3>1. owner[l] \notin DOMAIN loops
      <4>1. Has(todo[owner[l]], {Release(l)})
        BY <2>3, ThreadTypes DEF Held
      <4> QED
        BY <2>1, <4>1 DEF Has
    <3> QED
      BY <2>1, <2>3, <3>1, HeldKept
  <2>4. CASE owner[l] = NoThread
    BY <2>1, <2>4 DEF Held
  <2>5. owner[l] = App => todo[App][1] # Release(l)
    BY <1>5 DEF Launching, Release
  <2> QED
    BY <1>0, <2>2, <2>3, <2>4, <2>5 DEF Threads
<1>6. ASSUME NEW how \in {"ended", "terminated"}, End(how) PROVE FALSE
  BY <1>6 DEF End, Live
<1>7. ASSUME NEW q, Commanded(q), Idle(App) PROVE Held(l)'
  <2>1. owner[l] # App
    <3>1. todo[App] = <<>> /\ App # NoThread
      BY <1>7, ThreadTypes DEF Idle
    <3> QED
      BY <3>1 DEF Held, Has
  <2> QED
    BY <1>0, <1>7, <2>1, HeldKept DEF Commanded, Threads
<1>8. CASE UNCHANGED vars
  BY <1>8, HeldKept DEF vars, flags
<1> QED
  BY <1>1, <1>2, <1>3, <1>4, <1>5, <1>6, <1>7, <1>8 DEF Moves

-----------------------------------------------------------------------------
(***************************************************************************)
(* Types, and which threads there are, after every step.                   *)
(***************************************************************************)
SubscriberFlags == [present : BOOLEAN, running : BOOLEAN, cleanup_started : BOOLEAN]

FlagTypes ==
  /\ owner' \in [Locks -> Threads \cup {NoThread}]
  /\ joinable' \subseteq Workers
  /\ publisher' \in [running : BOOLEAN, cleanup_started : BOOLEAN]
  /\ subscriber' \in [Exchanges -> [present : BOOLEAN, running : BOOLEAN,
                                    cleanup_started : BOOLEAN]]
  /\ process' \in {"running", "unmapped", "ended", "terminated"}
  /\ lifecycle' \in {"connected", "disconnected"}
  /\ history \subseteq history' /\ history' \subseteq Situations

\* The variables other than todo keep their types.
LEMMA RunFlagTypes ==
  ASSUME TypesInv, StaticInv, NEW t \in Threads, Run(t)
  PROVE  FlagTypes
<1>1. /\ "reentry" \in Situations /\ "unsubscribed" \in Situations
      /\ "reconnected" \in Situations
  BY DEF Situations
<1>2. ASSUME Invoke(t) \/ ForAll(t) \/ Callback(t) \/ Leave(t) PROVE FlagTypes
  <2>1. PICK s : Unfolds(t, s)
    BY <1>2, InvokeUnfolds, ForAllUnfolds, CallbackUnfolds, LeaveUnfolds
  <2>2. history \subseteq history' /\ history' \subseteq Situations
    BY <1>1, <2>1 DEF Unfolds, Advances, TypesInv
  <2> QED
    BY <2>1, <2>2 DEF Unfolds, FlagTypes, TypesInv
<1>3. ASSUME Lock(t) PROVE FlagTypes
  <2>1. \E l \in Locks : owner' = [owner EXCEPT ![l] = t]
    BY <1>3, LockSteps
  <2>2. owner' \in [Locks -> Threads \cup {NoThread}]
    BY <2>1 DEF TypesInv
  <2> QED
    BY <1>3, <2>2 DEF Lock, flags, TypesInv, FlagTypes
<1>4. ASSUME Unlock(t) PROVE FlagTypes
  <2>1. \E l \in Locks : owner' = [owner EXCEPT ![l] = NoThread]
    BY <1>4, UnlockSteps
  <2>2. owner' \in [Locks -> Threads \cup {NoThread}]
    BY <2>1 DEF TypesInv
  <2> QED
    BY <1>4, <2>2 DEF Unlock, flags, TypesInv, FlagTypes
<1>5. ASSUME Join(t) PROVE FlagTypes
  BY <1>5, JoinSteps DEF TypesInv, FlagTypes
<1>6. ASSUME JoinItself(t) PROVE FlagTypes
  <2>1. owner' \in [Locks -> Threads \cup {NoThread}]
    BY <1>6 DEF JoinItself, TypesInv
  <2> QED
    BY <1>6, <2>1, JoinItselfSteps DEF TypesInv, FlagTypes
<1>7. ASSUME StartPublisher(t) PROVE FlagTypes
  <2>1. /\ publisher' = [publisher EXCEPT !.running = TRUE]
        /\ history' = IF publisher.cleanup_started THEN history \cup {"reconnected"}
                      ELSE history
        /\ joinable' = joinable \/ joinable' = joinable \cup {Beat}
        /\ process' = process \/ process' = "terminated"
    BY <1>7, StartPublisherSteps DEF Terminate, End
  <2>2. UNCHANGED <<owner, subscriber, lifecycle>>
    BY <1>7 DEF StartPublisher
  <2>3. publisher' \in [running : BOOLEAN, cleanup_started : BOOLEAN]
    BY <2>1 DEF TypesInv
  <2>4. joinable' \subseteq Workers
    BY <2>1, ThreadTypes DEF TypesInv
  <2>5. history \subseteq history' /\ history' \subseteq Situations
    BY <1>1, <2>1 DEF TypesInv
  <2> QED
    BY <2>1, <2>2, <2>3, <2>4, <2>5 DEF TypesInv, FlagTypes
<1>8. ASSUME StopPublisher(t) PROVE FlagTypes
  <2>1. publisher' \in [running : BOOLEAN, cleanup_started : BOOLEAN]
    <3>1. [running |-> FALSE, cleanup_started |-> TRUE]
            \in [running : BOOLEAN, cleanup_started : BOOLEAN]
      OBVIOUS
    <3> QED
      BY <1>8, <3>1, StopPublisherAdvances DEF TypesInv
  <2> QED
    BY <1>8, <2>1 DEF StopPublisher, TypesInv, FlagTypes
<1>9. ASSUME StartSubscriber(t) PROVE FlagTypes
  <2>1. PICK x \in Exchanges :
          /\ \/ subscriber' = subscriber
             \/ subscriber' = [subscriber EXCEPT ![x] =
                  [present |-> TRUE, running |-> TRUE, cleanup_started |-> FALSE]]
          /\ joinable' = joinable \/ joinable' = joinable \cup Readers(x)
    BY <1>9, StartSubscriberSteps
  <2>2. joinable' \subseteq Workers
    BY <2>1, ThreadTypes DEF TypesInv
  <2>3. subscriber' \in [Exchanges -> [present : BOOLEAN, running : BOOLEAN,
                                       cleanup_started : BOOLEAN]]
    <3> DEFINE r == [present |-> TRUE, running |-> TRUE, cleanup_started |-> FALSE]
    <3>1. r \in SubscriberFlags
      BY DEF SubscriberFlags
    <3>2. subscriber' = subscriber \/ subscriber' = [subscriber EXCEPT ![x] = r]
      BY <2>1
    <3>3. subscriber \in [Exchanges -> SubscriberFlags]
      BY DEF TypesInv, SubscriberFlags
    <3> HIDE DEF r
    <3>4. subscriber' \in [Exchanges -> SubscriberFlags]
      BY <3>1, <3>2, <3>3
    <3> QED
      BY <3>4 DEF SubscriberFlags
  <2> QED
    BY <1>9, <2>2, <2>3 DEF StartSubscriber, TypesInv, FlagTypes
<1>10. ASSUME StopSubscriber(t) PROVE FlagTypes
  <2>1. PICK x \in Exchanges :
          \/ subscriber' = subscriber
          \/ subscriber' = [subscriber EXCEPT ![x] =
                  [present |-> TRUE, running |-> FALSE, cleanup_started |-> TRUE]]
    BY <1>10, StopSubscriberAdvances
  <2>2. subscriber' \in [Exchanges -> [present : BOOLEAN, running : BOOLEAN,
                                       cleanup_started : BOOLEAN]]
    <3> DEFINE r == [present |-> TRUE, running |-> FALSE, cleanup_started |-> TRUE]
    <3>1. r \in SubscriberFlags
      BY DEF SubscriberFlags
    <3>2. subscriber' = subscriber \/ subscriber' = [subscriber EXCEPT ![x] = r]
      BY <2>1
    <3>3. subscriber \in [Exchanges -> SubscriberFlags]
      BY DEF TypesInv, SubscriberFlags
    <3> HIDE DEF r
    <3>4. subscriber' \in [Exchanges -> SubscriberFlags]
      BY <3>1, <3>2, <3>3
    <3> QED
      BY <3>4 DEF SubscriberFlags
  <2> QED
    BY <1>10, <2>2 DEF StopSubscriber, TypesInv, FlagTypes
<1>11. ASSUME Erase(t) PROVE FlagTypes
  <2>1. PICK S \in SUBSET Exchanges :
          /\ subscriber' = [x \in Exchanges |->
                              IF x \in S THEN NoSubscriber ELSE subscriber[x]]
          /\ UNCHANGED <<owner, joinable, publisher, signalled, lifecycle, history>>
          /\ UNCHANGED process \/ Terminate
    BY <1>11, EraseSteps
  <2>2. subscriber' \in [Exchanges -> [present : BOOLEAN, running : BOOLEAN,
                                       cleanup_started : BOOLEAN]]
    BY <2>1 DEF TypesInv, NoSubscriber
  <2>3. process' \in {"running", "unmapped", "ended", "terminated"}
    BY <2>1 DEF TypesInv, Terminate, End
  <2> QED
    BY <2>1, <2>2, <2>3 DEF TypesInv, FlagTypes
<1>12. ASSUME Return(t) PROVE FlagTypes
  <2>1. lifecycle' \in {"connected", "disconnected"}
    BY <1>12, ReturnSteps
  <2> QED
    BY <1>12, <2>1 DEF Return, TypesInv, FlagTypes
<1>13. ASSUME Unmap(t) PROVE FlagTypes
  BY <1>13 DEF Unmap, TypesInv, FlagTypes
<1>14. ASSUME Destroy(t) PROVE FlagTypes
  BY <1>14 DEF Destroy, Terminate, End, TypesInv, FlagTypes
<1> QED
  BY <1>2, <1>3, <1>4, <1>5, <1>6, <1>7, <1>8, <1>9, <1>10, <1>11, <1>12, <1>13, <1>14
  DEF Run, Step

\* Every step keeps all types.
LEMMA TypesStep ==
  ASSUME TypesInv, StaticInv, ThreadInv, [ClientNext]_vars
  PROVE  TypesInv' /\ StaticInv' /\ history \subseteq history' /\ Moves
<1>1. StaticInv' /\ todo' \in [Threads -> Seq(Items)] /\ Moves
  BY NextMoves, StaticStep
<1>2. FlagTypes
  <2>1. "untidy" \in Situations /\ "interrupted" \in Situations
    BY DEF Situations
  <2>2. ASSUME NEW q, Commanded(q) PROVE FlagTypes
    <3>1. history' \subseteq Situations
      BY <2>1, <2>2 DEF Commanded, TypesInv
    <3> QED
      BY <2>2, <3>1 DEF Commanded, FlagTypes, TypesInv
  <2>3. CASE UNCHANGED vars
    BY <2>3 DEF vars, flags, FlagTypes, TypesInv
  <2> QED
    BY <2>2, <2>3, RunFlagTypes, AppCallSteps, AppReturnsSteps, SignalSteps DEF ClientNext
<1> QED
  BY <1>1, <1>2 DEF FlagTypes, TypesInv

\* joinable and the flags that it depends on.
LEMMA LiveStep ==
  ASSUME TypesInv, StaticInv, ThreadInv, [ClientNext]_vars, Live'
  PROVE  Live
<1>1. ASSUME ~Live PROVE FALSE
  <2>1. \A t \in Threads : todo[t] = <<>>
    BY <1>1 DEF ThreadInv, Idle
  <2>2. \A t \in Threads : ~Run(t)
    BY ZenonT(40), <2>1
    DEF Run, Step, Invoke, ForAll, Callback, Lock, Unlock, Leave, Join, JoinItself,
                StartPublisher, StopPublisher, StartSubscriber, StopSubscriber, Erase, Return,
                Unmap, Destroy, At, Calls, Does, StoppedBefore, StopsNow
  <2>3. process # "running"
    BY <1>1 DEF Live
  <2>4. process' = process
    BY <2>2, <2>3 DEF ClientNext, AppCall, AppReturns, Signal, vars, flags
  <2> QED
    BY <1>1, <2>4 DEF Live
<1> QED
  BY <1>1

\* A step that starts and joins nothing keeps ThreadInv.
LEMMA ThreadAdvance ==
  ASSUME TypesInv, ThreadInv, NEW t \in Threads, NEW s, Advances(t, s),
         UNCHANGED joinable, process' \in {process, "unmapped"},
         \A x \in Exchanges : subscriber'[x].present = subscriber[x].present
  PROVE  ThreadInv'
<1>1. \A u \in Threads \ {t} : todo'[u] = todo[u]
  BY Advance
<1>2. Live
  BY DEF ThreadInv, Advances, Idle
<1>3. Live' /\ Present' = Present
  BY <1>2 DEF Live, Present
<1>4. \A u \in Workers \ joinable : u # t
  BY DEF ThreadInv, Idle, Advances
<1>5. \A u \in Workers \ joinable' : todo'[u] = <<>>
  BY <1>1, <1>4, ThreadTypes DEF ThreadInv, Idle
<1> QED
  BY <1>2, <1>3, <1>5 DEF ThreadInv, Idle

\* So does the end of the process.
LEMMA ThreadEnd ==
  ASSUME ThreadInv, NEW how \in {"ended", "terminated"}, End(how)
  PROVE  ThreadInv'
BY ThreadTypes DEF End, ThreadInv, Idle, Live

\* So does every step of a thread.
LEMMA RunThreads ==
  ASSUME TypesInv, StaticInv, ThreadInv, NEW t \in Threads, Run(t)
  PROVE  ThreadInv'
<1>0. todo[t] # <<>> /\ Live
  <2>1. todo[t] # <<>>
    BY DEF Run, Step, Invoke, ForAll, Callback, Lock, Unlock, Leave, Join, JoinItself,
           StartPublisher, StopPublisher, StartSubscriber, StopSubscriber, Erase, Return,
           Unmap, Destroy, At, Calls, Does, StoppedBefore, StopsNow
  <2> QED
    BY <2>1 DEF ThreadInv, Idle
<1>1. ASSUME Invoke(t) \/ ForAll(t) \/ Callback(t) \/ Leave(t) PROVE ThreadInv'
  <2>1. PICK s : Unfolds(t, s)
    BY <1>1, InvokeUnfolds, ForAllUnfolds, CallbackUnfolds, LeaveUnfolds
  <2> QED
    BY <2>1, ThreadAdvance DEF Unfolds
<1>2. ASSUME Lock(t) \/ Unlock(t) PROVE ThreadInv'
  BY <1>2, LockSteps, UnlockSteps, ThreadAdvance
<1>3. ASSUME Join(t) PROVE ThreadInv'
  <2>1. PICK u \in Workers : u # t /\ (u \in joinable => Idle(u)) /\ joinable' = joinable \ {u}
    BY <1>3, JoinSteps
  <2>2. Advances(t, <<>>) /\ UNCHANGED <<subscriber, process>>
    BY <1>3, JoinSteps
  <2>3. \A v \in Threads \ {t} : todo'[v] = todo[v]
    BY <2>2, Advance
  <2>4. ASSUME NEW v \in Workers \ joinable' PROVE todo'[v] = <<>>
    <3>1. todo[v] = <<>>
      BY <2>1, <2>4 DEF ThreadInv, Idle
    <3> QED
      BY <1>0, <2>3, <3>1, ThreadTypes
  <2> QED
    BY <1>0, <2>1, <2>2, <2>4 DEF ThreadInv, Live, Idle, Present
<1>4. ASSUME JoinItself(t) PROVE ThreadInv'
  <2>1. /\ t \in Workers /\ \A u \in Threads \ {t} : todo'[u] = todo[u]
        /\ UNCHANGED <<joinable, subscriber, process>>
    BY <1>4, JoinItselfSteps
  <2>2. t \in joinable
    BY <1>0, <2>1 DEF ThreadInv, Idle
  <2>3. \A v \in Workers \ joinable' : todo'[v] = <<>>
    BY <2>1, <2>2, ThreadTypes DEF ThreadInv, Idle
  <2> QED
    BY <1>0, <2>1, <2>3 DEF ThreadInv, Live, Idle, Present
<1>5. ASSUME StartPublisher(t) PROVE ThreadInv'
  <2>1. UNCHANGED subscriber
    BY <1>5 DEF StartPublisher
  <2>2. CASE Advances(t, <<>>) /\ UNCHANGED <<joinable, process>>
    BY <2>1, <2>2, ThreadAdvance
  <2>3. CASE Terminate
    BY <2>3, ThreadEnd DEF Terminate
  <2>4. CASE Launched(BeatLoop) /\ joinable' = joinable \cup {Beat} /\ UNCHANGED process
    <3>1. DOMAIN BeatLoop = {Beat} /\ Beat \in Workers
          /\ \A x \in Exchanges : Beat \notin Readers(x)
      BY ThreadTypes DEF BeatLoop
    <3>2. \A v \in Workers \ joinable' : todo'[v] = <<>>
      BY <2>4, <3>1 DEF Launched, ThreadInv, Idle
    <3> QED
      BY <1>0, <2>1, <2>4, <3>1, <3>2 DEF ThreadInv, Live, Idle, Present
  <2> QED
    BY <1>5, <2>2, <2>3, <2>4, StartPublisherSteps
<1>6. ASSUME StopPublisher(t) PROVE ThreadInv'
  <2>1. \E s : Advances(t, s)
    BY <1>6, StopPublisherAdvances
  <2> QED
    BY <1>6, <2>1, ThreadAdvance DEF StopPublisher
<1>7. ASSUME StartSubscriber(t) PROVE ThreadInv'
  <2>1. UNCHANGED process
    BY <1>7 DEF StartSubscriber
  <2>2. CASE Advances(t, <<>>) /\ UNCHANGED <<joinable, subscriber>>
    BY <2>1, <2>2, ThreadAdvance
  <2>3. ASSUME NEW x \in Exchanges, Launched(ReaderLoops(x)),
               subscriber' = [subscriber EXCEPT ![x] =
                         [present |-> TRUE, running |-> TRUE, cleanup_started |-> FALSE]],
               joinable' = joinable \cup Readers(x)
        PROVE  ThreadInv'
    <3>1. DOMAIN ReaderLoops(x) = Readers(x) /\ Readers(x) \subseteq Workers
      BY ThreadTypes DEF ReaderLoops
    <3>2. \A v \in Workers \ joinable' : todo'[v] = <<>>
      BY <2>3, <3>1 DEF Launched, ThreadInv, Idle
    <3>3. ASSUME NEW y \in Exchanges, ~subscriber'[y].present
          PROVE  Readers(y) \cap joinable' = {}
      <4>1. y # x /\ ~subscriber[y].present
        BY <2>3, <3>3 DEF TypesInv
      <4>2. Readers(y) \cap joinable = {}
        BY <1>0, <4>1 DEF ThreadInv, Present
      <4>3. Readers(y) \cap Readers(x) = {}
        BY <4>1 DEF Readers
      <4> QED
        BY <2>3, <4>2, <4>3
    <3> QED
      BY <1>0, <2>1, <3>2, <3>3 DEF ThreadInv, Live, Idle, Present
  <2> QED
    BY <1>7, <2>2, <2>3, StartSubscriberSteps
<1>8. ASSUME StopSubscriber(t) PROVE ThreadInv'
  <2>1. UNCHANGED <<joinable, process>>
    BY <1>8 DEF StopSubscriber
  <2>2. PICK x \in Exchanges :
          \/ Advances(t, <<>>) /\ subscriber' = subscriber
          \/ /\ subscriber[x].present
             /\ Advances(t, AwaitReaders(x))
             /\ subscriber' = [subscriber EXCEPT ![x] =
                      [present |-> TRUE, running |-> FALSE, cleanup_started |-> TRUE]]
    BY <1>8, StopSubscriberAdvances
  <2>3. \A y \in Exchanges : subscriber'[y].present = subscriber[y].present
    <3> DEFINE r == [present |-> TRUE, running |-> FALSE, cleanup_started |-> TRUE]
    <3>1. r.present = TRUE
      OBVIOUS
    <3>2. \/ subscriber' = subscriber
          \/ subscriber[x].present /\ subscriber' = [subscriber EXCEPT ![x] = r]
      BY <2>2
    <3>3. subscriber[x].present \in BOOLEAN
      BY DEF TypesInv
    <3> HIDE DEF r
    <3>4. \A y \in Exchanges : y # x => subscriber'[y] = subscriber[y]
      BY <3>2 DEF TypesInv
    <3>5. subscriber'[x].present = subscriber[x].present
      <4>1. CASE subscriber' = subscriber
        BY <4>1
      <4>2. CASE subscriber[x].present /\ subscriber' = [subscriber EXCEPT ![x] = r]
        <5>1. subscriber'[x] = r
          BY <4>2 DEF TypesInv
        <5> QED
          BY <3>1, <3>3, <4>2, <5>1
      <4> QED
        BY <3>2, <4>1, <4>2
    <3> QED
      BY <3>4, <3>5
  <2> QED
    BY <2>1, <2>2, <2>3, ThreadAdvance
<1>9. ASSUME Erase(t) PROVE ThreadInv'
  <2>1. PICK S \in SUBSET Exchanges :
           /\ subscriber' = [x \in Exchanges |->
                               IF x \in S THEN NoSubscriber ELSE subscriber[x]]
           /\ UNCHANGED joinable
           /\ \/ /\ \A x \in S : Readers(x) \cap joinable = {}
                 /\ Advances(t, <<>>) /\ UNCHANGED process
              \/ Terminate
    BY <1>9, EraseSteps
  <2>2. CASE Terminate
    BY <2>2, ThreadEnd DEF Terminate
  <2>3. CASE /\ \A x \in S : Readers(x) \cap joinable = {}
             /\ Advances(t, <<>>) /\ UNCHANGED process
    <3>1. \A u \in Threads \ {t} : todo'[u] = todo[u]
      BY <2>3, Advance
    <3>2. \A v \in Workers \ joinable' : todo'[v] = <<>>
      BY <1>0, <2>1, <3>1, ThreadTypes DEF ThreadInv, Idle
    <3>3. ASSUME NEW y \in Exchanges, ~subscriber'[y].present
          PROVE  Readers(y) \cap joinable' = {}
      BY <1>0, <2>1, <2>3, <3>3 DEF ThreadInv, Present
    <3> QED
      BY <1>0, <2>3, <3>2, <3>3 DEF ThreadInv, Live, Idle, Present
  <2> QED
    BY <2>1, <2>2, <2>3
<1>10. ASSUME Return(t) PROVE ThreadInv'
  BY <1>10, ReturnSteps, ThreadAdvance DEF Return
<1>11. ASSUME Unmap(t) PROVE ThreadInv'
  BY <1>11, UnmapSteps, ThreadAdvance DEF Unmap
<1>12. ASSUME Destroy(t) PROVE ThreadInv'
  BY <1>12, DestroySteps, ThreadEnd DEF Terminate
<1> QED
  BY <1>1, <1>2, <1>3, <1>4, <1>5, <1>6, <1>7, <1>8, <1>9, <1>10, <1>11, <1>12 DEF Run, Step

\* Every step keeps ThreadInv.
LEMMA ThreadStep ==
  ASSUME TypesInv, StaticInv, ThreadInv, [ClientNext]_vars
  PROVE  ThreadInv'
<1>1. CASE \E t \in Threads : Run(t)
  BY <1>1, RunThreads
<1>2. ASSUME NEW q, Commanded(q) PROVE ThreadInv'
  BY <1>2 DEF Commanded, ThreadInv, Idle, Live, Present
<1>3. CASE UNCHANGED vars
  BY <1>3 DEF vars, flags, ThreadInv, Idle, Live, Present
<1> QED
  BY <1>1, <1>2, <1>3, AppCallSteps, AppReturnsSteps, SignalSteps DEF ClientNext

-----------------------------------------------------------------------------
(***************************************************************************)
(* No deadlock: whom a thread waits for, it waits later in the order.      *)
(***************************************************************************)
\* Where thread t is in the order.
Height(t) == Rank(todo[t][1])

\* Whom a thread waits for waits, if at all, later in the order.
LEMMA WaitsUp ==
  ASSUME TypesInv, StaticInv, ThreadInv, HeldInv,
         "reentry" \notin history, "interrupted" \notin history,
         NEW t \in Threads, NEW u \in Threads, u \in WaitsFor(t), WaitsFor(u) # {}
  PROVE  Height(u) > Height(t)
<1>1. At(t, "lock") \/ At(t, "join")
  BY DEF WaitsFor
<1>2. At(u, "lock") \/ At(u, "join")
  BY DEF WaitsFor
<1>3. todo[u] # <<>> /\ 1 \in DOMAIN todo[u] /\ todo[u] \in Seq(Items)
      /\ (todo[u][1][1] = "lock" \/ todo[u][1][1] = "join")
  BY <1>2, FirstItem
<1>4. Live
  BY <1>3 DEF ThreadInv, Idle
<1>5. CASE At(t, "lock")
  <2>1. /\ todo[t][1] \in Items /\ todo[t][1][1] = "lock" /\ What(t) = todo[t][1][2]
    BY <1>5, FirstItem
  <2>2. PICK l \in Locks : todo[t][1] = Acquire(l)
    BY <2>1 DEF Items, Caught, Acquire
  <2>3. What(t) = l /\ Height(t) = LockRank(l)
    BY <2>1, <2>2 DEF Acquire, Height, Rank
  <2>4. owner[l] = u /\ u # NoThread
    <3>1. ~At(t, "join")
      BY <1>5 DEF At
    <3> QED
      BY <1>5, <2>3, <3>1, ThreadTypes DEF WaitsFor
  <2>5. Under(todo[u], l, 0)
    BY <1>4, <2>4 DEF HeldInv, Held
  <2>6. PICK k \in DOMAIN todo[u] : /\ 0 < k /\ todo[u][k] = Release(l)
                                    /\ \A j \in 0 + 1 .. k - 1 : Rank(todo[u][j]) > LockRank(l)
    BY <2>5 DEF Under
  <2>7. k # 1
    BY <1>3, <2>6 DEF Release
  <2>8. 1 \in 0 + 1 .. k - 1
    BY <1>3, <2>6, <2>7
  <2> QED
    BY <2>3, <2>6, <2>8 DEF Height
<1>6. CASE At(t, "join")
  <2>1. ~At(t, "lock")
    BY <1>6 DEF At
  <2>2. u = What(t) /\ u \in joinable
    BY <1>6, <2>1 DEF WaitsFor
  <2>3. u \in Workers
    BY <2>2 DEF TypesInv
  <2>4. Rank(todo[u][1]) >= 3
    BY <1>3, <2>3 DEF StaticInv, ThreadStatic
  <2>5. Height(t) = 2
    BY <1>6, FirstItem DEF Height, Rank
  <2>6. Height(u) \in Int
    BY RankType DEF Height
  <2> QED
    BY <2>4, <2>5, <2>6 DEF Height
<1> QED
  BY <1>1, <1>5, <1>6

\* The thread of a set that is last in the order waits for none of the set.
LEMMA DeadlockFree ==
  ASSUME TypesInv, StaticInv, ThreadInv, HeldInv
  PROVE  NoDeadlock
<1> SUFFICES ASSUME "reentry" \notin history, "interrupted" \notin history,
                    NEW S \in SUBSET Threads, S # {},
                    \A t \in S : WaitsFor(t) \cap S # {}
             PROVE  FALSE
  <2>1. ASSUME ~Happened({"reentry", "interrupted"})
        PROVE  "reentry" \notin history /\ "interrupted" \notin history
    BY   <2>1 DEF Happened
  <2> QED
  BY   <2>1 DEF NoDeadlock
<1>1. ASSUME NEW k \in Int, \E t \in S : Height(t) >= k
      PROVE  \E t \in S : Height(t) >= k + 1
  <2>1. PICK t \in S : Height(t) >= k
    BY <1>1
  <2>2. PICK u \in S : u \in WaitsFor(t)
    OBVIOUS
  <2>3. WaitsFor(u) # {}
    OBVIOUS
  <2>4. Height(u) > Height(t)
    BY <2>2, <2>3, WaitsUp
  <2>5. Height(u) \in Int /\ Height(t) \in Int
    BY RankType DEF Height
  <2>6. Height(u) >= k + 1
    BY <2>1, <2>4, <2>5
  <2> QED
    BY <2>6
<1>2. \A t \in S : Height(t) \in 1 .. 6
  BY RankType DEF Height
<1>3. \E t \in S : Height(t) >= 1
  BY <1>2
<1>4. \E t \in S : Height(t) >= 3
  <2>1. \E t \in S : Height(t) >= 1 + 1
    BY <1>1, <1>3
  <2>2. 1 + 1 \in Int /\ 1 + 1 + 1 = 3
    OBVIOUS
  <2> QED
    BY <1>1, <2>1, <2>2
<1>5. \E t \in S : Height(t) >= 5
  <2>1. \E t \in S : Height(t) >= 3 + 1
    BY <1>1, <1>4
  <2>2. 3 + 1 \in Int /\ 3 + 1 + 1 = 5
    OBVIOUS
  <2> QED
    BY <1>1, <2>1, <2>2
<1>6. \E t \in S : Height(t) >= 7
  <2>1. \E t \in S : Height(t) >= 5 + 1
    BY <1>1, <1>5
  <2>2. 5 + 1 \in Int /\ 5 + 1 + 1 = 7
    OBVIOUS
  <2> QED
    BY <1>1, <2>1, <2>2
<1> QED
  BY <1>2, <1>6

-----------------------------------------------------------------------------
(***************************************************************************)
(* What the main thread still has to do about the threads that it started. *)
(***************************************************************************)
Ends ==
  {Call(Client("destroy")), Call(Client("disconnected"))}
    \cup (IF "untidy" \in history THEN {} ELSE {Call(Client("unmap")), Call(Client("exit"))})

Stops(u) ==
  {Call(Client("disconnect"))}
    \cup (IF u = Beat THEN {Call(Client("disconnectPublisher")), Await(Beat)}
          ELSE {Call(Client("clear"))})

\* The process does not end, nor disconnect() return, before every thread is stopped.
ShutdownInv ==
  Live /\ "interrupted" \notin history /\ "reconnected" \notin history =>
    \A u \in joinable : Ordered(todo[App], Ends, Stops(u))

\* The heartbeat thread of the publisher.
PublisherInv ==
  Live /\ "reconnected" \notin history =>
    /\ publisher.running <=> Beat \in joinable /\ ~publisher.cleanup_started
    /\ Has(todo[App], {Await(Beat)}) => publisher.cleanup_started
    /\ "interrupted" \notin history /\ publisher.cleanup_started /\ Beat \in joinable =>
         Has(todo[App], {Await(Beat)})

LifecycleInv ==
  process = "running" /\ "reconnected" \notin history =>
    /\ lifecycle = "disconnected" /\ Beat \in joinable =>
         Has(todo[App], {Call(Client("connected")), Call(Client("exit")),
                         Call(Client("unmap"))})
    /\ "interrupted" \in history =>
         Has(todo[App], {Call(Client("exit")), Call(Client("unmap"))})

\* Stopping the subscriber of x, one of whose threads is u.
Removals(x) == {Call(Client("clear")), Call(<<"erase", x>>)}

StopsReader(x, u) ==
  {Call(Client("disconnectAll")), Call(<<"disconnectSubscriber", x>>), Await(u)}

SubscriberInv ==
  Live /\ "unsubscribed" \notin history /\ "interrupted" \notin history =>
    \A x \in Exchanges : \A u \in Readers(x) \cap joinable :
      /\ subscriber[x].cleanup_started => Has(todo[App], {Await(u)})
      /\ Ordered(todo[App], Removals(x), StopsReader(x, u))

\* The steps of the workers, and what they leave alone.
AppKept ==
  /\ todo'[App] = todo[App]
  /\ UNCHANGED <<publisher, process, lifecycle>>
  /\ joinable' \subseteq joinable
  /\ Beat \in joinable => Beat \in joinable'
  /\ "unsubscribed" \in history \/ UNCHANGED <<joinable, subscriber>>
  /\ history' \subseteq history \cup {"reentry", "unsubscribed"}

\* A step of a worker leaves the main thread alone.
LEMMA WorkerSteps ==
  ASSUME TypesInv, StaticInv, ThreadInv, NEW t \in Workers, Run(t), Live'
  PROVE  AppKept
<1>1. t # App /\ t \in Threads /\ App \in Threads /\ Workers \subseteq Threads
  BY ThreadTypes
<1>2. \A s : Advances(t, s) => todo'[App] = todo[App]
  BY <1>1, Advance
<1>3. ASSUME todo[t] # <<>>
      PROVE  OfWorker(todo[t][1]) /\ ("unsubscribed" \notin history => Quiet(todo[t][1]))
  <2>1. 1 \in DOMAIN todo[t]
    BY <1>1, <1>3, FirstStep DEF TypesInv
  <2> QED
    BY <1>1, <2>1 DEF StaticInv, ThreadStatic
<1>4. ASSUME Invoke(t) \/ ForAll(t) \/ Callback(t) \/ Leave(t) PROVE AppKept
  <2>1. PICK s : Unfolds(t, s)
    BY <1>1, <1>4, InvokeUnfolds, ForAllUnfolds, CallbackUnfolds, LeaveUnfolds
  <2> QED
    BY <1>2, <2>1 DEF Unfolds, AppKept
<1>5. ASSUME Lock(t) \/ Unlock(t) PROVE AppKept
  <2>1. /\ Advances(t, <<>>)
        /\ UNCHANGED <<joinable, publisher, subscriber, process, signalled, lifecycle,
                       history>>
    BY <1>1, <1>5, LockSteps, UnlockSteps
  <2> QED
    BY <1>2, <2>1 DEF AppKept
<1>6. ASSUME Join(t) PROVE AppKept
  <2>1. PICK u \in Workers : todo[t][1] = Await(u) /\ joinable' = joinable \ {u}
    BY <1>1, <1>6, JoinSteps
  <2>2. /\ Advances(t, <<>>)
        /\ UNCHANGED <<owner, publisher, subscriber, process, signalled, lifecycle, history>>
    BY <1>1, <1>6, JoinSteps
  <2>3. ~Quiet(Await(u)) /\ (OfWorker(Await(u)) => u # Beat)
    BY DEF Quiet, OfWorker, Named, Await
  <2> QED
    BY <1>2, <1>3, <2>1, <2>2, <2>3 DEF AppKept, Advances
<1>7. ASSUME JoinItself(t) PROVE AppKept
  BY <1>1, <1>7, JoinItselfSteps DEF AppKept
<1>8. ASSUME StartPublisher(t) \/ StopPublisher(t) \/ StartSubscriber(t) \/ Return(t)
             \/ Unmap(t) \/ Destroy(t)
      PROVE  FALSE
  BY <1>1, <1>8, StartPublisherSteps, StopPublisherAdvances, StartSubscriberSteps, ReturnSteps,
     UnmapSteps, DestroySteps
<1>9. ASSUME StopSubscriber(t) PROVE AppKept
  <2>1. PICK x \in Exchanges : \E s :
          todo[t][1] = Call(<<"disconnectSubscriber", x>>) /\ Advances(t, s)
    BY <1>1, <1>9, StopSubscriberAdvances
  <2>2. ~Quiet(Call(<<"disconnectSubscriber", x>>))
    BY DEF Quiet, Named, Call
  <2> QED
    BY <1>2, <1>3, <1>9, <2>1, <2>2 DEF StopSubscriber, AppKept, Advances
<1>10. ASSUME Erase(t) PROVE AppKept
  <2>1. /\ \/ \E x \in Exchanges : todo[t][1] = Call(<<"erase", x>>)
           \/ ~OfWorker(todo[t][1])
        /\ UNCHANGED <<owner, joinable, publisher, signalled, lifecycle, history>>
        /\ \/ Advances(t, <<>>) /\ UNCHANGED process
           \/ Terminate
        /\ todo[t] # <<>>
    BY <1>1, <1>10, EraseSteps
  <2>2. ~Terminate
    BY DEF Terminate, End, Live
  <2>3. \A x \in Exchanges : ~Quiet(Call(<<"erase", x>>))
    BY DEF Quiet, Named, Call
  <2> QED
    BY <1>2, <1>3, <2>1, <2>2, <2>3 DEF AppKept
<1> QED
  BY <1>4, <1>5, <1>6, <1>7, <1>8, <1>9, <1>10 DEF Run, Step

\* The head of todo[App] as a method call.
LEMMA NamedItem ==
  ASSUME NEW h \in Items, Named(h, {"disconnect", "unsubscribe", "exit"})
  PROVE  \/ h = Call(Client("disconnect")) \/ h = Call(Client("exit"))
         \/ \E x \in Exchanges : h = Call(<<"unsubscribe", x>>)
BY DEF Items, Named, Methods, SubscriberMethods, ClientMethods, Call, Client, Caught

\* A thread that has started nothing of an end yet.
LEMMA StarterEnds ==
  ASSUME NEW q, StartsOnly(q), 1 \in DOMAIN q, Starter(q[1])
  PROVE  \A i \in DOMAIN q : ~Finishes(q[i])
<1>1. \A k : OfStart(k) => ~Finishes(k)
  BY DEF OfStart, Starter, Finishes, Named, Call, Client, Acquire, Release
<1> QED
  BY <1>1 DEF StartsOnly

\* A join that the main thread has to do comes first.
LEMMA JoinPending ==
  ASSUME TypesInv, StaticInv, NEW u, Has(todo[App], {Await(u)})
  PROVE  todo[App][1][1] = "join"
<1>1. PICK i \in DOMAIN todo[App] : todo[App][i] = Await(u)
  BY DEF Has
<1>2. todo[App][i][1] = "join" /\ 1 \in 1 .. i
  BY <1>1, ThreadTypes DEF Await, TypesInv
<1> QED
  BY <1>1, <1>2, ThreadTypes DEF StaticInv, ThreadStatic, JoinsFirst

\* The steps of the main thread that change what the invariants below are about.
ActiveMethods ==
  {"disconnect", "unsubscribe", "exit", "disconnectAll", "disconnectPublisher",
   "disconnectSubscriber", "clear", "erase", "disconnected", "unmap", "destroy"}

Active(i) == i[1] = "join" \/ Named(i, ActiveMethods)

\* The main thread does s in place of h.
Turns(h, s) ==
  /\ todo[App][1] = h
  /\ Spliced(todo'[App], s, todo[App])

\* Any other step.
Passes ==
  \E s :
    /\ Spliced(todo'[App], s, todo[App])
    /\ ~Active(todo[App][1])
    /\ \A i \in DOMAIN s : s[i][1] # "join" /\ ~Finishes(s[i])
    /\ UNCHANGED <<joinable, publisher, subscriber, process>>
    /\ \/ lifecycle' = "connected"
       \/ lifecycle' = lifecycle /\ todo[App][1] # Call(Client("connected"))

Expands ==
  /\ UNCHANGED <<joinable, publisher, subscriber, process, lifecycle>>
  /\ \/ Turns(Call(Client("disconnect")), DisconnectBody)
     \/ Turns(Call(Client("exit")), ExitBody)
     \/ \E x \in Exchanges : Turns(Call(<<"unsubscribe", x>>), UnsubscribeBody(x))
     \/ \E s : /\ Turns(Call(Client("disconnectAll")), s)
               /\ \A x \in Present : Has(s, {Call(<<"disconnectSubscriber", x>>)})
               /\ \A i \in DOMAIN s : s[i][1] # "join" /\ ~Finishes(s[i])

Joins ==
  /\ \E u \in Workers : Turns(Await(u), <<>>) /\ joinable' = joinable \ {u}
  /\ UNCHANGED <<publisher, subscriber, process, lifecycle>>

LaunchesPublisher ==
  /\ Turns(Call(Client("startPublisher")), <<>>)
  /\ publisher' = [publisher EXCEPT !.running = TRUE]
  /\ publisher.cleanup_started => "reconnected" \in history'
  /\ ~publisher.running /\ Beat \notin joinable
  /\ joinable' = joinable \cup {Beat}
  /\ UNCHANGED <<subscriber, process, lifecycle>>

StopsPublisher ==
  /\ \/ /\ publisher.cleanup_started /\ UNCHANGED publisher
        /\ Turns(Call(Client("disconnectPublisher")), <<>>)
     \/ /\ publisher' = [running |-> FALSE, cleanup_started |-> TRUE]
        /\ Turns(Call(Client("disconnectPublisher")), <<Await(Beat)>>)
  /\ UNCHANGED <<joinable, subscriber, process, lifecycle>>

LaunchesSubscriber ==
  /\ \E x \in Exchanges :
       /\ Turns(Call(<<"startSubscriber", x>>), <<>>)
       /\ ~subscriber[x].present
       /\ subscriber' = [subscriber EXCEPT ![x] =
            [present |-> TRUE, running |-> TRUE, cleanup_started |-> FALSE]]
       /\ joinable' = joinable \cup Readers(x)
  /\ UNCHANGED <<publisher, process, lifecycle>>

StopsSubscriber ==
  /\ \E x \in Exchanges :
       \/ /\ ~subscriber[x].present \/ subscriber[x].cleanup_started
          /\ Turns(Call(<<"disconnectSubscriber", x>>), <<>>) /\ subscriber' = subscriber
       \/ /\ Turns(Call(<<"disconnectSubscriber", x>>), AwaitReaders(x))
          /\ subscriber' = [subscriber EXCEPT ![x] =
               [present |-> TRUE, running |-> FALSE, cleanup_started |-> TRUE]]
  /\ UNCHANGED <<joinable, publisher, process, lifecycle>>

Removes ==
  /\ \E S \in SUBSET Exchanges :
       /\ \/ \E x \in Exchanges : Turns(Call(<<"erase", x>>), <<>>) /\ S = {x}
          \/ Turns(Call(Client("clear")), <<>>) /\ S = Exchanges
       /\ subscriber' = [x \in Exchanges |-> IF x \in S THEN NoSubscriber ELSE subscriber[x]]
       /\ \A x \in S : Readers(x) \cap joinable = {}
  /\ UNCHANGED <<joinable, publisher, process, lifecycle>>

Disconnects ==
  /\ Turns(Call(Client("disconnected")), <<>>) /\ lifecycle' = "disconnected"
  /\ UNCHANGED <<joinable, publisher, subscriber, process>>

Unmaps ==
  /\ Turns(Call(Client("unmap")), <<>>) /\ process' = "unmapped"
  /\ UNCHANGED <<joinable, publisher, subscriber, lifecycle>>

AppTurns ==
  Passes \/ Expands \/ Joins \/ LaunchesPublisher \/ StopsPublisher \/ LaunchesSubscriber
    \/ StopsSubscriber \/ Removes \/ Disconnects \/ Unmaps

\* What the main thread does is one of these.
LEMMA AppSteps ==
  ASSUME TypesInv, StaticInv, Run(App), Live'
  PROVE  AppTurns
<1>1. App \in Threads
  BY ThreadTypes
<1>2. ASSUME NEW s, Advances(App, s) PROVE Spliced(todo'[App], s, todo[App])
  BY <1>1, <1>2, Advance
<1>3. /\ \A n : Named(Call(Client(n)), ActiveMethods) <=> n \in ActiveMethods
      /\ \A n : Call(Client(n))[1] = "call"
      /\ \A n, x : Named(Call(<<n, x>>), ActiveMethods) <=> n \in ActiveMethods
      /\ \A n, x : Call(<<n, x>>)[1] = "call"
      /\ \A l : Acquire(l)[1] = "lock" /\ Release(l)[1] = "unlock"
  BY DEF Named, Call, Client, Acquire, Release
<1>4. ASSUME Invoke(App) \/ ForAll(App) \/ Callback(App) \/ Leave(App) PROVE AppTurns
  <2>1. PICK s : Unfolds(App, s)
    BY <1>1, <1>4, InvokeUnfolds, ForAllUnfolds, CallbackUnfolds, LeaveUnfolds
  <2> DEFINE h == todo[App][1]
  <2>2. Spliced(todo'[App], s, todo[App]) /\ Fits(h, s) /\ h \in Items
    BY <1>1, <1>2, <2>1, FirstStep DEF Unfolds, Advances, TypesInv
  <2>3. /\ UNCHANGED <<joinable, publisher, subscriber, process, lifecycle>>
        /\ h[1] \in {"call", "catch"} /\ ~Named(h, FlagMethods)
    BY <2>1 DEF Unfolds
  <2>4. CASE Named(h, {"disconnect", "unsubscribe", "exit"})
    <3>1. \/ h = Call(Client("disconnect")) /\ s = DisconnectBody
          \/ h = Call(Client("exit")) /\ s = ExitBody
          \/ \E x \in Exchanges : h = Call(<<"unsubscribe", x>>) /\ s = UnsubscribeBody(x)
      BY <2>1, <2>2, <2>4, NamedItem DEF Unfolds
    <3> QED
      BY <2>2, <2>3, <3>1 DEF AppTurns, Expands, Turns
  <2>5. CASE ~Named(h, {"disconnect", "unsubscribe", "exit"})
    <3>1. \A i \in DOMAIN s : s[i][1] # "join" /\ ~Finishes(s[i])
      <4>1. ~Named(h, {"disconnectPublisher", "disconnectSubscriber"})
        BY <2>3 DEF Named, FlagMethods
      <4> QED
        BY <2>2, <2>5, <4>1 DEF Fits
    <3>2. CASE h = Call(Client("disconnectAll"))
      <4>1. \A x \in Present : Has(s, {Call(<<"disconnectSubscriber", x>>)})
        BY <2>1, <3>2 DEF Unfolds, Has
      <4> QED
        BY <2>2, <2>3, <3>1, <3>2, <4>1 DEF AppTurns, Expands, Turns
    <3>3. CASE h # Call(Client("disconnectAll"))
      <4>1. ~Named(h, {"disconnectAll"})
        BY <2>2, <3>3 DEF Named, Items, Methods, SubscriberMethods, ClientMethods, Call,
                          Client, Caught
      <4>2. ~Active(h)
        BY <2>3, <2>5, <4>1 DEF Active, ActiveMethods, Named, FlagMethods
      <4>3. h # Call(Client("connected"))
        BY <2>3 DEF Named, FlagMethods, Call, Client
      <4> QED
        BY <2>2, <2>3, <3>1, <4>2, <4>3 DEF AppTurns, Passes
    <3> QED
      BY <3>2, <3>3
  <2> QED
    BY <2>4, <2>5
<1>5. ASSUME NEW h, todo[App][1] = h, ~Active(h), h # Call(Client("connected")),
             Advances(App, <<>>),
             UNCHANGED <<joinable, publisher, subscriber, process, lifecycle>>
      PROVE  AppTurns
  <2>1. Spliced(todo'[App], <<>>, todo[App])
    BY <1>2, <1>5
  <2>2. \A i \in DOMAIN <<>> : FALSE
    OBVIOUS
  <2>3. Passes
    BY <1>5, <2>1, <2>2 DEF Passes
  <2> QED
    BY <2>3 DEF AppTurns
<1>6. ASSUME Lock(App) \/ Unlock(App) PROVE AppTurns
  <2>1. PICK l : todo[App][1] = Acquire(l) \/ todo[App][1] = Release(l)
    BY <1>1, <1>6, LockSteps, UnlockSteps
  <2>2. /\ Advances(App, <<>>)
        /\ UNCHANGED <<joinable, publisher, subscriber, process, lifecycle>>
    BY <1>1, <1>6, LockSteps, UnlockSteps
  <2>3. ~Active(todo[App][1]) /\ todo[App][1] # Call(Client("connected"))
    BY <2>1 DEF Active, Named, Acquire, Release, Call
  <2> QED
    BY <1>5, <2>2, <2>3
<1>7. ASSUME Join(App) PROVE AppTurns
  <2>1. Joins
    BY <1>1, <1>2, <1>7, JoinSteps DEF Joins, Turns
  <2> QED
    BY <2>1 DEF AppTurns
<1>8. ASSUME JoinItself(App) PROVE FALSE
  BY <1>1, <1>8, JoinItselfSteps
<1>9. ASSUME StartPublisher(App) PROVE AppTurns
  <2>1. UNCHANGED <<subscriber, lifecycle>>
    BY <1>9 DEF StartPublisher
  <2>2. CASE publisher.running /\ Advances(App, <<>>) /\ UNCHANGED <<joinable, process>>
    <3>1. publisher' = publisher
      BY <1>1, <1>9, <2>2, StartPublisherSteps DEF TypesInv
    <3>2. /\ ~Active(Call(Client("startPublisher")))
          /\ Call(Client("startPublisher")) # Call(Client("connected"))
      BY DEF Active, ActiveMethods, Named, Call, Client
    <3> QED
      BY <1>1, <1>5, <1>9, <2>1, <2>2, <3>1, <3>2, StartPublisherSteps
  <2>3. CASE Terminate
    BY <2>3 DEF Terminate, End, Live
  <2>4. CASE /\ ~publisher.running /\ Beat \notin joinable /\ Launched(BeatLoop)
             /\ joinable' = joinable \cup {Beat} /\ UNCHANGED process
    <3>1. /\ todo[App][1] = Call(Client("startPublisher"))
          /\ publisher' = [publisher EXCEPT !.running = TRUE]
          /\ publisher.cleanup_started => "reconnected" \in history'
      BY <1>1, <1>9, StartPublisherSteps
    <3>2. Spliced(todo'[App], <<>>, todo[App])
      BY <2>4 DEF Launched
    <3> QED
      BY <2>1, <2>4, <3>1, <3>2 DEF AppTurns, LaunchesPublisher, Turns
  <2> QED
    BY <1>1, <1>9, <2>2, <2>3, <2>4, StartPublisherSteps
<1>10. ASSUME StopPublisher(App) PROVE AppTurns
  <2>1. UNCHANGED <<joinable, subscriber, process, lifecycle>>
    BY <1>10 DEF StopPublisher
  <2>2. StopsPublisher
    BY <1>1, <1>2, <1>10, <2>1, StopPublisherAdvances DEF StopsPublisher, Turns
  <2> QED
    BY <2>2 DEF AppTurns
<1>11. ASSUME StartSubscriber(App) PROVE AppTurns
  <2>1. UNCHANGED <<publisher, process, lifecycle>>
    BY <1>11 DEF StartSubscriber
  <2>2. PICK x \in Exchanges :
              /\ todo[App][1] = Call(<<"startSubscriber", x>>)
              /\ \/ Advances(App, <<>>) /\ UNCHANGED <<joinable, subscriber>>
                 \/ /\ ~subscriber[x].present /\ Launched(ReaderLoops(x))
                    /\ subscriber' = [subscriber EXCEPT ![x] =
                         [present |-> TRUE, running |-> TRUE, cleanup_started |-> FALSE]]
                    /\ joinable' = joinable \cup Readers(x)
    BY <1>1, <1>11, StartSubscriberSteps
  <2>3. CASE Advances(App, <<>>) /\ UNCHANGED <<joinable, subscriber>>
    <3>1. /\ ~Active(Call(<<"startSubscriber", x>>))
          /\ Call(<<"startSubscriber", x>>) # Call(Client("connected"))
      BY DEF Active, ActiveMethods, Named, Call, Client
    <3> QED
      BY <1>5, <2>1, <2>2, <2>3, <3>1
  <2>4. CASE Launched(ReaderLoops(x))
    <3>1. Spliced(todo'[App], <<>>, todo[App])
      BY <2>4 DEF Launched
    <3> QED
      BY <1>5, <2>1, <2>2, <2>3, <3>1 DEF AppTurns, LaunchesSubscriber, Turns
  <2> QED
    BY <2>2, <2>3, <2>4
<1>12. ASSUME StopSubscriber(App) PROVE AppTurns
  <2>1. UNCHANGED <<joinable, publisher, process, lifecycle>>
    BY <1>12 DEF StopSubscriber
  <2>2. StopsSubscriber
    BY <1>1, <1>2, <1>12, <2>1, StopSubscriberAdvances DEF StopsSubscriber, Turns
  <2> QED
    BY <2>2 DEF AppTurns
<1>13. ASSUME Erase(App) PROVE AppTurns
  <2>1. ~Terminate
    BY DEF Terminate, End, Live
  <2>2. PICK S \in SUBSET Exchanges :
           /\ \/ \E x \in Exchanges : todo[App][1] = Call(<<"erase", x>>) /\ S = {x}
              \/ todo[App][1] = Call(Client("clear")) /\ S = Exchanges
           /\ subscriber' = [x \in Exchanges |->
                               IF x \in S THEN NoSubscriber ELSE subscriber[x]]
           /\ UNCHANGED <<joinable, publisher, process, lifecycle>>
           /\ \A x \in S : Readers(x) \cap joinable = {}
           /\ Spliced(todo'[App], <<>>, todo[App])
    BY <1>1, <1>2, <1>13, <2>1, EraseSteps
  <2>3. Removes
    BY <2>2 DEF Removes, Turns
  <2> QED
    BY <2>3 DEF AppTurns
<1>14. ASSUME Return(App) PROVE AppTurns
  <2>1. UNCHANGED <<joinable, publisher, subscriber, process>>
    BY <1>14 DEF Return
  <2>2. Spliced(todo'[App], <<>>, todo[App])
    BY <1>1, <1>2, <1>14, ReturnSteps
  <2>3. CASE todo[App][1] = Call(Client("connected")) /\ lifecycle' = "connected"
    <3>1. ~Active(Call(Client("connected")))
      BY DEF Active, ActiveMethods, Named, Call, Client
    <3>2. \A i \in DOMAIN <<>> : FALSE
      OBVIOUS
    <3> QED
      BY <2>1, <2>2, <2>3, <3>1, <3>2 DEF AppTurns, Passes
  <2>4. CASE todo[App][1] = Call(Client("disconnected")) /\ lifecycle' = "disconnected"
    BY <2>1, <2>2, <2>4 DEF AppTurns, Disconnects, Turns
  <2> QED
    BY <1>1, <1>14, <2>3, <2>4, ReturnSteps
<1>15. ASSUME Unmap(App) PROVE AppTurns
  <2>1. process' = "unmapped" /\ UNCHANGED <<joinable, publisher, subscriber, lifecycle>>
    BY <1>15 DEF Unmap
  <2>2. todo[App][1] = Call(Client("unmap")) /\ Spliced(todo'[App], <<>>, todo[App])
    BY <1>1, <1>2, <1>15, UnmapSteps
  <2> QED
    BY <2>1, <2>2 DEF AppTurns, Unmaps, Turns
<1>16. ASSUME Destroy(App) PROVE FALSE
  BY <1>1, <1>16, DestroySteps DEF Terminate, End, Live
<1> QED
  BY <1>4, <1>6, <1>7, <1>8, <1>9, <1>10, <1>11, <1>12, <1>13, <1>14, <1>15, <1>16
  DEF Run, Step

\* What the application, its end or a signal give the main thread to do.
CallsOnly ==
  \E q :
    /\ Commanded(q)
    /\ Idle(App) \/ "interrupted" \in history'
    /\ \A i \in DOMAIN q :
         /\ q[i][1] = "call"
         /\ ~Named(q[i], {"clear", "erase", "disconnected", "unmap", "destroy"})
         /\ q[i] = Call(Client("exit")) =>
              \/ joinable = {} \/ "untidy" \in history'
              \/ i = 2 /\ q[1] = Call(Client("disconnect"))
    /\ \/ Has(q, {Call(Client("exit"))})
       \/ Idle(App) /\ history' = history

\* A call, the end and a signal give the main thread such a sequence.
LEMMA AppCommands ==
  ASSUME TypesInv, AppCall \/ AppReturns \/ Signal
  PROVE  CallsOnly
<1> DEFINE names == {"clear", "erase", "disconnected", "unmap", "destroy"}
           exit == Call(Client("exit"))
<1>2. CASE AppCall
  <2>1. PICK m \in AppCalls : Commanded(<<Call(m)>>)
    BY <1>2, AppCallSteps
  <2>2. Idle(App) /\ history' = history
    BY <1>2, AppCallSteps
  <2> DEFINE c == Call(m)
             q == <<c>>
  <2>3. c[1] = "call" /\ ~Named(c, names) /\ c # exit
    BY DEF AppCalls, Named, Call, Client
  <2> HIDE DEF c
  <2>4. \A i \in DOMAIN q : q[i] = c
    OBVIOUS
  <2>5. Commanded(q)
    BY <2>1 DEF c
  <2> QED
    BY <2>2, <2>3, <2>4, <2>5 DEF CallsOnly
<1>3. CASE AppReturns
  <2> DEFINE q == <<exit>>
  <2>1. /\ Commanded(q) /\ Idle(App)
        /\ joinable = {} \/ "untidy" \in history'
    BY <1>3, AppReturnsSteps
  <2>2. exit[1] = "call" /\ ~Named(exit, names)
    BY DEF Named, Call, Client
  <2> HIDE DEF exit
  <2>3. \A i \in DOMAIN q : q[i] = exit
    OBVIOUS
  <2>4. Has(q, {exit})
    BY DEF Has
  <2> QED
    BY <2>1, <2>2, <2>3, <2>4 DEF CallsOnly, exit
<1>4. CASE Signal
  <2> DEFINE c == Call(Client("disconnect"))
             q == <<c, exit>>
  <2>1. Commanded(q) /\ (Idle(App) \/ "interrupted" \in history')
    BY <1>4, SignalSteps
  <2>2. /\ exit[1] = "call" /\ ~Named(exit, names)
        /\ c[1] = "call" /\ ~Named(c, names) /\ c # exit
    BY DEF Named, Call, Client
  <2> HIDE DEF exit, c
  <2>3. DOMAIN q = {1, 2} /\ q[1] = c /\ q[2] = exit
    OBVIOUS
  <2>4. Has(q, {exit})
    BY <2>3 DEF Has
  <2> HIDE DEF q
  <2> QED
    BY <2>1, <2>2, <2>3, <2>4 DEF CallsOnly, exit, c
<1> QED
  BY <1>2, <1>3, <1>4

-----------------------------------------------------------------------------
(***************************************************************************)
(* The heartbeat thread, and connect() and disconnect() of the client.     *)
(***************************************************************************)
\* Behind a method there is no join.
LEMMA NoJoins ==
  ASSUME TypesInv, StaticInv, NEW s, Spliced(todo'[App], s, todo[App]),
         todo[App][1][1] # "join", \A i \in DOMAIN s : s[i][1] # "join"
  PROVE  \A u : ~Has(todo[App], {Await(u)}) /\ ~Has(todo'[App], {Await(u)})
<1> SUFFICES ASSUME NEW u
             PROVE  ~Has(todo[App], {Await(u)}) /\ ~Has(todo'[App], {Await(u)})
  OBVIOUS
<1>1. ~Has(todo[App], {Await(u)})
  BY JoinPending
<1>2. \A k \in 2 .. Len(todo[App]) : k \in DOMAIN todo[App]
  BY DEF Spliced
<1>3. ~Has(s, {Await(u)})
  BY DEF Has, Await
<1> QED
  BY <1>1, <1>2, <1>3, SpliceHas DEF Has

\* What a step leaves of a sequence's steps.
LEMMA HasBehind ==
  ASSUME NEW r, NEW s, NEW q, Spliced(r, s, q), NEW S, q[1] \notin S
  PROVE  /\ Has(q, S) => Has(r, S)
         /\ Has(r, S) => Has(q, S) \/ Has(s, S)
<1>1. \A k \in 2 .. Len(q) : k \in DOMAIN q
  BY DEF Spliced
<1>2. \A k \in DOMAIN q : k = 1 \/ k \in 2 .. Len(q)
  BY DEF Spliced
<1>3. Has(q, S) <=> \E k \in 2 .. Len(q) : q[k] \in S
  BY <1>1, <1>2 DEF Has
<1> QED
  BY <1>3, SpliceHas

\* Bodies without a join.
LEMMA BodyJoins ==
  /\ \A i \in DOMAIN DisconnectBody : DisconnectBody[i][1] # "join"
  /\ \A i \in DOMAIN ExitBody : ExitBody[i][1] # "join"
  /\ \A x \in Exchanges : \A i \in DOMAIN UnsubscribeBody(x) :
       UnsubscribeBody(x)[i][1] # "join"
<1>1. \A h : Named(h, {"disconnect", "unsubscribe", "exit"})
               => ~Named(h, {"disconnectPublisher", "disconnectSubscriber"})
  BY DEF Named
<1>2. /\ Named(Call(Client("disconnect")), {"disconnect", "unsubscribe", "exit"})
      /\ Named(Call(Client("exit")), {"disconnect", "unsubscribe", "exit"})
      /\ \A x : Named(Call(<<"unsubscribe", x>>), {"disconnect", "unsubscribe", "exit"})
  BY DEF Named, Call, Client
<1>3. \A x \in Exchanges : FitsWell(Call(<<"unsubscribe", x>>), UnsubscribeBody(x))
  BY UnsubscribeFits
<1>4. /\ FitsWell(Call(Client("disconnect")), DisconnectBody)
      /\ FitsWell(Call(Client("exit")), ExitBody)
  BY DisconnectFits, ExitFits
<1> QED
  BY <1>1, <1>2, <1>3, <1>4 DEF FitsWell, Fits

\* Steps that start and wait for no thread of the publisher, and have no join after them.
LEMMA JoinlessTurns ==
  ASSUME TypesInv, StaticInv, Passes \/ Expands \/ Removes \/ Disconnects \/ Unmaps
  PROVE  /\ \A u : ~Has(todo[App], {Await(u)}) /\ ~Has(todo'[App], {Await(u)})
         /\ UNCHANGED <<joinable, publisher>>
<1>1. \A n, x : Call(<<n, x>>)[1] # "join" /\ Call(Client(n))[1] # "join"
  BY DEF Call
<1>2. \A i \in DOMAIN <<>> : FALSE
  OBVIOUS
<1>3. CASE Passes
  BY <1>3, NoJoins DEF Passes, Active
<1>4. CASE Expands
  <2>1. \E s, n, x : /\ Turns(Call(<<n, x>>), s)
                     /\ \A i \in DOMAIN s : s[i][1] # "join"
    BY <1>4, BodyJoins DEF Expands, Client
  <2> QED
    BY <1>1, <1>4, <2>1, NoJoins DEF Expands, Turns
<1>5. CASE Removes
  <2>1. \E n, x : Turns(Call(<<n, x>>), <<>>)
    BY <1>5 DEF Removes, Client
  <2> QED
    BY <1>1, <1>2, <1>5, <2>1, NoJoins DEF Removes, Turns
<1>6. CASE Disconnects \/ Unmaps
  <2>1. \E n, x : Turns(Call(<<n, x>>), <<>>)
    BY <1>6 DEF Disconnects, Unmaps, Client
  <2> QED
    BY <1>1, <1>2, <1>6, <2>1, NoJoins DEF Disconnects, Unmaps, Turns
<1> QED
  BY <1>3, <1>4, <1>5, <1>6

\* Every step keeps PublisherInv: disconnect() is once and for all.
LEMMA PublisherStep ==
  ASSUME TypesInv, StaticInv, PublisherInv, Live, history \subseteq history',
         AppKept \/ AppTurns \/ CallsOnly
  PROVE  PublisherInv'
<1> SUFFICES ASSUME "reconnected" \notin history'
             PROVE  /\ publisher'.running <=> Beat \in joinable' /\ ~publisher'.cleanup_started
                    /\ Has(todo'[App], {Await(Beat)}) => publisher'.cleanup_started
                    /\ "interrupted" \notin history' /\ publisher'.cleanup_started
                         /\ Beat \in joinable' => Has(todo'[App], {Await(Beat)})
  BY DEF PublisherInv
<1>1. /\ publisher.running <=> Beat \in joinable /\ ~publisher.cleanup_started
      /\ Has(todo[App], {Await(Beat)}) => publisher.cleanup_started
      /\ "interrupted" \notin history' /\ publisher.cleanup_started /\ Beat \in joinable =>
           Has(todo[App], {Await(Beat)})
  BY DEF PublisherInv
<1>2. /\ \A n, x : Call(<<n, x>>)[1] # "join" /\ Call(Client(n))[1] # "join"
      /\ \A u, v : Await(u) = Await(v) => u = v
  BY DEF Call, Await
<1>3. \A i \in DOMAIN <<>> : FALSE
  OBVIOUS
<1>4. CASE AppKept
  BY <1>1, <1>4 DEF AppKept
<1>5. CASE Passes \/ Expands \/ Removes \/ Disconnects \/ Unmaps
  BY <1>1, <1>5, JoinlessTurns
<1>6. CASE Joins
  <2>1. PICK u \in Workers : Turns(Await(u), <<>>) /\ joinable' = joinable \ {u}
    BY <1>6 DEF Joins
  <2>2. CASE u = Beat
    <3>1. Has(todo[App], {Await(Beat)})
      BY <2>1, <2>2 DEF Turns, Has, Spliced
    <3> QED
      BY <1>1, <1>6, <2>1, <2>2, <3>1 DEF Joins
  <2>3. CASE u # Beat
    <3>1. Has(todo'[App], {Await(Beat)}) <=> Has(todo[App], {Await(Beat)})
      <4>1. todo[App][1] \notin {Await(Beat)} /\ ~Has(<<>>, {Await(Beat)})
        BY <1>2, <2>1, <2>3 DEF Turns, Has
      <4> QED
        BY <2>1, <4>1, HasBehind DEF Turns
    <3> QED
      BY <1>1, <1>6, <2>1, <2>3, <3>1 DEF Joins
  <2> QED
    BY <2>2, <2>3
<1>7. CASE LaunchesPublisher
  <2>1. ~Has(todo'[App], {Await(Beat)})
    BY <1>2, <1>3, <1>7, NoJoins DEF LaunchesPublisher, Turns
  <2>2. publisher'.running = TRUE /\ publisher'.cleanup_started = publisher.cleanup_started
    BY <1>7 DEF LaunchesPublisher, TypesInv
  <2> QED
    BY <1>7, <2>1, <2>2 DEF LaunchesPublisher
<1>8. CASE StopsPublisher
  <2>1. CASE /\ publisher.cleanup_started /\ UNCHANGED publisher
             /\ Turns(Call(Client("disconnectPublisher")), <<>>)
    <3>1. ~Has(todo'[App], {Await(Beat)}) /\ ~Has(todo[App], {Await(Beat)})
      BY <1>2, <1>3, <2>1, NoJoins DEF Turns
    <3> QED
      BY <1>1, <1>8, <2>1, <3>1 DEF StopsPublisher
  <2>2. CASE /\ publisher' = [running |-> FALSE, cleanup_started |-> TRUE]
             /\ Turns(Call(Client("disconnectPublisher")), <<Await(Beat)>>)
    <3>1. Has(<<Await(Beat)>>, {Await(Beat)})
      BY AwaitFits DEF Has
    <3>2. Has(todo'[App], {Await(Beat)})
      BY <2>2, <3>1, SpliceHas DEF Turns
    <3>3. publisher'.running = FALSE /\ publisher'.cleanup_started = TRUE
      BY <2>2
    <3> QED
      BY <3>2, <3>3
  <2> QED
    BY <1>8, <2>1, <2>2 DEF StopsPublisher
<1>9. CASE LaunchesSubscriber
  <2>1. PICK x \in Exchanges : /\ Turns(Call(<<"startSubscriber", x>>), <<>>)
                               /\ joinable' = joinable \cup Readers(x)
    BY <1>9 DEF LaunchesSubscriber
  <2>2. ~Has(todo'[App], {Await(Beat)}) /\ ~Has(todo[App], {Await(Beat)})
    BY <1>2, <1>3, <2>1, NoJoins DEF Turns
  <2> QED
    BY <1>1, <1>9, <2>1, <2>2, ThreadTypes DEF LaunchesSubscriber
<1>10. CASE StopsSubscriber
  <2>1. PICK x, s :
          /\ x \in Exchanges /\ s \in {<<>>, AwaitReaders(x)}
          /\ Turns(Call(<<"disconnectSubscriber", x>>), s)
    BY <1>10 DEF StopsSubscriber
  <2>2. ~Has(s, {Await(Beat)})
    <3>1. <<"message", x>> # Beat /\ <<"watch", x>> # Beat
      BY DEF Beat, Client
    <3>2. \A i \in DOMAIN AwaitReaders(x) : AwaitReaders(x)[i] # Await(Beat)
      BY <1>2, <2>1, <3>1, AwaitReadersFits
    <3>3. \A i \in DOMAIN s : s[i] # Await(Beat)
      BY <1>3, <2>1, <3>2
    <3> QED
      BY <3>3 DEF Has
  <2>3. ~Has(todo[App], {Await(Beat)})
    BY <1>2, <2>1, JoinPending DEF Turns
  <2>4. ~Has(todo'[App], {Await(Beat)})
    <3>1. todo[App][1] \notin {Await(Beat)}
      BY <2>1 DEF Turns, Call, Await
    <3> QED
      BY <2>1, <2>2, <2>3, <3>1, HasBehind DEF Turns
  <2> QED
    BY <1>1, <1>10, <2>3, <2>4 DEF StopsSubscriber
<1>11. CASE CallsOnly
  <2>1. PICK q : /\ Commanded(q) /\ (Idle(App) \/ "interrupted" \in history')
                 /\ \A i \in DOMAIN q : q[i][1] = "call"
    BY <1>11 DEF CallsOnly
  <2>2. ~Has(todo'[App], {Await(Beat)})
    BY <2>1 DEF Has, Await, Commanded
  <2>3. Idle(App) => ~Has(todo[App], {Await(Beat)})
    BY <1>3 DEF Idle, Has
  <2> QED
    BY <1>1, <2>1, <2>2, <2>3 DEF Commanded
<1> QED
  BY <1>4, <1>5, <1>6, <1>7, <1>8, <1>9, <1>10, <1>11 DEF AppTurns

\* Only the signal interrupts.
Uninterrupted == "interrupted" \in history' => "interrupted" \in history

\* No step of a thread is an interruption.
LEMMA RunHistory ==
  ASSUME NEW t \in Threads, Run(t)
  PROVE  Uninterrupted
<1>1. CASE \/ Invoke(t) \/ ForAll(t) \/ Lock(t) \/ Unlock(t) \/ Leave(t) \/ Join(t)
            \/ JoinItself(t) \/ StopPublisher(t) \/ StartSubscriber(t) \/ StopSubscriber(t)
  BY <1>1 DEF Invoke, ForAll, Lock, Unlock, Leave, Join, JoinItself, StopPublisher,
              StartSubscriber, StopSubscriber, Uninterrupted
<1>2. CASE Callback(t)
  BY <1>2 DEF Callback, ComeUp, Uninterrupted
<1>3. CASE StartPublisher(t)
  BY <1>3 DEF StartPublisher, ComeUp, Uninterrupted
<1>4. CASE Erase(t) \/ Return(t) \/ Unmap(t) \/ Destroy(t)
  BY <1>4 DEF Erase, Remove, Return, Unmap, Destroy, Uninterrupted
<1> QED
  BY <1>1, <1>2, <1>3, <1>4 DEF Run, Step

\* Every step of the system, as the main thread sees it.
LEMMA NextTurns ==
  ASSUME TypesInv, StaticInv, ThreadInv, [ClientNext]_vars, Live'
  PROVE  ((AppKept \/ AppTurns) /\ Uninterrupted) \/ CallsOnly
<1>1. ASSUME NEW t \in Threads, Run(t) PROVE (AppKept \/ AppTurns) /\ Uninterrupted
  BY <1>1, WorkerSteps, AppSteps, RunHistory DEF Threads
<1>2. CASE UNCHANGED vars
  BY <1>2 DEF vars, flags, AppKept, Uninterrupted
<1> QED
  BY <1>1, <1>2, AppCommands DEF ClientNext

\* The first step comes after nothing.
LEMMA HeadOrdered ==
  ASSUME NEW r, NEW s, NEW q, Spliced(r, s, q), NEW A, NEW B, Ordered(q, A, B)
  PROVE  q[1] \notin A
BY DEF Ordered, Spliced

\* Every step keeps LifecycleInv.
LEMMA LifecycleStep ==
  ASSUME TypesInv, StaticInv, ShutdownInv, LifecycleInv, Live, history \subseteq history',
         ((AppKept \/ AppTurns) /\ Uninterrupted) \/ CallsOnly
  PROVE  LifecycleInv'
<1> DEFINE E == {Call(Client("connected")), Call(Client("exit")), Call(Client("unmap"))}
           F == {Call(Client("exit")), Call(Client("unmap"))}
<1>1. /\ \A n, x : Call(<<n, x>>) \in E => n \in {"connected", "exit", "unmap"}
      /\ \A n : Call(Client(n)) \in E => n \in {"connected", "exit", "unmap"}
      /\ \A n : Call(Client(n)) \in F => n \in {"exit", "unmap"}
      /\ \A u : Await(u) \notin E
      /\ \A i : i \in F => i \in E
      /\ \A i : i \in E /\ ~Active(i) => i = Call(Client("connected"))
      /\ Call(Client("connected")) \notin F
  BY DEF Call, Await, Client, Active, ActiveMethods, Named
<1>2. \A q : Has(q, F) => Has(q, E)
  BY <1>1 DEF Has
<1> SUFFICES ASSUME process' = "running", "reconnected" \notin history'
             PROVE  /\ lifecycle' = "disconnected" /\ Beat \in joinable' => Has(todo'[App], E)
                    /\ "interrupted" \in history' => Has(todo'[App], F)
  BY DEF LifecycleInv
<1> HIDE DEF E, F
<1>3. ASSUME process = "running"
      PROVE  /\ lifecycle = "disconnected" /\ Beat \in joinable => Has(todo[App], E)
             /\ "interrupted" \in history => Has(todo[App], F)
  BY <1>3 DEF LifecycleInv, E, F
<1>4. \A x \in Exchanges : Beat \notin Readers(x)
  BY ThreadTypes
<1>5. CASE AppKept /\ Uninterrupted
  BY <1>3, <1>5 DEF AppKept, Uninterrupted
<1>6. ASSUME NEW s, Spliced(todo'[App], s, todo[App]), process = "running", Uninterrupted,
             Beat \in joinable' => Beat \in joinable, todo[App][1] \notin E,
             lifecycle' \in {lifecycle, "connected"}
      PROVE  /\ lifecycle' = "disconnected" /\ Beat \in joinable' => Has(todo'[App], E)
             /\ "interrupted" \in history' => Has(todo'[App], F)
  <2>1. todo[App][1] \notin F
    BY <1>1, <1>6
  <2> QED
    BY <1>3, <1>6, <2>1, HasBehind DEF Uninterrupted
<1>7. CASE Uninterrupted /\ Passes
  <2>1. process = "running"
    BY <1>7 DEF Passes
  <2>2. PICK s : /\ Spliced(todo'[App], s, todo[App]) /\ ~Active(todo[App][1])
                 /\ \/ lifecycle' = "connected"
                    \/ lifecycle' = lifecycle /\ todo[App][1] # Call(Client("connected"))
    BY <1>7 DEF Passes
  <2>3. CASE todo[App][1] \notin E
    BY <1>6, <1>7, <2>1, <2>2, <2>3 DEF Passes
  <2>4. CASE todo[App][1] \in E
    <3>1. todo[App][1] \notin F /\ lifecycle' = "connected"
      BY <1>1, <2>2, <2>4
    <3> QED
      BY <1>3, <1>7, <2>1, <2>2, <3>1, HasBehind DEF Uninterrupted
  <2> QED
    BY <2>3, <2>4
<1>8. CASE Uninterrupted /\ Expands
  <2>1. process = "running" /\ UNCHANGED <<joinable, lifecycle>>
    BY <1>8 DEF Expands
  <2>2. CASE Turns(Call(Client("exit")), ExitBody)
    <3>1. Has(ExitBody, F)
      BY ExitFits DEF Has, F
    <3> QED
      BY <1>2, <2>2, <3>1, SpliceHas DEF Turns
  <2>3. ASSUME NEW n \in {"disconnect", "unsubscribe", "disconnectAll"}, NEW x, NEW s,
               Turns(Call(<<n, x>>), s)
        PROVE  /\ lifecycle' = "disconnected" /\ Beat \in joinable' => Has(todo'[App], E)
               /\ "interrupted" \in history' => Has(todo'[App], F)
    <3>1. todo[App][1] \notin E
      BY <1>1, <2>3 DEF Turns
    <3> QED
      BY <1>6, <1>8, <2>1, <2>3, <3>1 DEF Turns
  <2> QED
    BY <1>8, <2>2, <2>3 DEF Expands, Client
<1>9. CASE Uninterrupted /\ Joins
  <2>1. PICK u : Turns(Await(u), <<>>) /\ joinable' = joinable \ {u}
    BY <1>9 DEF Joins
  <2> QED
    BY <1>1, <1>6, <1>9, <2>1 DEF Joins, Turns
<1>10. CASE Uninterrupted /\ LaunchesPublisher
  <2>1. /\ Turns(Call(Client("startPublisher")), <<>>) /\ process = "running"
        /\ UNCHANGED lifecycle
    BY <1>10 DEF LaunchesPublisher
  <2>2. Has(todo'[App], E)
    <3>1. ConnectedLater(todo[App]) /\ 1 \in DOMAIN todo[App]
      BY <2>1, ThreadTypes DEF StaticInv, ThreadStatic, Turns, Spliced
    <3>2. PICK k \in DOMAIN todo[App] : 1 < k /\ todo[App][k] = Call(Client("connected"))
      BY <2>1, <3>1 DEF ConnectedLater, Turns
    <3>3. k \in 2 .. Len(todo[App]) /\ todo[App][k] \in E
      BY <2>1, <3>2 DEF Turns, Spliced, E
    <3> QED
      BY <2>1, <3>3, SpliceHas DEF Turns
  <2>3. "interrupted" \in history' => Has(todo'[App], F)
    <3>1. todo[App][1] \notin F
      BY <1>1, <2>1 DEF Turns
    <3> QED
      BY <1>3, <1>10, <2>1, <3>1, HasBehind DEF Turns, Uninterrupted
  <2> QED
    BY <2>2, <2>3
<1>11. CASE Uninterrupted /\ StopsPublisher
  <2>1. PICK s : Turns(Call(Client("disconnectPublisher")), s)
    BY <1>11 DEF StopsPublisher
  <2> QED
    BY <1>1, <1>6, <1>11, <2>1 DEF StopsPublisher, Turns
<1>12. CASE Uninterrupted /\ LaunchesSubscriber
  <2>1. PICK x \in Exchanges : /\ Turns(Call(<<"startSubscriber", x>>), <<>>)
                               /\ joinable' = joinable \cup Readers(x)
    BY <1>12 DEF LaunchesSubscriber
  <2> QED
    BY <1>1, <1>4, <1>6, <1>12, <2>1 DEF LaunchesSubscriber, Turns
<1>13. CASE Uninterrupted /\ StopsSubscriber
  <2>1. PICK x, s : Turns(Call(<<"disconnectSubscriber", x>>), s)
    BY <1>13 DEF StopsSubscriber
  <2> QED
    BY <1>1, <1>6, <1>13, <2>1 DEF StopsSubscriber, Turns
<1>14. CASE Uninterrupted /\ Removes
  <2>1. PICK n \in {"erase", "clear"} : \E x : Turns(Call(<<n, x>>), <<>>)
    BY <1>14 DEF Removes, Client
  <2> QED
    BY <1>1, <1>6, <1>14, <2>1 DEF Removes, Turns
<1>15. CASE Uninterrupted /\ Disconnects
  <2>1. Turns(Call(Client("disconnected")), <<>>) /\ UNCHANGED <<joinable, process>>
    BY <1>15 DEF Disconnects
  <2>2. todo[App][1] \notin E /\ todo[App][1] \notin F
    BY <1>1, <2>1 DEF Turns
  <2>3. CASE "interrupted" \in history
    BY <1>2, <1>3, <2>1, <2>2, <2>3, HasBehind DEF Turns
  <2>4. CASE "interrupted" \notin history
    <3>1. ASSUME Beat \in joinable PROVE FALSE
      <4>1. Ordered(todo[App], Ends, Stops(Beat))
        BY <2>4, <3>1 DEF ShutdownInv
      <4>2. todo[App][1] \in Ends
        BY <2>1 DEF Turns, Ends
      <4> QED
        BY <2>1, <4>1, <4>2, HeadOrdered DEF Turns
    <3> QED
      BY <1>15, <2>1, <2>4, <3>1 DEF Uninterrupted
  <2> QED
    BY <2>3, <2>4
<1>16. CASE Unmaps
  BY <1>16 DEF Unmaps
<1>17. CASE CallsOnly
  <2>1. PICK q : /\ Commanded(q)
                 /\ \/ Has(q, {Call(Client("exit"))})
                    \/ Idle(App) /\ history' = history
    BY <1>17 DEF CallsOnly
  <2>2. CASE Has(q, {Call(Client("exit"))})
    <3>1. Has(q, F)
      BY <2>2 DEF Has, F
    <3> QED
      BY <1>2, <2>1, <3>1 DEF Commanded
  <2>3. CASE Idle(App) /\ history' = history
    <3>1. ~Has(todo[App], E) /\ ~Has(todo[App], F)
      BY <2>3 DEF Idle, Has
    <3> QED
      BY <1>3, <2>1, <2>3, <3>1 DEF Commanded
  <2> QED
    BY <2>1, <2>2, <2>3
<1> QED
  BY <1>5, <1>7, <1>8, <1>9, <1>10, <1>11, <1>12, <1>13, <1>14, <1>15, <1>16, <1>17
  DEF AppTurns

-----------------------------------------------------------------------------
(***************************************************************************)
(* Every thread is stopped before the process ends.                        *)
(***************************************************************************)
\* What is an end, and what stops u.
LEMMA EndNames ==
  /\ \A i \in Ends : Finishes(i) /\ (i = Call(Client("destroy"))
                       \/ Named(i, {"disconnected", "unmap", "exit"}))
  /\ Call(Client("destroy")) \in Ends /\ Call(Client("disconnected")) \in Ends
  /\ "untidy" \notin history =>
       Call(Client("unmap")) \in Ends /\ Call(Client("exit")) \in Ends
  /\ \A u : \A i \in Stops(u) :
       /\ Active(i)
       /\ \/ i = Call(Client("disconnect"))
          \/ u = Beat /\ (i = Call(Client("disconnectPublisher")) \/ i = Await(Beat))
          \/ u # Beat /\ i = Call(Client("clear"))
  /\ \A u : Call(Client("disconnect")) \in Stops(u)
  /\ Call(Client("disconnectPublisher")) \in Stops(Beat) /\ Await(Beat) \in Stops(Beat)
  /\ \A u : u # Beat => Call(Client("clear")) \in Stops(u)
BY DEF Ends, Stops, Finishes, Named, Active, ActiveMethods, Call, Client, Await

\* The same after a step.
LEMMA EndNamesNext ==
  /\ \A i \in Ends' : Finishes(i) /\ (i = Call(Client("destroy"))
                       \/ Named(i, {"disconnected", "unmap", "exit"}))
  /\ Call(Client("disconnected")) \in Ends'
  /\ "untidy" \notin history' =>
       Call(Client("unmap")) \in Ends' /\ Call(Client("exit")) \in Ends'
  /\ "untidy" \in history' => Call(Client("exit")) \notin Ends'
  /\ history \subseteq history' => Ends' \subseteq Ends
BY DEF Ends, Finishes, Named, Call, Client

\* In a sequence without ends nothing has to come before them.
LEMMA NoEnds ==
  ASSUME NEW s, NEW A, NEW B, \A i \in DOMAIN s : s[i] \notin A
  PROVE  Ordered(s, A, B)
BY DEF Ordered

\* A thread that starts others has no end before it.
LEMMA StartEnds ==
  ASSUME StaticInv, NEW h, Starter(h), Turns(h, <<>>)
  PROVE  \A i \in DOMAIN todo'[App] : ~Finishes(todo'[App][i])
<1>1. StartsOnly(todo[App]) /\ 1 \in DOMAIN todo[App]
  BY ThreadTypes DEF StaticInv, ThreadStatic, Turns, Spliced
<1>2. \A i \in DOMAIN todo[App] : ~Finishes(todo[App][i])
  BY <1>1, StarterEnds DEF Turns
<1>3. \A i \in DOMAIN todo'[App] : \E k \in DOMAIN todo[App] : todo'[App][i] = todo[App][k]
  BY SplicePlaces DEF Turns
<1> QED
  BY <1>2, <1>3

\* Every step keeps ShutdownInv.
LEMMA ShutdownStep ==
  ASSUME TypesInv, StaticInv, PublisherInv, ShutdownInv, Live, history \subseteq history',
         AppKept \/ AppTurns \/ CallsOnly
  PROVE  ShutdownInv'
<1> SUFFICES ASSUME "interrupted" \notin history', "reconnected" \notin history',
                    NEW u \in joinable'
             PROVE  Ordered(todo'[App], Ends', Stops(u))
  BY DEF ShutdownInv, Stops
<1> DEFINE A == Ends'
           B == Stops(u)
           q == todo[App]
           r == todo'[App]
<1>1. ASSUME u \in joinable PROVE Ordered(q, A, B)
  <2>1. Ordered(q, Ends, B)
    BY <1>1 DEF ShutdownInv
  <2> QED
    BY <2>1, EndNamesNext DEF Ordered
<1> HIDE DEF A, B
<1>2. CASE AppKept
  BY <1>1, <1>2 DEF AppKept, A, B
<1>3. ASSUME NEW s, Spliced(r, s, q), u \in joinable, \A i \in DOMAIN s : s[i] \notin A,
             q[1] \notin B
      PROVE  Ordered(r, A, B)
  BY <1>1, <1>3, NoEnds, SpliceOrdered
<1>4. \A i \in DOMAIN <<>> : <<>>[i] \notin A
  OBVIOUS
<1>5. /\ \A i \in A : Finishes(i)
      /\ \A i \in A :
           i = Call(Client("destroy")) \/ Named(i, {"disconnected", "unmap", "exit"})
      /\ Call(Client("disconnected")) \in A
      /\ "untidy" \notin history' => Call(Client("exit")) \in A
      /\ "untidy" \in history' => Call(Client("exit")) \notin A
  BY EndNamesNext DEF A
<1>6. /\ \A i \in B : Active(i)
      /\ \A i \in B :
          \/ i = Call(Client("disconnect"))
          \/ u = Beat /\ (i = Call(Client("disconnectPublisher")) \/ i = Await(Beat))
          \/ u # Beat /\ i = Call(Client("clear"))
      /\ Call(Client("disconnect")) \in B
      /\ u = Beat => Call(Client("disconnectPublisher")) \in B /\ Await(Beat) \in B
      /\ u # Beat => Call(Client("clear")) \in B
  BY EndNames DEF B
<1>7. /\ \A n, x : Call(<<n, x>>) \in B => n \in {"disconnect", "disconnectPublisher", "clear"}
      /\ \A n : Call(Client(n)) \in B =>
           \/ n = "disconnect"
           \/ u = Beat /\ n = "disconnectPublisher"
           \/ u # Beat /\ n = "clear"
      /\ \A v : Await(v) \in B => u = Beat /\ v = u
      /\ \A n, x : Call(<<n, x>>) \in A => n \in {"destroy", "disconnected", "unmap", "exit"}
      /\ \A n : Call(Client(n)) \in A => n \in {"destroy", "disconnected", "unmap", "exit"}
      /\ \A i \in A : i[1] = "call"
  <2>1. \A i \in A : Named(i, {"destroy", "disconnected", "unmap", "exit"})
    BY <1>5 DEF Named, Call, Client
  <2>2. /\ \A n, x : Call(<<n, x>>) \in A => n \in {"destroy", "disconnected", "unmap", "exit"}
        /\ \A n : Call(Client(n)) \in A => n \in {"destroy", "disconnected", "unmap", "exit"}
        /\ \A i \in A : i[1] = "call"
    BY <2>1 DEF Named, Call, Client
  <2>3. \A n, x : Call(<<n, x>>) \in B => n \in {"disconnect", "disconnectPublisher", "clear"}
    BY <1>6 DEF Call, Client, Await
  <2>4. \A n : Call(Client(n)) \in B =>
           \/ n = "disconnect"
           \/ u = Beat /\ n = "disconnectPublisher"
           \/ u # Beat /\ n = "clear"
    BY <1>6 DEF Call, Client, Await
  <2>5. \A v : Await(v) \in B => u = Beat /\ v = u
    BY <1>6 DEF Call, Client, Await
  <2> QED
    BY <2>2, <2>3, <2>4, <2>5
<1>8. CASE Passes
  <2>1. PICK s : /\ Spliced(r, s, q) /\ ~Active(q[1])
                 /\ \A i \in DOMAIN s : ~Finishes(s[i])
                 /\ joinable' = joinable
    BY <1>8 DEF Passes
  <2>2. (\A i \in DOMAIN s : s[i] \notin A) /\ q[1] \notin B
    BY <1>5, <1>6, <2>1
  <2> QED
    BY <1>3, <2>1, <2>2 DEF A, B
<1>9. CASE Expands
  <2>0. u \in joinable
    BY <1>9 DEF Expands
  <2>1. CASE Turns(Call(Client("disconnect")), DisconnectBody)
    <3> DEFINE s == DisconnectBody
    <3>1. /\ DOMAIN s = 1 .. 6
          /\ s[1] = Call(Client("disconnectPublisher")) /\ s[2] = Acquire(Subscribers)
          /\ s[3] = Call(Client("disconnectAll")) /\ s[4] = Call(Client("clear"))
          /\ s[5] = Release(Subscribers)
      BY DisconnectFits
    <3> HIDE DEF s
    <3>2. \A i \in 1 .. 6 : i = 1 \/ i = 2 \/ i = 3 \/ i = 4 \/ i = 5 \/ i = 6
      OBVIOUS
    <3>3. \A l : Acquire(l) \notin A /\ Release(l) \notin A
      BY <1>7 DEF Acquire, Release
    <3>4. \A i \in DOMAIN s : s[i] \in A => i = 6
      BY <1>7, <3>1, <3>2, <3>3
    <3>5. \E j \in 1 .. 5 : s[j] \in B
      BY <1>6, <3>1
    <3>6. Ordered(s, A, B) /\ Has(s, B)
      BY <3>1, <3>4, <3>5 DEF Ordered, Has
    <3>7. Spliced(r, s, q)
      BY <2>1 DEF Turns, s
    <3> QED
      BY <1>1, <2>0, <3>6, <3>7, SpliceOrdered DEF A, B
  <2>2. CASE Turns(Call(Client("exit")), ExitBody)
    <3> DEFINE s == ExitBody
    <3>1. /\ DOMAIN s = 1 .. 3
          /\ s[1] = Call(Client("unmap")) /\ s[2] = Call(Client("disconnect"))
      BY ExitFits
    <3>2. Spliced(r, s, q) /\ q[1] = Call(Client("exit"))
      BY <2>2 DEF Turns
    <3> HIDE DEF s
    <3>3. Call(Client("exit")) \notin A
      BY <1>1, <2>0, <3>2, HeadOrdered
    <3>4. "untidy" \in history'
      BY <1>5, <3>3
    <3>5. s[1] \notin A
      BY <3>1, <3>4 DEF A, Ends, Call, Client
    <3>6. \A i \in 1 .. 3 : i = 1 \/ i = 2 \/ i = 3
      OBVIOUS
    <3>7. s[2] \notin A /\ s[2] \in B
      BY <1>6, <1>7, <3>1
    <3>8. \A i \in DOMAIN s : s[i] \in A => i = 3
      BY <3>1, <3>5, <3>6, <3>7
    <3>9. Ordered(s, A, B)
      BY <3>7, <3>8 DEF Ordered
    <3>10. q[1] \notin B
      BY <1>7, <3>2
    <3> QED
      BY <1>1, <2>0, <3>2, <3>9, <3>10, SpliceOrdered DEF A, B
  <2>3. ASSUME NEW x \in Exchanges, Turns(Call(<<"unsubscribe", x>>), UnsubscribeBody(x))
        PROVE  Ordered(r, A, B)
    <3> DEFINE s == UnsubscribeBody(x)
    <3>1. /\ DOMAIN s = 1 .. 4
          /\ s[1] = Acquire(Subscribers) /\ s[2] = Call(<<"disconnectSubscriber", x>>)
          /\ s[3] = Call(<<"erase", x>>) /\ s[4] = Release(Subscribers)
      BY UnsubscribeFits
    <3>2. \A l : Acquire(l) \notin A /\ Release(l) \notin A
      BY <1>7 DEF Acquire, Release
    <3>3. Spliced(r, s, q) /\ q[1] = Call(<<"unsubscribe", x>>)
      BY <2>3 DEF Turns
    <3> HIDE DEF s
    <3>4. \A i \in 1 .. 4 : i = 1 \/ i = 2 \/ i = 3 \/ i = 4
      OBVIOUS
    <3>5. \A i \in DOMAIN s : s[i] \notin A
      BY <1>7, <3>1, <3>2, <3>4
    <3>6. q[1] \notin B
      BY <1>7, <3>3
    <3> QED
      BY <1>3, <2>0, <3>3, <3>5, <3>6
  <2>4. ASSUME NEW s, Turns(Call(Client("disconnectAll")), s),
               \A i \in DOMAIN s : ~Finishes(s[i])
        PROVE  Ordered(r, A, B)
    <3>1. q[1] \notin B /\ \A i \in DOMAIN s : s[i] \notin A
      BY <1>5, <1>7, <2>4 DEF Turns
    <3> QED
      BY <1>3, <2>0, <2>4, <3>1 DEF Turns
  <2> QED
    BY <1>9, <2>1, <2>2, <2>3, <2>4 DEF Expands, A, B
<1>10. CASE Joins
  <2>1. PICK v : Turns(Await(v), <<>>) /\ joinable' = joinable \ {v}
    BY <1>10 DEF Joins
  <2>2. q[1] \notin B /\ u \in joinable
    BY <1>7, <2>1 DEF Turns
  <2> QED
    BY <1>3, <1>4, <2>1, <2>2 DEF Turns, A, B
<1>11. CASE LaunchesPublisher \/ LaunchesSubscriber
  <2>1. \E h : Starter(h) /\ Turns(h, <<>>)
    <3>1. Starter(Call(Client("startPublisher")))
          /\ \A x : Starter(Call(<<"startSubscriber", x>>))
      BY DEF Starter, Named, Call, Client
    <3> QED
      BY <1>11, <3>1 DEF LaunchesPublisher, LaunchesSubscriber
  <2>2. \A i \in DOMAIN r : r[i] \notin A
    BY <1>5, <2>1, StartEnds
  <2> QED
    BY <2>2, NoEnds DEF A, B
<1>12. CASE StopsPublisher
  <2>0. u \in joinable
    BY <1>12 DEF StopsPublisher
  <2>1. CASE publisher.cleanup_started /\ Turns(Call(Client("disconnectPublisher")), <<>>)
    <3>1. ASSUME u = Beat PROVE FALSE
      <4>1. Has(q, {Await(Beat)})
        BY <2>0, <2>1, <3>1 DEF PublisherInv
      <4>2. q[1][1] = "join"
        BY <4>1, JoinPending
      <4> QED
        BY <2>1, <4>2 DEF Turns, Call
    <3>2. q[1] \notin B
      BY <1>7, <2>1, <3>1 DEF Turns
    <3> QED
      BY <1>3, <1>4, <2>0, <2>1, <3>2 DEF Turns, A, B
  <2>2. CASE Turns(Call(Client("disconnectPublisher")), <<Await(Beat)>>)
    <3> DEFINE s == <<Await(Beat)>>
    <3>1. DOMAIN s = {1} /\ s[1] = Await(Beat)
      BY AwaitFits
    <3>2. Spliced(r, s, q) /\ q[1] = Call(Client("disconnectPublisher"))
      BY <2>2 DEF Turns
    <3> HIDE DEF s
    <3>3. \A i \in DOMAIN s : s[i] \notin A
      BY <1>7, <3>1 DEF Await
    <3>4. q[1] \in B => Has(s, B)
      BY <1>6, <1>7, <3>1, <3>2 DEF Has
    <3> QED
      BY <1>1, <2>0, <3>2, <3>3, <3>4, NoEnds, SpliceOrdered DEF A, B
  <2> QED
    BY <1>12, <2>1, <2>2 DEF StopsPublisher
<1>13. CASE StopsSubscriber
  <2>1. PICK x, s :
          /\ x \in Exchanges /\ s \in {<<>>, AwaitReaders(x)}
          /\ Turns(Call(<<"disconnectSubscriber", x>>), s)
    BY <1>13 DEF StopsSubscriber
  <2>2. \A i \in DOMAIN s : s[i] \notin A
    <3>1. \A v : Await(v) \notin A
      BY <1>7 DEF Await
    <3>2. \A i \in DOMAIN AwaitReaders(x) : AwaitReaders(x)[i] \notin A
      BY <2>1, <3>1, AwaitReadersFits
    <3> QED
      BY <1>4, <2>1, <3>2
  <2>3. q[1] \notin B /\ u \in joinable
    BY <1>7, <1>13, <2>1 DEF Turns, StopsSubscriber
  <2> QED
    BY <1>3, <2>1, <2>2, <2>3 DEF Turns, A, B
<1>14. CASE Removes
  <2>0. u \in joinable
    BY <1>14 DEF Removes
  <2>1. CASE \E x : Turns(Call(<<"erase", x>>), <<>>)
    <3>1. q[1] \notin B
      BY <1>7, <2>1 DEF Turns
    <3> QED
      BY <1>3, <1>4, <2>0, <2>1, <3>1 DEF Turns, A, B
  <2>2. CASE /\ Turns(Call(Client("clear")), <<>>)
             /\ \A x \in Exchanges : Readers(x) \cap joinable = {}
    <3>1. u = Beat
      BY <2>0, <2>2 DEF TypesInv, Workers, Readers
    <3>2. q[1] \notin B
      BY <1>7, <2>2, <3>1 DEF Turns
    <3> QED
      BY <1>3, <1>4, <2>0, <2>2, <3>2 DEF Turns, A, B
  <2> QED
    BY <1>14, <2>1, <2>2 DEF Removes
<1>15. CASE Disconnects
  <2>1. Turns(Call(Client("disconnected")), <<>>) /\ u \in joinable
    BY <1>15 DEF Disconnects
  <2>2. q[1] \notin A
    BY <1>1, <2>1, HeadOrdered DEF Turns
  <2> QED
    BY <1>5, <2>1, <2>2 DEF Turns
<1>16. CASE Unmaps
  <2>1. Turns(Call(Client("unmap")), <<>>) /\ u \in joinable
    BY <1>16 DEF Unmaps
  <2>2. q[1] \notin B
    BY <1>7, <2>1 DEF Turns
  <2> QED
    BY <1>3, <1>4, <2>1, <2>2 DEF Turns, A, B
<1>17. CASE CallsOnly
  <2>1. PICK p :
          /\ Commanded(p)
          /\ \A i \in DOMAIN p :
               /\ ~Named(p[i], {"clear", "erase", "disconnected", "unmap", "destroy"})
               /\ p[i] = Call(Client("exit")) =>
                    \/ joinable = {} \/ "untidy" \in history'
                    \/ i = 2 /\ p[1] = Call(Client("disconnect"))
    BY <1>17 DEF CallsOnly
  <2>2. ASSUME NEW i \in DOMAIN p, p[i] \in A PROVE \E j \in 1 .. i - 1 : p[j] \in B
    <3>1. p[i] = Call(Client("exit"))
      BY <2>1, <2>2 DEF Named, A, Ends, Call, Client
    <3>2. joinable # {}
      BY <2>1 DEF Commanded
    <3>3. i = 2 /\ p[1] \in B
      BY <1>5, <1>6, <2>1, <2>2, <3>1, <3>2
    <3> QED
      BY <3>3
  <2> QED
    BY <2>1, <2>2 DEF Commanded, Ordered, A, B
<1> QED
  BY <1>2, <1>8, <1>9, <1>10, <1>11, <1>12, <1>13, <1>14, <1>15, <1>16, <1>17 DEF AppTurns

-----------------------------------------------------------------------------
(***************************************************************************)
(* Every reader is joined before its subscriber goes.                      *)
(***************************************************************************)
\* What removes the subscriber of x, and what stops its reader u.
LEMMA ReaderNames ==
  ASSUME NEW x \in Exchanges, NEW u \in Readers(x)
  PROVE  /\ \A i \in Removals(x) : Finishes(i) /\ i[1] = "call"
                                   /\ Named(i, {"clear", "erase"})
         /\ \A i \in StopsReader(x, u) : Active(i)
         /\ \A n, y : Call(<<n, y>>) \in Removals(x) =>
              n = "clear" \/ (n = "erase" /\ y = x)
         /\ \A n : Call(Client(n)) \in Removals(x) => n = "clear" \/ n = "erase"
         /\ \A n, y : Call(<<n, y>>) \in StopsReader(x, u) =>
              n = "disconnectAll" \/ (n = "disconnectSubscriber" /\ y = x)
         /\ \A n : Call(Client(n)) \in StopsReader(x, u) =>
              n = "disconnectAll" \/ n = "disconnectSubscriber"
         /\ \A v : Await(v) \in StopsReader(x, u) => v = u
         /\ \A v : Await(v) \notin Removals(x)
         /\ \A l : Acquire(l) \notin Removals(x) /\ Release(l) \notin Removals(x)
         /\ Call(Client("disconnectAll")) \in StopsReader(x, u)
         /\ Call(<<"disconnectSubscriber", x>>) \in StopsReader(x, u)
         /\ Await(u) \in StopsReader(x, u)
         /\ u \in Workers /\ u # Beat
         /\ \A y \in Exchanges : y # x => u \notin Readers(y)
<1>1. u \in Workers /\ u # Beat /\ \A y \in Exchanges : y # x => u \notin Readers(y)
  BY DEF Readers, Workers, Beat, Client
<1>2. /\ \A i \in Removals(x) : Finishes(i) /\ i[1] = "call"
                                /\ Named(i, {"clear", "erase"})
      /\ \A n, y : Call(<<n, y>>) \in Removals(x) => n = "clear" \/ (n = "erase" /\ y = x)
      /\ \A n : Call(Client(n)) \in Removals(x) => n = "clear" \/ n = "erase"
      /\ \A v : Await(v) \notin Removals(x)
      /\ \A l : Acquire(l) \notin Removals(x) /\ Release(l) \notin Removals(x)
  BY DEF Removals, Finishes, Named, Call, Client, Await, Acquire, Release
<1>3. /\ \A i \in StopsReader(x, u) : Active(i)
      /\ \A n, y : Call(<<n, y>>) \in StopsReader(x, u) =>
           n = "disconnectAll" \/ (n = "disconnectSubscriber" /\ y = x)
      /\ \A n : Call(Client(n)) \in StopsReader(x, u) =>
           n = "disconnectAll" \/ n = "disconnectSubscriber"
      /\ \A v : Await(v) \in StopsReader(x, u) => v = u
  BY DEF StopsReader, Active, ActiveMethods, Named, Call, Client, Await
<1>4. /\ Call(Client("disconnectAll")) \in StopsReader(x, u)
      /\ Call(<<"disconnectSubscriber", x>>) \in StopsReader(x, u)
      /\ Await(u) \in StopsReader(x, u)
  BY DEF StopsReader
<1> QED
  BY <1>1, <1>2, <1>3, <1>4

\* Every step keeps SubscriberInv.
LEMMA SubscriberStep ==
  ASSUME TypesInv, StaticInv, ThreadInv, SubscriberInv, Live, history \subseteq history',
         AppKept \/ AppTurns \/ CallsOnly
  PROVE  SubscriberInv'
<1> SUFFICES ASSUME "unsubscribed" \notin history', "interrupted" \notin history',
                    NEW x \in Exchanges, NEW u \in Readers(x), u \in joinable'
             PROVE  /\ subscriber'[x].cleanup_started => Has(todo'[App], {Await(u)})
                    /\ Ordered(todo'[App], Removals(x), StopsReader(x, u))
  BY DEF SubscriberInv, Removals, StopsReader
<1> DEFINE A == Removals(x)
           B == StopsReader(x, u)
           q == todo[App]
           r == todo'[App]
           Goal == /\ subscriber'[x].cleanup_started => Has(r, {Await(u)})
                   /\ Ordered(r, A, B)
<1>1. ASSUME u \in joinable
      PROVE  /\ subscriber[x].cleanup_started => Has(q, {Await(u)})
             /\ Ordered(q, A, B)
             /\ subscriber[x].present
  BY <1>1 DEF SubscriberInv, ThreadInv, Present
<1>2. /\ \A i \in A : Finishes(i) /\ i[1] = "call" /\ Named(i, {"clear", "erase"})
      /\ \A i \in B : Active(i)
      /\ \A n, y : Call(<<n, y>>) \in A => n = "clear" \/ (n = "erase" /\ y = x)
      /\ \A n : Call(Client(n)) \in A => n = "clear" \/ n = "erase"
      /\ \A n, y : Call(<<n, y>>) \in B =>
           n = "disconnectAll" \/ (n = "disconnectSubscriber" /\ y = x)
      /\ \A n : Call(Client(n)) \in B => n = "disconnectAll" \/ n = "disconnectSubscriber"
      /\ \A v : Await(v) \in B => v = u
      /\ \A v : Await(v) \notin A
      /\ \A l : Acquire(l) \notin A /\ Release(l) \notin A
  BY ReaderNames
<1>3. /\ Call(Client("disconnectAll")) \in B /\ Call(<<"disconnectSubscriber", x>>) \in B
      /\ Await(u) \in B /\ u \in Workers /\ u # Beat
      /\ \A y \in Exchanges : y # x => u \notin Readers(y)
  BY ReaderNames
<1> HIDE DEF A, B
<1>4. ASSUME u \in joinable, q[1][1] # "join"
      PROVE  ~Has(q, {Await(u)}) /\ ~subscriber[x].cleanup_started
  BY <1>1, <1>4, JoinPending
<1>5. /\ \A n, y : Call(<<n, y>>)[1] # "join"
      /\ \A n : Call(Client(n))[1] # "join"
      /\ \A i \in DOMAIN <<>> : <<>>[i] \notin A
  BY DEF Call
<1>6. ASSUME NEW s, Spliced(r, s, q), u \in joinable, \A i \in DOMAIN s : s[i] \notin A,
             q[1] \notin B, q[1][1] # "join", subscriber'[x] = subscriber[x]
      PROVE  Goal
  <2>1. ~subscriber'[x].cleanup_started
    BY <1>4, <1>6
  <2>2. Ordered(r, A, B)
    BY <1>1, <1>6, NoEnds, SpliceOrdered
  <2> QED
    BY <2>1, <2>2
<1>7. CASE AppKept
  BY <1>1, <1>7 DEF AppKept, A, B
<1>8. CASE Passes
  <2>1. PICK s : /\ Spliced(r, s, q) /\ ~Active(q[1])
                 /\ \A i \in DOMAIN s : ~Finishes(s[i])
                 /\ UNCHANGED <<joinable, subscriber>>
    BY <1>8 DEF Passes
  <2>2. (\A i \in DOMAIN s : s[i] \notin A) /\ q[1] \notin B /\ q[1][1] # "join"
    BY <1>2, <2>1 DEF Active
  <2> QED
    BY <1>6, <2>1, <2>2 DEF A, B
<1>9. CASE Expands
  <2>0. u \in joinable /\ UNCHANGED subscriber
    BY <1>9 DEF Expands
  <2>1. CASE Turns(Call(Client("disconnect")), DisconnectBody)
    <3> DEFINE s == DisconnectBody
    <3>1. /\ DOMAIN s = 1 .. 6
          /\ s[1] = Call(Client("disconnectPublisher")) /\ s[2] = Acquire(Subscribers)
          /\ s[3] = Call(Client("disconnectAll")) /\ s[4] = Call(Client("clear"))
          /\ s[5] = Release(Subscribers) /\ s[6] = Call(Client("disconnected"))
      BY DisconnectFits
    <3>2. Spliced(r, s, q) /\ q[1] = Call(Client("disconnect"))
      BY <2>1 DEF Turns
    <3> HIDE DEF s
    <3>3. \A i \in 1 .. 6 : i = 1 \/ i = 2 \/ i = 3 \/ i = 4 \/ i = 5 \/ i = 6
      OBVIOUS
    <3>4. \A i \in DOMAIN s : s[i] \in A => i = 4
      BY <1>2, <3>1, <3>3
    <3>5. Ordered(s, A, B)
      BY <1>3, <3>1, <3>4 DEF Ordered
    <3>6. q[1] \notin B /\ q[1][1] # "join"
      BY <1>2, <1>5, <3>2
    <3>7. Ordered(r, A, B)
      BY <1>1, <2>0, <3>2, <3>5, <3>6, SpliceOrdered
    <3> QED
      BY <1>4, <2>0, <3>6, <3>7 DEF A, B
  <2>2. CASE Turns(Call(Client("exit")), ExitBody)
    <3> DEFINE s == ExitBody
    <3>1. /\ DOMAIN s = 1 .. 3
          /\ s[1] = Call(Client("unmap")) /\ s[2] = Call(Client("disconnect"))
          /\ s[3] = Call(Client("destroy"))
      BY ExitFits
    <3>2. Spliced(r, s, q) /\ q[1] = Call(Client("exit"))
      BY <2>2 DEF Turns
    <3> HIDE DEF s
    <3>3. \A i \in 1 .. 3 : i = 1 \/ i = 2 \/ i = 3
      OBVIOUS
    <3>4. \A i \in DOMAIN s : s[i] \notin A
      BY <1>2, <3>1, <3>3
    <3>5. q[1] \notin B /\ q[1][1] # "join"
      BY <1>2, <1>5, <3>2
    <3> QED
      BY <1>6, <2>0, <3>2, <3>4, <3>5 DEF A, B
  <2>3. ASSUME NEW y \in Exchanges, Turns(Call(<<"unsubscribe", y>>), UnsubscribeBody(y))
        PROVE  Goal
    <3> DEFINE s == UnsubscribeBody(y)
    <3>1. /\ DOMAIN s = 1 .. 4
          /\ s[1] = Acquire(Subscribers) /\ s[2] = Call(<<"disconnectSubscriber", y>>)
          /\ s[3] = Call(<<"erase", y>>) /\ s[4] = Release(Subscribers)
      BY UnsubscribeFits
    <3>2. Spliced(r, s, q) /\ q[1] = Call(<<"unsubscribe", y>>)
      BY <2>3 DEF Turns
    <3> HIDE DEF s
    <3>3. \A i \in 1 .. 4 : i = 1 \/ i = 2 \/ i = 3 \/ i = 4
      OBVIOUS
    <3>4. \A i \in DOMAIN s : s[i] \in A => i = 3 /\ y = x
      BY <1>2, <3>1, <3>3
    <3>5. Ordered(s, A, B)
      BY <1>3, <3>1, <3>4 DEF Ordered
    <3>6. q[1] \notin B /\ q[1][1] # "join"
      BY <1>2, <1>5, <3>2
    <3>7. Ordered(r, A, B)
      BY <1>1, <2>0, <3>2, <3>5, <3>6, SpliceOrdered
    <3> QED
      BY <1>4, <2>0, <3>6, <3>7 DEF A, B
  <2>4. ASSUME NEW s, Turns(Call(Client("disconnectAll")), s),
               \A y \in Present : Has(s, {Call(<<"disconnectSubscriber", y>>)}),
               \A i \in DOMAIN s : ~Finishes(s[i])
        PROVE  Goal
    <3>1. \A i \in DOMAIN s : s[i] \notin A
      BY <1>2, <2>4
    <3>2. x \in Present
      BY <1>1, <2>0 DEF Present
    <3>3. Has(s, B)
      BY <1>3, <2>4, <3>2 DEF Has
    <3>4. Ordered(r, A, B)
      BY <1>1, <2>0, <2>4, <3>1, <3>3, NoEnds, SpliceOrdered DEF Turns
    <3>5. q[1][1] # "join"
      BY <1>5, <2>4 DEF Turns
    <3> QED
      BY <1>4, <2>0, <3>4, <3>5
  <2> QED
    BY <1>9, <2>1, <2>2, <2>3, <2>4 DEF Expands, A, B
<1>10. CASE Joins
  <2>1. PICK v : Turns(Await(v), <<>>) /\ joinable' = joinable \ {v}
    BY <1>10 DEF Joins
  <2>2. q[1] \notin B /\ u \in joinable /\ Await(v) # Await(u)
    BY <1>2, <1>3, <2>1 DEF Turns
  <2>3. Ordered(r, A, B)
    BY <1>1, <1>5, <2>1, <2>2, NoEnds, SpliceOrdered DEF Turns
  <2>4. Has(q, {Await(u)}) => Has(r, {Await(u)})
    BY <2>1, <2>2, HasBehind DEF Turns
  <2> QED
    BY <1>1, <1>10, <2>2, <2>3, <2>4 DEF Joins, A, B
<1>11. CASE LaunchesPublisher \/ LaunchesSubscriber
  <2>1. \E h : Starter(h) /\ Turns(h, <<>>) /\ h[1] # "join"
    <3>1. /\ Starter(Call(Client("startPublisher")))
          /\ Call(Client("startPublisher"))[1] # "join"
          /\ \A y : /\ Starter(Call(<<"startSubscriber", y>>))
                    /\ Call(<<"startSubscriber", y>>)[1] # "join"
      BY DEF Starter, Named, Call, Client
    <3>2. CASE LaunchesPublisher
      BY <3>1, <3>2 DEF LaunchesPublisher
    <3>3. CASE LaunchesSubscriber
      BY <3>1, <3>3 DEF LaunchesSubscriber
    <3> QED
      BY <1>11, <3>2, <3>3
  <2>2. \A i \in DOMAIN r : r[i] \notin A
    BY <1>2, <2>1, StartEnds
  <2>3. Ordered(r, A, B)
    BY <2>2, NoEnds
  <2>4. q[1][1] # "join"
    BY <2>1 DEF Turns
  <2>5. CASE LaunchesPublisher
    <3>1. u \in joinable /\ UNCHANGED subscriber
      BY <1>3, <2>5 DEF LaunchesPublisher
    <3> QED
      BY <1>4, <2>3, <2>4, <3>1 DEF A, B
  <2>6. CASE LaunchesSubscriber
    <3>1. PICK y \in Exchanges :
            /\ subscriber' = [subscriber EXCEPT ![y] =
                 [present |-> TRUE, running |-> TRUE, cleanup_started |-> FALSE]]
            /\ joinable' = joinable \cup Readers(y)
      BY <2>6 DEF LaunchesSubscriber
    <3>2. CASE y = x
      <4>1. subscriber'[x] = [present |-> TRUE, running |-> TRUE, cleanup_started |-> FALSE]
        BY <3>1, <3>2 DEF TypesInv
      <4> QED
        BY <2>3, <4>1 DEF A, B
    <3>3. CASE y # x
      <4>1. u \in joinable /\ subscriber'[x] = subscriber[x]
        BY <1>3, <3>1, <3>3 DEF TypesInv
      <4> QED
        BY <1>4, <2>3, <2>4, <4>1 DEF A, B
    <3> QED
      BY <3>2, <3>3
  <2> QED
    BY <1>11, <2>5, <2>6
<1>12. CASE StopsPublisher
  <2>1. PICK s :
          /\ s \in {<<>>, <<Await(Beat)>>} /\ Turns(Call(Client("disconnectPublisher")), s)
          /\ UNCHANGED <<joinable, subscriber>>
    BY <1>12 DEF StopsPublisher
  <2>2. \A i \in DOMAIN s : s[i] \notin A
    BY <1>2, <1>5, <2>1, AwaitFits
  <2>3. q[1] \notin B /\ q[1][1] # "join"
    BY <1>2, <1>5, <2>1 DEF Turns
  <2> QED
    BY <1>6, <2>1, <2>2, <2>3 DEF Turns, A, B
<1>13. CASE StopsSubscriber
  <2>1. PICK y \in Exchanges :
       \/ /\ ~subscriber[y].present \/ subscriber[y].cleanup_started
          /\ Turns(Call(<<"disconnectSubscriber", y>>), <<>>) /\ subscriber' = subscriber
       \/ /\ Turns(Call(<<"disconnectSubscriber", y>>), AwaitReaders(y))
          /\ subscriber' = [subscriber EXCEPT ![y] =
               [present |-> TRUE, running |-> FALSE, cleanup_started |-> TRUE]]
    BY <1>13 DEF StopsSubscriber
  <2>2. q[1] = Call(<<"disconnectSubscriber", y>>) /\ q[1][1] # "join" /\ u \in joinable
    BY <1>5, <1>13, <2>1 DEF StopsSubscriber, Turns
  <2>3. PICK s : s \in {<<>>, AwaitReaders(y)} /\ Spliced(r, s, q)
                 /\ (y = x => s = AwaitReaders(x))
    BY <1>1, <1>4, <2>1, <2>2 DEF Turns
  <2>4. \A i \in DOMAIN s : s[i] \notin A
    <3>1. \A v : Await(v) \notin A
      BY <1>2
    <3>2. \A i \in DOMAIN AwaitReaders(y) : AwaitReaders(y)[i] \notin A
      BY <3>1, AwaitReadersFits
    <3> QED
      BY <1>5, <2>3, <3>2
  <2>5. CASE y # x
    <3>1. q[1] \notin B
      BY <1>2, <2>2, <2>5
    <3>2. subscriber'[x] = subscriber[x]
      BY <2>1, <2>5 DEF TypesInv
    <3> QED
      BY <1>6, <2>2, <2>3, <2>4, <3>1, <3>2 DEF A, B
  <2>6. CASE y = x
    <3>1. u = <<"message", x>> \/ u = <<"watch", x>>
      BY DEF Readers
    <3>2. Has(s, {Await(u)})
      BY <2>3, <2>6, <3>1, AwaitReadersFits DEF Has
    <3>3. Has(s, B)
      BY <1>3, <3>2 DEF Has
    <3>4. Ordered(r, A, B)
      BY <1>1, <2>2, <2>3, <2>4, <3>3, NoEnds, SpliceOrdered
    <3>5. Has(r, {Await(u)})
      BY <2>3, <3>2, SpliceHas
    <3> QED
      BY <3>4, <3>5 DEF A, B
  <2> QED
    BY <2>5, <2>6
<1>14. CASE Removes
  <2>1. PICK S \in SUBSET Exchanges :
          /\ \/ \E y \in Exchanges : Turns(Call(<<"erase", y>>), <<>>) /\ S = {y}
             \/ Turns(Call(Client("clear")), <<>>) /\ S = Exchanges
          /\ subscriber' = [y \in Exchanges |->
                              IF y \in S THEN NoSubscriber ELSE subscriber[y]]
          /\ \A y \in S : Readers(y) \cap joinable = {}
          /\ joinable' = joinable
    BY <1>14 DEF Removes
  <2>2. x \notin S
    BY <2>1
  <2>3. subscriber'[x] = subscriber[x]
    BY <2>1, <2>2
  <2>4. q[1] \notin B /\ q[1][1] # "join" /\ Spliced(r, <<>>, q)
    BY <1>2, <1>5, <2>1 DEF Turns
  <2> QED
    BY <1>5, <1>6, <2>1, <2>3, <2>4 DEF A, B
<1>15. CASE Disconnects \/ Unmaps
  <2>1. /\ UNCHANGED <<joinable, subscriber>> /\ Spliced(r, <<>>, q)
        /\ q[1] = Call(Client("disconnected")) \/ q[1] = Call(Client("unmap"))
    BY <1>15 DEF Disconnects, Unmaps, Turns
  <2>2. q[1] \notin B /\ q[1][1] # "join"
    BY <1>2, <1>5, <2>1
  <2> QED
    BY <1>5, <1>6, <2>1, <2>2 DEF A, B
<1>16. CASE CallsOnly
  <2>1. PICK p :
          /\ Commanded(p) /\ Idle(App)
          /\ \A i \in DOMAIN p :
               ~Named(p[i], {"clear", "erase", "disconnected", "unmap", "destroy"})
    BY <1>16 DEF CallsOnly
  <2>2. \A i \in DOMAIN r : r[i] \notin A
    BY <1>2, <2>1 DEF Named, Commanded
  <2>3. ~Has(q, {Await(u)})
    BY <2>1 DEF Idle, Has
  <2> QED
    BY <1>1, <2>1, <2>2, <2>3, NoEnds DEF Commanded, A, B
<1> QED
  BY <1>7, <1>8, <1>9, <1>10, <1>11, <1>12, <1>13, <1>14, <1>15, <1>16 DEF AppTurns, A, B

-----------------------------------------------------------------------------
(***************************************************************************)
(* How the process ends.                                                   *)
(***************************************************************************)
\* No step destroys the object of a thread that is joinable.
LEMMA NeverTerminatedStep ==
  ASSUME TypesInv, StaticInv, ThreadInv, PublisherInv, ShutdownInv, SubscriberInv,
         NeverTerminated, [ClientNext]_vars, history \subseteq history'
  PROVE  NeverTerminated'
<1> SUFFICES ASSUME "unsubscribed" \notin history', "interrupted" \notin history',
                    "reconnected" \notin history', process' = "terminated"
             PROVE  FALSE
  BY DEF NeverTerminated, Happened
<1>1. process # "terminated"
  BY DEF NeverTerminated, Happened
<1>2. ASSUME NEW t \in Threads, todo[t] # <<>> PROVE Live
  BY <1>2 DEF ThreadInv, Idle
<1>3. ASSUME NEW t \in Threads, todo[t] # <<>> PROVE 1 \in DOMAIN todo[t]
  BY <1>3, FirstStep DEF TypesInv
<1>4. ASSUME NEW t \in Threads, StartPublisher(t) PROVE FALSE
  <2>1. /\ t = App /\ todo[t][1] = Call(Client("startPublisher"))
        /\ history' = IF publisher.cleanup_started THEN history \cup {"reconnected"}
                      ELSE history
        /\ \/ Advances(t, <<>>) /\ UNCHANGED process
           \/ ~publisher.running /\ Beat \in joinable
           \/ UNCHANGED process
    BY <1>4, StartPublisherSteps
  <2>2. Live
    BY <1>2, <1>4 DEF StartPublisher, Calls
  <2>3. ~publisher.running /\ Beat \in joinable
    BY <1>1, <2>1
  <2>4. publisher.cleanup_started
    BY <2>2, <2>3 DEF PublisherInv
  <2> QED
    BY <2>1, <2>4
<1>5. ASSUME NEW t \in Threads, Erase(t) PROVE FALSE
  <2>1. PICK S \in SUBSET Exchanges :
           /\ \/ \E x \in Exchanges : todo[t][1] = Call(<<"erase", x>>) /\ S = {x}
              \/ todo[t][1] = Call(Client("clear")) /\ S = Exchanges
           /\ UNCHANGED process \/ \E x \in S : Readers(x) \cap joinable # {}
           /\ todo[t] # <<>>
    BY <1>5, EraseSteps
  <2>2. PICK x \in S : Readers(x) \cap joinable # {}
    BY <1>1, <2>1
  <2>3. PICK u \in Readers(x) : u \in joinable
    BY <2>2
  <2>4. t = App
    <3>1. ~Quiet(todo[t][1])
      BY <2>1 DEF Quiet, Named, Call, Client
    <3> QED
      BY <1>3, <2>1, <3>1 DEF StaticInv, ThreadStatic, Threads
  <2>5. Ordered(todo[App], Removals(x), StopsReader(x, u))
    BY <1>2, <2>1, <2>3 DEF SubscriberInv
  <2>6. todo[App][1] \in Removals(x)
    <3>1. CASE todo[t][1] = Call(Client("clear"))
      BY <2>4, <3>1 DEF Removals
    <3>2. ASSUME NEW y \in Exchanges, todo[t][1] = Call(<<"erase", y>>), S = {y}
          PROVE  todo[App][1] \in Removals(x)
      <4>1. y = x
        BY <3>2
      <4> QED
        BY <2>4, <3>2, <4>1 DEF Removals
    <3> QED
      BY <2>1, <3>1, <3>2
  <2> QED
    BY <1>3, <2>1, <2>4, <2>5, <2>6 DEF Ordered
<1>6. ASSUME NEW t \in Threads, Destroy(t) PROVE FALSE
  <2>1. /\ t = App /\ todo[t][1] = Call(Client("destroy")) /\ 1 \in DOMAIN todo[t]
        /\ joinable # {}
    <3>1. End("ended") => process' = "ended"
      BY DEF End
    <3> QED
      BY <1>6, <3>1, DestroySteps
  <2>2. PICK u : u \in joinable
    BY <2>1
  <2>3. Live
    BY <1>2, <1>6 DEF Destroy, Calls
  <2>4. Ordered(todo[App], Ends, Stops(u))
    BY <2>2, <2>3 DEF ShutdownInv
  <2>5. todo[App][1] \in Ends
    BY <2>1, EndNames
  <2> QED
    BY <2>1, <2>4, <2>5 DEF Ordered
<1>7. ASSUME NEW t \in Threads, Run(t) PROVE FALSE
  <2>1. \/ process' = process \/ process' = "unmapped"
        \/ StartPublisher(t) \/ Erase(t) \/ Destroy(t)
    BY <1>7 DEF Run, Step, Invoke, ForAll, Callback, Lock, Unlock, Leave, Join, JoinItself,
                StopPublisher, StartSubscriber, StopSubscriber, Return, Unmap, flags
  <2> QED
    BY <1>1, <1>4, <1>5, <1>6, <2>1
<1>8. ASSUME AppCall \/ AppReturns \/ Signal \/ UNCHANGED vars PROVE process' = process
  BY <1>8 DEF AppCall, AppReturns, Signal, vars, flags
<1> QED
  BY <1>1, <1>7, <1>8 DEF ClientNext

\* Nothing is left to run when the registry goes, nor started after that.
UnmappedInv ==
  process = "unmapped" /\ ~Happened({"interrupted", "reconnected", "untidy"}) => joinable = {}

\* Every step keeps UnmappedInv.
LEMMA UnmappedStep ==
  ASSUME TypesInv, StaticInv, ShutdownInv, UnmappedInv, Live, history \subseteq history',
         AppKept \/ AppTurns \/ CallsOnly
  PROVE  UnmappedInv'
<1> SUFFICES ASSUME process' = "unmapped", "interrupted" \notin history',
                    "reconnected" \notin history', "untidy" \notin history',
                    NEW u \in joinable'
             PROVE  FALSE
  BY DEF UnmappedInv, Happened
<1>1. process = "unmapped" => joinable = {}
  BY DEF UnmappedInv, Happened
<1>2. CASE AppKept
  BY <1>1, <1>2 DEF AppKept
<1>3. CASE Passes \/ Expands \/ Joins \/ StopsPublisher \/ StopsSubscriber \/ Removes
             \/ Disconnects
  BY <1>1, <1>3 DEF Passes, Expands, Joins, StopsPublisher, StopsSubscriber, Removes,
                    Disconnects
<1>4. CASE LaunchesPublisher \/ LaunchesSubscriber
  <2>1. process = "unmapped"
    BY <1>4 DEF LaunchesPublisher, LaunchesSubscriber
  <2>2. /\ Starter(Call(Client("startPublisher")))
        /\ \A x : Starter(Call(<<"startSubscriber", x>>))
    BY DEF Starter, Named, Call, Client
  <2>3. Starter(todo[App][1]) /\ 1 \in DOMAIN todo[App]
    <3>1. CASE LaunchesPublisher
      BY <2>2, <3>1 DEF LaunchesPublisher, Turns, Spliced
    <3>2. CASE LaunchesSubscriber
      BY <2>2, <3>2 DEF LaunchesSubscriber, Turns, Spliced
    <3> QED
      BY <1>4, <3>1, <3>2
  <2> QED
    BY <2>1, <2>3, ThreadTypes DEF StaticInv, ThreadStatic
<1>5. CASE Unmaps
  <2>1. Turns(Call(Client("unmap")), <<>>) /\ u \in joinable
    BY <1>5 DEF Unmaps
  <2>2. Ordered(todo[App], Ends, Stops(u)) /\ "untidy" \notin history
    BY <2>1 DEF ShutdownInv
  <2> QED
    BY <2>1, <2>2, EndNames, HeadOrdered DEF Turns
<1>6. CASE CallsOnly
  BY <1>6 DEF CallsOnly, Commanded
<1> QED
  BY <1>2, <1>3, <1>4, <1>5, <1>6 DEF AppTurns

-----------------------------------------------------------------------------
(***************************************************************************)
(* The inductive invariant and what follows from it.                       *)
(***************************************************************************)
ClientInv ==
  /\ TypesInv /\ StaticInv /\ ThreadInv /\ HeldInv
  /\ ShutdownInv /\ PublisherInv /\ LifecycleInv /\ SubscriberInv
  /\ NeverTerminated /\ UnmappedInv

\* The inductive invariant holds initially,
LEMMA ClientInvInit == ClientInit => ClientInv
<1> SUFFICES ASSUME ClientInit PROVE ClientInv
  OBVIOUS
<1>1. \A t \in Threads : todo[t] = <<>>
  BY DEF ClientInit
<1>2. TypesInv
  <2>1. <<>> \in Seq(Items)
    OBVIOUS
  <2>2. todo \in [Threads -> Seq(Items)]
    BY <2>1 DEF ClientInit
  <2>3. /\ owner \in [Locks -> Threads \cup {NoThread}]
        /\ subscriber \in [Exchanges -> [present : BOOLEAN, running : BOOLEAN,
                                         cleanup_started : BOOLEAN]]
    BY DEF ClientInit, NoSubscriber
  <2> QED
    BY <2>2, <2>3 DEF ClientInit, TypesInv
<1>3. StaticInv
  BY <1>1 DEF StaticInv, ThreadStatic, Closed, JoinsFirst, StartsOnly, ConnectedLater, Nested
<1>4. ThreadInv /\ HeldInv
  BY <1>1, ThreadTypes DEF ThreadInv, HeldInv, Held, ClientInit, Idle, Live
<1>5. /\ joinable = {} /\ publisher.running = FALSE /\ publisher.cleanup_started = FALSE
      /\ process = "running" /\ history = {} /\ ~Has(todo[App], {Await(Beat)})
  BY <1>1, ThreadTypes DEF ClientInit, Has
<1> QED
  BY <1>2, <1>3, <1>4, <1>5 DEF ClientInv, ShutdownInv, PublisherInv, LifecycleInv,
     SubscriberInv, NeverTerminated, UnmappedInv, Happened

\* is kept by every step,
LEMMA ClientInvStep == ClientInv /\ [ClientNext]_vars => ClientInv'
<1> SUFFICES ASSUME ClientInv, [ClientNext]_vars PROVE ClientInv'
  OBVIOUS
<1>1. TypesInv' /\ StaticInv' /\ history \subseteq history' /\ Moves
  BY TypesStep DEF ClientInv
<1>2. ThreadInv' /\ (Live' => Live)
  BY ThreadStep, LiveStep DEF ClientInv
<1>3. HeldInv' /\ NeverTerminated'
  BY <1>1, <1>2, HeldStep, NeverTerminatedStep DEF ClientInv
<1>4. CASE ~Live'
  BY <1>1, <1>2, <1>3, <1>4 DEF ClientInv, ShutdownInv, PublisherInv, LifecycleInv,
                                SubscriberInv, UnmappedInv, Live
<1>5. CASE Live'
  <2>1. ((AppKept \/ AppTurns) /\ Uninterrupted) \/ CallsOnly
    BY <1>5, NextTurns DEF ClientInv
  <2>2. ShutdownInv' /\ PublisherInv' /\ LifecycleInv' /\ SubscriberInv' /\ UnmappedInv'
    BY <1>1, <1>2, <1>5, <2>1, ShutdownStep, PublisherStep, LifecycleStep, SubscriberStep,
       UnmappedStep DEF ClientInv
  <2> QED
    BY <1>1, <1>2, <1>3, <2>2 DEF ClientInv
<1> QED
  BY <1>4, <1>5

\* and so always holds.
LEMMA ClientInvAlways == FairClientSpec => []ClientInv
BY ClientInvInit, ClientInvStep, PTL DEF FairClientSpec

\* It implies the types,
LEMMA ClientTypesHold == ClientInv => ClientTypeOK
BY DEF ClientInv, TypesInv, HeldInv, Held, Live, Happened, Has, ClientTypeOK

\* what is known when the rings are unmapped,
LEMMA UnmappedHolds == ClientInv => UnmappedAfterThreads
BY DEF ClientInv, UnmappedInv, ThreadInv, UnmappedAfterThreads

\* and what is known when disconnect() has returned.
LEMMA DisconnectHolds == ClientInv => DisconnectStopsAll
<1> SUFFICES ASSUME ClientInv, process = "running", lifecycle = "disconnected", Idle(App),
                    "reconnected" \notin history
             PROVE  /\ ~publisher.running /\ Idle(Beat)
                    /\ \A x \in Exchanges \ Present : \A t \in Readers(x) : Idle(t)
  BY DEF DisconnectStopsAll, Happened
<1>1. Beat \notin joinable
  BY DEF ClientInv, LifecycleInv, Has, Idle
<1>2. Live
  BY DEF Live
<1>3. ~publisher.running /\ Idle(Beat)
  BY <1>1, <1>2, ThreadTypes DEF ClientInv, PublisherInv, ThreadInv
<1>4. ASSUME NEW x \in Exchanges \ Present, NEW t \in Readers(x) PROVE Idle(t)
  BY <1>2, <1>4, ThreadTypes DEF ClientInv, ThreadInv
<1> QED
  BY <1>3, <1>4

\* Every variable has its type, and a mutex is held by a thread that has the rest of the
\* lock_guard's scope to do (ClientTypeOK).
THEOREM ClientTypes == FairClientSpec => []ClientTypeOK
BY ClientInvAlways, ClientTypesHold, PTL

\* However many exchanges are subscribed to, and whatever the threads do, no set of them
\* waits for each other (NoDeadlock).
THEOREM ClientNeverDeadlocks == FairClientSpec => []NoDeadlock
<1>1. ClientInv => NoDeadlock
  BY DeadlockFree DEF ClientInv
<1> QED
  BY <1>1, ClientInvAlways, PTL

\* Every std::thread is joined before its object is destroyed or assigned to, so that the
\* process does not end in std::terminate() (NeverTerminated).
THEOREM ClientNeverTerminates == FairClientSpec => []NeverTerminated
<1>1. ClientInv => NeverTerminated
  BY DEF ClientInv
<1> QED
  BY <1>1, ClientInvAlways, PTL

\* No thread of the client is left when exit() unmaps the rings (UnmappedAfterThreads).
THEOREM UnmapsAfterThreads == FairClientSpec => []UnmappedAfterThreads
BY ClientInvAlways, UnmappedHolds, PTL

\* After disconnect() the publisher publishes no more, and the threads of all that was
\* connected have ended (DisconnectStopsAll).
THEOREM DisconnectedIsStopped == FairClientSpec => []DisconnectStopsAll
BY ClientInvAlways, DisconnectHolds, PTL
=============================================================================
