--------------------------- MODULE SessionsProofs ---------------------------
(***************************************************************************)
(* The sessions of the Java worker for any number of clients and requests  *)
(* and any keepalive: no accepted response is lost on its way.             *)
(***************************************************************************)
EXTENDS Sessions, TLAPS

\* Where a request has a session that it will put its response into, or has.
Bound == {"handling", "enqueue", "offer", "accepted"}

\* A thread holds a message only while it is about to write it, ...
HeldIsWritten == \A s \in Clients : held[s] # <<>> => at[s] = "write"

\* ... a session is only closed when its connection is, ...
OpenWhileUp ==
    \A s \in Clients : line[s] = "up" => open[s] /\ server = "up" /\ at[s] # "none"

\* ... a session that has not been connected is open and unknown, ...
NewIsOpen ==
    \A s \in Clients : at[s] = "none" => open[s] /\ s \notin sessions \cup snapshot

\* ... and a request only names a session that has been connected.
BoundIsConnected == \A p \in Posts : req[p] \in Bound => at[to[p]] # "none"

\* The inductive invariant.
SessionInv ==
    /\ TypeOK
    /\ HeldIsWritten
    /\ OpenWhileUp
    /\ NewIsOpen
    /\ BoundIsConnected
    /\ AcceptedIsKept

\* Taking the head of a queue and appending to it lose nothing.
LEMMA TakeKeeps ==
    ASSUME NEW q \in Seq(Posts), q # <<>>
    PROVE  /\ Head(q) \in Posts /\ Tail(q) \in Seq(Posts)
           /\ ToSet(q) = ToSet(<<Head(q)>>) \cup ToSet(Tail(q))
<1>1. Head(q) \in Posts /\ Tail(q) \in Seq(Posts) /\ Len(q) > 0
  OBVIOUS
<1>2. ToSet(<<Head(q)>>) = {q[1]}
  BY DEF ToSet
<1>3. ToSet(q) \subseteq {q[1]} \cup ToSet(Tail(q))
  <2> SUFFICES ASSUME NEW i \in 1..Len(q), i # 1 PROVE q[i] \in ToSet(Tail(q))
    BY DEF ToSet
  <2>1. i - 1 \in DOMAIN Tail(q) /\ Tail(q)[i - 1] = q[i]
    BY <1>1
  <2>2. Tail(q)[i - 1] \in ToSet(Tail(q))
    BY <2>1 DEF ToSet
  <2> QED
    BY <2>1, <2>2
<1>4. ToSet(Tail(q)) \subseteq ToSet(q) /\ q[1] \in ToSet(q)
  <2>1. ASSUME NEW i \in 1..Len(Tail(q)) PROVE Tail(q)[i] = q[i + 1] /\ i + 1 \in 1..Len(q)
    BY <1>1, <2>1
  <2> QED
    BY <1>1, <2>1 DEF ToSet
<1> QED
  BY <1>1, <1>2, <1>3, <1>4

LEMMA OfferKeeps ==
    ASSUME NEW q \in Seq(Posts), NEW p \in Posts
    PROVE  Offered(q, p) \in Seq(Posts) /\ ToSet(Offered(q, p)) = ToSet(q) \cup {p}
<1>1. Append(q, p) \in Seq(Posts) /\ Len(Append(q, p)) = Len(q) + 1
  OBVIOUS
<1>2. \A i \in 1..Len(q) : Append(q, p)[i] = q[i]
  OBVIOUS
<1>3. Append(q, p)[Len(q) + 1] = p
  OBVIOUS
<1> QED
  BY <1>1, <1>2, <1>3 DEF Offered, ToSet

\* A queue without repetitions has none after its head is taken, and none after
\* what it does not hold is offered to it.
LEMMA TakeOnce ==
    ASSUME NEW q \in Seq(Posts), q # <<>>, IsInjective(q)
    PROVE  IsInjective(Tail(q)) /\ Head(q) \notin ToSet(Tail(q))
<1>1. /\ Len(q) \in Nat \ {0} /\ DOMAIN q = 1..Len(q) /\ Head(q) = q[1]
      /\ DOMAIN Tail(q) = 1..(Len(q) - 1)
  OBVIOUS
<1>2. ASSUME NEW i \in DOMAIN Tail(q)
      PROVE  Tail(q)[i] = q[i + 1] /\ i + 1 \in DOMAIN q /\ i \in Nat \ {0}
  BY <1>1
<1>3. IsInjective(Tail(q))
  BY <1>1, <1>2 DEF IsInjective
<1>4. ASSUME NEW i \in DOMAIN Tail(q) PROVE Tail(q)[i] # Head(q)
  <2>1. 1 \in DOMAIN q /\ i + 1 # 1
    BY <1>1, <1>2
  <2> QED
    BY <1>1, <1>2, <2>1 DEF IsInjective
<1> QED
  BY <1>3, <1>4 DEF ToSet

LEMMA OfferOnce ==
    ASSUME NEW q \in Seq(Posts), NEW p \in Posts, IsInjective(q), p \notin ToSet(q)
    PROVE  IsInjective(Offered(q, p))
<1> DEFINE r == Append(q, p)
<1>1. /\ Len(q) \in Nat /\ DOMAIN q = 1..Len(q) /\ DOMAIN r = 1..(Len(q) + 1)
      /\ r[Len(q) + 1] = p /\ \A i \in 1..Len(q) : r[i] = q[i]
  OBVIOUS
<1>2. \A i \in 1..Len(q) : q[i] # p
  BY <1>1 DEF ToSet
<1> HIDE DEF r
<1>3. SUFFICES ASSUME NEW i \in DOMAIN r, NEW j \in DOMAIN r, r[i] = r[j] PROVE i = j
  BY DEF Offered, IsInjective, r
<1>4. (i \in 1..Len(q) \/ i = Len(q) + 1) /\ (j \in 1..Len(q) \/ j = Len(q) + 1)
  BY <1>1
<1> QED
  BY <1>1, <1>2, <1>3, <1>4 DEF IsInjective

LEMMA InitSession == Init => SessionInv
  BY SessionAssumption
  DEF Init, SessionInv, TypeOK, HeldIsWritten, OpenWhileUp, NewIsOpen, BoundIsConnected,
      AcceptedIsKept, Threads, Lines, Stops, Answers, Bound

\* What does not touch messages only has to leave lines that are not up alone,
\* and to accept nothing.
LEMMA SameMessages ==
    ASSUME AcceptedIsKept, UNCHANGED <<got, held, queue, to>>,
           \A p \in Posts : req'[p] = "accepted" => req[p] = "accepted",
           \A p \in Posts : req[p] = "accepted" /\ line'[to[p]] = "up" => line[to[p]] = "up"
    PROVE  AcceptedIsKept'
  BY DEF AcceptedIsKept

\* A message that is accepted is in the queue by then, where the others stay.
LEMMA MoreMessages ==
    ASSUME AcceptedIsKept, NEW p \in Posts, UNCHANGED <<got, held, to, line>>,
           \A q \in Posts : req[q] = "accepted" => to[q] \in Clients,
           \A q \in Posts \ {p} : req'[q] = req[q],
           p \in ToSet(queue'[to[p]]),
           \A s \in Clients : ToSet(queue[s]) \subseteq ToSet(queue'[s])
    PROVE  AcceptedIsKept'
  BY DEF AcceptedIsKept

----------------------------------------------------------------------------
\* The thread of a session: it takes and writes, and closes its connection
\* before anything else can be in its queue for nobody.
LEMMA ThreadKeeps ==
    ASSUME SessionInv, NEW s \in Clients, ThreadStep(s)
    PROVE  SessionInv'
<1> USE SessionAssumption
     DEF SessionInv, TypeOK, HeldIsWritten, OpenWhileUp, NewIsOpen, BoundIsConnected,
         AcceptedIsKept, Threads, Lines, Stops, Answers, Bound, Goto, threadVars, requestVars, stopVars
<1>1. CASE Register(s)
  <2>1. TypeOK'
    BY <1>1 DEF Register
  <2>2. HeldIsWritten' /\ OpenWhileUp' /\ NewIsOpen' /\ BoundIsConnected'
    BY <1>1 DEF Register
  <2>3. AcceptedIsKept'
    BY <1>1 DEF Register
  <2> QED
    BY <2>1, <2>2, <2>3
<1>7. CASE SendHeaders(s) \/ Hello(s)
  <2>1. TypeOK'
    BY <1>7 DEF SendHeaders, Hello, AfterWrite
  <2>2. HeldIsWritten' /\ OpenWhileUp' /\ NewIsOpen' /\ BoundIsConnected'
    BY <1>7 DEF SendHeaders, Hello, AfterWrite
  <2>3. AcceptedIsKept'
    BY <1>7 DEF SendHeaders, Hello, AfterWrite
  <2> QED
    BY <2>1, <2>2, <2>3
<1>8. CASE TestOpen(s)
  <2>1. TypeOK'
    BY <1>8 DEF TestOpen
  <2>2. HeldIsWritten' /\ OpenWhileUp' /\ NewIsOpen' /\ BoundIsConnected'
    BY <1>8 DEF TestOpen
  <2>3. AcceptedIsKept'
    BY <1>8 DEF TestOpen
  <2> QED
    BY <2>1, <2>2, <2>3
<1>2. CASE Take(s)
  <2>1. /\ Head(queue[s]) \in Posts /\ Tail(queue[s]) \in Seq(Posts)
        /\ ToSet(queue[s]) = ToSet(<<Head(queue[s])>>) \cup ToSet(Tail(queue[s]))
    BY <1>2, TakeKeeps DEF Take
  <2>2. TypeOK' /\ HeldIsWritten' /\ OpenWhileUp' /\ NewIsOpen' /\ BoundIsConnected'
    BY <1>2, <2>1 DEF Take, Rest
  <2>3. held[s] = <<>>
    BY <1>2 DEF Take
  <2>4. ToSet(<<>>) = {}
    BY DEF ToSet
  <2>5. AcceptedIsKept'
    BY <1>2, <2>1, <2>3, <2>4 DEF Take, Rest
  <2> QED
    BY <2>2, <2>5
<1>3. CASE TakeNothing(s)
  <2>1. TypeOK'
    <3>1. quiet' \in [Clients -> 0..(Keepalive - 1)]
      <4>1. CASE KeepaliveDue(quiet[s] + 1)
        BY <1>3, <4>1 DEF TakeNothing
      <4>2. CASE ~KeepaliveDue(quiet[s] + 1)
        <5>1. quiet[s] + 1 \in 0..(Keepalive - 1)
          BY <4>2 DEF KeepaliveDue
        <5>2. quiet' = [quiet EXCEPT ![s] = quiet[s] + 1]
          BY <1>3, <4>2, <5>1 DEF TakeNothing
        <5> QED
          BY <5>1, <5>2
      <4> QED
        BY <4>1, <4>2
    <3>2. /\ at' = [at EXCEPT ![s] = "ping"] \/ at' = [at EXCEPT ![s] = "loop"]
          /\ UNCHANGED <<line, sessions, open, queue, held, got, requestVars, stopVars>>
      BY <1>3 DEF TakeNothing
    <3> QED
      BY <3>1, <3>2
  <2>2. HeldIsWritten' /\ OpenWhileUp' /\ NewIsOpen' /\ BoundIsConnected'
    BY <1>3 DEF TakeNothing, KeepaliveDue
  <2>3. AcceptedIsKept'
    BY <1>3 DEF TakeNothing, KeepaliveDue
  <2> QED
    BY <2>1, <2>2, <2>3
<1>4. CASE WriteMessage(s)
  <2>1. held[s] \in {<<>>} \cup {<<p>> : p \in Posts}
    OBVIOUS
  <2>2. ToSet(held[s]) \subseteq Posts
    BY <2>1 DEF ToSet
  <2>3. TypeOK' /\ HeldIsWritten' /\ OpenWhileUp' /\ NewIsOpen' /\ BoundIsConnected'
    BY <1>4, <2>2 DEF WriteMessage, AfterWrite
  <2>4. AcceptedIsKept'
    BY <1>4, <2>2 DEF WriteMessage
  <2> QED
    BY <2>3, <2>4
<1>5. CASE WriteKeepalive(s)
  <2>1. TypeOK'
    BY <1>5 DEF WriteKeepalive, AfterWrite
  <2>2. HeldIsWritten' /\ OpenWhileUp' /\ NewIsOpen' /\ BoundIsConnected'
    BY <1>5 DEF WriteKeepalive, AfterWrite
  <2>3. AcceptedIsKept'
    BY <1>5, SameMessages DEF WriteKeepalive
  <2> QED
    BY <2>1, <2>2, <2>3
<1>6. CASE Leave(s)
  <2>1. TypeOK'
    BY <1>6 DEF Leave, Without
  <2>2. HeldIsWritten' /\ OpenWhileUp' /\ NewIsOpen' /\ BoundIsConnected'
    BY <1>6 DEF Leave, Without
  <2>3. UNCHANGED <<got, held, queue, to, req>>
    BY <1>6 DEF Leave
  <2>4. \A x \in Clients : line'[x] = "up" => line[x] = "up"
    BY <1>6 DEF Leave
  <2>5. AcceptedIsKept'
    BY <2>3, <2>4, SameMessages
  <2> QED
    BY <2>1, <2>2, <2>5
<1> QED
  BY <1>1, <1>2, <1>3, <1>4, <1>5, <1>6, <1>7, <1>8 DEF ThreadStep

\* A request: the session may be closed after its flag was read, but then its
\* client is gone, too.
LEMMA RequestKeeps ==
    ASSUME SessionInv, NEW p \in Posts,
           RequestStep(p) \/ PostDirectly(p) \/ \E s \in Clients : Post(p, s)
    PROVE  SessionInv'
<1> USE SessionAssumption
     DEF SessionInv, TypeOK, HeldIsWritten, OpenWhileUp, NewIsOpen, BoundIsConnected,
         AcceptedIsKept, Threads, Lines, Stops, Answers, Bound, threadVars, requestVars, stopVars
<1>1. CASE Handle(p)
  <2>1. TypeOK'
    BY <1>1 DEF Handle
  <2>2. HeldIsWritten' /\ OpenWhileUp' /\ NewIsOpen' /\ BoundIsConnected'
    BY <1>1 DEF Handle
  <2>3. UNCHANGED <<got, held, queue, to, line>>
    BY <1>1 DEF Handle
  <2>4. \A q \in Posts : req'[q] = "accepted" => req[q] = "accepted"
    BY <1>1 DEF Handle
  <2>5. AcceptedIsKept'
    BY <2>3, <2>4, SameMessages
  <2> QED
    BY <2>1, <2>2, <2>5
<1>5. CASE PostDirectly(p)
  <2>1. TypeOK'
    BY <1>5 DEF PostDirectly
  <2>2. HeldIsWritten' /\ OpenWhileUp' /\ NewIsOpen' /\ BoundIsConnected'
    BY <1>5 DEF PostDirectly
  <2>3. UNCHANGED <<got, held, queue, to, line>>
    BY <1>5 DEF PostDirectly
  <2>4. \A q \in Posts : req'[q] = "accepted" => req[q] = "accepted"
    BY <1>5 DEF PostDirectly
  <2>5. AcceptedIsKept'
    BY <2>3, <2>4, SameMessages
  <2> QED
    BY <2>1, <2>2, <2>5
<1>2. CASE EnqueueMessage(p)
  BY <1>2 DEF EnqueueMessage
<1>3. CASE Offer(p)
  <2>1. to[p] \in Clients /\ queue[to[p]] \in Seq(Posts)
    BY <1>3 DEF Offer
  <2>2. /\ Offered(queue[to[p]], p) \in Seq(Posts)
        /\ ToSet(Offered(queue[to[p]], p)) = ToSet(queue[to[p]]) \cup {p}
    BY <2>1, OfferKeeps
  <2>3. TypeOK' /\ HeldIsWritten' /\ OpenWhileUp' /\ NewIsOpen' /\ BoundIsConnected'
    BY <1>3, <2>1, <2>2 DEF Offer
  <2>4. UNCHANGED <<got, held, to, line>> /\ p \in ToSet(queue'[to[p]])
        /\ \A s \in Clients : ToSet(queue[s]) \subseteq ToSet(queue'[s])
    BY <1>3, <2>1, <2>2 DEF Offer
  <2>5. \A q \in Posts \ {p} : req'[q] = req[q]
    BY <1>3 DEF Offer
  <2>6. AcceptedIsKept'
    BY <2>4, <2>5, MoreMessages
  <2> QED
    BY <2>3, <2>6
<1>4. ASSUME NEW s \in Clients, Post(p, s) PROVE SessionInv'
  <2>1. TypeOK'
    BY <1>4 DEF Post, Knows
  <2>2. HeldIsWritten' /\ OpenWhileUp' /\ NewIsOpen' /\ BoundIsConnected'
    BY <1>4 DEF Post, Knows
  <2>3. AcceptedIsKept'
    BY <1>4 DEF Post, Knows
  <2> QED
    BY <2>1, <2>2, <2>3
<1> QED
  BY <1>1, <1>2, <1>3, <1>4, <1>5 DEF RequestStep

\* stop() and the clients: a connection that is cut is never up again.
LEMMA RestKeeps ==
    ASSUME SessionInv,
           \/ StopServer \/ CopySessions \/ ClearSessions
           \/ \E s \in Clients : CloseSession(s) \/ Connect(s) \/ Disconnect(s) \/ ResetArrives(s)
    PROVE  SessionInv'
<1> USE SessionAssumption
     DEF SessionInv, TypeOK, HeldIsWritten, OpenWhileUp, NewIsOpen, BoundIsConnected,
         AcceptedIsKept, Threads, Lines, Stops, Answers, Bound, Goto, threadVars, requestVars, stopVars
<1>1. CASE StopServer
  BY <1>1 DEF StopServer
<1>2. CASE CopySessions \/ ClearSessions
  BY <1>2 DEF CopySessions, ClearSessions
<1>3. ASSUME NEW s \in Clients, CloseSession(s) PROVE SessionInv'
  BY <1>3 DEF CloseSession
<1>4. ASSUME NEW s \in Clients, Connect(s) PROVE SessionInv'
  <2>1. TypeOK'
    BY <1>4 DEF Connect
  <2>2. HeldIsWritten' /\ OpenWhileUp' /\ NewIsOpen' /\ BoundIsConnected'
    BY <1>4 DEF Connect
  <2>3. AcceptedIsKept'
    <3>1. \A p \in Posts : req[p] = "accepted" => to[p] \in Clients \ {s}
      BY <1>4 DEF Connect
    <3>2. \A x \in Clients \ {s} : line'[x] = line[x]
      BY <1>4 DEF Connect
    <3>3. UNCHANGED <<got, held, queue, to, req>>
      BY <1>4 DEF Connect
    <3> QED
      BY <3>1, <3>2, <3>3, SameMessages
  <2> QED
    BY <2>1, <2>2, <2>3
<1>5. ASSUME NEW s \in Clients, Disconnect(s) \/ ResetArrives(s) PROVE SessionInv'
  <2>1. TypeOK'
    <3>1. line' = [line EXCEPT ![s] = "gone"] \/ line' = [line EXCEPT ![s] = "reset"]
      BY <1>5 DEF Disconnect, ResetArrives
    <3>2. line' \in [Clients -> Lines]
      BY <3>1
    <3>3. UNCHANGED <<at, held, quiet, sessions, open, queue, got, to, req, server, snapshot>>
      BY <1>5 DEF Disconnect, ResetArrives
    <3> QED
      BY <3>2, <3>3
  <2>2. /\ \A x \in Clients : line'[x] = "up" => line[x] = "up"
        /\ UNCHANGED <<at, held, open, sessions, server, snapshot, req, to>>
    BY <1>5 DEF Disconnect, ResetArrives
  <2>4. HeldIsWritten' /\ OpenWhileUp' /\ NewIsOpen' /\ BoundIsConnected'
    BY <2>2
  <2>3. AcceptedIsKept'
    <3>2. \A p \in Posts : req[p] = "accepted" => to[p] \in Clients
      OBVIOUS
    <3>3. UNCHANGED <<got, held, queue, to, req>>
      BY <1>5 DEF Disconnect, ResetArrives
    <3> QED
      BY <2>2, <3>2, <3>3, SameMessages
  <2> QED
    BY <2>1, <2>3, <2>4
<1> QED
  BY <1>1, <1>2, <1>3, <1>4, <1>5

LEMMA NextSession == SessionInv /\ [Next]_vars => SessionInv'
<1> SUFFICES ASSUME SessionInv, [Next]_vars PROVE SessionInv'
  OBVIOUS
<1>1. CASE UNCHANGED vars
  BY <1>1
  DEF SessionInv, TypeOK, HeldIsWritten, OpenWhileUp, NewIsOpen, BoundIsConnected, AcceptedIsKept,
      vars, threadVars, requestVars, stopVars
<1> QED
  BY <1>1, ThreadKeeps, RequestKeeps, RestKeeps DEF Next

----------------------------------------------------------------------------
\* The variables are well typed; a quiet connection is written to in time.
THEOREM SessionsTyped == Spec => []TypeOK
<1>1. SessionInv => TypeOK
  BY DEF SessionInv
<1> QED
  BY InitSession, NextSession, <1>1, PTL DEF Spec

\* A response that was accepted is with its client, with the thread or in the
\* queue while the client is there, however requests, threads and stop() run.
THEOREM SessionsKeepAccepted == Spec => []AcceptedIsKept
<1>1. SessionInv => AcceptedIsKept
  BY DEF SessionInv
<1> QED
  BY InitSession, NextSession, <1>1, PTL DEF Spec
----------------------------------------------------------------------------
\* What is in a queue, in a thread's hands or with a client are requests.
LEMMA MessagesAreRequests ==
    ASSUME TypeOK, NEW s \in Clients
    PROVE  got[s] \subseteq Posts /\ ToSet(held[s]) \subseteq Posts /\ ToSet(queue[s]) \subseteq Posts
<1>1. got[s] \subseteq Posts /\ queue[s] \in Seq(Posts)
      /\ held[s] \in {<<>>} \cup {<<p>> : p \in Posts}
  BY DEF TypeOK
<1>2. ToSet(queue[s]) \subseteq Posts
  BY <1>1 DEF ToSet
<1>3. ToSet(held[s]) \subseteq Posts
  BY <1>1 DEF ToSet
<1> QED
  BY <1>1, <1>2, <1>3

\* What moves no message only has to leave the accepted requests as they are.
LEMMA SamePlaces ==
    ASSUME NothingTwice, UNCHANGED <<got, held, queue>>,
           \A p \in Posts : req[p] = "accepted" => req'[p] = "accepted" /\ to'[p] = to[p],
           TypeOK
    PROVE  NothingTwice'
<1> SUFFICES ASSUME NEW s \in Clients
             PROVE  \A p \in got[s] \cup ToSet(held[s]) \cup ToSet(queue[s]) :
                       req'[p] = "accepted" /\ to'[p] = s
  BY DEF NothingTwice
<1>1. got[s] \subseteq Posts /\ ToSet(held[s]) \subseteq Posts /\ ToSet(queue[s]) \subseteq Posts
  BY MessagesAreRequests
<1> QED
  BY <1>1 DEF NothingTwice

\* Only three steps move a message, and each moves it once: from the request to
\* the queue, from there to the thread, and from the thread to the client.
LEMMA NextOnce == SessionInv /\ NothingTwice /\ [Next]_vars => NothingTwice'
<1> SUFFICES ASSUME SessionInv, NothingTwice, [Next]_vars PROVE NothingTwice'
  OBVIOUS
<1>0. TypeOK /\ HeldIsWritten
  BY DEF SessionInv
<1>1. ASSUME NEW s \in Clients, Take(s) PROVE NothingTwice'
  <2> DEFINE q == queue[s]
  <2>1. /\ q \in Seq(Posts) /\ q # <<>> /\ IsInjective(q)
        /\ UNCHANGED <<got, req, to>>
        /\ held'[s] = <<Head(q)>> /\ queue'[s] = Tail(q)
        /\ \A c \in Clients \ {s} : held'[c] = held[c] /\ queue'[c] = queue[c]
    BY <1>0, <1>1 DEF Take, Rest, TypeOK, NothingTwice, requestVars
  <2> HIDE DEF q
  <2>2. /\ ToSet(q) = ToSet(<<Head(q)>>) \cup ToSet(Tail(q))
        /\ IsInjective(Tail(q)) /\ Head(q) \notin ToSet(Tail(q))
    BY <2>1, TakeKeeps, TakeOnce
  <2>6. ToSet(<<Head(q)>>) = {Head(q)}
    BY DEF ToSet
  <2>3. /\ got[s] \cap ToSet(q) = {}
        /\ \A p \in got[s] \cup ToSet(q) : req[p] = "accepted" /\ to[p] = s
    BY DEF NothingTwice, q
  <2>4. ASSUME NEW c \in Clients, c = s
        PROVE  /\ IsInjective(queue'[c])
               /\ ToSet(held'[c]) \cap ToSet(queue'[c]) = {}
               /\ got'[c] \cap (ToSet(held'[c]) \cup ToSet(queue'[c])) = {}
               /\ \A p \in got'[c] \cup ToSet(held'[c]) \cup ToSet(queue'[c]) :
                     req'[p] = "accepted" /\ to'[p] = c
    <3>1. ToSet(q) = {Head(q)} \cup ToSet(Tail(q)) /\ {Head(q)} \cap ToSet(Tail(q)) = {}
      BY <2>2, <2>6
    <3>2. ToSet(held'[s]) = {Head(q)} /\ ToSet(queue'[s]) = ToSet(Tail(q)) /\ got'[s] = got[s]
      BY <2>1, <2>6
    <3>3. got'[s] \cap (ToSet(held'[s]) \cup ToSet(queue'[s])) = {}
          /\ got'[s] \cup ToSet(held'[s]) \cup ToSet(queue'[s]) = got[s] \cup ToSet(q)
      BY <2>3, <3>1, <3>2, Zenon
    <3>4. IsInjective(queue'[s]) /\ ToSet(held'[s]) \cap ToSet(queue'[s]) = {}
      BY <2>1, <2>2, <3>1, <3>2, Zenon
    <3> QED
      BY <2>1, <2>3, <2>4, <3>3, <3>4, Zenon
  <2>5. ASSUME NEW c \in Clients, c # s
        PROVE  /\ IsInjective(queue'[c])
               /\ ToSet(held'[c]) \cap ToSet(queue'[c]) = {}
               /\ got'[c] \cap (ToSet(held'[c]) \cup ToSet(queue'[c])) = {}
               /\ \A p \in got'[c] \cup ToSet(held'[c]) \cup ToSet(queue'[c]) :
                     req'[p] = "accepted" /\ to'[p] = c
    BY <2>1, <2>5 DEF NothingTwice
  <2> QED
    BY <2>4, <2>5 DEF NothingTwice
<1>2. ASSUME NEW s \in Clients, WriteMessage(s) PROVE NothingTwice'
  <2>1. /\ UNCHANGED <<queue, req, to>> /\ held'[s] = <<>>
        /\ got'[s] \subseteq got[s] \cup ToSet(held[s])
        /\ \A c \in Clients \ {s} : held'[c] = held[c] /\ got'[c] = got[c]
    BY <1>0, <1>2 DEF WriteMessage, TypeOK, requestVars
  <2>2. ToSet(<<>>) = {}
    BY DEF ToSet
  <2>3. SUFFICES ASSUME NEW c \in Clients
                 PROVE  /\ IsInjective(queue'[c])
                        /\ ToSet(held'[c]) \cap ToSet(queue'[c]) = {}
                        /\ got'[c] \cap (ToSet(held'[c]) \cup ToSet(queue'[c])) = {}
                        /\ \A p \in got'[c] \cup ToSet(held'[c]) \cup ToSet(queue'[c]) :
                              req'[p] = "accepted" /\ to'[p] = c
    BY DEF NothingTwice
  <2>4. CASE c = s
    BY <2>1, <2>2, <2>4 DEF NothingTwice
  <2>5. CASE c # s
    BY <2>1, <2>5 DEF NothingTwice
  <2> QED
    BY <2>4, <2>5
<1>3. ASSUME NEW p \in Posts, Offer(p) PROVE NothingTwice'
  <2> DEFINE s == to[p]
             q == queue[s]
  <2>0. /\ s \in Clients /\ q \in Seq(Posts) /\ req[p] = "offer"
        /\ UNCHANGED <<got, held, to>>
        /\ queue' = [queue EXCEPT ![s] = Offered(q, p)]
        /\ req' = [req EXCEPT ![p] = "accepted"]
        /\ s \in DOMAIN queue /\ p \in DOMAIN req
    BY <1>0, <1>3 DEF Offer, TypeOK, threadVars
  <2>1. /\ req[p] # "accepted" /\ req'[p] = "accepted" /\ IsInjective(q)
        /\ queue'[s] = Offered(q, p)
        /\ \A c \in Clients \ {s} : queue'[c] = queue[c]
        /\ \A o \in Posts \ {p} : req'[o] = req[o]
    BY <1>0, <2>0 DEF TypeOK, NothingTwice
  <2> HIDE DEF q, s
  <2>2. \A c \in Clients : p \notin got[c] \cup ToSet(held[c]) \cup ToSet(queue[c])
    BY <2>1 DEF NothingTwice
  <2>3. ToSet(Offered(q, p)) = ToSet(q) \cup {p} /\ IsInjective(Offered(q, p))
    BY <2>0, <2>1, <2>2, OfferKeeps, OfferOnce DEF q
  <2>4. \A c \in Clients :
            got[c] \subseteq Posts /\ ToSet(held[c]) \subseteq Posts /\ ToSet(queue[c]) \subseteq Posts
    BY <1>0, MessagesAreRequests
  <2>5. SUFFICES ASSUME NEW c \in Clients
                 PROVE  /\ IsInjective(queue'[c])
                        /\ ToSet(held'[c]) \cap ToSet(queue'[c]) = {}
                        /\ got'[c] \cap (ToSet(held'[c]) \cup ToSet(queue'[c])) = {}
                        /\ \A o \in got'[c] \cup ToSet(held'[c]) \cup ToSet(queue'[c]) :
                              req'[o] = "accepted" /\ to'[o] = c
    BY DEF NothingTwice
  <2>6. CASE c = s
    <3>1. /\ ToSet(held[s]) \cap ToSet(q) = {} /\ got[s] \cap (ToSet(held[s]) \cup ToSet(q)) = {}
          /\ \A o \in got[s] \cup ToSet(held[s]) \cup ToSet(q) : req[o] = "accepted" /\ to[o] = s
          /\ got[s] \subseteq Posts /\ ToSet(held[s]) \subseteq Posts /\ ToSet(q) \subseteq Posts
          /\ p \notin got[s] \cup ToSet(held[s]) \cup ToSet(q)
      BY <2>0, <2>2, <2>4 DEF NothingTwice, q
    <3>2. ToSet(queue'[s]) = ToSet(q) \cup {p} /\ held'[s] = held[s] /\ got'[s] = got[s] /\ to' = to
          /\ IsInjective(queue'[s])
      BY <2>0, <2>1, <2>3
    <3>3. /\ ToSet(held'[s]) \cap ToSet(queue'[s]) = {}
          /\ got'[s] \cap (ToSet(held'[s]) \cup ToSet(queue'[s])) = {}
      BY <3>1, <3>2, Zenon
    <3>4. to[p] = s
      BY DEF s
    <3>5. \A o \in got'[s] \cup ToSet(held'[s]) \cup ToSet(queue'[s]) : req'[o] = "accepted" /\ to'[o] = s
      <4> SUFFICES ASSUME NEW o \in got'[s] \cup ToSet(held'[s]) \cup ToSet(queue'[s])
                   PROVE  req'[o] = "accepted" /\ to'[o] = s
        OBVIOUS
      <4>1. o = p \/ o \in got[s] \cup ToSet(held[s]) \cup ToSet(q)
        BY <3>2, Zenon
      <4>2. CASE o = p
        BY <2>1, <3>2, <3>4, <4>2, Zenon
      <4>3. CASE o # p
        <5>1. o \in Posts \ {p} /\ req[o] = "accepted" /\ to[o] = s
          BY <3>1, <4>1, <4>3, Zenon
        <5> QED
          BY <2>1, <3>2, <5>1, Zenon
      <4> QED
        BY <4>2, <4>3
    <3> QED
      BY <2>6, <3>2, <3>3, <3>5, Zenon
  <2>7. CASE c # s
    BY <2>0, <2>1, <2>2, <2>4, <2>7 DEF NothingTwice
  <2> QED
    BY <2>6, <2>7
<1>4. ASSUME NEW s \in Clients,
             \/ Connect(s) \/ Register(s) \/ SendHeaders(s) \/ Hello(s) \/ TestOpen(s)
             \/ TakeNothing(s) \/ WriteKeepalive(s) \/ Leave(s)
             \/ CloseSession(s) \/ Disconnect(s) \/ ResetArrives(s)
      PROVE  UNCHANGED <<got, held, queue, req, to>>
  BY <1>4
  DEF Connect, Register, SendHeaders, Hello, TestOpen, TakeNothing, WriteKeepalive, Leave,
      CloseSession, Disconnect, ResetArrives, threadVars, requestVars
<1>5. CASE StopServer \/ CopySessions \/ ClearSessions \/ UNCHANGED vars
  <2>1. UNCHANGED <<got, held, queue, req, to>>
    BY <1>5 DEF StopServer, CopySessions, ClearSessions, vars, threadVars, requestVars
  <2> QED
    BY <1>0, <2>1, SamePlaces
<1>6. ASSUME NEW p \in Posts,
             \/ Handle(p) \/ EnqueueMessage(p) \/ PostDirectly(p)
             \/ \E s \in Clients : Post(p, s)
      PROVE  NothingTwice'
  <2>1. /\ UNCHANGED <<got, held, queue>>
        /\ \A o \in Posts : req[o] = "accepted" => req'[o] = "accepted" /\ to'[o] = to[o]
    BY <1>0, <1>6
    DEF Handle, EnqueueMessage, PostDirectly, Post, threadVars, TypeOK, Answers
  <2> QED
    BY <1>0, <2>1, SamePlaces
<1>7. ASSUME UNCHANGED <<got, held, queue, req, to>> PROVE NothingTwice'
  BY <1>0, <1>7, SamePlaces
<1> QED
  BY <1>1, <1>2, <1>3, <1>4, <1>5, <1>6, <1>7 DEF Next, ThreadStep, RequestStep

\* No response reaches a client twice or reaches another client than the one
\* whose session the request named, and none waits in two places.
THEOREM SessionsDeliverOnce == Spec => []NothingTwice
<1>1. Init => NothingTwice
  <2>1. ToSet(<<>>) = {} /\ IsInjective(<<>>)
    BY DEF ToSet, IsInjective
  <2> QED
    BY <2>1 DEF Init, NothingTwice
<1> QED
  BY InitSession, NextSession, <1>1, NextOnce, PTL DEF Spec
=============================================================================
