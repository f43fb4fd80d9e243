------------------------------ MODULE Sessions ------------------------------
(***************************************************************************)
(* The MCP server of the Java worker over HTTP (HttpMcpServer.java): each  *)
(* GET of the endpoint holds a thread that writes the events of one        *)
(* session; a POST to the message path runs in a thread of its own, looks  *)
(* its session up, and puts the response into the session's queue, for     *)
(* the session's thread to write.  With streamable-http a POST to the      *)
(* endpoint is answered on its own exchange.                               *)
(*                                                                         *)
(* A session and a request are each used once: their identifiers are new   *)
(* UUIDs and new exchanges.  The path, the headers and the JSON are left   *)
(* out, and so is the answer of a request whose sender has gone.           *)
(***************************************************************************)
EXTENDS Naturals, SequencesExt

CONSTANTS
    Clients,    \* the sessions that clients may open
    Posts,      \* the requests they may send
    Keepalive   \* KEEPALIVE_SECONDS, in polls of the queue

ASSUME SessionAssumption == Keepalive \in Nat \ {0}

VARIABLES
    at,        \* where the thread of each session is
    line,      \* the connection of each session
    sessions,  \* the map: sessions a request can find
    open,      \* Session.open
    queue,     \* Session.queue
    held,      \* the message it has taken, as a sequence of at most one
    quiet,     \* polls that found nothing since its last write
    got,       \* history: responses that reached the client
    to,        \* the session each request names
    req,       \* where each request is, or how it was answered
    server,    \* progress of stop()
    snapshot   \* sessions that stop() has yet to close

threadVars == <<at, held, quiet>>
requestVars == <<to, req>>
stopVars == <<server, snapshot>>
vars == <<threadVars, line, sessions, open, queue, got, requestVars, stopVars>>

\* A client that has gone is noticed by a write once its reset has arrived.
Lines == {"none", "up", "gone", "reset", "closed"}
Stops == {"up", "stopped", "closing", "down"}
Threads == {"none", "arrived", "headers", "hello", "loop", "poll", "write", "ping",
            "leave", "left", "leaked"}
\* 202 with a response in the queue, or any answer that leaves nothing to send.
Answers == {"accepted", "answered"}

NoClient == "none"

Init ==
    /\ at = [s \in Clients |-> "none"]
    /\ line = [s \in Clients |-> "none"]
    /\ sessions = {}
    /\ open = [s \in Clients |-> TRUE]
    /\ queue = [s \in Clients |-> <<>>]
    /\ held = [s \in Clients |-> <<>>]
    /\ quiet = [s \in Clients |-> 0]
    /\ got = [s \in Clients |-> {}]
    /\ to = [p \in Posts |-> NoClient]
    /\ req = [p \in Posts |-> "new"]
    /\ server = "up"
    /\ snapshot = {}

Goto(s, place) == at' = [at EXCEPT ![s] = place]

----------------------------------------------------------------------------
(* The thread of a session: handleSseConnect and Session.start.            *)

Connect(s) ==
    /\ at[s] = "none"
    /\ server = "up"
    /\ Goto(s, "arrived")
    /\ line' = [line EXCEPT ![s] = "up"]
    /\ UNCHANGED <<sessions, open, queue, held, quiet, got, requestVars, stopVars>>

Register(s) ==
    /\ at[s] = "arrived"
    /\ Goto(s, "headers")
    /\ sessions' = sessions \cup {s}
    /\ UNCHANGED <<line, open, queue, held, quiet, got, requestVars, stopVars>>

\* The headers are sent before the try: an IOException there leaves the
\* session in the map, open and without a thread.
SendHeaders(s) ==
    /\ at[s] = "headers"
    /\ Goto(s, IF line[s] = "reset" THEN "leaked" ELSE "hello")
    /\ UNCHANGED <<line, sessions, open, queue, held, quiet, got, requestVars, stopVars>>

\* A write of a client that has gone may still succeed, once it is reset it
\* fails, and the thread leaves the loop.
AfterWrite(s) == IF line[s] = "reset" THEN "leave" ELSE "loop"

\* The endpoint event, which tells the client where to post to.
Hello(s) ==
    /\ at[s] = "hello"
    /\ Goto(s, AfterWrite(s))
    /\ UNCHANGED <<line, sessions, open, queue, held, quiet, got, requestVars, stopVars>>

TestOpen(s) ==
    /\ at[s] = "loop"
    /\ Goto(s, IF open[s] THEN "poll" ELSE "leave")
    /\ UNCHANGED <<line, sessions, open, queue, held, quiet, got, requestVars, stopVars>>

\* Mutated form: the message stays in the queue until it is written.
RestPeeked(q) == q
Rest(q) == Tail(q)

Take(s) ==
    /\ at[s] = "poll"
    /\ queue[s] # <<>>
    /\ Goto(s, "write")
    /\ held' = [held EXCEPT ![s] = <<Head(queue[s])>>]
    /\ queue' = [queue EXCEPT ![s] = Rest(@)]
    /\ UNCHANGED <<line, sessions, open, quiet, got, requestVars, stopVars>>

KeepaliveDue(n) == n >= Keepalive

TakeNothing(s) ==
    /\ at[s] = "poll"
    /\ queue[s] = <<>>
    /\ IF KeepaliveDue(quiet[s] + 1)
       THEN Goto(s, "ping") /\ UNCHANGED quiet
       ELSE Goto(s, "loop") /\ quiet' = [quiet EXCEPT ![s] = IF @ < Keepalive THEN @ + 1 ELSE @]
    /\ UNCHANGED <<line, sessions, open, queue, held, got, requestVars, stopVars>>

\* A message that has been taken is written even if the session was closed
\* meanwhile.
WriteMessage(s) ==
    /\ at[s] = "write"
    /\ Goto(s, AfterWrite(s))
    /\ quiet' = [quiet EXCEPT ![s] = 0]
    /\ held' = [held EXCEPT ![s] = <<>>]
    /\ got' = [got EXCEPT ![s] = IF line[s] = "up" THEN @ \cup ToSet(held[s]) ELSE @]
    /\ UNCHANGED <<line, sessions, open, queue, requestVars, stopVars>>

WriteKeepalive(s) ==
    /\ at[s] = "ping"
    /\ Goto(s, AfterWrite(s))
    /\ quiet' = [quiet EXCEPT ![s] = 0]
    /\ UNCHANGED <<line, sessions, open, queue, held, got, requestVars, stopVars>>

\* finally: close() and exchange.close().
\* Mutated form: the exchange is closed and the session stays in the map.
KeptAfter(s) == sessions
Without(s) == sessions \ {s}

Leave(s) ==
    /\ at[s] = "leave"
    /\ Goto(s, "left")
    /\ open' = [open EXCEPT ![s] = FALSE]
    /\ sessions' = Without(s)
    /\ line' = [line EXCEPT ![s] = "closed"]
    /\ UNCHANGED <<queue, held, quiet, got, requestVars, stopVars>>

----------------------------------------------------------------------------
(* Requests: handleSseMessage and handleStreamablePost.                    *)

\* Only a client that has read the endpoint event knows what to name, and it
\* may still name a session that is over.  That one is answered with 404.
Knows(s) == at[s] \notin {"none", "arrived", "headers", "hello", "leaked"}

IsKnown(s) == s \in sessions /\ open[s]

Post(p, s) ==
    /\ req[p] = "new"
    /\ server = "up"
    /\ Knows(s)
    /\ to' = [to EXCEPT ![p] = s]
    /\ req' = [req EXCEPT ![p] = IF IsKnown(s) THEN "handling" ELSE "answered"]
    /\ UNCHANGED <<threadVars, line, sessions, open, queue, got, stopVars>>

\* readJson and handleJsonRpc: a body that is no JSON is answered with 500, a
\* notification has no response, and everything else has one, errors included.
Handle(p) ==
    /\ req[p] = "handling"
    /\ \E next \in {"enqueue", "answered"} : req' = [req EXCEPT ![p] = next]
    /\ UNCHANGED <<threadVars, line, sessions, open, queue, got, to, stopVars>>

\* enqueueMessage: the flag is read first, and the session may be closed
\* before the message is in its queue.  202 follows in either case.
EnqueueMessage(p) ==
    /\ req[p] = "enqueue"
    /\ req' = [req EXCEPT ![p] = IF open[to[p]] THEN "offer" ELSE "accepted"]
    /\ UNCHANGED <<threadVars, line, sessions, open, queue, got, to, stopVars>>

\* Mutated form: a queue of one message, whose offer may be refused unseen.
OfferedToOne(q, p) == IF q = <<>> THEN <<p>> ELSE q
Offered(q, p) == Append(q, p)

Offer(p) ==
    /\ req[p] = "offer"
    /\ queue' = [queue EXCEPT ![to[p]] = Offered(@, p)]
    /\ req' = [req EXCEPT ![p] = "accepted"]
    /\ UNCHANGED <<threadVars, line, sessions, open, got, to, stopVars>>

\* The whole of handleStreamablePost: response, 202 or 500 on its own exchange.
PostDirectly(p) ==
    /\ req[p] = "new"
    /\ server = "up"
    /\ req' = [req EXCEPT ![p] = "answered"]
    /\ UNCHANGED <<threadVars, line, sessions, open, queue, got, to, stopVars>>

----------------------------------------------------------------------------
(* stop(): it cuts all connections, then closes the sessions it finds.     *)

StopServer ==
    /\ server = "up"
    /\ server' = "stopped"
    /\ line' = [s \in Clients |-> IF line[s] \in {"up", "gone"} THEN "reset" ELSE line[s]]
    /\ UNCHANGED <<threadVars, sessions, open, queue, got, requestVars, snapshot>>

CopySessions ==
    /\ server = "stopped"
    /\ server' = "closing"
    /\ snapshot' = sessions
    /\ UNCHANGED <<threadVars, line, sessions, open, queue, got, requestVars>>

CloseSession(s) ==
    /\ server = "closing"
    /\ s \in snapshot
    /\ snapshot' = snapshot \ {s}
    /\ open' = [open EXCEPT ![s] = FALSE]
    /\ sessions' = sessions \ {s}
    /\ UNCHANGED <<threadVars, line, queue, got, requestVars, server>>

ClearSessions ==
    /\ server = "closing"
    /\ snapshot = {}
    /\ server' = "down"
    /\ sessions' = {}
    /\ UNCHANGED <<threadVars, line, open, queue, got, requestVars, snapshot>>

----------------------------------------------------------------------------
(* The clients.                                                            *)

Disconnect(s) ==
    /\ line[s] = "up"
    /\ line' = [line EXCEPT ![s] = "gone"]
    /\ UNCHANGED <<threadVars, sessions, open, queue, got, requestVars, stopVars>>

ResetArrives(s) ==
    /\ line[s] = "gone"
    /\ line' = [line EXCEPT ![s] = "reset"]
    /\ UNCHANGED <<threadVars, sessions, open, queue, got, requestVars, stopVars>>

ThreadStep(s) ==
    \/ Register(s) \/ SendHeaders(s) \/ Hello(s) \/ TestOpen(s) \/ Take(s)
    \/ TakeNothing(s) \/ WriteMessage(s) \/ WriteKeepalive(s) \/ Leave(s)
RequestStep(p) == Handle(p) \/ EnqueueMessage(p) \/ Offer(p)

Next ==
    \/ \E s \in Clients : Connect(s) \/ ThreadStep(s) \/ Disconnect(s) \/ ResetArrives(s)
    \/ \E p \in Posts : RequestStep(p) \/ PostDirectly(p) \/ \E s \in Clients : Post(p, s)
    \/ StopServer \/ CopySessions \/ ClearSessions
    \/ \E s \in Clients : CloseSession(s)

Spec == Init /\ [][Next]_vars

\* Threads are scheduled, a handler ends, and a client that has gone is reset.
\* Nobody has to connect, to post or to stop the server.
FairSpec ==
    /\ Spec
    /\ \A s \in Clients : WF_vars(ThreadStep(s)) /\ WF_vars(ResetArrives(s))
    /\ \A p \in Posts : WF_vars(RequestStep(p))

----------------------------------------------------------------------------
TypeOK ==
    /\ at \in [Clients -> Threads]
    /\ line \in [Clients -> Lines]
    /\ sessions \subseteq Clients
    /\ open \in [Clients -> BOOLEAN]
    /\ queue \in [Clients -> Seq(Posts)]
    /\ held \in [Clients -> {<<>>} \cup {<<p>> : p \in Posts}]
    /\ quiet \in [Clients -> 0..(Keepalive - 1)]
    /\ got \in [Clients -> SUBSET Posts]
    /\ to \in [Posts -> Clients \cup {NoClient}]
    /\ req \in [Posts -> {"new", "handling", "enqueue", "offer"} \cup Answers]
    /\ \A p \in Posts : req[p] \in {"handling", "enqueue", "offer", "accepted"} => to[p] \in Clients
    /\ server \in Stops
    /\ snapshot \subseteq Clients

\* A response that was accepted with 202 is with its client, in the hands of
\* the session's thread or in the queue, for as long as the client is there:
\* however the request, the thread that leaves and stop() interleave.
AcceptedIsKept ==
    \A p \in Posts :
        req[p] = "accepted" /\ line[to[p]] = "up" =>
            p \in got[to[p]] \cup ToSet(held[to[p]]) \cup ToSet(queue[to[p]])

\* A response is only ever where it belongs and only once: with the client whose
\* session the request named, in the hands of that session's thread, or in its
\* queue.  No client gets the response of another one, or one twice.
NothingTwice ==
    \A s \in Clients :
        /\ IsInjective(queue[s])
        /\ ToSet(held[s]) \cap ToSet(queue[s]) = {}
        /\ got[s] \cap (ToSet(held[s]) \cup ToSet(queue[s])) = {}
        /\ \A p \in got[s] \cup ToSet(held[s]) \cup ToSet(queue[s]) :
              req[p] = "accepted" /\ to[p] = s

\* The client of an accepted response gets it, unless it goes or the server
\* is stopped.
AcceptedIsDelivered ==
    \A p \in Posts, s \in Clients :
        req[p] = "accepted" /\ to[p] = s ~> p \in got[s] \/ line[s] # "up"

\* A session whose client has gone is removed, though nothing is sent to it:
\* the keepalive finds out.  Only the session whose headers failed stays.
GoneIsForgotten ==
    \A s \in Clients :
        line[s] \in {"gone", "reset"} ~> s \notin sessions \/ at[s] = "leaked"
=============================================================================
