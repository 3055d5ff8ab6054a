------------------------------- MODULE Server -------------------------------
(***************************************************************************)
(* serve (src/src/server.rs): the accept loop, the task of each client     *)
(* connection, the requests it carries, the two semaphores that bound them *)
(* and the drain that ends the process.                                    *)
(*                                                                         *)
(* Connections and requests are slots that clients use again and again.    *)
(* The protocol driver (hyper) is external: it starts a request when it    *)
(* has its headers, drops the request futures of an HTTP/1.1 connection    *)
(* with the connection, and runs those of an HTTP/2 connection as tasks of *)
(* their own that notice a little later that their stream is gone.         *)
(***************************************************************************)
EXTENDS Naturals, FiniteSets

CONSTANTS
    Conn,               \* client connections
    Stream,             \* requests one connection may carry at once
    MaxConnections,     \* permits of connection_semaphore
    MaxRequests,        \* permits of the request semaphore
    Tls                 \* whether tls_acceptor is configured

ASSUME SlotAssumption == IsFiniteSet(Conn) /\ IsFiniteSet(Stream)

(* Config::into_runtime rejects a zero limit.                              *)
ASSUME LimitAssumption ==
    MaxConnections \in Nat \ {0} /\ MaxRequests \in Nat \ {0} /\ Tls \in BOOLEAN

Request == Conn \X Stream
Protocol == {"h1", "h2"}

VARIABLES
    loop,           \* where serve is: "accepting", "draining", "aborting", "stopped"
    conn,           \* state of each connection
    proto,          \* protocol a connection speaks, once it is served
    watchers,       \* connections whose task holds a watcher of the graceful shutdown
    closing,        \* connections that have noticed the graceful shutdown
    gone,           \* connections whose client left in the middle of a request (history)
    req,            \* state of each request
    connPermits,    \* available permits of the two semaphores
    reqPermits

vars == <<loop, conn, proto, watchers, closing, gone, req, connPermits, reqPermits>>

(* The connections whose task is running: each holds a connection permit.  *)
Live == {c \in Conn : conn[c] \in {"handshake", "serving"}}

(* The requests inside handle_request: each holds a request permit.        *)
Handling == {r \in Request : req[r] = "handling"}

RequestsOf(c) == {r \in Request : r[1] = c}
Quiet(c) == \A r \in RequestsOf(c) : req[r] = "idle"

Init ==
    /\ loop = "accepting"
    /\ conn = [c \in Conn |-> "closed"]
    /\ proto = [c \in Conn |-> "h1"]
    /\ watchers = {}
    /\ closing = {}
    /\ gone = {}
    /\ req = [r \in Request |-> "idle"]
    /\ connPermits = MaxConnections
    /\ reqPermits = MaxRequests

-----------------------------------------------------------------------------
(* A client connects: it waits in the backlog of the listener.             *)
Connect(c) ==
    /\ loop # "stopped"
    /\ conn[c] = "closed" /\ Quiet(c)
    /\ conn' = [conn EXCEPT ![c] = "waiting"]
    /\ gone' = gone \ {c}
    /\ UNCHANGED <<loop, proto, watchers, closing, req, connPermits, reqPermits>>

(* The accept loop takes a permit and a watcher and spawns the task, or    *)
(* drops the connection when there is no permit.                           *)
SpawnTask(c) ==
    /\ conn' = [conn EXCEPT ![c] = IF Tls THEN "handshake" ELSE "serving"]
    /\ \E p \in Protocol : proto' = [proto EXCEPT ![c] = p]

AcceptDroppingPermit(c) ==
    /\ loop = "accepting"
    /\ conn[c] = "waiting"
    /\ \/ connPermits > 0 /\ SpawnTask(c) /\ watchers' = watchers \cup {c}
       \/ /\ connPermits = 0
          /\ conn' = [conn EXCEPT ![c] = "closed"]
          /\ UNCHANGED <<proto, watchers>>
    /\ UNCHANGED <<loop, closing, gone, req, connPermits, reqPermits>>

AcceptWatchingServed(c) ==
    /\ loop = "accepting"
    /\ conn[c] = "waiting"
    /\ \/ /\ connPermits > 0
          /\ connPermits' = connPermits - 1
          /\ watchers' = IF Tls THEN watchers ELSE watchers \cup {c}
          /\ SpawnTask(c)
       \/ /\ connPermits = 0
          /\ conn' = [conn EXCEPT ![c] = "closed"]
          /\ UNCHANGED <<proto, watchers, connPermits>>
    /\ UNCHANGED <<loop, closing, gone, req, reqPermits>>

Accept(c) ==
    /\ loop = "accepting"
    /\ conn[c] = "waiting"
    /\ \/ /\ connPermits > 0
          /\ connPermits' = connPermits - 1
          /\ watchers' = watchers \cup {c}
          /\ SpawnTask(c)
       \/ /\ connPermits = 0
          /\ conn' = [conn EXCEPT ![c] = "closed"]
          /\ UNCHANGED <<proto, watchers, connPermits>>
    /\ UNCHANGED <<loop, closing, gone, req, reqPermits>>

(* The end of a connection's task, in whatever way, drops its permit and   *)
(* its watcher, and with an HTTP/1.1 connection its request.               *)
EndTask(c) ==
    LET dropped == IF proto[c] = "h1" THEN RequestsOf(c) ELSE {}
    IN  /\ conn' = [conn EXCEPT ![c] = "closed"]
        /\ watchers' = watchers \ {c}
        /\ closing' = closing \ {c}
        /\ connPermits' = connPermits + 1
        /\ req' = [r \in Request |-> IF r \in dropped THEN "idle" ELSE req[r]]
        /\ reqPermits' = reqPermits + Cardinality(dropped \cap Handling)
        /\ UNCHANGED proto

(* acceptor.accept(stream).await, under no timeout.                        *)
HandshakeDone(c) ==
    /\ conn[c] = "handshake"
    /\ conn' = [conn EXCEPT ![c] = "serving"]
    /\ UNCHANGED <<loop, proto, watchers, closing, gone, req, connPermits, reqPermits>>

HandshakeFailed(c) ==
    /\ conn[c] = "handshake"
    /\ EndTask(c)
    /\ UNCHANGED <<loop, gone>>

(* The client goes away, the protocol fails or the headers of the next     *)
(* request take longer than header_read_timeout.                           *)
ConnectionLost(c) ==
    /\ conn[c] = "serving"
    /\ EndTask(c)
    /\ gone' = IF Quiet(c) THEN gone ELSE gone \cup {c}
    /\ UNCHANGED loop

-----------------------------------------------------------------------------
SetRequest(r, s) == req' = [req EXCEPT ![r] = s]

(* The service function: a permit, or 503 when there is none.              *)
StartRequestUnchecked(r) ==
    /\ conn[r[1]] = "serving" /\ r[1] \notin closing
    /\ req[r] = "idle"
    /\ proto[r[1]] = "h1" => Quiet(r[1])
    /\ \/ reqPermits > 0 /\ SetRequest(r, "handling")
       \/ reqPermits = 0 /\ SetRequest(r, "error")
    /\ UNCHANGED <<loop, conn, proto, watchers, closing, gone, connPermits, reqPermits>>

StartRequest(r) ==
    /\ conn[r[1]] = "serving" /\ r[1] \notin closing
    /\ req[r] = "idle"
    /\ proto[r[1]] = "h1" => Quiet(r[1])
    /\ \/ reqPermits > 0 /\ reqPermits' = reqPermits - 1 /\ SetRequest(r, "handling")
       \/ reqPermits = 0 /\ SetRequest(r, "error") /\ UNCHANGED reqPermits
    /\ UNCHANGED <<loop, conn, proto, watchers, closing, gone, connPermits>>

(* handle_request returns: the permit is dropped there and then, while the *)
(* body of the response has still to be streamed.                          *)
FinishRequestTwice(r) ==
    /\ req[r] = "handling"
    /\ SetRequest(r, "streaming") \/ SetRequest(r, "error")
    /\ reqPermits' = reqPermits + 2
    /\ UNCHANGED <<loop, conn, proto, watchers, closing, gone, connPermits>>

FinishRequest(r) ==
    /\ req[r] = "handling"
    /\ SetRequest(r, "streaming") \/ SetRequest(r, "error")
    /\ reqPermits' = reqPermits + 1
    /\ UNCHANGED <<loop, conn, proto, watchers, closing, gone, connPermits>>

(* The response, or what is left of it, has been written.                  *)
EndResponse(r) ==
    /\ req[r] \in {"streaming", "error"}
    /\ SetRequest(r, "idle")
    /\ UNCHANGED <<loop, conn, proto, watchers, closing, gone, connPermits, reqPermits>>

(* An HTTP/2 stream is reset by the client, or gone with its connection:   *)
(* the future of the request is dropped.                                   *)
CancelRequest(r) ==
    /\ proto[r[1]] = "h2"
    /\ req[r] = "handling"
    /\ SetRequest(r, "idle")
    /\ reqPermits' = reqPermits + 1
    /\ UNCHANGED <<loop, conn, proto, watchers, closing, gone, connPermits>>

-----------------------------------------------------------------------------
(* The shutdown future resolves: the loop ends and the drain begins.       *)
Shutdown ==
    /\ loop = "accepting"
    /\ loop' = "draining"
    /\ UNCHANGED <<conn, proto, watchers, closing, gone, req, connPermits, reqPermits>>

(* A served connection notices the shutdown: it takes no more requests and *)
(* ends once those in progress are answered.                               *)
NoticeShutdown(c) ==
    /\ loop = "draining"
    /\ conn[c] = "serving" /\ c \notin closing
    /\ closing' = closing \cup {c}
    /\ UNCHANGED <<loop, conn, proto, watchers, gone, req, connPermits, reqPermits>>

CloseDrained(c) ==
    /\ c \in closing /\ Quiet(c)
    /\ EndTask(c)
    /\ UNCHANGED <<loop, gone>>

(* serve returns: the listener is dropped, and with it its backlog.        *)
ReturnFromServe ==
    /\ loop' = "stopped"
    /\ conn' = [c \in Conn |-> IF conn[c] = "waiting" THEN "closed" ELSE conn[c]]
    /\ UNCHANGED <<proto, watchers, closing, gone, req, connPermits, reqPermits>>

(* graceful.shutdown() resolves when the last watcher is dropped.          *)
DrainComplete ==
    /\ loop = "draining"
    /\ watchers = {}
    /\ ReturnFromServe

(* ... unless shutdown_timeout elapses first; then every task is aborted   *)
(* and awaited.                                                            *)
DrainNeverTimesOut ==
    /\ loop = "draining" /\ watchers = {}
    /\ loop' = "aborting"
    /\ UNCHANGED <<conn, proto, watchers, closing, gone, req, connPermits, reqPermits>>

DrainTimeout ==
    /\ loop = "draining"
    /\ loop' = "aborting"
    /\ UNCHANGED <<conn, proto, watchers, closing, gone, req, connPermits, reqPermits>>

AbortTask(c) ==
    /\ loop = "aborting"
    /\ c \in Live
    /\ EndTask(c)
    /\ UNCHANGED <<loop, gone>>

AbortComplete ==
    /\ loop = "aborting"
    /\ Live = {}
    /\ ReturnFromServe

-----------------------------------------------------------------------------
ConnStep(c) ==
    \/ Connect(c) \/ Accept(c) \/ HandshakeDone(c) \/ HandshakeFailed(c)
    \/ ConnectionLost(c) \/ NoticeShutdown(c) \/ CloseDrained(c) \/ AbortTask(c)

RequestStep(r) ==
    StartRequest(r) \/ FinishRequest(r) \/ EndResponse(r) \/ CancelRequest(r)

Next ==
    \/ \E c \in Conn : ConnStep(c)
    \/ \E r \in Request : RequestStep(r)
    \/ Shutdown \/ DrainComplete \/ DrainTimeout \/ AbortComplete

Spec == Init /\ [][Next]_vars

(* tokio polls what is ready and fires the timers: the drain's deadline    *)
(* passes, aborted tasks end, and serve goes on when they have.            *)
Fairness ==
    /\ WF_vars(DrainTimeout)
    /\ WF_vars(DrainComplete)
    /\ WF_vars(AbortComplete)
    /\ \A c \in Conn : WF_vars(AbortTask(c))

FairSpec == Spec /\ Fairness

-----------------------------------------------------------------------------
(* The states of the loop, the connections, the requests and the permits.  *)
TypeOK ==
    /\ loop \in {"accepting", "draining", "aborting", "stopped"}
    /\ conn \in [Conn -> {"closed", "waiting", "handshake", "serving"}]
    /\ proto \in [Conn -> Protocol]
    /\ watchers \subseteq Conn
    /\ closing \subseteq {c \in Conn : conn[c] = "serving"}
    /\ gone \subseteq Conn
    /\ req \in [Request -> {"idle", "handling", "streaming", "error"}]
    /\ connPermits \in 0..MaxConnections
    /\ reqPermits \in 0..MaxRequests

(* No connection permit is lost or released twice, whichever way the task  *)
(* of a connection ends (refused handshake, client gone, drained, aborted) *)
(* so that max_connections neither leaks away nor is exceeded.             *)
SlotsConserved == connPermits + Cardinality(Live) = MaxConnections

(* The same for the request permits, with the futures of HTTP/2 requests   *)
(* that outlive their connection (serve, the service function).            *)
PermitsConserved == reqPermits + Cardinality(Handling) = MaxRequests

(* Before the drain's deadline serve cuts nothing short: although all it   *)
(* waits for is that the watchers are dropped, it returns only when every  *)
(* task, a TLS handshake in progress included, has ended, and the one kind *)
(* of request still in progress is that of an HTTP/2 client that left.     *)
DrainCutsNone ==
    [][loop = "draining" /\ loop' = "stopped"
       => /\ Live = {}
          /\ \A r \in Request :
                req[r] # "idle" => proto[r[1]] = "h2" /\ r[1] \in gone]_vars

(* Once the shutdown signal arrives serve returns, whatever clients and    *)
(* backends do ("Any connection still active after the deadline is         *)
(* aborted").                                                              *)
ShutdownCompletes == loop = "draining" ~> loop = "stopped"

=============================================================================
