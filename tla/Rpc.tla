-------------------------------- MODULE Rpc --------------------------------
(***************************************************************************)
(* rpc/rpc.go: the connection pool a Transport calls a peer through, and   *)
(* the server at the other end.  Goroutines of one process (Caller) share  *)
(* the pool's cached connection to the peer; whoever finds none dials      *)
(* while the others wait at the gate.  The server accepts connections,     *)
(* runs a handler per request and is closed once.                          *)
(*                                                                         *)
(* TCP and net/rpc are external: a dial yields a new connection or fails;  *)
(* a connection may break at any time; a call on a connection ends with    *)
(* its reply, which is matched by sequence number and may be an error, or  *)
(* with an error once the connection is closed at either end; what the     *)
(* server has received of a connection that closed it may still handle;    *)
(* ServeConn returns when the connection is closed and the handlers it     *)
(* started have ended.  Connections are numbered, 0 stands for none.       *)
(***************************************************************************)
EXTENDS Naturals, FiniteSets

CONSTANTS
    Caller,
    Nobody,      \* in place of the caller of a call that was given up
    MaxConns     \* bound: connections dialled

VARIABLES
    pc,          \* where each caller's callWithTimeout is
    via,         \* the connection its call was made on
    conn,        \* pool.conns: the cached connection
    dial,        \* pool.dials: is a dial in progress?
    held,        \* connections the client has open
    dialled,     \* connections dialled so far
    queued,      \* connections not yet accepted
    open,        \* connections open at the server, not broken
    served,      \* Server.conns: connections with a ServeConn goroutine
    requests,    \* <<caller, connection>> of requests on their way
    handlers,    \* <<caller, connection>> of requests being handled
    replies,     \* <<caller, connection>> of replies on their way
    accepting,   \* is the serve goroutine running?
    closing,     \* Server.Close: "no", "marked", "waiting", "returned"
    listed       \* the connections Close found

poolVars == <<conn, dial, held, dialled>>
requestVars == <<requests, handlers, replies>>
serverVars == <<queued, open, served, accepting, closing, listed>>
vars == <<pc, via, poolVars, requestVars, serverVars>>

Init ==
    /\ pc = [c \in Caller |-> "idle"]
    /\ via = [c \in Caller |-> 0]
    /\ conn = 0 /\ dial = FALSE
    /\ held = {} /\ dialled = 0
    /\ queued = {} /\ open = {} /\ served = {}
    /\ requests = {} /\ handlers = {} /\ replies = {}
    /\ accepting = TRUE
    /\ closing = "no" /\ listed = {}

Goes(c, where, by) ==
    /\ pc' = [pc EXCEPT ![c] = where]
    /\ via' = [via EXCEPT ![c] = by]

\* A request of c leaves on connection n, unless the connection is broken.
Sends(c, n) ==
    /\ requests' = IF n \in open THEN requests \cup {<<c, n>>} ELSE requests
    /\ UNCHANGED <<handlers, replies>>

-----------------------------------------------------------------------------
(* pool.client *)

\* A cached connection is used at once.
ClientCached(c) ==
    /\ pc[c] = "idle" /\ conn # 0
    /\ Goes(c, "calling", conn)
    /\ Sends(c, conn)
    /\ UNCHANGED <<poolVars, serverVars>>

\* Variant of ClientDials: the gate is not looked at.
ClientDialsAlways(c) ==
    /\ pc[c] = "idle" /\ conn = 0
    /\ dialled < MaxConns
    /\ dial' = TRUE
    /\ Goes(c, "dialing", 0)
    /\ UNCHANGED <<conn, held, dialled, requestVars, serverVars>>

\* The first to find none becomes the dialler.
ClientDials(c) ==
    /\ pc[c] = "idle" /\ conn = 0 /\ ~ dial
    /\ dialled < MaxConns
    /\ dial' = TRUE
    /\ Goes(c, "dialing", 0)
    /\ UNCHANGED <<conn, held, dialled, requestVars, serverVars>>

\* The others wait for its dial to end.
ClientWaits(c) ==
    /\ pc[c] = "idle" /\ conn = 0 /\ dial
    /\ Goes(c, "waiting", 0)
    /\ UNCHANGED <<poolVars, requestVars, serverVars>>

\* Dialler c is done and goes on at where; those at its gate may pass.
OpenGate(c, where) ==
    /\ dial' = FALSE
    /\ pc' = [k \in Caller |-> IF k = c THEN where
                              ELSE IF pc[k] = "waiting" THEN "woken" ELSE pc[k]]

\* The dial succeeds: the connection is cached before the gate opens.
DialSucceeds(c) ==
    /\ pc[c] = "dialing" /\ closing \in {"no", "marked"}
    /\ dialled < MaxConns
    /\ dialled' = dialled + 1
    /\ conn' = dialled + 1
    /\ held' = held \cup {dialled + 1}
    /\ queued' = queued \cup {dialled + 1}
    /\ open' = open \cup {dialled + 1}
    /\ OpenGate(c, "calling")
    /\ via' = [via EXCEPT ![c] = dialled + 1]
    /\ requests' = requests \cup {<<c, dialled + 1>>}
    /\ UNCHANGED <<served, handlers, replies, accepting, closing, listed>>

\* Variant of DialFails: the failure leaves the gate in place.
DialFailsGateStays(c) ==
    /\ pc[c] = "dialing"
    /\ Goes(c, "idle", 0)
    /\ UNCHANGED <<poolVars, requestVars, serverVars>>

DialFails(c) ==
    /\ pc[c] = "dialing"
    /\ OpenGate(c, "idle")
    /\ UNCHANGED <<via, conn, held, dialled, requestVars, serverVars>>

\* A waiter passes the gate of its dial and takes what is cached by then.
WaiterWakes(c) ==
    /\ pc[c] = "woken"
    /\ IF conn # 0
       THEN Goes(c, "calling", conn) /\ Sends(c, conn)
       ELSE Goes(c, "idle", 0) /\ UNCHANGED requestVars
    /\ UNCHANGED <<poolVars, serverVars>>

-----------------------------------------------------------------------------
(* callWithTimeout *)

\* What is left at the server of the call c is making answers nobody.
disown(c, calls) ==
    {IF r = <<c, via[c]>> THEN <<Nobody, r[2]>> ELSE r : r \in calls}

\* c's call is over.
CallOver(c) ==
    /\ Goes(c, "idle", 0)
    /\ requests' = disown(c, requests)
    /\ handlers' = disown(c, handlers)
    /\ replies' = replies \ {<<c, via[c]>>}

\* The reply arrived on an open connection.
CallReturns(c) ==
    /\ pc[c] = "calling" /\ <<c, via[c]>> \in replies
    /\ via[c] \in held \cap open
    /\ CallOver(c)
    /\ UNCHANGED <<poolVars, serverVars>>

\* The connection failed, or the handler's reply is an error: whatever is cached
\* now is closed and forgotten, which need not be the connection the call was
\* made on.
CallFails(c) ==
    /\ pc[c] = "calling"
    /\ via[c] \notin held \cap open \/ <<c, via[c]>> \in replies
    /\ held' = held \ {conn}
    /\ open' = open \ {conn}
    /\ conn' = 0
    /\ CallOver(c)
    /\ UNCHANGED <<dial, dialled, queued, served, accepting, closing, listed>>

\* The timer fires first.  The connection stays for the calls that share it, and
\* the request may still be handled.
CallTimesOut(c) ==
    /\ pc[c] = "calling"
    /\ CallOver(c)
    /\ UNCHANGED <<poolVars, serverVars>>

\* Transport.Close; a dial in progress still caches its connection later.
TransportClose ==
    /\ held' = held \ {conn}
    /\ open' = open \ {conn}
    /\ conn' = 0
    /\ UNCHANGED <<pc, via, dial, dialled, requestVars, queued, served,
                   accepting, closing, listed>>

-----------------------------------------------------------------------------
(* Server *)

\* Variant of Accept: Close is not looked for.
AcceptAlways(n) ==
    /\ accepting /\ n \in queued
    /\ queued' = queued \ {n}
    /\ served' = served \cup {n}
    /\ UNCHANGED <<pc, via, poolVars, requestVars, accepting, open, closing,
                   listed>>

\* serve accepts connection n, or refuses it and ends when Close came first.
Accept(n) ==
    /\ accepting /\ n \in queued
    /\ queued' = queued \ {n}
    /\ IF closing = "no"
       THEN served' = served \cup {n} /\ UNCHANGED <<accepting, open>>
       ELSE accepting' = FALSE /\ open' = open \ {n} /\ UNCHANGED served
    /\ UNCHANGED <<pc, via, poolVars, requestVars, closing, listed>>

\* The listener is closed: Accept fails and serve ends.
AcceptEnds ==
    /\ accepting /\ closing = "waiting"
    /\ accepting' = FALSE
    /\ UNCHANGED <<pc, via, poolVars, requestVars, queued, open, served,
                   closing, listed>>

\* A request arrives on a connection that is served and its handler starts,
\* whether or not its caller still waits.
HandlerStarts(r) ==
    /\ r \in requests /\ r[2] \in served
    /\ requests' = requests \ {r}
    /\ handlers' = handlers \cup {r}
    /\ UNCHANGED <<pc, via, poolVars, replies, serverVars>>

\* The reply leaves unless the connection is closed or nobody waits for it.
HandlerEnds(h) ==
    /\ h \in handlers
    /\ handlers' = handlers \ {h}
    /\ replies' = IF h[1] # Nobody /\ h[2] \in open
                  THEN replies \cup {h} ELSE replies
    /\ UNCHANGED <<pc, via, poolVars, requests, serverVars>>

\* ServeConn returns, with what it did not read, and its goroutine takes the
\* connection off the list.
ServeConnEnds(n) ==
    /\ n \in served \ open
    /\ \A h \in handlers : h[2] # n
    /\ served' = served \ {n}
    /\ requests' = {r \in requests : r[2] # n}
    /\ UNCHANGED <<pc, via, poolVars, handlers, replies, queued, open, accepting,
                   closing, listed>>

\* Close marks the server closed; its connections are those listed by then.
CloseBegins ==
    /\ closing = "no"
    /\ closing' = "marked"
    /\ listed' = served
    /\ UNCHANGED <<pc, via, poolVars, requestVars, queued, open, served,
                   accepting>>

\* It closes the listener, with what waits there, and every connection.
CloseConns ==
    /\ closing = "marked"
    /\ closing' = "waiting"
    /\ open' = open \ (queued \cup listed)
    /\ queued' = {} /\ listed' = {}
    /\ requests' = {r \in requests : r[2] \notin queued}
    /\ UNCHANGED <<pc, via, poolVars, handlers, replies, served, accepting>>

\* Variant of CloseReturns: nothing is waited for.
CloseReturnsEarly ==
    /\ closing = "waiting"
    /\ closing' = "returned"
    /\ UNCHANGED <<pc, via, poolVars, requestVars, queued, open, served,
                   accepting, listed>>

\* wg.Wait: serve has ended, and every ServeConn goroutine.
CloseReturns ==
    /\ closing = "waiting"
    /\ ~ accepting /\ served = {}
    /\ closing' = "returned"
    /\ UNCHANGED <<pc, via, poolVars, requestVars, queued, open, served,
                   accepting, listed>>

\* The network breaks a connection.
Break(n) ==
    /\ n \in open
    /\ open' = open \ {n}
    /\ UNCHANGED <<pc, via, poolVars, requestVars, queued, served, accepting,
                   closing, listed>>

-----------------------------------------------------------------------------

Call(c) ==
    \/ ClientCached(c) \/ ClientDials(c) \/ ClientWaits(c)
    \/ DialSucceeds(c) \/ DialFails(c) \/ WaiterWakes(c)
    \/ CallReturns(c) \/ CallFails(c) \/ CallTimesOut(c)

Next ==
    \/ \E c \in Caller : Call(c)
    \/ \E r \in requests : HandlerStarts(r)
    \/ TransportClose
    \/ \E n \in 1..MaxConns : Accept(n) \/ ServeConnEnds(n) \/ Break(n)
    \/ AcceptEnds
    \/ \E h \in handlers : HandlerEnds(h)
    \/ CloseBegins \/ CloseConns \/ CloseReturns

\* Dials and calls have timeouts, woken goroutines run, handlers end.
Fairness ==
    /\ \A c \in Caller :
          /\ WF_vars(DialSucceeds(c) \/ DialFails(c))
          /\ WF_vars(WaiterWakes(c))
          /\ WF_vars(CallReturns(c) \/ CallFails(c) \/ CallTimesOut(c))
    /\ WF_vars(\E h \in handlers : HandlerEnds(h))
    /\ WF_vars(\E n \in 1..MaxConns : ServeConnEnds(n))
    /\ WF_vars(AcceptEnds) /\ WF_vars(CloseConns) /\ WF_vars(CloseReturns)

FairSpec == Init /\ [][Next]_vars /\ Fairness

-----------------------------------------------------------------------------
(* Properties *)

\* Once Close has returned no handler is running and none starts: a node that
\* was shut down no longer votes or acknowledges entries.
ClosedMeansQuiet ==
    closing = "returned" => handlers = {} /\ served \cap open = {}

\* Every connection the client holds open is the cached one: neither concurrent
\* dials nor drops nor Close leak a connection.
NoConnectionLeaks == held \subseteq {conn}

\* Every call ends: nobody is left waiting at a gate or for a reply.
CallsEnd ==
    \A c \in Caller : pc[c] # "idle" ~> pc[c] = "idle"

\* Close returns once it was called, whatever its clients do.
CloseEnds == closing = "marked" ~> closing = "returned"
=============================================================================
