----------------------------- MODULE RpcProofs -----------------------------
(***************************************************************************)
(* Proofs about the connection pool and the RPC server, for any number of  *)
(* callers and connections.                                                *)
(***************************************************************************)
EXTENDS Rpc, TLAPS

Places == {"idle", "dialing", "waiting", "woken", "calling"}

PlacesOK ==
    /\ pc \in [Caller -> Places]
    /\ via \in [Caller -> Nat]
    /\ dialled \in Nat /\ conn \in Nat

\* One caller at most is dialling, it holds the gate, and nothing is cached
\* while the gate is closed: the connection it will cache replaces none.
GateInv ==
    /\ \A c \in Caller : pc[c] = "dialing" => dial
    /\ dial => conn = 0
    /\ \A c, d \in Caller : pc[c] = "dialing" /\ pc[d] = "dialing" => c = d

\* NoConnectionLeaks, and 0 is no connection.
HeldInv == held \subseteq {conn} /\ 0 \notin held

PoolInv == PlacesOK /\ GateInv /\ HeldInv

\* A handler runs under the ServeConn goroutine of its connection, and Close has
\* returned only when there is none and serve, which starts them, has ended.
ServerInv ==
    /\ \A h \in handlers : h[2] \in served
    /\ closing = "returned" => ~ accepting /\ served = {}

-----------------------------------------------------------------------------
(* The pool *)

\* At first nobody calls and nothing is cached.
LEMMA PoolInit == Init => PoolInv
<1> SUFFICES ASSUME Init PROVE PoolInv
  OBVIOUS
<1>1. PlacesOK
  BY SMT DEF Init, PlacesOK, Places
<1>2. \A c \in Caller : pc[c] = "idle"
  BY SMT DEF Init
<1>3. conn = 0
  BY Zenon DEF Init
<1>4. GateInv
  BY Zenon, <1>2, <1>3 DEF GateInv
<1>5. HeldInv
  BY Zenon DEF Init, HeldInv
<1>6. QED
  BY Zenon, <1>1, <1>4, <1>5 DEF PoolInv

\* A caller that moves anywhere but to the dialler's place.
LEMMA MoveKeepsPlaces ==
    ASSUME PlacesOK, NEW c \in Caller, NEW where \in Places \ {"dialing"},
           NEW by \in Nat, Goes(c, where, by)
    PROVE  /\ pc' \in [Caller -> Places]
           /\ via' \in [Caller -> Nat]
           /\ \A k \in Caller : pc'[k] = "dialing" => pc[k] = "dialing"
BY SMT DEF PlacesOK, Goes, Places

\* The dialler's end leaves nobody dialling.
LEMMA GateKeepsPlaces ==
    ASSUME PlacesOK, GateInv, NEW c \in Caller, NEW where \in {"idle", "calling"},
           pc[c] = "dialing", OpenGate(c, where)
    PROVE  /\ pc' \in [Caller -> Places]
           /\ \A k \in Caller : pc'[k] # "dialing"
<1>1. pc' = [k \in Caller |-> IF k = c THEN where
                              ELSE IF pc[k] = "waiting" THEN "woken" ELSE pc[k]]
  BY Zenon DEF OpenGate
<1>2. \A k \in Caller : pc[k] = "dialing" => k = c
  BY Zenon DEF GateInv
<1>3. QED
  BY SMT, <1>1, <1>2 DEF PlacesOK, Places

\* Steps of the server and the network leave the pool alone.
LEMMA PoolUntouched ==
    ASSUME PoolInv, UNCHANGED <<pc, via, poolVars>>
    PROVE  PoolInv'
BY Zenon DEF PoolInv, PlacesOK, GateInv, HeldInv, poolVars

\* A caller moves and the pool stays as it is.
LEMMA PoolMove ==
    ASSUME PoolInv, NEW c \in Caller, NEW where \in Places \ {"dialing"},
           NEW by \in Nat, Goes(c, where, by), UNCHANGED poolVars
    PROVE  PoolInv'
<1>1. /\ pc' \in [Caller -> Places]
      /\ via' \in [Caller -> Nat]
      /\ \A k \in Caller : pc'[k] = "dialing" => pc[k] = "dialing"
  BY Zenon, MoveKeepsPlaces DEF PoolInv
<1>2. QED
  BY Zenon, <1>1 DEF PoolInv, PlacesOK, GateInv, HeldInv, poolVars

\* What is cached is dropped, by a call that failed or by Transport.Close.
LEMMA PoolDrop ==
    ASSUME PoolInv, held' = held \ {conn}, conn' = 0, UNCHANGED <<dial, dialled>>,
           pc' \in [Caller -> Places], via' \in [Caller -> Nat],
           \A k \in Caller : pc'[k] = "dialing" => pc[k] = "dialing"
    PROVE  PoolInv'
<1>1. PlacesOK'
  BY SMT DEF PoolInv, PlacesOK
<1>2. GateInv'
  BY Zenon DEF PoolInv, GateInv
<1>3. HeldInv'
  BY Zenon DEF PoolInv, HeldInv
<1>4. QED
  BY Zenon, <1>1, <1>2, <1>3 DEF PoolInv

\* A caller becomes the dialler: the gate was open, so nobody else is.
LEMMA PoolDials ==
    ASSUME PoolInv, NEW c \in Caller, ClientDials(c)
    PROVE  PoolInv'
<1>1. pc' = [pc EXCEPT ![c] = "dialing"] /\ via' = [via EXCEPT ![c] = 0]
  BY Zenon DEF ClientDials, Goes
<1>2. conn = 0 /\ conn' = conn /\ held' = held /\ dialled' = dialled
  BY Zenon DEF ClientDials
<1>3. \A k \in Caller : pc[k] # "dialing"
  BY Zenon DEF PoolInv, GateInv, ClientDials
<1>4. PlacesOK'
  BY SMT, <1>1, <1>2 DEF PoolInv, PlacesOK, Places
<1>5. \A k \in Caller : pc'[k] = "dialing" => k = c
  BY SMT, <1>1, <1>3 DEF PoolInv, PlacesOK
<1>6. GateInv'
  BY Zenon, <1>2, <1>5 DEF ClientDials, GateInv
<1>7. HeldInv'
  BY Zenon, <1>2 DEF PoolInv, HeldInv
<1>8. QED
  BY Zenon, <1>4, <1>6, <1>7 DEF PoolInv

\* The dialler caches its connection, where there was none.
LEMMA PoolDialSucceeds ==
    ASSUME PoolInv, NEW c \in Caller, DialSucceeds(c)
    PROVE  PoolInv'
<1>1. pc[c] = "dialing" /\ OpenGate(c, "calling")
  BY Zenon DEF DialSucceeds
<1>2. /\ pc' \in [Caller -> Places]
      /\ \A k \in Caller : pc'[k] # "dialing"
  BY Zenon, <1>1, GateKeepsPlaces DEF PoolInv
<1>3. conn = 0
  BY Zenon, <1>1 DEF PoolInv, GateInv
<1>4. /\ conn' = dialled + 1 /\ dialled' = dialled + 1
      /\ held' = held \cup {dialled + 1}
      /\ via' = [via EXCEPT ![c] = dialled + 1]
  BY Zenon DEF DialSucceeds
<1>5. PlacesOK'
  BY SMT, <1>2, <1>4 DEF PoolInv, PlacesOK
<1>6. HeldInv'
  BY SMT, <1>3, <1>4 DEF PoolInv, HeldInv, PlacesOK
<1>7. ~ dial'
  BY Zenon, <1>1 DEF OpenGate
<1>8. GateInv'
  BY Zenon, <1>2, <1>7 DEF GateInv
<1>9. QED
  BY Zenon, <1>5, <1>6, <1>8 DEF PoolInv

\* A dial that fails lets the others through.
LEMMA PoolDialFails ==
    ASSUME PoolInv, NEW c \in Caller, DialFails(c)
    PROVE  PoolInv'
<1>1. pc[c] = "dialing" /\ OpenGate(c, "idle")
  BY Zenon DEF DialFails
<1>2. /\ pc' \in [Caller -> Places]
      /\ \A k \in Caller : pc'[k] # "dialing"
  BY Zenon, <1>1, GateKeepsPlaces DEF PoolInv
<1>3. ~ dial'
  BY Zenon, <1>1 DEF OpenGate
<1>4. UNCHANGED <<via, conn, held, dialled>>
  BY Zenon DEF DialFails
<1>5. QED
  BY Zenon, <1>2, <1>3, <1>4 DEF PoolInv, PlacesOK, GateInv, HeldInv

\* Every step keeps the pool's invariant; one case per action.
LEMMA PoolNext == PoolInv /\ [Next]_vars => PoolInv'
<1> SUFFICES ASSUME PoolInv, [Next]_vars PROVE PoolInv'
  OBVIOUS
<1>1. conn \in Nat /\ 0 \in Nat
  BY SMT DEF PoolInv, PlacesOK
<1>2. {"idle", "waiting", "calling"} \subseteq Places \ {"dialing"}
  BY SMT DEF Places
<1>3. ASSUME NEW c \in Caller, ClientCached(c) PROVE PoolInv'
  BY Zenon, <1>1, <1>2, <1>3, PoolMove DEF ClientCached
<1>4. ASSUME NEW c \in Caller, ClientWaits(c) PROVE PoolInv'
  BY Zenon, <1>1, <1>2, <1>4, PoolMove DEF ClientWaits
<1>5. ASSUME NEW c \in Caller, WaiterWakes(c) PROVE PoolInv'
  BY Zenon, <1>1, <1>2, <1>5, PoolMove DEF WaiterWakes
<1>6. ASSUME NEW c \in Caller, CallTimesOut(c) \/ CallReturns(c) PROVE PoolInv'
  BY Zenon, <1>1, <1>2, <1>6, PoolMove DEF CallTimesOut, CallReturns, CallOver
<1>7. ASSUME NEW c \in Caller, CallFails(c) PROVE PoolInv'
  <2>1. Goes(c, "idle", 0)
    BY Zenon, <1>7 DEF CallFails, CallOver
  <2>2. /\ pc' \in [Caller -> Places]
        /\ via' \in [Caller -> Nat]
        /\ \A k \in Caller : pc'[k] = "dialing" => pc[k] = "dialing"
    BY Zenon, <1>1, <1>2, <2>1, MoveKeepsPlaces DEF PoolInv
  <2>3. QED
    BY Zenon, <1>7, <2>2, PoolDrop DEF CallFails
<1>8. ASSUME TransportClose PROVE PoolInv'
  <2>1. pc' \in [Caller -> Places] /\ via' \in [Caller -> Nat]
    BY Zenon, <1>8 DEF TransportClose, PoolInv, PlacesOK
  <2>2. QED
    BY Zenon, <1>8, <2>1, PoolDrop DEF TransportClose
<1>9. ASSUME NEW n \in 1..MaxConns, Accept(n) \/ ServeConnEnds(n) \/ Break(n)
      PROVE  PoolInv'
  BY Zenon, <1>9, PoolUntouched DEF Accept, ServeConnEnds, Break
<1>10. ASSUME NEW r \in requests, HandlerStarts(r) PROVE PoolInv'
  BY Zenon, <1>10, PoolUntouched DEF HandlerStarts
<1>11. ASSUME NEW h \in handlers, HandlerEnds(h) PROVE PoolInv'
  BY Zenon, <1>11, PoolUntouched DEF HandlerEnds
<1>12. ASSUME AcceptEnds \/ CloseBegins \/ CloseConns \/ CloseReturns PROVE PoolInv'
  BY Zenon, <1>12, PoolUntouched DEF AcceptEnds, CloseBegins, CloseConns, CloseReturns
<1>13. ASSUME UNCHANGED vars PROVE PoolInv'
  BY Zenon, <1>13, PoolUntouched DEF vars
<1>14. QED
  BY Zenon, <1>3, <1>4, <1>5, <1>6, <1>7, <1>8, <1>9, <1>10, <1>11, <1>12, <1>13,
     PoolDials, PoolDialSucceeds, PoolDialFails DEF Next, Call

\* Every connection the client holds is the pool's cached one, for any number of
\* callers: pool.client's gate lets one caller dial at a time, and only while
\* nothing is cached.
THEOREM PoolNeverLeaks == FairSpec => []NoConnectionLeaks
<1>1. PoolInv => NoConnectionLeaks
  BY Zenon DEF PoolInv, HeldInv, NoConnectionLeaks
<1>2. QED
  BY PoolInit, PoolNext, <1>1, PTL DEF FairSpec

-----------------------------------------------------------------------------
(* The server *)

\* At first the server has no connections and is not closed.
LEMMA ServerInit == Init => ServerInv
<1> SUFFICES ASSUME Init PROVE ServerInv
  OBVIOUS
<1>1. closing # "returned"
  BY SMT DEF Init
<1>2. handlers = {}
  BY Zenon DEF Init
<1>3. QED
  BY Zenon, <1>1, <1>2 DEF ServerInv

\* Steps of the pool and of the network start no handler.
LEMMA ServerUntouched ==
    ASSUME ServerInv, UNCHANGED <<served, handlers, accepting, closing>>
    PROVE  ServerInv'
BY Zenon DEF ServerInv

\* serve takes a connection only before Close: afterwards it only ends.
LEMMA ServerAccepts ==
    ASSUME ServerInv, NEW n, Accept(n)
    PROVE  ServerInv'
<1>1. accepting /\ closing' = closing /\ handlers' = handlers
  BY Zenon DEF Accept, requestVars
<1>2. closing # "returned"
  BY Zenon, <1>1 DEF ServerInv
<1>3. served \subseteq served'
  BY Zenon DEF Accept
<1>4. QED
  BY Zenon, <1>1, <1>2, <1>3 DEF ServerInv

\* A handler starts on a connection that is served.
LEMMA ServerHandlerStarts ==
    ASSUME ServerInv, NEW r, HandlerStarts(r)
    PROVE  ServerInv'
<1>1. /\ r[2] \in served
      /\ handlers' = handlers \cup {r}
      /\ UNCHANGED <<served, accepting, closing>>
  BY Zenon DEF HandlerStarts, serverVars
<1>2. QED
  BY Zenon, <1>1 DEF ServerInv

\* A call that ends leaves its handler running, on the connection it was on.
LEMMA ServerCallOver ==
    ASSUME ServerInv, NEW c \in Caller, CallOver(c),
           UNCHANGED <<served, accepting, closing>>
    PROVE  ServerInv'
<1>1. handlers' = {IF r = <<c, via[c]>> THEN <<Nobody, r[2]>> ELSE r : r \in handlers}
  BY Zenon DEF CallOver, disown
<1>2. ASSUME NEW h \in handlers' PROVE h[2] \in served
  <2>1. PICK r \in handlers : h = IF r = <<c, via[c]>> THEN <<Nobody, r[2]>> ELSE r
    BY Zenon, <1>1, <1>2
  <2>2. <<Nobody, r[2]>>[2] = r[2]
    BY SMT
  <2>3. h[2] = r[2]
    BY Zenon, <2>1, <2>2
  <2>4. QED
    BY Zenon, <2>3 DEF ServerInv
<1>3. QED
  BY Zenon, <1>2 DEF ServerInv

\* ServeConn returns after the handlers it started.
LEMMA ServerConnEnds ==
    ASSUME ServerInv, NEW n, ServeConnEnds(n)
    PROVE  ServerInv'
BY Zenon DEF ServerInv, ServeConnEnds

\* Close returns after serve and every ServeConn goroutine.
LEMMA ServerCloses ==
    ASSUME ServerInv, CloseBegins \/ CloseConns \/ CloseReturns
    PROVE  ServerInv'
<1>1. CASE CloseBegins \/ CloseConns
  <2>1. closing' # "returned" /\ handlers' = handlers /\ served' = served
    BY SMT, <1>1 DEF CloseBegins, CloseConns, requestVars
  <2>2. QED
    BY Zenon, <2>1 DEF ServerInv
<1>2. CASE CloseReturns
  BY Zenon, <1>2 DEF ServerInv, CloseReturns, requestVars
<1>3. QED
  BY Zenon, <1>1, <1>2

\* Every step keeps the server's invariant; one case per action.
LEMMA ServerNext == ServerInv /\ [Next]_vars => ServerInv'
<1> SUFFICES ASSUME ServerInv, [Next]_vars PROVE ServerInv'
  OBVIOUS
<1>1. ASSUME NEW c \in Caller, ClientCached(c) \/ ClientDials(c) \/ ClientWaits(c)
      PROVE  ServerInv'
  BY Zenon, <1>1, ServerUntouched
     DEF ClientCached, ClientDials, ClientWaits, Sends, serverVars, requestVars
<1>2. ASSUME NEW c \in Caller, DialSucceeds(c) \/ DialFails(c) \/ WaiterWakes(c)
      PROVE  ServerInv'
  BY Zenon, <1>2, ServerUntouched
     DEF DialSucceeds, DialFails, WaiterWakes, Sends, serverVars, requestVars
<1>3. ASSUME NEW c \in Caller, CallReturns(c) \/ CallFails(c) \/ CallTimesOut(c)
      PROVE  ServerInv'
  BY Zenon, <1>3, ServerCallOver
     DEF CallReturns, CallFails, CallTimesOut, serverVars
<1>4. ASSUME TransportClose PROVE ServerInv'
  BY Zenon, <1>4, ServerUntouched DEF TransportClose, requestVars
<1>5. ASSUME NEW n \in 1..MaxConns, Break(n) PROVE ServerInv'
  BY Zenon, <1>5, ServerUntouched DEF Break, requestVars
<1>6. ASSUME AcceptEnds PROVE ServerInv'
  BY Zenon, <1>6 DEF ServerInv, AcceptEnds, requestVars
<1>7. ASSUME NEW h \in handlers, HandlerEnds(h) PROVE ServerInv'
  BY Zenon, <1>7 DEF ServerInv, HandlerEnds, serverVars
<1>8. ASSUME UNCHANGED vars PROVE ServerInv'
  BY Zenon, <1>8, ServerUntouched DEF vars, serverVars, requestVars
<1>9. QED
  BY Zenon, <1>1, <1>2, <1>3, <1>4, <1>5, <1>6, <1>7, <1>8, ServerAccepts,
     ServerHandlerStarts, ServerConnEnds, ServerCloses DEF Next, Call

\* Once Server.Close has returned no handler runs and no connection is served,
\* for any number of callers and connections: wg.Wait covers serve as well as
\* the ServeConn goroutines, and each of those outlives its handlers.
THEOREM CloseIsQuiet == FairSpec => []ClosedMeansQuiet
<1>1. ServerInv => ClosedMeansQuiet
  BY Zenon DEF ServerInv, ClosedMeansQuiet
<1>2. QED
  BY ServerInit, ServerNext, <1>1, PTL DEF FairSpec
=============================================================================
