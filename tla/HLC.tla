-------------------------------- MODULE HLC --------------------------------
(***************************************************************************)
(* Hybrid logical clocks (package hlc).  Every node has a Clock.  A local  *)
(* event takes its stamp from Now; a message carries a stamp, and the      *)
(* receiver merges it with Update.  Both read a physical clock that may    *)
(* jump in either direction between two readings.  A message may arrive    *)
(* late, repeatedly or never.                                              *)
(*                                                                         *)
(* The histories past and events record which stamps causally precede      *)
(* which events, so that the clock condition can be stated; wrapped        *)
(* records that a counter of 32 bits went round, after which nothing is    *)
(* promised of the order of stamps.                                        *)
(***************************************************************************)
EXTENDS Integers, FiniteSets

CONSTANTS
    Node,
    MaxWall,     \* bound: physical readings are in 1..MaxWall
    MaxLogical,  \* the largest value of the counter (2^32 - 1 in the code)
    MaxEvents    \* bound: number of stamps taken

\* What the proofs ask of the constants.
HLCConstants ==
    /\ MaxWall \in Nat
    /\ MaxLogical \in Nat
    /\ MaxEvents \in Nat

VARIABLES
    last,     \* each clock's last reading
    msgs,     \* messages ever sent: a stamp, and the sender's causal past
    past,     \* history: the stamps of the events that precede a node's next
    events,   \* history: every event, with the stamps that precede it
    read,     \* history: the physical readings any clock took
    wrapped   \* history: has a counter gone back to zero by being bumped?

vars == <<last, msgs, past, events, read, wrapped>>

Timestamp == [Wall : Nat, Logical : 0..MaxLogical]

Less(t, u) ==
    \/ t.Wall < u.Wall
    \/ t.Wall = u.Wall /\ t.Logical < u.Logical

Zero == [Wall |-> 0, Logical |-> 0]

Greatest(x, y) == IF x < y THEN y ELSE x

-----------------------------------------------------------------------------

\* The counter after counter c.
Bump(c) == (c + 1) % (MaxLogical + 1)

\* Clock.Now: clock c's next reading.
nowReading(c, physical) ==
    IF physical > c.Wall
    THEN [Wall |-> physical, Logical |-> 0]
    ELSE [c EXCEPT !.Logical = Bump(@)]

\* Clock.Update: clock c's reading once remote is merged.
updateReading(c, remote, physical) ==
    LET wall == Greatest(Greatest(physical, c.Wall), remote.Wall)
    IN  [Wall |-> wall,
         Logical |->
            IF wall = c.Wall /\ wall = remote.Wall
            THEN Bump(Greatest(c.Logical, remote.Logical))
            ELSE IF wall = c.Wall THEN Bump(c.Logical)
            ELSE IF wall = remote.Wall THEN Bump(remote.Logical)
            ELSE 0]

-----------------------------------------------------------------------------

Init ==
    /\ last = [n \in Node |-> Zero]
    /\ msgs = {}
    /\ past = [n \in Node |-> {}]
    /\ events = {}
    /\ read = {0}
    /\ wrapped = FALSE

\* An event at n, preceded by the stamps in before, takes reading t.  The
\* reading bumps a counter when its wall time is one of walls.
Stamp(n, t, before, physical, walls) ==
    /\ Cardinality(events) < MaxEvents
    /\ last' = [last EXCEPT ![n] = t]
    /\ past' = [past EXCEPT ![n] = before \cup {t}]
    /\ events' = events \cup {[node |-> n, stamp |-> t, past |-> before]}
    /\ read' = read \cup {physical}
    /\ wrapped' = (wrapped \/ (t.Logical = 0 /\ t.Wall \in walls))

Now(n, physical) ==
    /\ Stamp(n, nowReading(last[n], physical), past[n], physical,
             {last[n].Wall})
    /\ UNCHANGED msgs

Send(n) ==
    /\ last[n] # Zero
    /\ msgs' = msgs \cup {[stamp |-> last[n], past |-> past[n]]}
    /\ UNCHANGED <<last, past, events, read, wrapped>>

Update(n, m, physical) ==
    /\ Stamp(n, updateReading(last[n], m.stamp, physical),
             past[n] \cup m.past, physical, {last[n].Wall, m.stamp.Wall})
    /\ UNCHANGED msgs

Next ==
    \E n \in Node :
        \/ Send(n)
        \/ \E physical \in 1..MaxWall :
              \/ Now(n, physical)
              \/ \E m \in msgs : Update(n, m, physical)

Spec == Init /\ [][Next]_vars

-----------------------------------------------------------------------------
(* Properties *)

TypeOK ==
    /\ last \in [Node -> Timestamp]
    /\ msgs \subseteq [stamp : Timestamp, past : SUBSET Timestamp]
    /\ past \in [Node -> SUBSET Timestamp]
    /\ events \subseteq
         [node : Node, stamp : Timestamp, past : SUBSET Timestamp]
    /\ read \subseteq Nat
    /\ wrapped \in BOOLEAN

\* Until a counter wraps, every event's stamp is later than the stamps of all
\* events that causally precede it, on its own node (Now) and across messages
\* (Update), whatever the physical clocks did.
Causality ==
    wrapped \/ \A e \in events : \A s \in e.past : Less(s, e.stamp)

reads(n) ==
    \E physical \in 1..MaxWall :
        Now(n, physical) \/ \E m \in msgs : Update(n, m, physical)

\* Until a counter wraps, each call of Now and of Update returns a reading
\* strictly later than the clock's last one.
ReadingsAdvance ==
    [][\A n \in Node : reads(n) => wrapped' \/ Less(last[n], last'[n])]_vars

\* Now "never returns the same timestamp twice, and never goes backwards".
NeverGoesBack ==
    [][\A n \in Node : reads(n) => Less(last[n], last'[n])]_vars

\* A stamp's wall time is never ahead of every physical clock reading so far:
\* causality does not make the clocks drift away from real time.
NoDrift ==
    \A n \in Node : \E r \in read : last[n].Wall <= r
=============================================================================
