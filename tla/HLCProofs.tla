----------------------------- MODULE HLCProofs -----------------------------
(***************************************************************************)
(* Proofs about the hybrid logical clocks, for any number of nodes, any    *)
(* bounds and any counter width.                                           *)
(***************************************************************************)
EXTENDS HLC, TLAPS

\* A reading is not before another.
AtMost(t, u) == t = u \/ Less(t, u)

\* The strengthening of Causality that is inductive: as long as no counter has
\* wrapped, a node's last reading, and the stamp a message carries, are at or
\* after everything in the causal past they stand for.
Ordered ==
    /\ \A e \in events : \A s \in e.past : Less(s, e.stamp)
    /\ \A n \in Node : \A s \in past[n] : AtMost(s, last[n])
    /\ \A m \in msgs : \A s \in m.past : AtMost(s, m.stamp)

IInv == HLCConstants /\ TypeOK /\ (wrapped \/ Ordered)

\* Order facts about Less, which the clock's Less method decides.
LEMMA LessAfterAtMost ==
    ASSUME NEW t \in Timestamp, NEW u \in Timestamp, NEW v \in Timestamp,
           AtMost(t, u), Less(u, v)
    PROVE  Less(t, v)
BY SMT DEF AtMost, Less, Timestamp

\* A bumped counter is one more, or has wrapped to zero.
LEMMA BumpedCounter ==
    ASSUME HLCConstants, NEW x \in 0..MaxLogical
    PROVE  /\ Bump(x) \in 0..MaxLogical
           /\ Bump(x) # 0 => Bump(x) = x + 1
<1>1. CASE x < MaxLogical
  BY <1>1, SMT DEF HLCConstants, Bump
<1>2. CASE x = MaxLogical
  <2>1. Bump(x) = 0
    BY <1>2, SMT DEF HLCConstants, Bump
  <2>2. QED
    BY <2>1, SMT DEF HLCConstants
<1>3. QED
  BY <1>1, <1>2, SMT DEF HLCConstants

\* Now returns a later reading, unless it bumps the counter to zero.
LEMMA NowAdvances ==
    ASSUME NEW c \in Timestamp, NEW physical \in Nat, HLCConstants
    PROVE  LET t == nowReading(c, physical)
           IN  /\ t \in Timestamp
               /\ ~ (t.Logical = 0 /\ t.Wall \in {c.Wall}) => Less(c, t)
<1>1. c.Wall \in Nat /\ c.Logical \in 0..MaxLogical /\ 0 \in 0..MaxLogical
  BY SMT DEF HLCConstants, Timestamp
<1>2. /\ Bump(c.Logical) \in 0..MaxLogical
      /\ Bump(c.Logical) # 0 => Bump(c.Logical) = c.Logical + 1
  BY <1>1, BumpedCounter
<1>3. nowReading(c, physical) =
        IF physical > c.Wall THEN [Wall |-> physical, Logical |-> 0]
        ELSE [Wall |-> c.Wall, Logical |-> Bump(c.Logical)]
  BY SMT DEF nowReading, Timestamp
<1>4. QED
  BY <1>1, <1>2, <1>3, SMT DEF Less, Timestamp

\* Update returns a reading later than the clock's own and than the one
\* received, unless it bumps a counter to zero.
LEMMA UpdateAdvances ==
    ASSUME NEW c \in Timestamp, NEW r \in Timestamp, NEW physical \in Nat,
           HLCConstants
    PROVE  LET t == updateReading(c, r, physical)
           IN  /\ t \in Timestamp
               /\ ~ (t.Logical = 0 /\ t.Wall \in {c.Wall, r.Wall})
                     => Less(c, t) /\ Less(r, t)
<1> DEFINE top == Greatest(c.Logical, r.Logical)
<1> DEFINE wall == Greatest(Greatest(physical, c.Wall), r.Wall)
<1>1. /\ c.Wall \in Nat /\ r.Wall \in Nat /\ 0 \in 0..MaxLogical
      /\ c.Logical \in 0..MaxLogical /\ r.Logical \in 0..MaxLogical
  BY SMT DEF HLCConstants, Timestamp
<1>2. top \in 0..MaxLogical /\ top >= c.Logical /\ top >= r.Logical
  BY <1>1, SMT DEF HLCConstants, Greatest
<1>3. wall \in Nat /\ wall >= c.Wall /\ wall >= r.Wall
  BY <1>1, SMT DEF Greatest
<1>4. updateReading(c, r, physical) =
        [Wall |-> wall,
         Logical |-> IF wall = c.Wall /\ wall = r.Wall THEN Bump(top)
                     ELSE IF wall = c.Wall THEN Bump(c.Logical)
                     ELSE IF wall = r.Wall THEN Bump(r.Logical) ELSE 0]
  BY DEF updateReading
<1> HIDE DEF wall, top
<1>5. /\ Bump(top) \in 0..MaxLogical /\ (Bump(top) # 0 => Bump(top) = top + 1)
      /\ Bump(c.Logical) \in 0..MaxLogical
      /\ Bump(c.Logical) # 0 => Bump(c.Logical) = c.Logical + 1
      /\ Bump(r.Logical) \in 0..MaxLogical
      /\ Bump(r.Logical) # 0 => Bump(r.Logical) = r.Logical + 1
  BY <1>1, <1>2, BumpedCounter
<1>6. QED
  BY <1>1, <1>2, <1>3, <1>4, <1>5, SMT DEF Less, Timestamp

\* An event whose reading t is after every stamp that precedes it, unless a
\* counter wraps, keeps the invariant.
LEMMA StampKeepsIInv ==
    ASSUME IInv, NEW n \in Node, NEW t \in Timestamp, NEW physical \in Nat,
           NEW before \in SUBSET Timestamp, NEW walls,
           wrapped' \/ \A s \in before : Less(s, t),
           Stamp(n, t, before, physical, walls), UNCHANGED msgs
    PROVE  IInv'
<1> USE DEF IInv, Stamp
<1>1. TypeOK'
  <2>1. last' \in [Node -> Timestamp] /\ past' \in [Node -> SUBSET Timestamp]
    BY DEF TypeOK
  <2>2. [node |-> n, stamp |-> t, past |-> before]
          \in [node : Node, stamp : Timestamp, past : SUBSET Timestamp]
    OBVIOUS
  <2>3. wrapped' \in BOOLEAN
    BY Zenon DEF TypeOK
  <2>4. QED
    BY <2>1, <2>2, <2>3 DEF TypeOK
<1>2. ASSUME ~ wrapped' PROVE Ordered'
  <2>1. Ordered /\ \A s \in before : Less(s, t)
    BY Zenon, <1>2
  <2>2. \A e \in events' : \A s \in e.past : Less(s, e.stamp)
    BY <2>1 DEF Ordered
  <2>3. \A k \in Node : \A s \in past'[k] : AtMost(s, last'[k])
    BY <2>1 DEF Ordered, AtMost, TypeOK
  <2>4. \A m \in msgs' : \A s \in m.past : AtMost(s, m.stamp)
    BY <2>1 DEF Ordered
  <2>5. QED
    BY <2>2, <2>3, <2>4 DEF Ordered, AtMost, Less
<1>3. QED
  BY <1>1, <1>2

\* What the step that takes reading t says of the counters.
LEMMA WrapRecorded ==
    ASSUME NEW n, NEW t, NEW before, NEW physical, NEW walls,
           Stamp(n, t, before, physical, walls), ~ wrapped'
    PROVE  ~ wrapped /\ ~ (t.Logical = 0 /\ t.Wall \in walls)
BY Zenon DEF Stamp

\* A local event's reading is later than the node's last, unless a counter
\* wraps.
LEMMA NowStep ==
    ASSUME IInv, NEW n \in Node, NEW physical \in 1..MaxWall, Now(n, physical)
    PROVE  /\ nowReading(last[n], physical) \in Timestamp
           /\ wrapped' \/ Less(last[n], nowReading(last[n], physical))
<1> DEFINE t == nowReading(last[n], physical)
<1>1. last[n] \in Timestamp /\ physical \in Nat /\ HLCConstants
  BY DEF HLCConstants, IInv, TypeOK
<1>2. t \in Timestamp /\ (~ (t.Logical = 0 /\ t.Wall \in {last[n].Wall})
                             => Less(last[n], t))
  BY <1>1, NowAdvances
<1>3. Stamp(n, t, past[n], physical, {last[n].Wall})
  BY Zenon DEF Now
<1> HIDE DEF t
<1>4. wrapped' \/ ~ (t.Logical = 0 /\ t.Wall \in {last[n].Wall})
  BY Zenon, <1>3, WrapRecorded
<1>5. QED
  BY Zenon, <1>2, <1>4 DEF t

\* A receipt's reading is later than the node's last and than the message's,
\* unless a counter wraps.
LEMMA UpdateStep ==
    ASSUME IInv, NEW n \in Node, NEW physical \in 1..MaxWall, NEW m \in msgs,
           Update(n, m, physical)
    PROVE  /\ updateReading(last[n], m.stamp, physical) \in Timestamp
           /\ \/ wrapped'
              \/ /\ Less(last[n], updateReading(last[n], m.stamp, physical))
                 /\ Less(m.stamp, updateReading(last[n], m.stamp, physical))
<1> DEFINE t == updateReading(last[n], m.stamp, physical)
<1>1. /\ last[n] \in Timestamp /\ m.stamp \in Timestamp
      /\ physical \in Nat /\ HLCConstants
  BY DEF HLCConstants, IInv, TypeOK
<1>2. /\ t \in Timestamp
      /\ ~ (t.Logical = 0 /\ t.Wall \in {last[n].Wall, m.stamp.Wall})
            => Less(last[n], t) /\ Less(m.stamp, t)
  BY <1>1, UpdateAdvances
<1>3. Stamp(n, t, past[n] \cup m.past, physical, {last[n].Wall, m.stamp.Wall})
  BY Zenon DEF Update
<1> HIDE DEF t
<1>4. wrapped' \/ ~ (t.Logical = 0 /\ t.Wall \in {last[n].Wall, m.stamp.Wall})
  BY Zenon, <1>3, WrapRecorded
<1>5. QED
  BY Zenon, <1>2, <1>4 DEF t

\* A step of any node preserves the invariant.
LEMMA StepKeepsIInv == IInv /\ [Next]_vars => IInv'
<1> SUFFICES ASSUME IInv, [Next]_vars PROVE IInv'
  OBVIOUS
<1>1. ASSUME NEW n \in Node, Send(n) PROVE IInv'
  <2>1. last[n] \in Timestamp /\ past[n] \in SUBSET Timestamp
    BY DEF IInv, TypeOK
  <2>2. TypeOK'
    BY <1>1, <2>1 DEF IInv, TypeOK, Send
  <2>3. Ordered => \A m \in msgs' : \A s \in m.past : AtMost(s, m.stamp)
    BY <1>1 DEF Ordered, Send
  <2>4. Ordered => Ordered'
    BY <1>1, <2>3 DEF Send, Ordered, AtMost, Less
  <2>5. wrapped' = wrapped
    BY Zenon, <1>1 DEF Send
  <2>6. QED
    BY Zenon, <2>2, <2>4, <2>5 DEF IInv, HLCConstants
<1>2. ASSUME NEW n \in Node, NEW physical \in 1..MaxWall, Now(n, physical)
      PROVE  IInv'
  <2> DEFINE t == nowReading(last[n], physical)
  <2>1. last[n] \in Timestamp /\ past[n] \in SUBSET Timestamp /\ physical \in Nat
    BY DEF HLCConstants, IInv, TypeOK
  <2>2. t \in Timestamp /\ (wrapped' \/ Less(last[n], t))
    BY <1>2, NowStep
  <2>3. Stamp(n, t, past[n], physical, {last[n].Wall}) /\ UNCHANGED msgs
    BY Zenon, <1>2 DEF Now
  <2> HIDE DEF t
  <2>4. wrapped' \/ \A s \in past[n] : Less(s, t)
    <3>1. CASE wrapped'
      BY Zenon, <3>1
    <3>2. CASE ~ wrapped'
      <4>1. Ordered
        BY Zenon, <2>3, <3>2, WrapRecorded DEF IInv
      <4>2. QED
        BY <2>1, <2>2, <3>2, <4>1, LessAfterAtMost DEF Ordered
    <3>3. QED
      BY Zenon, <3>1, <3>2
  <2>5. QED
    BY <2>1, <2>2, <2>3, <2>4, StampKeepsIInv
<1>3. ASSUME NEW n \in Node, NEW physical \in 1..MaxWall, NEW m \in msgs,
             Update(n, m, physical)
      PROVE  IInv'
  <2> DEFINE t == updateReading(last[n], m.stamp, physical)
  <2> DEFINE before == past[n] \cup m.past
  <2>1. /\ last[n] \in Timestamp /\ past[n] \in SUBSET Timestamp
        /\ m.stamp \in Timestamp /\ m.past \in SUBSET Timestamp
        /\ physical \in Nat
    BY DEF HLCConstants, IInv, TypeOK
  <2>2. t \in Timestamp /\ (wrapped' \/ (Less(last[n], t) /\ Less(m.stamp, t)))
    BY <1>3, UpdateStep
  <2>3. /\ Stamp(n, t, before, physical, {last[n].Wall, m.stamp.Wall})
        /\ UNCHANGED msgs
    BY Zenon, <1>3 DEF Update
  <2> HIDE DEF t
  <2>4. wrapped' \/ \A s \in before : Less(s, t)
    <3>1. CASE wrapped'
      BY Zenon, <3>1
    <3>2. CASE ~ wrapped'
      <4>1. Ordered
        BY Zenon, <2>3, <3>2, WrapRecorded DEF IInv
      <4>2. QED
        BY <2>1, <2>2, <3>2, <4>1, LessAfterAtMost DEF Ordered
    <3>3. QED
      BY Zenon, <3>1, <3>2
  <2>5. before \in SUBSET Timestamp
    BY <2>1
  <2>6. QED
    BY <2>1, <2>2, <2>3, <2>4, <2>5, StampKeepsIInv
<1>4. CASE UNCHANGED vars
  BY <1>4 DEF IInv, TypeOK, Ordered, AtMost, Less, vars
<1>5. QED
  BY <1>1, <1>2, <1>3, <1>4 DEF Next

\* Nothing has happened yet.
LEMMA InitIInv == HLCConstants /\ Init => IInv
<1> SUFFICES ASSUME HLCConstants, Init PROVE IInv
  OBVIOUS
<1>1. wrapped \in BOOLEAN
  BY Zenon DEF Init
<1>2. Zero \in Timestamp
  BY SMT DEF HLCConstants, Timestamp, Zero
<1>3. TypeOK
  BY <1>1, <1>2, SMT DEF Init, TypeOK
<1>4. Ordered
  BY SMT DEF Init, Ordered
<1>5. QED
  BY Zenon, <1>3, <1>4 DEF IInv

\* Whatever the physical clocks do, and whatever messages are lost, delayed or
\* repeated, a stamp is later than those of all events that causally precede it
\* (Now and Update), until some counter wraps.
THEOREM StampsRespectCausality == HLCConstants /\ Spec => []Causality
<1>1. IInv => Causality
  BY Zenon DEF IInv, Ordered, Causality
<1>2. QED
  BY InitIInv, StepKeepsIInv, <1>1, PTL DEF Spec

\* Every reading a clock gives out, by Now or by Update, is strictly later than
\* the one before, whatever its physical clock does, until some counter wraps:
\* no reading is repeated and none goes back.
THEOREM ReadingsNeverRepeat == HLCConstants /\ Spec => ReadingsAdvance
<1>1. IInv /\ [Next]_vars =>
        [\A n \in Node : reads(n) => wrapped' \/ Less(last[n], last'[n])]_vars
  <2> SUFFICES ASSUME IInv, NEW n \in Node, reads(n)
               PROVE  wrapped' \/ Less(last[n], last'[n])
    OBVIOUS
  <2>1. ASSUME NEW t, NEW before, NEW physical, NEW walls,
               Stamp(n, t, before, physical, walls)
        PROVE  last'[n] = t
    BY <2>1 DEF Stamp, IInv, TypeOK
  <2>2. ASSUME NEW physical \in 1..MaxWall, Now(n, physical)
        PROVE  wrapped' \/ Less(last[n], last'[n])
    <3>1. last'[n] = nowReading(last[n], physical)
      BY Zenon, <2>1, <2>2 DEF Now
    <3>2. QED
      BY Zenon, <2>2, <3>1, NowStep
  <2>3. ASSUME NEW physical \in 1..MaxWall, NEW m \in msgs, Update(n, m, physical)
        PROVE  wrapped' \/ Less(last[n], last'[n])
    <3>1. last'[n] = updateReading(last[n], m.stamp, physical)
      BY Zenon, <2>1, <2>3 DEF Update
    <3>2. QED
      BY Zenon, <2>3, <3>1, UpdateStep
  <2>4. QED
    BY Zenon, <2>2, <2>3 DEF reads
<1>2. QED
  BY InitIInv, StepKeepsIInv, <1>1, PTL DEF Spec, ReadingsAdvance
=============================================================================
