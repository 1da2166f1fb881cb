----------------------------- MODULE RaftProofs -----------------------------
(***************************************************************************)
(* Machine-checked proofs about module Raft, for any set of servers, any   *)
(* commands and any value of the bounds: type correctness and Election     *)
(* Safety.                                                                 *)
(***************************************************************************)
EXTENDS Raft, FiniteSetTheorems, SequenceTheorems, WellFoundedInduction, TLAPS

-----------------------------------------------------------------------------
(* Facts about the helpers of the model *)

\* Min of two naturals is one of them and exceeds neither.
LEMMA MinOfTwo ==
    ASSUME NEW a \in Nat, NEW b \in Nat
    PROVE  /\ Min({a, b}) \in {a, b}
           /\ Min({a, b}) <= a
           /\ Min({a, b}) <= b
<1>1. \E x \in {a, b} : \A y \in {a, b} : x =< y
    <2>1. CASE a <= b
        BY <2>1
    <2>2. CASE b <= a
        BY <2>2
    <2> QED BY <2>1, <2>2
<1> QED BY <1>1 DEF Min

\* The order of the naturals as a relation.
LessThan == {p \in Nat \X Nat : p[1] < p[2]}

\* The order of the naturals is well-founded.
LEMMA LessThanWellFounded == IsWellFoundedOn(LessThan, Nat)
<1>1. OpToRel(<, Nat) = LessThan
    BY Zenon DEF OpToRel, LessThan
<1> QED BY <1>1, NatLessThanWellFounded, Zenon

\* A non-empty set of naturals has a least element, which is its Min.
LEMMA MinOfNats ==
    ASSUME NEW S, S \subseteq Nat, S # {}
    PROVE  Min(S) \in S /\ \A y \in S : Min(S) <= y
<1>1. PICK x \in S : \A y \in S : ~ (<<y, x>> \in LessThan)
    BY LessThanWellFounded, WFMin, Zenon
<1>2. ASSUME NEW y \in S PROVE x =< y
    <2>1. x \in Nat /\ y \in Nat
        OBVIOUS
    <2>2. y < x => <<y, x>> \in LessThan
        BY <2>1 DEF LessThan
    <2> QED BY <1>1, <2>1, <2>2
<1>3. \E z \in S : \A y \in S : z =< y
    BY <1>2
<1> QED BY Zenon, <1>3 DEF Min

\* A non-empty set of naturals with an upper bound has a greatest element,
\* which is its Max.
LEMMA MaxOfBounded ==
    ASSUME NEW S, NEW n \in Nat, S \subseteq 0..n, S # {}
    PROVE  Max(S) \in S /\ \A y \in S : Max(S) >= y
<1> DEFINE T == {n - x : x \in S}
<1>1. \A x \in S : x \in 0..n /\ n - x \in Nat
    OBVIOUS
<1>2. T \subseteq Nat /\ T # {}
    BY Zenon, <1>1
<1>3. Min(T) \in T /\ \A u \in T : Min(T) <= u
    BY Zenon, <1>2, MinOfNats
<1>4. PICK x \in S : Min(T) = n - x
    BY Zenon, <1>3
<1>5. ASSUME NEW y \in S PROVE x >= y
    <2>1. n - y \in T
        OBVIOUS
    <2>2. n - x <= n - y
        BY <1>3, <1>4, <2>1
    <2> QED BY <2>2, <1>1
<1>6. \E z \in S : \A y \in S : z >= y
    BY <1>5
<1> QED BY Zenon, <1>6 DEF Max

\* A segment of a log is a log.
LEMMA SegmentType ==
    ASSUME NEW S, NEW lg \in Seq(S), NEW m \in Nat \ {0}, NEW n \in Int,
           n <= Len(lg)
    PROVE  SubSeq(lg, m, n) \in Seq(S)
<1>1. \A k \in m..n : lg[k] \in S
    <2>1. \A k \in m..n : k \in 1..Len(lg)
        BY LenProperties
    <2> QED BY <2>1, ElementOfSeq
<1> QED BY <1>1, SubSeqProperties

\* termAt is a term, for any index: 0 where there is no entry.
LEMMA TermAtType ==
    ASSUME NEW lg \in Seq(Entry), NEW k \in Int
    PROVE  termAt(lg, k) \in Term
<1>1. CASE k \in 1..Len(lg)
    <2>1. lg[k] \in Entry
        BY <1>1, ElementOfSeq
    <2> QED BY <1>1, <2>1 DEF termAt, Entry
<1>2. CASE k \notin 1..Len(lg)
    BY <1>2, BoundAssumption DEF termAt, Term
<1> QED BY <1>1, <1>2

\* appendFrom turns a log into a log.
LEMMA AppendFromType ==
    ASSUME NEW lg \in Seq(Entry), NEW es \in Seq(Entry), NEW prev \in Nat,
           prev <= Len(lg)
    PROVE  appendFrom(lg, prev, es) \in Seq(Entry)
<1> DEFINE fresh == {k \in 1..Len(es) : \/ prev + k > Len(lg)
                                        \/ lg[prev + k].term # es[k].term}
           first == Min(fresh)
<1>1. Len(lg) \in Nat /\ Len(es) \in Nat
    BY LenProperties
<1>2. fresh = {} => appendFrom(lg, prev, es) = lg
    BY DEF appendFrom
<1>3. fresh # {} => appendFrom(lg, prev, es) =
                      SubSeq(lg, 1, prev + first - 1)
                        \o SubSeq(es, first, Len(es))
    BY Zenon DEF appendFrom
<1>4. CASE fresh # {}
    <2>1. fresh \subseteq Nat
        BY <1>1
    <2>2. first \in fresh /\ \A y \in fresh : first <= y
        <3> HIDE DEF fresh
        <3> QED BY Zenon, <1>4, <2>1, MinOfNats
    <2>3. first \in 1..Len(es)
        BY <2>2
    <2>4. prev + first - 1 <= Len(lg)
        <3>1. first = 1 => prev + first - 1 <= Len(lg)
            BY <1>1, <2>3
        <3>2. ASSUME first # 1, prev + first - 1 > Len(lg) PROVE FALSE
            <4> HIDE DEF first
            <4>1. first - 1 \in fresh
                BY <3>2, <2>3, <1>1
            <4> HIDE DEF fresh
            <4>2. first <= first - 1
                BY <2>2, <4>1
            <4> QED BY <4>2, <2>3, <1>1
        <3> HIDE DEF first
        <3> QED BY <3>1, <3>2, <1>1, <2>3
    <2> HIDE DEF first
    <2>5. SubSeq(lg, 1, prev + first - 1) \in Seq(Entry)
        BY <2>3, <2>4, <1>1, SegmentType
    <2>6. SubSeq(es, first, Len(es)) \in Seq(Entry)
        BY <2>3, <1>1, SegmentType
    <2> QED BY Zenon, <1>3, <1>4, <2>5, <2>6, ConcatProperties
<1> QED BY <1>2, <1>4

-----------------------------------------------------------------------------
(* Type correctness *)

\* The initial state is well typed.
LEMMA TypeInit == Init => TypeOK
<1> SUFFICES ASSUME Init PROVE TypeOK
    OBVIOUS
<1>1. 0 \in Term /\ 0 \in 0..MaxStops
    BY BoundAssumption DEF Term
<1>2. <<>> \in Seq(Entry)
    BY EmptySeq
<1> QED BY <1>1, <1>2 DEF Init, TypeOK, Follower, Candidate, Leader

\* A persist saves what is well typed.
LEMMA PersistType ==
    ASSUME TypeOK, NEW i \in Server, mustPersist(i),
           currentTerm' \in [Server -> Term],
           votedFor' \in [Server -> Server \cup {Nil}],
           log' \in [Server -> Seq(Entry)]
    PROVE  disk' \in [Server -> [term : Term, vote : Server \cup {Nil},
                                 log : Seq(Entry)]]
BY Zenon DEF TypeOK, mustPersist

\* Sending a message keeps the network well typed.
LEMMA SendType ==
    ASSUME TypeOK, NEW m \in Message, Send(m)
    PROVE  msgs' \subseteq Message
BY DEF TypeOK, Send

\* Applying committed entries keeps the indices and the state machine typed.
LEMMA ApplyType ==
    ASSUME TypeOK, NEW i \in Server, NEW n \in Nat, NEW lg \in Seq(Entry),
           applyCommitted(i, n, lg)
    PROVE  /\ commitIndex' \in [Server -> Nat]
           /\ lastApplied' \in [Server -> Nat]
           /\ sm' \in [Server -> Seq(Entry)]
           /\ appliedMark' \in [Server -> Nat]
<1> DEFINE upTo == appliedUpTo(i, n, lg)
<1>1. Len(lg) \in Nat
    BY LenProperties
<1>2. lastApplied[i] \in Nat /\ appliedMark[i] \in Nat
    BY DEF TypeOK
<1>3. /\ upTo \in Nat
      /\ upTo = lastApplied[i] \/ upTo <= Len(lg)
    BY <1>1, <1>2, MinOfTwo DEF appliedUpTo, lastIndex
<1>4. consumed(lg, lastApplied[i], upTo) \in Seq(Entry)
    <2> HIDE DEF upTo
    <2>1. CASE upTo = lastApplied[i]
        BY <2>1, <1>2, SubSeqEmpty, EmptySeq DEF consumed
    <2>2. CASE upTo <= Len(lg)
        BY <2>2, <1>2, <1>3, SegmentType DEF consumed
    <2> QED BY <2>1, <2>2, <1>3
<1>5. sm[i] \o consumed(lg, lastApplied[i], upTo) \in Seq(Entry)
    <2>1. sm[i] \in Seq(Entry)
        BY DEF TypeOK
    <2> QED BY <2>1, <1>4, ConcatProperties
<1>6. /\ commitIndex' = [commitIndex EXCEPT ![i] = n]
      /\ lastApplied' = [lastApplied EXCEPT ![i] = upTo]
      /\ sm' = [sm EXCEPT ![i] = @ \o consumed(lg, lastApplied[i], upTo)]
      /\ \E mark \in {upTo, appliedMark[i]} :
           appliedMark' = [appliedMark EXCEPT ![i] = mark]
    BY Zenon DEF applyCommitted
<1> HIDE DEF upTo
<1> QED BY <1>2, <1>3, <1>5, <1>6 DEF TypeOK

\* So does a leader's advanceCommitIndex, whose log is lg.
LEMMA AdvanceType ==
    ASSUME TypeOK, NEW i \in Server, NEW lg \in Seq(Entry), NEW mi,
           advanceCommitIndex(i, lg, mi)
    PROVE  /\ commitIndex' \in [Server -> Nat]
           /\ lastApplied' \in [Server -> Nat]
           /\ sm' \in [Server -> Seq(Entry)]
           /\ appliedMark' \in [Server -> Nat]
           /\ committed' \subseteq [term : Term, index : Nat \ {0},
                                    entry : Entry]
<1> DEFINE ready == {n \in (commitIndex[i] + 1)..lastIndex(lg) :
                       /\ lg[n].term = currentTerm[i]
                       /\ Cardinality({p \in Server : mi[p] >= n})
                            >= majority}
           new == {[term |-> currentTerm[i], index |-> k, entry |-> lg[k]] :
                      k \in (commitIndex[i] + 1)..Max(ready)}
<1>1. Len(lg) \in Nat /\ commitIndex[i] \in Nat /\ currentTerm[i] \in Term
    BY LenProperties DEF TypeOK
<1>2. CASE ready = {}
    <2>1. UNCHANGED applyVars
        BY <1>2 DEF advanceCommitIndex
    <2> QED BY <2>1 DEF TypeOK, applyVars
<1>3. CASE ready # {}
    <2>1. applyCommitted(i, Max(ready), lg) /\ committed' = committed \cup new
        BY Zenon, <1>3 DEF advanceCommitIndex
    <2>2. ready \subseteq 0..Len(lg)
        BY <1>1 DEF lastIndex
    <2>3. Max(ready) \in ready
        <3> HIDE DEF ready
        <3> QED BY Zenon, <1>1, <1>3, <2>2, MaxOfBounded
    <2> HIDE DEF ready
    <2>4. Max(ready) \in Nat /\ Max(ready) <= Len(lg)
        <3>1. \A x \in ready : x \in Nat /\ x <= Len(lg)
            BY <1>1, <2>2
        <3> QED BY <2>3, <3>1
    <2>5. \A k \in (commitIndex[i] + 1)..Max(ready) :
             k \in 1..Len(lg) /\ k \in Nat \ {0} /\ lg[k] \in Entry
        BY <2>4, <1>1, ElementOfSeq
    <2>6. new \subseteq [term : Term, index : Nat \ {0}, entry : Entry]
        BY <2>5, <1>1
    <2>7. /\ commitIndex' \in [Server -> Nat]
          /\ lastApplied' \in [Server -> Nat]
          /\ sm' \in [Server -> Seq(Entry)]
          /\ appliedMark' \in [Server -> Nat]
        BY <2>1, <2>4, ApplyType
    <2> HIDE DEF new
    <2> QED BY <2>1, <2>6, <2>7 DEF TypeOK
<1> QED BY Zenon, <1>2, <1>3

\* A leader's new entry is an entry.
LEMMA NewEntryType ==
    ASSUME TypeOK, NEW i \in Server, NEW cmd \in Command \cup {NoOp}
    PROVE  /\ Append(log[i], [term |-> currentTerm[i], cmd |-> cmd])
                \in Seq(Entry)
           /\ Len(Append(log[i], [term |-> currentTerm[i], cmd |-> cmd]))
                = Len(log[i]) + 1
           /\ Len(log[i]) \in Nat
<1>1. log[i] \in Seq(Entry) /\ [term |-> currentTerm[i], cmd |-> cmd] \in Entry
    BY Zenon DEF TypeOK, Entry
<1> QED BY <1>1, AppendProperties, LenProperties

\* Every step keeps the state well typed; one case per action.
LEMMA TypeNext == TypeOK /\ [Next]_vars => TypeOK'
<1> SUFFICES ASSUME TypeOK, [Next]_vars PROVE TypeOK'
    OBVIOUS
<1>1. ASSUME NEW i \in Server, startElection(i) PROVE TypeOK'
    <2>1. currentTerm[i] + 1 \in Term /\ currentTerm[i] \in Nat
        BY <1>1, BoundAssumption DEF startElection, TypeOK, Term
    <2>2. /\ currentTerm' \in [Server -> Term]
          /\ votedFor' \in [Server -> Server \cup {Nil}]
          /\ log' \in [Server -> Seq(Entry)]
          /\ role' \in [Server -> {Follower, Candidate, Leader}]
          /\ votes' \in [Server -> SUBSET Server]
        BY <1>1, <2>1 DEF startElection, TypeOK
    <2>3. disk' \in [Server -> [term : Term, vote : Server \cup {Nil},
                                log : Seq(Entry)]]
        BY Zenon, <1>1, <2>2, PersistType DEF startElection
    <2>4. msgs' \subseteq Message
        <3>1. log[i] \in Seq(Entry) /\ Len(log[i]) \in Nat
            BY LenProperties DEF TypeOK
        <3>2. lastTerm(log[i]) \in Term /\ lastIndex(log[i]) \in Nat
            BY <3>1, TermAtType DEF lastTerm, lastIndex
        <3> QED BY <1>1, <2>1, <3>2 DEF startElection, Send, TypeOK, Message,
                                        RequestVoteArgs
    <2>5. ballots' \subseteq [term : Term, voter : Server, cand : Server]
        BY <1>1, <2>1 DEF startElection, TypeOK
    <2> QED BY Zenon, <1>1, <2>2, <2>3, <2>4, <2>5
            DEF startElection, TypeOK, applyVars, leaderVars
<1>2. ASSUME NEW i \in Server, NEW m \in msgs, RequestVote(i, m)
      PROVE  TypeOK'
    <2>1. m \in RequestVoteArgs
        BY <1>2 DEF TypeOK, Message, RequestVote, RequestVoteArgs, VoteGranted,
                    AppendEntriesArgs, AppendReply, TermReply
    <2>2. m.term \in Term /\ m.from \in Server
        BY <2>1 DEF RequestVoteArgs
    <2>3. CASE RequestVoteRefused(i, m)
        <3>1. msgs' \subseteq Message
            <4>1. [type |-> "TermReply", term |-> currentTerm[i],
                   to |-> m.from] \in Message
                BY <2>2 DEF TypeOK, Message, TermReply
            <4> QED BY <2>3, <4>1, SendType DEF RequestVoteRefused
        <3> QED BY Zenon, <2>3, <3>1 DEF RequestVoteRefused, TypeOK, serverVars,
                                  applyVars, leaderVars
    <2>4. CASE RequestVoteHandled(i, m)
        <3>1. voteIn(i, m.term) \in Server \cup {Nil}
            BY DEF voteIn, TypeOK
        <3>2. /\ currentTerm' \in [Server -> Term]
              /\ votedFor' \in [Server -> Server \cup {Nil}]
              /\ log' \in [Server -> Seq(Entry)]
              /\ role' \in [Server -> {Follower, Candidate, Leader}]
            BY Zenon, <2>2, <2>4, <3>1 DEF RequestVoteHandled, TypeOK
        <3>3. disk' \in [Server -> [term : Term, vote : Server \cup {Nil},
                                    log : Seq(Entry)]]
            BY <2>4, <3>2, PersistType DEF RequestVoteHandled
        <3>4. /\ msgs' \subseteq Message
              /\ ballots' \subseteq [term : Term, voter : Server,
                                     cand : Server]
            <4>1. [type |-> "VoteGranted", term |-> m.term, from |-> i,
                   to |-> m.from] \in Message
                BY <2>2 DEF Message, VoteGranted
            <4>2. [term |-> m.term, voter |-> i, cand |-> m.from]
                     \in [term : Term, voter : Server, cand : Server]
                BY <2>2
            <4>3. \/ /\ Send([type |-> "VoteGranted", term |-> m.term,
                              from |-> i, to |-> m.from])
                     /\ ballots' = ballots \cup
                          {[term |-> m.term, voter |-> i, cand |-> m.from]}
                  \/ UNCHANGED <<msgs, ballots>>
                BY <2>4, Zenon DEF RequestVoteHandled
            <4>4. CASE UNCHANGED <<msgs, ballots>>
                BY <4>4 DEF TypeOK
            <4>5. CASE /\ Send([type |-> "VoteGranted", term |-> m.term,
                                from |-> i, to |-> m.from])
                       /\ ballots' = ballots \cup
                            {[term |-> m.term, voter |-> i, cand |-> m.from]}
                <5>1. msgs' \subseteq Message
                    BY <4>1, <4>5, SendType
                <5>2. ballots' \subseteq [term : Term, voter : Server,
                                          cand : Server]
                    BY Zenon, <4>2, <4>5 DEF TypeOK
                <5> QED BY <5>1, <5>2
            <4> QED BY <4>3, <4>4, <4>5
        <3> QED BY Zenon, <2>4, <3>2, <3>3, <3>4 DEF RequestVoteHandled, TypeOK,
                                              applyVars, leaderVars
    <2> QED BY <1>2, <2>3, <2>4 DEF RequestVote
<1>3. ASSUME NEW i \in Server, NEW m \in msgs, countVote(i, m) PROVE TypeOK'
    <2>1. m \in VoteGranted
        BY Zenon, <1>3 DEF TypeOK, Message, countVote, RequestVoteArgs, VoteGranted,
                    AppendEntriesArgs, AppendReply, TermReply
    <2>2. m.from \in Server
        BY <2>1 DEF VoteGranted
    <2> QED BY Zenon, <1>3, <2>2 DEF countVote, TypeOK, serverVars, applyVars,
                              leaderVars
<1>4. ASSUME NEW i \in Server, becomeLeader(i) PROVE TypeOK'
    <2> DEFINE lg == Append(log[i], [term |-> currentTerm[i], cmd |-> NoOp])
               mi == [j \in Server |-> IF j = i THEN Len(lg) ELSE 0]
    <2>1. lg \in Seq(Entry) /\ Len(lg) \in Nat \ {0}
        BY NewEntryType
    <2>2. /\ log' = [log EXCEPT ![i] = lg]
          /\ matchIndex' = [matchIndex EXCEPT ![i] = mi]
          /\ nextIndex' = [nextIndex EXCEPT ![i] =
                             [j \in Server |-> IF j = i THEN Len(lg) + 1
                                                        ELSE Len(lg)]]
          /\ advanceCommitIndex(i, lg, mi)
        BY <1>4 DEF becomeLeader
    <2> HIDE DEF lg
    <2>3. /\ log' \in [Server -> Seq(Entry)]
          /\ matchIndex' \in [Server -> [Server -> Nat]]
          /\ nextIndex' \in [Server -> [Server -> Nat \ {0}]]
        BY <2>1, <2>2 DEF TypeOK
    <2>4. /\ commitIndex' \in [Server -> Nat]
          /\ lastApplied' \in [Server -> Nat]
          /\ sm' \in [Server -> Seq(Entry)]
          /\ appliedMark' \in [Server -> Nat]
          /\ committed' \subseteq [term : Term, index : Nat \ {0},
                                   entry : Entry]
        <3> HIDE DEF mi
        <3> QED BY <2>1, <2>2, AdvanceType
    <2>5. /\ currentTerm' \in [Server -> Term]
          /\ votedFor' \in [Server -> Server \cup {Nil}]
          /\ role' \in [Server -> {Follower, Candidate, Leader}]
          /\ elected' \subseteq Term \X Server
        <3>1. <<currentTerm[i], i>> \in Term \X Server
            BY DEF TypeOK
        <3> QED BY Zenon, <1>4, <3>1 DEF becomeLeader, TypeOK
    <2>6. disk' \in [Server -> [term : Term, vote : Server \cup {Nil},
                                log : Seq(Entry)]]
        BY Zenon, <1>4, <2>3, <2>5, PersistType DEF becomeLeader
    <2> QED BY Zenon, <1>4, <2>3, <2>4, <2>5, <2>6 DEF becomeLeader, TypeOK
<1>5. ASSUME NEW i \in Server, NEW j \in Server, replicateTo(i, j)
      PROVE  TypeOK'
    <2> DEFINE prevIdx == nextIndex[i][j] - 1
               es == SubSeq(log[i], prevIdx + 1, lastIndex(log[i]))
               req == [type |-> "AppendEntries", term |-> currentTerm[i],
                       from |-> i, to |-> j, prevLogIndex |-> prevIdx,
                       prevLogTerm |-> termAt(log[i], prevIdx),
                       entries |-> es, leaderCommit |-> commitIndex[i]]
    <2>1. /\ log[i] \in Seq(Entry) /\ Len(log[i]) \in Nat
          /\ nextIndex[i][j] \in Nat \ {0}
          /\ prevIdx \in Nat /\ prevIdx + 1 \in Nat \ {0}
          /\ currentTerm[i] \in Term /\ commitIndex[i] \in Nat
        <3>1. /\ log[i] \in Seq(Entry) /\ nextIndex[i] \in [Server -> Nat \ {0}]
              /\ currentTerm[i] \in Term /\ commitIndex[i] \in Nat
            BY DEF TypeOK
        <3>2. nextIndex[i][j] \in Nat \ {0}
            BY <3>1
        <3> QED BY <3>1, <3>2, LenProperties
    <2>2. es \in Seq(Entry)
        BY <2>1, SegmentType DEF lastIndex
    <2>3. termAt(log[i], prevIdx) \in Term
        BY <2>1, TermAtType
    <2> HIDE DEF prevIdx, es
    <2>4. req \in Message
        BY <2>1, <2>2, <2>3 DEF Message, AppendEntriesArgs
    <2>5. Send(req)
        BY <1>5 DEF replicateTo, prevIdx, es
    <2>6. msgs' \subseteq Message
        BY <2>4, <2>5, SendType
    <2> QED BY Zenon, <1>5, <2>6 DEF replicateTo, TypeOK, serverVars, applyVars,
                              leaderVars
<1>6. ASSUME NEW i \in Server, NEW m \in msgs, AppendEntries(i, m)
      PROVE  TypeOK'
    <2>1. m \in AppendEntriesArgs
        BY <1>6 DEF TypeOK, Message, AppendEntries, RequestVoteArgs,
                    VoteGranted, AppendEntriesArgs, AppendReply, TermReply
    <2>2. /\ m.term \in Term /\ m.from \in Server /\ m.to \in Server
          /\ m.prevLogIndex \in Nat /\ m.prevLogTerm \in Term
          /\ m.entries \in Seq(Entry) /\ m.leaderCommit \in Nat
        BY <2>1 DEF AppendEntriesArgs
    <2>3. Len(m.entries) \in Nat
        BY <2>2, LenProperties
    <2>4. \A ok \in BOOLEAN : AppendReplyTo(m, ok) \in Message
        BY <2>2, <2>3 DEF AppendReplyTo, Message, AppendReply
    <2>5. CASE AppendEntriesRefused(i, m)
        <3>1. [type |-> "TermReply", term |-> currentTerm[i], to |-> m.from]
                 \in Message
            BY <2>2 DEF TypeOK, Message, TermReply
        <3>2. msgs' \subseteq Message
            BY Zenon, <2>4, <2>5, <3>1, SendType DEF AppendEntriesRefused
        <3> QED BY Zenon, <2>5, <3>2 DEF AppendEntriesRefused, TypeOK, serverVars,
                                  applyVars, leaderVars
    <2>6. CASE AppendEntriesHandled(i, m)
        <3> DEFINE ok == matchesPrevLog(log[i], m.prevLogIndex, m.prevLogTerm)
                   lg == IF ok
                         THEN appendFrom(log[i], m.prevLogIndex, m.entries)
                         ELSE log[i]
                   lastNew == m.prevLogIndex + Len(m.entries)
        <3>1. log[i] \in Seq(Entry) /\ Len(log[i]) \in Nat
            BY LenProperties DEF TypeOK
        <3>2. lg \in Seq(Entry)
            BY Zenon, <2>2, <3>1, AppendFromType DEF matchesPrevLog, lastIndex
        <3>3. Min({m.leaderCommit, lastNew}) \in Nat
            BY <2>2, <2>3, MinOfTwo
        <3>4. /\ log' = [log EXCEPT ![i] = lg]
              /\ mustPersist(i) \/ UNCHANGED disk
              /\ \/ /\ applyCommitted(i, Min({m.leaderCommit, lastNew}), lg)
                    /\ UNCHANGED committed
                 \/ UNCHANGED applyVars
              /\ Send(AppendReplyTo(m, ok))
            BY <2>6 DEF AppendEntriesHandled
        <3>5. voteIn(i, m.term) \in Server \cup {Nil}
            BY DEF voteIn, TypeOK
        <3>6. /\ currentTerm' \in [Server -> Term]
              /\ votedFor' \in [Server -> Server \cup {Nil}]
              /\ role' \in [Server -> {Follower, Candidate, Leader}]
            BY Zenon, <2>2, <2>6, <3>5 DEF AppendEntriesHandled, TypeOK
        <3>7. msgs' \subseteq Message
            <4>1. ok \in BOOLEAN
                BY DEF matchesPrevLog
            <4> HIDE DEF ok
            <4> QED BY <2>4, <3>4, <4>1, SendType
        <3> HIDE DEF lg, lastNew
        <3>8. log' \in [Server -> Seq(Entry)]
            BY <3>2, <3>4 DEF TypeOK
        <3>9. disk' \in [Server -> [term : Term, vote : Server \cup {Nil},
                                    log : Seq(Entry)]]
            BY Zenon, <3>4, <3>6, <3>8, PersistType DEF TypeOK
        <3>10. /\ commitIndex' \in [Server -> Nat]
               /\ lastApplied' \in [Server -> Nat]
               /\ sm' \in [Server -> Seq(Entry)]
               /\ appliedMark' \in [Server -> Nat]
               /\ committed' = committed
            <4>1. CASE UNCHANGED applyVars
                BY <4>1 DEF TypeOK, applyVars
            <4>2. CASE /\ applyCommitted(i, Min({m.leaderCommit, lastNew}), lg)
                       /\ UNCHANGED committed
                BY <4>2, <3>2, <3>3, ApplyType
            <4> QED BY <3>4, <4>1, <4>2
        <3> QED BY Zenon, <2>6, <3>6, <3>7, <3>8, <3>9, <3>10
                DEF AppendEntriesHandled, TypeOK, leaderVars
    <2> QED BY <1>6, <2>5, <2>6 DEF AppendEntries
<1>7. ASSUME NEW i \in Server, NEW m \in msgs, handleAppendReply(i, m)
      PROVE  TypeOK'
    <2>1. m \in AppendReply
        BY <1>7 DEF TypeOK, Message, handleAppendReply, RequestVoteArgs,
                    VoteGranted, AppendEntriesArgs, AppendReply, TermReply
    <2>2. m.from \in Server /\ m.match \in Nat
        BY <2>1 DEF AppendReply
    <2>3. /\ log[i] \in Seq(Entry)
          /\ matchIndex[i] \in [Server -> Nat]
          /\ nextIndex[i] \in [Server -> Nat \ {0}]
        BY DEF TypeOK
    <2>4. /\ commitIndex' \in [Server -> Nat]
          /\ lastApplied' \in [Server -> Nat]
          /\ sm' \in [Server -> Seq(Entry)]
          /\ appliedMark' \in [Server -> Nat]
          /\ committed' \subseteq [term : Term, index : Nat \ {0},
                                   entry : Entry]
        <3>1. (\E mi : advanceCommitIndex(i, log[i], mi))
                 \/ UNCHANGED applyVars
            BY <1>7 DEF handleAppendReply
        <3>2. CASE UNCHANGED applyVars
            BY <3>2 DEF TypeOK, applyVars
        <3>3. CASE \E mi : advanceCommitIndex(i, log[i], mi)
            BY <2>3, <3>3, AdvanceType
        <3> QED BY <3>1, <3>2, <3>3
    <2>5. /\ matchIndex' \in [Server -> [Server -> Nat]]
          /\ nextIndex' \in [Server -> [Server -> Nat \ {0}]]
        <3> DEFINE j == m.from
                   higher == m.match > matchIndex[i][j]
                   mi == [matchIndex[i] EXCEPT ![j] =
                            IF higher THEN m.match ELSE @]
        <3>1. \/ /\ matchIndex' = [matchIndex EXCEPT ![i] = mi]
                 /\ nextIndex' = [nextIndex EXCEPT ![i][j] =
                                    IF higher THEN m.match + 1 ELSE @]
              \/ /\ nextIndex[i][j] > 1
                 /\ nextIndex' = [nextIndex EXCEPT ![i][j] = @ - 1]
                 /\ matchIndex' = matchIndex
            BY <1>7 DEF handleAppendReply, ackedUpTo, canBackOff
        <3>2. /\ mi \in [Server -> Nat]
              /\ nextIndex[i][j] \in Nat \ {0}
              /\ m.match + 1 \in Nat \ {0}
            BY <2>2, <2>3
        <3> HIDE DEF mi, higher, j
        <3>3. matchIndex' \in [Server -> [Server -> Nat]]
            BY Zenon, <3>1, <3>2 DEF TypeOK
        <3>4. \E k \in Nat \ {0} :
                 nextIndex' = [nextIndex EXCEPT ![i] =
                                 [nextIndex[i] EXCEPT ![j] = k]]
            <4>1. nextIndex[i][j] > 1 => nextIndex[i][j] - 1 \in Nat \ {0}
                BY <3>2
            <4> QED BY <3>1, <3>2, <4>1
        <3>5. nextIndex' \in [Server -> [Server -> Nat \ {0}]]
            <4>1. PICK k \in Nat \ {0} :
                     nextIndex' = [nextIndex EXCEPT ![i] =
                                     [nextIndex[i] EXCEPT ![j] = k]]
                BY Zenon, <3>4
            <4> DEFINE ni == [nextIndex[i] EXCEPT ![j] = k]
            <4>2. ni \in [Server -> Nat \ {0}]
                BY Zenon, <2>3
            <4> HIDE DEF ni
            <4>3. nextIndex' = [nextIndex EXCEPT ![i] = ni]
                BY <4>1 DEF ni
            <4>4. nextIndex \in [Server -> [Server -> Nat \ {0}]]
                BY DEF TypeOK
            <4> QED BY <4>2, <4>3, <4>4
        <3> QED BY <3>3, <3>5
    <2> QED BY Zenon, <1>7, <2>4, <2>5 DEF handleAppendReply, TypeOK, serverVars
<1>8. ASSUME NEW i \in Server, NEW m \in msgs, handleTermReply(i, m)
      PROVE  TypeOK'
    <2>1. m \in TermReply
        BY Zenon, <1>8 DEF TypeOK, Message, handleTermReply, RequestVoteArgs,
                    VoteGranted, AppendEntriesArgs, AppendReply, TermReply
    <2>2. m.term \in Term /\ voteIn(i, m.term) \in Server \cup {Nil}
        BY <2>1 DEF TermReply, voteIn, TypeOK
    <2>3. /\ currentTerm' \in [Server -> Term]
          /\ votedFor' \in [Server -> Server \cup {Nil}]
          /\ role' \in [Server -> {Follower, Candidate, Leader}]
          /\ log' \in [Server -> Seq(Entry)]
        BY Zenon, <1>8, <2>2 DEF handleTermReply, stepDown, TypeOK
    <2>4. disk' \in [Server -> [term : Term, vote : Server \cup {Nil},
                                log : Seq(Entry)]]
        BY <1>8, <2>3, PersistType DEF handleTermReply
    <2> QED BY Zenon, <1>8, <2>3, <2>4 DEF handleTermReply, TypeOK, applyVars,
                                    leaderVars
<1>9. ASSUME NEW i \in Server, NEW cmd \in Command, Submit(i, cmd)
      PROVE  TypeOK'
    <2> DEFINE lg == Append(log[i], [term |-> currentTerm[i], cmd |-> cmd])
               mi == [matchIndex[i] EXCEPT ![i] = Len(lg)]
    <2>1. lg \in Seq(Entry) /\ Len(lg) \in Nat
        BY NewEntryType, LenProperties
    <2>2. mi \in [Server -> Nat]
        <3>1. matchIndex[i] \in [Server -> Nat]
            BY DEF TypeOK
        <3> QED BY <2>1, <3>1
    <2>3. /\ log' = [log EXCEPT ![i] = lg]
          /\ matchIndex' = [matchIndex EXCEPT ![i] = mi]
          /\ UNCHANGED serverVars
          /\ mustPersist(i)
          /\ advanceCommitIndex(i, lg, mi)
        BY <1>9 DEF Submit
    <2> HIDE DEF lg, mi
    <2>4. /\ log' \in [Server -> Seq(Entry)]
          /\ matchIndex' \in [Server -> [Server -> Nat]]
          /\ currentTerm' \in [Server -> Term]
          /\ votedFor' \in [Server -> Server \cup {Nil}]
          /\ role' \in [Server -> {Follower, Candidate, Leader}]
        BY <2>1, <2>2, <2>3 DEF TypeOK, serverVars
    <2>5. disk' \in [Server -> [term : Term, vote : Server \cup {Nil},
                                log : Seq(Entry)]]
        BY Zenon, <2>3, <2>4, PersistType
    <2>6. /\ commitIndex' \in [Server -> Nat]
          /\ lastApplied' \in [Server -> Nat]
          /\ sm' \in [Server -> Seq(Entry)]
          /\ appliedMark' \in [Server -> Nat]
          /\ committed' \subseteq [term : Term, index : Nat \ {0},
                                   entry : Entry]
        BY <2>1, <2>3, AdvanceType
    <2> QED BY Zenon, <1>9, <2>4, <2>5, <2>6 DEF Submit, TypeOK
<1>10. ASSUME NEW i \in Server, Stop(i)
       PROVE  TypeOK'
    <2>1. stops' \in 0..MaxStops /\ stopped' \in [Server -> BOOLEAN]
        BY <1>10, BoundAssumption DEF Stop, TypeOK
    <2> QED BY Zenon, <1>10, <2>1 DEF Stop, TypeOK, serverVars, applyVars, leaderVars
<1>11. ASSUME NEW i \in Server, Restore(i)
       PROVE  TypeOK'
    <2> DEFINE d == disk[i]
               n == Min({appliedMark[i], lastIndex(d.log)})
    <2>1. /\ d.term \in Term /\ d.vote \in Server \cup {Nil}
          /\ d.log \in Seq(Entry) /\ appliedMark[i] \in Nat
        BY DEF TypeOK
    <2>2. Len(d.log) \in Nat
        BY <2>1, LenProperties
    <2>3. n \in Nat /\ n <= Len(d.log)
        BY <2>1, <2>2, MinOfTwo DEF lastIndex
    <2>4. replayed(d.log, n) \in Seq(Entry)
        <3> HIDE DEF n, d
        <3> QED BY <2>1, <2>3, SegmentType DEF replayed, consumed
    <2>5. /\ currentTerm' = [currentTerm EXCEPT ![i] = d.term]
          /\ votedFor' = [votedFor EXCEPT ![i] = d.vote]
          /\ log' = [log EXCEPT ![i] = d.log]
          /\ commitIndex' = [commitIndex EXCEPT ![i] = n]
          /\ lastApplied' = [lastApplied EXCEPT ![i] = n]
          /\ sm' = [sm EXCEPT ![i] = replayed(d.log, n)]
        BY <1>11 DEF Restore, votedForRestored
    <2> HIDE DEF n, d
    <2>6. /\ currentTerm' \in [Server -> Term]
          /\ votedFor' \in [Server -> Server \cup {Nil}]
          /\ log' \in [Server -> Seq(Entry)]
          /\ commitIndex' \in [Server -> Nat]
          /\ lastApplied' \in [Server -> Nat]
          /\ sm' \in [Server -> Seq(Entry)]
        BY Zenon, <2>1, <2>3, <2>4, <2>5 DEF TypeOK
    <2>7. /\ nextIndex' \in [Server -> [Server -> Nat \ {0}]]
          /\ matchIndex' \in [Server -> [Server -> Nat]]
          /\ votes' \in [Server -> SUBSET Server]
          /\ stopped' \in [Server -> BOOLEAN]
          /\ role' \in [Server -> {Follower, Candidate, Leader}]
        BY <1>11 DEF Restore, TypeOK
    <2> QED BY Zenon, <1>11, <2>6, <2>7 DEF Restore, TypeOK, durableVars
<1>12. ASSUME NEW m \in msgs, Lose(m)
       PROVE  TypeOK'
    BY Zenon, <1>12 DEF Lose, TypeOK, serverVars, applyVars, leaderVars
<1>13. CASE UNCHANGED vars
    BY Zenon, <1>13 DEF vars, TypeOK
<1> QED BY <1>1, <1>2, <1>3, <1>4, <1>5, <1>6, <1>7, <1>8, <1>9, <1>10, <1>11,
           <1>12, <1>13 DEF Next

\* Every reachable state is well typed, for all servers, commands and bounds:
\* no handler stores an index below its range, an entry without a term or an
\* ill-formed message.
THEOREM TypeCorrect == Spec => []TypeOK
BY TypeInit, TypeNext, PTL DEF Spec

-----------------------------------------------------------------------------
(* Election Safety *)

\* What a server holds in memory of its term and vote is what a restart will
\* read back.
VotesDurable ==
    \A i \in Server : disk[i].term = currentTerm[i]
                      /\ disk[i].vote = votedFor[i]

\* The ballots a server cast are of its own past: in earlier terms, or for the
\* candidate it still has down as votedFor.
BallotsRemembered ==
    \A b \in ballots :
        /\ b.term <= currentTerm[b.voter]
        /\ b.term = currentTerm[b.voter] => votedFor[b.voter] = b.cand

\* One server, one term, one vote.
OneVotePerTerm ==
    \A b, c \in ballots :
        b.term = c.term /\ b.voter = c.voter => b.cand = c.cand

ballot(t, v, c) == [term |-> t, voter |-> v, cand |-> c]

\* Every vote in the network, every vote counted and every vote behind an
\* election was cast.
VotesCast ==
    /\ \A m \in msgs : m.type = "VoteGranted"
                         => ballot(m.term, m.from, m.to) \in ballots
    /\ \A i \in Server : role[i] = Candidate =>
         \A v \in votes[i] : ballot(currentTerm[i], v, i) \in ballots
    /\ \A e \in elected : \E Q \in SUBSET Server :
         /\ Cardinality(Q) >= majority
         /\ \A v \in Q : ballot(e[1], v, e[2]) \in ballots

\* The inductive invariant behind Election Safety.
ElectionInv == /\ VotesDurable
               /\ BallotsRemembered
               /\ OneVotePerTerm
               /\ VotesCast

\* No vote has been cast initially.
LEMMA ElectionInit == Init => ElectionInv
BY DEF Init, ElectionInv, VotesDurable, BallotsRemembered, OneVotePerTerm,
       VotesCast, Follower, Candidate

\* After a persist, memory and disk agree.
LEMMA PersistAgrees ==
    ASSUME TypeOK, VotesDurable, NEW i \in Server, mustPersist(i),
           \A j \in Server \ {i} : /\ currentTerm'[j] = currentTerm[j]
                                   /\ votedFor'[j] = votedFor[j]
    PROVE  VotesDurable'
BY Zenon DEF TypeOK, VotesDurable, mustPersist

\* The parts of the type invariant that elections are about.
LEMMA ElectionTypes ==
    ASSUME TypeOK
    PROVE  /\ \A b \in ballots : /\ b.term \in Nat
                                 /\ b.voter \in Server /\ b.cand \in Server
           /\ \A i \in Server : currentTerm[i] \in Nat
           /\ currentTerm \in [Server -> Term]
           /\ votedFor \in [Server -> Server \cup {Nil}]
           /\ votes \in [Server -> SUBSET Server]
<1>1. /\ ballots \subseteq [term : Term, voter : Server, cand : Server]
      /\ currentTerm \in [Server -> Term]
      /\ votedFor \in [Server -> Server \cup {Nil}]
      /\ votes \in [Server -> SUBSET Server]
    BY DEF TypeOK
<1>2. Term \subseteq Nat
    BY BoundAssumption DEF Term
<1> QED BY Zenon, <1>1, <1>2

\* A step in which nobody votes, campaigns or is elected keeps the invariant,
\* even if servers move on to newer terms.
LEMMA NoVoteStep ==
    ASSUME TypeOK, TypeOK', ElectionInv, VotesDurable',
           \A i \in Server :
              \/ currentTerm'[i] > currentTerm[i]
              \/ currentTerm'[i] = currentTerm[i] /\ votedFor'[i] = votedFor[i],
           \A i \in Server : role'[i] = Candidate =>
              /\ role[i] = Candidate
              /\ currentTerm'[i] = currentTerm[i]
              /\ votes'[i] = votes[i],
           \A m \in msgs' \ msgs : m.type # "VoteGranted",
           ballots' = ballots, elected' = elected
    PROVE  ElectionInv'
<1>1. BallotsRemembered'
    <2> SUFFICES ASSUME NEW b \in ballots
                 PROVE  /\ b.term <= currentTerm'[b.voter]
                        /\ b.term = currentTerm'[b.voter]
                             => votedFor'[b.voter] = b.cand
        BY DEF BallotsRemembered
    <2>1. b.term \in Nat /\ b.voter \in Server
        BY ElectionTypes
    <2>2. currentTerm[b.voter] \in Nat /\ currentTerm'[b.voter] \in Nat
        <3>1. currentTerm' \in [Server -> Term] /\ Term \subseteq Nat
            BY BoundAssumption DEF TypeOK, Term
        <3> QED BY Zenon, <2>1, <3>1, ElectionTypes
    <2> QED BY <2>1, <2>2 DEF ElectionInv, BallotsRemembered
<1>2. OneVotePerTerm'
    BY DEF ElectionInv, OneVotePerTerm
<1>3. VotesCast'
    BY DEF ElectionInv, VotesCast, ballot
<1> QED BY Zenon, <1>1, <1>2, <1>3 DEF ElectionInv

\* A server that casts a vote it may cast, now or in a newer term, keeps the
\* ballots consistent.
LEMMA CastStep ==
    ASSUME TypeOK, TypeOK', ElectionInv,
           NEW i \in Server, NEW t \in Term, NEW c \in Server,
           t >= currentTerm[i],
           t = currentTerm[i] => votedFor[i] \in {Nil, c},
           currentTerm' = [currentTerm EXCEPT ![i] = t],
           votedFor' = [votedFor EXCEPT ![i] = c],
           ballots' = ballots \cup {ballot(t, i, c)}
    PROVE  BallotsRemembered' /\ OneVotePerTerm'
<1>1. /\ currentTerm[i] \in Nat /\ t \in Nat
      /\ \A b \in ballots : b.term \in Nat /\ b.voter \in Server
                            /\ b.cand \in Server
    <2>1. t \in Nat
        BY BoundAssumption DEF Term
    <2> QED BY <2>1, ElectionTypes
<1>2. ballot(t, i, c).term = t /\ ballot(t, i, c).voter = i
      /\ ballot(t, i, c).cand = c
    BY DEF ballot
<1>3. ASSUME NEW b \in ballots, b.voter = i
      PROVE  b.term <= t /\ (b.term = t => b.cand = c)
    <2>1. b.term <= currentTerm[i]
          /\ (b.term = currentTerm[i] => votedFor[i] = b.cand)
        BY <1>3 DEF ElectionInv, BallotsRemembered
    <2> QED BY <1>1, <2>1, NilAssumption
<1>4. /\ currentTerm'[i] = t /\ votedFor'[i] = c
      /\ \A j \in Server \ {i} : /\ currentTerm'[j] = currentTerm[j]
                                 /\ votedFor'[j] = votedFor[j]
    BY Zenon DEF TypeOK
<1>5. BallotsRemembered'
    <2> SUFFICES ASSUME NEW b \in ballots'
                 PROVE  /\ b.term <= currentTerm'[b.voter]
                        /\ b.term = currentTerm'[b.voter]
                             => votedFor'[b.voter] = b.cand
        BY DEF BallotsRemembered
    <2>1. CASE b = ballot(t, i, c)
        BY <2>1, <1>1, <1>2, <1>4
    <2>2. CASE b \in ballots /\ b.voter = i
        BY <2>2, <1>3, <1>4
    <2>3. CASE b \in ballots /\ b.voter # i
        BY <2>3, <1>1, <1>4 DEF ElectionInv, BallotsRemembered
    <2> QED BY <2>1, <2>2, <2>3
<1>6. OneVotePerTerm'
    <2> SUFFICES ASSUME NEW b \in ballots', NEW d \in ballots',
                        b.term = d.term, b.voter = d.voter
                 PROVE  b.cand = d.cand
        BY DEF OneVotePerTerm
    <2>1. CASE b \in ballots /\ d \in ballots
        BY <2>1 DEF ElectionInv, OneVotePerTerm
    <2>2. CASE b = ballot(t, i, c) \/ d = ballot(t, i, c)
        BY <2>2, <1>2, <1>3
    <2> QED BY <2>1, <2>2
<1> QED BY <1>5, <1>6

\* startElection sends requests only, no votes.
LEMMA CampaignSendsNoVotes ==
    ASSUME NEW i \in Server, startElection(i)
    PROVE  \A m \in msgs' \ msgs : m.type # "VoteGranted"
BY SMTT(30) DEF startElection, Send

\* So does replicateTo.
LEMMA LeaderSendsEntries ==
    ASSUME NEW i \in Server, NEW j \in Server, replicateTo(i, j)
    PROVE  \A m \in msgs' \ msgs : m.type = "AppendEntries"
BY DEF replicateTo, Send

\* Every step keeps the invariant.
LEMMA ElectionNext ==
    ASSUME TypeOK, TypeOK', ElectionInv, [Next]_vars
    PROVE  ElectionInv'
<1> USE ElectionTypes
<1>1. ASSUME NEW i \in Server, startElection(i)
      PROVE  ElectionInv'
    <2>1. /\ currentTerm' = [currentTerm EXCEPT ![i] = currentTerm[i] + 1]
          /\ votedFor' = [votedFor EXCEPT ![i] = i]
          /\ role' = [role EXCEPT ![i] = Candidate]
          /\ votes' = [votes EXCEPT ![i] = {i}]
          /\ ballots' = ballots \cup {ballot(currentTerm[i] + 1, i, i)}
          /\ elected' = elected
          /\ mustPersist(i)
          /\ currentTerm[i] + 1 \in Term
          /\ \A m \in msgs' \ msgs : m.type # "VoteGranted"
        <3>1. currentTerm[i] + 1 \in Term
            BY <1>1, BoundAssumption DEF startElection, Term
        <3>2. \A m \in msgs' \ msgs : m.type # "VoteGranted"
            BY Zenon, <1>1, CampaignSendsNoVotes
        <3> QED BY <1>1, <3>1, <3>2 DEF startElection, ballot
    <2>2. VotesDurable'
        BY <2>1, PersistAgrees DEF ElectionInv
    <2>3. BallotsRemembered' /\ OneVotePerTerm'
        <3>1. currentTerm[i] \in Nat
            OBVIOUS
        <3>2. /\ currentTerm[i] + 1 >= currentTerm[i]
              /\ currentTerm[i] + 1 # currentTerm[i]
            BY <3>1
        <3> QED BY Zenon, <2>1, <3>2, CastStep
    <2>4. VotesCast'
        <3>1. \A j \in Server : role'[j] = Candidate =>
                 \A v \in votes'[j] : ballot(currentTerm'[j], v, j) \in ballots'
            <4> SUFFICES ASSUME NEW j \in Server, role'[j] = Candidate,
                                NEW v \in votes'[j]
                         PROVE  ballot(currentTerm'[j], v, j) \in ballots'
                OBVIOUS
            <4>1. CASE j = i
                BY <2>1, <4>1
            <4>2. CASE j # i
                <5>1. role[j] = Candidate /\ votes'[j] = votes[j]
                      /\ currentTerm'[j] = currentTerm[j]
                    BY Zenon, <2>1, <4>2 DEF TypeOK
                <5> QED BY <2>1, <5>1 DEF ElectionInv, VotesCast
            <4> QED BY <4>1, <4>2
        <3> QED BY <2>1, <3>1 DEF ElectionInv, VotesCast
    <2> QED BY <2>2, <2>3, <2>4 DEF ElectionInv
<1>2. ASSUME NEW i \in Server, NEW m \in msgs, m.type = "RequestVote",
             RequestVoteHandled(i, m)
      PROVE  ElectionInv'
    <2> DEFINE newTerm == m.term > currentTerm[i]
               grant == /\ voteIn(i, m.term) \in {Nil, m.from}
                        /\ isUpToDate(log[i], m.lastLogIndex, m.lastLogTerm)
    <2>1. m.term \in Term /\ m.term \in Nat /\ m.from \in Server
        <3>1. m \in RequestVoteArgs
            BY Zenon, <1>2 DEF TypeOK, Message, RequestVoteArgs, VoteGranted,
                        AppendEntriesArgs, AppendReply, TermReply
        <3> QED BY <3>1, BoundAssumption DEF RequestVoteArgs, Term
    <2>2. /\ m.term >= currentTerm[i]
          /\ newTerm \/ grant
          /\ currentTerm' = [currentTerm EXCEPT ![i] = m.term]
          /\ role' = [role EXCEPT ![i] = IF newTerm THEN Follower ELSE @]
          /\ votedFor' = [votedFor EXCEPT ![i] =
                            IF grant THEN m.from ELSE voteIn(i, m.term)]
          /\ mustPersist(i)
          /\ votes' = votes /\ elected' = elected
        BY Zenon, <1>2 DEF RequestVoteHandled
    <2>3. VotesDurable'
        BY Zenon, <2>2, PersistAgrees DEF ElectionInv
    <2>4. \A j \in Server : role'[j] = Candidate =>
             role[j] = Candidate /\ currentTerm'[j] = currentTerm[j]
        <3> SUFFICES ASSUME NEW j \in Server, role'[j] = Candidate
                     PROVE  role[j] = Candidate
                            /\ currentTerm'[j] = currentTerm[j]
            OBVIOUS
        <3>1. CASE j # i
            BY Zenon, <2>2, <3>1 DEF TypeOK
        <3>2. CASE j = i
            <4>1. role'[i] = IF newTerm THEN Follower ELSE role[i]
                BY Zenon, <2>2 DEF TypeOK
            <4>2. ~newTerm /\ role[i] = Candidate
                BY <3>2, <4>1 DEF Follower, Candidate
            <4>3. m.term = currentTerm[i]
                <5>1. currentTerm[i] \in Nat
                    BY Zenon, BoundAssumption DEF TypeOK, Term
                <5> QED BY <2>1, <2>2, <4>2, <5>1
            <4>4. currentTerm'[i] = m.term
                BY Zenon, <2>2 DEF TypeOK
            <4> QED BY <3>2, <4>2, <4>3, <4>4
        <3> QED BY Zenon, <3>1, <3>2
    <2>5. CASE grant
        <3>1. /\ ballots' = ballots \cup {ballot(m.term, i, m.from)}
              /\ msgs' = msgs \cup {[type |-> "VoteGranted", term |-> m.term,
                                     from |-> i, to |-> m.from]}
            BY <1>2, <2>5 DEF RequestVoteHandled, Send, ballot
        <3>2. m.term = currentTerm[i] => votedFor[i] \in {Nil, m.from}
            BY <2>1, <2>5 DEF voteIn
        <3>3. votedFor' = [votedFor EXCEPT ![i] = m.from]
            BY <2>2, <2>5
        <3>4. BallotsRemembered' /\ OneVotePerTerm'
            BY Zenon, <2>1, <2>2, <3>1, <3>2, <3>3, CastStep
        <3>5. VotesCast'
            <4>1. \A n \in msgs' : n.type = "VoteGranted"
                     => ballot(n.term, n.from, n.to) \in ballots'
                BY <3>1 DEF ElectionInv, VotesCast
            <4>2. \A j \in Server : role'[j] = Candidate =>
                     \A v \in votes'[j] :
                        ballot(currentTerm'[j], v, j) \in ballots'
                BY <2>2, <2>4, <3>1 DEF ElectionInv, VotesCast
            <4>3. \A e \in elected' : \E Q \in SUBSET Server :
                     /\ Cardinality(Q) >= majority
                     /\ \A v \in Q : ballot(e[1], v, e[2]) \in ballots'
                BY <2>2, <3>1 DEF ElectionInv, VotesCast
            <4> QED BY <4>1, <4>2, <4>3 DEF VotesCast
        <3> QED BY Zenon, <2>3, <3>4, <3>5 DEF ElectionInv
    <2>6. CASE ~grant
        <3>1. newTerm /\ ballots' = ballots /\ msgs' = msgs
            BY Zenon, <1>2, <2>2, <2>6 DEF RequestVoteHandled
        <3>2. \A j \in Server :
                 \/ currentTerm'[j] > currentTerm[j]
                 \/ currentTerm'[j] = currentTerm[j]
                    /\ votedFor'[j] = votedFor[j]
            BY Zenon, <2>2, <3>1
        <3> QED BY Zenon, <2>2, <2>3, <2>4, <3>1, <3>2, NoVoteStep
    <2> QED BY Zenon, <2>5, <2>6
<1>3. ASSUME NEW i \in Server, NEW m \in msgs, countVote(i, m)
      PROVE  ElectionInv'
    <2>1. /\ UNCHANGED <<currentTerm, votedFor, role, disk, msgs, ballots,
                         elected>>
          /\ votes' = [votes EXCEPT ![i] = @ \cup {m.from}]
          /\ m.type = "VoteGranted" /\ m.to = i /\ m.term = currentTerm[i]
        BY <1>3 DEF countVote, serverVars
    <2>2. ballot(currentTerm[i], m.from, i) \in ballots
        BY <2>1 DEF ElectionInv, VotesCast
    <2>3. \A j \in Server : role'[j] = Candidate =>
             \A v \in votes'[j] : ballot(currentTerm'[j], v, j) \in ballots'
        BY <2>1, <2>2 DEF ElectionInv, VotesCast
    <2>4. VotesCast'
        BY <2>1, <2>3 DEF ElectionInv, VotesCast
    <2> QED BY Zenon, <2>1, <2>4 DEF ElectionInv, VotesDurable, BallotsRemembered,
                              OneVotePerTerm
<1>4. ASSUME NEW i \in Server, becomeLeader(i)
      PROVE  ElectionInv'
    <2>1. /\ UNCHANGED <<currentTerm, votedFor, msgs, ballots, votes>>
          /\ role' = [role EXCEPT ![i] = Leader]
          /\ role[i] = Candidate
          /\ Cardinality(votes[i]) >= majority
          /\ elected' = elected \cup {<<currentTerm[i], i>>}
          /\ mustPersist(i)
        BY <1>4 DEF becomeLeader
    <2>2. VotesDurable'
        BY <2>1, PersistAgrees DEF ElectionInv
    <2>3. \A v \in votes[i] : ballot(currentTerm[i], v, i) \in ballots
        BY <2>1 DEF ElectionInv, VotesCast
    <2>4. \A j \in Server : role'[j] = Candidate => role[j] = Candidate
        BY Zenon, <2>1 DEF TypeOK, Leader, Candidate
    <2>5. \A e \in elected' : \E Q \in SUBSET Server :
             /\ Cardinality(Q) >= majority
             /\ \A v \in Q : ballot(e[1], v, e[2]) \in ballots'
        <3> SUFFICES ASSUME NEW e \in elected'
                     PROVE  \E Q \in SUBSET Server :
                              /\ Cardinality(Q) >= majority
                              /\ \A v \in Q : ballot(e[1], v, e[2]) \in ballots
            BY <2>1
        <3>1. CASE e \in elected
            BY <3>1 DEF ElectionInv, VotesCast
        <3>2. CASE e = <<currentTerm[i], i>>
            <4>1. votes[i] \in SUBSET Server
                OBVIOUS
            <4> QED BY <2>1, <2>3, <3>2, <4>1
        <3> QED BY Zenon, <2>1, <3>1, <3>2
    <2>6. VotesCast'
        BY <2>1, <2>4, <2>5 DEF ElectionInv, VotesCast
    <2> QED BY <2>1, <2>2, <2>6 DEF ElectionInv, BallotsRemembered,
                                    OneVotePerTerm
<1>5. ASSUME NEW i \in Server, NEW m \in msgs, AppendEntriesHandled(i, m),
             m.type = "AppendEntries"
      PROVE  ElectionInv'
    <2> DEFINE newTerm == m.term > currentTerm[i]
    <2>1. m.term \in Nat
        <3>1. m \in AppendEntriesArgs
            BY Zenon, <1>5 DEF TypeOK, Message, RequestVoteArgs, VoteGranted,
                        AppendEntriesArgs, AppendReply, TermReply
        <3> QED BY <3>1, BoundAssumption DEF AppendEntriesArgs, Term
    <2>2. /\ m.term >= currentTerm[i]
          /\ currentTerm' = [currentTerm EXCEPT ![i] = m.term]
          /\ votedFor' = [votedFor EXCEPT ![i] = voteIn(i, m.term)]
          /\ role' = [role EXCEPT ![i] =
                        IF newTerm \/ @ = Candidate THEN Follower ELSE @]
          /\ newTerm => mustPersist(i)
          /\ mustPersist(i) \/ UNCHANGED disk
          /\ votes' = votes /\ ballots' = ballots /\ elected' = elected
        BY Zenon, <1>5 DEF AppendEntriesHandled
    <2>3. ~newTerm => currentTerm' = currentTerm /\ votedFor' = votedFor
        BY <2>1, <2>2 DEF voteIn
    <2>4. VotesDurable'
        <3>1. CASE mustPersist(i)
            BY <2>2, <3>1, PersistAgrees DEF ElectionInv
        <3>2. CASE ~newTerm /\ UNCHANGED disk
            BY <2>3, <3>2 DEF ElectionInv, VotesDurable
        <3> QED BY <2>2, <3>1, <3>2
    <2>5. \A j \in Server :
             \/ currentTerm'[j] > currentTerm[j]
             \/ currentTerm'[j] = currentTerm[j] /\ votedFor'[j] = votedFor[j]
        BY <2>2, <2>3
    <2>6. \A j \in Server : role'[j] = Candidate =>
             role[j] = Candidate /\ currentTerm'[j] = currentTerm[j]
        BY Zenon, <2>2 DEF TypeOK, Follower, Candidate
    <2>7. \A n \in msgs' \ msgs : n.type # "VoteGranted"
        <3>1. PICK ok : msgs' = msgs \cup {AppendReplyTo(m, ok)}
            BY Zenon, <1>5 DEF AppendEntriesHandled, Send
        <3> QED BY <3>1 DEF AppendReplyTo
    <2> QED BY <2>2, <2>4, <2>5, <2>6, <2>7, NoVoteStep
<1>6. ASSUME NEW i \in Server, NEW m \in msgs, handleTermReply(i, m)
      PROVE  ElectionInv'
    <2>1. /\ m.term > currentTerm[i]
          /\ currentTerm' = [currentTerm EXCEPT ![i] = m.term]
          /\ votedFor' = [votedFor EXCEPT ![i] = voteIn(i, m.term)]
          /\ role' = [role EXCEPT ![i] = Follower]
          /\ mustPersist(i)
          /\ UNCHANGED <<votes, msgs, ballots, elected>>
        BY <1>6 DEF handleTermReply, stepDown
    <2>2. VotesDurable'
        BY <2>1, PersistAgrees DEF ElectionInv
    <2>3. \A j \in Server : role'[j] = Candidate =>
             role[j] = Candidate /\ currentTerm'[j] = currentTerm[j]
        BY Zenon, <2>1 DEF TypeOK, Follower, Candidate
    <2> QED BY <2>1, <2>2, <2>3, NoVoteStep
<1>7. ASSUME NEW i \in Server, Restore(i)
      PROVE  ElectionInv'
    <2>1. /\ currentTerm' = [currentTerm EXCEPT ![i] = disk[i].term]
          /\ votedFor' = [votedFor EXCEPT ![i] = disk[i].vote]
          /\ role' = [role EXCEPT ![i] = Follower]
          /\ votes' = [votes EXCEPT ![i] = {}]
          /\ UNCHANGED <<disk, msgs, ballots, elected>>
        BY Zenon, <1>7 DEF Restore, votedForRestored, durableVars
    <2>2. disk[i].term = currentTerm[i] /\ disk[i].vote = votedFor[i]
        BY DEF ElectionInv, VotesDurable
    <2>3. currentTerm' = currentTerm /\ votedFor' = votedFor
        BY <2>1, <2>2
    <2>4. VotesDurable'
        BY <2>1, <2>3 DEF ElectionInv, VotesDurable
    <2>5. \A j \in Server : role'[j] = Candidate =>
             role[j] = Candidate /\ votes'[j] = votes[j]
        BY Zenon, <2>1 DEF TypeOK, Follower, Candidate
    <2> QED BY Zenon, <2>1, <2>3, <2>4, <2>5, NoVoteStep
<1>8. ASSUME UNCHANGED <<currentTerm, votedFor, role, votes, ballots, elected>>,
             VotesDurable',
             \A m \in msgs' \ msgs : m.type # "VoteGranted"
      PROVE  ElectionInv'
    BY <1>8, NoVoteStep
<1>9. ASSUME NEW i \in Server, NEW cmd \in Command, Submit(i, cmd)
      PROVE  ElectionInv'
    <2>1. /\ mustPersist(i)
          /\ UNCHANGED <<currentTerm, votedFor, role, votes, msgs, ballots,
                         elected>>
        BY <1>9 DEF Submit, serverVars
    <2>2. VotesDurable'
        BY <2>1, PersistAgrees DEF ElectionInv
    <2> QED BY <2>1, <2>2, <1>8
<1>10. ASSUME UNCHANGED <<currentTerm, votedFor, role, votes, disk, ballots,
                          elected>>,
              \A m \in msgs' \ msgs : m.type # "VoteGranted"
       PROVE  ElectionInv'
    <2>1. VotesDurable'
        BY <1>10 DEF ElectionInv, VotesDurable
    <2> QED BY <1>8, <1>10, <2>1
<1>11. ASSUME NEW i \in Server, NEW j \in Server, replicateTo(i, j)
       PROVE  ElectionInv'
    <2>1. UNCHANGED <<currentTerm, votedFor, role, votes, disk, ballots,
                      elected>>
        BY <1>11 DEF replicateTo, serverVars
    <2>2. \A m \in msgs' \ msgs : m.type = "AppendEntries"
        BY Zenon, <1>11, LeaderSendsEntries
    <2> QED BY SMTT(30), <1>10, <2>1, <2>2
<1>12. ASSUME NEW i \in Server, NEW m \in msgs,
              RequestVoteRefused(i, m) \/ AppendEntriesRefused(i, m)
       PROVE  ElectionInv'
    BY <1>10, <1>12 DEF RequestVoteRefused, AppendEntriesRefused,
                        AppendReplyTo, Send, serverVars
<1>13. ASSUME NEW i \in Server, NEW m \in msgs, handleAppendReply(i, m)
       PROVE  ElectionInv'
    BY <1>10, <1>13 DEF handleAppendReply, serverVars
<1>14. ASSUME NEW i \in Server, Stop(i)
       PROVE  ElectionInv'
    BY <1>10, <1>14 DEF Stop, serverVars
<1>15. ASSUME NEW m \in msgs, Lose(m)
       PROVE  ElectionInv'
    BY <1>10, <1>15 DEF Lose, serverVars
<1>16. CASE UNCHANGED vars
    BY <1>10, <1>16 DEF vars
<1> QED BY Zenon, <1>1, <1>2, <1>3, <1>4, <1>5, <1>6, <1>7, <1>9, <1>11, <1>12,
           <1>13, <1>14, <1>15, <1>16 DEF Next, RequestVote, AppendEntries

\* Two servers elected in one term would share a voter, who voted once.
LEMMA ElectionInvImplies == TypeOK /\ ElectionInv => ElectionSafety
<1> SUFFICES ASSUME TypeOK, ElectionInv,
                    NEW e \in elected, NEW f \in elected, e[1] = f[1]
             PROVE  e[2] = f[2]
    BY DEF ElectionSafety
<1>1. PICK Q \in SUBSET Server :
         /\ Cardinality(Q) >= majority
         /\ \A v \in Q : ballot(e[1], v, e[2]) \in ballots
    BY DEF ElectionInv, VotesCast
<1>2. PICK R \in SUBSET Server :
         /\ Cardinality(R) >= majority
         /\ \A v \in R : ballot(f[1], v, f[2]) \in ballots
    BY DEF ElectionInv, VotesCast
<1>3. Q \cap R # {}
    <2>1. /\ IsFiniteSet(Server) /\ Cardinality(Server) \in Nat
          /\ Cardinality(Q) \in Nat /\ Cardinality(R) \in Nat
        BY ServerAssumption, FS_CardinalityType, FS_Subset
    <2>2. Cardinality(Q) + Cardinality(R) > Cardinality(Server)
        BY <1>1, <1>2, <2>1 DEF majority
    <2> QED BY <2>1, <2>2, FS_MajoritiesIntersect
<1>4. PICK v \in Q \cap R : TRUE
    BY <1>3
<1>5. ballot(e[1], v, e[2]) \in ballots /\ ballot(f[1], v, f[2]) \in ballots
    BY <1>1, <1>2, <1>4
<1> QED BY <1>5 DEF ElectionInv, OneVotePerTerm, ballot

\* Election Safety for every cluster: however votes are lost, delayed,
\* repeated or interleaved with crashes and restarts, startElection and
\* becomeLeader never promote two servers in one term.
THEOREM AtMostOneLeader == Spec => []ElectionSafety
<1>1. Init => TypeOK /\ ElectionInv
    BY TypeInit, ElectionInit
<1>2. TypeOK /\ ElectionInv /\ [Next]_vars => (TypeOK /\ ElectionInv)'
    BY TypeNext, ElectionNext
<1>3. TypeOK /\ ElectionInv => ElectionSafety
    BY ElectionInvImplies
<1> QED BY <1>1, <1>2, <1>3, PTL DEF Spec

\* No step takes a server back to an older term, or makes it change its mind
\* about a vote within a term.
VoteStands(i) ==
    \/ currentTerm'[i] > currentTerm[i]
    \/ currentTerm'[i] = currentTerm[i] /\ votedFor[i] \in {Nil, votedFor'[i]}

\* Every step of every server lets votes stand: a restart because what it reads
\* back is what the server had.
LEMMA VoteStandsNext ==
    ASSUME TypeOK, VotesDurable, [Next]_vars
    PROVE  \A i \in Server : VoteStands(i)
<1> USE ElectionTypes
<1>1. ASSUME UNCHANGED <<currentTerm, votedFor>>
      PROVE  \A i \in Server : VoteStands(i)
    BY <1>1 DEF VoteStands
<1>2. ASSUME NEW i \in Server, NEW t \in Nat, NEW w, t >= currentTerm[i],
             t = currentTerm[i] => votedFor[i] \in {Nil, w},
             currentTerm' = [currentTerm EXCEPT ![i] = t],
             votedFor' = [votedFor EXCEPT ![i] = w]
      PROVE  \A j \in Server : VoteStands(j)
    BY <1>2 DEF VoteStands
<1>3. ASSUME NEW i \in Server, startElection(i)
      PROVE  \A j \in Server : VoteStands(j)
    <2>1. currentTerm[i] \in Nat
        OBVIOUS
    <2>2. /\ currentTerm[i] + 1 \in Nat
          /\ currentTerm[i] + 1 >= currentTerm[i]
          /\ currentTerm[i] + 1 # currentTerm[i]
        BY SMTT(30), <2>1
    <2>3. /\ currentTerm' = [currentTerm EXCEPT ![i] = currentTerm[i] + 1]
          /\ votedFor' = [votedFor EXCEPT ![i] = i]
        BY <1>3 DEF startElection
    <2> QED BY Zenon, <1>2, <2>2, <2>3
<1>4. ASSUME NEW m \in msgs,
             m.type \in {"RequestVote", "AppendEntries", "TermReply"}
      PROVE  m.term \in Nat
    <2>1. m \in RequestVoteArgs \cup AppendEntriesArgs \cup TermReply
        BY Zenon, <1>4 DEF TypeOK, Message, RequestVoteArgs, VoteGranted,
                    AppendEntriesArgs, AppendReply, TermReply
    <2> QED BY <2>1, BoundAssumption DEF RequestVoteArgs, AppendEntriesArgs,
                                         TermReply, Term
<1>5. ASSUME NEW i \in Server, NEW m \in msgs, RequestVote(i, m)
      PROVE  \A j \in Server : VoteStands(j)
    <2>1. m.term \in Nat
        BY <1>4, <1>5 DEF RequestVote
    <2>2. CASE RequestVoteRefused(i, m)
        BY <1>1, <2>2 DEF RequestVoteRefused, serverVars
    <2>3. CASE RequestVoteHandled(i, m)
        <3> DEFINE grant == /\ voteIn(i, m.term) \in {Nil, m.from}
                            /\ isUpToDate(log[i], m.lastLogIndex,
                                          m.lastLogTerm)
                   w == IF grant THEN m.from ELSE voteIn(i, m.term)
        <3>1. /\ m.term >= currentTerm[i]
              /\ currentTerm' = [currentTerm EXCEPT ![i] = m.term]
              /\ votedFor' = [votedFor EXCEPT ![i] = w]
              /\ voteIn(i, m.term) \in {Nil, w}
            <4>1. voteIn(i, m.term) \in {Nil, w}
                OBVIOUS
            <4>2. votedFor' = [votedFor EXCEPT ![i] = w]
                BY <2>3, Zenon DEF RequestVoteHandled
            <4>3. /\ m.term >= currentTerm[i]
                  /\ currentTerm' = [currentTerm EXCEPT ![i] = m.term]
                BY Zenon, <2>3 DEF RequestVoteHandled
            <4> HIDE DEF w
            <4> QED BY <4>1, <4>2, <4>3
        <3>2. m.term = currentTerm[i] => voteIn(i, m.term) = votedFor[i]
            BY <2>1 DEF voteIn
        <3> HIDE DEF w
        <3> QED BY Zenon, <1>2, <2>1, <3>1, <3>2
    <2> QED BY Zenon, <1>5, <2>2, <2>3 DEF RequestVote
<1>6. ASSUME NEW i \in Server, NEW m \in msgs, AppendEntries(i, m)
      PROVE  \A j \in Server : VoteStands(j)
    <2>1. m.term \in Nat
        BY <1>4, <1>6 DEF AppendEntries
    <2>2. CASE AppendEntriesRefused(i, m)
        BY <1>1, <2>2 DEF AppendEntriesRefused, serverVars
    <2>3. CASE AppendEntriesHandled(i, m)
        <3>1. /\ m.term >= currentTerm[i]
              /\ currentTerm' = [currentTerm EXCEPT ![i] = m.term]
              /\ votedFor' = [votedFor EXCEPT ![i] = voteIn(i, m.term)]
            BY Zenon, <2>3 DEF AppendEntriesHandled
        <3>2. m.term = currentTerm[i] => voteIn(i, m.term) = votedFor[i]
            BY <2>1 DEF voteIn
        <3> QED BY Zenon, <1>2, <2>1, <3>1, <3>2
    <2> QED BY <1>6, <2>2, <2>3 DEF AppendEntries
<1>7. ASSUME NEW i \in Server, NEW m \in msgs, handleTermReply(i, m)
      PROVE  \A j \in Server : VoteStands(j)
    <2>1. m.term \in Nat /\ currentTerm[i] \in Nat
        BY <1>4, <1>7 DEF handleTermReply
    <2>2. /\ m.term > currentTerm[i]
          /\ currentTerm' = [currentTerm EXCEPT ![i] = m.term]
          /\ votedFor' = [votedFor EXCEPT ![i] = voteIn(i, m.term)]
        BY <1>7 DEF handleTermReply, stepDown
    <2>3. m.term >= currentTerm[i] /\ m.term # currentTerm[i]
        BY <2>1, <2>2
    <2> QED BY Zenon, <1>2, <2>1, <2>2, <2>3
<1>8. ASSUME NEW i \in Server, Restore(i)
      PROVE  \A j \in Server : VoteStands(j)
    <2>1. /\ currentTerm' = [currentTerm EXCEPT ![i] = disk[i].term]
          /\ votedFor' = [votedFor EXCEPT ![i] = disk[i].vote]
        BY <1>8 DEF Restore, votedForRestored
    <2> QED BY SMTT(30), <1>1, <2>1 DEF VotesDurable
<1>9. ASSUME NEW i \in Server,
             \/ becomeLeader(i)
             \/ \E j \in Server : replicateTo(i, j)
             \/ \E cmd \in Command : Submit(i, cmd)
             \/ Stop(i)
             \/ \E m \in msgs : countVote(i, m) \/ handleAppendReply(i, m)
                                \/ Lose(m)
      PROVE  \A j \in Server : VoteStands(j)
    BY Zenon, <1>1, <1>9 DEF becomeLeader, replicateTo, Submit, Stop, countVote,
                      handleAppendReply, Lose, serverVars
<1>10. CASE UNCHANGED vars
    BY <1>1, <1>10 DEF vars
<1> QED BY Zenon, <1>3, <1>5, <1>6, <1>7, <1>8, <1>9, <1>10 DEF Next

\* What Restore will read back never goes to an older term and never loses a
\* vote, whenever the crash comes: every handler that changes term or vote
\* persists them before it replies.
THEOREM VotesSurviveCrashes == Spec => DurableVoteStands
<1>1. Init => TypeOK /\ ElectionInv
    BY TypeInit, ElectionInit
<1>2. TypeOK /\ ElectionInv /\ [Next]_vars => (TypeOK /\ ElectionInv)'
    BY TypeNext, ElectionNext
<1>3. ASSUME TypeOK, ElectionInv, (TypeOK /\ ElectionInv)', [Next]_vars
      PROVE  [\A i \in Server :
                 \/ disk'[i].term > disk[i].term
                 \/ /\ disk'[i].term = disk[i].term
                    /\ disk[i].vote \in {Nil, disk'[i].vote}]_vars
    <2>1. \A i \in Server : VoteStands(i)
        BY <1>3, VoteStandsNext DEF ElectionInv
    <2> QED BY Zenon, <1>3, <2>1 DEF VoteStands, ElectionInv, VotesDurable
<1> QED BY <1>1, <1>2, <1>3, PTL DEF Spec, DurableVoteStands
=============================================================================
