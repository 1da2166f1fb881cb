-------------------------------- MODULE Raft --------------------------------
(***************************************************************************)
(* The consensus core of package raft: leader election, log replication,   *)
(* commitment and application, and recovery from durable storage.          *)
(*                                                                         *)
(* This is the server run with a fixed membership and with log compaction  *)
(* switched off (snapshot-every = 0), so the log keeps its zero sentinel:  *)
(* baseIndex() is 0 and slot(i) is i throughout.  log[s] holds the entries *)
(* after the sentinel.                                                     *)
(*                                                                         *)
(* Every handler runs under Server.mu and is one action, including the     *)
(* persist and apply calls it makes.  RPC calls are made without the lock: *)
(* a request is sent in one action, handled by the receiver in a second,   *)
(* and its reply is handled in a third.  A message sent stays in the       *)
(* network until the network drops it, and until then it may be received   *)
(* any number of times, in any order: loss, delay, reordering, and the     *)
(* duplicated requests of sim/network.go and of repeated heartbeats.       *)
(***************************************************************************)
EXTENDS Integers, Sequences, FiniteSets, FiniteSetsExt

CONSTANTS
    Server,     \* the peers slice: every member, this server included
    Command,    \* client commands
    NoOp,       \* the nil command of the entry a new leader appends
    Nil,        \* a nil votedFor
    MaxTerm,    \* bound: no election starts beyond this term
    MaxLog,     \* bound: no command is submitted to a log this long
    MaxMsgs,    \* bound: number of messages in the network at once
    MaxStops,   \* bound: number of times a server is stopped or crashes
    MarkerFaults \* may saving the applied marker fail?

ASSUME ServerAssumption == IsFiniteSet(Server) /\ Server # {}
ASSUME NilAssumption == Nil \notin Server
ASSUME NoOpAssumption == NoOp \notin Command
ASSUME BoundAssumption == MaxTerm \in Nat /\ MaxLog \in Nat /\ MaxMsgs \in Nat
                          /\ MaxStops \in Nat
ASSUME FaultAssumption == MarkerFaults \in BOOLEAN

VARIABLES
    currentTerm, votedFor, log,     \* persistent state, in memory
    disk,                           \* what the last Save made durable
    appliedMark,                    \* the separate applied-index file
    role, commitIndex, lastApplied, \* volatile state
    sm,                             \* entries applied to the state machine
    stopped,                        \* Stop was called, or the process died
    votes,                          \* votes counted by startElection
    nextIndex, matchIndex,          \* a leader's view of its peers
    msgs,                           \* RPC requests and replies in the network
    stops,                          \* number of stops so far
    ballots,                        \* history: votes cast, own votes included
    elected,                        \* history: <<term, server>> promoted
    committed                       \* history: what leaders committed

durableVars == <<disk, appliedMark>>
serverVars == <<currentTerm, votedFor, role>>
applyVars == <<commitIndex, lastApplied, sm, appliedMark, committed>>
leaderVars == <<nextIndex, matchIndex>>
vars == <<currentTerm, votedFor, log, disk, appliedMark, role, commitIndex,
          lastApplied, sm, stopped, votes, nextIndex, matchIndex, msgs, stops,
          ballots, elected, committed>>

Follower == "Follower"
Candidate == "Candidate"
Leader == "Leader"

Term == 0..MaxTerm
Entry == [term : Term, cmd : Command \cup {NoOp}]

-----------------------------------------------------------------------------
(* Messages.  A reply carries what the calling goroutine still knows of its *)
(* request (its term; for AppendEntries prevIdx + len(entries)).            *)

RequestVoteArgs ==
    [type : {"RequestVote"}, term : Term, from : Server,
     lastLogIndex : Nat, lastLogTerm : Term]

VoteGranted ==
    [type : {"VoteGranted"}, term : Term, from : Server, to : Server]

AppendEntriesArgs ==
    [type : {"AppendEntries"}, term : Term, from : Server, to : Server,
     prevLogIndex : Nat, prevLogTerm : Term, entries : Seq(Entry),
     leaderCommit : Nat]

AppendReply ==
    [type : {"AppendReply"}, term : Term, from : Server, to : Server,
     success : BOOLEAN, match : Nat]

\* Any reply whose Term exceeds the request's: all the caller takes from it is
\* the term.  A refusal at the caller's own term or below is ignored by the
\* caller of RequestVote, so no message stands for it.
TermReply == [type : {"TermReply"}, term : Term, to : Server]

Message == RequestVoteArgs \cup VoteGranted \cup AppendEntriesArgs
             \cup AppendReply \cup TermReply

-----------------------------------------------------------------------------
(* Pure helpers of log.go *)

lastIndex(lg) == Len(lg)

termAt(lg, k) == IF k \in 1..Len(lg) THEN lg[k].term ELSE 0

lastTerm(lg) == termAt(lg, Len(lg))

majority == (Cardinality(Server) \div 2) + 1

\* Variant of isUpToDate: longer logs win whatever the terms.
isUpToDateByLength(lg, candLastIndex, candLastTerm) ==
    candLastIndex >= lastIndex(lg)

\* May a server whose log is lg vote for a candidate with this last entry?
isUpToDate(lg, candLastIndex, candLastTerm) ==
    IF candLastTerm # lastTerm(lg)
    THEN candLastTerm > lastTerm(lg)
    ELSE candLastIndex >= lastIndex(lg)

matchesPrevLog(lg, prevLogIndex, prevLogTerm) ==
    /\ prevLogIndex <= lastIndex(lg)
    /\ termAt(lg, prevLogIndex) = prevLogTerm

\* Variant of appendFrom: an existing entry is kept even when it conflicts.
appendMissing(lg, prevLogIndex, entries) ==
    lg \o SubSeq(entries, Len(lg) - prevLogIndex + 1, Len(entries))

\* Entries already present with the same term are kept; the first one that is
\* missing or conflicts truncates the log there, and it and its successors
\* are appended.
appendFrom(lg, prevLogIndex, entries) ==
    LET fresh == {k \in 1..Len(entries) :
                    \/ prevLogIndex + k > Len(lg)
                    \/ lg[prevLogIndex + k].term # entries[k].term}
    IN  IF fresh = {}
        THEN lg
        ELSE SubSeq(lg, 1, prevLogIndex + Min(fresh) - 1)
               \o SubSeq(entries, Min(fresh), Len(entries))

\* The entries consumed by applying lg from lo+1 to hi, in log order.  Those
\* with a nil command leave the state machine as it is.
consumed(lg, lo, hi) == SubSeq(lg, lo + 1, hi)

-----------------------------------------------------------------------------
Init ==
    /\ currentTerm = [i \in Server |-> 0]
    /\ votedFor = [i \in Server |-> Nil]
    /\ log = [i \in Server |-> <<>>]
    /\ disk = [i \in Server |-> [term |-> 0, vote |-> Nil, log |-> <<>>]]
    /\ appliedMark = [i \in Server |-> 0]
    /\ role = [i \in Server |-> Follower]
    /\ commitIndex = [i \in Server |-> 0]
    /\ lastApplied = [i \in Server |-> 0]
    /\ sm = [i \in Server |-> <<>>]
    /\ stopped = [i \in Server |-> FALSE]
    /\ matchIndex = [i \in Server |-> [j \in Server |-> 0]]
    /\ votes = [i \in Server |-> {}]
    /\ nextIndex = [i \in Server |-> [j \in Server |-> 1]]
    /\ msgs = {}
    /\ stops = 0
    /\ ballots = {}
    /\ elected = {}
    /\ committed = {}

\* Variant of mustPersist: saved before the handler touches the log.
persistEarly(i) ==
    disk' = [disk EXCEPT ![i] = [term |-> currentTerm'[i],
                                 vote |-> votedFor'[i],
                                 log  |-> log[i]]]

\* mustPersistLocked: term, vote and log reach the disk in one atomic Save.
\* A failed Save panics, which is a crash before any reply.
mustPersist(i) ==
    disk' = [disk EXCEPT ![i] = [term |-> currentTerm'[i],
                                 vote |-> votedFor'[i],
                                 log  |-> log'[i]]]

\* Variant of appliedUpTo: applied up to the end of the log.
appliedToEnd(i, n, lg) == lastIndex(lg)

\* Where the loop of applyCommitted ends once commitIndex is n.
appliedUpTo(i, n, lg) ==
    IF n > lastApplied[i] THEN Min({n, lastIndex(lg)}) ELSE lastApplied[i]

\* applyCommitted after commitIndex became n, over the log lg.  A failed
\* SaveApplied is only counted, so the marker may keep its old value.
applyCommitted(i, n, lg) ==
    LET upTo == appliedUpTo(i, n, lg)
        marks == {upTo} \cup (IF MarkerFaults THEN {appliedMark[i]} ELSE {})
    IN  /\ commitIndex' = [commitIndex EXCEPT ![i] = n]
        /\ lastApplied' = [lastApplied EXCEPT ![i] = upTo]
        /\ sm' = [sm EXCEPT ![i] = @ \o consumed(lg, lastApplied[i], upTo)]
        /\ \E mark \in marks :
             appliedMark' = [appliedMark EXCEPT ![i] = mark]

\* advanceCommitIndexLocked of a leader i with log lg and matchIndex mi.
\* committed remembers, with the leader's term, every entry that its
\* commitIndex passes.
advanceCommitIndex(i, lg, mi) ==
    LET ready == {n \in (commitIndex[i] + 1)..lastIndex(lg) :
                    /\ lg[n].term = currentTerm[i]
                    /\ Cardinality({p \in Server : mi[p] >= n}) >= majority}
    IN  IF ready = {}
        THEN UNCHANGED applyVars
        ELSE /\ applyCommitted(i, Max(ready), lg)
             /\ committed' = committed \cup
                  {[term |-> currentTerm[i], index |-> k, entry |-> lg[k]] :
                      k \in (commitIndex[i] + 1)..Max(ready)}

\* Variant of voteIn: any message of a current term clears the vote.
voteCleared(i, t) == IF t >= currentTerm[i] THEN Nil ELSE votedFor[i]

\* observeTerm: the vote that server i has cast in term t, not older than its
\* own; a new term means that none has been cast yet.
voteIn(i, t) == IF t > currentTerm[i] THEN Nil ELSE votedFor[i]

\* becomeFollower, for a term above the current one.
stepDown(i, t) ==
    /\ currentTerm' = [currentTerm EXCEPT ![i] = t]
    /\ votedFor' = [votedFor EXCEPT ![i] = voteIn(i, t)]
    /\ role' = [role EXCEPT ![i] = Follower]

Send(m) == /\ Cardinality(msgs \cup {m}) <= MaxMsgs
           /\ msgs' = msgs \cup {m}

-----------------------------------------------------------------------------
(* Elections *)

\* tick reads role and deadline under the lock and calls startElection after
\* releasing it; startElection checks neither again, so a server promoted in
\* between still campaigns.
startElection(i) ==
    /\ currentTerm[i] < MaxTerm
    /\ role' = [role EXCEPT ![i] = Candidate]
    /\ currentTerm' = [currentTerm EXCEPT ![i] = @ + 1]
    /\ votedFor' = [votedFor EXCEPT ![i] = i]
    /\ votes' = [votes EXCEPT ![i] = {i}]
    /\ ballots' = ballots \cup
                    {[term |-> currentTerm[i] + 1, voter |-> i, cand |-> i]}
    /\ UNCHANGED log
    /\ mustPersist(i)
    /\ Send([type |-> "RequestVote", term |-> currentTerm[i] + 1, from |-> i,
             lastLogIndex |-> lastIndex(log[i]),
             lastLogTerm |-> lastTerm(log[i])])
    /\ UNCHANGED <<applyVars, leaderVars, stopped, stops, elected>>

\* A stopped server, or one with a newer term, refuses; the reply means
\* something to the candidate only when its term is newer.
RequestVoteRefused(i, m) ==
    /\ m.term < currentTerm[i]
    /\ Send([type |-> "TermReply", term |-> currentTerm[i], to |-> m.from])
    /\ UNCHANGED <<serverVars, log, disk, applyVars, stopped, votes,
                   leaderVars, stops, ballots, elected>>

\* The rest of RequestVote.  A server that recently heard from a leader
\* refuses before looking at the term: that changes nothing here and nothing
\* at the candidate, so it is a stuttering step.
RequestVoteHandled(i, m) ==
    LET newTerm == m.term > currentTerm[i]
        vote == voteIn(i, m.term)
        grant == /\ vote \in {Nil, m.from}
                 /\ isUpToDate(log[i], m.lastLogIndex, m.lastLogTerm)
    IN  /\ ~stopped[i]
        /\ m.term >= currentTerm[i]
        /\ newTerm \/ grant
        /\ currentTerm' = [currentTerm EXCEPT ![i] = m.term]
        /\ role' = [role EXCEPT ![i] = IF newTerm THEN Follower ELSE @]
        /\ votedFor' = [votedFor EXCEPT ![i] = IF grant THEN m.from ELSE vote]
        /\ UNCHANGED log
        /\ mustPersist(i)
        /\ IF grant
           THEN /\ Send([type |-> "VoteGranted", term |-> m.term,
                         from |-> i, to |-> m.from])
                /\ ballots' = ballots \cup
                     {[term |-> m.term, voter |-> i, cand |-> m.from]}
           ELSE UNCHANGED <<msgs, ballots>>
        /\ UNCHANGED <<applyVars, leaderVars, votes, stopped, stops, elected>>

RequestVote(i, m) ==
    /\ m.type = "RequestVote"
    /\ m.from # i
    /\ RequestVoteRefused(i, m) \/ RequestVoteHandled(i, m)

\* A granted vote reaches the goroutine that asked for it.  Late votes are
\* dropped.  One goroutine asks each peer once per election, so the count is
\* the size of the set of voters.
countVote(i, m) ==
    /\ m.type = "VoteGranted"
    /\ m.to = i
    /\ currentTerm[i] = m.term
    /\ role[i] = Candidate
    /\ votes' = [votes EXCEPT ![i] = @ \cup {m.from}]
    /\ UNCHANGED <<serverVars, log, disk, applyVars, stopped, leaderVars, msgs,
                   stops, ballots, elected>>

\* The goroutine that counted the winning vote promotes the server, unless it
\* stopped being a candidate in the meantime.
becomeLeader(i) ==
    LET lg == Append(log[i], [term |-> currentTerm[i], cmd |-> NoOp])
        mi == [j \in Server |-> IF j = i THEN Len(lg) ELSE 0]
    IN  /\ role[i] = Candidate
        /\ Cardinality(votes[i]) >= majority
        /\ role' = [role EXCEPT ![i] = Leader]
        /\ UNCHANGED <<currentTerm, votedFor>>
        /\ log' = [log EXCEPT ![i] = lg]
        /\ matchIndex' = [matchIndex EXCEPT ![i] = mi]
        /\ nextIndex' = [nextIndex EXCEPT ![i] =
                           [j \in Server |-> IF j = i THEN Len(lg) + 1
                                                      ELSE Len(lg)]]
        /\ mustPersist(i)
        /\ advanceCommitIndex(i, lg, mi)
        /\ elected' = elected \cup {<<currentTerm[i], i>>}
        /\ UNCHANGED <<votes, stopped, msgs, stops, ballots>>

-----------------------------------------------------------------------------
(* Replication *)

\* Heartbeats, Submit and becomeLeader all start goroutines that run this; the
\* request carries everything from nextIndex to the end of the log.
replicateTo(i, j) ==
    LET prevIdx == nextIndex[i][j] - 1
    IN  /\ role[i] = Leader
        /\ j # i
        /\ Send([type |-> "AppendEntries", term |-> currentTerm[i],
                 from |-> i, to |-> j,
                 prevLogIndex |-> prevIdx,
                 prevLogTerm |-> termAt(log[i], prevIdx),
                 entries |-> SubSeq(log[i], prevIdx + 1, lastIndex(log[i])),
                 leaderCommit |-> commitIndex[i]])
        /\ UNCHANGED <<serverVars, log, disk, applyVars, stopped, votes,
                       leaderVars, stops, ballots, elected>>

\* The reply to request m: success with the index the caller will derive, or
\* failure.
AppendReplyTo(m, ok) ==
    [type |-> "AppendReply", term |-> m.term, from |-> m.to, to |-> m.from,
     success |-> ok,
     match |-> IF ok THEN m.prevLogIndex + Len(m.entries) ELSE 0]

\* Variant of AppendEntriesRefused: a stopped server acknowledges what it no
\* longer stores.
AppendEntriesStoppedOk(i, m) ==
    /\ \/ /\ m.term < currentTerm[i]
          /\ Send([type |-> "TermReply", term |-> currentTerm[i],
                   to |-> m.from])
       \/ /\ stopped[i]
          /\ m.term >= currentTerm[i]
          /\ Send(AppendReplyTo(m, TRUE))
    /\ UNCHANGED <<serverVars, log, disk, applyVars, stopped, votes,
                   leaderVars, stops, ballots, elected>>

\* A newer term refuses a stale leader; a stopped server refuses everyone.
AppendEntriesRefused(i, m) ==
    /\ \/ /\ m.term < currentTerm[i]
          /\ Send([type |-> "TermReply", term |-> currentTerm[i],
                   to |-> m.from])
       \/ /\ stopped[i]
          /\ m.term >= currentTerm[i]
          /\ Send(AppendReplyTo(m, FALSE))
    /\ UNCHANGED <<serverVars, log, disk, applyVars, stopped, votes,
                   leaderVars, stops, ballots, elected>>

\* Rule 5 looks only at requests that know of more committed entries.
leaderAhead(i, m) == m.leaderCommit > commitIndex[i]

\* Rules 2 to 5 of the receiver, after the term rule.
AppendEntriesHandled(i, m) ==
    LET newTerm == m.term > currentTerm[i]
        ok == matchesPrevLog(log[i], m.prevLogIndex, m.prevLogTerm)
        lg == IF ok THEN appendFrom(log[i], m.prevLogIndex, m.entries)
                    ELSE log[i]
        lastNew == m.prevLogIndex + Len(m.entries)
    IN  /\ ~stopped[i]
        /\ m.term >= currentTerm[i]
        /\ currentTerm' = [currentTerm EXCEPT ![i] = m.term]
        /\ votedFor' = [votedFor EXCEPT ![i] = voteIn(i, m.term)]
        /\ role' = [role EXCEPT ![i] =
                      IF newTerm \/ @ = Candidate THEN Follower ELSE @]
        /\ log' = [log EXCEPT ![i] = lg]
        /\ IF newTerm \/ lg # log[i] THEN mustPersist(i) ELSE UNCHANGED disk
        /\ IF ok /\ leaderAhead(i, m)
           THEN /\ applyCommitted(i, Min({m.leaderCommit, lastNew}), lg)
                /\ UNCHANGED committed
           ELSE UNCHANGED applyVars
        /\ Send(AppendReplyTo(m, ok))
        /\ UNCHANGED <<stopped, votes, leaderVars, stops, ballots, elected>>

AppendEntries(i, m) ==
    /\ m.type = "AppendEntries"
    /\ m.to = i
    /\ AppendEntriesRefused(i, m) \/ AppendEntriesHandled(i, m)

\* Variant of ackedUpTo: the log as it is when the reply arrives.
ackedToEnd(i, m) == lastIndex(log[i])

\* How far a successful reply shows the peer's log to match: what was sent.
ackedUpTo(i, m) == m.match

\* Variant of canBackOff: step back on every rejection.
backOffAlways(i, j) == TRUE

\* A rejection steps nextIndex back, but never below the first entry.
canBackOff(i, j) == nextIndex[i][j] > 1

\* The second half of replicateTo: the reply of a peer, if this server still
\* leads the term it was asked in.
handleAppendReply(i, m) ==
    LET j == m.from
        acked == ackedUpTo(i, m)
        higher == acked > matchIndex[i][j]
        mi == [matchIndex[i] EXCEPT ![j] = IF higher THEN acked ELSE @]
    IN  /\ m.type = "AppendReply"
        /\ m.to = i
        /\ role[i] = Leader
        /\ currentTerm[i] = m.term
        /\ \/ /\ m.success
              /\ matchIndex' = [matchIndex EXCEPT ![i] = mi]
              /\ nextIndex' = [nextIndex EXCEPT ![i][j] =
                                IF higher THEN acked + 1 ELSE @]
              /\ advanceCommitIndex(i, log[i], mi)
           \/ /\ ~m.success
              /\ canBackOff(i, j)
              /\ nextIndex' = [nextIndex EXCEPT ![i][j] = @ - 1]
              /\ UNCHANGED <<matchIndex, applyVars>>
        /\ UNCHANGED <<serverVars, log, disk, stopped, votes, msgs, stops,
                       ballots, elected>>

\* A reply, to either RPC, with a newer term.
handleTermReply(i, m) ==
    /\ m.type = "TermReply"
    /\ m.to = i
    /\ m.term > currentTerm[i]
    /\ stepDown(i, m.term)
    /\ UNCHANGED log
    /\ mustPersist(i)
    /\ UNCHANGED <<applyVars, stopped, votes, leaderVars, msgs, stops,
                   ballots, elected>>

Submit(i, cmd) ==
    LET lg == Append(log[i], [term |-> currentTerm[i], cmd |-> cmd])
        mi == [matchIndex[i] EXCEPT ![i] = Len(lg)]
    IN  /\ role[i] = Leader
        /\ ~stopped[i]
        /\ Len(log[i]) < MaxLog
        /\ log' = [log EXCEPT ![i] = lg]
        /\ matchIndex' = [matchIndex EXCEPT ![i] = mi]
        /\ UNCHANGED serverVars
        /\ mustPersist(i)
        /\ advanceCommitIndex(i, lg, mi)
        /\ UNCHANGED <<nextIndex, stopped, votes, msgs, stops, ballots,
                       elected>>

-----------------------------------------------------------------------------
(* Stops, crashes and restarts *)

\* Variant of votedForRestored: the vote is not part of the saved state.
voteForgotten(d) == Nil

\* decodeState returns the saved vote.
votedForRestored(d) == d.vote

\* Variant of replayed: the log is replayed over what was already replayed.
replayedTwice(lg, n) == consumed(lg, 0, n) \o consumed(lg, 0, n)

\* What Restore hands to the fresh state machine.
replayed(lg, n) == consumed(lg, 0, n)

\* Stop latches stopped; goroutines already started still run.  A crash is a
\* stop after which none of them takes another step.
Stop(i) ==
    /\ ~stopped[i]
    /\ stops < MaxStops
    /\ stopped' = [stopped EXCEPT ![i] = TRUE]
    /\ stops' = stops + 1
    /\ UNCHANGED <<serverVars, log, disk, applyVars, votes, leaderVars, msgs,
                   ballots, elected>>

\* A new process on the same data directory: NewServerWith, then Restore.  The
\* log is replayed into a fresh state machine up to the applied marker,
\* clamped to the end of the log, and commitIndex starts there.
Restore(i) ==
    LET d == disk[i]
        prevApplied == Min({appliedMark[i], lastIndex(d.log)})
    IN  /\ stopped[i]
        /\ stopped' = [stopped EXCEPT ![i] = FALSE]
        /\ currentTerm' = [currentTerm EXCEPT ![i] = d.term]
        /\ votedFor' = [votedFor EXCEPT ![i] = votedForRestored(d)]
        /\ log' = [log EXCEPT ![i] = d.log]
        /\ role' = [role EXCEPT ![i] = Follower]
        /\ nextIndex' = [nextIndex EXCEPT ![i] = [j \in Server |-> 1]]
        /\ commitIndex' = [commitIndex EXCEPT ![i] = prevApplied]
        /\ lastApplied' = [lastApplied EXCEPT ![i] = prevApplied]
        /\ sm' = [sm EXCEPT ![i] = replayed(d.log, prevApplied)]
        /\ matchIndex' = [matchIndex EXCEPT ![i] = [j \in Server |-> 0]]
        /\ votes' = [votes EXCEPT ![i] = {}]
        /\ UNCHANGED <<durableVars, msgs, stops, ballots, elected, committed>>

-----------------------------------------------------------------------------
\* The network drops a message: it was lost, or it was delivered for the last
\* time.
Lose(m) ==
    /\ msgs' = msgs \ {m}
    /\ UNCHANGED <<serverVars, log, disk, applyVars, stopped, votes,
                   leaderVars, stops, ballots, elected>>

Next ==
    \E i \in Server :
        \/ startElection(i)
        \/ becomeLeader(i)
        \/ \E j \in Server : replicateTo(i, j)
        \/ \E cmd \in Command : Submit(i, cmd)
        \/ Stop(i)
        \/ Restore(i)
        \/ \E m \in msgs : \/ RequestVote(i, m)
                          \/ countVote(i, m)
                          \/ AppendEntries(i, m)
                          \/ handleAppendReply(i, m)
                          \/ handleTermReply(i, m)
                          \/ Lose(m)

Spec == Init /\ [][Next]_vars

-----------------------------------------------------------------------------
(* Correctness *)

\* Every variable holds a value of its Go type; the log holds entries with
\* terms, indices are naturals, and a nextIndex never reaches 0.
TypeOK ==
    /\ currentTerm \in [Server -> Term]
    /\ votedFor \in [Server -> Server \cup {Nil}]
    /\ log \in [Server -> Seq(Entry)]
    /\ disk \in [Server -> [term : Term, vote : Server \cup {Nil},
                            log : Seq(Entry)]]
    /\ appliedMark \in [Server -> Nat]
    /\ role \in [Server -> {Follower, Candidate, Leader}]
    /\ commitIndex \in [Server -> Nat]
    /\ lastApplied \in [Server -> Nat]
    /\ sm \in [Server -> Seq(Entry)]
    /\ stopped \in [Server -> BOOLEAN]
    /\ votes \in [Server -> SUBSET Server]
    /\ nextIndex \in [Server -> [Server -> Nat \ {0}]]
    /\ matchIndex \in [Server -> [Server -> Nat]]
    /\ msgs \subseteq Message
    /\ stops \in 0..MaxStops
    /\ ballots \subseteq [term : Term, voter : Server, cand : Server]
    /\ elected \subseteq Term \X Server
    /\ committed \subseteq [term : Term, index : Nat \ {0}, entry : Entry]

\* Election Safety: becomeLeader promotes at most one server in a term, over
\* the whole run, whatever votes were lost, repeated or forgotten by restarts.
ElectionSafety ==
    \A e, f \in elected : e[1] = f[1] => e[2] = f[2]

\* Log Matching: two logs with the same term at an index are identical up to
\* it, so matchesPrevLog may look at a single entry before appendFrom.
LogMatching ==
    \A i, j \in Server : \A k \in 1..Len(log[i]) :
        k <= Len(log[j]) /\ log[i][k].term = log[j][k].term
            => SubSeq(log[i], 1, k) = SubSeq(log[j], 1, k)

\* Leader Completeness: what a leader committed is in the log of every leader
\* of that term or a later one (the isUpToDate check of RequestVote).
LeaderCompleteness ==
    \A c \in committed : \A i \in Server :
        role[i] = Leader /\ currentTerm[i] >= c.term
            => c.index <= Len(log[i]) /\ log[i][c.index] = c.entry

\* State Machine Safety: each entry a server has applied is one that a leader
\* committed at that index, and no index was ever committed with two entries.
StateMachineSafety ==
    /\ \A i \in Server : \A k \in 1..lastApplied[i] :
         \E c \in committed : c.index = k /\ c.entry = log[i][k]
    /\ \A c, d \in committed : c.index = d.index => c.entry = d.entry

\* The state machine has consumed exactly the applied prefix of the log, each
\* entry once and in order, across truncations and restarts ("applied to it in
\* log order, exactly once, on every server", server.go).
AppliedExactlyOnce ==
    \A i \in Server : /\ lastApplied[i] <= Len(log[i])
                      /\ sm[i] = consumed(log[i], 0, lastApplied[i])

\* The applied marker never covers an entry that was not committed: the replay
\* in Restore, which trusts it, applies committed entries only.  Nor does it
\* reach past the log on disk, although the two are separate files.  The comment
\* at persist.go:301 expects that it does, after a truncation of applied
\* entries: no handler truncates those, so the clamp of Restore waits for a
\* state file that was damaged or removed.
RestartReplaysCommitted ==
    \A i \in Server :
        /\ appliedMark[i] <= Len(disk[i].log)
        /\ \A k \in 1..appliedMark[i] :
             \E c \in committed : c.index = k /\ c.entry = disk[i].log[k]

\* What a leader counts as replicated is on the disk of that peer, for as long
\* as the peer has not moved on to a newer term.
AckedEntriesDurable ==
    \A i, j \in Server :
        role[i] = Leader /\ disk[j].term = currentTerm[i]
            => /\ matchIndex[i][j] <= Len(disk[j].log)
               /\ SubSeq(disk[j].log, 1, matchIndex[i][j])
                    = SubSeq(log[i], 1, matchIndex[i][j])

\* Over every vote, save, crash and restart a durable term never decreases, and
\* a durable vote is not withdrawn or changed within its term.
DurableVoteStands ==
    [][\A i \in Server :
         \/ disk'[i].term > disk[i].term
         \/ /\ disk'[i].term = disk[i].term
            /\ disk[i].vote \in {Nil, disk'[i].vote}]_vars

\* A running server never takes back a commitment: only a restart may lower
\* commitIndex or lastApplied.
CommitMonotonic ==
    [][\A i \in Server :
         stopped[i] \/ /\ commitIndex'[i] >= commitIndex[i]
                       /\ lastApplied'[i] >= lastApplied[i]]_vars

\* A leader only appends: no handler truncates or rewrites the log of a server
\* while it stays leader of a term.
LeaderAppendOnly ==
    [][\A i \in Server :
         role[i] = Leader /\ role'[i] = Leader
             => /\ Len(log'[i]) >= Len(log[i])
                /\ SubSeq(log'[i], 1, Len(log[i])) = log[i]]_vars
=============================================================================
