------------------------------ MODULE Snapshot ------------------------------
(***************************************************************************)
(* Log compaction and snapshot transfer (raft/snapshot.go), and recovery   *)
(* from the three files a node keeps (package storage): the state file     *)
(* with term, vote and log, the snapshot file, and the applied marker.     *)
(*                                                                         *)
(* A group of three servers is seen from two of them.  L leads; F is a     *)
(* follower that has fallen behind and may hold entries of an older term.  *)
(* The third server is the environment: it acknowledges what L appends, so *)
(* L commits without F, and it or a fourth candidate asks for votes in     *)
(* higher terms.  How leaders are elected is module Raft's subject.        *)
(*                                                                         *)
(* Everything a handler does under Server.mu is one action.  MaybeCompact  *)
(* releases the lock while it writes the snapshot file, so it is three.    *)
(* A crash keeps the files and nothing else, and Restore runs before the   *)
(* node answers again.                                                     *)
(*                                                                         *)
(* An entry is its index and term, which identify its command.  log[1] is  *)
(* the sentinel: index 0, or the snapshot boundary after compaction.       *)
(***************************************************************************)
EXTENDS Integers, Sequences, FiniteSets, FiniteSetsExt

CONSTANTS
    L, F,           \* the leader and the lagging follower
    Campaigns,      \* <<candidate, term>>: the elections F is asked to vote in
    Nil,            \* a nil votedFor, snapshot or compaction
    Threshold,      \* MaybeCompact's threshold
    MaxIndex,       \* bound: length of the leader's log
    MaxMsgs,        \* bound: messages in the network at once
    MaxCrashes      \* bound: number of crashes

ASSUME NodesDiffer == L # F
ASSUME BoundsAreNaturals ==
    {Threshold, MaxIndex, MaxMsgs, MaxCrashes} \subseteq Nat

VARIABLES
    mem,        \* each node's raft.Server
    peer,       \* the leader's [nextIndex, matchIndex] for F
    compacting, \* MaybeCompact between its locked sections
    stateFile,  \* what the last Save made durable
    snapFile,   \* what the last SaveSnapshot made durable
    markFile,   \* what the last SaveApplied made durable
    msgs,       \* requests and replies between L and F
    crashes,
    committed,  \* history: the entries the group committed
    ballots     \* history: the campaigns F voted for

vars == <<mem, peer, compacting, stateFile, snapFile, markFile, msgs, crashes,
          committed, ballots>>
files == <<stateFile, snapFile, markFile>>

Node == {L, F}
LeaderTerm == 2         \* L was elected in term 2, F last heard of term 1
Term == {1, LeaderTerm} \cup {v[2] : v \in Campaigns}
Entry == [index : 0..MaxIndex, term : Term \cup {0}]
SnapshotState == [index : 1..MaxIndex, term : Term, data : Seq(Entry)]

-----------------------------------------------------------------------------
(* log.go with a compacted prefix *)

baseIndex(lg) == lg[1].index

lastIndex(lg) == lg[Len(lg)].index

slot(lg, i) == i - baseIndex(lg) + 1

hasEntry(lg, i) == i \in baseIndex(lg)..lastIndex(lg)

termAt(lg, i) == lg[slot(lg, i)].term

\* An index below the boundary is committed and cannot conflict.
matchesPrevLog(lg, prev, term) ==
    \/ prev < baseIndex(lg)
    \/ hasEntry(lg, prev) /\ termAt(lg, prev) = term

\* Entries covered by the snapshot or already present are left alone; the first
\* one missing or conflicting truncates the log, and it and the rest follow.
appendFrom(lg, prev, entries) ==
    LET fresh == {k \in DOMAIN entries :
                    /\ prev + k > baseIndex(lg)
                    /\ ~ (/\ hasEntry(lg, prev + k)
                          /\ termAt(lg, prev + k) = entries[k].term)}
    IN  IF fresh = {} THEN lg
        ELSE SubSeq(lg, 1, slot(lg, prev + Min(fresh)) - 1)
               \o SubSeq(entries, Min(fresh), Len(entries))

discardThrough(lg, i, term) ==
    <<[index |-> i, term |-> term]>> \o SubSeq(lg, slot(lg, i) + 1, Len(lg))

\* The log once a snapshot through entry i replaces its prefix: the entries
\* after i stay only if entry i itself is the one the snapshot ends with.
rebase(lg, i, term) ==
    IF hasEntry(lg, i) /\ termAt(lg, i) = term
    THEN discardThrough(lg, i, term)
    ELSE <<[index |-> i, term |-> term]>>

-----------------------------------------------------------------------------
(* Pieces of the handlers *)

\* applyCommitted: node state m with commitIndex set to c.  lastApplied stops
\* where the log has no next entry.
applyCommitted(m, c) ==
    LET top == IF hasEntry(m.log, m.lastApplied + 1)
               THEN Max({m.lastApplied, Min({c, lastIndex(m.log)})})
               ELSE m.lastApplied
    IN  [m EXCEPT !.commitIndex = c,
                  !.lastApplied = top,
                  !.sm = @ \o SubSeq(m.log, slot(m.log, m.lastApplied + 1),
                                     slot(m.log, top))]

\* persistLocked: what the state file holds of node state m.
encodeState(m) ==
    [currentTerm |-> m.currentTerm, votedFor |-> m.votedFor, log |-> m.log]

becomeFollower(m, term) ==
    IF term > m.currentTerm
    THEN [m EXCEPT !.role = "Follower", !.currentTerm = term, !.votedFor = Nil]
    ELSE [m EXCEPT !.role = "Follower"]

\* Variant of Restore: the log is replayed from the marker over the snapshot
\* without regard to where the snapshot ends.
RestoreReplaysAll(state, snap, mark) ==
    LET top == Min({Max({mark, baseIndex(state.log)}), lastIndex(state.log)})
    IN  [currentTerm |-> state.currentTerm, votedFor |-> state.votedFor,
         role |-> "Follower", log |-> state.log,
         commitIndex |-> top, lastApplied |-> top,
         sm |-> (IF snap = Nil THEN <<>> ELSE snap.data)
                  \o SubSeq(state.log, 2, slot(state.log, top)),
         snapshot |-> snap]

\* The node Restore builds from the three files: the snapshot first, then the
\* log after its boundary up to the applied marker, clamped to the log.
Restore(state, snap, mark) ==
    LET at == IF snap = Nil THEN 0 ELSE snap.index
        lg == IF baseIndex(state.log) < at
              THEN rebase(state.log, at, snap.term) ELSE state.log
        top == Min({Max({mark, baseIndex(lg)}), lastIndex(lg)})
    IN  [currentTerm |-> state.currentTerm, votedFor |-> state.votedFor,
         role |-> "Follower", log |-> lg,
         commitIndex |-> Max({at, top}), lastApplied |-> Max({at, top}),
         sm |-> (IF snap = Nil THEN <<>> ELSE snap.data)
                  \o SubSeq(lg, 2, slot(lg, top)),
         snapshot |-> snap]

Send(m) ==
    /\ Cardinality(msgs \cup {m}) <= MaxMsgs
    /\ msgs' = msgs \cup {m}

\* The reply enters the network and the request leaves it, unless the network
\* duplicated it.
Answer(request, reply) ==
    \/ msgs' = (msgs \ {request}) \cup {reply}
    \/ Send(reply)

-----------------------------------------------------------------------------
(* Initial state: L has just been elected, nothing is applied anywhere, and *)
(* each of the two may hold entries a leader of term 1 never committed.     *)

Sentinel == [index |-> 0, term |-> 0]

\* A log with the first n entries of term 1's leader.
OldLog(n) == <<Sentinel>> \o [i \in 1..n |-> [index |-> i, term |-> 1]]

Fresh(term, vote, role, lg) ==
    [currentTerm |-> term, votedFor |-> vote, role |-> role, log |-> lg,
     commitIndex |-> 0, lastApplied |-> 0, sm |-> <<>>, snapshot |-> Nil]

Init ==
    /\ \E l \in 0..1, f \in {0, 2} :
          /\ mem = [n \in Node |->
                      IF n = L THEN Fresh(LeaderTerm, L, "Leader", OldLog(l))
                      ELSE Fresh(1, Nil, "Follower", OldLog(f))]
          /\ peer = [nextIndex |-> l + 1, matchIndex |-> 0]
    /\ compacting = [n \in Node |-> Nil]
    /\ stateFile = [n \in Node |-> encodeState(mem[n])]
    /\ snapFile = [n \in Node |-> Nil]
    /\ markFile = [n \in Node |-> 0]
    /\ msgs = {}
    /\ crashes = 0
    /\ committed = <<>>
    /\ ballots = {}

-----------------------------------------------------------------------------
(* The leader *)

leads == mem[L].role = "Leader"

\* Node n's locked section ends with state m: state file saved when dirty, and
\* applied marker saved when entries were applied.
Becomes(n, m, dirty, applied) ==
    /\ mem' = [mem EXCEPT ![n] = m]
    /\ stateFile' = IF dirty THEN [stateFile EXCEPT ![n] = encodeState(m)]
                    ELSE stateFile
    /\ markFile' = IF applied /\ m.lastApplied > 0
                   THEN [markFile EXCEPT ![n] = m.lastApplied] ELSE markFile

\* advanceCommitIndexLocked, once entries through n are on a majority: the own
\* term's entries among them commit, and everything before them.
advanceCommitIndex(m, n) ==
    LET own == {i \in (m.commitIndex + 1)..n :
                  hasEntry(m.log, i) /\ termAt(m.log, i) = m.currentTerm}
    IN  IF own = {} THEN m ELSE applyCommitted(m, Max(own))

\* The history grows by what the leader, ending in state m, newly committed.
Record(m) ==
    committed' = committed \o
        SubSeq(m.log, slot(m.log, Len(committed) + 1), slot(m.log, m.commitIndex))

Submit ==
    /\ leads
    /\ lastIndex(mem[L].log) < MaxIndex
    /\ LET e == [index |-> lastIndex(mem[L].log) + 1,
                 term |-> mem[L].currentTerm]
       IN  Becomes(L, [mem[L] EXCEPT !.log = Append(@, e)], TRUE, FALSE)
    /\ UNCHANGED <<peer, compacting, snapFile, msgs, crashes, committed, ballots>>

\* The third server acknowledges the leader's log through entry i.
ThirdServerAcks(i) ==
    /\ leads
    /\ LET m == advanceCommitIndex(mem[L], i)
       IN  /\ m.commitIndex > mem[L].commitIndex
           /\ Becomes(L, m, FALSE, TRUE)
           /\ Record(m)
    /\ UNCHANGED <<peer, compacting, snapFile, msgs, crashes, ballots>>

\* replicateTo(F): the entries from nextIndex on, or the snapshot when the next
\* entry is gone.
replicateTo ==
    /\ leads
    /\ LET m == mem[L]
           next == peer.nextIndex
       IN  IF next <= baseIndex(m.log)
           THEN Send([type |-> "InstallSnapshot", term |-> m.currentTerm,
                      snapshot |-> m.snapshot])
           ELSE Send([type |-> "AppendEntries", term |-> m.currentTerm,
                      prev |-> next - 1, prevTerm |-> termAt(m.log, next - 1),
                      entries |-> SubSeq(m.log, slot(m.log, next), Len(m.log)),
                      commit |-> m.commitIndex])
    /\ UNCHANGED <<mem, peer, compacting, files, crashes, committed, ballots>>

\* A reply with a higher term deposes the leader, whatever was asked.
StepDown(r) ==
    /\ r \in msgs
    /\ r.type \in {"AppendReply", "SnapshotReply"}
    /\ r.term > mem[L].currentTerm
    /\ Becomes(L, becomeFollower(mem[L], r.term), TRUE, FALSE)
    /\ msgs' = msgs \ {r}
    /\ UNCHANGED <<peer, compacting, snapFile, crashes, committed, ballots>>

\* The reply is taken: the leader's view of F becomes p, and what F and the
\* leader both hold may commit.
TakeReply(r, p) ==
    /\ r \in msgs
    /\ r.term <= mem[L].currentTerm
    /\ msgs' = msgs \ {r}
    /\ IF leads
       THEN LET m == advanceCommitIndex(mem[L], p.matchIndex)
            IN  /\ peer' = p
                /\ Becomes(L, m, FALSE, m # mem[L])
                /\ Record(m)
       ELSE UNCHANGED <<peer, mem, stateFile, markFile, committed>>
    /\ UNCHANGED <<compacting, snapFile, crashes, ballots>>

handleAppendReply(r) ==
    /\ r.type = "AppendReply"
    /\ TakeReply(r,
         IF ~ r.success
         THEN [peer EXCEPT !.nextIndex = IF @ > 1 THEN @ - 1 ELSE @]
         ELSE IF r.match > peer.matchIndex
         THEN [nextIndex |-> r.match + 1, matchIndex |-> r.match]
         ELSE peer)

\* sendSnapshotTo after the call: replication resumes after the snapshot.  The
\* reply does not say whether the follower installed it.
handleSnapshotReply(r) ==
    /\ r.type = "SnapshotReply"
    /\ TakeReply(r, [nextIndex |-> Max({peer.nextIndex, r.index + 1}),
                     matchIndex |-> Max({peer.matchIndex, r.index})])

-----------------------------------------------------------------------------
(* The follower *)

AppendReply(a, m, ok) ==
    Answer(a, [type |-> "AppendReply", term |-> m.currentTerm, success |-> ok,
               match |-> a.prev + Len(a.entries)])

AppendEntriesRefused(a) ==
    /\ a \in msgs /\ a.type = "AppendEntries"
    /\ a.term < mem[F].currentTerm
    /\ AppendReply(a, mem[F], FALSE)
    /\ UNCHANGED <<mem, peer, compacting, files, crashes, committed, ballots>>

AppendEntriesHandled(a) ==
    /\ a \in msgs /\ a.type = "AppendEntries"
    /\ a.term >= mem[F].currentTerm
    /\ LET heard == becomeFollower(mem[F], a.term)
           newTerm == a.term > mem[F].currentTerm
           lg == appendFrom(heard.log, a.prev, a.entries)
           stored == [heard EXCEPT !.log = lg]
           c == Min({a.commit, a.prev + Len(a.entries)})
       IN  IF ~ matchesPrevLog(heard.log, a.prev, a.prevTerm)
           THEN /\ Becomes(F, heard, newTerm, FALSE)
                /\ AppendReply(a, heard, FALSE)
           ELSE /\ IF a.commit > heard.commitIndex
                   THEN Becomes(F, applyCommitted(stored, c),
                                newTerm \/ lg # heard.log, TRUE)
                   ELSE Becomes(F, stored, newTerm \/ lg # heard.log, FALSE)
                /\ AppendReply(a, heard, TRUE)
    /\ UNCHANGED <<peer, compacting, snapFile, crashes, committed, ballots>>

SnapshotReply(a, m) ==
    Answer(a, [type |-> "SnapshotReply", term |-> m.currentTerm,
               index |-> a.snapshot.index])

\* The sender is behind: nothing changes.
InstallSnapshotRefused(a) ==
    /\ a \in msgs /\ a.type = "InstallSnapshot"
    /\ a.term < mem[F].currentTerm
    /\ SnapshotReply(a, mem[F])
    /\ UNCHANGED <<mem, peer, compacting, files, crashes, committed, ballots>>

\* The node state once the sender's term is taken.  Neither this nor an early
\* return saves it.
heardSnapshot(a) ==
    IF a.term > mem[F].currentTerm
    THEN becomeFollower(mem[F], a.term) ELSE mem[F]

\* Is MaybeCompact on node n about to write the snapshot file?
saving(n) == compacting[n] # Nil /\ ~ compacting[n].saved

covers(m, snap) == snap.index <= baseIndex(m.log) \/ snap.index <= m.lastApplied

InstallSnapshotCovered(a) ==
    /\ a \in msgs /\ a.type = "InstallSnapshot"
    /\ a.term >= mem[F].currentTerm
    /\ covers(mem[F], a.snapshot)
    /\ Becomes(F, heardSnapshot(a), FALSE, FALSE)
    /\ SnapshotReply(a, heardSnapshot(a))
    /\ UNCHANGED <<peer, compacting, snapFile, crashes, committed, ballots>>

installs(a) ==
    /\ a \in msgs /\ a.type = "InstallSnapshot"
    /\ a.term >= mem[F].currentTerm
    /\ ~ covers(mem[F], a.snapshot)

\* State machine, log and markers move to the snapshot's end.
installed(a) ==
    LET snap == a.snapshot
    IN  [heardSnapshot(a) EXCEPT
           !.sm = snap.data,
           !.log = rebase(@, snap.index, snap.term),
           !.lastApplied = snap.index,
           !.commitIndex = Max({@, snap.index}),
           !.snapshot = snap]

\* Variant of InstallSnapshotHandled: the snapshot is installed and not saved.
InstallSnapshotUnsaved(a) ==
    /\ installs(a)
    /\ Becomes(F, installed(a), TRUE, FALSE)
    /\ SnapshotReply(a, installed(a))
    /\ UNCHANGED <<peer, compacting, snapFile, crashes, committed, ballots>>

\* The snapshot file is written, then the state file.  The applied marker is
\* not.
InstallSnapshotHandled(a) ==
    /\ installs(a)
    /\ Becomes(F, installed(a), TRUE, FALSE)
    /\ snapFile' = [snapFile EXCEPT ![F] = a.snapshot]
    /\ SnapshotReply(a, installed(a))
    /\ UNCHANGED <<peer, compacting, crashes, committed, ballots>>

\* F dies in InstallSnapshot between its two writes.
CrashInInstall(a) ==
    /\ installs(a)
    /\ crashes < MaxCrashes
    /\ crashes' = crashes + 1
    /\ mem' = [mem EXCEPT ![F] = Restore(stateFile[F], a.snapshot, markFile[F])]
    /\ snapFile' = [snapFile EXCEPT ![F] = a.snapshot]
    /\ msgs' = msgs \ {a}
    /\ compacting' = [compacting EXCEPT ![F] = Nil]
    /\ UNCHANGED <<peer, stateFile, markFile, committed, ballots>>

-----------------------------------------------------------------------------
(* MaybeCompact *)

\* Under the lock: picture the state machine at lastApplied.
CompactBegin(n) ==
    LET m == mem[n]
    IN  /\ compacting[n] = Nil
        /\ m.lastApplied > baseIndex(m.log)
        /\ Len(m.log) - 1 >= Threshold
        /\ hasEntry(m.log, m.lastApplied)
        /\ compacting' = [compacting EXCEPT ![n] =
               [index |-> m.lastApplied, term |-> termAt(m.log, m.lastApplied),
                data |-> m.sm, saved |-> FALSE]]
        /\ UNCHANGED <<mem, peer, files, msgs, crashes, committed, ballots>>

taken(n) == [index |-> compacting[n].index, term |-> compacting[n].term,
             data |-> compacting[n].data]

\* Variant of CompactSave: the log is truncated before the snapshot is written.
CompactSaveLate(n) ==
    /\ saving(n)
    /\ compacting' = [compacting EXCEPT ![n].saved = TRUE]
    /\ UNCHANGED <<mem, peer, files, msgs, crashes, committed, ballots>>

\* Without the lock: the snapshot file is replaced.
CompactSave(n) ==
    /\ saving(n)
    /\ snapFile' = [snapFile EXCEPT ![n] = taken(n)]
    /\ compacting' = [compacting EXCEPT ![n].saved = TRUE]
    /\ UNCHANGED <<mem, peer, stateFile, markFile, msgs, crashes, committed,
                   ballots>>

\* Under the lock again: unless the log moved on, its prefix goes.
CompactFinish(n) ==
    LET lg == mem[n].log
        snap == taken(n)
    IN  /\ compacting[n] # Nil /\ compacting[n].saved
        /\ compacting' = [compacting EXCEPT ![n] = Nil]
        /\ IF /\ snap.index > baseIndex(lg)
              /\ hasEntry(lg, snap.index)
              /\ termAt(lg, snap.index) = snap.term
           THEN Becomes(n, [mem[n] EXCEPT
                              !.log = discardThrough(lg, snap.index, snap.term),
                              !.snapshot = snap], TRUE, FALSE)
           ELSE UNCHANGED <<mem, stateFile, markFile>>
        /\ UNCHANGED <<peer, snapFile, msgs, crashes, committed, ballots>>

-----------------------------------------------------------------------------
(* The environment *)

\* Variant of RequestVote: a vote is saved only along with a new term.
RequestVoteSavesTerm(c, t) ==
    /\ t >= mem[F].currentTerm
    /\ LET newTerm == t > mem[F].currentTerm
           heard == IF newTerm THEN becomeFollower(mem[F], t) ELSE mem[F]
       IN  \/ /\ heard.votedFor \in {Nil, c}
              /\ Becomes(F, [heard EXCEPT !.votedFor = c], newTerm, FALSE)
              /\ ballots' = ballots \cup {<<c, t>>}
           \/ /\ newTerm
              /\ Becomes(F, heard, TRUE, FALSE)
              /\ UNCHANGED ballots
    /\ UNCHANGED <<peer, compacting, snapFile, msgs, crashes, committed>>

\* A candidate asks F for its vote.  Whether the candidate's log is up to date
\* depends on a log outside the model, so the vote is granted or not.
RequestVote(c, t) ==
    /\ t >= mem[F].currentTerm
    /\ LET heard == IF t > mem[F].currentTerm THEN becomeFollower(mem[F], t)
                    ELSE mem[F]
       IN  \/ /\ heard.votedFor \in {Nil, c}
              /\ Becomes(F, [heard EXCEPT !.votedFor = c], TRUE, FALSE)
              /\ ballots' = ballots \cup {<<c, t>>}
           \/ /\ t > mem[F].currentTerm
              /\ Becomes(F, heard, TRUE, FALSE)
              /\ UNCHANGED ballots
    /\ UNCHANGED <<peer, compacting, snapFile, msgs, crashes, committed>>

\* The process dies at any point and comes back from its files.
Crash(n) ==
    /\ crashes < MaxCrashes
    /\ crashes' = crashes + 1
    /\ mem' = [mem EXCEPT ![n] = Restore(stateFile[n], snapFile[n], markFile[n])]
    /\ compacting' = [compacting EXCEPT ![n] = Nil]
    /\ UNCHANGED <<peer, files, msgs, committed, ballots>>

Lose(m) ==
    /\ msgs' = msgs \ {m}
    /\ UNCHANGED <<mem, peer, compacting, files, crashes, committed, ballots>>

Deliver(m) ==
    \/ StepDown(m) \/ handleAppendReply(m) \/ handleSnapshotReply(m)
    \/ AppendEntriesRefused(m) \/ AppendEntriesHandled(m)
    \/ InstallSnapshotRefused(m) \/ InstallSnapshotCovered(m)
    \/ InstallSnapshotHandled(m)

Next ==
    \/ Submit
    \/ \E i \in 1..MaxIndex : ThirdServerAcks(i)
    \/ replicateTo
    \/ \E m \in msgs : Deliver(m) \/ Lose(m) \/ CrashInInstall(m)
    \/ \E n \in Node :
          CompactBegin(n) \/ CompactSave(n) \/ CompactFinish(n) \/ Crash(n)
    \/ \E v \in Campaigns : RequestVote(v[1], v[2])

Spec == Init /\ [][Next]_vars

\* Heartbeats keep calling replicateTo, a message sent again and again is
\* delivered at last, and the compaction goroutine runs.
Fairness ==
    /\ WF_vars(replicateTo)
    /\ SF_vars(\E m \in msgs : StepDown(m) \/ handleAppendReply(m)
                                \/ handleSnapshotReply(m))
    /\ SF_vars(\E m \in msgs : AppendEntriesRefused(m) \/ AppendEntriesHandled(m))
    /\ SF_vars(\E m \in msgs : \/ InstallSnapshotRefused(m)
                               \/ InstallSnapshotCovered(m)
                               \/ InstallSnapshotHandled(m))
    /\ \A n \in Node : WF_vars(CompactSave(n)) /\ WF_vars(CompactFinish(n))

FairSpec == Spec /\ Fairness

-----------------------------------------------------------------------------
(* Properties *)

TypeOK ==
    /\ mem \in [Node -> [currentTerm : Term,
                         votedFor : {v[1] : v \in Campaigns} \cup {L, Nil},
                         role : {"Leader", "Follower"}, log : Seq(Entry),
                         commitIndex : 0..MaxIndex, lastApplied : 0..MaxIndex,
                         sm : Seq(Entry), snapshot : SnapshotState \cup {Nil}]]
    /\ peer \in [nextIndex : 1..MaxIndex + 1, matchIndex : 0..MaxIndex]
    /\ \A n \in Node : compacting[n] = Nil \/ taken(n) \in SnapshotState
    /\ snapFile \in [Node -> SnapshotState \cup {Nil}]
    /\ markFile \in [Node -> 0..MaxIndex]
    /\ crashes \in 0..MaxCrashes
    /\ Cardinality(msgs) <= MaxMsgs

\* A state machine holds exactly the committed entries through lastApplied, each
\* once and in order: compaction, installing a snapshot and restarting from the
\* files lose none and repeat none.
StateMachineIsPrefix ==
    \A n \in Node : mem[n].sm = SubSeq(committed, 1, mem[n].lastApplied)

\* What the files of node n hold of entry i: in the snapshot, or in the log
\* after it.
onDisk(n, e) ==
    LET m == Restore(stateFile[n], snapFile[n], markFile[n])
    IN  e \in {m.sm[i] : i \in DOMAIN m.sm} \cup {m.log[i] : i \in DOMAIN m.log}

\* Every entry the leader counts F as holding is recoverable from F's files,
\* at every moment F could crash.
AckedSurvivesCrash ==
    \A i \in 1..Len(committed) : i <= peer.matchIndex => onDisk(F, committed[i])

\* Any node's files hold every entry it has applied: a crash at any point costs
\* replay, never an entry.
AppliedSurvivesCrash ==
    \A n \in Node : \A i \in DOMAIN mem[n].sm : onDisk(n, mem[n].sm[i])

\* F never votes for two candidates in one term, although InstallSnapshot takes a
\* new term without saving it and a crash takes that term back.
OneVotePerTerm ==
    \A b1, b2 \in ballots : b1[2] = b2[2] => b1[1] = b2[1]

\* A compacted log always comes with the snapshot of exactly what it lost, so
\* replicateTo always has something to send.
SnapshotCoversBase ==
    \A n \in Node :
        baseIndex(mem[n].log) > 0 =>
            /\ mem[n].snapshot # Nil
            /\ mem[n].snapshot.index = baseIndex(mem[n].log)

\* While the leader stays, the follower ends up having applied everything the
\* leader has committed, through snapshots or entries.
FollowerCatchesUp ==
    <>[]leads => <>[](mem[F].lastApplied >= mem[L].commitIndex)
=============================================================================
