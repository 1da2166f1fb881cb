----------------------------- MODULE Membership -----------------------------
(***************************************************************************)
(* Single-server membership changes (raft/membership.go), the replica      *)
(* moves built on them (sim/rereplicate.go, rpc/admin.go) and linearizable *)
(* reads (raft/read.go).                                                   *)
(*                                                                         *)
(* Elections and replication are those of module Raft with three           *)
(* simplifications: a call and its handling are one step, though its reply *)
(* may be lost; a leader finds the point where a follower's log agrees     *)
(* with its own without stepping nextIndex back; and what is appended is   *)
(* durable, so a crash and restart is a pause.  Entries are no-ops and     *)
(* configurations: ordinary commands would add nothing to tell apart.      *)
(***************************************************************************)
EXTENDS Naturals, Sequences, FiniteSets, FiniteSetsExt

CONSTANTS
    Server,
    Initial,           \* the configuration every first member starts with
    Nil,
    MaxTerm, MaxLog,   \* bounds
    MaxChanges         \* bound: configuration changes proposed

VARIABLES
    currentTerm, votedFor, role, log, commitIndex,
    peers,             \* the configuration each server operates under
    configChangeIndex, \* the newest configuration entry each has seen
    removed,           \* removedFromCluster
    votes,             \* counted by a candidate
    matchIndex,        \* a leader's map, by peer: entries come and go
    up,                \* the servers that run
    read,              \* a linearizable read under way, or Nil
    changes,
    elected,           \* history: <<term, server>> promoted
    committed          \* history: what leaders committed

serverVars == <<currentTerm, votedFor, role>>
configVars == <<peers, configChangeIndex>>
commitVars == <<commitIndex, removed, committed>>
vars == <<serverVars, configVars, commitVars, log, votes, matchIndex, up, read,
          changes, elected>>

NoOp == Nil
isConfigEntry(e) == e.cfg # NoOp

-----------------------------------------------------------------------------
(* Configuration *)

Majority(c) == Cardinality(c) \div 2 + 1

differsByOne(c, d) ==
    \/ c \subseteq d /\ Cardinality(d \ c) = 1
    \/ d \subseteq c /\ Cardinality(c \ d) = 1

configIndexes(lg) == {k \in DOMAIN lg : isConfigEntry(lg[k])}

-----------------------------------------------------------------------------
(* Log helpers *)

termAt(lg, k) == IF k \in DOMAIN lg THEN lg[k].term ELSE 0

isUpToDate(lg, cand) ==
    LET mine == termAt(lg, Len(lg))
        its  == termAt(cand, Len(cand))
    IN  its > mine \/ (its = mine /\ Len(cand) >= Len(lg))

\* The last index up to which two logs agree.
agreement(lg, other) ==
    Max({0} \cup {k \in DOMAIN lg \cap DOMAIN other : lg[k].term = other[k].term})

\* appendFrom after the consistency check found where the logs agree: a
\* conflicting tail goes, a longer log that agrees stays.
appendFrom(lg, sent) ==
    IF agreement(lg, sent) = Len(sent) THEN lg ELSE sent

-----------------------------------------------------------------------------

\* A cluster at work: a leader was elected in term 1 and its no-op is everywhere.
Init ==
    \E lead \in Initial :
        LET noop == [term |-> 1, cfg |-> NoOp]
        IN  /\ currentTerm = [i \in Server |-> IF i \in Initial THEN 1 ELSE 0]
            /\ votedFor = [i \in Server |-> IF i \in Initial THEN lead ELSE Nil]
            /\ role = [i \in Server |-> IF i = lead THEN "Leader" ELSE "Follower"]
            /\ log = [i \in Server |-> IF i \in Initial THEN <<noop>> ELSE <<>>]
            /\ commitIndex = [i \in Server |-> IF i \in Initial THEN 1 ELSE 0]
            /\ peers = [i \in Server |-> IF i \in Initial THEN Initial ELSE {}]
            /\ configChangeIndex = [i \in Server |-> 0]
            /\ removed = [i \in Server |-> FALSE]
            /\ votes = [i \in Server |-> {}]
            /\ matchIndex = [i \in Server |->
                               [p \in IF i = lead THEN Initial ELSE {} |-> 1]]
            /\ up = Initial
            /\ read = Nil
            /\ changes = 0
            /\ elected = {<<1, lead>>}
            /\ committed = {[term |-> 1, index |-> 1, entry |-> noop]}

\* becomeFollower in term t, for a reply from a newer term.
stepDown(i, t) ==
    /\ currentTerm' = [currentTerm EXCEPT ![i] = t]
    /\ votedFor' = [votedFor EXCEPT ![i] = Nil]
    /\ role' = [role EXCEPT ![i] = "Follower"]
    /\ votes' = [votes EXCEPT ![i] = {}]

\* What a call with a term not older than its own makes of server j: vote is
\* the vote it then has, Nil for the one it had.
observeTerm(j, t, vote) ==
    /\ currentTerm' = [currentTerm EXCEPT ![j] = t]
    /\ votedFor' = [votedFor EXCEPT ![j] =
                      IF vote # Nil THEN vote
                      ELSE IF t > currentTerm[j] THEN Nil ELSE @]

\* Variant of leaves: a leader stays until it is told.
neverLeaves(i, c, ci, n) == FALSE

\* checkSelfRemovalLocked: its configuration c, at ci, without it is committed.
leaves(i, c, ci, n) == ~ removed[i] /\ ci # 0 /\ n >= ci /\ i \notin c

\* advanceCommitIndexLocked of leader i over log lg and match map mi; the roles
\* are roles unless it leaves.
advanceCommitIndex(i, lg, mi, roles) ==
    LET c == peers[i]
        ready == {n \in (commitIndex[i] + 1)..Len(lg) :
                    /\ lg[n].term = currentTerm[i]
                    /\ Cardinality({p \in c \cap DOMAIN mi : mi[p] >= n})
                         >= Majority(c)}
        n == Max(ready)
        left == leaves(i, c, configChangeIndex[i], n)
    IN  IF ready = {}
        THEN role' = roles /\ UNCHANGED commitVars
        ELSE /\ commitIndex' = [commitIndex EXCEPT ![i] = n]
             /\ committed' = committed \cup
                  {[term |-> currentTerm[i], index |-> k, entry |-> lg[k]] :
                      k \in (commitIndex[i] + 1)..n}
             /\ removed' = [removed EXCEPT ![i] = @ \/ left]
             /\ role' = [roles EXCEPT ![i] = IF left THEN "Follower" ELSE @]

-----------------------------------------------------------------------------
(* Elections *)

\* startElection looks neither at the configuration nor at removedFromCluster.
startElection(i) ==
    /\ i \in up /\ role[i] # "Leader"
    /\ currentTerm[i] < MaxTerm
    /\ role' = [role EXCEPT ![i] = "Candidate"]
    /\ currentTerm' = [currentTerm EXCEPT ![i] = @ + 1]
    /\ votedFor' = [votedFor EXCEPT ![i] = i]
    /\ votes' = [votes EXCEPT ![i] = {i}]
    /\ UNCHANGED <<configVars, commitVars, log, matchIndex, up, read, changes, elected>>

\* Candidate i asks j and hears the answer.  A vote that is lost is one whose
\* candidate never gets to lead.
RequestVote(i, j) ==
    /\ role[i] = "Candidate" /\ {i, j} \subseteq up
    /\ j \in peers[i] \ votes[i]
    /\ IF currentTerm[j] > currentTerm[i]
       THEN stepDown(i, currentTerm[j])
       ELSE LET newTerm == currentTerm[i] > currentTerm[j]
                grant == /\ newTerm \/ votedFor[j] \in {Nil, i}
                         /\ isUpToDate(log[j], log[i])
            IN  /\ newTerm \/ grant
                /\ observeTerm(j, currentTerm[i], IF grant THEN i ELSE Nil)
                /\ role' = [role EXCEPT ![j] = IF newTerm THEN "Follower" ELSE @]
                /\ votes' = [votes EXCEPT ![i] = IF grant THEN @ \cup {j} ELSE @]
    /\ UNCHANGED <<configVars, commitVars, log, matchIndex, up, read, changes, elected>>

\* The match map is set for the current peers and for itself; entries of
\* servers that left while it followed stay.
becomeLeader(i) ==
    LET lg == Append(log[i], [term |-> currentTerm[i], cfg |-> NoOp])
        mi == [p \in DOMAIN matchIndex[i] \cup peers[i] \cup {i} |->
                 IF p = i THEN Len(lg)
                 ELSE IF p \in peers[i] THEN 0 ELSE matchIndex[i][p]]
    IN  /\ i \in up /\ role[i] = "Candidate"
        /\ Cardinality(votes[i]) >= Majority(peers[i])
        /\ log' = [log EXCEPT ![i] = lg]
        /\ matchIndex' = [matchIndex EXCEPT ![i] = mi]
        /\ elected' = elected \cup {<<currentTerm[i], i>>}
        /\ votes' = [votes EXCEPT ![i] = {}]
        /\ advanceCommitIndex(i, lg, mi, [role EXCEPT ![i] = "Leader"])
        /\ UNCHANGED <<currentTerm, votedFor, configVars, up, read, changes>>

-----------------------------------------------------------------------------
(* Replication *)

\* Variant of adoptConfig: a configuration is adopted when it is committed.
adoptCommitted(j, lg, commit) ==
    LET cs == {k \in configIndexes(lg) : k <= commit}
    IN  IF cs = {} THEN UNCHANGED configVars
        ELSE /\ peers' = [peers EXCEPT ![j] = lg[Max(cs)].cfg]
             /\ configChangeIndex' = [configChangeIndex EXCEPT ![j] = Max(cs)]

\* adoptConfigFromLogLocked after j's log became lg: the newest configuration
\* in it, committed or not; with none left, the one in use stays.
adoptConfig(j, lg, commit) ==
    LET cs == configIndexes(lg)
    IN  IF lg = log[j] \/ cs = {} THEN UNCHANGED configVars
        ELSE /\ peers' = [peers EXCEPT ![j] = lg[Max(cs)].cfg]
             /\ configChangeIndex' = [configChangeIndex EXCEPT ![j] = Max(cs)]

\* Leader i sends its log from where j's agrees with it.
AppendEntries(i, j) ==
    LET lg == appendFrom(log[j], log[i])
        newTerm == currentTerm[i] > currentTerm[j]
        commit == Max({commitIndex[j], commitIndex[i]})
    IN  /\ role[i] = "Leader" /\ {i, j} \subseteq up
        /\ j \in peers[i] \ {i}
        /\ currentTerm[i] >= currentTerm[j]
        /\ observeTerm(j, currentTerm[i], Nil)
        /\ role' = [role EXCEPT ![j] =
                      IF newTerm \/ @ = "Candidate" THEN "Follower" ELSE @]
        /\ log' = [log EXCEPT ![j] = lg]
        /\ adoptConfig(j, lg, commit)
        /\ commitIndex' = [commitIndex EXCEPT ![j] = commit]
        /\ UNCHANGED <<removed, committed, votes, matchIndex, up, read, changes, elected>>

\* Leader i hears from j, in the same term, how far its log agrees.
handleAppendReply(i, j) ==
    LET m == agreement(log[j], log[i])
        mi == [matchIndex[i] EXCEPT ![j] = m]
    IN  /\ role[i] = "Leader" /\ {i, j} \subseteq up
        /\ j \in peers[i] \ {i}
        /\ currentTerm[i] = currentTerm[j]
        /\ m > matchIndex[i][j]
        /\ matchIndex' = [matchIndex EXCEPT ![i] = mi]
        /\ advanceCommitIndex(i, log[i], mi, role)
        /\ UNCHANGED <<currentTerm, votedFor, configVars, log, votes, up, read, changes,
                       elected>>

\* Leader i hears of a newer term from a peer.
handleNewerTerm(i, j) ==
    /\ role[i] = "Leader" /\ {i, j} \subseteq up
    /\ j \in peers[i]
    /\ currentTerm[j] > currentTerm[i]
    /\ stepDown(i, currentTerm[j])
    /\ UNCHANGED <<configVars, commitVars, log, matchIndex, up, read, changes,
                   elected>>

-----------------------------------------------------------------------------
(* Configuration changes *)

changeInFlight(i) == configChangeIndex[i] > commitIndex[i]

\* useConfigurationLocked of a leader: its map covers the new members, keeping
\* what it has, and nobody else, and it matches its own log.
matchFor(i, c, last) ==
    [p \in c \cup {i} |-> IF p = i THEN last
                          ELSE IF p \in DOMAIN matchIndex[i] THEN matchIndex[i][p]
                          ELSE 0]

\* changeConfiguration to c: in use as soon as it is appended.  A server that
\* joins starts empty, whatever it was before.
changeConfiguration(i, c) ==
    LET lg == Append(log[i], [term |-> currentTerm[i], cfg |-> c])
        new == c \ peers[i]
    IN  /\ i \in up /\ role[i] = "Leader"
        /\ i \in peers[i]
        /\ ~ changeInFlight(i)
        /\ differsByOne(peers[i], c)
        /\ Len(lg) <= MaxLog /\ changes < MaxChanges
        /\ changes' = changes + 1
        /\ matchIndex' = [k \in Server |->
                            IF k = i THEN matchFor(i, c, Len(lg))
                            ELSE IF k \in new THEN [p \in {} |-> 0] ELSE matchIndex[k]]
        /\ log' = [k \in Server |-> IF k = i THEN lg
                                    ELSE IF k \in new THEN <<>> ELSE log[k]]
        /\ configChangeIndex' = [k \in Server |->
                                   IF k = i THEN Len(lg)
                                   ELSE IF k \in new THEN 0 ELSE configChangeIndex[k]]
        /\ UNCHANGED <<votes, read, elected, committed>>

\* AddReplica: an empty replica is started, with the present members and itself
\* for its peers, and proposed.
AddServer(i, x) ==
    /\ x \notin peers[i] \cup up
    /\ changeConfiguration(i, peers[i] \cup {x})
    /\ up' = up \cup {x}
    /\ peers' = [peers EXCEPT ![i] = @ \cup {x}, ![x] = peers[i] \cup {x}]
    /\ currentTerm' = [currentTerm EXCEPT ![x] = 0]
    /\ votedFor' = [votedFor EXCEPT ![x] = Nil]
    /\ role' = [role EXCEPT ![x] = "Follower"]
    /\ commitIndex' = [commitIndex EXCEPT ![x] = 0]
    /\ removed' = [removed EXCEPT ![x] = FALSE]

RemoveServer(i, x) ==
    /\ x \in peers[i] /\ peers[i] # {x}
    /\ changeConfiguration(i, peers[i] \ {x})
    /\ peers' = [peers EXCEPT ![i] = @ \ {x}]
    /\ UNCHANGED <<serverVars, commitIndex, removed, up>>

\* RemoveReplica stops the replica once the leader applied its removal.
Retire(i, x) ==
    /\ {i, x} \subseteq up
    /\ x \notin peers[i] /\ configChangeIndex[i] # 0 /\ ~ changeInFlight(i)
    /\ up' = up \ {x}
    /\ UNCHANGED <<serverVars, configVars, commitVars, log, votes, matchIndex, read,
                   changes, elected>>

-----------------------------------------------------------------------------
(* Linearizable reads *)

\* Has leader i committed an entry of its term?
committedInTerm(i) == termAt(log[i], commitIndex[i]) = currentTerm[i]

\* The newest index that any leader has committed so far.
everCommitted == Max({0} \cup {c.index : c \in committed})

\* ReadIndex takes the commit index first and then asks the members it has now;
\* it counts itself, a member or not.  mustSee remembers what had been committed
\* when the read began, and settled whether a member that had committed in its
\* own term began it.
ReadIndex(i) ==
    /\ read = Nil
    /\ i \in up /\ role[i] = "Leader"
    /\ read' = [at |-> i, term |-> currentTerm[i], idx |-> commitIndex[i],
                asked |-> peers[i] \ {i}, acks |-> 1, needed |-> Majority(peers[i]),
                mustSee |-> everCommitted, seen |-> Nil,
                settled |-> i \in peers[i] /\ committedInTerm(i)]
    /\ UNCHANGED <<serverVars, configVars, commitVars, log, votes, matchIndex, up,
                   changes, elected>>

stillLeader == role[read.at] = "Leader" /\ currentTerm[read.at] = read.term

\* A heartbeat to j: whatever its log, a reply in the leader's term counts.
ReadHeartbeat(j) ==
    LET i == read.at
        newTerm == currentTerm[i] > currentTerm[j]
    IN  /\ read # Nil /\ read.seen = Nil
        /\ j \in read.asked /\ {i, j} \subseteq up
        /\ stillLeader
        /\ read' = [read EXCEPT !.asked = @ \ {j}, !.acks = @ + 1]
        /\ currentTerm[j] <= currentTerm[i]
        /\ observeTerm(j, currentTerm[i], Nil)
        /\ role' = [role EXCEPT ![j] =
                      IF newTerm \/ @ = "Candidate" THEN "Follower" ELSE @]
        /\ commitIndex' = [commitIndex EXCEPT ![j] =
                             IF agreement(log[j], log[i]) = Len(log[i])
                             THEN Max({@, commitIndex[i]}) ELSE @]
        /\ UNCHANGED <<configVars, removed, committed, log, votes, matchIndex, up,
                       changes, elected>>

\* Variant of confirmed: the leader does not ask its peers.
confirmedAlone == TRUE

\* A majority answered.
confirmed == read.acks >= read.needed

\* LinearizableRead: confirmed, still leading, and applied up to the index, the
\* state machine is read.
LinearizableRead ==
    /\ read # Nil /\ read.seen = Nil
    /\ confirmed /\ stillLeader
    /\ commitIndex[read.at] >= read.idx
    /\ read' = [read EXCEPT !.seen = commitIndex[read.at]]
    /\ UNCHANGED <<serverVars, configVars, commitVars, log, votes, matchIndex, up,
                   changes, elected>>

-----------------------------------------------------------------------------

Next ==
    \/ \E i \in Server :
         \/ startElection(i) \/ becomeLeader(i) \/ ReadIndex(i) \/ ReadHeartbeat(i)
         \/ \E j \in Server : \/ RequestVote(i, j)
                              \/ AppendEntries(i, j) \/ handleAppendReply(i, j)
                              \/ handleNewerTerm(i, j)
                              \/ AddServer(i, j) \/ RemoveServer(i, j)
                              \/ Retire(i, j)
    \/ LinearizableRead

Spec == Init /\ [][Next]_vars

-----------------------------------------------------------------------------
(* Properties *)

\* Election Safety: a term has one leader, though servers count votes under
\* different configurations ("Two disjoint majorities therefore cannot exist").
ElectionSafety ==
    \A e, f \in elected : e[1] = f[1] => e[2] = f[2]

\* Leader Completeness: what one configuration's majority committed is in the
\* log of every later leader, whatever configuration elected it.
LeaderCompleteness ==
    \A c \in committed : \A i \in Server :
        role[i] = "Leader" /\ currentTerm[i] >= c.term
            => c.index <= Len(log[i]) /\ log[i][c.index] = c.entry

\* A configuration a server took from its log is still there, and is the newest
\* ("a server always uses the latest configuration in its log", membership.go).
LatestConfigInUse ==
    \A i \in up : configChangeIndex[i] # 0 =>
        /\ configChangeIndex[i] \in configIndexes(log[i])
        /\ peers[i] = log[i][Max(configIndexes(log[i]))].cfg

\* A leader outside its configuration is one whose removal has not committed
\* yet: checkSelfRemovalLocked takes it down in the step that commits it.
RemovedLeaderStepsDown ==
    \A i \in up :
        role[i] = "Leader" /\ i \notin peers[i] => changeInFlight(i)

\* A linearizable read sees everything that any leader had committed when it
\* began (read.go: "so the read reflects everything committed before the read
\* began"), across elections and changes of membership while it waited.
ReadsAreCurrent ==
    read # Nil /\ read.seen # Nil => read.seen >= read.mustSee

\* The same of the reads for which ReadIndex has what it relies on: the leader is
\* one of the members whose majority it counts, and has committed an entry of
\* its own term, so that its commit index is not behind an earlier leader's.
SettledReadsAreCurrent ==
    read # Nil /\ read.settled => ReadsAreCurrent
=============================================================================
