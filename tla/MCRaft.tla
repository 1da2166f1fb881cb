------------------------------- MODULE MCRaft -------------------------------
(* Small instances of Raft for TLC. *)
EXTENDS Raft, TLC

ServerSymmetry == Permutations(Server)

\* What a state's future and the properties depend on.  Left out: the vote
\* count of a server that is not a candidate and the peer indices of one that
\* does not lead, which startElection and becomeLeader overwrite before they
\* are read again, and ballots, which no action or checked property reads.
LiveState ==
    <<currentTerm, votedFor, log, disk, appliedMark, role, commitIndex,
      lastApplied, sm, stopped,
      [i \in Server |-> IF role[i] = Candidate THEN votes[i] ELSE {}],
      [i \in Server |-> IF role[i] = Leader
                        THEN <<nextIndex[i], matchIndex[i]>> ELSE <<>>],
      msgs, stops, elected, committed>>
\* Three terms of elections with no-ops only, or two terms with commands: the
\* two together would be too many states.
TermsOrCommands ==
    \/ \A i \in Server : currentTerm[i] < 3
    \/ \A i \in Server : \A k \in 1..Len(log[i]) : log[i][k].cmd = NoOp

\* At most one server at a time runs with a marker behind what it has applied:
\* one is enough for a restart to fall back on an older marker.
OneMarkerBehind ==
    Cardinality({i \in Server : appliedMark[i] < lastApplied[i]}) <= 1
=============================================================================
