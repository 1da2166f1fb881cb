---------------------------- MODULE MCMembership ----------------------------
(* Small instances of Membership for TLC. *)
EXTENDS Membership, TLC

\* The first members are interchangeable.
InitialSymmetry == Permutations(Initial)

\* Reads are followed while they can still be answered, and with at most one
\* change of membership.
ReadsExplored == read # Nil => read.seen = Nil /\ stillLeader /\ changes <= 1

\* Reads that begin as ReadIndex needs them to.
ReadsSettled == read # Nil => read.settled

\* Servers outside their own configuration do not campaign: the assumption of
\* membership.go that startElection does not enforce.
OutsidersQuiet == \A i \in Server : role[i] = "Candidate" => i \in peers[i]
=============================================================================
