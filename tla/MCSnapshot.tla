----------------------------- MODULE MCSnapshot -----------------------------
(* Small instances of Snapshot for TLC. *)
EXTENDS Snapshot

CONSTANTS c1, c2

\* Two candidates lost term 2 to L, and one of them tries again in term 3.
TwoElections == {<<c1, 2>>, <<c2, 2>>, <<c1, 3>>}
\* A higher term turns up once.
OneElection == {<<c1, 3>>}
\* After a crash a request has been answered before the next one is sent.
OneAtATime == crashes >= 1 => Cardinality(msgs) <= 1
\* What follows a second crash is explored for crashes of F, with an empty network
\* and no compaction under way.
SecondCrash ==
    crashes = 2 => /\ leads /\ msgs = {}
                   /\ \A n \in Node : compacting[n] = Nil

\* No snapshot is installed on a node between CompactBegin and CompactSave,
\* where it would be overwritten by the older one being saved.  Nothing in the
\* code prevents it: this is an assumption on the order of the two.
InstallsDoNotOverlap ==
    \A n \in Node : saving(n) => baseIndex(mem[n].log) < compacting[n].index
=============================================================================
