---------------------------- MODULE ShardReplicas ---------------------------
(***************************************************************************)
(* The replicas of one shard applying one committed log, any of which may  *)
(* at any time go through a snapshot: it restarts from its own, or is sent *)
(* the leader's.  Raft delivers the same entries in the same order to all  *)
(* (module Raft); how far a replica lags behind makes no difference to     *)
(* what it has after an entry, so all apply an entry in the same step.     *)
(***************************************************************************)
EXTENDS Shard
LOCAL INSTANCE SequencesExt

CONSTANTS
    Replica,
    Opening,    \* the ledger commands that opened the first accounts
    Commands,   \* shard commands that clients and coordinators get committed
    MaxEntries  \* bound: number of committed entries

ASSUME ReplicaAssumption == Replica # {} /\ MaxEntries \in Nat

VARIABLES
    machine,    \* of each replica
    entries,    \* how many entries have been committed
    answers     \* history: the client requests applied and what they returned

vars == <<machine, entries, answers>>

opened == FoldLeft(LAMBDA st, lcmd : Apply(st, lcmd).st, New, Opening)

Init ==
    /\ machine = [r \in Replica |-> NewMachine(opened)]
    /\ entries = 0
    /\ answers = {}

\* Every replica applies a committed entry (ApplyAt).
ApplyAt(cmd) ==
    /\ entries < MaxEntries
    /\ entries' = entries + 1
    /\ machine' = [r \in Replica |-> apply(machine[r], cmd).m]
    /\ answers' = answers \cup
         {[key |-> cmd.ledger.key, request |-> fingerprint(cmd.ledger),
           res |-> apply(machine[r], cmd).res] :
             r \in {q \in Replica : cmd.op = OpSingle}}

\* The outcome that RecoverInDoubt has the leader r propose is built from r's
\* own record of the transaction.
RecoveredOutcome(r, t, commit) ==
    /\ t \in InDoubt(machine[r])
    /\ LET rec == machine[r].txs[t]
       IN  ApplyAt(shardCommand(OpOutcome, t, rec.cmd, commit, rec.debit,
                                rec.coordinator))

\* A replica is replaced by what its snapshot holds.
RestoreSnapshot(r) ==
    /\ machine' = [machine EXCEPT ![r] = restored(machine[r])]
    /\ UNCHANGED <<entries, answers>>

Next ==
    \/ \E cmd \in Commands : ApplyAt(cmd)
    \/ \E r \in Replica, t \in Tx, commit \in BOOLEAN :
         RecoveredOutcome(r, t, commit)
    \/ \E r \in Replica : RestoreSnapshot(r)

Spec == Init /\ [][Next]_vars

-----------------------------------------------------------------------------
\* The audit of VerifyDoubleEntry succeeds on every replica after every entry:
\* balances are what the history books, and transfers within the shard sum to
\* zero, so record never panics.
BooksBalance == \A r \in Replica : VerifyDoubleEntry(machine[r].state)

\* No account is overdrawn, not even by what is promised to transfers in
\* flight, and no balance wraps around.
NoOverdraft ==
    \A r \in Replica : LET s == machine[r].state IN
        \A id \in DOMAIN s.balances : /\ availableLocked(s, id) >= 0
                                      /\ s.balances[id] <= MaxMoney

\* Exactly the debits this shard has voted YES to and not seen the outcome of
\* hold a reservation, for the promised account and amount; neither aborts nor
\* repeated prepares, outcomes and snapshots break the pairing.
PromisesHeld ==
    \A r \in Replica :
        LET s == machine[r].state
            txs == machine[r].txs
        IN  /\ DOMAIN s.reserves = {t \in InDoubt(machine[r]) : txs[t].debit}
            /\ \A t \in DOMAIN s.reserves :
                 s.reserves[t] = [account |-> txs[t].cmd.from,
                                  amount |-> txs[t].cmd.amount]

\* No client request and no leg of a transfer is booked twice, whatever is
\* retried or delivered again, across snapshots; a leg is only booked for a
\* transaction recorded as committed.
BookedOnce ==
    \A r \in Replica : LET h == machine[r].state.history IN
        /\ \A j, k \in 1..Len(h) : h[j].key = h[k].key => j = k
        /\ \A t \in Tx, leg \in {"debit", "credit"}, k \in 1..Len(h) :
             h[k].key = internalKey(t, leg) =>
                /\ t \in DOMAIN machine[r].txs
                /\ machine[r].txs[t].phase = PhaseCommitted

\* A request retried with its key is given the answer it was given first, also
\* when the balance has changed since and after a snapshot.
SameRequestSameAnswer ==
    \A a, b \in answers :
        a.key = b.key /\ a.request = b.request => a.res = b.res

\* A machine without the timestamps.
untimed(m) ==
    [state |-> [m.state EXCEPT !.history =
                  [k \in 1..Len(@) |-> [@[k] EXCEPT !.ts = NoTime]]],
     txs |-> [t \in DOMAIN m.txs |-> [m.txs[t] EXCEPT !.cmd.ts = NoTime]],
     results |-> m.results]

\* Replicas that have applied the same entries agree on everything but
\* timestamps, whichever of them went through snapshots.
ReplicasAgree ==
    \A q, r \in Replica : untimed(machine[q]) = untimed(machine[r])

\* "same log, same order, same resulting state on every replica of this shard"
\* (machine.go), the transaction history included.
SameHistory ==
    \A q, r \in Replica : machine[q].state.history = machine[r].state.history
=============================================================================
