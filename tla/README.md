# Core Bank in TLA+

A verification development for Core Bank: a double-entry ledger, sharded over
Raft groups that were written by hand, with two-phase commit (2PC) between the
shards. The modules are translated from the Go code and checked with TLC on small
instances; the central facts about elections, the clock and the connection pool are
proved with TLAPS for every instance. `PROJECT.json` lists the components, the runs, the
mutants that show each property can fail, the source lines each definition stands
for, the findings, the hazards and the theorems.

## The system

| Part | Source | State | Operations |
|---|---|---|---|
| Raft core | `raft/server.go`, `loop.go`, `log.go`, `types.go` | term, vote, log, role, commit and applied index, peer indices | `startElection`, `RequestVote`, `becomeLeader`, `replicateTo`, `AppendEntries`, `Submit`, `applyCommitted`, `Stop` |
| Raft persistence | `raft/persist.go` | the saved state, the applied marker | `mustPersistLocked`, `Restore` |
| Raft reads | `raft/read.go` | none of its own | `ReadIndex`, `LinearizableRead` |
| Raft snapshots | `raft/snapshot.go` | snapshot, log base | `MaybeCompact`, `InstallSnapshot`, `sendSnapshotTo` |
| Raft membership | `raft/membership.go` | configuration | `AddServer`, `RemoveServer`, adopting a configuration from the log |
| Raft health | `raft/health.go`, `health_priority.go` | last contact | `Health`, `electionBias` |
| Ledger | `ledger/ledger.go`, `reserve.go`, `snapshot.go` | balances, results and fingerprints per key, history, reservations | `Apply`, `PrepareDebit`, `PrepareCredit`, `CommitDebit`, `CommitCredit`, `AbortTx`, snapshots |
| Shard machine | `shard/machine.go`, `twopc.go`, `snapshot.go` | a ledger, transaction records, results | `apply` of the four kinds of entry, `InDoubt`, `Decision`, snapshots |
| 2PC coordinator | `shard/coordinator.go` | none: only goroutines | `Transfer`, `decide`, `RecoverInDoubt`, `catchUp` |
| Ring | `shard/ring.go` | sorted virtual nodes | `Lookup`, `Segments`, `Distribution` |
| Sharded node | `rpc/shardnode.go`, `cmd/shardnode/main.go` | replicas per group | `Propose`, `recoverOnLeadership`, start-up and shutdown |
| Client APIs | `rpc/shardclient.go`, `client_api.go`, `node/main.go` | none | `Submit`, `Balance` |
| Admission and drain | `rpc/admission.go`, `drain.go` | in-flight counter, token buckets, draining flag | `Admit`, release, `Drain` |
| Storage | `storage/*.go` | files | `Append`, `ReadAll`, `Save`, `Load`, atomic replacement |
| Clock | `hlc/hlc.go` | last timestamp | `Now`, `Update` |
| Transport, administration | `rpc/rpc.go`, `admin.go`, `peers.go`, `security.go` | connections | calls, membership requests |
| Harness, demo, observability, UIs | `sim/`, `demo/`, `obs/`, `fe/` | for tests and display | |

How the parts interact. A client's request enters through a client API, passes
admission, and is routed by the ring. A request on one shard is one entry in the
log of that shard's Raft group. A transfer across shards is driven by a
coordinator goroutine on some node: prepare on the debit shard, prepare on the
credit shard, the decision on the debit shard, and an outcome on each, each of
them an entry in the log of the group. Every replica applies its group's log to
its shard machine. When a node finds that it leads a group, it recovers what the
group has in doubt. Raft saves its state before it answers, and replays the log
into a fresh machine after a restart.

What makes it hard: RPC replies that arrive in another term; stops and crashes
between saving, answering and applying; a proposal that times out and is applied
later, or is lost with its leader; the recovery of a transaction by one node
while another still works on it; retries with the same key; snapshots that must
carry the promises made by prepares.

## Modules

| Module | Models | Depends on |
|---|---|---|
| `Raft` | the Raft core and persistence, fixed membership, whole logs | |
| `RaftProofs` | theorems about `Raft` | `Raft` |
| `Snapshot` | compaction, snapshot transfer, restart from three files | |
| `Membership` | configuration changes, replica moves, linearizable reads | |
| `Ledger` | `ledger.State`, as operators | |
| `Shard` | `shard.Machine`, as operators | `Ledger` |
| `ShardReplicas` | replicas of one shard that apply the same log, with snapshots | `Shard` |
| `AtomicTransfer` | abstract: what a client is promised | |
| `TwoPC` | the coordinator and recovery over several groups | `Shard`, `AtomicTransfer` |
| `ClientService` | the client API of a node, admission, drain and shutdown | |
| `Rpc` | the connection pool and the RPC server | |
| `RpcProofs` | theorems about `Rpc` | `Rpc` |
| `DurableRegister` | abstract: a file that survives crashes | |
| `Storage` | atomic file replacement, the applied marker, the write-ahead log | `DurableRegister` |
| `HLC` | hybrid logical clocks | |
| `HLCProofs` | theorems about `HLC` | `HLC` |
| `MC...` | instances for TLC | |

The modules meet at what one guarantees and the next assumes. `Storage` shows
that the files behave like registers; `Raft` and `Snapshot` take a file to be
one. `Raft` shows that entries are applied in one order and survive; `TwoPC` and
`ClientService` take a group to be a log of which a prefix is committed. `Rpc`
loses calls and may run a handler whose caller has given up; the network of the
protocol modules loses, delays and repeats.

### Raft

One variable per field of `Server` that matters, indexed by server; `disk` is
what the last `Save` wrote and `appliedMark` the separate file of the applied
index. A handler runs under `Server.mu`, so it is one action with all the
persisting and applying it does. RPCs are made without the lock: sending,
handling and taking the reply are three actions. A message stays in the network
until it is dropped, so it may be lost, delayed, reordered and repeated; the
repeats are those of `sim/network.go` and of heartbeats. Where the code decides
something after releasing the lock, the model does as well: `startElection` has
no guard on the role, because `tick` checks it under a lock it has released by
then, and `becomeLeader` is separate from the vote that won.

`Stop` covers crashes: a stopped server that takes no further step is a crashed
one, and one that does take steps is the process whose goroutines outlive
`Stop`. A failed `Save` panics, which is a crash before any reply. A failed
`SaveApplied` is only counted by the code, and with `MarkerFaults` the marker
keeps its old value. The early return of `applyCommitted` for an entry that is
not in the log is not modelled: `AppliedExactlyOnce` shows it is unreachable.

A server that has heard from a leader refuses to vote before it looks at the
term. The refusal changes nothing anywhere, so it is a stuttering step.
Elections may start at any time, so every setting of the timers is covered.

`ballots`, `elected` and `committed` are history variables. The no-op that a new
leader appends is part of `becomeLeader`, under the same lock; therefore an
entry of an older term is never the newest one that a leader could commit, and
the term check in `advanceCommitIndexLocked` never decides anything by itself.

### Snapshot

A group of three is seen from a leader and a follower that has fallen behind; the
third server is the environment that lets the leader commit. Each node has its
memory (`mem`) and its three files, which are written one at a time, and a crash
may come between any two writes (`CrashInInstall` is the one inside a handler).
`MaybeCompact` takes the state under the lock, writes the snapshot file without
it, and cuts the log under it again: three actions. `Restore` computes memory
from the files as the code does, also when they are of different ages.

Nothing keeps a snapshot from arriving between a compaction's first and last
section; see the disagreements below. Writes do not fail in this module.

### Membership

Elections, replication and commitment as in `Raft`, coarser: a call and its
handling are one step, and a log is sent from where the logs agree. The
granularity is about configurations: every server has the one it operates under
(`peers`), takes a new one over as soon as it is appended (`adoptConfig`), and
counts votes and acknowledgements under its own. `matchIndex` is a map whose
entries come and go as in `useConfigurationLocked`, and survive a term as a
follower. `AddServer` starts an empty replica (`sim/rereplicate.go`), `Retire`
stops one. A linearizable read is a process of its own: `ReadIndex` takes the
commit index, `ReadHeartbeat` collects acknowledgements, `LinearizableRead` reads
the state. Elections and changes may happen in between.

A read remembers what had been committed when it began (`mustSee`) and whether
its leader had by then committed an entry of its own term (`settled`); the code
looks at neither.

### Ledger and Shard

Both are state machines under a lock that are driven by log entries, so each
method is an operator from the state and its arguments to the next state and the
result. Keys, accounts and timestamps are model values. `fingerprint` is the
tuple that the code digests. Money is bounded by `MaxMoney`, which stands for the
largest `int64`. `ShardReplicas` drives the operators with every sequence of
entries from a set, which includes entries that a correct coordinator would not
propose in that order (an outcome before its prepare, a decision that is
repeated): the shard promises to cope with them.

### TwoPC

A group is the machine that its applied entries have produced, and the queue of
entries that are in some leader's log and not applied. `Raft` justifies the
queue: entries are applied in one order (`StateMachineSafety`), those that were
not committed may be dropped. The queue also stands for entries that are
committed and that the replica asked has not applied yet. `Propose` blocks, so
an entry names its waiter; the waiter goes on when the entry is applied
(`ApplyAt`) or when the wait times out (`TimeOut`; the entry remains). When an
entry is lost (`Lose`), its index goes to an entry of the next leader (`foreign`),
and whoever still waits gets the result recorded there. Every continuation in `twoPhase`, `decide` and `single`
is an operator `after...` from the attempt and what `Propose` returned.

Recovery is one process per group, started by `recoverOnLeadership` at any change
of leadership and at no other time. It asks for the decision and proposes the
outcome in one step. When no decision is under way (`settled` in `MCTwoPC`),
nothing can change the answer between the two; when one is, `twopc_overlap` needs
no more freedom than this to break atomicity. `Scenario` says which requests are
made and how many elections each group has. `stable` marks the end of faults: one
node leads every group from then on, as a coordinator needs its own node to do.
Records that name no coordinator are not modelled: the current code writes none.

### ClientService

Every request is a handler goroutine with a program counter: the draining check,
the token bucket, the reservation of a slot (add, compare, give back), the lookup
of a known result, the proposal, the wait, the answer, the release. Handlers of a
node share its counters; clients send a request again to any node at any time.
Consensus appears by its effect: who wins holds all that is committed and appends
its no-op, the leader commits entries of its own term with all before them, and a
deposed leader goes on until it hears of the new one. What a machine has recorded
is a function of the entries it applied. `DrainBegins`, `DrainEnds` and
`DrainExpires` are `Admitter.Drain`, `Stop` what `node/main.go` does after it. Token buckets are refilled at any time, so every rate is covered.

### Rpc

Goroutines of one process call one peer through the pool. `client` hands out the
cached connection, or makes the caller the dialler, or sends it to wait at the
gate. A call that fails, by its connection or by an error in the reply, drops the
connection that is cached; one that times out leaves it, and its request may still
be handled, for `Nobody`. The server accepts, serves and is closed in two sections with the lock released in
between; `Close` then waits for all it started. TCP and `net/rpc` are external.
As `ServeConn` returns only after its handlers have ended, `Close` waits for them.

### Storage and DurableRegister

The directory of a path is the list of files it has named since the last fsync of
the directory; a power loss picks one of them. The contents of a file that was
not fsynced may be whole, absent or damaged after it. A kill loses the process and
leaves temporary files behind. `DurableRegister` says what a file is meant to be:
saves take effect whole and one after the other, and one that was acknowledged
stands. The history variables `writes` and `acked` are the refinement mapping.
A state may be too long to be read back (`oversized`): `Save` writes it and `Load`
takes it for none, so the register of the state file holds it and loads nothing.
The marker is overwritten in place, and the write-ahead log cuts a torn tail when
it is read (`ReadAll`) and after an append that failed.

### HLC

`nowReading` and `updateReading` are the two methods as functions of the clock,
the physical reading and the remote stamp; the counter wraps at `MaxLogical`
(2^32 - 1 in the code). `wrapped` records that it did, which takes 2^32 stamps
within a millisecond, or as many after a wall clock was set back. The program
calls `Now` only; `Update` is part of the package and of the model.

## Runs

All passing runs together fire every action. Deadlock is not checked: the bounds
on terms, elections, attempts, connections and entries leave states in which
nothing is left to do, and a client that has its answer stops.

| Run | Bounds | Properties |
|---|---|---|
| `raft` | 3 servers; 3 terms without commands, or 2 with; 2 messages at once | `TypeOK`, `LogMatching`, `LeaderCompleteness`, `StateMachineSafety`, `AckedEntriesDurable` |
| `raft_restart` | 3 servers, 2 terms, 1 stop and restart, the marker may fail to be saved | `ElectionSafety`, `DurableVoteStands`, `StateMachineSafety`, `AckedEntriesDurable`, `RestartReplaysCommitted`, `AppliedExactlyOnce` |
| `raft_snapshot` | logs of 2, compaction after every entry, 2 crashes, 3 campaigns in 2 terms, 2 messages | `StateMachineIsPrefix`, `AckedSurvivesCrash`, `AppliedSurvivesCrash`, `OneVotePerTerm` |
| `raft_membership` | 3 members and a spare, 2 terms, 2 changes, 1 read at a time | `ElectionSafety`, `RemovedLeaderStepsDown`, `SettledReadsAreCurrent` |
| `shard_replicas` | 2 replicas, 5 entries of 15 kinds, `MaxMoney` 3 | `BooksBalance`, `NoOverdraft`, `PromisesHeld`, `BookedOnce`, `SameRequestSameAnswer`, `ReplicasAgree` |
| `twopc` | 2 shards; a transfer and an election per group, or a transfer and a competing one or a retried withdrawal | `MoneyConserved`, `ImplementsAtomicTransfer`, and under fairness `RecoveryResolves` |
| `client_service` | 2 nodes, 2 handlers, 2 keys, 3 attempts, 1 change of leader, 1 shutdown, 1 slot, 1 token | `SlotsAddUp`, `OkMeansExecuted`, `DefiniteMeansNotProposed` |
| `rpc` | 2 callers, 3 connections, server and transport closed | `ClosedMeansQuiet`, `NoConnectionLeaks`, and under fairness `CallsEnd`, `CloseEnds` |
| `storage` | 3 writers of 2 files, 4 operations, 2 kills or power losses | `StateFileIsRegister`, `SnapshotFileIsRegister`, `AckedRecordsSurvive`, `MarkerNeverInvented` |

What the names stand for is in the comment on each definition. The refinement in
`twopc` is the strongest statement about 2PC: an outcome is final, every
leg follows it, and what a client is told is true and stays true. It implies that no
leg commits while the other aborts (`AtomicOutcome`) and that a decision to commit
is never overwritten (`DecisionFinal`), the properties that two of the
configurations below refute when an assumption is dropped.

Why the bounds are enough for the question asked. Two terms are needed for logs
to conflict and three for a leader to be elected over a log that a leader of the
middle term never saw; two messages at once let a request or reply of an old term
meet one of a new term. One restart is what it takes to forget a vote. In
`raft_snapshot` two crashes are what it takes to lose a term that `InstallSnapshot`
took over without saving it and then to vote in it again; a threshold of 1 makes every entry a boundary, so indices fall on,
before and after it; two candidates of one term and one of the next are what a
forgotten vote needs. In `raft_membership` two changes give configurations that
differ by two servers, and the spare may join, leave and join again. Five entries
of a shard are a prepare, a decision, an outcome, a repetition, and one competing
request. In 2PC the recoveries of two groups may run into each other and into the
coordinator. Two handlers for one slot reach the limit, and three attempts let a request be sent
again after both were answered. Three connections let one that was dropped, a
newer one and a dial overlap. Two crashes let the second hit what the first left.
Symmetry between servers, nodes' handlers and keys is used where they are
interchangeable. A `VIEW` leaves out vote counts and peer indices of `Raft` that
are overwritten before they are read again; both were compared with a run without
them.

A `CONSTRAINT` keeps TLC from going on from a state that violates it; the state
itself is still checked. Some keep runs small: three terms and commands are explored
separately (`TermsOrCommands`), one marker at a time is behind (`OneMarkerBehind`),
after a crash of `raft_snapshot` one message is under way at a time (`OneAtATime`)
and a second crash is followed up when F crashed with an empty network and nothing
being compacted (`SecondCrash`), a third connection is dialled only before `Close`
(`ThirdBeforeClose`), and a read is followed until it is answered or can no longer be
(`ReadsExplored`). The others are assumptions that the code does not enforce and
under which the properties hold; each has a configuration below that drops it:

| Constraint | Run | Without it |
|---|---|---|
| `InstallsDoNotOverlap` | `raft_snapshot` | `SnapshotOverlap.cfg` |
| `OutsidersQuiet` | `raft_membership` | `membership_removed` |
| `ReadsSettled` | `raft_membership` | `membership_read` |
| `RecoveryWaits` | `twopc` | `twopc_overlap` |
| `OwnAnswers` | `twopc` | `TwoPCIndexReuse.cfg` |

### Further configurations

Outside the list of runs, for use after changes to the code they concern. TLC
finds no error in any of them.

- `RaftReplication.cfg` (`MCRaft`): logs of three commands and more; also that
  commit indices never go back and that leaders only append.
- `SnapshotLive.cfg` (`MCSnapshot`): types, `SnapshotCoversBase`, and
  `FollowerCatchesUp`: while the leader stays, a lagging follower ends up with
  everything committed, through snapshots or entries.
- `HLC.cfg` (`MCHLC`): `Causality`, `ReadingsAdvance` and `NoDrift` for three nodes
  and a counter that wraps.

### Disagreements between the code and what it says

Each of these configurations checks one statement of a comment or a test, and TLC
finds a behaviour of the code that contradicts it. The first three are runs, with
the lines quoted in `PROJECT.json`.

- `twopc_overlap` (`AtomicOutcome`): recovery that asks for a decision while the
  coordinator is about to log it aborts one leg of a transfer whose other leg
  commits.
- `membership_removed` (`ElectionSafety`): a server that its own configuration
  leaves out still campaigns and counts its own vote, so with one vote less than
  a majority of members it leads a term that another server leads as well.
  `raft/membership.go:26`: "Two disjoint majorities therefore cannot exist".
- `membership_read` (`ReadsAreCurrent`): a leader that has committed nothing in
  its term yet serves a read from an older commit index. `raft/read.go:49`: "so
  the read reflects everything committed before the read began".
- `MembershipFour.cfg` (`LeaderCompleteness`): a new leader proposes a change before
  it has committed an entry of its term, while a change of the previous leader is
  still around; the two configurations of an even-sized cluster have disjoint
  majorities, and a committed entry is lost.
- `MembershipRollback.cfg` (`LatestConfigInUse`): a follower whose only configuration
  entry is truncated by a new leader goes on under that configuration.
  `raft/membership.go:274`: "a server always uses the latest configuration in its
  log". With four members this loses committed entries too, also when leaders wait
  for a commit of their own term.
- `SnapshotOverlap.cfg` (`StateMachineIsPrefix`): a snapshot is installed while a
  compaction writes the file without the lock; the older snapshot replaces the
  newer one, the log between them is gone, and a crash rebuilds a state machine
  with a hole. `raft/snapshot.go:161` argues from the opposite order.
- `ClientServiceKeys.cfg` (`OkMeansExecuted`): two different requests under one key
  wait at the same time; the second is answered ok with the result of the first.
  `ledger/codec.go:177` deprecates the lookup by key alone that `Submit` uses after
  its wait.
- `ClientServiceDrain.cfg` (`CleanDrainIsEmpty`): a request that passed the draining
  check takes its slot after `Drain` has read the counter as zero. `rpc/drain.go:38`:
  "zero means a clean drain"; `rpc/admission.go:70`: "no new request is admitted after
  it is set".
- `StorageLarge.cfg` (`AckedStateLoads`): a state of more than `maxRecordSize` bytes is
  saved, acknowledged, and read as no state. `storage/raftstate.go:82`: "Figure 2
  requires persistent state to survive a crash unconditionally".
- `HLCWrap.cfg` (`NeverGoesBack`): a counter bumped at its largest value sets the clock
  back. `hlc/hlc.go:127`: "Never returns the same timestamp twice, and never goes
  backwards".
- `TwoPCRetry.cfg` (`DecisionFinal`): a retry with the same key overwrites a decision to
  commit by one to abort.
- `TwoPCIndexReuse.cfg` (`VotesCounted`): a prepare that was lost counts as a YES vote
  when a no-op of the next leader takes its index.
- `TwoPCBlocked.cfg` (`InDoubtResolved`): a transaction stays in doubt for ever when no
  election follows the fault that left it so, or when the recovery skipped it.
  `shard/coordinator.go:410`: "Stay blocked and retry later"; nothing retries.
- `TwoPCOverflow.cfg` (`MoneyConserved`): a credit that would overflow is dropped after
  the debit.
- `ShardHistory.cfg` (`SameHistory`): a snapshot leaves out the timestamp of a prepared
  transfer, so replicas book a recovered outcome at different times.

One comment the models contradict the other way. `raft/persist.go:301` says of a
marker ahead of the log that it "is NOT impossible", because a follower may truncate
entries it has applied. `StateMachineSafety` excludes that, the log is saved before
anything in it is applied, and `RestartReplaysCommitted` includes that the marker is
never ahead: the clamp after the comment is dead code in every state `raft_restart`
reaches, and were it ever reached, entries that are not committed could be replayed.

Beyond the constraints above, passing runs rest on their bounds: in `raft_membership`
the cluster has three members and a spare, in `client_service` a key stands for one
request, in `twopc` balances stay below `MaxMoney` and transfers are not retried.

### Fairness

`twopc`: once faults have ended (`stable`), goroutines that can go on do (`Propose`,
`catchUp`, `RecoverInDoubt`), and a group applies what it has (`ApplyAt`, by Raft's
progress once messages are delivered). Weak fairness is enough, since nothing disables
these steps then. That faults end is not assumed: `RecoveryResolves` speaks of the
behaviours in which they do. No timeout, crash, election or recovery is forced to
happen. The constraints bound the behaviours it is checked on as well.

`rpc`: weak fairness on a dial ending one way or the other (it has a timeout), on
a call returning, failing or timing out, on waking the goroutines at a closed gate,
and on handlers and the server's goroutines, which run and end. Nobody is forced to
call or to close, and a reply is never forced to arrive.

`SnapshotLive.cfg`: heartbeats keep calling `replicateTo` (weak), a kind of message
that is under way again and again is handled at last (strong; a network that may
always lose it would allow nothing to be promised), the compaction goroutine runs
(weak).

## Proofs

`RaftProofs` proves for any set of servers, any terms, any number of messages and
restarts, from the assumptions on the constants in `Raft` (a finite non-empty set
of servers, `Nil` not one of them, `NoOp` not a command, bounds in `Nat`):

- `TypeCorrect`: `Spec => []TypeOK`;
- `AtMostOneLeader`: `Spec => []ElectionSafety`;
- `VotesSurviveCrashes`: `Spec => DurableVoteStands`.

`ElectionSafety` is not inductive. The proof uses `ElectionInv`, the conjunction
of four facts: a running server's term and vote are on its disk
(`VotesDurable`), every vote ever cast is remembered by its voter's disk, or the
voter has moved on to a newer term (`BallotsRemembered`), no server cast two
votes in a term (`OneVotePerTerm`), and whatever a candidate has counted, or is
in a message, was cast (`VotesCast`). Then two leaders of a term have majorities
of voters, two majorities of a finite set intersect, and the voter in both cast
one vote. `ElectionInv` was checked with TLC before it was proved.

`HLCProofs` proves for any nodes, any physical clocks and any counter width, from
the hypothesis `HLCConstants` (the bounds are naturals):

- `StampsRespectCausality`: `HLCConstants /\ Spec => []Causality`;
- `ReadingsNeverRepeat`: `HLCConstants /\ Spec => ReadingsAdvance`.

Both properties hold until a counter wraps (`wrapped`), and the specification lets
it. `Causality` is about finished events and not inductive. `IInv` adds that, before a
wrap, a node's last reading, and the stamp a message carries, are at or after every
stamp in the causal past they stand for. `NowAdvances` and `UpdateAdvances` say that
a reading is later than all it was made from unless it bumped a counter to zero;
transitivity of the order does the rest. `ReadingsAdvance` asks every call of `Now`
and `Update` for a strictly later reading, so a clock that repeats one violates it.

`RpcProofs` proves for any set of callers and any number of connections, without
assumptions on the constants:

- `PoolNeverLeaks`: `FairSpec => []NoConnectionLeaks`;
- `CloseIsQuiet`: `FairSpec => []ClosedMeansQuiet`.

Fairness plays no part in either. `NoConnectionLeaks` is not inductive: a dial that
succeeds adds a connection, and nothing in it says that none was cached. `PoolInv`
adds `GateInv`: one caller at most is dialling, the gate is closed while it does,
and nothing is cached while the gate is closed, so the new connection replaces
none. `ServerInv` says that every handler runs on a connection that is still on
the server's list, and that `Close` has returned only when `serve` had ended and
the list was empty; after that nothing can be put on the list again. A call that
ends early leaves its handler where it is (`ServerCallOver`).

Only model-checked: everything about logs and commitment, snapshots, membership
and reads, the ledger and shard invariants, 2PC, the client API and storage; and
all liveness, the transport's included, which is out of the prover's reach.

## Not modelled

- The ring (`shard/ring.go`): a pure function of the account; `TwoPC` takes its
  result as a constant. What it promises (an even spread, few moves) is statistical.
- Health and election priority: reports, and the length of timeouts; the protocol
  modules allow every timing.
- Failing writes in `Snapshot`: `InstallSnapshot` counts them and answers as if it
  had installed the snapshot.
- A failing fsync of the directory, which `syncDir` reports as success.
- The answers of the administration API: whether a change took effect is decided
  by the index alone, as in the client API.
- The sharded `Balance`, which reads local state without `ReadIndex`.
- The byte encoding of commands and records, TLS and tokens.
- The rest of the simulation harness, the demo, observability and the user
  interfaces, which hold no state that correctness depends on.
