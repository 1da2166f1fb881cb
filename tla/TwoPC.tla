-------------------------------- MODULE TwoPC -------------------------------
(***************************************************************************)
(* Requests that span shards (shard/coordinator.go): Transfer with its two *)
(* phases, and RecoverInDoubt, over Raft groups that delay and lose what   *)
(* is proposed to them.                                                    *)
(*                                                                         *)
(* A group is the machine its applied entries have produced and the queue  *)
(* of entries that some leader has appended and that may yet be applied.   *)
(* Module Raft shows that a group is such an ordered log; a deposed leader *)
(* leaves entries that are dropped instead of applied.  A queued entry     *)
(* also stands for one that is committed and that the replica asked has    *)
(* not applied yet.                                                        *)
(*                                                                         *)
(* Propose blocks its caller until the entry is applied or a timeout ends  *)
(* the wait; until then the entry names the caller as its waiter.  The     *)
(* caller is the attempt to serve a request, named by the request's        *)
(* transaction id, or the recovery of a group, named by the group.         *)
(***************************************************************************)
EXTENDS Shard
LOCAL INSTANCE SequencesExt

CONSTANTS
    Group,              \* the shards
    home,               \* ring placement: the shard of each account
    Funds,              \* the opening balance of each account
    Request,            \* per id: the operation, accounts and amount
    Scenario,           \* which requests clients make, and how many elections
                        \* each group has: one of these records
    Retried,            \* ids whose clients retry an attempt that was not
                        \* answered for good, with the same id
    Nobody,             \* the waiter of an entry nobody waits for
    stamp,              \* what the clock gives; timestamps do not matter here
    MaxAttempts,        \* bound: attempts per retried request
    MaxQueue            \* bound: entries in a queue

ASSUME GroupAssumption ==
    /\ IsFiniteSet(Group) /\ NoShard \notin Group
    /\ Tx \cap Group = {} /\ Nobody \notin Tx \cup Group
    /\ home \in [DOMAIN home -> Group] /\ DOMAIN Funds \subseteq DOMAIN home
    /\ DOMAIN Request = Tx /\ Retried \subseteq Tx
    /\ \A s \in Scenario : s.asked \subseteq Tx /\ s.elections \in Nat

ASSUME BoundAssumption == {MaxAttempts, MaxQueue} \subseteq Nat

VARIABLES
    machine,    \* per group
    queue,      \* per group
    attempt,    \* per request: where the goroutine that serves it is
    recovery,   \* per group: where RecoverInDoubt is
    elections,  \* per group: how many are still to come
    stable      \* no more faults

vars == <<machine, queue, attempt, recovery, elections, stable>>

-----------------------------------------------------------------------------
request(t) ==
    [op |-> Request[t].op, key |-> t, from |-> Request[t].from,
     to |-> Request[t].to, amount |-> Request[t].amount, ts |-> stamp]

\* Routing: by the account the operation touches.
fromShard(t) ==
    home[IF Request[t].op \in {OpOpenAccount, OpDeposit}
         THEN Request[t].to ELSE Request[t].from]

toShard(t) ==
    home[IF Request[t].op = OpWithdraw
         THEN Request[t].from ELSE Request[t].to]

spans(t) == fromShard(t) # toShard(t)

Crossing == {t \in Tx : spans(t)}

\* An attempt: the step it is at, whether the decision is to commit, whether
\* an outcome could not be delivered (firstErr), and what it returns.
at(pc, n) == [pc |-> pc, n |-> n, commit |-> FALSE, failed |-> FALSE,
              reply |-> "none"]

\* The first step of Transfer.
started(t, n) == at(IF spans(t) THEN "debitPrepare" ELSE "single", n)

Steps == {"single", "debitPrepare", "creditPrepare", "decision",
          "debitOutcome", "creditOutcome"}

\* Among the replies, "aborted" is ErrTxAborted itself; wrapped in an error of a
\* proposal it reaches the client as an indeterminate "failed".

openingState(g) ==
    FoldSet(LAMBDA id, st :
              Apply(st, [op |-> OpOpenAccount, key |-> <<"open", id>>,
                         from |-> NoAccount, to |-> id, amount |-> Funds[id],
                         ts |-> NoTime]).st,
            New, {id \in DOMAIN Funds : home[id] = g})

idle == [pc |-> "idle", todo |-> {}]

Init ==
    /\ machine = [g \in Group |-> NewMachine(openingState(g))]
    /\ queue = [g \in Group |-> <<>>]
    /\ \E s \in Scenario :
         /\ attempt = [t \in Tx |-> IF t \in s.asked THEN started(t, 1)
                                    ELSE at("done", MaxAttempts)]
         /\ elections = [g \in Group |-> s.elections]
    /\ recovery = [g \in Group |-> idle]
    /\ stable = FALSE

-----------------------------------------------------------------------------
(* Propose: what is proposed, and what comes back *)

\* What a call of Propose returns: the result, isLeader and whether err # nil.
NoResult == [ok |-> FALSE, err |-> "", balance |-> 0]

returned(res, isLeader, err) == [res |-> res, isLeader |-> isLeader, err |-> err]

notLeader == returned(NoResult, FALSE, FALSE)

\* After a timeout: still the leader, or "lost leadership mid-propose".
timedOut(isLeader) == returned(NoResult, isLeader, TRUE)

\* What an attempt proposes at each step, and to which group.
proposal(t) ==
    LET pc == attempt[t].pc
        op == CASE pc = "single" -> OpSingle
                [] pc \in {"debitPrepare", "creditPrepare"} -> OpPrepare
                [] pc = "decision" -> OpDecision
                [] OTHER -> OpOutcome
    IN  IF pc = "single"
        THEN shardCommand(OpSingle, NoKey, request(t), FALSE, FALSE, NoShard)
        ELSE shardCommand(op, t, request(t),
                          attempt[t].commit,
                          pc \in {"debitPrepare", "decision", "debitOutcome"},
                          fromShard(t))

target(t) == IF attempt[t].pc \in {"creditPrepare", "creditOutcome"}
             THEN toShard(t) ELSE fromShard(t)

waiting(w) == \E g \in Group : \E k \in 1..Len(queue[g]) :
                queue[g][k].waiter = w

\* The queues once w no longer waits.
abandoned(w) ==
    [g \in Group |-> [k \in 1..Len(queue[g]) |->
        [queue[g][k] EXCEPT !.waiter = IF @ = w THEN Nobody ELSE @]]]

append(q, g, cmd, w) ==
    [q EXCEPT ![g] = Append(@, [cmd |-> cmd, waiter |-> w])]

-----------------------------------------------------------------------------
(* Transfer: how an attempt goes on when Propose has returned p *)

finished(a, reply) == [a EXCEPT !.pc = "done", !.reply = reply]

\* decide, with the reply that follows an abort.
decide(a, commit, reply) ==
    [a EXCEPT !.pc = "decision", !.commit = commit, !.reply = reply]

afterSingle(a, p) ==
    finished(a, CASE p.err /\ p.isLeader -> "commitUnknown"
                  [] p.err -> "failed"
                  [] ~p.isLeader -> "notLeader"
                  [] OTHER -> IF p.res.ok THEN "ok" ELSE "refused")

afterDebitPrepare(a, p) ==
    CASE ~p.isLeader -> finished(a, "notLeader")
      [] p.isLeader /\ p.err -> finished(a, "prepareFailed")
      [] p.isLeader /\ ~p.err /\ ~p.res.ok -> decide(a, FALSE, "aborted")
      [] OTHER -> [a EXCEPT !.pc = "creditPrepare"]

\* Variant of votedYes: only a refusal counts as a NO, a timeout does not.
notRefused(p) == p.res.err = ""

votedYes(p) == ~p.err /\ p.isLeader /\ p.res.ok

afterCreditPrepare(a, p) ==
    IF votedYes(p) THEN decide(a, TRUE, "none")
    ELSE decide(a, FALSE, CASE p.res.err # "" -> "aborted"
                            [] p.res.err = "" /\ ~p.isLeader -> "notLeader"
                            [] p.res.err = "" /\ p.isLeader /\ p.err -> "failed"
                            [] OTHER -> "aborted")

\* The decision must be in the coordinator's log before anyone acts on it.
afterDecision(a, p) ==
    IF p.err \/ ~p.isLeader
    THEN finished(a, IF a.commit THEN "inDoubt" ELSE a.reply)
    ELSE [a EXCEPT !.pc = "debitOutcome"]

afterDebitOutcome(a, p) == [a EXCEPT !.pc = "creditOutcome", !.failed = p.err]

afterCreditOutcome(a, p) ==
    finished(a, IF ~a.commit THEN a.reply
                ELSE IF a.failed \/ p.err THEN "inDoubt" ELSE "ok")

continued(a, p) ==
    CASE a.pc = "single" -> afterSingle(a, p)
      [] a.pc = "debitPrepare" -> afterDebitPrepare(a, p)
      [] a.pc = "creditPrepare" -> afterCreditPrepare(a, p)
      [] a.pc = "decision" -> afterDecision(a, p)
      [] a.pc = "debitOutcome" -> afterDebitOutcome(a, p)
      [] a.pc = "creditOutcome" -> afterCreditOutcome(a, p)

-----------------------------------------------------------------------------
(* RecoverInDoubt *)

\* Nothing is left to do when the list is empty.
scanning(todo) == IF todo = {} THEN idle ELSE [pc |-> "scan", todo |-> todo]

begun(g) == [pc |-> "catchUp", todo |-> {}]

\* How the recovery of a group whose machine is m goes on.  A failure to catch
\* up ends it; a failed outcome does not stop it from trying the others.
recovered(r, p, m) ==
    IF r.pc # "catchUp" THEN r
    ELSE IF p.err \/ ~p.isLeader THEN idle
    ELSE scanning(InDoubt(m))

\* A command that moves no money and has no key.
noop == shardCommand(OpSingle, NoKey,
                     [op |-> "", key |-> NoKey, from |-> NoAccount,
                      to |-> NoAccount, amount |-> 0, ts |-> NoTime],
                     FALSE, FALSE, NoShard)

\* Variant of recoveredCommit: what the participant itself has on record.
ownRecord(rec, t) == rec.commit

\* What the machine of the coordinator's group says; no decision is an abort.
recoveredCommit(rec, t) ==
    LET cm == machine[rec.coordinator]
    IN  decisionKnown(cm, t) /\ Decision(cm, t)

recoveredOutcome(g, t) ==
    LET rec == machine[g].txs[t]
    IN  shardCommand(OpOutcome, t, rec.cmd, recoveredCommit(rec, t), rec.debit,
                     rec.coordinator)

-----------------------------------------------------------------------------
(* Actions *)

\* The call of Propose on which w waits returns p.
resume(w, p) ==
    /\ attempt' = [t \in Tx |-> IF t = w THEN continued(attempt[t], p)
                                         ELSE attempt[t]]
    /\ recovery' = [g \in Group |-> IF g = w
                                    THEN recovered(recovery[g], p, machine'[g])
                                    ELSE recovery[g]]

\* The attempt proposes its next entry, on a leader or elsewhere.
Propose(t) ==
    /\ attempt[t].pc \in Steps /\ ~waiting(t)
    /\ \/ /\ Len(queue[target(t)]) < MaxQueue
          /\ queue' = append(queue, target(t), proposal(t), t)
          /\ UNCHANGED <<attempt, recovery>>
       \/ /\ ~stable
          /\ resume(t, notLeader)
          /\ UNCHANGED queue
    /\ UNCHANGED <<machine, elections, stable>>

\* An entry of another leader that took the index of a lost one: its no-op, or
\* the command of somebody else.
foreign == [noop EXCEPT !.op = "foreign"]

\* AppliedResult of such an index: OK:true when the machine has no result for
\* it, as for a Raft no-op, or what the other command did.
foreignResults == {[NoResult EXCEPT !.ok = TRUE], [NoResult EXCEPT !.err = "refused"]}

\* The group applies its next entry, and the waiter gets the result recorded at
\* the index: WaitApplied looks at nothing else.
ApplyAt(g) ==
    /\ queue[g] # <<>>
    /\ LET e == Head(queue[g])
           done == apply(machine[g], e.cmd)
       IN  /\ queue' = [queue EXCEPT ![g] = Tail(@)]
           /\ IF e.cmd = foreign
              THEN /\ UNCHANGED machine
                   /\ \E res \in foreignResults :
                        resume(e.waiter, returned(res, TRUE, FALSE))
              ELSE /\ machine' = [machine EXCEPT ![g] = done.m]
                   /\ resume(e.waiter, returned(done.res, TRUE, FALSE))
    /\ UNCHANGED <<elections, stable>>

\* The caller gives up; the entry remains.
TimeOut(g, k) ==
    /\ ~stable
    /\ queue[g][k].waiter # Nobody
    /\ queue' = [queue EXCEPT ![g][k].waiter = Nobody]
    /\ UNCHANGED <<machine, elections, stable>>
    /\ \E isLeader \in BOOLEAN : resume(queue[g][k].waiter, timedOut(isLeader))

\* The log of the next leader does not have the entry.  Whoever still waits for
\* it waits for its index, which an entry of that leader takes.
Lose(g, k) ==
    /\ ~stable
    /\ queue' = [queue EXCEPT ![g] = IF @[k].waiter = Nobody THEN RemoveAt(@, k)
                                     ELSE [@ EXCEPT ![k].cmd = foreign]]
    /\ UNCHANGED <<machine, attempt, recovery, elections, stable>>

\* The node that serves the request stops.
Crash(t) ==
    /\ ~stable
    /\ attempt[t].pc \in Steps
    /\ attempt' = [attempt EXCEPT ![t] = finished(@, "none")]
    /\ queue' = abandoned(t)
    /\ UNCHANGED <<machine, recovery, elections, stable>>

\* The client tries again with the same key.
Retry(t) ==
    /\ t \in Retried
    /\ attempt[t].pc = "done" /\ attempt[t].n < MaxAttempts
    /\ attempt[t].reply \notin {"ok", "refused", "aborted"}
    /\ attempt' = [attempt EXCEPT ![t] = started(t, @.n + 1)]
    /\ UNCHANGED <<machine, queue, recovery, elections, stable>>

\* A node finds that it has come to lead g and calls RecoverInDoubt.
recoverOnLeadership(g) ==
    /\ elections[g] > 0
    /\ elections' = [elections EXCEPT ![g] = @ - 1]
    /\ recovery' = [recovery EXCEPT ![g] = begun(g)]
    /\ queue' = abandoned(g)
    /\ UNCHANGED <<machine, attempt, stable>>

\* Variant of catchUp: the no-op is proposed and not waited for.
catchUpUnawaited(g) ==
    /\ recovery[g].pc = "catchUp" /\ ~waiting(g)
    /\ Len(queue[g]) < MaxQueue
    /\ queue' = append(queue, g, noop, Nobody)
    /\ recovery' = [recovery EXCEPT ![g] = scanning(InDoubt(machine[g]))]
    /\ UNCHANGED <<machine, attempt, elections, stable>>

\* Recovery first sees a no-op of its own applied.
catchUp(g) ==
    /\ recovery[g].pc = "catchUp" /\ ~waiting(g)
    /\ UNCHANGED <<machine, elections, stable>>
    /\ \/ /\ Len(queue[g]) < MaxQueue
          /\ queue' = append(queue, g, noop, g)
          /\ UNCHANGED <<attempt, recovery>>
       \/ /\ ~stable
          /\ resume(g, notLeader)
          /\ UNCHANGED queue

\* The next in-doubt transaction: it stays blocked if the coordinator's group
\* cannot be asked or this node no longer leads g; otherwise its outcome is
\* proposed.
RecoverInDoubt(g, t) ==
    /\ recovery[g].pc = "scan" /\ t \in recovery[g].todo /\ ~waiting(g)
    /\ recovery' = [recovery EXCEPT ![g] = scanning(@.todo \ {t})]
    /\ \/ /\ Len(queue[g]) < MaxQueue
          /\ queue' = append(queue, g, recoveredOutcome(g, t), g)
       \/ /\ ~stable
          /\ UNCHANGED queue
    /\ UNCHANGED <<machine, attempt, elections, stable>>

\* From here on one node leads every group and the network delivers.
Stabilise ==
    /\ ~stable
    /\ stable' = TRUE
    /\ UNCHANGED <<machine, queue, attempt, recovery, elections>>

Next ==
    \/ \E t \in Tx : Propose(t) \/ Crash(t) \/ Retry(t)
    \/ \E g \in Group : ApplyAt(g) \/ recoverOnLeadership(g) \/ catchUp(g)
    \/ \E g \in Group : \E k \in 1..Len(queue[g]) : TimeOut(g, k) \/ Lose(g, k)
    \/ \E g \in Group, t \in Tx : RecoverInDoubt(g, t)
    \/ Stabilise

Spec == Init /\ [][Next]_vars

\* Once a node leads for good, goroutines run and groups apply what they have.
\* Nothing is assumed of elections: no node is bound to start a recovery.
Fairness ==
    /\ \A t \in Tx : WF_vars(stable /\ Propose(t))
    /\ \A g \in Group : /\ WF_vars(stable /\ ApplyAt(g))
                         /\ WF_vars(stable /\ catchUp(g))
    /\ \A g \in Group, t \in Tx : WF_vars(stable /\ RecoverInDoubt(g, t))

FairSpec == Spec /\ Fairness

-----------------------------------------------------------------------------
phase(g, t) == IF t \in DOMAIN machine[g].txs THEN machine[g].txs[t].phase
                                              ELSE PhaseNone

\* Does the coordinator's group have a decision to commit?
decidedToCommit(t) ==
    LET cm == machine[fromShard(t)] IN decisionKnown(cm, t) /\ Decision(cm, t)

\* The legs of t in the books: "debit" and "credit" of a transfer that spans
\* shards, or the "whole" of a request that does not.
Leg == {"whole", "debit", "credit"}

bookedLegs(t) ==
    {leg \in Leg : \E g \in Group : \E k \in 1..Len(machine[g].state.history) :
        machine[g].state.history[k].key =
            IF leg = "whole" THEN t ELSE internalKey(t, leg)}

\* "safe, because no participant can have committed without a decision
\* existing" (RecoverInDoubt): where one shard commits, the coordinator's group
\* has decided so and the other has not aborted.
AtomicOutcome ==
    \A t \in Crossing :
        PhaseCommitted \in {phase(fromShard(t), t), phase(toShard(t), t)} =>
            /\ decidedToCommit(t)
            /\ PhaseAborted \notin {phase(fromShard(t), t), phase(toShard(t), t)}

noneInDoubt == \A g \in Group, t \in Tx : phase(g, t) # PhasePrepared

\* Once nothing is in doubt, the accounts of all shards together hold what they
\* opened with plus deposits and minus withdrawals.
MoneyConserved ==
    LET entries(g) == machine[g].state.history
        external == MapThenSumSet(
            LAMBDA g : MapThenSumSet(
                LAMBDA k : SumFunction(entries(g)[k].entries),
                {k \in 1..Len(entries(g)) : entries(g)[k].op # OpTransfer}),
            Group)
    IN  noneInDoubt =>
            MapThenSumSet(LAMBDA g : TotalMoney(machine[g].state), Group)
              = external

\* A decision in the coordinator's log is never changed or forgotten:
\* "the transaction's outcome is settled permanently" (applyDecision).
DecisionFinal ==
    [][\A t \in Crossing : LET cm == machine[fromShard(t)] IN
         decisionKnown(cm, t) =>
            /\ decisionKnown(cm, t)'
            /\ Decision(cm, t)' = Decision(cm, t)]_vars

\* A commit is only ever decided on the YES votes of both shards: "so a
\* proposer can learn what its specific entry actually did" (byIndex).
VotesCounted ==
    \A t \in Crossing :
        attempt[t].pc = "decision" /\ attempt[t].commit =>
            {phase(fromShard(t), t), phase(toShard(t), t)} = {PhasePrepared}

\* Every transaction in doubt is resolved once faults end: "skipping is safe
\* (recovery is retried)", "stay blocked and retry later" (RecoverInDoubt).
InDoubtResolved == stable ~> []noneInDoubt

\* A recovery that a node starts when it leads for good leaves its group with
\* nothing in doubt: it finds what was applied before, what is applied while it
\* catches up, and what a decision that is on its way will settle.
RecoveryResolves ==
    \A g \in Group :
        stable /\ recovery[g].pc = "catchUp" /\ ~waiting(g)
            ~> [](\A t \in Tx : phase(g, t) # PhasePrepared)

-----------------------------------------------------------------------------
(* What the coordinator implements *)

\* The outcome of a request that one shard serves is what its books say; that
\* of a transfer across shards is the coordinator's decision, or an abort where
\* a shard has voted NO or has been told to abort.
outcomeOf(t) ==
    LET m == machine[fromShard(t)]
    IN  IF ~spans(t)
        THEN IF t \in DOMAIN m.state.applied
             THEN IF m.state.applied[t].ok THEN "committed" ELSE "aborted"
             ELSE "open"
        ELSE IF decidedToCommit(t) THEN "committed"
        ELSE IF decisionKnown(m, t) \/ phase(toShard(t), t) = PhaseAborted
        THEN "aborted"
        ELSE "open"

\* What the reply claims; the other replies leave the outcome open.
claimOf(t) ==
    IF attempt[t].pc # "done" THEN "none"
    ELSE CASE attempt[t].reply = "ok" -> "committed"
           [] attempt[t].reply \in {"refused", "aborted"} -> "aborted"
           [] OTHER -> "none"

droppedLegs(t) ==
    {leg \in {"debit", "credit"} :
        phase(IF leg = "debit" THEN fromShard(t) ELSE toShard(t), t)
          = PhaseAborted}

Atomic == INSTANCE AtomicTransfer WITH
            outcome <- [t \in Tx |-> outcomeOf(t)],
            booked <- [t \in Tx |-> bookedLegs(t)],
            dropped <- [t \in Tx |-> droppedLegs(t)],
            claim <- [t \in Tx |-> claimOf(t)]

\* Requests are served as AtomicTransfer says: one final outcome that every leg
\* follows; "ok" and "aborted" replies are true and stay true.
ImplementsAtomicTransfer == Atomic!Spec
=============================================================================
