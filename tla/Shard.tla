-------------------------------- MODULE Shard -------------------------------
(***************************************************************************)
(* The state machine a shard's Raft group replicates (shard/machine.go): a *)
(* ledger plus the durable records of distributed transactions.  Each      *)
(* committed log entry is applied by one call of apply, here an operator   *)
(* from a machine and a command to the next machine and the Result.        *)
(*                                                                         *)
(* byIndex only hands the Result of an entry to its proposer, so it is not *)
(* part of the machine.  A record's participants only serve records that   *)
(* name no coordinator, which none of the writers below leaves behind.     *)
(***************************************************************************)
EXTENDS Ledger

CONSTANT NoShard    \* the empty shard id

PhaseNone == "None"
PhasePrepared == "Prepared"
PhaseCommitted == "Committed"
PhaseAborted == "Aborted"

OpPrepare == "Prepare"
OpDecision == "Decision"
OpOutcome == "Outcome"
OpSingle == "Single"

\* A shard.Command: op, txID, ledger command, commit, debit and coordinator.
shardCommand(op, t, lcmd, commit, debit, coord) ==
    [op |-> op, txID |-> t, ledger |-> lcmd, commit |-> commit,
     debit |-> debit, coordinator |-> coord]

txRecord(phase, lcmd, debit, coord, decided, commit) ==
    [phase |-> phase, cmd |-> lcmd, debit |-> debit, coordinator |-> coord,
     decided |-> decided, commit |-> commit]

NewMachine(st) == [state |-> st, txs |-> EmptyMap, results |-> EmptyMap]

\* A machine and a result; the answers that leave the machine alone.
answer(m, res) == [m |-> m, res |-> res]

accepted(m) == answer(m, [ok |-> TRUE, err |-> "", balance |-> 0])

refused(m, err) == answer(m, [ok |-> FALSE, err |-> err, balance |-> 0])

terminal(rec) == rec.phase \in {PhaseCommitted, PhaseAborted}

-----------------------------------------------------------------------------
\* A transaction id is single-use.
singleUse(rec) == rec.decided \/ terminal(rec)

\* OpPrepare: the vote.  YES reserves the funds; NO is recorded as an abort.
applyPrepare(m, cmd) ==
    LET known == cmd.txID \in DOMAIN m.txs
        l == cmd.ledger
        vote == IF cmd.debit
                THEN PrepareDebit(m.state, cmd.txID, l.from, l.amount)
                ELSE PrepareCredit(m.state, l.to, l.amount)
        rec == IF vote.res.ok
               THEN txRecord(PhasePrepared, l, cmd.debit, cmd.coordinator,
                             FALSE, FALSE)
               ELSE txRecord(PhaseAborted, l, cmd.debit, NoShard, TRUE, FALSE)
    IN  IF known /\ singleUse(m.txs[cmd.txID])
        THEN refused(m, "transaction ids are single-use")
        ELSE IF known /\ m.txs[cmd.txID].phase = PhasePrepared
        THEN accepted(m)
        ELSE answer([m EXCEPT !.state = vote.st,
                              !.txs = put(@, cmd.txID, rec)], vote.res)

\* OpDecision: what the coordinator decided.  It overwrites an earlier one.
applyDecision(m, cmd) ==
    LET rec == IF cmd.txID \in DOMAIN m.txs
               THEN m.txs[cmd.txID]
               ELSE txRecord(PhaseNone, cmd.ledger, cmd.debit, NoShard,
                             FALSE, FALSE)
    IN  accepted([m EXCEPT !.txs =
                    put(@, cmd.txID,
                        [rec EXCEPT !.decided = TRUE,
                                    !.commit = cmd.commit,
                                    !.coordinator =
                                       IF cmd.coordinator # NoShard
                                       THEN cmd.coordinator ELSE @])])

\* The command's own timestamp, else the one kept at prepare time.
outcomeTimestamp(cmd, rec) ==
    IF cmd.ledger.ts # NoTime THEN cmd.ledger.ts ELSE rec.cmd.ts

\* Variant of released: the reservation stays.
keptOnAbort(s, txID) == okWith(s, 0)

\* What an abort does to the books.
released(s, txID) == AbortTx(s, txID)

\* Variant of isFinal: a repeated outcome is applied again.
neverFinal(rec) == FALSE

isFinal(rec) == terminal(rec)

\* OpOutcome: the decision takes effect on the books, once.
applyOutcome(m, cmd) ==
    LET rec == m.txs[cmd.txID]
        ts == outcomeTimestamp(cmd, rec)
        booked == IF ~cmd.commit THEN released(m.state, cmd.txID)
                  ELSE IF rec.debit THEN CommitDebit(m.state, cmd.txID, ts)
                  ELSE CommitCredit(m.state, cmd.txID, rec.cmd.to,
                                    rec.cmd.amount, ts)
        over == [rec EXCEPT !.phase = IF cmd.commit THEN PhaseCommitted
                                                    ELSE PhaseAborted,
                            !.decided = TRUE,
                            !.commit = cmd.commit]
    IN  IF cmd.txID \notin DOMAIN m.txs
        THEN refused(m, "outcome for unknown transaction")
        ELSE IF isFinal(rec) THEN accepted(m)
        ELSE answer([m EXCEPT !.state = booked.st,
                              !.txs = put(@, cmd.txID, over)], booked.res)

\* OpSingle: a ledger command, its result recorded under its key.
applySingle(m, cmd) ==
    LET a == Apply(m.state, cmd.ledger)
        key == cmd.ledger.key
    IN  answer([m EXCEPT !.state = a.st,
                         !.results = IF key = NoKey THEN @
                                     ELSE put(@, key, a.res)], a.res)

apply(m, cmd) ==
    CASE cmd.op = OpSingle   -> applySingle(m, cmd)
      [] cmd.op = OpPrepare  -> applyPrepare(m, cmd)
      [] cmd.op = OpDecision -> applyDecision(m, cmd)
      [] cmd.op = OpOutcome  -> applyOutcome(m, cmd)
      [] OTHER               -> refused(m, "unknown op")

-----------------------------------------------------------------------------
InDoubt(m) == {t \in DOMAIN m.txs : m.txs[t].phase = PhasePrepared}

\* Is a decision known here, and which?
decisionKnown(m, t) == t \in DOMAIN m.txs /\ m.txs[t].decided

Decision(m, t) == m.txs[t].commit

-----------------------------------------------------------------------------
(* Snapshots *)

\* Variant of snapshotCommand: the command is left out altogether.
commandDropped(lcmd) == [lcmd EXCEPT !.amount = 0, !.ts = NoTime]

\* A record's ledger command is written field by field: op, key, accounts and
\* amount.  The timestamp is not among them.
snapshotCommand(lcmd) == [lcmd EXCEPT !.ts = NoTime]

\* Snapshot followed by RestoreSnapshot, on this node or on another.
restored(m) ==
    [state |-> snapshotState(m.state),
     txs |-> [t \in DOMAIN m.txs |->
                [m.txs[t] EXCEPT !.cmd = snapshotCommand(@)]],
     results |-> m.results]
=============================================================================
