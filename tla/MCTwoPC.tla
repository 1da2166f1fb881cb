------------------------------- MODULE MCTwoPC ------------------------------
(* Instances of TwoPC for TLC: account x on shard A, account y on shard B,   *)
(* where an account z that was never opened would be as well.                *)
EXTENDS TwoPC

CONSTANTS A, B, x, y, z, t1, t2, t3

MCGroup == {A, B}

\* The ring has a place for every key, the empty account id included.
MCHome == [id \in {x, y, z, NoAccount} |-> IF id = x THEN A ELSE B]

MCFunds == [id \in {x, y} |-> 1]

transfer1(to) == [op |-> OpTransfer, from |-> x, to |-> to, amount |-> 1]
withdraw1 == [op |-> OpWithdraw, from |-> x, to |-> NoAccount, amount |-> 1]

\* One transfer.
OneTx == {t1}
OneRequest == [t \in OneTx |-> transfer1(y)]

OneAlone == {[asked |-> {t1}, elections |-> 0]}
OneRecovered == {[asked |-> {t1}, elections |-> 1]}

\* A transfer, and one of two requests that compete with it for the same money:
\* a transfer that the credit side will vote NO to, or a withdrawal.
CompetingTx == {t1, t2, t3}
CompetingRequests ==
    [t \in CompetingTx |-> CASE t = t1 -> transfer1(y)
                             [] t = t2 -> transfer1(z)
                             [] t = t3 -> withdraw1]
\* The transfer alone with an election in each group, or with a competitor and
\* no election.
RecoveredOrCompeting ==
    OneRecovered \cup {[asked |-> {t1, t}, elections |-> 0] : t \in {t2, t3}}

NoneRetried == {}
TransferRetried == {t1}
WithdrawRetried == {t3}

-----------------------------------------------------------------------------
(* Assumptions of the passing run that the code does not enforce *)

\* No decision about t is about to be logged: no attempt is on its way to one,
\* and none is queued.
settled(t) ==
    /\ attempt[t].pc \notin {"debitPrepare", "creditPrepare", "decision"}
    /\ \A k \in 1..Len(queue[fromShard(t)]) :
         LET cmd == queue[fromShard(t)][k].cmd
         IN  ~(cmd.op = OpDecision /\ cmd.txID = t)

\* Recovery asks for a decision only where none is on its way.
RecoveryWaits ==
    \A g \in Group : \A k \in 1..Len(queue[g]) :
        LET e == queue[g][k]
        IN  e.waiter = g /\ e.cmd.op = OpOutcome => settled(e.cmd.txID)

\* Nobody waits for an index long enough to be answered by a foreign entry.
OwnAnswers ==
    \A g \in Group : \A k \in 1..Len(queue[g]) : queue[g][k].cmd # foreign
=============================================================================
