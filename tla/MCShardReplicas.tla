-------------------------- MODULE MCShardReplicas ---------------------------
(* Instances of ShardReplicas for TLC: one shard with two accounts, a few    *)
(* client requests that share keys, one transfer out (t1) and one in (t2).   *)
EXTENDS ShardReplicas

CONSTANTS x, y, z, k0, k1, k2, t1, t2, s1, s2, noon, r1, r2

lcmd(op, key, from, to, amount, ts) ==
    [op |-> op, key |-> key, from |-> from, to |-> to, amount |-> amount,
     ts |-> ts]

single(l) == shardCommand(OpSingle, NoKey, l, FALSE, FALSE, NoShard)

MCOpening == << lcmd(OpOpenAccount, k0, NoAccount, x, 2, NoTime) >>

out == lcmd(OpTransfer, t1, x, z, 2, noon)
in == lcmd(OpTransfer, t2, z, x, 1, noon)

MCSingles == {single(l) : l \in
    { lcmd(OpWithdraw, k1, x, NoAccount, 1, noon),
      lcmd(OpWithdraw, k1, x, NoAccount, 2, noon),
      lcmd(OpDeposit, k2, NoAccount, x, 1, noon),
      lcmd(OpOpenAccount, k2, NoAccount, y, 0, noon),
      lcmd(OpTransfer, k0, x, y, 1, noon),
      lcmd(OpTransfer, internalKey(t2, "credit"), x, y, 1, noon),
      lcmd(OpDeposit, NoKey, NoAccount, NoAccount, 0, NoTime) }}

MCLegs ==
    { shardCommand(OpPrepare, t1, out, FALSE, TRUE, s1),
      shardCommand(OpPrepare, t2, in, FALSE, FALSE, s2),
      shardCommand(OpDecision, t1, out, TRUE, TRUE, s1),
      shardCommand(OpDecision, t1, out, FALSE, TRUE, s1),
      shardCommand(OpOutcome, t1, out, TRUE, TRUE, s1),
      shardCommand(OpOutcome, t1, out, FALSE, TRUE, s1),
      shardCommand(OpOutcome, t2, in, TRUE, FALSE, s2),
      shardCommand(OpOutcome, t2, in, FALSE, FALSE, s2) }

MCCommands == MCSingles \cup MCLegs
MCReplica == {r1, r2}
MCTx == {t1, t2}
=============================================================================
