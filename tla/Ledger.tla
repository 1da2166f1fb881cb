------------------------------- MODULE Ledger -------------------------------
(***************************************************************************)
(* Package ledger: the deterministic state machine of one shard's books.   *)
(*                                                                         *)
(* A ledger.State is a record of finite maps (functions on the keys they   *)
(* hold).  Every method runs under State.mu, so each is one operator from  *)
(* the state and its arguments to the next state and the Result, as a      *)
(* record [st, res].  seq is not kept: record is the only writer of seq    *)
(* and of history and moves them together, so seq is the length of         *)
(* history.  A fingerprint is the tuple of the fields it digests.          *)
(***************************************************************************)
EXTENDS Integers, Sequences, FiniteSets, FiniteSetsExt, Functions

CONSTANTS
    Tx,         \* ids of distributed transactions
    NoKey,      \* the empty idempotency key
    NoAccount,  \* the empty account id
    NoTime,     \* the zero timestamp
    MaxMoney    \* maxMoney, the largest int64

ASSUME MoneyAssumption == MaxMoney \in Nat

OpDeposit == "Deposit"
OpWithdraw == "Withdraw"
OpTransfer == "Transfer"
OpOpenAccount == "OpenAccount"

-----------------------------------------------------------------------------
(* Go maps and results *)

EmptyMap == [x \in {} |-> x]

put(f, k, v) == [x \in DOMAIN f \cup {k} |-> IF x = k THEN v ELSE f[x]]

delete(f, k) == Restrict(f, DOMAIN f \ {k})

\* What a method leaves and returns: success with a balance, or an error.
okWith(s, balance) ==
    [st |-> s, res |-> [ok |-> TRUE, err |-> "", balance |-> balance]]

failWith(s, err, balance) ==
    [st |-> s, res |-> [ok |-> FALSE, err |-> err, balance |-> balance]]

fail(s, err) == failWith(s, err, 0)

-----------------------------------------------------------------------------
(* Keys and requests *)

fingerprint(cmd) == <<cmd.op, cmd.from, cmd.to, cmd.amount>>

\* Keys of the 2PC bookkeeping, in a namespace that no client may use.
internalKey(txID, leg) == <<"!2pc!:", txID, leg>>

internalKeys == {internalKey(t, leg) : t \in Tx, leg \in {"debit", "credit"}}

-----------------------------------------------------------------------------
(* State *)

New == [balances |-> EmptyMap, applied |-> EmptyMap,
        fingerprints |-> EmptyMap, history |-> <<>>, reserves |-> EmptyMap]

\* entries maps each account of the transaction to its signed amount.
record(s, op, key, ts, entries) ==
    [s EXCEPT !.history = Append(@, [op |-> op, key |-> key, ts |-> ts,
                                     entries |-> entries])]

\* The double-entry check of one transaction.  record panics on a failure.
balances(t) ==
    \/ t.op # OpTransfer
    \/ Cardinality(DOMAIN t.entries) = 1
    \/ SumFunction(t.entries) = 0

\* Variant of credit: the balance is replaced, not added to.
replaced(s, account, amount) == [s EXCEPT !.balances[account] = amount]

credit(s, account, amount) == [s EXCEPT !.balances[account] = @ + amount]

reservedLocked(s, id) ==
    MapThenSumSet(LAMBDA t : s.reserves[t].amount,
                  {t \in DOMAIN s.reserves : s.reserves[t].account = id})

\* Variant of availableLocked: the balance, promised or not.
balanceOf(s, id) == s.balances[id]

\* Asked for existing accounts only.
availableLocked(s, id) == s.balances[id] - reservedLocked(s, id)

exists(s, id) == id \in DOMAIN s.balances

wouldOverflow(s, id, amount) == s.balances[id] > MaxMoney - amount

-----------------------------------------------------------------------------
(* applyLocked, one operator per operation *)

openAccount(s, cmd) ==
    IF exists(s, cmd.to) THEN fail(s, "account already exists")
    ELSE IF cmd.amount < 0 THEN fail(s, "invalid amount")
    ELSE okWith(record([s EXCEPT !.balances = put(@, cmd.to, cmd.amount)],
                       cmd.op, cmd.key, cmd.ts,
                       put(EmptyMap, cmd.to, cmd.amount)),
                cmd.amount)

deposit(s, cmd) ==
    IF cmd.amount <= 0 THEN fail(s, "invalid amount")
    ELSE IF ~exists(s, cmd.to) THEN fail(s, "no such account")
    ELSE IF wouldOverflow(s, cmd.to, cmd.amount) THEN fail(s, "overflow")
    ELSE okWith(record(credit(s, cmd.to, cmd.amount),
                       cmd.op, cmd.key, cmd.ts,
                       put(EmptyMap, cmd.to, cmd.amount)),
                s.balances[cmd.to] + cmd.amount)

withdraw(s, cmd) ==
    IF cmd.amount <= 0 THEN fail(s, "invalid amount")
    ELSE IF ~exists(s, cmd.from) THEN fail(s, "no such account")
    ELSE LET bal == availableLocked(s, cmd.from)
         IN  IF bal < cmd.amount
             THEN failWith(s, "insufficient funds", bal)
             ELSE okWith(record(credit(s, cmd.from, -cmd.amount),
                                cmd.op, cmd.key, cmd.ts,
                                put(EmptyMap, cmd.from, -cmd.amount)),
                         s.balances[cmd.from] - cmd.amount)

transfer(s, cmd) ==
    IF cmd.amount <= 0 THEN fail(s, "invalid amount")
    ELSE IF cmd.from = cmd.to THEN fail(s, "same account")
    ELSE IF ~exists(s, cmd.from) \/ ~exists(s, cmd.to)
         THEN fail(s, "no such account")
    ELSE IF availableLocked(s, cmd.from) < cmd.amount
         THEN failWith(s, "insufficient funds", availableLocked(s, cmd.from))
    ELSE IF wouldOverflow(s, cmd.to, cmd.amount) THEN fail(s, "overflow")
    ELSE okWith(record(credit(credit(s, cmd.from, -cmd.amount),
                              cmd.to, cmd.amount),
                       cmd.op, cmd.key, cmd.ts,
                       put(put(EmptyMap, cmd.from, -cmd.amount),
                           cmd.to, cmd.amount)),
                s.balances[cmd.from] - cmd.amount)

applyLocked(s, cmd) ==
    CASE cmd.op = OpOpenAccount -> openAccount(s, cmd)
      [] cmd.op = OpDeposit     -> deposit(s, cmd)
      [] cmd.op = OpWithdraw    -> withdraw(s, cmd)
      [] cmd.op = OpTransfer    -> transfer(s, cmd)
      [] OTHER                  -> fail(s, "unknown op")

\* Variant of seen: a request that failed may be tried again.
seenToSucceed(s, key) == key \in DOMAIN s.applied /\ s.applied[key].ok

seen(s, key) == key \in DOMAIN s.applied

\* A retry of the same request is answered with the result of the first one;
\* the key of another request is refused.
Apply(s, cmd) ==
    IF cmd.key = NoKey THEN fail(s, "idempotency key required")
    ELSE IF cmd.key \in internalKeys THEN fail(s, "reserved prefix")
    ELSE IF seen(s, cmd.key)
         THEN IF s.fingerprints[cmd.key] # fingerprint(cmd)
              THEN fail(s, "idempotency conflict")
              ELSE [st |-> s, res |-> s.applied[cmd.key]]
    ELSE LET a == applyLocked(s, cmd)
         IN  [a EXCEPT !.st.applied = put(@, cmd.key, a.res),
                       !.st.fingerprints = put(@, cmd.key, fingerprint(cmd))]

-----------------------------------------------------------------------------
(* Reservations for cross-shard transfers, reserve.go *)

\* The participant's YES vote on the debit side: the funds are held.
PrepareDebit(s, txID, account, amount) ==
    IF amount <= 0 THEN fail(s, "invalid amount")
    ELSE IF ~exists(s, account) THEN fail(s, "no such account")
    ELSE IF txID \in DOMAIN s.reserves
         THEN IF s.reserves[txID] # [account |-> account, amount |-> amount]
              THEN fail(s, "refusing to rebind")
              ELSE okWith(s, availableLocked(s, account))
    ELSE IF availableLocked(s, account) < amount
         THEN failWith(s, "insufficient funds", availableLocked(s, account))
    ELSE okWith([s EXCEPT !.reserves = put(@, txID, [account |-> account,
                                                     amount |-> amount])],
                availableLocked(s, account) - amount)

PrepareCredit(s, account, amount) ==
    IF amount <= 0 THEN fail(s, "invalid amount")
    ELSE IF ~exists(s, account) THEN fail(s, "no such account")
    ELSE okWith(s, s.balances[account])

\* The reservation becomes a debit.
CommitDebit(s, txID, ts) ==
    IF txID \notin DOMAIN s.reserves THEN fail(s, "no reservation held")
    ELSE LET r == s.reserves[txID]
             debited == [credit(s, r.account, -r.amount) EXCEPT
                            !.reserves = delete(@, txID)]
         IN  okWith(record(debited, OpTransfer, internalKey(txID, "debit"), ts,
                           put(EmptyMap, r.account, -r.amount)),
                    debited.balances[r.account])

\* The credit side; a second delivery is answered from the applied map.
CommitCredit(s, txID, account, amount, ts) ==
    LET key == internalKey(txID, "credit")
        credited == record(credit(s, account, amount), OpTransfer, key, ts,
                           put(EmptyMap, account, amount))
        done == okWith(credited, s.balances[account] + amount)
    IN  IF seen(s, key) THEN [st |-> s, res |-> s.applied[key]]
        ELSE IF ~exists(s, account) THEN fail(s, "no such account")
        ELSE IF wouldOverflow(s, account, amount) THEN fail(s, "overflow")
        ELSE [done EXCEPT !.st.applied = put(@, key, done.res)]

\* Releases what is held, if anything.
AbortTx(s, txID) ==
    IF txID \notin DOMAIN s.reserves THEN okWith(s, 0)
    ELSE LET released == [s EXCEPT !.reserves = delete(@, txID)]
         IN  okWith(released,
                    availableLocked(released, s.reserves[txID].account))

-----------------------------------------------------------------------------
\* State.Snapshot then State.RestoreSnapshot: each map is written out and read
\* back, and so is history with the timestamp of every transaction.
snapshotState(s) ==
    [balances |-> s.balances, applied |-> s.applied,
     fingerprints |-> s.fingerprints, history |-> s.history,
     reserves |-> s.reserves]

-----------------------------------------------------------------------------
(* The audit functions *)

\* The amount that history books on an account.
derived(s, id) ==
    MapThenSumSet(LAMBDA k : s.history[k].entries[id],
                  {k \in 1..Len(s.history) :
                      id \in DOMAIN s.history[k].entries})

VerifyDoubleEntry(s) ==
    /\ \A k \in 1..Len(s.history) : balances(s.history[k])
    /\ UNION {DOMAIN s.history[k].entries : k \in 1..Len(s.history)}
         = DOMAIN s.balances
    /\ \A id \in DOMAIN s.balances : derived(s, id) = s.balances[id]

TotalMoney(s) == SumFunction(s.balances)
=============================================================================
