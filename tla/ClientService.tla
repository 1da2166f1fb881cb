--------------------------- MODULE ClientService ---------------------------
(***************************************************************************)
(* The client API of a node (rpc/client_api.go) with its admission control *)
(* and drain (admission.go, drain.go), over the ledger machine's record of *)
(* results (ledger/codec.go) and a Raft group.                             *)
(*                                                                         *)
(* Every request is a handler goroutine; handlers of one node share its    *)
(* counters and its machine and run in any order.  Clients send a command  *)
(* again, to any node, while it is under way or after its answer.          *)
(*                                                                         *)
(* Consensus is module Raft's subject and appears by its effect: the       *)
(* latest elected leader commits its log; who wins holds everything        *)
(* committed; a deposed leader goes on as one until it hears of the new    *)
(* leader, whose log then replaces its own.  A machine's state is what its *)
(* applied entries make it.                                                *)
(***************************************************************************)
EXTENDS Naturals, Sequences, FiniteSets

CONSTANTS
    Node,
    Handler,      \* the requests under way at once
    Command,      \* requests: an idempotency key and a body each
    Leaving,      \* the nodes that are shut down
    MaxInFlight,  \* Limits.MaxInFlight
    Burst,        \* Limits.PerClientBurst
    MaxAttempts,  \* bound: times clients send a request
    MaxElections, \* bound: changes of leadership
    Nil

VARIABLES
    pc, at, cmd,    \* each handler's step, node and command
    idx,            \* and, once it has proposed, its log index
    reply,          \* each handler's answer, Nil before it
    proposed,       \* history: handlers whose current attempt is in some log
    inFlight,       \* Admitter.inFlight of each node
    tokens,         \* the client's token bucket on each node
    drain,          \* each node's shutdown
    log, applied,   \* each node's log and how much of it its machine applied
    leads,          \* does the node believe it leads?
    leader, commit, \* the latest leader, and how much of its log is committed
    attempts, elections

handlerVars == <<pc, at, cmd, idx, reply, proposed>>
admitVars == <<inFlight, tokens, drain>>
raftVars == <<log, applied, leads, leader, commit>>
vars == <<handlerVars, admitVars, raftVars, attempts, elections>>

-----------------------------------------------------------------------------
(* ledger.Machine *)

entriesFor(lg, key) == {i \in DOMAIN lg : lg[i].key = key}

\* The body that was executed under the key: the first one applied.
executed(lg, key) ==
    LET es == entriesFor(lg, key)
    IN  IF es = {} THEN Nil
        ELSE lg[CHOOSE i \in es : \A j \in es : i <= j].body

\* The body Machine.Apply last recorded a fingerprint of.
fingerprint(lg, key) ==
    LET es == entriesFor(lg, key)
    IN  lg[CHOOSE i \in es : \A j \in es : i >= j].body

\* The result recorded last: the ledger refuses a body other than the first.
recorded(lg, key) ==
    IF fingerprint(lg, key) = executed(lg, key) THEN "ok" ELSE "failed"

running(n) == drain[n] # "stopped"

machine(n) == SubSeq(log[n], 1, applied[n])

\* Machine.Result, Nil when there is none
Result(n, key) ==
    IF entriesFor(machine(n), key) = {} THEN Nil ELSE recorded(machine(n), key)

\* Machine.ResultFor
ResultFor(n, c) ==
    IF entriesFor(machine(n), c.key) = {} THEN Nil
    ELSE IF fingerprint(machine(n), c.key) # c.body THEN "conflict"
    ELSE recorded(machine(n), c.key)

-----------------------------------------------------------------------------

\* The nil command a new leader appends; it has no key.
noOp == [key |-> Nil, body |-> Nil]

\* A leader is at work and its no-op is everywhere.
Init ==
    /\ pc = [h \in Handler |-> "idle"]
    /\ at = [h \in Handler |-> Nil]
    /\ cmd = [h \in Handler |-> Nil]
    /\ idx = [h \in Handler |-> 0]
    /\ reply = [h \in Handler |-> Nil]
    /\ proposed = {}
    /\ inFlight = [n \in Node |-> 0]
    /\ tokens = [n \in Node |-> Burst]
    /\ drain = [n \in Node |-> "no"]
    /\ log = [n \in Node |-> <<noOp>>]
    /\ applied = [n \in Node |-> 1]
    /\ leader \in Node
    /\ leads = [n \in Node |-> n = leader]
    /\ commit = 1
    /\ attempts = 0 /\ elections = 0

\* Handler h's next step.
Goes(h, where) ==
    /\ pc' = [pc EXCEPT ![h] = where]
    /\ UNCHANGED <<at, cmd, idx, reply, proposed>>

\* Handler h answers.
Answers(h, what) ==
    /\ pc' = [pc EXCEPT ![h] = "done"]
    /\ reply' = [reply EXCEPT ![h] = what]
    /\ idx' = [idx EXCEPT ![h] = 0]
    /\ at' = [at EXCEPT ![h] = Nil]
    /\ UNCHANGED <<cmd, proposed>>

\* release: handler h's reservation is given back.
Releases(h) == inFlight' = [inFlight EXCEPT ![at[h]] = @ - 1]

\* An admitted handler answers and its deferred release runs.
Finishes(h, what) ==
    /\ Answers(h, what)
    /\ Releases(h)
    /\ UNCHANGED <<tokens, drain, raftVars, attempts, elections>>

-----------------------------------------------------------------------------
(* The client *)

\* Command c reaches node n in a handler that is free.
Send(h, n, c) ==
    /\ pc[h] \in {"idle", "done"}
    /\ running(n)
    /\ attempts < MaxAttempts
    /\ attempts' = attempts + 1
    /\ pc' = [pc EXCEPT ![h] = "arrived"]
    /\ at' = [at EXCEPT ![h] = n]
    /\ cmd' = [cmd EXCEPT ![h] = c]
    /\ reply' = [reply EXCEPT ![h] = Nil]
    /\ proposed' = proposed \ {h}
    /\ UNCHANGED <<idx, admitVars, raftVars, elections>>

-----------------------------------------------------------------------------
(* Admitter.Admit *)

AdmitDraining(h) ==
    /\ pc[h] = "arrived" /\ drain[at[h]] # "no"
    /\ Answers(h, "busy")
    /\ UNCHANGED <<admitVars, raftVars, attempts, elections>>

\* Not draining; then tokenBucket.allow spends a token or the request is shed.
allow(h) ==
    /\ pc[h] = "arrived" /\ drain[at[h]] = "no"
    /\ IF tokens[at[h]] > 0
       THEN /\ tokens' = [tokens EXCEPT ![at[h]] = @ - 1]
            /\ Goes(h, "allowed")
       ELSE /\ Answers(h, "busy")
            /\ UNCHANGED tokens
    /\ UNCHANGED <<inFlight, drain, raftVars, attempts, elections>>

\* Time passes; the bucket holds Burst tokens at most.
Refill(n) ==
    /\ tokens[n] < Burst
    /\ tokens' = [tokens EXCEPT ![n] = @ + 1]
    /\ UNCHANGED <<handlerVars, inFlight, drain, raftVars, attempts, elections>>

\* Variant of Reserve: the bound is compared before the slot is taken.
ReserveInclusive(h) ==
    /\ pc[h] = "allowed"
    /\ Goes(h, IF inFlight[at[h]] > MaxInFlight THEN "refused" ELSE "admitted")
    /\ inFlight' = [inFlight EXCEPT ![at[h]] = @ + 1]
    /\ UNCHANGED <<tokens, drain, raftVars, attempts, elections>>

\* The slot is taken first, then compared with the bound.
Reserve(h) ==
    /\ pc[h] = "allowed"
    /\ inFlight' = [inFlight EXCEPT ![at[h]] = @ + 1]
    /\ Goes(h, IF inFlight'[at[h]] > MaxInFlight THEN "refused" ELSE "admitted")
    /\ UNCHANGED <<tokens, drain, raftVars, attempts, elections>>

GiveBack(h) ==
    /\ pc[h] = "refused"
    /\ Finishes(h, "busy")

-----------------------------------------------------------------------------
(* ClientService.Submit *)

\* A command the machine has a result for is answered from it.
Lookup(h) ==
    /\ pc[h] = "admitted"
    /\ LET r == ResultFor(at[h], cmd[h])
       IN  IF r # Nil THEN Finishes(h, r)
           ELSE /\ Goes(h, "looked")
                /\ UNCHANGED <<admitVars, raftVars, attempts, elections>>

\* raft.Submit appends to the log of a node that believes it leads.
Propose(h) ==
    /\ pc[h] = "looked" /\ leads[at[h]] /\ running(at[h])
    /\ log' = [log EXCEPT ![at[h]] = Append(@, cmd[h])]
    /\ idx' = [idx EXCEPT ![h] = Len(log'[at[h]])]
    /\ pc' = [pc EXCEPT ![h] = "waiting"]
    /\ proposed' = proposed \cup {h}
    /\ UNCHANGED <<at, cmd, reply, admitVars, applied, leads, leader, commit, attempts,
                   elections>>

Redirect(h) ==
    /\ pc[h] = "looked" /\ ~ (leads[at[h]] /\ running(at[h]))
    /\ Finishes(h, "redirect")

\* Variant of Applied: the index alone says the write is in.
AppliedTrusting(h) ==
    /\ pc[h] = "waiting" /\ applied[at[h]] >= idx[h]
    /\ Finishes(h, "ok")

\* The index was applied: the answer is what is recorded for the key, if
\* anything; the entry there may be another leader's.
Applied(h) ==
    /\ pc[h] = "waiting" /\ applied[at[h]] >= idx[h]
    /\ LET r == Result(at[h], cmd[h].key)
       IN  Finishes(h, IF r = Nil THEN "indeterminate" ELSE r)

\* Variant of LeadershipLost: the client is redirected as if nothing had been
\* proposed.
LeadershipLostRedirects(h) ==
    /\ pc[h] = "waiting" /\ ~ leads[at[h]]
    /\ Finishes(h, "redirect")

\* The ticker finds leadership lost.
LeadershipLost(h) ==
    /\ pc[h] = "waiting" /\ ~ leads[at[h]]
    /\ Finishes(h, "indeterminate")

Deadline(h) ==
    /\ pc[h] = "waiting"
    /\ Finishes(h, "indeterminate")

-----------------------------------------------------------------------------
(* Shutdown: Drain, then the server stops *)

\* The handlers with a slot on node n.
holding(n) ==
    {h \in Handler : at[h] = n /\ pc[h] \in {"admitted", "looked", "waiting"}}

DrainBegins(n) ==
    /\ n \in Leaving /\ drain[n] = "no"
    /\ drain' = [drain EXCEPT ![n] = "draining"]
    /\ UNCHANGED <<handlerVars, inFlight, tokens, raftVars, attempts, elections>>

\* The counter is read as zero before the deadline.
DrainEnds(n) ==
    /\ drain[n] = "draining" /\ inFlight[n] = 0
    /\ drain' = [drain EXCEPT ![n] = "clean"]
    /\ UNCHANGED <<handlerVars, inFlight, tokens, raftVars, attempts,
                   elections>>

\* The deadline: whoever is left is reported.
DrainExpires(n) ==
    /\ drain[n] = "draining"
    /\ drain' = [drain EXCEPT ![n] = "expired"]
    /\ UNCHANGED <<handlerVars, inFlight, tokens, raftVars, attempts,
                   elections>>

\* srv.Stop and rpcServer.Close: the node takes no further part in consensus,
\* though its role stays what it was, and its listener closes.
Stop(n) ==
    /\ drain[n] \in {"clean", "expired"}
    /\ drain' = [drain EXCEPT ![n] = "stopped"]
    /\ UNCHANGED <<handlerVars, inFlight, tokens, raftVars, attempts, elections>>

-----------------------------------------------------------------------------
(* The Raft group *)

\* Node n wins an election and appends its no-op.
Elect(n) ==
    /\ elections < MaxElections
    /\ n # leader /\ running(n)
    /\ Len(log[n]) >= commit
    /\ SubSeq(log[n], 1, commit) = SubSeq(log[leader], 1, commit)
    /\ leader' = n
    /\ leads' = [leads EXCEPT ![n] = TRUE]
    /\ log' = [log EXCEPT ![n] = Append(@, noOp)]
    /\ elections' = elections + 1
    /\ UNCHANGED <<handlerVars, admitVars, applied, commit, attempts>>

\* Node n takes the leader's log and learns who leads.
Replicate(n) ==
    /\ n # leader /\ leads[leader] /\ running(leader) /\ running(n)
    /\ log[n] # log[leader] \/ leads[n]
    /\ log' = [log EXCEPT ![n] = log[leader]]
    /\ leads' = [leads EXCEPT ![n] = FALSE]
    /\ UNCHANGED <<handlerVars, admitVars, applied, leader, commit, attempts, elections>>

\* An entry of the leader's own term, its no-op or a later one, is on a majority:
\* it commits, and everything before it.
Commit ==
    /\ leads[leader] /\ running(leader)
    /\ \E i \in (commit + 1)..Len(log[leader]) :
         /\ \A j \in i + 1..Len(log[leader]) : log[leader][j] # noOp
         /\ commit' = i
    /\ UNCHANGED <<handlerVars, admitVars, log, applied, leads, leader, attempts,
                   elections>>

\* Node n applies its next committed entry.
Apply(n) ==
    /\ running(n) /\ applied[n] < commit
    /\ Len(log[n]) > applied[n]
    /\ SubSeq(log[n], 1, applied[n] + 1) = SubSeq(log[leader], 1, applied[n] + 1)
    /\ applied' = [applied EXCEPT ![n] = @ + 1]
    /\ UNCHANGED <<handlerVars, admitVars, log, leads, leader, commit, attempts,
                   elections>>

-----------------------------------------------------------------------------

Handle(h) ==
    \/ AdmitDraining(h) \/ allow(h) \/ Reserve(h)
    \/ GiveBack(h) \/ Lookup(h) \/ Propose(h) \/ Redirect(h)
    \/ Applied(h) \/ LeadershipLost(h) \/ Deadline(h)

Next ==
    \/ \E h \in Handler : Handle(h) \/ \E n \in Node, c \in Command : Send(h, n, c)
    \/ \E n \in Node : \/ Refill(n)
                       \/ DrainBegins(n) \/ DrainEnds(n) \/ DrainExpires(n)
                       \/ Stop(n)
                       \/ Elect(n) \/ Replicate(n) \/ Apply(n)
    \/ Commit

Spec == Init /\ [][Next]_vars

-----------------------------------------------------------------------------
(* Properties *)

refused(n) == {h \in Handler : at[h] = n /\ pc[h] = "refused"}

\* The counter counts exactly the reservations outstanding, however handlers
\* interleave, are refused or time out, and no more than MaxInFlight of them
\* were admitted.
SlotsAddUp ==
    \A n \in Node :
        /\ inFlight[n] = Cardinality(holding(n)) + Cardinality(refused(n))
        /\ Cardinality(holding(n)) <= MaxInFlight

\* An answer of ok is the truth: this very command was executed under its key,
\* by an entry that is committed and so survives every change of leadership.
OkMeansExecuted ==
    \A h \in Handler :
        reply[h] = "ok" =>
            executed(SubSeq(log[leader], 1, commit), cmd[h].key)
                = cmd[h].body

\* A command that is answered busy, redirect or conflict is in no log and never
\* will be by this attempt: only an indeterminate answer leaves that open.
DefiniteMeansNotProposed ==
    \A h \in Handler :
        reply[h] \in {"busy", "redirect", "conflict"} => h \notin proposed

\* A drain reported clean leaves nobody at work: "zero means a clean drain"
\* (Admitter.Drain).
CleanDrainIsEmpty ==
    \A n \in Node : drain[n] = "clean" => holding(n) = {}
=============================================================================
