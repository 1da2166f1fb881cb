---------------------------- MODULE AtomicTransfer --------------------------
(***************************************************************************)
(* What a client of the bank is promised about a request, however many     *)
(* shards serve it: it has one outcome, which is final; no leg of it is    *)
(* booked unless it commits or dropped unless it aborts; an answer that    *)
(* claims an outcome is given only when that is the outcome.               *)
(***************************************************************************)
CONSTANTS
    Tx,     \* requests
    Leg     \* what a request books, at most

VARIABLES
    outcome,    \* "open", "committed" or "aborted"
    booked,     \* the legs that are in the books
    dropped,    \* the legs that have been given up
    claim       \* what the client has been told: "committed", "aborted", "none"

vars == <<outcome, booked, dropped, claim>>

Init ==
    /\ outcome = [t \in Tx |-> "open"]
    /\ booked = [t \in Tx |-> {}]
    /\ dropped = [t \in Tx |-> {}]
    /\ claim = [t \in Tx |-> "none"]

\* The outcome is settled, once.
Settle(t) ==
    /\ outcome[t] = "open"
    /\ \E o \in {"committed", "aborted"} :
         outcome' = [outcome EXCEPT ![t] = o]

\* Legs follow the outcome, in any order and also in the step that settles it.
Follow(t) ==
    \/ UNCHANGED <<booked, dropped>>
    \/ /\ outcome'[t] = "committed"
       /\ \E ls \in SUBSET Leg : booked' = [booked EXCEPT ![t] = @ \cup ls]
       /\ UNCHANGED dropped
    \/ /\ outcome'[t] = "aborted"
       /\ \E ls \in SUBSET Leg : dropped' = [dropped EXCEPT ![t] = @ \cup ls]
       /\ UNCHANGED booked

\* The client is told the outcome, or nothing definite.
Claim(t) ==
    \/ UNCHANGED claim
    \/ /\ claim[t] = "none"
       /\ outcome'[t] # "open"
       /\ claim' = [claim EXCEPT ![t] = outcome'[t]]

Next ==
    \E t \in Tx : /\ Settle(t) \/ UNCHANGED outcome
                  /\ Follow(t)
                  /\ Claim(t)

Spec == Init /\ [][Next]_vars
=============================================================================
