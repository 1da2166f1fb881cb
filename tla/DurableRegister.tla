-------------------------- MODULE DurableRegister --------------------------
(***************************************************************************)
(* What the consensus layer expects of a file it saves its state in: a     *)
(* register.  Writes take effect one after the other; a crash may undo the *)
(* latest ones, but none at or before one that was acknowledged; a load    *)
(* returns the latest write that stands, whole, if it can be read at all.  *)
(***************************************************************************)
EXTENDS Naturals, Sequences

CONSTANTS
    Value,      \* what may be written
    Readable    \* what a load can read back

VARIABLES
    writes,   \* the writes that stand, in the order they took effect
    acked,    \* how many of them can no longer be undone
    loaded    \* what the last load returned, 0 for nothing

Init ==
    /\ writes = <<>>
    /\ acked = 0
    /\ loaded = 0

Write ==
    /\ \E v \in Value : writes' = Append(writes, v)
    /\ UNCHANGED <<acked, loaded>>

Ack ==
    /\ acked' \in (acked + 1)..Len(writes)
    /\ UNCHANGED <<writes, loaded>>

Crash ==
    /\ \E k \in acked..Len(writes) : writes' = SubSeq(writes, 1, k)
    /\ UNCHANGED <<acked, loaded>>

Load ==
    /\ loaded' = IF writes # <<>> /\ writes[Len(writes)] \in Readable
                 THEN writes[Len(writes)] ELSE 0
    /\ UNCHANGED <<writes, acked>>

Next == Write \/ Ack \/ Crash \/ Load

Spec == Init /\ [][Next]_<<writes, acked, loaded>>
=============================================================================
