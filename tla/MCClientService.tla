-------------------------- MODULE MCClientService --------------------------
(* Small instances of ClientService for TLC. *)
EXTENDS ClientService, TLC

CONSTANTS k1, k2

HandlerSymmetry == Permutations(Handler)

RequestSymmetry == HandlerSymmetry \cup Permutations({k1, k2})

\* Every key stands for one body: what is sent again is the same command.
KeysUnique == {[key |-> k, body |-> "b1"] : k \in {k1, k2}}

\* Two different bodies under one key.
KeyReused == {[key |-> k1, body |-> b] : b \in {"b1", "b2"}}
=============================================================================
