------------------------------- MODULE MCRpc -------------------------------
(* A small instance of Rpc for TLC. *)
EXTENDS Rpc

\* A third connection is for the pool; Close meets two at most.
ThirdBeforeClose == dialled = 3 => closing = "no"
=============================================================================
