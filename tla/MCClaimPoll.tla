---------------------------- MODULE MCClaimPoll ----------------------------
(* Values of ClaimPoll's functions for TLC. *)
EXTENDS ClaimPoll

OneRuntime == [w \in Work |-> CHOOSE r \in Runtimes : TRUE]

OneEach == [r \in Runtimes |-> 1]

=============================================================================
