---------------------------- MODULE MCPollServer ----------------------------
(***************************************************************************)
(* PollServer for TLC: the clients are alike.                              *)
(***************************************************************************)
EXTENDS PollServer, TLC

Symmetry == Permutations(Clients)
============================================================================
