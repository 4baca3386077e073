---------------------------- MODULE MCTCPSession ----------------------------
(* TCPSession instantiated for TLC.                                         *)
EXTENDS TCPSession_proofs, FiniteSets, TLC

Symmetry == Permutations(Frames) \union Permutations(Workers)
=============================================================================
