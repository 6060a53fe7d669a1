---------------------------- MODULE MCHybridKEM ----------------------------
(***************************************************************************)
(* Small instances of HybridKEM: two sessions, which may each initiate,    *)
(* respond, or both.                                                       *)
(***************************************************************************)
EXTENDS HybridKEM, TLC

SessionSymmetry == Permutations(Sessions)
=============================================================================
