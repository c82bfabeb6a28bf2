----------------------------- MODULE MCMasterData -----------------------------
(* MasterData with three requests; they and nothing else are interchangeable. *)
EXTENDS MasterData, TLC

MCSymmetry == Permutations(Requests)
===============================================================================
