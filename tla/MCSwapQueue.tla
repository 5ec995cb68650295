---- MODULE MCSwapQueue ----
(* Instances of SwapQueue for TLC. *)
EXTENDS SwapQueue, TLC

WindowSymmetry == Permutations(Drawables)
====
