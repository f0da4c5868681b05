------------------------- MODULE MCVGReactorTick -------------------------
(* Model-checking instance of VGReactorTick: three addresses, so that a    *)
(* claimer, a distinct challenger and a third party all occur, and ties.   *)
EXTENDS VGReactorTick, TLC

CONSTANTS u1, u2, u3

MCUsers == {u1, u2, u3}

(* Addresses are only compared for equality by react.                      *)
MCSymmetry == Permutations(MCUsers)
=============================================================================
