------------------------------ MODULE MCVGGame ------------------------------
(* Model-checking instance of VGGame: the claimer c, the challenger h and  *)
(* a third address o whose agent is a party to nothing.                   *)
EXTENDS VGGame

CONSTANTS c, h, o

MCUsers == {c, h, o}
=============================================================================
