---- MODULE MCPokerHand ----
(* PokerHand for the model checker: the constants are in the cfg files. *)
EXTENDS PokerHand
====
