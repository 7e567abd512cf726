---------------------------- MODULE MCXpLedger ----------------------------
(* A small instance: at most one account and one guest, one session each. *)
EXTENDS XpLedger
=============================================================================
