----------------------------- MODULE MCCITriage -----------------------------
(* A small instance of CITriage for TLC. *)
EXTENDS CITriage, TLC

CONSTANTS w1, w2
=============================================================================
