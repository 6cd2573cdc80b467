------------------------------ MODULE MCIntake ------------------------------
(* A small instance of GithubLogin, and with it of WebhookIntake, for TLC. *)
EXTENDS GithubLogin, TLC

CONSTANTS c1, u1

AllBelongTo1 == [s \in Subjects |-> 1]
=============================================================================
