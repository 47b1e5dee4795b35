------------------------------ MODULE MCTurnClient -----------------------------
(* The turn client and service with a few calls, one prerequisite.         *)
EXTENDS TurnClient
================================================================================
