---------------------------- MODULE MCTurnAdmission ----------------------------
(* Instances of TurnAdmission for TLC.                                     *)
EXTENDS TurnAdmission

\* Turns 1 and 3 share a session, turn 2 has its own.
ByParity == [t \in Turns |-> t % 2]
=============================================================================
