-------------------------- MODULE MCBrokerProjection --------------------------
(* Small instances of BrokerProjection.                                    *)
EXTENDS BrokerProjection

\* No envelope depends on another for its run.
NoEvidence == [s \in Seqs |-> 0]

\* Envelope 3 belongs to the run that envelope 2 (turn.started) names.
TurnStartAt2 == [s \in Seqs |-> IF s = 3 THEN 2 ELSE 0]
=============================================================================
