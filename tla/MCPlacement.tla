------------------------------ MODULE MCPlacement ------------------------------
EXTENDS Placement

\* Node a has a kicker and a caller that retires the scope, which is also its
\* repair after a crash; a request on node b has the scope seated there.
CONSTANTS a, b, ka, ra, xb

MCNodeOf == [c \in Calls |-> IF c = xb THEN b ELSE a]
MCKindsOf == [c \in Calls |-> CASE c = ka -> {"implicit"}
                                [] c = ra -> {"retire", "repair"}
                                [] c = xb -> {"implicit", "repair"}]

\* Node b gives the scope up, and nothing else does.
MCKindsTeardown == [c \in Calls |-> CASE c = ka -> {"implicit"}
                                      [] c = ra -> {}
                                      [] c = xb -> {"declared", "retire"}]
================================================================================
