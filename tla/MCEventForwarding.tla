--------------------------- MODULE MCEventForwarding ---------------------------
(* Instances of EventForwarding for TLC.                                   *)
EXTENDS EventForwarding

FourAndTwo == [hrc_events |-> 4, broker_invocation_events |-> 2]
TwoEach == [f \in Feeds |-> 2]

Lifecycle(S) == {"hrc_events"} \X S
Broker(S) == {"broker_invocation_events"} \X S

\* Of the lifecycle rows 1 and 3 carry spilled results, 3 with a part that fits no frame; 3 is
\* foreign and 4 oversized; the two daemons may derive the identity of 2 differently.  The broker
\* rows are retained.
SpilledOdd == Lifecycle({1, 3})
HugeThird == Lifecycle({3})
ForeignThird == Lifecycle({3})
UnstableSecond == Lifecycle({2})
HugeRow == Lifecycle({4})
RetainedBroker == Broker({1, 2})
SpilledTwo == Lifecycle({1, 2})
Nothing == {}

\* Every row has a runtime of its own.
OwnRuntime == [r \in Rows |-> r]
=============================================================================
