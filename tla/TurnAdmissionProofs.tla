-------------------------- MODULE TurnAdmissionProofs --------------------------
(***************************************************************************)
(* What the gate promises, for any set of turns and sessions and any       *)
(* number of restarts and faults, when no drained restart is requested     *)
(* during the warmup and, for CleanStaysClean, no turn joins a boot, asks  *)
(* its operator or is refused by its runtime, and no row grows older than  *)
(* the recency window.  TLC shows that none of these conditions can be     *)
(* dropped.                                                                *)
(***************************************************************************)
EXTENDS TurnAdmission, TLAPS

NoWarmupDrain == "warmup_drain" \notin Hazards
NoBootJoin == "boot_join" \notin Hazards
NoAging == "aging" \notin Hazards

\* A turn that has started keeps its runtime busy.
StartedIsBusy == "ask" \notin Hazards /\ "unclaimed" \notin Hazards

\* A restart is under way only in a process whose boot has reopened the gate, so nobody
\* but the restart touches memory and marker.
RestartOwnsGate == ctl # "idle" => boot = "ready" /\ op # 0

\* The inductive strengthening of FenceHolds and DrainSeesSettledAdmissions.
GateInv == TypeOK /\ RestartOwnsGate /\ FenceHolds /\ DrainSeesSettledAdmissions

\* Without joins no row is ever 'queued', hence none is continued through the closed gate.
NothingQueued == \A t \in Turns : turn[t] \notin {"joining", "queued", "resuming", "claimed"}

\* The strengthening for the clean verdict: every active row is counted.
CleanInv ==
  /\ GateInv /\ NothingQueued /\ quiet = {} /\ CleanStaysClean
  /\ \A t \in Turns : seat[t] \in {"unstarted", "busy"}

\* A step of a turn keeps the fence if it changes nothing but stages, wakes the restart as
\* release() does, and enters the pipeline only before the restart has passed waitUntilIdle.
LEMMA MoveKeepsGate ==
  ASSUME GateInv, turn' \in [Turns -> Stages], WakeIdleWaiters(turn'),
         ctl \in {"draining", "clean", "forced"} =>
           \A t \in Turns : turn'[t] \in PipelineStages => turn[t] \in PipelineStages,
         quiet' \subseteq Turns, seat' \in [Turns -> Seats],
         UNCHANGED <<mem, marker, boot, op, faults>>
  PROVE  GateInv'
  <1>1. ctl' = ctl \/ (ctl = "awaiting" /\ ctl' = "draining" /\ Leases(turn') = {})
    BY DEF WakeIdleWaiters
  <1>2. TypeOK' /\ RestartOwnsGate' /\ FenceHolds'
    BY <1>1 DEF GateInv, TypeOK, RestartOwnsGate, FenceHolds, Phases
  <1>3. DrainSeesSettledAdmissions'
    <2>1. CASE ctl' = ctl
      BY <2>1 DEF GateInv, DrainSeesSettledAdmissions
    <2>2. CASE Leases(turn') = {}
      BY <2>2 DEF Leases, LeaseStages, DrainSeesSettledAdmissions
    <2> QED BY <2>1, <2>2, <1>1
  <1> QED BY <1>2, <1>3 DEF GateInv

\* The same for the step of one turn.
LEMMA OneMoveKeepsGate ==
  ASSUME GateInv, NEW t \in Turns, NEW stage \in Stages, Move(t, stage),
         ctl \in {"draining", "clean", "forced"} /\ stage \in PipelineStages =>
           turn[t] \in PipelineStages,
         quiet' \subseteq Turns, seat' \in [Turns -> Seats],
         UNCHANGED <<mem, marker, boot, op, faults>>
  PROVE  GateInv'
  <1>1. turn' = [turn EXCEPT ![t] = stage] /\ turn' \in [Turns -> Stages] /\ WakeIdleWaiters(turn')
    BY DEF Move, GateInv, TypeOK
  <1>2. \A u \in Turns : turn'[u] = IF u = t THEN stage ELSE turn[u]
    BY <1>1 DEF GateInv, TypeOK
  <1> QED BY <1>1, <1>2, MoveKeepsGate

\* Draining the queue of a session leaves every other turn alone and puts none in the pipeline.
LEMMA ContinueQueuedStages ==
  ASSUME NEW session, NEW stages \in [Turns -> Stages],
         NEW after \in ContinueQueued(session, stages)
  PROVE  /\ after \in [Turns -> Stages]
         /\ \A t \in Turns : after[t] = stages[t] \/ (stages[t] = "queued" /\ after[t] = "resuming")
  BY DEF ContinueQueued, Stages

\* The gate is closed to newcomers from close() on: a turn enters or stands in the
\* pipeline only before the restart has seen it idle.
LEMMA TurnKeepsGate ==
  ASSUME GateInv, NEW t \in Turns, TurnStep(t)
  PROVE  GateInv'
  <1> USE DEF GateInv, TypeOK
  <1>1. CASE Admit(t)
    BY <1>1, OneMoveKeepsGate DEF Admit, Stages, RestartOwnsGate, FenceHolds
  <1>2. CASE Route(t)
    <2>1. PICK stage \in {"new", "accepted", "joining"} : Move(t, stage)
      BY <1>2 DEF Route
    <2> QED BY <1>2, <2>1, OneMoveKeepsGate DEF Route, Stages, PipelineStages
  <1>3. CASE JoinEnds(t)
    BY <1>3, OneMoveKeepsGate DEF JoinEnds, Stages, PipelineStages
  <1>4. CASE RouteReturns(t)
    BY <1>4, OneMoveKeepsGate DEF RouteReturns, Stages, PipelineStages
  <1>5. CASE WaitTimesOut(t)
    BY <1>5, OneMoveKeepsGate DEF WaitTimesOut, Detached, Stages, PipelineStages
  <1>6. CASE Start(t)
    <2>1. seat' \in [Turns -> Seats]
      BY <1>6 DEF Start, Seats
    <2> QED BY <1>6, <2>1, OneMoveKeepsGate DEF Start, Stages, PipelineStages
  <1>7. CASE Finish(t)
    <2> DEFINE ended == [turn EXCEPT ![t] = "done"]
    <2>1. ended \in [Turns -> Stages] /\ \A u \in Turns : ended[u] = IF u = t THEN "done" ELSE turn[u]
      BY DEF Stages
    <2>2. turn' \in ContinueQueued(SessionOf[t], ended) /\ WakeIdleWaiters(turn')
      BY <1>7 DEF Finish
    <2> HIDE DEF ended
    <2>3. /\ turn' \in [Turns -> Stages]
          /\ \A u \in Turns : turn'[u] = ended[u] \/ (ended[u] = "queued" /\ turn'[u] = "resuming")
      BY <2>1, <2>2, ContinueQueuedStages
    <2>4. \A u \in Turns : turn'[u] \in PipelineStages => turn[u] \in PipelineStages
      BY <2>1, <2>3 DEF PipelineStages
    <2>5. seat' \in [Turns -> Seats]
      BY <1>7 DEF Finish, Seats
    <2> QED BY <1>7, <2>2, <2>3, <2>4, <2>5, MoveKeepsGate DEF Finish
  <1>8. CASE Continuation(t)
    <2>1. PICK stage \in {"claimed", "submitted", "done"} : Move(t, stage)
      BY <1>8 DEF Continuation
    <2> QED BY <1>8, <2>1, OneMoveKeepsGate DEF Continuation, Stages, PipelineStages
  <1>9. CASE AgeOut(t)
    BY <1>9, AdmissionAssumption DEF AgeOut, Fault, RestartOwnsGate, FenceHolds,
       DrainSeesSettledAdmissions
  <1>10. CASE Ask(t)
    BY <1>10 DEF Ask, Seats, RestartOwnsGate, FenceHolds, DrainSeesSettledAdmissions
  <1> QED BY <1>1, <1>2, <1>3, <1>4, <1>5, <1>6, <1>7, <1>8, <1>9, <1>10 DEF TurnStep

\* What a turn becomes at the end of the process is a stage, and so is its seat.
LEMMA SuccessorStages ==
  ASSUME TypeOK, Successor
  PROVE  turn' \in [Turns -> Stages] /\ seat' \in [Turns -> Seats]
  <1>1. PICK lost \in SUBSET Active :
          /\ turn' = [t \in Turns |-> AfterExit(t, t \in lost)]
          /\ seat' = [t \in Turns |-> IF t \in lost THEN "unstarted" ELSE seat[t]]
    BY DEF Successor
  <1>2. \A t \in Turns : AfterExit(t, t \in lost) \in Stages
    <2> SUFFICES ASSUME NEW t \in Turns PROVE AfterExit(t, t \in lost) \in Stages
      OBVIOUS
    <2>1. turn[t] \in Stages /\ Detached(t) \in Stages
      BY DEF TypeOK, Detached, Stages
    <2> QED BY <2>1 DEF AfterExit, Stages, ActiveStages
  <1> QED BY <1>1, <1>2 DEF TypeOK, Seats

\* The successor starts from the marker, with no restart of its own under way.
LEMMA SuccessorKeepsGate ==
  ASSUME GateInv, Successor, faults' \in 0..MaxFaults
  PROVE  GateInv'
  <1>1. turn' \in [Turns -> Stages] /\ seat' \in [Turns -> Seats]
    BY SuccessorStages DEF GateInv
  <1> QED
    BY <1>1 DEF Successor, GateInv, TypeOK, Phases, RestartOwnsGate, FenceHolds,
       DrainSeesSettledAdmissions

\* Every step keeps the fence: one case per action.
LEMMA NextKeepsGate ==
  ASSUME NoWarmupDrain, GateInv, [Next]_vars
  PROVE  GateInv'
  <1> USE AdmissionAssumption
  <1>1. ASSUME NEW t \in Turns, TurnStep(t) PROVE GateInv'
    BY <1>1, TurnKeepsGate
  <1>2. CASE CloseGate
    BY <1>2 DEF CloseGate, NoWarmupDrain, GateInv, TypeOK, Phases, RestartOwnsGate, FenceHolds,
       DrainSeesSettledAdmissions
  <1>3. CASE PersistClosure
    <2>1. Leases(turn) = {} => \A t \in Turns : turn[t] \notin PipelineStages
      BY DEF Leases, LeaseStages
    <2> QED
      BY <1>3, <2>1 DEF PersistClosure, GateInv, TypeOK, Phases, RestartOwnsGate, FenceHolds,
         DrainSeesSettledAdmissions
  <1>4. CASE PersistFails
    BY <1>4 DEF PersistFails, Fault, GateInv, TypeOK, Phases, RestartOwnsGate, FenceHolds,
       DrainSeesSettledAdmissions
  <1>5. CASE DrainEnds
    BY <1>5 DEF DrainEnds, GateInv, TypeOK, Phases, RestartOwnsGate, FenceHolds,
       DrainSeesSettledAdmissions
  <1>6. CASE DrainThrows \/ ExecutorThrows
    BY <1>6 DEF DrainThrows, ExecutorThrows, Fault, GateInv, TypeOK, Phases, RestartOwnsGate,
       FenceHolds, DrainSeesSettledAdmissions
  <1>7. CASE Execute
    BY <1>7, SuccessorKeepsGate DEF Execute, GateInv, TypeOK
  <1>8. CASE Crash
    BY <1>8, SuccessorKeepsGate DEF Crash, Fault, GateInv, TypeOK
  <1>9. CASE BootStep
    BY <1>9 DEF BootStep, BootReopens, BootUnlinks, BootOpens, GateInv, TypeOK, Phases,
       RestartOwnsGate, FenceHolds, DrainSeesSettledAdmissions
  <1>10. CASE UNCHANGED vars
    BY <1>10 DEF vars, GateInv, TypeOK, RestartOwnsGate, FenceHolds, DrainSeesSettledAdmissions
  <1> QED
    BY <1>1, <1>2, <1>3, <1>4, <1>5, <1>6, <1>7, <1>8, <1>9, <1>10
    DEF Next, RestartStep, FaultStep

\* The first process starts with an open gate and no restart.
LEMMA InitGate == Init => GateInv
  BY AdmissionAssumption DEF Init, GateInv, TypeOK, Stages, Seats, Phases, RestartOwnsGate, FenceHolds,
     DrainSeesSettledAdmissions, PipelineStages

\* The strengthening is an invariant of every behaviour without a drain in the warmup.
THEOREM GateInvariant ==
  ASSUME NoWarmupDrain
  PROVE  Spec => []GateInv
  <1>1. GateInv /\ [Next]_vars => GateInv'
    BY NextKeepsGate
  <1> QED BY <1>1, InitGate, PTL DEF Spec

\* Memory and marker keep the operation of the restart from close() to the end of the
\* process: no admission crosses the durability await and no crash forgets the closure.
THEOREM FenceIsSound ==
  ASSUME NoWarmupDrain
  PROVE  Spec => []FenceHolds
  <1>1. GateInv => FenceHolds
    BY DEF GateInv
  <1> QED BY <1>1, GateInvariant, PTL

\* waitUntilIdle is a real barrier: whatever was inside the pipeline when the gate closed has
\* left it, with its run row written, before the drain reads the rows.
THEOREM DrainIsSettled ==
  ASSUME NoWarmupDrain
  PROVE  Spec => []DrainSeesSettledAdmissions
  <1>1. GateInv => DrainSeesSettledAdmissions
    BY DEF GateInv
  <1> QED BY <1>1, GateInvariant, PTL

\* Without joins a step of a turn queues nothing.
LEMMA TurnQueuesNothing ==
  ASSUME NoBootJoin, GateInv, NothingQueued, NEW t \in Turns, TurnStep(t)
  PROVE  NothingQueued'
  <1> USE DEF GateInv, TypeOK, NothingQueued
  <1>1. CASE Admit(t)
    BY <1>1 DEF Admit, Move
  <1>2. CASE Route(t)
    BY <1>2 DEF Route, Move, NoBootJoin
  <1>3. CASE RouteReturns(t) \/ WaitTimesOut(t) \/ Start(t)
    BY <1>3 DEF RouteReturns, WaitTimesOut, Start, Detached, Move
  <1>4. CASE Finish(t)
    <2>1. turn' = [turn EXCEPT ![t] = "done"]
      BY <1>4 DEF Finish, ContinueQueued
    <2> QED BY <2>1
  <1>5. CASE AgeOut(t) \/ Ask(t)
    BY <1>5 DEF AgeOut, Ask
  <1> QED BY <1>1, <1>2, <1>3, <1>4, <1>5 DEF TurnStep, JoinEnds, Continuation

\* Every step keeps the clean verdict: only DrainEnds gives it, and no turn starts then.
LEMMA NextKeepsClean ==
  ASSUME NoWarmupDrain, NoBootJoin, NoAging, StartedIsBusy, CleanInv, [Next]_vars
  PROVE  CleanInv'
  <1> USE DEF CleanInv
  <1>1. GateInv'
    BY NextKeepsGate
  <1>2. quiet' = {}
    BY DEF NoAging, Next, vars, TurnStep, Admit, Route, JoinEnds, RouteReturns, WaitTimesOut, Start,
       Ask, Finish, Continuation, AgeOut, Fault, CloseGate, RestartStep, PersistClosure, DrainEnds,
       Execute, Successor, BootStep, BootReopens, BootUnlinks, BootOpens, FaultStep, PersistFails,
       DrainThrows, ExecutorThrows, Crash
  <1>3. Successor => ctl' # "clean"
    BY DEF Successor
  <1>4. NothingQueued'
    <2>1. ASSUME NEW t \in Turns, TurnStep(t) PROVE NothingQueued'
      BY <2>1, TurnQueuesNothing
    <2>2. CASE Successor
      <3>1. PICK lost \in SUBSET Active : turn' = [t \in Turns |-> AfterExit(t, t \in lost)]
        BY <2>2 DEF Successor
      <3> QED BY <3>1 DEF NothingQueued, AfterExit, Detached
    <2>3. CASE turn' = turn
      BY <2>3 DEF NothingQueued
    <2> QED BY <2>1, <2>2, <2>3 DEF Next, vars, CloseGate, RestartStep, PersistClosure, DrainEnds,
            Execute, BootStep, BootReopens, BootUnlinks, BootOpens, FaultStep, PersistFails,
            DrainThrows, ExecutorThrows, Crash
  <1>5. CleanStaysClean'
    <2>1. SUFFICES ASSUME ctl' = "clean" PROVE (Leases(turn) = {} /\ Active = {})'
      BY DEF CleanStaysClean
    <2>2. CASE DrainEnds
      <3>1. turn' = turn /\ Active = {}
        BY <2>1, <2>2 DEF DrainEnds, InFlight, Active
      <3>2. \A t \in Turns : turn[t] \notin LeaseStages
        BY <2>2 DEF DrainEnds, LeaseStages, ContinuationStages, GateInv,
           DrainSeesSettledAdmissions, NothingQueued
      <3> QED BY <3>1, <3>2 DEF Leases, Active
    <2>3. CASE ctl = "clean" /\ turn' = turn
      BY <2>3 DEF CleanStaysClean, Active
    <2>4. ASSUME NEW t \in Turns, TurnStep(t) PROVE turn' = turn /\ ctl = "clean"
      <3>1. ctl = "clean"
        BY <2>1, <2>4 DEF TurnStep, Admit, Route, JoinEnds, RouteReturns, WaitTimesOut, Start,
           Ask, Finish, Continuation, AgeOut, Move, WakeIdleWaiters
      <3>2. mem # 0 /\ Active = {} /\ Leases(turn) = {}
        BY <3>1 DEF CleanStaysClean, GateInv, FenceHolds, RestartOwnsGate
      <3>3. turn[t] \notin ActiveStages /\ turn[t] \notin LeaseStages
        BY <3>2 DEF Active, Leases
      <3> QED BY <2>4, <3>1, <3>2, <3>3
              DEF TurnStep, Admit, Route, JoinEnds, RouteReturns, WaitTimesOut, Start, Ask, Finish,
              Continuation, AgeOut, ActiveStages, LeaseStages, PipelineStages, ContinuationStages
    <2>5. CASE ~DrainEnds /\ ~(\E t \in Turns : TurnStep(t))
      BY <2>1, <2>3, <2>5, <1>3 DEF Next, vars, CloseGate, RestartStep, PersistClosure, Execute,
         BootStep, BootReopens, BootUnlinks, BootOpens, FaultStep, PersistFails,
         DrainThrows, ExecutorThrows, Crash
    <2> QED BY <2>2, <2>3, <2>4, <2>5
  <1>6. \A t \in Turns : seat'[t] \in {"unstarted", "busy"}
    <2>1. ASSUME NEW t \in Turns, TurnStep(t)
          PROVE  seat' = seat \/ \E next \in {"unstarted", "busy"} : seat' = [seat EXCEPT ![t] = next]
      BY <2>1 DEF StartedIsBusy, TurnStep, Admit, Route, JoinEnds, RouteReturns, WaitTimesOut, Start,
         Ask, Finish, Continuation, AgeOut
    <2>2. CASE Successor
      BY <2>2 DEF Successor
    <2>3. CASE seat' = seat
      BY <2>3
    <2>4. seat \in [Turns -> Seats]
      BY DEF GateInv, TypeOK
    <2>5. ASSUME NEW t \in Turns, TurnStep(t) PROVE \A u \in Turns : seat'[u] \in {"unstarted", "busy"}
      BY <2>1, <2>4, <2>5
    <2> QED BY <2>2, <2>3, <2>5 DEF Next, vars, CloseGate, RestartStep, PersistClosure, DrainEnds,
            Execute, BootStep, BootReopens, BootUnlinks, BootOpens, FaultStep, PersistFails,
            DrainThrows, ExecutorThrows, Crash
  <1> QED BY <1>1, <1>2, <1>4, <1>5, <1>6

\* A restart granted on a clean recheck kills nothing: no turn holds a lease and no accepted
\* run is unfinished when the executor acts, provided the in-flight query can see every active
\* row (it is recent, and a turn that has started keeps its runtime busy) and no queued row can
\* be continued through the closed gate.
THEOREM CleanRestartIsSafe ==
  ASSUME NoWarmupDrain, NoBootJoin, NoAging, StartedIsBusy
  PROVE  Spec => []CleanStaysClean
  <1>1. Init => CleanInv
    BY InitGate DEF Init, CleanInv, CleanStaysClean, NothingQueued
  <1>2. CleanInv => CleanStaysClean
    BY DEF CleanInv
  <1>3. CleanInv /\ [Next]_vars => CleanInv'
    BY NextKeepsClean
  <1> QED BY <1>1, <1>2, <1>3, PTL DEF Spec

\* Gate, restart, boot and turns keep their shape, also with drains in the warmup: no operation
\* id, stage or fault leaves its range.
THEOREM Typing == Spec => []TypeOK
  <1>1. Init => TypeOK
    BY AdmissionAssumption DEF Init, TypeOK, Stages, Seats, Phases
  <1>2. TypeOK /\ [Next]_vars => TypeOK'
    <2> SUFFICES ASSUME TypeOK, [Next]_vars PROVE TypeOK'
      OBVIOUS
    <2> USE AdmissionAssumption DEF TypeOK, Phases
    <2>1. ASSUME NEW t \in Turns, NEW stage \in Stages, Move(t, stage)
          PROVE  turn' \in [Turns -> Stages] /\ ctl' \in Phases
      BY <2>1 DEF Move, WakeIdleWaiters
    <2>2. ASSUME NEW t \in Turns,
                 \/ Admit(t) \/ Route(t) \/ JoinEnds(t) \/ RouteReturns(t) \/ WaitTimesOut(t)
                 \/ Start(t) \/ Continuation(t)
          PROVE  TypeOK'
      <3>1. PICK stage \in Stages : Move(t, stage)
        BY <2>2 DEF Admit, Route, JoinEnds, RouteReturns, WaitTimesOut, Start, Continuation,
           Detached, Stages
      <3>2. seat' \in [Turns -> Seats]
        BY <2>2 DEF Admit, Route, JoinEnds, RouteReturns, WaitTimesOut, Start, Continuation, Seats
      <3> QED BY <2>1, <2>2, <3>1, <3>2
              DEF Admit, Route, JoinEnds, RouteReturns, WaitTimesOut, Start, Continuation
    <2>3. ASSUME NEW t \in Turns, Finish(t) PROVE TypeOK'
      <3> DEFINE ended == [turn EXCEPT ![t] = "done"]
      <3>1. ended \in [Turns -> Stages] /\ turn' \in ContinueQueued(SessionOf[t], ended)
        BY <2>3 DEF Finish, Stages
      <3> HIDE DEF ended
      <3>2. turn' \in [Turns -> Stages]
        BY <3>1, ContinueQueuedStages
      <3>3. seat' \in [Turns -> Seats]
        BY <2>3 DEF Finish, Seats
      <3> QED BY <2>3, <3>2, <3>3 DEF Finish, WakeIdleWaiters
    <2>4. ASSUME NEW t \in Turns, AgeOut(t) \/ Ask(t) PROVE TypeOK'
      BY <2>4 DEF AgeOut, Ask, Fault, Seats
    <2>5. CASE CloseGate \/ PersistClosure \/ DrainEnds \/ BootStep
      BY <2>5 DEF CloseGate, PersistClosure, DrainEnds, BootStep, BootReopens, BootUnlinks, BootOpens
    <2>6. CASE PersistFails \/ DrainThrows \/ ExecutorThrows
      BY <2>6 DEF PersistFails, DrainThrows, ExecutorThrows, Fault
    <2>7. ASSUME Successor, faults' \in 0..MaxFaults PROVE TypeOK'
      BY <2>7, SuccessorStages DEF Successor
    <2>8. CASE Execute \/ Crash
      BY <2>7, <2>8 DEF Execute, Crash, Fault
    <2>9. CASE UNCHANGED vars
      BY <2>9 DEF vars
    <2> QED BY <2>2, <2>3, <2>4, <2>5, <2>6, <2>8, <2>9
            DEF Next, TurnStep, RestartStep, FaultStep
  <1> QED BY <1>1, <1>2, PTL DEF Spec

\* No step fails between the durable closure and the end of the process.
NothingThrows == "drain_error" \notin Hazards /\ "executor" \notin Hazards

\* The strengthening for the owner of a closure: the boot starts from the marker and removes it
\* first, and a restart closes an open gate without one.
OwnerInv ==
  /\ GateInv /\ ClosureHasOwner
  /\ boot = "warming" => mem = marker
  /\ boot = "opening" => marker = 0
  /\ ctl = "closing" => marker = 0

\* Every step that gives a closure up leaves somebody to open the gate: one case per action.
LEMMA NextKeepsOwner ==
  ASSUME NoWarmupDrain, NothingThrows, OwnerInv, [Next]_vars
  PROVE  OwnerInv'
  <1> USE DEF OwnerInv
  <1>1. GateInv'
    BY NextKeepsGate
  <1> DEFINE Owned ==
        /\ ClosureHasOwner
        /\ boot = "warming" => mem = marker
        /\ boot = "opening" => marker = 0
        /\ ctl = "closing" => marker = 0
  <1> SUFFICES Owned'
    BY <1>1
  <1>2. ASSUME NEW t \in Turns, TurnStep(t) PROVE Owned'
    <2>1. UNCHANGED <<mem, marker, boot>>
      BY <1>2 DEF TurnStep, Admit, Route, JoinEnds, RouteReturns, WaitTimesOut, Start, Ask, Finish,
         Continuation, AgeOut
    <2>2. ctl' = ctl \/ (ctl = "awaiting" /\ ctl' = "draining")
      BY <1>2 DEF TurnStep, Admit, Route, JoinEnds, RouteReturns, WaitTimesOut, Start, Ask, Finish,
         Continuation, AgeOut, Move, WakeIdleWaiters
    <2> QED BY <2>1, <2>2 DEF ClosureHasOwner
  <1>3. CASE CloseGate
    BY <1>3 DEF CloseGate, NoWarmupDrain, ClosureHasOwner
  <1>4. CASE PersistClosure \/ DrainEnds
    BY <1>4 DEF PersistClosure, DrainEnds, ClosureHasOwner, GateInv, RestartOwnsGate
  <1>5. CASE PersistFails
    BY <1>5 DEF PersistFails, ClosureHasOwner, GateInv, RestartOwnsGate
  <1>6. CASE Execute \/ Crash
    BY <1>6 DEF Execute, Crash, Successor, ClosureHasOwner
  <1>7. CASE BootStep
    BY <1>7 DEF BootStep, BootReopens, BootUnlinks, BootOpens, ClosureHasOwner, GateInv,
       RestartOwnsGate
  <1>8. CASE UNCHANGED vars
    BY <1>8 DEF vars, ClosureHasOwner
  <1>9. ~DrainThrows /\ ~ExecutorThrows
    BY DEF NothingThrows, DrainThrows, ExecutorThrows, Fault
  <1> HIDE DEF Owned
  <1> QED BY <1>2, <1>3, <1>4, <1>5, <1>6, <1>7, <1>8, <1>9 DEF Next, RestartStep, FaultStep

\* Crashes, failed writes, joins and aging orphan no closure: the safety half of EveryClosureEnds.
THEOREM ClosuresAreOwned ==
  ASSUME NoWarmupDrain, NothingThrows
  PROVE  Spec => []ClosureHasOwner
  <1>1. Init => OwnerInv
    BY InitGate DEF Init, OwnerInv, ClosureHasOwner
  <1>2. OwnerInv /\ [Next]_vars => OwnerInv'
    BY NextKeepsOwner
  <1>3. OwnerInv => ClosureHasOwner
    BY DEF OwnerInv
  <1> QED BY <1>1, <1>2, <1>3, PTL DEF Spec
=============================================================================
