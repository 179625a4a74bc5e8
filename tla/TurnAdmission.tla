----------------------------- MODULE TurnAdmission -----------------------------
(***************************************************************************)
(* TurnAdmissionGate together with those who meet at it: the turns that    *)
(* take leases of it (runLeasedAdmission, continuations of queued runs),   *)
(* the drained restart of the lifecycle controller that closes it, and the *)
(* boot of the successor that reopens it.                                  *)
(*                                                                         *)
(* The gate keeps its state twice: `mem` for the admissions of this        *)
(* process and the file `marker` for the next one.  They change in         *)
(* different steps, around awaits.                                         *)
(***************************************************************************)
EXTENDS Integers, FiniteSets

CONSTANTS
  Turns,      \* headless turns that clients submit
  SessionOf,  \* host session of each turn
  Hazards,    \* what the environment may do, of AllHazards
  MaxOps,     \* bound on the drained restarts of one behaviour
  MaxFaults   \* bound on the faults of one behaviour

\* "boot_join": a turn arrives while the runtime of its session is still booting.
\* "warmup_drain": a drained restart is requested before the boot has finished.
\* "aging": a row shows no activity for IN_FLIGHT_RECENCY_MS.
\* "ask": a turn opens an ask bracket and its runtime waits for the answer.
\* "unclaimed": the runtime refuses a turn that starts, claimRuntimeTurnOwnership.
AllHazards == {"crash", "persist", "executor", "drain_error", "boot_join", "warmup_drain",
               "aging", "ask", "unclaimed"}

ASSUME AdmissionAssumption ==
  /\ Hazards \subseteq AllHazards
  /\ MaxOps \in Nat /\ MaxFaults \in Nat

VARIABLES
  mem,      \* gate.closed: 0 when open, else the operation that closed it
  marker,   \* operation in turn-admission.json, 0 when there is no file (durable)
  boot,     \* where createHrcServer stands after it began to listen
  ctl,      \* where the drained restart of the lifecycle controller stands
  op,       \* last operation id it drew
  turn,     \* stage of each turn (its run row is durable)
  seat,     \* what the runtime row says of the turn it executes (durable)
  quiet,    \* turns whose rows the in-flight query no longer counts as recent
  faults    \* bound: faults so far

vars == <<mem, marker, boot, ctl, op, turn, seat, quiet, faults>>

\* A stage is the status of the run row and whether a lease of the gate is held:
\*   leased: lease, no row                joining: lease, row 'queued', runtime boots
\*   accepted: lease, row 'accepted'      waiting: lease, executing, the caller blocks
\*   queued: row 'queued', no lease       resuming: lease, row 'queued', being continued
\*   claimed: lease, the continued row is 'accepted'
\*   submitted: row 'accepted' in the broker's hands      running: the turn has started
Stages == {"new", "leased", "joining", "accepted", "waiting", "queued", "resuming", "claimed",
           "submitted", "running", "done", "killed"}
PipelineStages == {"leased", "joining", "accepted", "waiting"}
ContinuationStages == {"resuming", "claimed"}
LeaseStages == PipelineStages \cup ContinuationStages

\* unstarted: row 'accepted'.  Else the row is 'running' and the runtime names it and is 'busy',
\* names it and is 'awaiting_input' (asking), or does not name it (unowned).
Seats == {"unstarted", "busy", "asking", "unowned"}

\* Rows whose status is 'accepted', 'started' or 'running'.
ActiveStages == {"accepted", "waiting", "claimed", "submitted", "running"}

\* idle: not in progress.  closing: in gate.close before the marker is durable.
\* awaiting: in waitUntilIdle.  draining: waitForInFlightDrain.
\* clean / forced: granted, after a recheck that found nothing / something.
Phases == {"idle", "closing", "awaiting", "draining", "clean", "forced"}

TypeOK ==
  /\ mem \in 0..MaxOps /\ marker \in 0..MaxOps /\ op \in 0..MaxOps
  /\ boot \in {"warming", "unlinking", "opening", "ready"}
  /\ ctl \in Phases
  /\ turn \in [Turns -> Stages] /\ seat \in [Turns -> Seats]
  /\ quiet \subseteq Turns
  /\ faults \in 0..MaxFaults

Init ==
  /\ mem = 0 /\ marker = 0 /\ op = 0
  /\ boot = "warming" /\ ctl = "idle"
  /\ turn = [t \in Turns |-> "new"] /\ seat = [t \in Turns |-> "unstarted"]
  /\ quiet = {} /\ faults = 0

Fault(kind) == kind \in Hazards /\ faults < MaxFaults /\ faults' = faults + 1

Leases(stages) == {t \in Turns : stages[t] \in LeaseStages}

Active == {t \in Turns : turn[t] \in ActiveStages}

\* listInFlightWork with includeAcceptedRuns: the recent rows that are 'accepted', or named by
\* a 'busy' runtime; rows 'queued' are not listed.
InFlight == {t \in Active \ quiet : seat[t] \in {"unstarted", "busy"}}

----------------------------------------------------------------------------
(* Admissions.                                                             *)

\* The last release wakes the close that waits for idleness.
WakeIdleWaiters(stages) ==
  ctl' = IF ctl = "awaiting" /\ Leases(stages) = {} THEN "draining" ELSE ctl

Move(t, stage) ==
  /\ turn' = [turn EXCEPT ![t] = stage]
  /\ WakeIdleWaiters(turn')

\* admit(): a closed gate refuses with SERVER_DRAINING and the client may retry.
Admit(t) ==
  /\ turn[t] = "new" /\ mem = 0
  /\ Move(t, "leased")
  /\ UNCHANGED <<mem, marker, boot, op, seat, quiet, faults>>

\* A step of the pipeline refuses, or the route writes the run row.
Route(t) ==
  /\ turn[t] = "leased"
  /\ \E stage \in {"new", "accepted"} \cup (IF "boot_join" \in Hazards THEN {"joining"} ELSE {}) :
       Move(t, stage)
  /\ UNCHANGED <<mem, marker, boot, op, seat, quiet, faults>>

\* joinRuntimeStart: the runtime is up and its priming over, and the row is claimed; or the
\* boot failed, and the row stays 'queued' after the lease is gone.
JoinEnds(t) ==
  /\ turn[t] = "joining"
  /\ \E stage \in {"accepted", "queued"} : Move(t, stage)
  /\ UNCHANGED <<mem, marker, boot, op, seat, quiet, faults>>

\* The route returns, or keeps the lease and waits for completion; a refused input fails the run.
RouteReturns(t) ==
  /\ turn[t] = "accepted"
  /\ \E stage \in {"submitted", "waiting", "done"} : Move(t, stage)
  /\ UNCHANGED <<mem, marker, boot, op, seat, quiet, faults>>

\* Where a turn stands that nobody waits for.
Detached(t) == IF seat[t] = "unstarted" THEN "submitted" ELSE "running"

\* waitForHeadlessBrokerRunCompletion gives up at its deadline.
WaitTimesOut(t) ==
  /\ turn[t] = "waiting"
  /\ Move(t, Detached(t))
  /\ UNCHANGED <<mem, marker, boot, op, seat, quiet, faults>>

\* turn.started: the broker starts the next input of its FIFO.  The run row becomes 'running',
\* and the runtime takes it for its active run and becomes 'busy', or refuses to.
Start(t) ==
  /\ turn[t] \in {"submitted", "waiting"} /\ seat[t] = "unstarted"
  /\ \A u \in Turns : SessionOf[u] = SessionOf[t] => seat[u] = "unstarted"
  /\ \E taken \in {"busy"} \cup (IF "unclaimed" \in Hazards THEN {"unowned"} ELSE {}) :
       seat' = [seat EXCEPT ![t] = taken]
  /\ Move(t, IF turn[t] = "submitted" THEN "running" ELSE "waiting")
  /\ quiet' = quiet \ {t}
  /\ UNCHANGED <<mem, marker, boot, op, faults>>

\* The turn asks its operator, and goes on with the answer.
Ask(t) ==
  /\ "ask" \in Hazards
  /\ \/ seat[t] = "busy" /\ seat' = [seat EXCEPT ![t] = "asking"]
     \/ seat[t] = "asking" /\ seat' = [seat EXCEPT ![t] = "busy"]
  /\ quiet' = quiet \ {t}
  /\ UNCHANGED <<mem, marker, boot, ctl, op, turn, faults>>

\* drainDurableHeadlessTurnInputs, one drain per session at a time: the next queued row of the
\* session is continued, through a closed gate too (admit({ existingAcceptedRun: true })).
ContinueQueued(session, stages) ==
  LET own == {u \in Turns : SessionOf[u] = session}
      queued == {u \in own : stages[u] = "queued"}
  IN IF queued = {} \/ \E u \in own : stages[u] \in ContinuationStages
     THEN {stages}
     ELSE {[stages EXCEPT ![u] = "resuming"] : u \in queued}

\* A terminal event of the turn; notifyEvent drains the queue of its session.
Finish(t) ==
  /\ turn[t] \in {"submitted", "running", "waiting"}
  /\ turn' \in ContinueQueued(SessionOf[t], [turn EXCEPT ![t] = "done"])
  /\ seat' = [seat EXCEPT ![t] = "unstarted"]
  /\ WakeIdleWaiters(turn')
  /\ UNCHANGED <<mem, marker, boot, op, quiet, faults>>

\* The continued row is claimed and its input sent; a failure fails the run.
Continuation(t) ==
  /\ \/ turn[t] = "resuming" /\ \E stage \in {"claimed", "done"} : Move(t, stage)
     \/ turn[t] = "claimed" /\ \E stage \in {"submitted", "done"} : Move(t, stage)
  /\ UNCHANGED <<mem, marker, boot, op, seat, quiet, faults>>

\* Nothing was recorded for the row within the recency window.
AgeOut(t) ==
  /\ turn[t] \in {"submitted", "running", "waiting"} /\ t \notin quiet
  /\ Fault("aging")
  /\ quiet' = quiet \cup {t}
  /\ UNCHANGED <<mem, marker, boot, ctl, op, turn, seat>>

----------------------------------------------------------------------------
(* The drained restart: executeLocally and closeAdmissionAndDrain.         *)

\* Mutant of CloseGate: makes the closure durable before it closes memory.
CloseGateDurableFirst ==
  /\ ctl = "idle" /\ op < MaxOps
  /\ boot = "ready" \/ "warmup_drain" \in Hazards
  /\ op' = op + 1
  /\ ctl' = IF mem # 0 THEN "idle" ELSE "closing"
  /\ UNCHANGED <<mem, marker, boot, turn, seat, quiet, faults>>

\* Mutant of CloseGate: records the id of the next operation.
CloseGateNextOperation ==
  /\ ctl = "idle" /\ op < MaxOps
  /\ boot = "ready" \/ "warmup_drain" \in Hazards
  /\ op' = op + 1
  /\ IF mem # 0 THEN UNCHANGED <<mem, ctl>> ELSE mem' = op + 2 /\ ctl' = "closing"
  /\ UNCHANGED <<marker, boot, turn, seat, quiet, faults>>

\* close(): memory first; refused with STALE_CONTEXT while another operation holds it.
CloseGate ==
  /\ ctl = "idle" /\ op < MaxOps
  /\ boot = "ready" \/ "warmup_drain" \in Hazards
  /\ op' = op + 1
  /\ IF mem # 0 THEN UNCHANGED <<mem, ctl>> ELSE mem' = op + 1 /\ ctl' = "closing"
  /\ UNCHANGED <<marker, boot, turn, seat, quiet, faults>>

\* Mutant of PersistClosure: does not wait for the admissions that are under way.
PersistWithoutWaiting ==
  /\ ctl = "closing"
  /\ marker' = op
  /\ ctl' = "draining"
  /\ UNCHANGED <<mem, boot, op, turn, seat, quiet, faults>>

\* The rename made the marker durable; go on at once if nobody holds a lease.
PersistClosure ==
  /\ ctl = "closing"
  /\ marker' = op
  /\ ctl' = IF Leases(turn) = {} THEN "draining" ELSE "awaiting"
  /\ UNCHANGED <<mem, boot, op, turn, seat, quiet, faults>>

PersistFails ==
  /\ ctl = "closing" /\ Fault("persist")
  /\ mem' = 0 /\ ctl' = "idle"
  /\ UNCHANGED <<marker, boot, op, turn, seat, quiet>>

\* Mutant of DrainEnds: the recheck leaves includeAcceptedRuns out.
DrainEndsOnBusyRuns ==
  /\ ctl = "draining"
  /\ ctl' = IF {t \in InFlight : seat[t] = "busy"} = {} THEN "clean" ELSE "forced"
  /\ UNCHANGED <<mem, marker, boot, op, turn, seat, quiet, faults>>

\* waitForInFlightDrain ends empty or by its timeout; the recheck decides.
DrainEnds ==
  /\ ctl = "draining"
  /\ ctl' = IF InFlight = {} THEN "clean" ELSE "forced"
  /\ UNCHANGED <<mem, marker, boot, op, turn, seat, quiet, faults>>

\* The in-flight query throws: executeLocally has no operation id to reopen yet.
DrainThrows ==
  /\ ctl = "draining" /\ Fault("drain_error")
  /\ ctl' = "idle"
  /\ UNCHANGED <<mem, marker, boot, op, turn, seat, quiet>>

\* The executor throws after the grant: the action is over, the gate stays closed.
ExecutorThrows ==
  /\ ctl \in {"clean", "forced"} /\ Fault("executor")
  /\ ctl' = "idle"
  /\ UNCHANGED <<mem, marker, boot, op, turn, seat, quiet>>

\* What becomes of a turn when the process ends: its lease is gone, its row is durable, and
\* an execution is lost or survives in the broker's lease.
AfterExit(t, lost) ==
  CASE turn[t] = "leased" -> "new"
    [] turn[t] \in {"joining", "queued", "resuming"} -> "queued"
    [] turn[t] \in ActiveStages -> IF lost THEN "killed" ELSE Detached(t)
    [] OTHER -> turn[t]

\* The process ends and its successor constructs the gate from the marker.
Successor ==
  /\ mem' = marker /\ boot' = "warming" /\ ctl' = "idle"
  /\ \E lost \in SUBSET Active :
       /\ turn' = [t \in Turns |-> AfterExit(t, t \in lost)]
       /\ seat' = [t \in Turns |-> IF t \in lost THEN "unstarted" ELSE seat[t]]
  /\ UNCHANGED <<marker, op, quiet>>

Execute ==
  /\ ctl \in {"clean", "forced"}
  /\ Successor
  /\ UNCHANGED faults

Crash == Fault("crash") /\ Successor

----------------------------------------------------------------------------
(* Boot: reopen() after the warmup, without an operation id.               *)

\* Mutant of BootReopens: takes a closed gate for somebody else's.
BootKeepsClosed ==
  /\ boot = "warming"
  /\ boot' = "ready"
  /\ UNCHANGED <<mem, marker, ctl, op, turn, seat, quiet, faults>>

BootReopens ==
  /\ boot = "warming"
  /\ boot' = IF mem # 0 THEN "unlinking" ELSE "ready"
  /\ UNCHANGED <<mem, marker, ctl, op, turn, seat, quiet, faults>>

BootUnlinks ==
  /\ boot = "unlinking"
  /\ marker' = 0 /\ boot' = "opening"
  /\ UNCHANGED <<mem, ctl, op, turn, seat, quiet, faults>>

BootOpens ==
  /\ boot = "opening"
  /\ mem' = 0 /\ boot' = "ready"
  /\ UNCHANGED <<marker, ctl, op, turn, seat, quiet, faults>>

TurnStep(t) == Admit(t) \/ Route(t) \/ JoinEnds(t) \/ RouteReturns(t) \/ WaitTimesOut(t)
               \/ Start(t) \/ Ask(t) \/ Finish(t) \/ Continuation(t) \/ AgeOut(t)
LeaseStep(t) == Route(t) \/ RouteReturns(t) \/ WaitTimesOut(t) \/ Continuation(t)
RestartStep == PersistClosure \/ DrainEnds \/ Execute
BootStep == BootReopens \/ BootUnlinks \/ BootOpens
FaultStep == PersistFails \/ DrainThrows \/ ExecutorThrows \/ Crash

Next == (\E t \in Turns : TurnStep(t)) \/ CloseGate \/ RestartStep \/ BootStep \/ FaultStep

Spec == Init /\ [][Next]_vars

\* Handlers under a lease end (the completion wait has a deadline), the restart goes on
\* and the boot finishes; nothing is assumed of clients, of executions, of the boot that
\* JoinEnds waits for, or of the faults.
Fairness ==
  /\ \A t \in Turns : WF_vars(LeaseStep(t))
  /\ WF_vars(RestartStep) /\ WF_vars(BootStep)

FairSpec == Spec /\ Fairness

----------------------------------------------------------------------------
(* Properties.                                                             *)

\* From the moment close() has begun until the process ends, the gate is closed by this
\* operation in memory, and once close() awaits the leases the next process would find it
\* closed too: neither an admission nor a crash slips past the restart.
FenceHolds ==
  /\ ctl # "idle" => mem = op
  /\ ctl \in {"awaiting", "draining", "clean", "forced"} => marker = op

\* A restart that was granted with "closed-admission recheck found no headless work" still
\* finds none when it executes: no turn holds a lease and no accepted run is unfinished.
CleanStaysClean == ctl = "clean" => Leases(turn) = {} /\ Active = {}

\* While the restart drains, a turn that holds a lease is the continuation of a run that
\* was queued before; whoever was inside the pipeline has left it, its row written.
DrainSeesSettledAdmissions ==
  ctl \in {"draining", "clean", "forced"} => \A t \in Turns : turn[t] \notin PipelineStages

\* A closure is never orphaned: while the gate is closed in memory or on disk, a restart is under
\* way that will end this process, or the boot has yet to reopen it.
ClosureHasOwner == mem # 0 \/ marker # 0 => ctl # "idle" \/ boot # "ready"

\* A closed gate opens again: after the restart, or after a crash in the middle of it.
EveryClosureEnds == mem # 0 ~> mem = 0
=============================================================================
