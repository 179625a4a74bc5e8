----------------------------- MODULE Participants -----------------------------
(***************************************************************************)
(* External participants: a host process registers at an address, attaches *)
(* the broker it serves, and the daemon establishes, reconnects, replaces  *)
(* and retires that attachment.                                            *)
(*                                                                         *)
(* One registration is modelled, with its attempts numbered by their       *)
(* attach epoch.  An attempt, its invocation and (unless it is the bridge  *)
(* successor of another) its runtime and host binding carry the same       *)
(* number.  The rows of the database survive a crash of the daemon; the    *)
(* operations in flight, the clients and the staged candidates do not.     *)
(* Every operation is cut where the code awaits: what is read before an    *)
(* await and used after it is kept in `op' or `drives'.                    *)
(*                                                                         *)
(* HOSTING_INTENT_PERSISTED, REALIZED and their rediscovery are folded into *)
(* one state, and the continuation carried from a predecessor to its       *)
(* successor, which no guard below reads, is left out.                     *)
(***************************************************************************)
EXTENDS Naturals, FiniteSetsExt

CONSTANTS
    MaxEpoch,   \* attempts of the registration that are modelled
    MaxTries,   \* PARTICIPANT_ESTABLISHMENT_MAX_ATTEMPTS, 5 in the code
    MaxFaults,  \* crashes, dropped connections, failed calls and lost probes
    Faults      \* the kinds of fault that may happen

ASSUME ParticipantsAssumption ==
    /\ MaxEpoch \in Nat \ {0}
    /\ MaxTries \in Nat \ {0}
    /\ MaxFaults \in Nat
    /\ Faults \subseteq {"crash", "drop", "call", "probe", "hosting"}

VARIABLES
    latest,     \* attach epoch of the current attempt, 0 before the first registration
    attempt,    \* participant_registration_attempts
    runtime,    \* runtimes: status and active invocation
    binding,    \* participant_host_bindings, by the runtime they name
    up,         \* the daemon is running
    client,     \* controller.active: runtime -> invocation of its published client
    staged,     \* controller.stagedParticipants
    op,         \* server.participantEstablishmentOperations
    hosting,    \* attach handlers awaiting createParticipantHostingIntent
    drives,     \* replacements awaiting their writer evidence
    settling,   \* settleParticipantBrokerLoss awaiting its probe, by invocation
    broker,     \* external: the host's broker at the endpoint of an attempt
    faults      \* faults spent, by kind

rows == <<latest, attempt, runtime, binding>>
memory == <<up, client, staged, op, hosting, drives, settling>>
env == <<broker, faults>>
vars == <<rows, memory, env>>

-----------------------------------------------------------------------------
(* Attempts                                                                *)

Epochs == 1 .. MaxEpoch

Absorbing == {"ABANDONED", "TERMINAL"}
Frozen == {"DISPATCH_FROZEN", "INSTALL_CONFIRMED", "INVOCATION_READY",
           "ATTACH_CONFIRMED", "ACTIVE", "DETACHED"}
AttemptStates == {"NONE", "IDENTITY_MINTED", "PREPARED", "HOSTING_INTENT_PERSISTED"}
                     \cup Frozen \cup Absorbing

Armed == {"pending", "retry_wait"}
WorkStates == Armed \cup {"completed", "exhausted"}

NoIntent == [cand |-> "none"]
Intents == {NoIntent} \cup
    [cand : {"same", "new"}, pre : BOOLEAN, basis : BOOLEAN, next : 0 .. MaxEpoch,
     work : WorkStates, count : 0 .. MaxTries + 1]

Attempts ==
    [state : AttemptStates, work : WorkStates, count : 0 .. MaxTries + 1,
     intent : Intents, prepared : BOOLEAN, identity : BOOLEAN, activated : BOOLEAN,
     settled : BOOLEAN, runtime : 0 .. MaxEpoch]

NoAttempt ==
    [state |-> "NONE", work |-> "completed", count |-> 0, intent |-> NoIntent,
     prepared |-> FALSE, identity |-> FALSE, activated |-> FALSE, settled |-> FALSE,
     runtime |-> 0]

\* registerDirectParticipantLocked and mintSuccessorAttempt mint the same row.
Minted(r) ==
    [NoAttempt EXCEPT !.state = "IDENTITY_MINTED", !.work = "pending", !.runtime = r]

NonRunnable(a) ==
    a.state = "IDENTITY_MINTED" /\ ~a.prepared /\ a.intent = NoIntent

RuntimeOf(e) == runtime[attempt[e].runtime]
ClientOf(e) == client[attempt[e].runtime]

\* No host ever attached to the attempt: nothing of it can be writing.
NeverAttached(e) ==
    /\ attempt[e].state = "IDENTITY_MINTED"
    /\ ~attempt[e].prepared /\ ~attempt[e].identity
    /\ RuntimeOf(e).status = "none"

\* The rows of the transition graph that end in TERMINAL.
Ended(a, e) ==
    IF a[e].state \in {"INVOCATION_READY", "ATTACH_CONFIRMED", "ACTIVE", "DETACHED"}
    THEN [a EXCEPT ![e].state = "TERMINAL"]
    ELSE a

Completed(a, e) ==
    IF a[e].work \in Armed THEN [a EXCEPT ![e].work = "completed"] ELSE a

\* Mutants of Failed: the budget is never spent, and the count is never written.
FailedUnbounded(a, e, max) ==
    IF a[e].work \notin Armed THEN a
    ELSE [a EXCEPT ![e].count = @ + 1, ![e].work = "retry_wait"]

FailedUncounted(a, e, max) ==
    IF a[e].work \notin Armed THEN a
    ELSE [a EXCEPT ![e].work = IF a[e].count + 1 >= max THEN "exhausted" ELSE "retry_wait"]

\* recordEstablishmentFailure; a count past the budget is all the same.
Failed(a, e, max) ==
    IF a[e].work \notin Armed THEN a
    ELSE [a EXCEPT ![e].count = IF @ > MaxTries THEN @ ELSE @ + 1,
                   ![e].work = IF a[e].count + 1 >= max THEN "exhausted" ELSE "retry_wait"]

-----------------------------------------------------------------------------
(* Establishment operations                                                *)

Idle == [pc |-> "idle", path |-> "start", seen |-> "NONE"]
Due == [Idle EXCEPT !.pc = "due"]
Ops == [pc : {"idle", "due", "realize", "install", "ensure", "stage", "activate",
              "replay", "publish", "recover"},
        path : {"start", "reattach"}, seen : AttemptStates]

\* scheduleParticipantEstablishment: one operation per attempt.
Scheduled(o, a, e) ==
    IF o[e].pc = "idle" /\ a[e].work \in Armed /\ ~NonRunnable(a[e])
    THEN [o EXCEPT ![e] = Due]
    ELSE o

\* The catch and finally of an operation that threw: the failure is counted, the retry is
\* scheduled, and a reconnect that spent its budget asks whether the host is gone.
Throws(a, e, max, lost) ==
    LET b == Failed(a, e, max)
        counted == a[e].work \in Armed
        spent == /\ counted /\ b[e].work = "exhausted"
                 /\ b[e].state = "DETACHED" /\ b[e].activated
    IN /\ attempt' = b
       /\ op' = IF counted /\ b[e].work = "retry_wait"
                THEN Scheduled([op EXCEPT ![e] = Idle], b, e)
                ELSE [op EXCEPT ![e] = Idle]
       /\ settling' = settling \cup lost \cup IF spent THEN {e} ELSE {}

Spent == MapThenSumSet(LAMBDA kind : faults[kind], Faults)

Fault(kind) ==
    /\ kind \in Faults /\ Spent < MaxFaults
    /\ faults' = [faults EXCEPT ![kind] = @ + 1]

At(e, pc) == up /\ op[e].pc = pc
Goto(e, pc) == [op EXCEPT ![e].pc = pc]

\* runParticipantEstablishment returns without effects: the work ended or is not startable.
RunNothing(e) ==
    /\ At(e, "due")
    /\ attempt[e].work \notin Armed \/ NonRunnable(attempt[e])
    /\ op' = [op EXCEPT ![e] = Idle]
    /\ UNCHANGED <<rows, up, client, staged, hosting, drives, settling, env>>

Runs(e) ==
    /\ At(e, "due")
    /\ attempt[e].work \in Armed
    /\ attempt[e].intent = NoIntent
    /\ ~NonRunnable(attempt[e])

\* An attempt that was attached before goes through DETACHED, persisted before any effect.
Detach(e) ==
    IF attempt[e].state = "ACTIVE" THEN [attempt EXCEPT ![e].state = "DETACHED"] ELSE attempt

\* A superseded attempt, or one already served by its own client, is done.  (A registration
\* that supersedes an attempt completes its work, and work is armed only for a lost client, so
\* no run within the bounds takes this early return.)
AlreadyServed(e) == e # latest \/ (attempt[e].state = "ACTIVE" /\ ClientOf(e) = e)

RunEstablishment(e) ==
    /\ Runs(e)
    /\ IF AlreadyServed(e)
       THEN attempt' = Completed(attempt, e) /\ op' = [op EXCEPT ![e] = Idle]
       ELSE /\ attempt' = Detach(e)
            /\ op' = [op EXCEPT ![e] =
                        [pc |-> "realize", seen |-> "NONE",
                         path |-> IF attempt[e].state \in {"ACTIVE", "DETACHED", "ATTACH_CONFIRMED"}
                                  THEN "reattach" ELSE "start"]]
    /\ UNCHANGED <<latest, runtime, binding, up, client, staged, hosting, drives, settling, env>>

\* realizeAndFreezeParticipantDispatch; an attempt without a hosting intent, or one that became
\* absorbing, cannot be realized.
Realize(e) ==
    /\ At(e, "realize")
    /\ IF attempt[e].state \in Frozen \cup {"HOSTING_INTENT_PERSISTED"}
       THEN /\ attempt' = [attempt EXCEPT ![e].state =
                             IF @ = "HOSTING_INTENT_PERSISTED" THEN "DISPATCH_FROZEN" ELSE @]
            /\ op' = Goto(e, "install")
            /\ UNCHANGED settling
       ELSE Throws(attempt, e, MaxTries, {})
    /\ UNCHANGED <<latest, runtime, binding, up, client, staged, hosting, drives, env>>

\* Mutant of Materializable: it reads the invocation of the row and not its status.
MaterializableAnyStatus(a, e) ==
    LET rt == runtime[a[e].runtime]
    IN rt.status = "none" \/ rt.inv = e \/ (rt.inv \in 1 .. e - 1 /\ a[rt.inv].state \in Absorbing)

\* The runtime row may be inserted, is already this attempt's, or advances from an absorbing
\* predecessor on the same binding.  A terminated runtime is never revived.
Materializable(a, e) ==
    LET rt == runtime[a[e].runtime]
    IN \/ rt.status = "none"
       \/ /\ rt.status = "live"
          /\ \/ rt.inv = e
             \/ rt.inv \in 1 .. e - 1 /\ a[rt.inv].state \in Absorbing

\* materializeParticipantBrokerBookkeeping, then on to the staging; a conflict exhausts at once.
Materialize(a, e) ==
    IF Materializable(a, e)
    THEN /\ attempt' = a
         /\ runtime' = [runtime EXCEPT ![a[e].runtime] = [status |-> "live", inv |-> e]]
         /\ op' = [op EXCEPT ![e].pc = "stage", ![e].seen = a[e].state]
         /\ UNCHANGED settling
    ELSE Throws(a, e, 1, {}) /\ UNCHANGED runtime

\* persistInstallAcknowledgement writes the broker identity once, from DISPATCH_FROZEN only.
Install(e) ==
    LET a == IF attempt[e].identity THEN attempt
             ELSE [attempt EXCEPT ![e].state = "INSTALL_CONFIRMED", ![e].identity = TRUE]
    IN /\ At(e, "install") /\ broker[e] = "up"
       /\ IF ~attempt[e].identity /\ attempt[e].state # "DISPATCH_FROZEN"
          THEN Throws(attempt, e, MaxTries, {}) /\ UNCHANGED runtime
          ELSE IF op[e].path = "reattach" THEN Materialize(a, e)
          ELSE /\ attempt' = a
               /\ op' = [op EXCEPT ![e].pc = "ensure", ![e].seen = a[e].state]
               /\ UNCHANGED <<runtime, settling>>
       /\ UNCHANGED <<latest, binding, up, client, staged, hosting, drives, env>>

\* A started receipt advances INSTALL_CONFIRMED; the attach needs the current INVOCATION_READY.
Ensure(e) ==
    LET a == IF attempt[e].state = "INSTALL_CONFIRMED" /\ op[e].seen = "INSTALL_CONFIRMED"
             THEN [attempt EXCEPT ![e].state = "INVOCATION_READY"] ELSE attempt
    IN /\ At(e, "ensure") /\ broker[e] = "up"
       /\ IF a[e].state = "INVOCATION_READY"
          THEN Materialize(a, e)
          ELSE Throws(a, e, MaxTries, {}) /\ UNCHANGED runtime
       /\ UNCHANGED <<latest, binding, up, client, staged, hosting, drives, env>>

\* The attempt still stands where the staging left from; a reattachment that found it confirmed
\* (or already disposed of) asks for no confirmation.
Confirmable(e) ==
    \/ op[e].path = "start" /\ attempt[e].state = "INVOCATION_READY"
    \/ op[e].path = "reattach" /\ op[e].seen = "DETACHED" /\ attempt[e].state = "DETACHED"

NeedsConfirmation(e) == op[e].path = "start" \/ op[e].seen = "DETACHED"

\* stageParticipantAttach, then the confirmation; a lost fence discards the candidate.
Stage(e) ==
    /\ At(e, "stage") /\ broker[e] = "up"
    /\ IF NeedsConfirmation(e) /\ ~Confirmable(e)
       THEN Throws(attempt, e, MaxTries, {}) /\ staged' = staged \ {e}
       ELSE /\ attempt' = [attempt EXCEPT ![e].state =
                             IF Confirmable(e) THEN "ATTACH_CONFIRMED" ELSE @]
            /\ staged' = staged \cup {e}
            /\ op' = Goto(e, "activate")
            /\ UNCHANGED settling
    /\ UNCHANGED <<latest, runtime, binding, up, client, hosting, drives, env>>

\* assertPriorParticipantRecoveryDisposition
PriorSettled(e) == \A p \in Epochs : p < e => attempt[p].settled

Activatable(e) ==
    \/ attempt[e].state = "ATTACH_CONFIRMED" /\ (attempt[e].activated \/ PriorSettled(e))
    \/ attempt[e].state = "ACTIVE" /\ attempt[e].activated

\* The activation commits before the controller is asked for the staged candidate, so a candidate
\* lost meanwhile fails an attempt that is already ACTIVE.
Activate(e) ==
    LET a == [attempt EXCEPT ![e].state = "ACTIVE", ![e].activated = TRUE]
    IN /\ At(e, "activate")
       /\ IF ~Activatable(e) THEN Throws(attempt, e, MaxTries, {}) /\ UNCHANGED staged
          ELSE IF e \notin staged THEN Throws(a, e, MaxTries, {}) /\ UNCHANGED staged
          ELSE /\ attempt' = a
               /\ staged' = staged \ {e}
               /\ op' = Goto(e, "replay")
               /\ UNCHANGED settling
       /\ UNCHANGED <<latest, runtime, binding, up, client, hosting, drives, env>>

\* markExternalParticipantInvocationTerminal, whatever became of the attempt meanwhile.
Released(e) ==
    IF RuntimeOf(e).inv = e
    THEN [runtime EXCEPT ![attempt[e].runtime].status = "terminated"] ELSE runtime

\* attachAndReplay takes its snapshot, then applies the missed envelopes; they may carry the exit
\* of the invocation, which ends the attempt and its runtime.
Replay(e) ==
    /\ At(e, "replay") /\ broker[e] = "up"
    /\ \/ UNCHANGED <<attempt, runtime>>
       \/ attempt' = Ended(attempt, e) /\ runtime' = Released(e)
    /\ op' = Goto(e, "publish")
    /\ UNCHANGED <<latest, binding, up, client, staged, hosting, drives, settling, env>>

\* The acknowledgement and the control proof are answered: the status of the snapshot is written
\* over the row whatever the replay made of it, and the client published.  An attempt that its
\* exit has ended fails after that, with its work completed.
Publish(e) ==
    /\ At(e, "publish") /\ broker[e] = "up"
    /\ runtime' = [runtime EXCEPT ![attempt[e].runtime] = [status |-> "live", inv |-> e]]
    /\ client' = [client EXCEPT ![attempt[e].runtime] = e]
    /\ attempt' = Completed(attempt, e)
    /\ op' = [op EXCEPT ![e] = Idle]
    /\ UNCHANGED <<latest, binding, up, staged, hosting, drives, settling, env>>

\* A call to the broker fails: it is gone, or for a reason of its own.  A candidate that closes
\* during its replay reports the loss of the runtime's broker.
CallFails(e) ==
    /\ up /\ op[e].pc \in {"install", "ensure", "stage", "replay", "publish"}
    /\ \/ broker[e] # "up" /\ UNCHANGED faults
       \/ Fault("call")
    /\ Throws(attempt, e, MaxTries,
              IF op[e].pc \in {"replay", "publish"} THEN {RuntimeOf(e).inv} \ {0} ELSE {})
    /\ staged' = IF op[e].pc = "stage" THEN staged \ {e} ELSE staged
    /\ UNCHANGED <<latest, runtime, binding, up, client, hosting, drives, broker>>

EstablishmentStep(e) ==
    \/ RunNothing(e) \/ RunEstablishment(e) \/ Realize(e)
    \/ Install(e) \/ Ensure(e) \/ Stage(e) \/ Activate(e) \/ Replay(e) \/ Publish(e)
    \/ CallFails(e)

-----------------------------------------------------------------------------
(* Registration, attachment, delivery and the loss of a broker             *)

\* The first registration at a free address.
Register ==
    /\ up /\ latest = 0
    /\ latest' = 1
    /\ attempt' = [attempt EXCEPT ![1] = Minted(1)]
    /\ binding' = [binding EXCEPT ![1] = "BINDING"]
    /\ UNCHANGED <<runtime, memory, env>>

\* handleAttachParticipant: the host serves its broker and attaches it once; the hosting intent
\* is persisted after an await.
Attach(e) ==
    /\ up /\ e = latest
    /\ attempt[e].state = "IDENTITY_MINTED" /\ ~attempt[e].prepared
    /\ attempt' = [attempt EXCEPT ![e].state = "PREPARED", ![e].prepared = TRUE,
                                  ![e].work = "pending", ![e].count = 0]
    /\ binding' = [binding EXCEPT ![attempt[e].runtime] = IF @ = "BINDING" THEN "BOUND" ELSE @]
    /\ broker' = [broker EXCEPT ![e] = "up"]
    /\ hosting' = hosting \cup {e}
    /\ UNCHANGED <<latest, runtime, up, client, staged, op, drives, settling, faults>>

PersistHosting(e) ==
    LET a == IF attempt[e].state = "PREPARED"
             THEN [attempt EXCEPT ![e].state = "HOSTING_INTENT_PERSISTED"] ELSE attempt
    IN /\ up /\ e \in hosting
       /\ hosting' = hosting \ {e}
       /\ attempt' = a
       /\ op' = Scheduled(op, a, e)
       /\ UNCHANGED <<latest, runtime, binding, up, client, staged, drives, settling, env>>

\* The intent could not be persisted: the attach answers pending and schedules nothing.
HostingFails(e) ==
    /\ up /\ e \in hosting
    /\ Fault("hosting")
    /\ hosting' = hosting \ {e}
    /\ UNCHANGED <<rows, up, client, staged, op, drives, settling, broker>>

\* What a retry of the attach with the same bytes is answered: installed attempts must be held by
\* a client of this controller.
ConvergedAttach(e) ==
    IF attempt[e].identity /\ ClientOf(e) # e THEN "not_live" ELSE "attached"

\* participantNeedsReconnect
NeedsReconnect(e) ==
    /\ attempt[e].state = "ACTIVE" /\ attempt[e].work = "completed" /\ attempt[e].prepared
    /\ ClientOf(e) # e

\* armParticipantReconnect: the cycle is armed before its first effect.
ArmReconnect(a, e) == [a EXCEPT ![e].work = "pending", ![e].count = 0]

\* resolveParticipantDelivery for the current attempt.
Delivery ==
    LET e == latest
        a == attempt[e]
    IN IF e = 0 THEN "none"
       ELSE IF a.state \in Absorbing THEN "unavailable"
       ELSE IF a.state # "ACTIVE" THEN
                IF a.prepared /\ a.work = "exhausted" THEN "unavailable" ELSE "pending"
       ELSE IF binding[a.runtime] # "BOUND" \/ RuntimeOf(e).status # "live"
               \/ RuntimeOf(e).inv # e THEN "unavailable"
       ELSE IF NeedsReconnect(e) THEN "reconnect" ELSE "attached"

\* A delivery that finds no client behind its target joins one recovery operation.
Deliver ==
    LET a == ArmReconnect(attempt, latest)
    IN /\ up /\ Delivery = "reconnect"
       /\ op[latest].pc = "idle"
       /\ attempt' = a
       /\ op' = Scheduled(op, a, latest)
       /\ UNCHANGED <<latest, runtime, binding, up, client, staged, hosting, drives, settling, env>>

\* The host's broker dies; the host serves the next one at another endpoint.
BrokerDies(e) ==
    /\ broker[e] = "up"
    /\ broker' = [broker EXCEPT ![e] = "gone"]
    /\ UNCHANGED <<rows, memory, faults>>

\* handleBrokerClose for the published client, markBrokerCrashTerminal for an external runtime.
ClientCloses(r) ==
    LET e == client[r]
    IN /\ up /\ e # 0
       /\ (broker[e] = "gone" /\ UNCHANGED faults) \/ Fault("drop")
       /\ client' = [client EXCEPT ![r] = 0]
       /\ settling' = settling \cup ({runtime[r].inv} \ {0})
       /\ UNCHANGED <<rows, up, staged, op, hosting, drives, broker>>

\* The close of a staged candidate drops it.
CandidateCloses(e) ==
    /\ up /\ e \in staged /\ broker[e] = "gone"
    /\ staged' = staged \ {e}
    /\ UNCHANGED <<rows, up, client, op, hosting, drives, settling, env>>

\* The live stream of the published client, which begins with what the broker buffered since the
\* attach.
Streaming(e) == up /\ e \in 1 .. latest /\ ClientOf(e) = e /\ broker[e] = "up"

\* It carries invocation.exited: the transaction of the mapper ends the attempt, then the runtime
\* is terminated.
ProducerExits(e) ==
    /\ Streaming(e)
    /\ attempt' = Ended(attempt, e)
    /\ runtime' = Released(e)
    /\ UNCHANGED <<latest, binding, memory, env>>

\* The runtime still serves the invocation whose broker was lost.
LossStands(e) == RuntimeOf(e).status = "live" /\ RuntimeOf(e).inv = e

\* settleParticipantBrokerLoss: only a dead endpoint, on a row that did not move meanwhile.
SettleDead(e) ==
    /\ up /\ e \in settling /\ broker[e] = "gone"
    /\ settling' = settling \ {e}
    /\ IF LossStands(e)
       THEN /\ runtime' = [runtime EXCEPT ![attempt[e].runtime] =
                             [status |-> "terminated", inv |-> 0]]
            /\ attempt' = Ended(attempt, e)
       ELSE UNCHANGED <<runtime, attempt>>
    /\ UNCHANGED <<latest, binding, up, client, staged, op, hosting, drives, env>>

\* A live endpoint, or a probe that did not complete in time, settles nothing.
SettleNothing(e) ==
    /\ up /\ e \in settling
    /\ (broker[e] = "up" /\ UNCHANGED faults) \/ Fault("probe")
    /\ settling' = settling \ {e}
    /\ UNCHANGED <<rows, up, client, staged, op, hosting, drives, broker>>

-----------------------------------------------------------------------------
(* Replacement                                                             *)

Drives ==
    [by : {"door", "work"}, e : Epochs, kind : {"bridge", "host"}, pre : BOOLEAN,
     ended : BOOLEAN, stale : BOOLEAN]

\* Mutant of Staled: the receipt is written over whatever intent is stored.
StaledNever(d, e) == d

\* Another writer replaced the intent the drives of e were admitted with.
Staled(d, e) == {[x EXCEPT !.stale = @ \/ x.e = e] : x \in d}

\* replacementKind: a bridge successor takes over the runtime of its predecessor, so it needs a
\* live one.
KindOf(e, cand) ==
    IF cand = "same" /\ RuntimeOf(e).status # "terminated" THEN "bridge" ELSE "host"

Supersedes(e, cand) ==
    cand = "new" /\ (NeverAttached(e) \/ (attempt[e].intent # NoIntent /\ attempt[e].intent.pre))

\* storeReplacementIntent, unless the intent is already there.
Intended(e, cand) ==
    IF attempt[e].intent # NoIntent THEN attempt
    ELSE [attempt EXCEPT
            ![e].intent = [cand |-> cand, pre |-> Supersedes(e, cand), basis |-> FALSE, next |-> 0,
                           work |-> attempt[e].work, count |-> attempt[e].count],
            ![e].work = "pending"]

\* admitReplacementIntent; the drive goes on with the attempt as read here.
Admit(by, e, cand) ==
    /\ attempt' = Intended(e, cand)
    /\ drives' = drives \cup {[by |-> by, e |-> e, kind |-> KindOf(e, cand),
                               pre |-> Supersedes(e, cand),
                               ended |-> attempt[e].state \in Absorbing, stale |-> FALSE]}

\* A bridge successor that no broker knows yet: the request that allocated it is replayed.
BridgePending(e) ==
    ~attempt[e].identity /\ \E p \in 1 .. e - 1 : attempt[p].runtime = attempt[e].runtime

\* The direct registration of a successor, under the address mutex.  A request of the same
\* incarnation that finds its own unused allocation changes nothing.
RequestReplacement(cand) ==
    /\ up /\ latest \in 1 .. MaxEpoch - 1
    /\ \A d \in drives : d.by # "door"
    /\ cand = "same" => ~NeverAttached(latest) /\ ~BridgePending(latest)
    /\ attempt[latest].intent # NoIntent => attempt[latest].intent.cand = cand
    /\ Admit("door", latest, cand)
    /\ UNCHANGED <<latest, runtime, binding, up, client, staged, op, hosting, settling, env>>

\* The scheduler re-enters from the durable intent of the predecessor.
RunReplacement(e) ==
    /\ At(e, "due")
    /\ attempt[e].work \in Armed
    /\ attempt[e].intent # NoIntent
    /\ Admit("work", e, attempt[e].intent.cand)
    /\ op' = Goto(e, "recover")
    /\ UNCHANGED <<latest, runtime, binding, up, client, staged, hosting, settling, env>>

\* How a drive without a successor ends: the scheduler counts a failure, the door schedules the
\* intent that is still there when its answer is pending.
DriveEnds(d, a, pending) ==
    IF d.by = "work" THEN Throws(a, d.e, MaxTries, {})
    ELSE /\ attempt' = a
         /\ op' = IF pending /\ a[latest].intent # NoIntent THEN Scheduled(op, a, latest) ELSE op
         /\ UNCHANGED settling

\* Mutant of Parked: it ends the work of any predecessor.
ParkedCompleted(a, e, ended) ==
    [a EXCEPT ![e].work = "completed", ![e].intent = IF ended THEN @ ELSE NoIntent]

\* pauseOrCancelReplacement: an absorbing predecessor keeps its intent, another gets its
\* establishment work back.
Parked(a, e, ended) ==
    LET i == a[e].intent
    IN IF ended THEN [a EXCEPT ![e].work = "completed"]
       ELSE [a EXCEPT ![e].intent = NoIntent, ![e].work = i.work, ![e].count = i.count]

\* What the drive may still write: its intent is the one it was admitted with.
Holds(d) == ~d.stale /\ attempt[d.e].intent # NoIntent

\* A pre-attach predecessor that was attached meanwhile may not be superseded.
PreChanged(d) ==
    d.pre /\ ~NeverAttached(d.e) /\ attempt[d.e].state \notin Absorbing

\* The receipt cannot be persisted: the gate changed under the drive.
DriveLost(d) ==
    /\ up /\ d \in drives
    /\ ~Holds(d) \/ PreChanged(d)
    /\ DriveEnds(d, IF Holds(d) THEN Parked(attempt, d.e, FALSE) ELSE attempt, TRUE)
    /\ drives' = IF Holds(d) THEN Staled(drives \ {d}, d.e) ELSE drives \ {d}
    /\ UNCHANGED <<latest, runtime, binding, up, client, staged, hosting, env>>

\* The writer is live or unproven: the intent is parked.
DriveHeld(d) ==
    /\ up /\ d \in drives /\ Holds(d) /\ ~d.pre
    /\ \/ broker[d.e] # "gone" /\ UNCHANGED faults
       \/ ~attempt[d.e].intent.basis /\ Fault("probe")
    /\ DriveEnds(d, Parked(attempt, d.e, d.ended), broker[d.e] # "up")
    /\ drives' = Staled(drives \ {d}, d.e)
    /\ UNCHANGED <<latest, runtime, binding, up, client, staged, hosting, broker>>

\* Mutant of Satisfied: it does not look again whether the predecessor was attached meanwhile.
SatisfiedAtAdmission(d) ==
    /\ up /\ d \in drives /\ Holds(d)
    /\ d.pre \/ broker[d.e] = "gone"

\* The evidence of the drive is satisfied: nothing of the predecessor writes any more.
Satisfied(d) ==
    /\ up /\ d \in drives /\ Holds(d) /\ ~PreChanged(d)
    /\ d.pre \/ broker[d.e] = "gone"

\* The receipt and TX-D: the predecessor is absorbing and its recovery settled.
Disposed(d) ==
    [attempt EXCEPT ![d.e].intent.basis = TRUE,
                    ![d.e].state = IF @ \in Absorbing THEN @ ELSE "ABANDONED",
                    ![d.e].settled = TRUE]

Retiring(d) ==
    [binding EXCEPT ![attempt[d.e].runtime] =
        IF d.kind = "host" /\ @ = "BOUND" THEN "RETIRING" ELSE @]

\* TX-6: a host successor has a binding and a runtime of its own, a bridge successor those of
\* its predecessor.
Allocated(d) ==
    LET n == d.e + 1
        r == IF d.kind = "host" THEN n ELSE attempt[d.e].runtime
    IN [Disposed(d) EXCEPT ![n] = Minted(r), ![d.e].intent.next = n, ![d.e].work = "completed"]

DriveCommits(d) ==
    LET r == attempt[d.e].runtime
    IN /\ Satisfied(d)
       /\ d.kind = "host" => Retiring(d)[r] \in {"RETIRING", "BINDING"}
       /\ attempt' = Allocated(d)
       /\ latest' = d.e + 1
       /\ binding' = IF d.kind = "bridge" THEN binding
                     ELSE [binding EXCEPT ![r] = "RETIRED", ![d.e + 1] = "BINDING"]
       /\ runtime' = IF d.kind = "host" /\ runtime[r].status = "live"
                     THEN [runtime EXCEPT ![r].status = "terminated"] ELSE runtime
       /\ op' = IF d.by = "work" THEN [op EXCEPT ![d.e] = Idle] ELSE op
       /\ drives' = Staled(drives \ {d}, d.e)
       /\ UNCHANGED <<up, client, staged, hosting, settling, env>>

-----------------------------------------------------------------------------
(* Crash and boot                                                          *)

Forget ==
    /\ up' = FALSE
    /\ client' = [r \in Epochs |-> 0]
    /\ staged' = {}
    /\ op' = [e \in Epochs |-> Idle]
    /\ hosting' = {}
    /\ drives' = {}
    /\ settling' = {}

Crash ==
    /\ up /\ Fault("crash")
    /\ Forget
    /\ UNCHANGED <<rows, broker>>

\* The daemon dies between the transactions of a replacement: after the receipt and TX-D, before
\* the successor.
CrashAfterDisposal(d) ==
    /\ Satisfied(d) /\ Fault("crash")
    /\ attempt' = Disposed(d)
    /\ binding' = Retiring(d)
    /\ Forget
    /\ UNCHANGED <<latest, runtime, broker>>

\* The daemon dies between the two writes of an exit, applied live or by a replay.
CrashAfterExit(e) ==
    /\ Streaming(e) \/ (At(e, "replay") /\ broker[e] = "up")
    /\ Fault("crash")
    /\ attempt' = Ended(attempt, e)
    /\ Forget
    /\ UNCHANGED <<latest, runtime, binding, broker>>

\* Mutant of ExhaustedReconnects: it looks for attempts which never left ACTIVE.
ExhaustedReconnectsActive ==
    {e \in Epochs : /\ e = latest /\ attempt[e].state = "ACTIVE"
                    /\ attempt[e].work = "exhausted" /\ attempt[e].activated /\ LossStands(e)}

\* listExhaustedReconnects, and the runtime still stands
ExhaustedReconnects ==
    {e \in Epochs : /\ e = latest /\ attempt[e].state = "DETACHED"
                    /\ attempt[e].work = "exhausted" /\ attempt[e].activated /\ LossStands(e)}

\* The activated attempts whose client died with the last daemon.
Rearmed ==
    IF latest # 0 /\ NeedsReconnect(latest) THEN ArmReconnect(attempt, latest) ELSE attempt

Boot ==
    /\ ~up
    /\ up' = TRUE
    /\ attempt' = Rearmed
    /\ op' = [e \in Epochs |-> Scheduled(op, Rearmed, e)[e]]
    /\ settling' = ExhaustedReconnects
    /\ UNCHANGED <<latest, runtime, binding, client, staged, hosting, drives, env>>

-----------------------------------------------------------------------------
Init ==
    /\ latest = 0
    /\ attempt = [e \in Epochs |-> NoAttempt]
    /\ runtime = [e \in Epochs |-> [status |-> "none", inv |-> 0]]
    /\ binding = [e \in Epochs |-> "NONE"]
    /\ up = TRUE
    /\ client = [e \in Epochs |-> 0]
    /\ staged = {}
    /\ op = [e \in Epochs |-> Idle]
    /\ hosting = {}
    /\ drives = {}
    /\ settling = {}
    /\ broker = [e \in Epochs |-> "absent"]
    /\ faults = [kind \in Faults |-> 0]

\* An operation of the establishment scheduler takes its next step.
OperationStep(e) == EstablishmentStep(e) \/ RunReplacement(e)

\* A replacement that awaits its evidence gets an answer.
DriveStep(d) == DriveLost(d) \/ DriveHeld(d) \/ DriveCommits(d)

Next ==
    \/ \E e \in Epochs :
        \/ OperationStep(e) \/ Attach(e) \/ PersistHosting(e) \/ HostingFails(e)
        \/ BrokerDies(e) \/ ProducerExits(e) \/ ClientCloses(e) \/ CandidateCloses(e)
        \/ SettleDead(e) \/ SettleNothing(e) \/ CrashAfterExit(e)
    \/ \E d \in drives : DriveStep(d) \/ CrashAfterDisposal(d)
    \/ \E c \in {"same", "new"} : RequestReplacement(c)
    \/ Register \/ Deliver \/ Crash \/ Boot

Spec == Init /\ [][Next]_vars

\* The event loop runs what was scheduled, an await ends, and a supervisor restarts the daemon; no
\* fault, host or caller has to act.
Fairness ==
    /\ WF_vars(Boot)
    /\ \A e \in Epochs :
        /\ WF_vars(OperationStep(e) /\ UNCHANGED faults)
        /\ WF_vars(PersistHosting(e))
        /\ WF_vars(ClientCloses(e) /\ UNCHANGED faults)
        /\ WF_vars((SettleDead(e) \/ SettleNothing(e)) /\ UNCHANGED faults)
        /\ WF_vars(\E d \in drives : d.e = e /\ d.by = "work" /\ DriveStep(d) /\ UNCHANGED faults)
        /\ WF_vars(\E d \in drives : d.e = e /\ d.by = "door" /\ DriveStep(d) /\ UNCHANGED faults)

FairSpec == Spec /\ Fairness

-----------------------------------------------------------------------------
\* The shape of the rows and of what the daemon holds in memory.
TypeOK ==
    /\ latest \in 0 .. MaxEpoch
    /\ attempt \in [Epochs -> Attempts]
    /\ runtime \in [Epochs -> [status : {"none", "live", "terminated"}, inv : 0 .. MaxEpoch]]
    /\ binding \in [Epochs -> {"NONE", "BINDING", "BOUND", "RETIRING", "RETIRED"}]
    /\ up \in BOOLEAN
    /\ client \in [Epochs -> 0 .. MaxEpoch]
    /\ staged \subseteq Epochs
    /\ op \in [Epochs -> Ops]
    /\ hosting \subseteq Epochs
    /\ drives \subseteq Drives
    /\ settling \subseteq Epochs
    /\ broker \in [Epochs -> {"absent", "up", "gone"}]
    /\ faults \in [Faults -> Nat]

\* An attempt is activated only when no broker of an earlier one can still write: the evidence
\* a replacement waits for must hold when the successor is committed.
SoleWriter ==
    \A e \in Epochs : attempt[e].activated => \A p \in 1 .. e - 1 : broker[p] # "up"

\* Establishment work that ended well, and that no replacement holds, left an ACTIVE or disposed
\* attempt behind: a reconnect is armed before its first effect, so that neither a crash nor an
\* outage strands a DETACHED attempt that every door excludes.
CompletedMeansActive ==
    LET a == attempt[latest]
    IN latest # 0 /\ a.prepared /\ a.work = "completed" /\ a.intent = NoIntent
        => a.state \in {"ACTIVE"} \cup Absorbing

\* The binding states that occupy an address's one live slot.
LiveBinding == {"BINDING", "BOUND", "RETIRING"}

\* The address has one host: the runtime of the current attempt, and no other, has a live binding.
\* idx_participant_binding_live_address would refuse a second one; no step comes to that.
OneLiveBinding ==
    \A r \in Epochs :
        binding[r] \in LiveBinding <=> latest # 0 /\ r = attempt[latest].runtime

\* bindingTransitions: what a replacement retired is never bound again, not by an attach or a
\* commit that was under way either.
BindingsMoveOn ==
    [][\A r \in Epochs :
        binding'[r] # binding[r] =>
            <<binding[r], binding'[r]>> \in
                {<<"NONE", "BINDING">>, <<"BINDING", "BOUND">>, <<"BINDING", "RETIRED">>,
                 <<"BOUND", "RETIRING">>, <<"BOUND", "RETIRED">>, <<"RETIRING", "RETIRED">>}]_vars

\* A terminated runtime is live again for one reason only, whatever operation was in flight when it
\* ended: the attachment under way applied the exit that ended it among the envelopes it replays,
\* and then writes the status of its earlier snapshot.  A settled host, a replacement, an exit on
\* the live stream and a restart are final.
TerminatedStaysTerminated ==
    [][\A r \in Epochs :
        runtime[r].status = "terminated" =>
            \/ runtime'[r].status = "terminated"
            \/ \E e \in Epochs :
                  /\ attempt[e].runtime = r /\ attempt[e].state = "TERMINAL"
                  /\ runtime[r].inv = e /\ op[e].pc = "publish" /\ client'[r] = e]_vars

\* Stronger than the code: not even that attachment makes the runtime live again.
TerminatedIsFinal ==
    [][\A r \in Epochs : runtime[r].status = "terminated" => runtime'[r].status = "terminated"]_vars

\* What an attempt reached is not taken back by a replacement, a retry or a restart that comes
\* late: its preparation, broker identity and first activation stay, and an absorbing attempt
\* stays absorbing.
AttemptIsNeverReborn ==
    [][\A e \in Epochs :
        /\ attempt[e].prepared => attempt'[e].prepared
        /\ attempt[e].identity => attempt'[e].identity
        /\ attempt[e].activated => attempt'[e].activated
        /\ attempt[e].state \in Absorbing => attempt'[e].state \in Absorbing]_vars

\* Once hosts stop asking for a replacement, every operation of the scheduler ends, with or without
\* success: the budget of an attempt bounds its retries, whatever crashed or was cancelled meanwhile.
\* (A cancelled replacement gives the attempt its old count back, so endless requests retry forever.)
OperationEnds ==
    <>[][\A c \in {"same", "new"} : ~RequestReplacement(c)]_vars
        => \A e \in Epochs : op[e].pc # "idle" ~> op[e].pc = "idle"

\* The reconnect to a host that died has spent its budget; no replacement holds the attempt.
GivenUp(e) ==
    /\ e = latest
    /\ attempt[e].state = "DETACHED" /\ attempt[e].work = "exhausted"
    /\ attempt[e].activated /\ attempt[e].intent = NoIntent
    /\ LossStands(e) /\ broker[e] = "gone"

\* A host that is dead when the reconnect to it has spent its budget, or that died while the daemon
\* was down, is settled, by this daemon or by the next; unless a probe of it got no answer.
DeadHostIsSettled ==
    \A e \in Epochs :
        GivenUp(e) /\ (e \in settling \/ ~up)
            ~> ~GivenUp(e) \/ \E kind \in Faults \cap {"probe"} : faults[kind] > 0

\* "A bridge successor keeps the predecessor's runtime row, so it is only possible while that row
\* is live": the attempt that a bridge replacement has just committed stands on a live runtime.
BridgeRuntimeIsLive ==
    \A e \in Epochs :
        e = latest /\ e > 1 /\ attempt[e].runtime # e /\ ~attempt[e].prepared
            => RuntimeOf(e).status # "terminated"

\* "A converging retry reports `attached' only while establishment is still HRC's work or HRC holds
\* the broker that received this attempt's identity."
ConvergedMeansHeld ==
    LET e == latest
    IN up /\ e # 0 /\ attempt[e].prepared /\ attempt[e].state \notin Absorbing
        /\ ConvergedAttach(e) = "attached"
            => attempt[e].work \in Armed \/ ClientOf(e) = e

\* A missing client is "its own outcome so the caller joins ONE recovery operation rather than
\* pushing input at a seat with no client behind it": no delivery is told that its target is
\* attached when nobody is establishing it and no client of the controller serves it.
AttachedHasClient ==
    LET e == latest
    IN up /\ Delivery = "attached" => op[e].pc # "idle" \/ ClientOf(e) = e

=============================================================================
