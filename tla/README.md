# TLA+ verification of hrc-runtime

hrc-runtime is a daemon (`hrc-server`) that runs coding-agent turns inside harness
brokers: separate, longer-lived processes that own the agent and keep an append-only
ledger of what it did. The daemon holds the durable truth in SQLite
(`hrc-store-sqlite`), projects broker events into it, admits turns, delivers messages
between agents and may be restarted at any time while brokers go on. This directory
models the parts in which several actors share state across awaits, processes or
crashes, checks them with TLC on small instances, and proves the central invariants of
the event projection, the admission gate, the server lock, the event forwarder, the
external participants and the federated placement with TLAPS for every value of the constants.

## Inventory

| Part | State it keeps | Operations | What is hard | Status |
|---|---|---|---|---|
| Event mapper and ledger rows (`broker/event-mapper*`, `broker-invocation-event-repository.ts`) | mirrored envelopes, dispositions per sequence, `last_projected_seq`, in-memory delta range | apply, ignoreRawDelta, flushIgnoredDeltas, fence | out-of-order and repeated envelopes, rows older than the dispositions | `BrokerMapper` |
| Controller, live consumer and gap backfill (`bc-events.ts`, `bc-projection.ts`) | active clients, pending gaps and timers | consumeEvents, busy retry, backfill, acknowledge, afterMappedEvent | three paths interleave at awaits; lost envelopes; refused requests | `BrokerProjection` |
| Controller, attach and replay (`dispatch-attach.ts`, `startup-reconcile.ts`) | single-flight map, candidate client | attachAndReplay, warmup | cursor and snapshot read before awaits and used after them; daemon crash anywhere | `BrokerProjection` |
| Controller, close and terminal paths (`bc-close.ts`, `lifecycle.ts`) | runtime status, active client | handleBrokerClose, markBrokerInvocationTerminal, failReplayStale, markBrokerCrashTerminal | a close during replay, a stale status written over a newer one | `BrokerProjection` |
| Turn admission gate (`turn-admission-gate.ts`) and lifecycle drain (`server-lifecycle-controller.ts`) | closed record in memory, marker file, active admissions | admit, close, reopen, load at boot | memory and file change around awaits; a crash between them | `TurnAdmission` (the lifecycle controller: `--drain` only) |
| Server lock (`server-lock.ts`) | lock file, cleanup claim file, socket | acquire, clear stale, release | several processes, non-atomic file steps, death anywhere | `ServerLock` |
| Retained evidence recovery (`offline-evidence*.ts`, `runtime-exclusive-owner.ts`) | ownership map, retained cursor | acquire, read ledger offline, apply retained | exclusion against attach across an await; completion on a ledger with deltas | planned |
| Turn admission pipeline (`turn-admission/`) and headless queue (`broker-headless-queue.ts`) | leases, run rows | lease, route, join a boot, continue a queued row | work that starts behind a closed gate; stale decision inputs | `TurnAdmission`, partly |
| Broker dispatch and submission (`controller/dispatch.ts`, `bc-submission.ts`, `bc-rpc.ts`, `persistence.ts`) | run/submission correlation | dispatch input, settle, withdraw | an RPC whose outcome is unknown | planned |
| Mail and target messages | message rows, handoffs | queue, deliver, hand off | at-most-once across a successor | planned |
| Event forwarding and ingest (`event-ingest/*`, `tool-result-blob-repository.ts`) | the sender's three ledger tables and cursor file; the receiver's stored rows and staged blobs | sweep, post, narrow, park, write cursors; receive, fan out | acknowledgements lost after the commit, retries of what arrived, tables that lose rows meanwhile | `EventForwarding` over the abstract `Outbox` |
| External participants (`participant-*.ts`, `controller/participant-*`) | registrations with their attempts, hosting and settlement records, replacement intents; runtime and binding rows; the attached client | register, attach, establish, reconnect, settle, replace | a dozen durable steps around awaits, with predecessor and successor on one runtime | `Participants`, partly |
| Federation, the home of a scope (`federation/summon-gate*.ts`, `authority-lock.ts`, `retirement.ts`, `establishment.ts`, `birth-designation.ts`, `registry-*.ts`, `home-authority.ts`, `shadow-teardown-handlers.ts`, `federation-repositories.ts`) | the registry's binding and designation; per node the placement ledger, the continuity selection, runtimes, the scope lock, the remembered foreign home | summon, establish, designate, retire, repair at boot, tear down shadows | two databases written in an order, with requests that are lost or late; doors that take no lock; starvation | `Placement` over the abstract `SingleHome`, partly |
| Federation, routing and peer protocol (`peer-*.ts`, `locate*.ts`, `scope-read-routing.ts`, `collective-history.ts`) | caches of peers | route, locate, claim | stale caches | not modelled: reads, and no authority of their own |
| Self restart, session rotation | successor process, generations | hand over, rotate | restart between steps | planned (a rotation's meeting with retirement is in `Placement`) |
| Sweeps, ask bracket, event streams, claims | derived rows, bounded buffers | reconcile, fan out, claim | stale reads, buffers at their limit | planned |
| Parsers, CLI, SDK, renderers, PTY crate, presentation | none shared | - | - | not modelled: stateless or presentation |

Parts interact through SQLite rows (all of them), through the broker's JSON-RPC (attach,
snapshot, eventsSince, ackEvents and the live stream), through callbacks
(`afterMappedEvent`, `onClose`) and through files (lock, admission marker). The
hazards, each at its line, are in `PROJECT.json`.

## Modules

`BrokerMapper` is the mapper together with the rows it writes, for one invocation.
Every mapper call is one synchronous SQLite transaction, so each operator is a whole
atomic step. `cursor`, `disp`, `mirror`, `fenced` are durable rows; `pend` is the
in-memory delta range; `projected` is a ghost that counts committed state effects.
An envelope is its sequence number; what the code tells apart about it (raw delta, run
evidence, fenced run, exit, disposal) are constant sets of sequences. The payload, its
hash and the some forty kinds of state effect are abstracted: the conflict check sees
only the run an envelope is resolved to, which is the one input that can differ between two
arrivals of the same ledger entry. `Resolutions` says which answers are possible. The run is
"owned" if it is the one that the initiating evidence names: the envelope itself, or a row
that is found iff it is mirrored by now (`TurnStart`). For the envelopes of `Inferred` the
code looks at rows that it rewrites elsewhere: `runtime.activeRunId`, open asks and completions
in `resolveNoBracketOwner`, the dispatched input and the submission of a run, the fence
filter of `findPriorInputAccepted`. There any answer is possible at any time, so an inferred
envelope may conflict with its own row whenever it is projected again. What the other code writes
into those rows, and when, is not modelled.

`BrokerProjection` extends it with the controller and an external broker. The live
consumer, the backfill and the attach are three processes of one event loop, cut
exactly where the code awaits: after the mapper commit (acknowledgement), after the
acknowledgement (afterMappedEvent), at each request of a backfill and an attach. A
crash clears everything but the durable rows and may happen at any cut. A consumer that
threw first awaits the probe of its tmux pane, and a live pane forgives it.

| Code | Model |
|---|---|
| `BrokerEventMapper.apply` of a delta / a semantic envelope | `IgnoreRawDelta` / `ApplySemantic` |
| `advanceContiguousProjectionCursor` | `AdvanceContiguous` |
| `projectBrokerEventWithBusyRetry` | `ConsumeDelta`, `ConsumeSemantic`, `ConsumerAck`, `ConsumerAfter`, `ConsumerBusyRetry`, `ConsumerFails` |
| end of `consumeEvents` | `StreamEnds`, `ConsumerEndAck`; a throw: `ConsumerThrows`, `ConsumerProbed` |
| `scheduleBrokerEventGapBackfill`, `backfillBrokerEventGap` | `GapTimerFires`, `StartBackfill`, `BackfillFetch` ... `BackfillFails` |
| `attachAndReplay` | `AttachBegin` ... `AttachPublish`, `AttachFails` |
| `markBrokerInvocationTerminal`, `failReplayStale`, `markBrokerCrashTerminal`, `handleBrokerClose` | `MarkInvocationTerminal`, `ReplayStale`, `CrashTerminal`, `BrokerClose` |
| the broker process and its transport (external) | `BrokerAppend`, `BrokerPrune`, `LoseLive` |

Abstractions of `BrokerProjection`: one backfill is in flight at a time (a second
request waits in `gap`); the consumer of an earlier client has ended before the next
attach begins; `afterMappedEvent` of a replayed envelope happens with its commit
(nothing awaits between them outside tests); a terminal envelope either closes the
client or, during a disposal, keeps it; `floor` is the highest discarded sequence; the
age-based compaction of dispositions below the cursor is left out, as the cursor
answers for them.

`EffectLedger` is what the projection promises without streams, replays, retries and
crashes: the effects of an entry are committed once or waived for good, in a transaction
that deals with one entry; a prefix is sealed only when all of it is dealt with and is not
touched again; the source is told only of what was sealed before. Under the refinement
mapping `projected` is the effects, the fenced dispositions are what is waived, `cursor` is
the seal and `acked` what the broker was told.

`TurnAdmission` is the gate with everybody who meets at it. `mem` is `gate.closed`, lost
with the process; `marker` is `turn-admission.json`, which the successor's constructor
reads. `close` changes them in two steps around the durable rename, `reopen` in two steps
around the unlink, and turns move in between. A turn is one stage: the status of its
durable run row together with whether it holds a lease; `seat` is what the runtime row says of a started
turn: the runtime names it and is busy, names it and waits for its operator, or never took it
(`claimRuntimeTurnOwnership` refused). `InFlight` is the query, not the truth: `accepted` rows,
and started rows that a `busy` runtime names.

| Code | Model |
|---|---|
| `TurnAdmissionGate.admit`, `runLeasedAdmission` | `Admit`, `Route`, `RouteReturns` |
| last `release` of a lease, `waitUntilIdle` | `WakeIdleWaiters` |
| `joinRuntimeStart` | `JoinEnds` |
| `waitForHeadlessBrokerRunCompletion` | `WaitTimesOut`, `Finish` |
| `drainDurableHeadlessTurnInputs` on a terminal event | `ContinueQueued` in `Finish`, `Continuation` |
| `turn.started`, an ask and its answer | `Start`, `Ask` |
| `listInFlightWork` with `includeAcceptedRuns` | `InFlight`; `AgeOut` is its recency window |
| `TurnAdmissionGate.close` | `CloseGate`, `PersistClosure`, `PersistFails` |
| `closeAdmissionAndDrain`, `executeLocally` | `DrainEnds`, `DrainThrows`, `Execute`, `ExecutorThrows` |
| gate constructor, `reopen` at the end of `createHrcServer` | `Successor`, `BootReopens`, `BootUnlinks`, `BootOpens` |

Abstractions of `TurnAdmission`: only the `--drain` form of a restart closes the gate, and
it is the only one modelled; operation ids are numbers drawn in order. The order of queued
rows of a session is left open. A queue drain continues a row only when no route
holds a lease for it; the code lets the two race for the claim of the row. Whether an
execution survives the end of the daemon (in the broker's lease) or is killed is a choice.
`AgeOut` stands for a row without recorded activity for the recency window.

`ServerLock` is the lock file, the cleanup claim and the socket path, used by any number
of processes, one file-system call per step. `open('wx')` creates an empty file and the
content follows in a second call, so a file is absent, empty or written; a write through a
handle whose path was unlinked meanwhile is lost. Every process starts once.

| Code | Model |
|---|---|
| `acquireServerLock` | `OpenLock`, `WriteLock`, `ReadLock`, `ProbeOwner` |
| stale cleanup under the claim | `OpenClaim`, `WriteClaim`, `ReadClaim`, `UnlinkClaim`, `RereadLock`, `ReprobeOwner`, `UnlinkStaleSocket`, `UnlinkStaleLock`, `ReleaseClaim`, `RemoveClaim` |
| `prepareSocketForStartup`, listener | `ProbeSocket`, `UnlinkSocket`, `Listen` |
| `cleanupFailedStartup`, `stop`, `releaseServerLock` | `StartupFails`, `Stop`, `StopSocket`, `ReleaseLock`, `RemoveLock` |

The code asks two different questions about the pid in a file. `isLockOwnerAlive` lets a lock from
before the boot belong to nobody (`LockOwnerAlive`, up to the margin of a minute: `recent`);
`isLiveProcess`, which is all that is asked of the cleanup claim, finds whoever has the pid now
(`LiveProcess`). `Reboot` ends every process and hands any of the pids that the files name to
others (`taken`), which may run for ever.

Abstractions of `ServerLock`: within a boot a pid is not reused, and whoever got one by the
reboot keeps it until the next; `bind` refuses a path that exists; file-system errors
other than EEXIST and ENOENT are left out. `Overlap` says whether two processes may be in
their startup at once; a supervisor such as launchd starts one at a time.

`EventForwarding` is one forwarding server and its receiver. The sender's tables (`rows`,
with `blobs` and the last row number given out, `last`) and its cursor file (`disk`) are
durable; a sweep in the sender's memory holds its copy of the cursors (`cur`), the table it
works on (`stage`), what is left of the page (`todo`, `page`), the next part of a blob and
whether a refusal narrowed the next request. `wire`, `answer` and `late` are the
connection: the request that is waited for, its answer, and the requests of connections
that are gone, which the receiver may still apply. The receiver has `held` rows, `staged`
parts of incomplete blobs and `stored` blobs; `notified` is a ghost that counts fan-outs. A
row is its feed and sequence; what the code tells apart about it (foreign, oversized,
retained, spilled, the runtime it belongs to) is a constant set or function. `Unstable` are the
lifecycle rows whose identity the two daemons may derive differently from their own
continuities (`event-repositories.ts:259-268`, `864-886`): each resend of one may be taken for
a duplicate or for a divergent one. The receiver commits a row and fans it out after that, so a
request that breaks off may leave its last committed row unannounced (`IngestBreaksOff`).

| Code | Model |
|---|---|
| `forwardAvailableEvents`, one page of each table in turn | `StartSweep`, `NextTable` |
| `originRuns`, `prepareBoundedBatch`, `forwardBlobParts` | `PostBatch`, `PostPart` |
| acknowledgement of a batch or a part | `BatchAcked`, `PartAcked` |
| `deadLetterAndAdvance`: too large, named by the refusal, or alone in a refused request | `Oversize`, `RowRefused`, `BatchRefused` (which otherwise narrows) |
| the cursor file; a retryable answer | `WriteCursors`, `RetryLater` |
| `ingestBatch`, `ingestPart`, `appendImported`, fan-out | `Receive`, `ReceiveLate` |
| what may go wrong | `CursorsUnreadable`, `WriteFails`, `ConnectionBreaks`, `SenderCrashes`, `ReceiverRefuses`, `ReceiverCrashes`, `PruneRuntime` |

Abstractions of `EventForwarding`: the byte budget of a frame becomes "any fitting prefix
of the page"; retry delays have no length; the store of the receiver fails now and then and not
for ever, since an error that repeats at the same row (a 500 without a verdict) would be retried
for ever and nothing behind it would settle; the one-shot drain at shutdown, which is a sweep
of its own, and the set-up of sockets and credentials are left out. `Outbox` is what the
forwarder promises without cursors, batches or retries: the rows of a feed arrive in the
order of the ledger, and only one that can never be delivered, or that was removed, is left
out.

`Participants` is one external-participant registration over its successive epochs: the
current attempt and its phase, what each epoch's hosting, settlement, runtime and binding
rows say, the client the daemon holds, the replacement intents of a host, and the
establishment in flight. An establishment is cut at each of its awaits.

| Code | Model |
|---|---|
| `registerParticipant`, attach route | `Register`, `Attach`, `PersistHosting`, `HostingFails` |
| `runEstablishment` and its steps | `EstablishmentStep`: `RunEstablishment`, `Realize`, `Install`, `Ensure`, `Stage`, `Activate`, `Replay`, `Publish`, `CallFails`, or `RunNothing` |
| delivery to an attached participant | `Deliver` |
| close of the client or of the candidate, settlement of a dead host | `ClientCloses`, `CandidateCloses`, `SettleDead`, `SettleNothing` |
| `admitReplacementIntent`, the drives that follow it | `RequestReplacement`, `RunReplacement`, `DriveLost`, `DriveHeld`, `DriveCommits` |
| broker and producer (external) | `BrokerDies`, `ProducerExits` |
| the daemon's end and its boot | `Crash`, `CrashAfterDisposal`, `Boot` |

Abstractions of `Participants`: one registration; attempts, invocations, runtimes and
bindings share the number of their epoch; a realized hosting and its rediscovery are one
step; the state SUPERSEDED, which nothing writes, is left out; a dead broker does not come
back at its old socket; replacement evidence is a dead transport or a host that never
attached; calls to a broker end, with an answer or a failure, although identity, hello and ensure
have no deadline of their own (a broker that accepts and never answers would keep the operation
open). The envelopes that a replay brings matter only by an `invocation.exited` among them, which
ends the attempt and terminates the runtime before `Publish` writes the status of the snapshot.
Not modelled of it: the continuation a successor inherits, claims of a home node, and the renewal
of credentials. The early returns of an establishment that is served already are in the model
but not met within the bounds.

`Placement` is the home of one scope in a federation of nodes. The registry (`registry`,
`designation`) is one database on one host. Each node has its own row in the placement
`ledger` (none, active, retired), the continuity `selection` that lets a delivery skip the
summon gate, and a `runtime`; `starting` and `rotating` are the nodes with such an operation
under way, and `outrun` is a history variable: the nodes on which a rotation has selected a
session again after the fence of a retirement. A call (`op`) is one handler in flight: what it does, what it waits for and the
answer that is on its way to it. `queue` is the scope lock of a node, `late` holds the
requests whose sender gave up or died and which the registry may still apply, `memo` and `pass` are
the remembered foreign home and the pass of the shadow teardown.

| Code | Model |
|---|---|
| `withScopeSummonLock`, `withScopeAuthorityLock` | `Request`, `Granted`, `Compatible` |
| `decide`, on the local ledger, on the registry's answer | `SummonEnters`; `UseLocal`, `UseOwn`, `UseUnbound`, `UseForeign` |
| `applyBirthDesignation`, `establishLocalPlacement` | `UseDesignation`, `UseOwn` |
| the registry's routes and their transactions | `Serve`, `LateRequest`: `Designates`, `Establishes`, `Deletes` |
| `retireFederationScope` | `RetireEnters`, `RetireRefused`, `UseDelete`; `DiesUnfenced` is a death between its mark and its fence |
| `captureLivePlacementRepairCandidates`, `repairLiveUnboundPlacements` | `Restart` (`Repairing`), `UseRepair` |
| doors that start a runtime (`assertScopeNotRetired`) | `StartBegins`, `StartEnds` |
| `runForeignHomeShadowTeardown`, `resolveHomeAuthority` | `PassBegins`, `PassAnswered`, `PassEnds` |
| time-outs, refusals, an incapable node | `GivesUp`, `PassGivesUp` |
| `rotateSessionContext` | `RotationBegins`, `RotationEnds` |

Abstractions of `Placement`: one scope. A node whose own placement policy pins the scope, or homes
it there, is in `Declared`: its summons and repairs establish and supersede a designation;
elsewhere nobody declared it and the registry host designates. A policy tier that names another
node, and a capability this node will never have (`summon-gate.ts:104-115`), refuse for good in
the code and are here the fault `GivesUp`, of which there are `MaxFaults`. A caller with a
declared home is a kind of request of its own. Which home the sender of the birth envelope has is
a choice. A rotation without a live runtime has no teardown to await and is left out; the
teardown of a foreign seat is one step with the end of its runtime, or fails (`TeardownFails`)
and is retried by the next pass. A mint of a session under the lock ends.
A node that seated the scope before bindings existed (`Legacy`) starts with a selection
and a runtime and no row. A grant of the lock is one step with the read of the local ledger,
which nothing awaits in between. The retries of a consult are one request. The enforcing mode
of the gate is the one modelled; advisory mode, participant claims, the session-mint lock and
the rebuild of the registry are not. `SingleHome` is the promise: one home, authority
only for the home, and none for a node that retired, ever again.

`MCBrokerProjection`, `MCTurnAdmission`, `MCEventForwarding`, `MCParticipants` and
`MCPlacement` name the constant functions the configurations use; `ServerLock` needs none and
is checked directly. `BrokerProjectionProofs`, `BrokerOrderProofs`,
`TurnAdmissionProofs`, `ServerLockProofs`, `EventForwardingProofs`, `ParticipantsProofs` and
`PlacementProofs` hold the theorems.

## Runs

All configurations set `CHECK_DEADLOCK FALSE`: the ledger, the turns, the processes, the
rows and the epochs are finite, so every behaviour ends, and in `Placement` nobody is obliged
to ask anything of a scope that is settled.

| Run | Instance | Checks |
|---|---|---|
| `projection` | 5 envelopes, deltas 2 and 4, 3 may be fenced and its run is inferred, 5 is the exit; any 2 of crash, close, refused request, busy, loss; reordering | types; the cursor and the acknowledgement cover only settled envelopes; nothing is projected twice; durable progress; a published client is caught up |
| `recovery` | envelopes 1 and 2 mapped before dispositions existed, 2 and 3 of a run that may be fenced, evidence of 3 at 2, the run of 2 inferred, 4 the exit, 5 the disposal; any 2 of crash and early pruning; reordering | refinement: the projection implements `EffectLedger`, over the migration bridge too; no publication over discarded history; liveness: a projected exit ends the runtime |
| `gap_repair` | 5 envelopes, delta 3, the runs of 1 and 4 inferred, 3 faults of loss or early pruning | liveness: a detected hole is repaired while client and ledger last |
| `admission` | 3 turns in 2 sessions, 2 drained restarts, one of crash, failed persist, failed executor, failed query or aging; joins of a boot, asks, refused ownership claims | types; the closure holds in memory and on disk until the process ends; the drain starts over an empty pipeline |
| `admission_clean` | the same turns, 2 of crash or failed persist; no joins, no aging, no asks, no refused claims | a restart granted as clean has nothing to kill; liveness: a closed gate opens again |
| `admission_queue` | 3 turns, joins of a boot | violation: see Findings |
| `lock` | 4 processes, one startup at a time, 3 kills at any call, 1 reboot that hands out pids again, 1 failing startup | types; one holder; the file names it; liveness: a stale lock never blocks the starter that found it, unless the pid of a claim from before the reboot is in use again |
| `lock_overlap` | 3 processes, overlapping startups, 1 kill | violation: see Findings |
| `forwarding` | 4 rows of `hrc_events` (one foreign, one oversized, two spilled, one of these with a part that fits no frame, one whose identity the daemons may derive differently) and 2 retained broker rows, batches of 3; one fault of any of 8 kinds | types; no durable cursor passes a row that has neither arrived nor become a dead letter; only what can never be delivered becomes one, or the resend of an unstable row that has arrived; fan-out happens at most once, and only as many rows stay unannounced as there were faults; liveness: every row settles, a blob follows its row; refinement: the forwarder implements `Outbox` |
| `forwarding_prune` | 2 and 2 rows, one pruned runtime | violation: see Findings |
| `participants` | 2 epochs, 2 tries of each call, one fault of 5 kinds (crash, dropped connection, failed call, lost probe, failed hosting intent); brokers die and producers exit at any time | types; one writer; a completed operation is active; settled attempts stay so; a terminated runtime comes back only by the attach that replayed its exit; liveness: every operation ends, a dead host is settled |
| `placement` | 2 nodes; on `a`, which seated the scope before and starts runtimes, rotates sessions, a kicker and a caller that retires the scope, on `b`, which its own policy names the home, a caller; one fault of a crash, a lost answer or a late request | types; authority only at the home; no selection at a retired node whose home is released, but for one that a rotation made after the fence; refinement: placement implements `SingleHome`; liveness: no waiter starves, a designated scope is born, a seat away from home ends |

Why the bounds are enough: a hole needs a lost envelope with one before and one after it; an
island that later joins the cursor needs two more. Five sequences hold a delta inside and
outside the hole. Two faults suffice for a loss followed by a crash (or a crash in the repair),
three for a hole of two with a pruned ledger. Two turns of one session make a continuation, the
third admits from another session meanwhile; two restarts let a second one meet the closure, or
the boot, of the first. For the lock, a server is killed, the starter that cleans up after it is
killed with the claim in hand, a third is killed at any later point, and the fourth must still
get through; the one reboot may fall anywhere in this. For the forwarder a page of three rows has a row before, inside and after each
special one; one fault at a time is enough because a sweep starts from the durable cursors
whatever went before, and the invariants that carry over are proved for any number. A
participant needs two epochs for a predecessor and a successor; two faults pass as well, three
epochs with faults are too many states. For a placement the two nodes are the old home and the
new one, and the three calls let a birth, a retirement and a repair of the old home overlap with
a birth on the new; one fault puts a crash, a lost answer or a late request between any two
steps (a second one is too many states, and the safety properties are proved without a bound).
Sessions are rotated without a bound. What `NobodyWaitsForever`, `DesignatedIsBorn` and
`ShadowsEnd` say must be read with these bounds: a node that refuses for good, by its policy or
because it lacks a capability, is outside of them.
The theorems remove the bounds for the safety properties, under the assumptions listed below.

Fairness: the event loop runs what is runnable (consumer, backfill and attach steps), a
debounce timer that is due fires, and boot warms up every attachable runtime
(`warmDurableBrokerBindings`). Nothing is assumed of the broker, of delivery or of the
faults. `gap_repair` lets live requests succeed, since the code does not retry a refused
one, and delivers in order. In `TurnAdmission` a handler that holds a lease ends (the wait
for completion has a deadline of ten minutes), a restart and a boot go on; nothing is
assumed of clients, of executions, or of `JoinEnds`, because
`waitForCompilerPrimingTerminal` has no timeout. `EveryClosureEnds` is therefore
checked without joins, and without a failing executor or query, after which
`executeLocally` leaves the gate closed until the next restart. In `ServerLock` a process
that runs makes its next call; nothing obliges the owner of a reused pid to end. In `EventForwarding` the sweep repeats (its timer is
re-armed whatever a sweep did) and a live connection is answered; no fault is obliged or
forbidden, and there are at most `MaxFaults` of them. In `Participants` the daemon boots, the step in hand of an establishment or of a
drive is taken, the hosting intent is persisted, and a closed transport is noticed and
settled. `OperationEnds` is conditional on requests ceasing (each one may start the
establishment anew), `DeadHostIsSettled` on the probe getting an answer: an unanswered one
proves nothing to the code, which then keeps the attempt. In `Placement` a call takes its next
step (requests have time-outs, the lock is a queue), the kicker of a node sweeps the births
designated to it periodically (`handleListUnbornDesignations` serves it), and the teardown is
a timer, which must be enabled, and the termination of a runtime, retried, succeeds in the end; nobody is obliged to retire, to declare a home, to start or to end a runtime.
`DesignatedIsBorn` excepts a node that has retired the scope, see `MCPlacementDesignated`.

`recovery` leaves the loss of live envelopes out. With it `ExitEndsRuntime` fails: when the
exit is the last thing the live stream lost, an attach publishes the status of the snapshot
it took before its replay, and nothing arrives afterwards to correct it.

Beside the runs there are configurations that show limits of the code on an instance of
their own; each is expected to find its property violated: `MCBrokerDeltaGap`,
`MCBrokerReplayConflict`, `MCBrokerRetryConflict`, `MCServerLockReboot`, `MCTurnAdmissionWarmup`,
`MCTurnAdmissionAsk`, `MCEventForwardingResend`, `MCEventForwardingUnheard`,
`MCParticipantsAttached`, `MCParticipantsBridge`, `MCParticipantsDelivery`, `MCParticipantsExit`,
`MCPlacementDesignated`, `MCPlacementStart`, `MCPlacementRotation`, `MCPlacementTeardown`. See
Findings.

Five more check, on instances like those of the runs, properties that are proved and that no
run lists; all five pass: `MCBrokerOrdered` (a stream that keeps its order: no gap, no
refusal, no conflict but of an inferred run), `MCEventForwardingKept` (`BlobIsNotLost`, `CursorsOnlyGrow`),
`MCTurnAdmissionOwner` (`ClosureHasOwner`, with joins and aging), `MCParticipantsHost`
(`OneLiveBinding`, `BindingsMoveOn`) and `MCPlacementLock` (`RetirementIsAlone`,
`NobodyIsOvertaken`).

## Findings

`MCBrokerDeltaGap` (beside the runs). `ignoreRawDelta` measures a raw delta against the pending
range or the cursor, and does not look at dispositions above them. Lose 2 and delta 3, project
4, let the backfill apply 2 and delta 3: the range now ends at 3 right below the island 4, and
live delta 5 is refused as a "raw delta gap" although nothing is missing. The consumer dies; in
a replay the same refusal makes the runtime stale. The comment on the cursor says raw deltas
cannot create false source gaps. It takes loss or reordering: `OrderedReplayIsFaithful` proves
the property for a stream that keeps its order.

`MCBrokerReplayConflict` (beside the runs). The run of an envelope is resolved from the rows
mirrored so far and is compared when the envelope arrives again. An envelope that arrived before
its `turn.started` is stored without a run; replayed in order after a crash it resolves to one,
and the append reports a conflict instead of an idempotent replay. It takes both an arrival out
of order and an envelope that leaves its run to be looked up. `OrderedReplayIsFaithful` proves
that without the disorder a replay does not conflict, because it brings only what was never stored.

`MCBrokerRetryConflict` (beside the runs). The append is called "Idempotent append keyed by
(invocationId, seq)" (`project-envelope.ts:107`), but it compares the run as well, and the run is
resolved before it, from rows that the projection of the same envelope may have changed. A
`turn.completed` that names neither turn nor input and has no open bracket is resolved through
`runtime.activeRunId` (`run-resolution.ts:462-493`), which its projection clears. When
`afterMappedEvent` then meets SQLITE_BUSY, the busy retry resolves another run, or none, and the
append throws a conflict instead of answering an idempotent replay; the consumer ends. No loss and
no disorder is needed. `OrderedStreamNeedsNoRepair` proves that an ordered stream has no
conflicts beyond these.

`MCServerLockReboot` (beside the runs). A lock whose pid was given to another process by a reboot
does not block a start ("A lock written before the current boot cannot belong to a live
server, even when its pid has since been reused", `server-lock.ts:62`). The cleanup claim is not
asked when it was written (`server-lock.ts:167`): a starter killed in its cleanup leaves one, and
when a reboot gives its pid away every later start finds the stale lock and then polls for the
claim, for as long as that process lives.

`MCTurnAdmissionAsk` (beside the runs). A turn that waits for the answer of its operator has a
`running` row and a runtime that is `awaiting_input`; the recheck counts neither
(`in-flight-work.ts:76-92`), and the restart is granted with "closed-admission recheck found no
headless work" and ends the turn. The same goes for a run whose ownership claim the runtime
refused (`runtime-state.ts:44-72`). `CleanRestartIsSafe` therefore assumes that neither happens.

`MCEventForwardingResend` (beside the runs). The test at `event-ingest.test.ts:217` says "identical
resend acks no-op". The listener compares the row it holds, with an identity derived from its own
continuities, with the identity that the sender derived from its (`event-repositories.ts:487-506`).
When they differ, the resend of a batch whose acknowledgement was lost is refused as
`divergent_duplicate`, and the sender parks a row that has arrived. Nothing is lost by it: the dead
letter is wrong, and `ParkingIsJustified` proves that no other kind of wrong one exists.

`MCEventForwardingUnheard` (beside the runs). The listener commits a row and fans it out after that
(`listener.ts:72-91`). When the process dies or a subscriber throws in between, the batch comes
again, the row is a duplicate now and is never announced.

`MCTurnAdmissionWarmup` (beside the runs). The daemon listens from its constructor
(`index.ts:480`), but the boot calls `reopen()` only after the warmup (`index.ts:887`), and
without an operation id. A drained restart requested in between is reopened by the boot of the
process it is about to end, turns are admitted, and the clean verdict still stands.

`admission_queue`. A row left `queued` is continued by the terminal event of the next turn
of its session, through the closed gate. Between the end of that turn and the claim of the
queued row the recheck sees neither: it reads active rows, not `queued` ones, and not
`activeAdmissions`. The restart is granted as clean and kills the turn being dispatched.

`lock_overlap`. The cleanup claim is empty between its creation and its content
(`server-lock.ts:167`). A second starter that reads it there takes it for abandoned and
claims the cleanup too; the first removes the stale lock and acquires, the second removes
the lock of the first and acquires as well.

`forwarding_prune`. The blob feed pages by `rowid`, and the table has a text key without
AUTOINCREMENT. When a runtime with the newest blobs is pruned, SQLite gives their row
numbers out again; the next blob stands behind the cursor and is never sent, though its row
is. `NothingPassedWithoutPruning`
proves that this loss takes a pruning.

`MCParticipantsBridge` (beside the runs). The kind of a replacement is decided before its
evidence is awaited and not looked at again (`participant-succession.ts:244`). When the producer
exits meanwhile, a bridge successor is committed on a runtime that is terminated, and its
establishment can only end in a conflict. The comment at `participant-succession.ts:188` says a
bridge is only possible while the row is live.

`MCParticipantsAttached` (beside the runs). The attach handler persists PREPARED, and the
hosting intent after an await. When the daemon dies in between, the establishments of the
next one all fail at the realization and exhaust the attempt; a retry of the attach with
the same bytes is then answered `attached`, because only attempts with a broker identity
are checked for a client, and nobody works on it.

`MCParticipantsDelivery` (beside the runs). The activation is committed before the replay.
When the replay fails and the budget is spent, the attempt is ACTIVE with its work exhausted
and no client; `participantNeedsReconnect` asks for completed work, so a delivery is told
that its target is attached.

`MCParticipantsExit` (beside the runs). The attach takes a snapshot, replays what was missed and
writes the status of the snapshot over the runtime row (`dispatch-attach.ts:171`, `212-225`,
`265-302`). When the replay carries the `invocation.exited` of the producer, it has ended the
attempt and terminated the runtime, and the write makes the runtime live again and publishes a
client for it. `RuntimesStayTerminated` proves that nothing else revives a terminated runtime.
What corrects it is the copy of the exit on the live stream, as for a harness broker
(`ExitEndsRuntime`); when the connection breaks first, the live row stays.

`MCPlacementDesignated` (beside the runs). A scope that node `a` retired is designated to `a`
again when the home of the sender of its birth envelope is `a` (`birth-designation.ts:144` does not
ask who retired the scope). `a` refuses it for good with `scope-retired`, every other node with
`birth-designated-elsewhere`, so mail never has it born; an explicit start still can. The
diagnostic at `summon-gate.ts:243` tells the operator that the designated node births it.

`MCPlacementStart` (beside the runs). A start that was admitted while the scope was active has
no runtime row yet when the retirement looks for live runtimes; it goes on and seats the retired
scope (`retirement.ts:86`). The shadow teardown ends that seat only once the scope has another
home.

`MCPlacementRotation` (beside the runs). A rotation checks the ledger, awaits the teardown of
the old session and selects the successor (`session-rotation.ts:171`). A retirement may mark,
fence and release meanwhile, so the retired node has a selected session again, while the fence
is there because such a one "could otherwise let a stale delivery skip fresh-establishment
authority" (`retirement.ts:123`). `RetirementFencesFirst` proves that this is the only way, and
`Refinement`, rotations included, that the scope still has a single home.

`MCPlacementTeardown` (beside the runs). The teardown asks for the home, awaits the answer and
acts on it without another look at the ledger (`shadow-teardown-handlers.ts:128`). When the
other home released the scope and it was born here meanwhile, the seat it terminates is that
of the home. The delivery that follows starts it again. `UnretiredHomeIsSpared` proves
that this takes a retirement: where nobody gives the scope up, the awaited answer still holds.

Not listed as a finding: with "aging" (and "unclaimed", as said above), `CleanStaysClean` fails as well, because a turn
without recorded activity for the recency window is not in flight by definition of
the query. The code states this window, so it is a limit of the verdict.

## Proofs

`BrokerProjectionProofs` proves for any ledger length, any set of deltas, any evidence
map, any fenced run and any fault budget that `IInv` is inductive, and from it
`TypeOK`, `CursorCoversOnlySettled`, `AckedIsSettled`, `ProjectedAtMostOnce`,
`DurableProgress` and `PublishedIsCaughtUp`. The assumptions are `MapperAssumption` and
`ProjectionAssumption`, which only type the constants.

None of the properties is inductive alone. `IInv` adds: the pending delta range covers
only deltas above the cursor or settled envelopes (otherwise a flush could cover a hole); a
disposition, its mirrored row and the ghost counter agree (otherwise a second application
could count twice); the broker's acknowledgement is at most the cursor (which turns the
acknowledgement property into the cursor property); and what a replay has taken off its
list is settled (which gives publication). The argument has one lemma for each mapper
operation, one that every step of `Next` is a mapper step or leaves the mapper alone, and
one for each of the remaining conjuncts. Runs that are inferred do not touch any of this: each
lemma holds for whatever run a call resolves.

`LedgerRefinement` in the same module proves, from the same assumptions, that
`BrokerProjection` implements `EffectLedger`. A mapper step settles at most one semantic
envelope, which was open and lay above the cursor, and what is settled stays as it is; a
crossing of the migration bridge settles without an effect. The steps of controller and broker
leave all of this alone, or raise the acknowledgement, and no further than the cursor.

`BrokerOrderProofs` is about a stream that neither loses nor reorders (`OrderedStream`), over a
ledger in which evidence comes before what it explains (`EvidencePrecedes`). The daemon may
still crash, requests fail, clients close, history be pruned and transactions be repeated.
`OrderedStreamNeedsNoRepair` proves that no consumer sees a gap, that no raw delta is refused, and
that a semantic envelope, live, in a retry or in a replay that overlaps the stream, conflicts at
most if its run is inferred from rows that other code rewrites; what those rows say is
unrestricted. `OrderInv` says that rows are resolved in order and without holes, that no repair
runs, that what a replay has on its list was never stored, and that no consumer is beside a
replay; whatever stream or replay offers is then at most the next envelope that is due.
`OrderedReplayIsFaithful` draws from it the two properties of the first two findings, the second
for inferred runs too, as long as none of them is that of a row mapped before dispositions
existed (`Inferred \cap 1..Migrated = {}`): such a row may lie beyond the cursor the replay starts
from.

`TurnAdmissionProofs` proves for any turns, sessions, number of restarts and faults:
`FenceHolds` and `DrainSeesSettledAdmissions` if no drain is requested in the warmup
(`NoWarmupDrain`), and `CleanStaysClean` if moreover no turn joins a boot, no row ages out, no turn
asks and no ownership claim is refused (`NoBootJoin`, `NoAging`, `StartedIsBusy`). These are the
exact negations of what `admission_queue`, `MCTurnAdmissionWarmup`, `MCTurnAdmissionAsk` and
the aging window use. `AdmissionAssumption` types the constants.
`GateInv` adds `RestartOwnsGate`, that a restart under way implies a finished boot: without it
the boot's reopen could fall between two steps of the restart. `CleanInv` adds that nothing is
queued (else the end of a turn starts another) and that no row is quiet (else the recheck
overlooks an active one). `ClosuresAreOwned` is the safety half of `EveryClosureEnds`: with
joins, aging, crashes and failed writes, but no failing executor or query (`NothingThrows`; that
is what leaves the gate closed until the next restart), a closure in memory or on disk always
has a restart or a boot that will open it. `OwnerInv` adds how memory and marker agree while a
process boots, opens and closes.

`ServerLockProofs` proves `OneServer` and `LockNamesHolder` for any number of processes with
overlapping starts, stops and failed startups as long as none is killed, by a signal or a reboot
(`NoKill`). The
invariant `LockInv` says that whoever stands between `open` and the release owns the file, empty or
written, and that nobody is ever in the stale cleanup: the only way
there is through a dead owner's lock, which an orderly stop does not leave.

With kills and reboots, but one startup at a time (`~Overlap`), `SerialLockIsNamed` and
`SerialLockIsExclusive` prove the same two properties. `SerialInv` says that there is one
starter, and that a lock it condemns belongs to a process that is gone for good and
stays where it is until the starter removes it, the claim being its own meanwhile.

`EventForwardingProofs` proves, from the typing assumption `ForwardingAssumption` alone, for
any tables, batch size and faults: `TypeOK`, `CursorNeverSkips`, `OnlyPoisonIsParked`,
`AnnouncedOnce`, and `InOrder`: every step of the forwarder is a step of `Outbox` or a
stutter. The inductive invariant relates the cursor to what is under way: the
page of a feed follows the cursor without a gap, the request is its head, an answer tells
what was taken of the request, every request (late ones included) may be applied without
breaking the order of the ledger, a staged blob is incomplete, a fault silences at most one row,
and while nothing was pruned the blob cursor stands at a blob. The lemma `StepKinds` reduces the steps to a few kinds, and
each conjunct is shown preserved by kind. Three theorems
follow the cursors over time: they never move back unless the file is lost
(`CursorsNeverMoveBack`); until a pruning, every spilled result that can be sent is complete at
the receiver or still ahead (`SpilledResultsAreKept`, the safety half of `BlobFollowsRow`); and
without any pruning no blob is passed (`NothingPassedWithoutPruning`). `BlobInv` adds that the
file is never ahead of a sweep's copy, that a spilled row has its blob, and that only a blob with
a part too big for a frame is parked.

`ParticipantsProofs` proves, from `ParticipantsAssumption` alone, for any number of epochs,
tries and faults: `TypeOK`, `SoleWriter`, `CompletedMeansActive`, `AttemptIsNeverReborn` and
`TerminatedStaysTerminated`. `IInv` says that past epochs are settled and what is settled is
dead, so that an activated attempt is alone; that what intents and drives were admitted with
still holds while they are not stale; that a client or an establishment past its realization
serves an attached attempt; and that ended work left an attempt that is served, held by a
replacement or absorbing. The steps are reduced to those that only write books and those that
advance one phase; replay, registration, attach, the end of an operation, admission, commit and
the crash in a disposal have lemmas of their own. `AddressHasOneHost` proves that the unique
index of the schema over live bindings never refuses a write: a binding is live exactly if it is
that of the latest attempt's runtime. `RetiredBindingsStayRetired` proves that bindings move
only along `bindingTransitions`, so an attach or a commit that was under way when a replacement
retired a binding does not revive it. `HostedInv` adds that epochs which have not begun have no
binding.

`PlacementProofs` proves, from `PlacementAssumption` alone, for any nodes, calls, kinds of
requests and faults: `TypeOK`, `ActiveIsHome`, `FencedBeforeReleased` and
`ImplementsSingleHome`. None of them is inductive: what a late request or an answer in flight
will do must be known before it arrives. `IInv` adds that an answer which names its own node as
home still holds, or its node has retired and will not install it; that whoever asks for the
deletion of a binding, a late request included, runs on a node that retired and is fenced; and
that a summon past the local ledger runs beside no retirement of its node, which is where the
scope lock is needed. Type correctness includes that the queue of a lock and the calls that wait
for it agree. The refinement follows step by step: an establishment binds, an installation
grants, the entry of a retirement retires, a deletion releases, and the rest stutters. It is
proved from the part of `IInv` that a rotation has no part in (`HomeInv`). For
`FencedBeforeReleased` the invariant says besides that whoever asks for the deletion is
fenced or outrun by a rotation. `LockExcludes`
proves that a retirement acts alone on its node, and `QueueIsFair`, the safety half of
`NobodyWaitsForever`, that who leaves the queue of a lock was first in it or its process ended.
`UnretiredHomeIsSpared` assumes that no call retires (`NoRetirement`); `SettledInv` says that
nobody ever retired, so that the binding a teardown was told of still holds when it acts.

Every safety property, action property and refinement of the passing runs is proved. Only
model-checked are the liveness properties, because their fairness stands for ENABLED, which is
out of the prover's reach: `GapRepaired`, `ExitEndsRuntime`, `EveryClosureEnds`,
`StaleLockIsCleared`, `EveryRowSettles`, `BlobFollowsRow`, `OperationEnds`,
`DeadHostIsSettled`, `NobodyWaitsForever`, `DesignatedIsBorn` and `ShadowsEnd`. Of three of them the
safety half is proved, as said above. The violations stay with TLC as well: a counterexample
is a behaviour of an instance.

## Plan

Not modelled yet, in the order of importance; each extends or composes what is there.

1. `RetainedRecovery` over `BrokerMapper`: reading the ledger of a dead broker offline,
   exclusive against attach (`runtime-exclusive-owner.ts`), and its completion test on a
   ledger that contains raw deltas (`offline-evidence-attempt.ts`).
2. `HeadlessQueue`: the claim of a queued row raced by the route that joined the boot
   (`broker-headless-queue.ts`), composed with `TurnAdmission`.
3. Submission and turn ownership: an RPC whose outcome is unknown, settle and withdraw.
4. Mail delivery: at-most-once handoff across a successor.
5. Self restart together with `ServerLock`; session rotation; the peer protocol of federation,
   remote claims and the rebuild of the registry.
6. Sweeps, the ask bracket as pure operators against a reference, bounded event streams.

Theorems to add: for retained recovery the mapper's operator lemmas (those of
`BrokerProjectionProofs`, for a cursor that starts anywhere), and the safety half of
`StaleLockIsCleared`: a claim that a starter meets belongs to a process that is gone.
