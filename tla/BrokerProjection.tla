---------------------------- MODULE BrokerProjection ----------------------------
(***************************************************************************)
(* How the controller of hrc-server carries the events of one durable      *)
(* broker invocation into the store: the live consumer (consumeEvents),    *)
(* the debounced gap repair (backfillBrokerEventGap) and the reattach with *)
(* replay (attachAndReplay), against a broker ledger that discards what it *)
(* was told is committed, a live stream that loses and reorders, and a     *)
(* daemon that stops anywhere.                                             *)
(*                                                                         *)
(* All three run on one event loop: they interleave only where the code    *)
(* awaits, and those are the steps below.                                  *)
(***************************************************************************)
EXTENDS BrokerMapper

CONSTANTS
  ExitedSeqs,    \* invocation.exited / non-retryable invocation.failed
  DisposedSeqs,  \* invocation.disposed
  FaultKinds,    \* which of AllFaults the environment may show
  MaxFaults      \* bound on the faults of one behaviour

AllFaults == {"crash", "close", "rpc", "busy", "loss", "prune", "reorder"}

ASSUME ProjectionAssumption ==
  /\ ExitedSeqs \subseteq Seqs \ DeltaSeqs
  /\ DisposedSeqs \subseteq Seqs \ DeltaSeqs
  /\ FaultKinds \subseteq AllFaults
  /\ MaxFaults \in Nat

VARIABLES
  status,     \* runtimes.status, by what the attach and terminal paths tell apart
  head,       \* broker: last sequence of its ledger
  acked,      \* broker: committed high-water it was told
  floor,      \* broker: highest discarded sequence (retentionFloorSeq)
  client,     \* controller.active holds a client for the runtime
  chan,       \* envelopes pushed on the live stream and not consumed yet
  cons,       \* where the live consumer stands
  consSeq,    \* the envelope it committed and has not finished with
  gap,        \* pendingBrokerEventGapBackfills[invocation].missingSeqs
  bf,         \* where the gap backfill stands
  bfMiss,     \* the sequences it still looks for
  bfSeq,      \* the envelope it committed and has not finished with
  at,         \* where the attach single-flight stands
  atBase,     \* lastProjectedSeq it read at the start
  atExited,   \* its snapshot already reported the invocation exited
  atTodo,     \* replayed envelopes not applied yet
  atUpto,     \* ghost: end of the replay it fetched
  faults      \* bound: faults so far

brokerVars == <<head, acked, floor>>
consVars   == <<chan, cons, consSeq>>
gapVars    == <<gap, bf, bfMiss, bfSeq>>
attachVars == <<at, atBase, atExited, atTodo, atUpto>>
vars == <<mapperVars, status, brokerVars, client, consVars, gapVars, attachVars, faults>>

\* "live" stands for starting, ready, busy, awaiting_input and stopping; "stopped" is
\* what a reattach writes for an exited invocation; "ended" is terminated or crashed.
Statuses == {"live", "stopped", "stale", "ended"}

TypeOK ==
  /\ MapperTypeOK
  /\ status \in Statuses
  /\ head \in 0..MaxSeq /\ acked \in 0..MaxSeq /\ floor \in 0..MaxSeq
  /\ client \in {"none", "attached"}
  /\ chan \subseteq Seqs
  /\ cons \in {"off", "idle", "ack", "after", "endack", "probe"}
  /\ consSeq \in 0..MaxSeq
  /\ gap \subseteq Seqs
  /\ bf \in {"off", "fetch", "apply", "ack", "endack"}
  /\ bfMiss \subseteq Seqs
  /\ bfSeq \in 0..MaxSeq
  /\ at \in {"off", "snapshot", "fetch", "apply", "ack", "prove"}
  /\ atBase \in 0..MaxSeq
  /\ atExited \in BOOLEAN
  /\ atTodo \subseteq Seqs
  /\ atUpto \in 0..MaxSeq
  /\ faults \in Nat

Init ==
  /\ MapperInit
  /\ status = "live"
  /\ head = Migrated /\ acked = 0 /\ floor = 0
  /\ client = IF Migrated = 0 THEN "attached" ELSE "none"
  /\ chan = {}
  /\ cons = IF Migrated = 0 THEN "idle" ELSE "off"
  /\ consSeq = 0
  /\ gap = {} /\ bf = "off" /\ bfMiss = {} /\ bfSeq = 0
  /\ at = "off" /\ atBase = 0 /\ atExited = FALSE /\ atTodo = {} /\ atUpto = 0
  /\ faults = 0

Fault(kind) == kind \in FaultKinds /\ faults < MaxFaults /\ faults' = faults + 1

First(S, s) == s \in S /\ \A t \in S : s <= t

----------------------------------------------------------------------------
(* The broker: an external process with an append-only ledger.             *)

Exited == \E s \in ExitedSeqs : s <= head

\* Appends one envelope and pushes it to whoever is subscribed (or is attaching:
\* the candidate client buffers from its attach on).
BrokerAppend ==
  /\ head < MaxSeq
  /\ head' = head + 1
  /\ chan' = IF cons \notin {"off", "probe"} \/ at # "off" THEN chan \cup {head + 1} ELSE chan
  /\ UNCHANGED <<mapperVars, status, acked, floor, client, cons, consSeq, gapVars,
                 attachVars, faults>>

\* Discards acknowledged history, or, as a fault, more than that.
BrokerPrune ==
  /\ floor < head
  /\ floor' = floor + 1
  /\ IF floor < acked THEN UNCHANGED faults ELSE Fault("prune")
  /\ UNCHANGED <<mapperVars, status, head, acked, client, consVars, gapVars, attachVars>>

LoseLive ==
  /\ Fault("loss")
  /\ \E s \in chan : chan' = chan \ {s}
  /\ UNCHANGED <<mapperVars, status, brokerVars, client, cons, consSeq, gapVars, attachVars>>

----------------------------------------------------------------------------
(* What the three paths share.                                             *)

\* Mutant of AckCommittedProjection: acknowledges the envelope just consumed.
AckConsumedEnvelope ==
  acked' = IF client = "attached" /\ consSeq > acked THEN consSeq ELSE acked

\* Mutant of AckCommittedProjection: acknowledges the next sequence expected.
AckNextExpected ==
  acked' = IF client = "attached" /\ cursor >= acked THEN cursor + 1 ELSE acked

\* mapper.apply throws: a raw delta past a hole, or a row that says something else.
MapperThrows(s) == IF IsDelta(s) THEN DeltaRefused(s) ELSE MayConflict(s)

\* ackCommittedProjection: acknowledges the durable cursor, never an envelope's own
\* sequence, and only through the active client.
AckCommittedProjection ==
  acked' = IF client = "attached" /\ cursor > acked THEN cursor ELSE acked

\* backfillBrokerEventGap up to its first await.  Bound: one backfill in flight.
StartBackfill(dispositions) ==
  LET missing == {s \in gap : dispositions[s] = "none"}
      run == missing # {} /\ client = "attached"
  IN  /\ gap' = {}
      /\ bf' = IF run THEN "fetch" ELSE "off"
      /\ bfMiss' = IF run THEN missing ELSE {}
      /\ UNCHANGED bfSeq

\* flushBrokerEventGapBackfill on a terminal envelope.
FlushGapBackfill(s, dispositions) ==
  IF s \in ExitedSeqs \cup DisposedSeqs /\ bf = "off"
  THEN StartBackfill(dispositions)
  ELSE UNCHANGED gapVars

\* markBrokerInvocationTerminal: the client is dropped and closed unless a disposal
\* that is under way still needs it.
MarkInvocationTerminal(s) ==
  IF s \in ExitedSeqs /\ status # "ended"
  THEN status' = "ended" /\ client' \in {client, "none"}
  ELSE UNCHANGED <<status, client>>

\* markBrokerCrashTerminal.
CrashTerminal == status' = "ended" /\ client' = "none"

----------------------------------------------------------------------------
(* The live consumer.                                                      *)

\* The stream yields in sequence order unless it may reorder.
Arrives(s) == s \in chan /\ ("reorder" \in FaultKinds \/ First(chan, s))

\* A consumer that throws reads no more, and asks whether its tmux pane still lives.
ConsumerThrows ==
  /\ cons' = "probe" /\ consSeq' = 0 /\ chan' = {}
  /\ UNCHANGED <<status, client>>

\* After that await it is forgiven (the pane lives, or the close was intended), or it
\* condemns the runtime as it finds it by then.
ConsumerProbed ==
  /\ cons = "probe"
  /\ cons' = "off"
  /\ CrashTerminal \/ UNCHANGED <<status, client>>
  /\ UNCHANGED <<mapperVars, brokerVars, chan, consSeq, gapVars, attachVars, faults>>

ConsumeDelta(s) ==
  /\ cons = "idle" /\ Arrives(s) /\ IsDelta(s)
  /\ IF DeltaRefused(s)
     THEN ConsumerThrows /\ UNCHANGED mapperVars
     ELSE /\ IgnoreRawDelta(s)
          /\ chan' = chan \ {s}
          /\ UNCHANGED <<cons, consSeq, status, client>>
  /\ UNCHANGED <<brokerVars, gapVars, attachVars, faults>>

\* broker.event_gap_detected: what is missing below s once the deltas are flushed.
MissingBelow(s) == {k \in Seqs : Flushed < k /\ k < s /\ disp[k] = "none"}

\* projectBrokerEventWithBusyRetry up to the acknowledgement.
ConsumeSemantic(s) ==
  /\ cons = "idle" /\ Arrives(s) /\ ~IsDelta(s)
  /\ gap' = gap \cup MissingBelow(s)
  /\ \/ MayConflict(s) /\ FlushIgnoredDeltas /\ ConsumerThrows
     \/ /\ ApplySemantic(s)
        /\ chan' = chan \ {s}
        /\ cons' = "ack" /\ consSeq' = s
        /\ UNCHANGED <<status, client>>
  /\ UNCHANGED <<brokerVars, bf, bfMiss, bfSeq, attachVars, faults>>

ConsumerAck ==
  /\ cons = "ack"
  /\ AckCommittedProjection
  /\ cons' = "after"
  /\ UNCHANGED <<mapperVars, status, head, floor, client, chan, consSeq, gapVars,
                 attachVars, faults>>

\* afterMappedEvent.
ConsumerAfter ==
  /\ cons = "after"
  /\ FlushGapBackfill(consSeq, disp)
  /\ MarkInvocationTerminal(consSeq)
  /\ cons' = "idle" /\ consSeq' = 0
  /\ UNCHANGED <<mapperVars, brokerVars, chan, attachVars, faults>>

\* SQLITE_BUSY in afterMappedEvent: the loop projects the same envelope again.
ConsumerBusyRetry ==
  /\ cons = "after" /\ Fault("busy")
  /\ gap' = gap \cup MissingBelow(consSeq)
  /\ \/ MayConflict(consSeq) /\ FlushIgnoredDeltas /\ ConsumerThrows
     \/ /\ ApplySemantic(consSeq)
        /\ cons' = "ack"
        /\ UNCHANGED <<chan, consSeq, status, client>>
  /\ UNCHANGED <<brokerVars, bf, bfMiss, bfSeq, attachVars>>

\* The acknowledgement is refused, or the busy window is exhausted.
ConsumerFails ==
  /\ cons \in {"ack", "after", "endack"} /\ Fault("rpc")
  /\ ConsumerThrows
  /\ UNCHANGED <<mapperVars, brokerVars, gapVars, attachVars>>

\* The stream of a closed client ends: one last flush and acknowledgement.
StreamEnds ==
  /\ cons = "idle" /\ client = "none"
  /\ FlushIgnoredDeltas
  /\ cons' = "endack" /\ chan' = {}
  /\ UNCHANGED <<status, brokerVars, client, consSeq, gapVars, attachVars, faults>>

ConsumerEndAck ==
  /\ cons = "endack"
  /\ AckCommittedProjection
  /\ cons' = "off"
  /\ UNCHANGED <<mapperVars, status, head, floor, client, chan, consSeq, gapVars,
                 attachVars, faults>>

----------------------------------------------------------------------------
(* Gap backfill.                                                           *)

GapTimerFires ==
  /\ gap # {} /\ bf = "off"
  /\ StartBackfill(disp)
  /\ UNCHANGED <<mapperVars, status, brokerVars, client, consVars, attachVars, faults>>

BackfillStops == bf' = "off" /\ bfMiss' = {} /\ bfSeq' = 0

\* Mutant of BackfillFetch: asks for what follows the last hole, not the first.
BackfillFetchAfterLast ==
  /\ bf = "fetch"
  /\ IF \E s \in bfMiss : s <= floor
     THEN BackfillStops
     ELSE /\ bf' = "apply" /\ UNCHANGED bfSeq
          /\ bfMiss' = {s \in bfMiss : s <= head /\ \A t \in bfMiss : t <= s}
  /\ UNCHANGED <<mapperVars, status, brokerVars, client, consVars, gap, attachVars, faults>>

\* eventsSince answers, or reports that the ledger no longer reaches back.
BackfillFetch ==
  /\ bf = "fetch"
  /\ IF \E s \in bfMiss : s <= floor
     THEN BackfillStops
     ELSE bf' = "apply" /\ bfMiss' = {s \in bfMiss : s <= head} /\ UNCHANGED bfSeq
  /\ UNCHANGED <<mapperVars, status, brokerVars, client, consVars, gap, attachVars, faults>>

BackfillApply ==
  /\ bf = "apply"
  /\ \E s \in bfMiss :
       /\ First(bfMiss, s)
       /\ \/ disp[s] # "none" /\ bfMiss' = bfMiss \ {s}
             /\ UNCHANGED <<mapperVars, bf, bfSeq>>
          \/ disp[s] = "none" /\ IsDelta(s) /\ IgnoreRawDelta(s)
             /\ bfMiss' = bfMiss \ {s} /\ UNCHANGED <<bf, bfSeq>>
          \/ disp[s] = "none" /\ ~IsDelta(s) /\ ApplySemantic(s)
             /\ bfMiss' = bfMiss \ {s} /\ bf' = "ack" /\ bfSeq' = s
          \/ disp[s] = "none" /\ MapperThrows(s)
             /\ BackfillStops /\ UNCHANGED mapperVars
  /\ UNCHANGED <<status, brokerVars, client, consVars, gap, attachVars, faults>>

BackfillAck ==
  /\ bf = "ack"
  /\ AckCommittedProjection
  /\ MarkInvocationTerminal(bfSeq)
  /\ bf' = "apply" /\ bfSeq' = 0
  /\ UNCHANGED <<mapperVars, head, floor, consVars, gap, bfMiss, attachVars, faults>>

BackfillFlush ==
  /\ bf = "apply" /\ bfMiss = {}
  /\ FlushIgnoredDeltas
  /\ bf' = "endack"
  /\ UNCHANGED <<status, brokerVars, client, consVars, gap, bfMiss, bfSeq, attachVars, faults>>

BackfillEndAck ==
  /\ bf = "endack"
  /\ AckCommittedProjection
  /\ BackfillStops
  /\ UNCHANGED <<mapperVars, status, head, floor, client, consVars, gap, attachVars, faults>>

\* A request on a closed client is rejected; on a live one that is a fault.  The
\* gap is forgotten either way.
BackfillFails ==
  /\ bf \in {"fetch", "ack", "endack"}
  /\ IF client = "none" THEN UNCHANGED faults ELSE Fault("rpc")
  /\ BackfillStops
  /\ UNCHANGED <<mapperVars, status, brokerVars, client, consVars, gap, attachVars>>

----------------------------------------------------------------------------
(* Reattach and replay: single-flight per runtime (attachDurableBrokerShared). *)

AttachStops == at' = "off" /\ atBase' = 0 /\ atExited' = FALSE /\ atTodo' = {} /\ atUpto' = 0

\* failReplayStale.
ReplayStale == status' = "stale" /\ AttachStops

\* Startup warmup, or a dispatch that found no active client.  Bound: the consumer
\* of an earlier client has ended.
AttachBegin ==
  /\ at = "off" /\ client = "none" /\ cons = "off"
  /\ status \in {"live", "stopped"}
  /\ at' = "snapshot" /\ atBase' = cursor
  /\ UNCHANGED <<mapperVars, status, brokerVars, client, consVars, gapVars, atExited, atTodo,
                 atUpto, faults>>

AttachSnapshot ==
  /\ at = "snapshot"
  /\ IF floor > atBase + 1
     THEN ReplayStale
     ELSE at' = "fetch" /\ atExited' = Exited /\ UNCHANGED <<status, atBase, atTodo, atUpto>>
  /\ UNCHANGED <<mapperVars, brokerVars, client, consVars, gapVars, faults>>

\* Mutant of AttachFetch: replays after the highest envelope seen, as last_event_seq
\* would, not after the contiguous cursor.
AttachFetchAfterSeen ==
  /\ at = "fetch"
  /\ at' = "apply" /\ atUpto' = head
  /\ atTodo' = {s \in (atBase + 1)..head : \A k \in s..head : disp[k] = "none"}
  /\ UNCHANGED <<mapperVars, status, brokerVars, client, consVars, gapVars, atBase, atExited,
                 faults>>

\* Mutant of AttachFetch: replays whatever the ledger still holds.
AttachFetchFromFloor ==
  /\ at = "fetch"
  /\ at' = "apply" /\ atUpto' = head
  /\ atTodo' = {s \in (atBase + 1)..head : s > floor}
  /\ UNCHANGED <<mapperVars, status, brokerVars, client, consVars, gapVars, atBase, atExited,
                 faults>>

AttachFetch ==
  /\ at = "fetch"
  /\ IF floor > atBase
     THEN ReplayStale
     ELSE /\ at' = "apply" /\ atTodo' = (atBase + 1)..head /\ atUpto' = head
          /\ UNCHANGED <<status, atBase, atExited>>
  /\ UNCHANGED <<mapperVars, brokerVars, client, consVars, gapVars, faults>>

AttachApply ==
  /\ at = "apply"
  /\ \E s \in atTodo :
       /\ First(atTodo, s)
       /\ \/ IsDelta(s) /\ IgnoreRawDelta(s)
             /\ atTodo' = atTodo \ {s}
             /\ UNCHANGED <<status, client, gapVars, at, atBase, atExited, atUpto>>
          \/ ~IsDelta(s) /\ ApplySemantic(s)
             /\ FlushGapBackfill(s, disp') /\ MarkInvocationTerminal(s)
             /\ atTodo' = atTodo \ {s}
             /\ UNCHANGED <<at, atBase, atExited, atUpto>>
          \/ MapperThrows(s)
             /\ ReplayStale /\ UNCHANGED <<mapperVars, client, gapVars>>
  /\ UNCHANGED <<brokerVars, consVars, faults>>

AttachFlush ==
  /\ at = "apply" /\ atTodo = {}
  /\ FlushIgnoredDeltas
  /\ at' = "ack"
  /\ UNCHANGED <<status, brokerVars, client, consVars, gapVars, atBase, atExited, atTodo,
                 atUpto, faults>>

\* Acknowledges the re-read cursor through the candidate client.
AttachAck ==
  /\ at = "ack"
  /\ acked' = IF cursor > acked THEN cursor ELSE acked
  /\ at' = "prove"
  /\ UNCHANGED <<mapperVars, status, head, floor, client, consVars, gapVars, atBase, atExited,
                 atTodo, atUpto, faults>>

\* Mutant of AttachPublish: writes the cursor read at the start back with the row.
AttachPublishOldCursor ==
  /\ at = "prove"
  /\ client' = "attached"
  /\ status' = IF atExited THEN "stopped" ELSE "live"
  /\ cons' = "idle"
  /\ cursor' = atBase
  /\ AttachStops
  /\ UNCHANGED <<disp, mirror, fenced, pend, projected, brokerVars, chan, consSeq, gapVars,
                 faults>>

\* Mutant of AttachPublish: a reattached runtime is always live.
AttachPublishLive ==
  /\ at = "prove"
  /\ client' = "attached" /\ status' = "live" /\ cons' = "idle"
  /\ AttachStops
  /\ UNCHANGED <<mapperVars, brokerVars, chan, consSeq, gapVars, faults>>

\* The control proof held: publish the client, write the status of the snapshot that
\* was taken before the replay, and subscribe.
AttachPublish ==
  /\ at = "prove"
  /\ client' = "attached"
  /\ status' = IF atExited THEN "stopped" ELSE "live"
  /\ cons' = "idle"
  /\ AttachStops
  /\ UNCHANGED <<mapperVars, brokerVars, chan, consSeq, gapVars, faults>>

\* Any request of the candidate fails: stale, crashed by its close callback, or
\* released because a newer controller fenced it.
AttachFails ==
  /\ at \in {"snapshot", "fetch", "ack", "prove"} /\ Fault("rpc")
  /\ status' \in {"stale", "ended", status}
  /\ AttachStops /\ chan' = {}
  /\ UNCHANGED <<mapperVars, brokerVars, client, cons, consSeq, gapVars>>

----------------------------------------------------------------------------
(* The rest of the world.                                                  *)

\* handleBrokerClose: an unexpected close condemns, an intended or fencing one releases.
BrokerClose ==
  /\ client = "attached" /\ Fault("close")
  /\ CrashTerminal \/ (client' = "none" /\ UNCHANGED status)
  /\ UNCHANGED <<mapperVars, brokerVars, consVars, gapVars, attachVars>>

\* The daemon stops, at any await, and boots again; the durable rows survive.
Crash ==
  /\ Fault("crash")
  /\ pend' = 0
  /\ client' = "none"
  /\ chan' = {} /\ cons' = "off" /\ consSeq' = 0
  /\ gap' = {} /\ BackfillStops
  /\ AttachStops
  /\ UNCHANGED <<cursor, disp, mirror, fenced, projected, status, brokerVars>>

Fence ==
  /\ FenceBrokerInput
  /\ UNCHANGED <<status, brokerVars, client, consVars, gapVars, attachVars, faults>>

Consume == \E s \in Seqs : ConsumeDelta(s) \/ ConsumeSemantic(s)

ConsumerStep == Consume \/ ConsumerAck \/ ConsumerAfter \/ StreamEnds \/ ConsumerEndAck
                \/ ConsumerProbed
BackfillStep == BackfillFetch \/ BackfillApply \/ BackfillAck \/ BackfillFlush \/ BackfillEndAck
AttachStep == AttachSnapshot \/ AttachFetch \/ AttachApply \/ AttachFlush \/ AttachAck
              \/ AttachPublish
FaultStep == LoseLive \/ ConsumerBusyRetry \/ ConsumerFails \/ BackfillFails \/ AttachFails
             \/ BrokerClose \/ Crash

Next ==
  \/ BrokerAppend \/ BrokerPrune
  \/ ConsumerStep \/ GapTimerFires \/ BackfillStep
  \/ AttachBegin \/ AttachStep
  \/ FaultStep \/ Fence

Spec == Init /\ [][Next]_vars

\* The event loop runs what is runnable, a timer that is due fires, and boot warms up
\* every attachable runtime.  Nothing is assumed of the broker or of the faults.
Fairness ==
  /\ WF_vars(ConsumerStep) /\ WF_vars(GapTimerFires) /\ WF_vars(BackfillStep)
  /\ WF_vars(AttachBegin) /\ WF_vars(AttachStep)

FairSpec == Spec /\ Fairness

----------------------------------------------------------------------------
(* Properties.                                                             *)

\* Everything at or below last_projected_seq is settled: it was projected, skipped by
\* the fence, or is a raw delta.  The cursor is what a replay starts from and what is
\* acknowledged, so a hole below it is an event the store never sees.
CursorCoversOnlySettled == \A s \in 1..cursor : Settled(s)

\* The broker was never told that an unsettled sequence is committed, so nothing it
\* discards by acknowledgement is lost to the store.
AckedIsSettled == \A s \in 1..acked : Settled(s)

\* Whatever the overlap of live stream, backfill, retry and replay, the state effects
\* of one envelope are committed at most once.
ProjectedAtMostOnce == \A s \in Seqs : projected[s] <= 1

\* No step takes back the cursor, an acknowledgement or a disposition, across crashes
\* too: a replay never starts before what was acknowledged.
DurableProgress ==
  [][/\ cursor' >= cursor /\ acked' >= acked
     /\ \A s \in Seqs : disp[s] # "none" => disp'[s] = disp[s]]_vars

\* Streams, replays, retries and crashes included, the store deals with the broker's
\* ledger like EffectLedger: every step is one transaction about one envelope, a move of
\* the cursor over settled ones, or an acknowledgement of what an earlier step covered.
Ledger == INSTANCE EffectLedger WITH
  Last <- MaxSeq, Silent <- DeltaSeqs, effects <- projected, sealed <- cursor, told <- acked,
  waived <- {s \in Seqs : disp[s] = "skipped_fenced"}
ImplementsLedger == Ledger!Spec

\* A client is published only when everything its replay could see is settled.
PublishedIsCaughtUp ==
  [][client = "none" /\ client' = "attached" => \A s \in 1..atUpto : Settled(s)]_vars

\* A detected hole is repaired, unless the runtime lost its client or the ledger no
\* longer reaches back to the cursor.
GapRepaired ==
  \A s \in Seqs : s \in gap ~> (Settled(s) \/ client = "none" \/ floor > cursor)

\* A projected exit ends the runtime, even when the daemon stopped between its commit
\* and afterMappedEvent, or a reattach published the status of an older snapshot.
ExitEndsRuntime ==
  \A s \in ExitedSeqs : disp[s] # "none" ~> status # "live"

\* ignoreRawDelta calls a "raw delta gap" only where a sequence really is missing.
RefusedDeltaIsARealGap ==
  \A s \in DeltaSeqs :
    /\ (cons = "idle" /\ Arrives(s)) \/ (at = "apply" /\ First(atTodo, s))
    /\ DeltaRefused(s)
    => \E k \in (DeltaCursor + 1)..(s - 1) : disp[k] = "none"

\* A replay never disagrees with the row the same envelope left before: attribution is
\* "seq-based rather than arrival-order-based".
ReplayNeverConflicts ==
  at = "apply" => \A s \in atTodo \ DeltaSeqs : First(atTodo, s) => ~MayConflict(s)

\* Projecting the same envelope again after SQLITE_BUSY is harmless: the append is the
\* "Idempotent append keyed by (invocationId, seq)".
RetryNeverConflicts == cons = "after" => ~MayConflict(consSeq)

\* What a consumer, its busy retry or a replay hands to the mapper next.
Offered(s) ==
  \/ cons = "idle" /\ Arrives(s)
  \/ cons = "after" /\ s = consSeq
  \/ at = "apply" /\ First(atTodo, s)

\* A live stream that arrives whole and in order never shows a gap, no raw delta of it is
\* refused, and the only envelopes that can conflict with the row they left before are
\* those whose run is inferred from rows rewritten meanwhile.
OrderedStreamIsClean ==
  /\ gap = {}
  /\ \A s \in Seqs : Offered(s) /\ MapperThrows(s) => s \in Inferred \ DeltaSeqs
=============================================================================
