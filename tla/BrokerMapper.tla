------------------------------ MODULE BrokerMapper ------------------------------
(***************************************************************************)
(* BrokerEventMapper and the store rows it writes, for one broker          *)
(* invocation: the mirror of normalized envelopes (broker_invocation_      *)
(* events), the per-sequence dispositions (broker_projection_dispositions),*)
(* the durable contiguous cursor (broker_invocations.last_projected_seq)   *)
(* and the in-memory range of raw deltas that still waits for a flush.     *)
(*                                                                         *)
(* Every call of the mapper is one synchronous SQLite transaction, so each *)
(* operator below is a whole atomic step.  The controller's consumers      *)
(* (module BrokerProjection) build their actions from them.                *)
(***************************************************************************)
EXTENDS Integers

CONSTANTS
  MaxSeq,      \* the broker ledger of the invocation holds sequences 1..MaxSeq
  DeltaSeqs,   \* sequences that carry a raw "*.delta" fragment
  TurnStart,   \* TurnStart[s]: sequence of the evidence that names s's run, 0 if
               \* the envelope itself carries it
  Inferred,    \* sequences whose run is looked up in rows that other code rewrites
               \* meanwhile: the runtime's active run, the dispatched input of a run,
               \* an open ask, a completion, a fence
  FencedRun,   \* sequences of the run whose broker input may get fenced
  Migrated     \* sequences 1..Migrated were mapped before dispositions existed

Seqs == 1..MaxSeq

ASSUME MapperAssumption ==
  /\ MaxSeq \in Nat \ {0}
  /\ DeltaSeqs \subseteq Seqs
  /\ TurnStart \in [Seqs -> 0..MaxSeq]
  /\ Inferred \subseteq Seqs
  /\ FencedRun \subseteq Seqs
  /\ Migrated \in 0..MaxSeq

VARIABLES
  cursor,      \* last_projected_seq (durable)
  disp,        \* disposition row of each sequence (durable)
  mirror,      \* mirrored envelope row: the attribution it was written with (durable)
  fenced,      \* runs.broker_input_fenced_at of FencedRun is set (durable)
  pend,        \* ignoredDeltaCursors[invocation].throughSeq, 0 when absent (memory)
  projected    \* ghost: how often the state effects of each sequence were committed

mapperVars == <<cursor, disp, mirror, fenced, pend, projected>>

Dispositions == {"none", "applied", "skipped_fenced"}
Attributions == {"absent", "owned", "unowned"}

MapperTypeOK ==
  /\ cursor \in 0..MaxSeq
  /\ disp \in [Seqs -> Dispositions]
  /\ mirror \in [Seqs -> Attributions]
  /\ fenced \in BOOLEAN
  /\ pend \in 0..MaxSeq
  /\ projected \in [Seqs -> Nat]

IsDelta(s) == s \in DeltaSeqs

(***************************************************************************)
(* A fresh invocation, or one that crossed the disposition migration: its  *)
(* old rows are mirrored as applied, they have no disposition, and the     *)
(* cursor was seeded from last_event_seq, which lags by one when the       *)
(* daemon died between the mapper's commit and afterMappedEvent.           *)
(***************************************************************************)
MapperInit ==
  /\ cursor \in {c \in {Migrated - 1, Migrated} : c >= 0}
  /\ disp = [s \in Seqs |-> "none"]
  /\ mirror = [s \in Seqs |-> IF s <= Migrated /\ ~IsDelta(s) THEN "owned" ELSE "absent"]
  /\ fenced = FALSE
  /\ pend = 0
  /\ projected = [s \in Seqs |-> IF s <= Migrated /\ ~IsDelta(s) THEN 1 ELSE 0]

----------------------------------------------------------------------------
(* Raw deltas: only an in-memory contiguous range is extended.             *)

DeltaCursor == IF pend # 0 THEN pend ELSE cursor

\* "raw delta gap": ignoreRawDelta throws instead of skipping over a sequence.
DeltaRefused(s) == s > DeltaCursor + 1

IgnoreRawDelta(s) ==
  /\ ~DeltaRefused(s)
  /\ pend' = IF s = DeltaCursor + 1 THEN s ELSE pend
  /\ UNCHANGED <<cursor, disp, mirror, fenced, projected>>

\* flushIgnoredDeltasInTransaction: the cursor after folding the pending range.
Flushed == IF pend > cursor THEN pend ELSE cursor

FlushIgnoredDeltas ==
  /\ cursor' = Flushed
  /\ pend' = 0
  /\ UNCHANGED <<disp, mirror, fenced, projected>>

----------------------------------------------------------------------------
(* Semantic envelopes.                                                     *)

\* Mutant of AdvanceContiguous: the highest disposition, islands included.
AdvanceToHighest(from, d) ==
  CHOOSE n \in from..MaxSeq :
    /\ n = from \/ d[n] # "none"
    /\ \A k \in (n + 1)..MaxSeq : d[k] = "none"

\* advanceContiguousProjectionCursor: the last sequence of the unbroken run of
\* dispositions that starts right after `from`.
AdvanceContiguous(from, d) ==
  CHOOSE n \in from..MaxSeq :
    /\ n = MaxSeq \/ d[n + 1] = "none"
    /\ \A k \in (from + 1)..n : d[k] # "none"

\* resolveRunIdForEvent, seen through the one thing the store compares: "owned" is the
\* run that the initiating evidence of s names, "unowned" any other answer.  Immutable
\* evidence is found iff its row is mirrored by now; an inferred run is whatever the rows
\* say at the moment of the call, so two calls may answer differently.
Resolutions(s) ==
  IF s \in Inferred THEN {"owned", "unowned"}
  ELSE IF TurnStart[s] = 0 \/ mirror[TurnStart[s]] # "absent" THEN {"owned"}
  ELSE {"unowned"}

\* appendEvent refuses a second envelope at the same sequence whose run differs.
AppendConflicts(s, run) == mirror[s] # "absent" /\ mirror[s] # run

\* project() may throw on the row that an earlier call left.
MayConflict(s) == \E run \in Resolutions(s) : AppendConflicts(s, run)

\* The sequence was resolved by an earlier transaction.
AlreadyResolved(s) == disp[s] # "none" \/ Flushed >= s

\* A row mapped before dispositions existed: record it, re-emit nothing.
CrossesMigration(s) == mirror[s] # "absent"

\* The fence is read from the run that the envelope was resolved to.
SkippedByFence(s, run) == fenced /\ s \in FencedRun /\ run = "owned"

\* Mutant of DispositionOf: the fence also skips a row that was mapped before.
FenceOverridesMigration(s, run) ==
  IF SkippedByFence(s, run) THEN "skipped_fenced" ELSE "applied"

DispositionOf(s, run) ==
  IF ~CrossesMigration(s) /\ SkippedByFence(s, run) THEN "skipped_fenced" ELSE "applied"

\* project(): first resolution of s, in the transaction that also flushes.
Resolve(s, run) ==
  /\ disp' = [disp EXCEPT ![s] = DispositionOf(s, run)]
  /\ mirror' = [mirror EXCEPT ![s] = run]
  /\ cursor' = AdvanceContiguous(Flushed, disp')
  /\ projected' = IF CrossesMigration(s) \/ SkippedByFence(s, run) THEN projected
                  ELSE [projected EXCEPT ![s] = @ + 1]

\* An envelope that was resolved before changes nothing but its missing row.
Replay(s, run) ==
  /\ mirror' = [mirror EXCEPT ![s] = run]
  /\ cursor' = Flushed
  /\ UNCHANGED <<disp, projected>>

\* Mutant of ApplySemantic: idempotence by the cursor alone.
ApplyAboveCursor(s) ==
  /\ \E run \in Resolutions(s) :
       /\ ~AppendConflicts(s, run)
       /\ IF Flushed >= s THEN Replay(s, run)
          ELSE /\ disp' = [disp EXCEPT ![s] = "applied"]
               /\ mirror' = [mirror EXCEPT ![s] = run]
               /\ cursor' = AdvanceContiguous(Flushed, disp')
               /\ projected' = [projected EXCEPT ![s] = @ + 1]
  /\ pend' = 0
  /\ UNCHANGED fenced

\* apply() of a semantic envelope, when it does not throw, and roll back, on a conflict.
ApplySemantic(s) ==
  /\ \E run \in Resolutions(s) :
       /\ ~AppendConflicts(s, run)
       /\ IF AlreadyResolved(s) THEN Replay(s, run) ELSE Resolve(s, run)
  /\ pend' = 0
  /\ UNCHANGED fenced

\* markBrokerInputFenced on the run: its later envelopes are skipped.
FenceBrokerInput ==
  /\ ~fenced
  /\ fenced' = TRUE
  /\ UNCHANGED <<cursor, disp, mirror, pend, projected>>

----------------------------------------------------------------------------
\* Nothing of s is left for the projection to do.
Settled(s) == IsDelta(s) \/ projected[s] > 0 \/ disp[s] = "skipped_fenced"
=============================================================================
