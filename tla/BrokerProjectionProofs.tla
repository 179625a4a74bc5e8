------------------------- MODULE BrokerProjectionProofs -------------------------
(***************************************************************************)
(* Proofs about BrokerProjection for every ledger length, every placement  *)
(* of deltas, exits and fenced runs, and every budget of faults.           *)
(***************************************************************************)
EXTENDS BrokerProjection, WellFoundedInduction, TLAPS

\* A non-empty set of naturals has a least element.
LEMMA LeastNatural ==
  ASSUME NEW T, T \subseteq Nat, T # {}
  PROVE  \E x \in T : \A y \in T : x <= y
<1>1. PICK x \in T : \A y \in T : ~(<<y, x>> \in OpToRel(<, Nat))
  BY NatLessThanWellFounded, WFMin
<1>2. ASSUME NEW y \in T PROVE x <= y
  <2>1. ~(y < x)
    BY <1>1 DEF OpToRel
  <2> QED
    BY <2>1
<1> QED
  BY <1>2

\* The cursor that a semantic transaction writes lies at or after the flushed one, every
\* sequence it passes has a disposition row, and the next one has none.
LEMMA AdvanceContiguousStopsAtHole ==
  ASSUME NEW from \in 0..MaxSeq, NEW d
  PROVE  /\ AdvanceContiguous(from, d) \in from..MaxSeq
         /\ \A k \in (from + 1)..AdvanceContiguous(from, d) : d[k] # "none"
         /\ \/ AdvanceContiguous(from, d) = MaxSeq
            \/ d[AdvanceContiguous(from, d) + 1] = "none"
<1> DEFINE Good(n) == /\ n = MaxSeq \/ d[n + 1] = "none"
                      /\ \A k \in (from + 1)..n : d[k] # "none"
           Holes == {k \in (from + 1)..MaxSeq : d[k] = "none"}
<1>0. MaxSeq \in Nat
  BY MapperAssumption
<1>1. \E n \in from..MaxSeq : Good(n)
  <2>1. CASE Holes = {}
    <3>1. Good(MaxSeq)
      BY <2>1, <1>0
    <3>2. MaxSeq \in from..MaxSeq
      BY <1>0
    <3> QED
      BY <3>1, <3>2
  <2>2. CASE Holes # {}
    <3>1. Holes \subseteq Nat
      BY <1>0
    <3>2. PICK h \in Holes : \A k \in Holes : h <= k
      BY <2>2, <3>1, LeastNatural
    <3>3. h - 1 \in from..MaxSeq
      BY <1>0, <3>2
    <3>4. Good(h - 1)
      BY <1>0, <3>2
    <3> QED
      BY <3>3, <3>4
  <2> QED
    BY <2>1, <2>2
<1>2. /\ AdvanceContiguous(from, d) \in from..MaxSeq
      /\ Good(AdvanceContiguous(from, d))
  BY <1>1 DEF AdvanceContiguous
<1> QED
  BY <1>2

----------------------------------------------------------------------------
(* The inductive invariant.                                                *)

\* The pending range reaches past the cursor and holds nothing but raw deltas.
PendingIsDeltas ==
  pend # 0 => pend > cursor /\ \A k \in (cursor + 1)..pend : IsDelta(k)

\* What the rows of one sequence say about its effects.
RowsAgree ==
  \A s \in Seqs :
    /\ projected[s] \in {0, 1}
    /\ mirror[s] = "absent" => projected[s] = 0
    /\ disp[s] = "applied" => projected[s] = 1
    /\ (mirror[s] # "absent" /\ disp[s] = "none" /\ s > cursor) => projected[s] = 1

MapperInv == MapperTypeOK /\ PendingIsDeltas /\ CursorCoversOnlySettled /\ RowsAgree

\* The envelope the consumer is busy with is a semantic one.
ConsumerHoldsSemantic == cons \in {"ack", "after"} => consSeq \in Seqs \ DeltaSeqs

\* A replay that was fetched settles everything up to its end but what it still holds.
ReplaySettles ==
  /\ at \in {"snapshot", "fetch"} => atBase <= cursor
  /\ at \in {"apply", "ack", "prove"} => \A k \in (1..atUpto) \ atTodo : Settled(k)
  /\ at \in {"ack", "prove"} => atTodo = {}

IInv ==
  /\ TypeOK /\ MapperInv
  /\ acked <= cursor
  /\ ConsumerHoldsSemantic
  /\ ReplaySettles

\* What any step may do to the mapper's state.
ForgetPending == pend' = 0 /\ UNCHANGED <<cursor, disp, mirror, fenced, projected>>

MapperStep ==
  \/ UNCHANGED mapperVars
  \/ \E s \in Seqs : IsDelta(s) /\ IgnoreRawDelta(s)
  \/ \E s \in Seqs : ~IsDelta(s) /\ ApplySemantic(s)
  \/ FlushIgnoredDeltas
  \/ FenceBrokerInput
  \/ ForgetPending

\* What survives every mapper step.
MapperProgress ==
  /\ cursor' >= cursor
  /\ \A s \in Seqs : disp[s] # "none" => disp'[s] = disp[s]
  /\ \A s \in Seqs : Settled(s) => Settled(s)'

----------------------------------------------------------------------------
(* The mapper alone.                                                       *)

\* Folding the pending range covers only settled sequences.
LEMMA FlushedIsSettled ==
  ASSUME MapperInv
  PROVE  /\ Flushed \in 0..MaxSeq /\ Flushed >= cursor
         /\ \A k \in 1..Flushed : Settled(k)
<1>0. MaxSeq \in Nat \ {0}
  BY MapperAssumption
<1> QED
  BY <1>0 DEF MapperInv, MapperTypeOK, PendingIsDeltas, CursorCoversOnlySettled, Flushed, Settled

\* The first resolution of a semantic envelope.
LEMMA ResolvePreserves ==
  ASSUME MapperInv, NEW s \in Seqs, NEW run \in Resolutions(s), ~IsDelta(s),
         ~AlreadyResolved(s), Resolve(s, run), pend' = 0, UNCHANGED fenced
  PROVE  MapperInv' /\ MapperProgress /\ Settled(s)'
<1>0. MaxSeq \in Nat \ {0}
  BY MapperAssumption
<1>1. /\ Flushed \in 0..MaxSeq /\ Flushed >= cursor
      /\ \A k \in 1..Flushed : Settled(k)
  BY FlushedIsSettled
<1>2. /\ cursor' \in Flushed..MaxSeq
      /\ \A k \in (Flushed + 1)..cursor' : disp'[k] # "none"
  BY <1>1, AdvanceContiguousStopsAtHole DEF Resolve
<1>3. disp[s] = "none" /\ s > Flushed
  BY <1>0, <1>1 DEF AlreadyResolved, Seqs
<1>4. MapperTypeOK'
  BY <1>0, <1>1, <1>2, MapperAssumption
     DEF MapperInv, MapperTypeOK, Resolve, DispositionOf, Resolutions, Dispositions, Attributions
<1>5. RowsAgree'
  BY <1>0, <1>1, <1>2, <1>3
     DEF MapperInv, MapperTypeOK, RowsAgree, Resolve, DispositionOf, Resolutions, CrossesMigration,
         SkippedByFence, Seqs, Dispositions, Attributions
<1>6. /\ \A k \in Seqs : disp[k] # "none" => disp'[k] = disp[k]
      /\ \A k \in Seqs : projected'[k] >= projected[k]
  BY <1>3 DEF MapperInv, MapperTypeOK, Resolve
<1>7. \A k \in Seqs : Settled(k) => Settled(k)'
  BY <1>6, <1>4 DEF Settled, MapperInv, MapperTypeOK, IsDelta
<1>8. \A k \in Seqs : disp'[k] # "none" => Settled(k)'
  BY <1>4, <1>5 DEF MapperTypeOK, RowsAgree, Settled, Dispositions
<1>9. disp'[s] # "none"
  BY DEF Resolve, DispositionOf, MapperInv, MapperTypeOK
<1>10. CursorCoversOnlySettled'
  <2> SUFFICES ASSUME NEW k \in 1..cursor' PROVE Settled(k)'
    BY DEF CursorCoversOnlySettled
  <2>0. k \in Seqs
    BY <1>0, <1>1, <1>2 DEF Seqs
  <2>1. CASE k <= Flushed
    BY <2>0, <2>1, <1>1, <1>7 DEF Seqs
  <2>2. CASE k > Flushed
    BY <2>0, <2>2, <1>1, <1>2, <1>8
  <2> QED
    BY <2>0, <2>1, <2>2, <1>1 DEF Seqs
<1>11. PendingIsDeltas'
  BY DEF PendingIsDeltas
<1> QED
  BY <1>1, <1>2, <1>4, <1>5, <1>6, <1>7, <1>8, <1>9, <1>10, <1>11
     DEF MapperInv, MapperProgress, MapperTypeOK

\* An envelope that was resolved before.
LEMMA ReplayPreserves ==
  ASSUME MapperInv, NEW s \in Seqs, NEW run \in Resolutions(s), ~IsDelta(s),
         AlreadyResolved(s), Replay(s, run), pend' = 0, UNCHANGED fenced
  PROVE  MapperInv' /\ MapperProgress /\ Settled(s)'
<1>0. MaxSeq \in Nat \ {0}
  BY MapperAssumption
<1>1. /\ Flushed \in 0..MaxSeq /\ Flushed >= cursor
      /\ \A k \in 1..Flushed : Settled(k)
  BY FlushedIsSettled
<1>2. cursor' = Flushed /\ disp' = disp /\ projected' = projected
  BY DEF Replay
<1>3. \A k \in Seqs : Settled(k)' <=> Settled(k)
  BY <1>2 DEF Settled
<1>4. Settled(s)
  BY <1>0, <1>1 DEF AlreadyResolved, MapperInv, MapperTypeOK, RowsAgree, Settled, Seqs, Dispositions
<1>5. MapperTypeOK'
  BY <1>0, <1>1, <1>2 DEF MapperInv, MapperTypeOK, Replay, Resolutions, Attributions
<1>6. RowsAgree'
  <2> SUFFICES ASSUME NEW k \in Seqs
               PROVE  /\ projected'[k] \in {0, 1}
                      /\ mirror'[k] = "absent" => projected'[k] = 0
                      /\ disp'[k] = "applied" => projected'[k] = 1
                      /\ (mirror'[k] # "absent" /\ disp'[k] = "none" /\ k > cursor')
                           => projected'[k] = 1
    BY DEF RowsAgree
  <2>1. CASE k = s
    BY <2>1, <1>0, <1>1, <1>2
       DEF MapperInv, MapperTypeOK, RowsAgree, Replay, Resolutions, AlreadyResolved, Seqs, Attributions
  <2>2. CASE k # s
    BY <2>2, <1>0, <1>1, <1>2 DEF MapperInv, MapperTypeOK, RowsAgree, Replay, Seqs
  <2> QED
    BY <2>1, <2>2
<1>7. CursorCoversOnlySettled'
  BY <1>0, <1>1, <1>2, <1>3 DEF CursorCoversOnlySettled, Seqs
<1>8. PendingIsDeltas'
  BY DEF PendingIsDeltas
<1> QED
  BY <1>1, <1>2, <1>3, <1>4, <1>5, <1>6, <1>7, <1>8 DEF MapperInv, MapperProgress, MapperTypeOK

\* apply() settles the envelope it returns from.
LEMMA ApplyPreserves ==
  ASSUME MapperInv, NEW s \in Seqs, ~IsDelta(s), ApplySemantic(s)
  PROVE  MapperInv' /\ MapperProgress /\ Settled(s)'
<1>0. PICK run \in Resolutions(s) : IF AlreadyResolved(s) THEN Replay(s, run) ELSE Resolve(s, run)
  BY DEF ApplySemantic
<1>a. pend' = 0 /\ UNCHANGED fenced
  BY DEF ApplySemantic
<1>1. CASE AlreadyResolved(s)
  BY <1>0, <1>a, <1>1, ReplayPreserves
<1>2. CASE ~AlreadyResolved(s)
  BY <1>0, <1>a, <1>2, ResolvePreserves
<1> QED
  BY <1>1, <1>2

\* Every step of the mapper keeps its invariant and takes nothing back.
LEMMA MapperStepPreserves ==
  ASSUME MapperInv, MapperStep
  PROVE  MapperInv' /\ MapperProgress
<1>0. MaxSeq \in Nat \ {0}
  BY MapperAssumption
<1>1. CASE UNCHANGED mapperVars
  BY <1>1 DEF mapperVars, MapperInv, MapperTypeOK, PendingIsDeltas, CursorCoversOnlySettled,
              RowsAgree, MapperProgress, Settled, IsDelta, Seqs
<1>2. ASSUME NEW s \in Seqs, IsDelta(s), IgnoreRawDelta(s) PROVE MapperInv' /\ MapperProgress
  <2>1. UNCHANGED <<cursor, disp, mirror, fenced, projected>>
    BY <1>2 DEF IgnoreRawDelta
  <2>2. pend' = pend \/ (pend' = s /\ s = DeltaCursor + 1)
    BY <1>2 DEF IgnoreRawDelta
  <2>3. MapperTypeOK'
    BY <2>1, <2>2, <1>0 DEF MapperInv, MapperTypeOK, Seqs
  <2>4. PendingIsDeltas'
    BY <2>1, <2>2, <1>0, <1>2
       DEF MapperInv, MapperTypeOK, PendingIsDeltas, DeltaCursor, IsDelta, Seqs
  <2> QED
    BY <2>1, <2>3, <2>4
       DEF MapperInv, MapperTypeOK, CursorCoversOnlySettled, RowsAgree, MapperProgress, Settled,
           IsDelta, Seqs
<1>3. ASSUME NEW s \in Seqs, ~IsDelta(s), ApplySemantic(s) PROVE MapperInv' /\ MapperProgress
  BY <1>3, ApplyPreserves
<1>4. CASE FlushIgnoredDeltas
  <2>1. /\ Flushed \in 0..MaxSeq /\ Flushed >= cursor
        /\ \A k \in 1..Flushed : Settled(k)
    BY FlushedIsSettled
  <2>2. cursor' = Flushed /\ pend' = 0 /\ UNCHANGED <<disp, mirror, fenced, projected>>
    BY <1>4 DEF FlushIgnoredDeltas
  <2>3. \A k \in 1..MaxSeq : Settled(k)' <=> Settled(k)
    BY <2>2 DEF Settled
  <2>4. MapperTypeOK' /\ PendingIsDeltas'
    BY <2>1, <2>2, <1>0 DEF MapperInv, MapperTypeOK, PendingIsDeltas
  <2>5. CursorCoversOnlySettled'
    BY <2>1, <2>2, <2>3, <1>0 DEF CursorCoversOnlySettled
  <2>6. RowsAgree'
    BY <2>1, <2>2, <1>0 DEF MapperInv, MapperTypeOK, RowsAgree, Seqs
  <2> QED
    BY <2>1, <2>2, <2>3, <2>4, <2>5, <2>6 DEF MapperInv, MapperProgress, MapperTypeOK, Seqs
<1>5. CASE FenceBrokerInput
  BY <1>5 DEF FenceBrokerInput, MapperInv, MapperTypeOK, PendingIsDeltas, CursorCoversOnlySettled,
              RowsAgree, MapperProgress, Settled, IsDelta, Seqs
<1>6. CASE ForgetPending
  BY <1>6, <1>0 DEF ForgetPending, MapperInv, MapperTypeOK, PendingIsDeltas, CursorCoversOnlySettled,
              RowsAgree, MapperProgress, Settled, IsDelta, Seqs
<1> QED
  BY <1>1, <1>2, <1>3, <1>4, <1>5, <1>6 DEF MapperStep

----------------------------------------------------------------------------
(* The controller on top of it.                                            *)

\* The first state satisfies the invariant, migrated rows included.
LEMMA InitIInv == Init => IInv
<1> SUFFICES ASSUME Init PROVE IInv
  OBVIOUS
<1>0. MaxSeq \in Nat \ {0} /\ Migrated \in 0..MaxSeq
  BY MapperAssumption
<1>a. cursor \in 0..MaxSeq /\ cursor <= Migrated
  BY <1>0 DEF Init, MapperInit
<1>b. /\ disp = [s \in Seqs |-> "none"]
      /\ mirror = [s \in Seqs |-> IF s <= Migrated /\ ~IsDelta(s) THEN "owned" ELSE "absent"]
      /\ projected = [s \in Seqs |-> IF s <= Migrated /\ ~IsDelta(s) THEN 1 ELSE 0]
      /\ fenced = FALSE /\ pend = 0
  BY DEF Init, MapperInit
<1>1. MapperTypeOK
  <2>1. disp \in [Seqs -> Dispositions]
    BY <1>b DEF Dispositions
  <2>2. mirror \in [Seqs -> Attributions]
    BY <1>b DEF Attributions
  <2>3. projected \in [Seqs -> Nat]
    BY <1>b
  <2>4. pend \in 0..MaxSeq
    BY <1>0, <1>b
  <2>5. fenced \in BOOLEAN
    BY <1>b, Zenon
  <2> QED
    BY <1>a, <2>1, <2>2, <2>3, <2>4, <2>5 DEF MapperTypeOK
<1>2. TypeOK
  <2>1. /\ status \in Statuses /\ client \in {"none", "attached"}
        /\ cons \in {"off", "idle", "ack", "after", "endack", "probe"}
    BY DEF Init, Statuses
  <2>2. /\ head \in 0..MaxSeq /\ acked \in 0..MaxSeq /\ floor \in 0..MaxSeq
        /\ consSeq \in 0..MaxSeq /\ bfSeq \in 0..MaxSeq /\ atBase \in 0..MaxSeq
        /\ atUpto \in 0..MaxSeq /\ faults \in Nat
    BY <1>0 DEF Init
  <2> QED
    BY <1>1, <2>1, <2>2 DEF Init, TypeOK
<1>3. PendingIsDeltas /\ CursorCoversOnlySettled /\ RowsAgree
  <2>1. PendingIsDeltas
    BY <1>b DEF PendingIsDeltas
  <2>2. CursorCoversOnlySettled
    BY <1>0, <1>a, <1>b DEF CursorCoversOnlySettled, Settled, Seqs
  <2>3. RowsAgree
    <3> SUFFICES ASSUME NEW s \in Seqs
                 PROVE  /\ projected[s] \in {0, 1}
                        /\ mirror[s] = "absent" <=> projected[s] = 0
                        /\ disp[s] # "applied"
      BY DEF RowsAgree
    <3>1. CASE s <= Migrated /\ ~IsDelta(s)
      BY <1>b, <3>1
    <3>2. CASE ~(s <= Migrated /\ ~IsDelta(s))
      BY <1>b, <3>2
    <3> QED
      BY <3>1, <3>2
  <2> QED
    BY <2>1, <2>2, <2>3
<1>4. acked <= cursor /\ ConsumerHoldsSemantic /\ ReplaySettles
  BY <1>0 DEF Init, MapperInit, ConsumerHoldsSemantic, ReplaySettles
<1> QED
  BY <1>1, <1>2, <1>3, <1>4 DEF IInv, MapperInv

\* Whatever the controller does, the mapper only sees its own transactions.
LEMMA NextIsMapperStep ==
  ASSUME IInv, [Next]_vars
  PROVE  MapperStep
<1> USE DEF IInv, ConsumerHoldsSemantic, MapperStep
<1>1. CASE UNCHANGED vars
  BY <1>1 DEF vars
<1>2. CASE BrokerAppend \/ BrokerPrune
  BY <1>2 DEF BrokerAppend, BrokerPrune
<1>3. CASE Consume
  <2>1. ASSUME NEW s \in Seqs, ConsumeDelta(s) PROVE MapperStep
    BY <2>1 DEF ConsumeDelta
  <2>2. ASSUME NEW s \in Seqs, ConsumeSemantic(s) PROVE MapperStep
    BY <2>2 DEF ConsumeSemantic
  <2> QED
    BY <1>3, <2>1, <2>2 DEF Consume
<1>4. CASE ConsumerAck \/ ConsumerAfter \/ ConsumerEndAck \/ ConsumerProbed \/ ConsumerFails
  BY <1>4 DEF ConsumerAck, ConsumerAfter, ConsumerEndAck, ConsumerProbed, ConsumerFails
<1>5. CASE ConsumerBusyRetry
  BY <1>5 DEF ConsumerBusyRetry, IsDelta
<1>6. CASE StreamEnds
  BY <1>6 DEF StreamEnds
<1>7. CASE GapTimerFires \/ BackfillFetch \/ BackfillAck \/ BackfillEndAck \/ BackfillFails
  BY <1>7 DEF GapTimerFires, BackfillFetch, BackfillAck, BackfillEndAck, BackfillFails
<1>8. CASE BackfillApply
  BY <1>8 DEF BackfillApply, TypeOK
<1>9. CASE BackfillFlush \/ AttachFlush
  BY <1>9 DEF BackfillFlush, AttachFlush
<1>10. CASE AttachBegin \/ AttachSnapshot \/ AttachFetch \/ AttachAck \/ AttachPublish \/ AttachFails
  BY <1>10 DEF AttachBegin, AttachSnapshot, AttachFetch, AttachAck, AttachPublish, AttachFails
<1>11. CASE AttachApply
  BY <1>11 DEF AttachApply, TypeOK
<1>12. CASE LoseLive \/ BrokerClose
  BY <1>12 DEF LoseLive, BrokerClose
<1>13. CASE Crash
  BY <1>13 DEF Crash, ForgetPending
<1>14. CASE Fence
  BY <1>14 DEF Fence
<1> QED
  BY <1>1, <1>2, <1>3, <1>4, <1>5, <1>6, <1>7, <1>8, <1>9, <1>10, <1>11, <1>12, <1>13, <1>14
     DEF Next, ConsumerStep, BackfillStep, AttachStep, FaultStep

\* An acknowledgement carries the cursor of a state in which nothing is being written.
LEMMA NextAcksTheCursor ==
  ASSUME IInv, [Next]_vars
  PROVE  \/ acked' = acked
         \/ acked' = cursor /\ cursor > acked /\ cursor' = cursor /\ UNCHANGED mapperVars
<1> USE DEF brokerVars, mapperVars, AckCommittedProjection
<1>1. CASE UNCHANGED vars
  BY <1>1 DEF vars
<1>2. CASE BrokerAppend \/ BrokerPrune \/ LoseLive \/ BrokerClose \/ Crash \/ Fence
  BY <1>2 DEF BrokerAppend, BrokerPrune, LoseLive, BrokerClose, Crash, Fence
<1>3. CASE Consume
  BY <1>3 DEF Consume, ConsumeDelta, ConsumeSemantic
<1>4. CASE ConsumerAck \/ ConsumerEndAck \/ BackfillAck \/ BackfillEndAck \/ AttachAck
  BY <1>4 DEF ConsumerAck, ConsumerEndAck, BackfillAck, BackfillEndAck, AttachAck
<1>5. CASE ConsumerAfter \/ ConsumerProbed \/ ConsumerBusyRetry \/ ConsumerFails \/ StreamEnds
  BY <1>5 DEF ConsumerAfter, ConsumerProbed, ConsumerBusyRetry, ConsumerFails, StreamEnds
<1>6. CASE GapTimerFires \/ BackfillFetch \/ BackfillApply \/ BackfillFlush \/ BackfillFails
  BY <1>6 DEF GapTimerFires, BackfillFetch, BackfillApply, BackfillFlush, BackfillFails
<1>7. CASE \/ AttachBegin \/ AttachSnapshot \/ AttachFetch \/ AttachApply \/ AttachFlush
           \/ AttachPublish \/ AttachFails
  BY <1>7 DEF AttachBegin, AttachSnapshot, AttachFetch, AttachApply, AttachFlush, AttachPublish,
              AttachFails
<1> QED
  BY <1>1, <1>2, <1>3, <1>4, <1>5, <1>6, <1>7
     DEF Next, ConsumerStep, BackfillStep, AttachStep, FaultStep

\* The controller's own variables keep their types.
ControlTypeOK ==
  /\ status \in Statuses
  /\ head \in 0..MaxSeq /\ floor \in 0..MaxSeq
  /\ client \in {"none", "attached"}
  /\ chan \subseteq Seqs
  /\ cons \in {"off", "idle", "ack", "after", "endack", "probe"}
  /\ consSeq \in 0..MaxSeq
  /\ gap \subseteq Seqs
  /\ bf \in {"off", "fetch", "apply", "ack", "endack"}
  /\ bfMiss \subseteq Seqs
  /\ bfSeq \in 0..MaxSeq
  /\ at \in {"off", "snapshot", "fetch", "apply", "ack", "prove"}
  /\ atBase \in 0..MaxSeq
  /\ atTodo \subseteq Seqs
  /\ atUpto \in 0..MaxSeq
  /\ faults \in Nat

\* Every step keeps the controller's types, and the consumer holds a semantic envelope.
LEMMA NextControlTypeOK ==
  ASSUME IInv, [Next]_vars
  PROVE  ControlTypeOK' /\ ConsumerHoldsSemantic'
<1>0. MaxSeq \in Nat \ {0}
  BY MapperAssumption
<1>m. \A s : MissingBelow(s) \subseteq Seqs
  BY DEF MissingBelow
<1>t. ControlTypeOK /\ ConsumerHoldsSemantic /\ cursor \in 0..MaxSeq
  BY DEF IInv, TypeOK, MapperTypeOK, ControlTypeOK
<1> USE <1>0, <1>t DEF ControlTypeOK, ConsumerHoldsSemantic, brokerVars, consVars, gapVars,
                       attachVars, Seqs, Statuses
<1>1. CASE UNCHANGED vars
  BY <1>1 DEF vars
<1>2. CASE BrokerAppend
  BY <1>2 DEF BrokerAppend
<1>3. CASE BrokerPrune
  BY <1>3 DEF BrokerPrune, Fault
<1>4. CASE LoseLive
  BY <1>4 DEF LoseLive, Fault
<1>5. CASE BrokerClose
  BY <1>5 DEF BrokerClose, Fault, CrashTerminal
<1>6. CASE Crash
  BY <1>6 DEF Crash, Fault, BackfillStops, AttachStops
<1>7. CASE Fence
  BY <1>7 DEF Fence
<1>8. ASSUME NEW s \in Seqs, ConsumeDelta(s) PROVE ControlTypeOK' /\ ConsumerHoldsSemantic'
  <2>1. CASE DeltaRefused(s)
    BY <1>8, <2>1 DEF ConsumeDelta, ConsumerThrows, CrashTerminal
  <2>2. CASE ~DeltaRefused(s)
    BY <1>8, <2>2 DEF ConsumeDelta
  <2> QED
    BY <2>1, <2>2
<1>9. ASSUME NEW s \in Seqs, ConsumeSemantic(s) PROVE ControlTypeOK' /\ ConsumerHoldsSemantic'
  <2>0. gap' \subseteq Seqs /\ s \notin DeltaSeqs
    BY <1>9, <1>m DEF ConsumeSemantic, IsDelta
  <2>1. UNCHANGED <<brokerVars, bf, bfMiss, bfSeq, attachVars, faults>>
    BY <1>9 DEF ConsumeSemantic
  <2>2. CASE ConsumerThrows
    BY <2>0, <2>1, <2>2 DEF ConsumerThrows
  <2>3. CASE chan' = chan \ {s} /\ cons' = "ack" /\ consSeq' = s /\ UNCHANGED <<status, client>>
    BY <2>0, <2>1, <2>3
  <2> QED
    BY <1>9, <2>2, <2>3, Zenon DEF ConsumeSemantic
<1>10. CASE ConsumerAck
  BY <1>10 DEF ConsumerAck
<1>11. CASE ConsumerAfter
  <2>1. status' \in Statuses /\ client' \in {"none", "attached"}
    BY <1>11 DEF ConsumerAfter, MarkInvocationTerminal
  <2>2. /\ gap' \subseteq Seqs /\ bfMiss' \subseteq Seqs /\ bfSeq' = bfSeq
        /\ bf' \in {"off", "fetch", "apply", "ack", "endack"}
    BY <1>11 DEF ConsumerAfter, FlushGapBackfill, StartBackfill
  <2> QED
    BY <1>11, <2>1, <2>2 DEF ConsumerAfter
<1>12. CASE ConsumerBusyRetry
  <2>0. gap' \subseteq Seqs
    BY <1>12, <1>m DEF ConsumerBusyRetry
  <2>1. /\ cons = "after" /\ faults' = faults + 1
        /\ UNCHANGED <<brokerVars, bf, bfMiss, bfSeq, attachVars>>
    BY <1>12, Zenon DEF ConsumerBusyRetry, Fault
  <2>2. CASE ConsumerThrows
    BY <2>0, <2>1, <2>2 DEF ConsumerThrows
  <2>3. CASE cons' = "ack" /\ UNCHANGED <<chan, consSeq, status, client>>
    BY <2>0, <2>1, <2>3
  <2> QED
    BY <1>12, <2>2, <2>3, Zenon DEF ConsumerBusyRetry
<1>13. CASE ConsumerFails
  BY <1>13 DEF ConsumerFails, Fault, ConsumerThrows, CrashTerminal
<1>14. CASE StreamEnds
  BY <1>14 DEF StreamEnds
<1>15. CASE ConsumerEndAck \/ ConsumerProbed
  BY <1>15 DEF ConsumerEndAck, ConsumerProbed, CrashTerminal
<1>16. CASE GapTimerFires
  BY <1>16 DEF GapTimerFires, StartBackfill
<1>17. CASE BackfillFetch
  <2>1. CASE \E s \in bfMiss : s <= floor
    BY <1>17, <2>1 DEF BackfillFetch, BackfillStops
  <2>2. CASE ~\E s \in bfMiss : s <= floor
    BY <1>17, <2>2 DEF BackfillFetch
  <2> QED
    BY <2>1, <2>2
<1>18. CASE BackfillApply
  <2>1. PICK s \in bfMiss :
          \/ disp[s] # "none" /\ bfMiss' = bfMiss \ {s}
             /\ UNCHANGED <<mapperVars, bf, bfSeq>>
          \/ disp[s] = "none" /\ IsDelta(s) /\ IgnoreRawDelta(s)
             /\ bfMiss' = bfMiss \ {s} /\ UNCHANGED <<bf, bfSeq>>
          \/ disp[s] = "none" /\ ~IsDelta(s) /\ ApplySemantic(s)
             /\ bfMiss' = bfMiss \ {s} /\ bf' = "ack" /\ bfSeq' = s
          \/ disp[s] = "none" /\ MapperThrows(s)
             /\ BackfillStops /\ UNCHANGED mapperVars
    BY <1>18, Zenon DEF BackfillApply
  <2>2. UNCHANGED <<status, brokerVars, client, consVars, gap, attachVars, faults>>
    BY <1>18 DEF BackfillApply
  <2>3. CASE bfMiss' = bfMiss \ {s} /\ UNCHANGED <<bf, bfSeq>>
    BY <2>2, <2>3
  <2>4. CASE bfMiss' = bfMiss \ {s} /\ bf' = "ack" /\ bfSeq' = s
    BY <2>2, <2>4
  <2>5. CASE BackfillStops
    BY <2>2, <2>5 DEF BackfillStops
  <2>6. \/ bfMiss' = bfMiss \ {s} /\ UNCHANGED <<bf, bfSeq>>
        \/ bfMiss' = bfMiss \ {s} /\ bf' = "ack" /\ bfSeq' = s
        \/ BackfillStops
    BY <2>1, Zenon
  <2> QED
    BY <2>3, <2>4, <2>5, <2>6
<1>19. CASE BackfillAck
  BY <1>19 DEF BackfillAck, MarkInvocationTerminal
<1>20. CASE BackfillFlush
  BY <1>20 DEF BackfillFlush
<1>21. CASE BackfillEndAck
  BY <1>21 DEF BackfillEndAck, BackfillStops
<1>22. CASE BackfillFails
  BY <1>22 DEF BackfillFails, BackfillStops, Fault
<1>23. CASE AttachBegin
  BY <1>23 DEF AttachBegin
<1>24. CASE AttachSnapshot
  <2>1. CASE floor > atBase + 1
    BY <1>24, <2>1 DEF AttachSnapshot, ReplayStale, AttachStops
  <2>2. CASE ~(floor > atBase + 1)
    BY <1>24, <2>2 DEF AttachSnapshot
  <2> QED
    BY <2>1, <2>2
<1>25. CASE AttachFetch
  BY <1>25 DEF AttachFetch, ReplayStale, AttachStops
<1>26. CASE AttachApply
  <2>1. PICK s \in atTodo :
          \/ /\ atTodo' = atTodo \ {s}
             /\ UNCHANGED <<status, client, gapVars, at, atBase, atExited, atUpto>>
          \/ /\ FlushGapBackfill(s, disp') /\ MarkInvocationTerminal(s)
             /\ atTodo' = atTodo \ {s}
             /\ UNCHANGED <<at, atBase, atExited, atUpto>>
          \/ ReplayStale /\ UNCHANGED <<client, gapVars>>
    BY <1>26 DEF AttachApply
  <2>2. UNCHANGED <<brokerVars, consVars, faults>>
    BY <1>26 DEF AttachApply
  <2>3. ASSUME FlushGapBackfill(s, disp')
        PROVE  /\ gap' \subseteq Seqs /\ bfMiss' \subseteq Seqs /\ bfSeq' = bfSeq
               /\ bf' \in {"off", "fetch", "apply", "ack", "endack"}
    BY <2>3 DEF FlushGapBackfill, StartBackfill
  <2>4. ASSUME MarkInvocationTerminal(s)
        PROVE  status' \in Statuses /\ client' \in {"none", "attached"}
    BY <2>4 DEF MarkInvocationTerminal
  <2>5. CASE atTodo' = atTodo \ {s}
             /\ UNCHANGED <<status, client, gapVars, at, atBase, atExited, atUpto>>
    BY <2>2, <2>5
  <2>6. CASE /\ FlushGapBackfill(s, disp') /\ MarkInvocationTerminal(s)
             /\ atTodo' = atTodo \ {s}
             /\ UNCHANGED <<at, atBase, atExited, atUpto>>
    BY <2>2, <2>3, <2>4, <2>6
  <2>7. CASE ReplayStale /\ UNCHANGED <<client, gapVars>>
    BY <2>2, <2>7 DEF ReplayStale, AttachStops
  <2> QED
    BY <2>1, <2>5, <2>6, <2>7
<1>27. CASE AttachFlush
  BY <1>27 DEF AttachFlush
<1>28. CASE AttachAck
  BY <1>28 DEF AttachAck
<1>29. CASE AttachPublish
  BY <1>29 DEF AttachPublish, AttachStops
<1>30. CASE AttachFails
  BY <1>30 DEF AttachFails, AttachStops, Fault
<1> QED
  BY <1>1, <1>2, <1>3, <1>4, <1>5, <1>6, <1>7, <1>8, <1>9, <1>10, <1>11, <1>12, <1>13, <1>14,
     <1>15, <1>16, <1>17, <1>18, <1>19, <1>20, <1>21, <1>22, <1>23, <1>24, <1>25, <1>26, <1>27,
     <1>28, <1>29, <1>30
     DEF Next, Consume, ConsumerStep, BackfillStep, AttachStep, FaultStep

\* Boolean bookkeeping of the attach.
LEMMA NextExitedType ==
  ASSUME atExited \in BOOLEAN, [Next]_vars
  PROVE  atExited' \in BOOLEAN
<1>1. Exited \in BOOLEAN
  BY Zenon DEF Exited
<1>2. \/ atExited' = atExited
      \/ atExited' = FALSE
      \/ atExited' = Exited
  BY Zenon DEF Next, vars, ConsumerStep, Consume, BackfillStep, AttachStep, FaultStep, attachVars,
     BrokerAppend, BrokerPrune, ConsumeDelta, ConsumeSemantic, ConsumerAck, ConsumerAfter, StreamEnds,
     ConsumerEndAck, ConsumerProbed, GapTimerFires, BackfillFetch, BackfillApply, BackfillAck, BackfillFlush,
     BackfillEndAck, AttachBegin, AttachSnapshot, AttachFetch, AttachApply, AttachFlush, AttachAck,
     AttachPublish, LoseLive, ConsumerBusyRetry, ConsumerFails, BackfillFails, AttachFails,
     BrokerClose, Crash, Fence, ReplayStale, AttachStops
<1> QED
  BY <1>1, <1>2, Zenon

\* A step that leaves the attach alone cannot unsettle what it replayed.
LEMMA ReplayUntouched ==
  ASSUME IInv, MapperProgress, UNCHANGED attachVars, cursor' \in 0..MaxSeq
  PROVE  ReplaySettles'
<1>0. MaxSeq \in Nat \ {0}
  BY MapperAssumption
<1>1. /\ UNCHANGED <<at, atBase, atTodo, atUpto>> /\ atBase \in 0..MaxSeq /\ atUpto \in 0..MaxSeq
      /\ cursor \in 0..MaxSeq /\ cursor' >= cursor
  BY DEF attachVars, IInv, TypeOK, MapperTypeOK, MapperProgress
<1>2. \A k \in 1..atUpto : Settled(k) => Settled(k)'
  BY <1>0, <1>1 DEF MapperProgress, Seqs
<1>3. ReplaySettles
  BY DEF IInv
<1>4. (at \in {"snapshot", "fetch"} => atBase <= cursor)'
  BY <1>0, <1>1, <1>3, cursor' \in 0..MaxSeq DEF ReplaySettles
<1>5. (at \in {"apply", "ack", "prove"} => \A k \in (1..atUpto) \ atTodo : Settled(k))'
  BY <1>1, <1>2, <1>3 DEF ReplaySettles
<1>6. (at \in {"ack", "prove"} => atTodo = {})'
  BY <1>1, <1>3 DEF ReplaySettles
<1> QED
  BY <1>4, <1>5, <1>6 DEF ReplaySettles

\* One replayed envelope: it leaves the list only once it is settled.
LEMMA AttachApplySettles ==
  ASSUME IInv, AttachApply, MapperProgress
  PROVE  ReplaySettles'
<1>0. MaxSeq \in Nat \ {0}
  BY MapperAssumption
<1>t. atTodo \subseteq Seqs /\ atUpto \in 0..MaxSeq /\ MapperInv /\ at = "apply"
  BY DEF IInv, TypeOK, AttachApply
<1>1. PICK s \in atTodo :
        \/ IsDelta(s) /\ atTodo' = atTodo \ {s} /\ UNCHANGED <<at, atUpto>>
        \/ ~IsDelta(s) /\ ApplySemantic(s) /\ atTodo' = atTodo \ {s} /\ UNCHANGED <<at, atUpto>>
        \/ at' = "off"
  <2>1. PICK s \in atTodo :
       /\ First(atTodo, s)
       /\ \/ IsDelta(s) /\ IgnoreRawDelta(s)
             /\ atTodo' = atTodo \ {s}
             /\ UNCHANGED <<status, client, gapVars, at, atBase, atExited, atUpto>>
          \/ ~IsDelta(s) /\ ApplySemantic(s)
             /\ FlushGapBackfill(s, disp') /\ MarkInvocationTerminal(s)
             /\ atTodo' = atTodo \ {s}
             /\ UNCHANGED <<at, atBase, atExited, atUpto>>
          \/ MapperThrows(s)
             /\ ReplayStale /\ UNCHANGED <<mapperVars, client, gapVars>>
    BY Zenon DEF AttachApply
  <2> QED
    BY <2>1, Zenon DEF ReplayStale, AttachStops
<1>2. CASE at' = "off"
  BY <1>2 DEF ReplaySettles
<1>3. ASSUME Settled(s)', atTodo' = atTodo \ {s}, UNCHANGED <<at, atUpto>>
      PROVE  ReplaySettles'
  <2>1. \A k \in (1..atUpto) \ atTodo : Settled(k)
    BY <1>t DEF IInv, ReplaySettles
  <2>2. \A k \in (1..atUpto') \ atTodo' : Settled(k)'
    <3> SUFFICES ASSUME NEW k \in (1..atUpto) \ atTodo' PROVE Settled(k)'
      BY <1>3
    <3>1. k \in Seqs
      BY <1>0, <1>t DEF Seqs
    <3>2. CASE k = s
      BY <3>2, <1>3
    <3>3. CASE k # s
      BY <3>1, <3>3, <2>1, <1>3 DEF MapperProgress
    <3> QED
      BY <3>2, <3>3
  <2> QED
    BY <2>2, <1>3, <1>t DEF ReplaySettles
<1>4. CASE IsDelta(s) /\ atTodo' = atTodo \ {s} /\ UNCHANGED <<at, atUpto>>
  <2>1. Settled(s)'
    BY <1>4 DEF Settled, IsDelta
  <2> QED
    BY <2>1, <1>4, <1>3
<1>5. CASE ~IsDelta(s) /\ ApplySemantic(s) /\ atTodo' = atTodo \ {s} /\ UNCHANGED <<at, atUpto>>
  <2>1. Settled(s)'
    BY <1>5, <1>t, ApplyPreserves
  <2> QED
    BY <2>1, <1>5, <1>3
<1> QED
  BY <1>1, <1>2, <1>4, <1>5

\* Every step keeps the replay's bookkeeping.
LEMMA NextReplaySettles ==
  ASSUME IInv, [Next]_vars, MapperProgress, cursor' \in 0..MaxSeq
  PROVE  ReplaySettles'
<1>0. MaxSeq \in Nat \ {0}
  BY MapperAssumption
<1>t. /\ ReplaySettles /\ cursor \in 0..MaxSeq /\ atBase \in 0..MaxSeq /\ head \in 0..MaxSeq
      /\ CursorCoversOnlySettled
  BY DEF IInv, TypeOK, MapperTypeOK, MapperInv
<1>1. CASE UNCHANGED attachVars
  BY <1>1, ReplayUntouched
<1>2. CASE AttachBegin
  BY <1>2, <1>t DEF AttachBegin, ReplaySettles, mapperVars
<1>3. CASE AttachSnapshot
  <2>1. CASE floor > atBase + 1
    BY <1>3, <2>1 DEF AttachSnapshot, ReplayStale, AttachStops, ReplaySettles
  <2>2. CASE ~(floor > atBase + 1)
    <3>1. at = "snapshot" /\ at' = "fetch" /\ UNCHANGED <<atBase, cursor>>
      BY <1>3, <2>2 DEF AttachSnapshot, mapperVars
    <3> QED
      BY <3>1, <1>t DEF ReplaySettles
  <2> QED
    BY <2>1, <2>2
<1>4. CASE AttachFetch
  <2>1. CASE floor > atBase
    BY <1>4, <2>1 DEF AttachFetch, ReplayStale, AttachStops, ReplaySettles
  <2>2. CASE ~(floor > atBase)
    <3>1. /\ at = "fetch" /\ at' = "apply" /\ atTodo' = (atBase + 1)..head /\ atUpto' = head
          /\ UNCHANGED <<disp, projected>>
      BY <1>4, <2>2 DEF AttachFetch, mapperVars
    <3>2. \A k \in (1..head) \ ((atBase + 1)..head) : k \in 1..cursor
      BY <3>1, <1>0, <1>t DEF ReplaySettles
    <3>3. \A k \in (1..atUpto') \ atTodo' : Settled(k)'
      BY <3>1, <3>2, <1>t DEF CursorCoversOnlySettled, Settled
    <3> QED
      BY <3>1, <3>3 DEF ReplaySettles
  <2> QED
    BY <2>1, <2>2
<1>5. CASE AttachApply
  BY <1>5, AttachApplySettles
<1>6. CASE AttachFlush \/ AttachAck
  <2>1. /\ at \in {"apply", "ack"} /\ at' \in {"ack", "prove"} /\ atTodo = {}
        /\ UNCHANGED <<atTodo, atUpto>>
    BY <1>6, <1>t DEF AttachFlush, AttachAck, ReplaySettles
  <2>2. \A k \in 1..atUpto : Settled(k) => Settled(k)'
    BY <1>0 DEF MapperProgress, Seqs, IInv, TypeOK
  <2> QED
    BY <2>1, <2>2, <1>t DEF ReplaySettles
<1>7. CASE AttachStops
  BY <1>7 DEF AttachStops, ReplaySettles
<1> QED
  <2>1. \/ UNCHANGED attachVars \/ AttachBegin \/ AttachSnapshot \/ AttachFetch \/ AttachApply
        \/ AttachFlush \/ AttachAck \/ AttachStops
    BY Zenon DEF Next, vars, ConsumerStep, Consume, BackfillStep, AttachStep, FaultStep,
       BrokerAppend, BrokerPrune, ConsumeDelta, ConsumeSemantic, ConsumerAck, ConsumerAfter,
       StreamEnds, ConsumerEndAck, ConsumerProbed, GapTimerFires, BackfillFetch, BackfillApply, BackfillAck,
       BackfillFlush, BackfillEndAck, AttachPublish, LoseLive, ConsumerBusyRetry, ConsumerFails,
       BackfillFails, AttachFails, BrokerClose, Crash, Fence
  <2> QED
    BY <2>1, <1>1, <1>2, <1>3, <1>4, <1>5, <1>6, <1>7

----------------------------------------------------------------------------
(* The theorems.                                                           *)

\* IInv is inductive.
LEMMA NextIInv ==
  ASSUME IInv, [Next]_vars
  PROVE  IInv' /\ MapperProgress
<1>0. MaxSeq \in Nat \ {0}
  BY MapperAssumption
<1>1. MapperInv' /\ MapperProgress
  BY NextIsMapperStep, MapperStepPreserves DEF IInv
<1>2. ControlTypeOK' /\ ConsumerHoldsSemantic'
  BY NextControlTypeOK
<1>3. cursor \in 0..MaxSeq /\ cursor' \in 0..MaxSeq /\ cursor' >= cursor
      /\ acked \in 0..MaxSeq /\ acked <= cursor
  BY <1>1 DEF IInv, TypeOK, MapperInv, MapperTypeOK, MapperProgress
<1>4. acked' \in 0..MaxSeq /\ acked' <= cursor'
  BY <1>0, <1>3, NextAcksTheCursor
<1>5. atExited' \in BOOLEAN
  BY NextExitedType DEF IInv, TypeOK
<1>6. ReplaySettles'
  BY <1>1, <1>3, NextReplaySettles
<1>7. TypeOK'
  BY <1>1, <1>2, <1>4, <1>5 DEF TypeOK, ControlTypeOK, MapperInv
<1> QED
  BY <1>1, <1>2, <1>4, <1>6, <1>7 DEF IInv

\* The invariant holds in every reachable state, for every ledger and fault budget.
THEOREM InductiveInvariant == Spec => []IInv
<1>1. IInv /\ [Next]_vars => IInv'
  BY NextIInv
<1> QED
  BY InitIInv, <1>1, PTL DEF Spec

\* Every variable keeps its type: no transaction, acknowledgement or replay leaves the
\* ledger's range.
THEOREM TypeCorrect == Spec => []TypeOK
<1>1. IInv => TypeOK
  BY DEF IInv
<1> QED
  BY InductiveInvariant, <1>1, PTL

\* The durable cursor never passes an event the store has not settled.
THEOREM CursorIsSound == Spec => []CursorCoversOnlySettled
<1>1. IInv => CursorCoversOnlySettled
  BY DEF IInv, MapperInv
<1> QED
  BY InductiveInvariant, <1>1, PTL

\* The broker is never told that an unsettled event is committed.
THEOREM AckIsSound == Spec => []AckedIsSettled
<1>1. IInv => AckedIsSettled
  <2> SUFFICES ASSUME IInv, NEW k \in 1..acked PROVE Settled(k)
    BY DEF AckedIsSettled
  <2>1. k \in 1..cursor
    BY MapperAssumption DEF IInv, TypeOK, MapperTypeOK
  <2> QED
    BY <2>1 DEF IInv, MapperInv, CursorCoversOnlySettled
<1> QED
  BY InductiveInvariant, <1>1, PTL

\* No overlap of live stream, backfill, retry and replay commits the effects of an
\* envelope twice.
THEOREM ExactlyOnceAtMost == Spec => []ProjectedAtMostOnce
<1>1. IInv => ProjectedAtMostOnce
  BY DEF IInv, MapperInv, RowsAgree, ProjectedAtMostOnce
<1> QED
  BY InductiveInvariant, <1>1, PTL

\* Cursor, acknowledgement and dispositions only grow, crashes included.
THEOREM ProgressIsDurable == Spec => DurableProgress
<1>1. IInv /\ [Next]_vars =>
        [/\ cursor' >= cursor /\ acked' >= acked
         /\ \A s \in Seqs : disp[s] # "none" => disp'[s] = disp[s]]_vars
  <2> SUFFICES ASSUME IInv, [Next]_vars
               PROVE  /\ cursor' >= cursor /\ acked' >= acked
                      /\ \A s \in Seqs : disp[s] # "none" => disp'[s] = disp[s]
    OBVIOUS
  <2>1. MapperProgress
    BY NextIInv
  <2>2. acked' >= acked
    <3>1. acked \in Int /\ cursor \in Int
      BY MapperAssumption DEF IInv, TypeOK, MapperTypeOK
    <3> QED
      BY <3>1, NextAcksTheCursor
  <2> QED
    BY <2>1, <2>2 DEF MapperProgress
<1> QED
  BY InductiveInvariant, <1>1, PTL DEF Spec, DurableProgress

\* A reattach publishes its client only when all it could replay is settled.
THEOREM PublishIsCaughtUp == Spec => PublishedIsCaughtUp
<1>1. IInv /\ [Next]_vars =>
        [client = "none" /\ client' = "attached" => \A s \in 1..atUpto : Settled(s)]_vars
  <2> SUFFICES ASSUME IInv, [Next]_vars, client = "none", client' = "attached"
               PROVE  \A s \in 1..atUpto : Settled(s)
    OBVIOUS
  <2>1. AttachPublish
    <3>1. client' # client
      OBVIOUS
    <3>2. \/ client' = client \/ client' = "none" \/ AttachPublish
      BY Zenon DEF Next, vars, ConsumerStep, Consume, BackfillStep, AttachStep, FaultStep,
         BrokerAppend, BrokerPrune, ConsumeDelta, ConsumeSemantic, ConsumerAck, ConsumerAfter,
         StreamEnds, ConsumerEndAck, ConsumerProbed, GapTimerFires, BackfillFetch, BackfillApply, BackfillAck,
         BackfillFlush, BackfillEndAck, AttachBegin, AttachSnapshot, AttachFetch, AttachApply,
         AttachFlush, AttachAck, LoseLive, ConsumerBusyRetry, ConsumerFails,
         BackfillFails, AttachFails, BrokerClose, Crash, Fence, ConsumerThrows, CrashTerminal,
         MarkInvocationTerminal
    <3> QED
      BY <3>1, <3>2
  <2>2. at = "prove"
    BY <2>1 DEF AttachPublish
  <2> QED
    BY <2>2 DEF IInv, ReplaySettles
<1> QED
  BY InductiveInvariant, <1>1, PTL DEF Spec, PublishedIsCaughtUp

----------------------------------------------------------------------------
(* The store deals with the broker's ledger like EffectLedger.             *)

\* What the rows say is dealt with is what the abstract ledger calls done.
LEMMA SettledIsDone ==
  ASSUME MapperInv, NEW s \in Seqs
  PROVE  Settled(s) <=> Ledger!Done(s)
BY DEF MapperInv, MapperTypeOK, RowsAgree, Settled, IsDelta, Ledger!Done

\* The first resolution of an envelope commits or waives its effects, once, above the
\* cursor; the row of an envelope mapped before dispositions existed does neither.
LEMMA ResolveIsCommitOrWaive ==
  ASSUME MapperInv, NEW s \in Seqs, NEW run, ~IsDelta(s), ~AlreadyResolved(s), Resolve(s, run)
  PROVE  \/ Ledger!Commit(s) \/ Ledger!Waive(s)
         \/ UNCHANGED <<projected, {k \in Seqs : disp[k] = "skipped_fenced"}>>
<1>0. MaxSeq \in Nat \ {0}
  BY MapperAssumption
<1>1. /\ disp \in [Seqs -> Dispositions] /\ projected \in [Seqs -> Nat]
      /\ projected[s] \in {0, 1} /\ (mirror[s] = "absent" => projected[s] = 0)
      /\ cursor \in 0..MaxSeq
  BY DEF MapperInv, MapperTypeOK, RowsAgree
<1>2. disp[s] = "none" /\ s > cursor
  <2>1. Flushed >= cursor /\ Flushed \in 0..MaxSeq
    BY FlushedIsSettled
  <2> QED
    BY <2>1, <1>0, <1>1 DEF AlreadyResolved, Seqs
<1>3. disp' = [disp EXCEPT ![s] = DispositionOf(s, run)]
  BY DEF Resolve
<1>4. CASE CrossesMigration(s)
  <2>1. DispositionOf(s, run) = "applied" /\ projected' = projected
    BY <1>4 DEF DispositionOf, Resolve
  <2> QED
    BY <2>1, <1>1, <1>2, <1>3
<1>5. CASE ~CrossesMigration(s) /\ SkippedByFence(s, run)
  <2>1. DispositionOf(s, run) = "skipped_fenced" /\ projected' = projected
    BY <1>5 DEF DispositionOf, Resolve
  <2>2. projected[s] = 0
    BY <1>1, <1>5 DEF CrossesMigration
  <2>3. {k \in Seqs : disp'[k] = "skipped_fenced"} = {k \in Seqs : disp[k] = "skipped_fenced"} \cup {s}
    BY <1>1, <1>3, <2>1
  <2> QED
    BY <2>1, <2>2, <2>3, <1>2 DEF Ledger!Waive, Ledger!Open, IsDelta
<1>6. CASE ~CrossesMigration(s) /\ ~SkippedByFence(s, run)
  <2>1. DispositionOf(s, run) = "applied" /\ projected' = [projected EXCEPT ![s] = @ + 1]
    BY <1>6 DEF DispositionOf, Resolve
  <2>2. projected[s] = 0
    BY <1>1, <1>6 DEF CrossesMigration
  <2>3. projected' = [projected EXCEPT ![s] = 1]
    BY <2>1, <2>2, <1>1
  <2>4. {k \in Seqs : disp'[k] = "skipped_fenced"} = {k \in Seqs : disp[k] = "skipped_fenced"}
    BY <1>1, <1>2, <1>3, <2>1
  <2> QED
    BY <2>2, <2>3, <2>4, <1>2 DEF Ledger!Commit, Ledger!Open, IsDelta
<1> QED
  BY <1>4, <1>5, <1>6

\* Every transaction of the mapper is one of the abstract ledger.
LEMMA MapperStepIsTransaction ==
  ASSUME MapperInv, MapperStep, acked' = acked
  PROVE  Ledger!Transaction
<1>0. MaxSeq \in Nat \ {0}
  BY MapperAssumption
<1>1. MapperInv' /\ MapperProgress
  BY MapperStepPreserves
<1>2. Ledger!Seal
  <2>1. cursor \in 0..MaxSeq /\ cursor' \in 0..MaxSeq /\ cursor' >= cursor
    BY <1>1 DEF MapperInv, MapperTypeOK, MapperProgress
  <2>2. \A s \in Seqs : Settled(s)' <=> Ledger!Done(s)'
    BY <1>1 DEF MapperInv, MapperTypeOK, RowsAgree, Settled, IsDelta, Ledger!Done
  <2>3. \A s \in 1..cursor' : s \in Seqs /\ Settled(s)'
    BY <1>0, <1>1, <2>1 DEF MapperInv, CursorCoversOnlySettled, Seqs
  <2> QED
    BY <1>0, <2>1, <2>2, <2>3 DEF Ledger!Seal
<1>3. \/ \E s \in Seqs : Ledger!Commit(s) \/ Ledger!Waive(s)
      \/ UNCHANGED <<projected, {k \in Seqs : disp[k] = "skipped_fenced"}>>
  <2>1. CASE UNCHANGED <<disp, projected>>
    BY <2>1
  <2>2. ASSUME NEW s \in Seqs, ~IsDelta(s), ApplySemantic(s), ~AlreadyResolved(s)
        PROVE  \/ Ledger!Commit(s) \/ Ledger!Waive(s)
               \/ UNCHANGED <<projected, {k \in Seqs : disp[k] = "skipped_fenced"}>>
    <3>1. PICK run \in Resolutions(s) : Resolve(s, run)
      BY <2>2 DEF ApplySemantic
    <3> QED
      BY <2>2, <3>1, ResolveIsCommitOrWaive
  <2>3. \/ UNCHANGED <<disp, projected>>
        \/ \E s \in Seqs : ~IsDelta(s) /\ ApplySemantic(s) /\ ~AlreadyResolved(s)
    BY DEF MapperStep, mapperVars, IgnoreRawDelta, ApplySemantic, Replay, FlushIgnoredDeltas,
           FenceBrokerInput, ForgetPending
  <2> QED
    BY <2>1, <2>2, <2>3
<1> QED
  BY <1>2, <1>3 DEF Ledger!Transaction, Seqs

\* Live stream, backfill, retry, replay, migration and crashes together keep the promise
\* of the abstract ledger: one envelope per transaction, its effects committed or waived
\* once and for good, the cursor only over what is dealt with, and the broker told only
\* of what an earlier step covered.
THEOREM LedgerRefinement == Spec => ImplementsLedger
<1>1. Init => Ledger!Init
  <2> SUFFICES ASSUME Init PROVE Ledger!Init
    OBVIOUS
  <2>0. IInv /\ MaxSeq \in Nat \ {0}
    BY InitIInv, MapperAssumption
  <2>1. projected \in [Seqs -> {0, 1}]
    BY <2>0 DEF IInv, MapperInv, MapperTypeOK, RowsAgree
  <2>2. {k \in Seqs : disp[k] = "skipped_fenced"} = {}
    BY DEF Init, MapperInit
  <2>3. cursor \in 0..MaxSeq /\ \A s \in 1..cursor : s \in Seqs /\ Settled(s)
    BY <2>0 DEF IInv, MapperInv, MapperTypeOK, CursorCoversOnlySettled, Seqs
  <2>4. \A s \in 1..cursor : Ledger!Done(s)
    BY <2>0, <2>3, SettledIsDone DEF IInv
  <2>5. acked = 0
    BY DEF Init
  <2> QED
    BY <2>1, <2>2, <2>3, <2>4, <2>5 DEF Ledger!Init, Seqs
<1>2. IInv /\ [Next]_vars => [Ledger!Next]_(Ledger!ledgerVars)
  <2> SUFFICES ASSUME IInv, [Next]_vars PROVE Ledger!Next
    OBVIOUS
  <2>1. CASE acked' = acked
    BY <2>1, NextIsMapperStep, MapperStepIsTransaction DEF IInv, Ledger!Next
  <2>2. CASE acked' = cursor /\ cursor > acked /\ UNCHANGED mapperVars
    <3>1. acked \in 0..MaxSeq /\ cursor \in 0..MaxSeq
      BY DEF IInv, TypeOK, MapperTypeOK
    <3> QED
      BY <2>2, <3>1, MapperAssumption DEF mapperVars, Ledger!Next, Ledger!Tell
  <2> QED
    BY <2>1, <2>2, NextAcksTheCursor
<1> QED
  BY <1>1, <1>2, InductiveInvariant, PTL DEF Spec, ImplementsLedger, Ledger!Spec
=============================================================================
