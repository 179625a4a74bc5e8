--------------------------- MODULE BrokerOrderProofs ---------------------------
(***************************************************************************)
(* What a live stream that arrives whole and in order spares the           *)
(* controller, whatever crashes, closes, refused requests, busy retries    *)
(* and discarded history come between, and however the rows change from    *)
(* which runs are inferred: the counterpart of the limits that             *)
(* MCBrokerDeltaGap and MCBrokerReplayConflict show, which need a lost     *)
(* envelope.                                                               *)
(***************************************************************************)
EXTENDS BrokerProjectionProofs

\* The evidence that names a run precedes what belongs to the run, and is no fragment.
EvidencePrecedes ==
  \A s \in Seqs : TurnStart[s] # 0 => TurnStart[s] < s /\ ~IsDelta(TurnStart[s])

\* No disposition lies beyond the cursor, every semantic envelope up to it is mirrored and
\* none beyond it but migrated ones, and only an inferred row lacks the run of its evidence.
RowsInOrder ==
  \A s \in Seqs :
    /\ disp[s] # "none" => s <= cursor
    /\ mirror[s] = "unowned" => s \in Inferred
    /\ (s <= cursor /\ ~IsDelta(s)) => mirror[s] # "absent"
    /\ mirror[s] # "absent" => s <= cursor \/ s <= Migrated

\* Everything that is due next is on its way: in the stream of a consumer, or in the
\* list of a replay and in the stream buffered behind it.
NothingIsSkipped ==
  /\ chan \subseteq 1..head
  /\ cons \in {"idle", "ack", "after"} => (DeltaCursor + 1)..head \subseteq chan
  /\ at \in {"apply", "ack", "prove"} =>
       /\ atUpto <= head /\ atTodo \subseteq 1..atUpto
       /\ (DeltaCursor + 1)..atUpto \subseteq atTodo
       /\ (atUpto + 1)..head \subseteq chan

\* A replay brings only what lies beyond the cursor.
ReplayIsNew ==
  /\ at \in {"snapshot", "fetch"} => atBase = cursor
  /\ at = "apply" => \A s \in atTodo : IsDelta(s) \/ s > cursor

OrderInv ==
  /\ RowsInOrder /\ NothingIsSkipped /\ ReplayIsNew
  /\ gap = {} /\ bf = "off"
  /\ at # "off" => cons = "off"
  /\ cons \in {"ack", "after"} => consSeq <= cursor

----------------------------------------------------------------------------
(* The mapper, offered envelopes in order.                                 *)

\* The pending range, once folded, is where the next envelope is expected.
LEMMA FrontIsFlushed ==
  ASSUME MapperInv
  PROVE  /\ DeltaCursor = Flushed /\ DeltaCursor \in 0..MaxSeq /\ DeltaCursor >= cursor
         /\ \A k \in (cursor + 1)..DeltaCursor : IsDelta(k)
<1>0. MaxSeq \in Nat \ {0}
  BY MapperAssumption
<1> QED
  BY <1>0 DEF MapperInv, MapperTypeOK, PendingIsDeltas, DeltaCursor, Flushed

\* What is offered no later than the next expected sequence finds its evidence mirrored, so
\* nothing but an inferred run can conflict.
LEMMA InOrderIsAttributed ==
  ASSUME MapperInv, RowsInOrder, EvidencePrecedes,
         NEW s \in Seqs, s <= DeltaCursor + 1
  PROVE  /\ \A run \in Resolutions(s) : run = "owned" \/ (run = "unowned" /\ s \in Inferred)
         /\ MapperThrows(s) => s \in Inferred /\ ~IsDelta(s)
<1>0. MaxSeq \in Nat \ {0} /\ TurnStart[s] \in 0..MaxSeq
  BY MapperAssumption
<1>1. /\ DeltaCursor \in 0..MaxSeq /\ cursor \in 0..MaxSeq
      /\ \A k \in (cursor + 1)..DeltaCursor : IsDelta(k)
  BY FrontIsFlushed DEF MapperInv, MapperTypeOK
<1>2. s \notin Inferred => Resolutions(s) = {"owned"}
  <2>0. SUFFICES ASSUME s \notin Inferred PROVE Resolutions(s) = {"owned"}
    OBVIOUS
  <2>1. CASE TurnStart[s] = 0
    BY <2>0, <2>1 DEF Resolutions
  <2>2. CASE TurnStart[s] # 0
    <3>1. TurnStart[s] \in Seqs /\ TurnStart[s] < s /\ ~IsDelta(TurnStart[s])
      BY <1>0, <2>2 DEF EvidencePrecedes, Seqs
    <3>2. TurnStart[s] <= DeltaCursor
      BY <1>0, <1>1, <3>1 DEF Seqs
    <3>3. TurnStart[s] <= cursor
      BY <1>0, <1>1, <3>1, <3>2 DEF Seqs
    <3>4. mirror[TurnStart[s]] # "absent"
      BY <3>1, <3>3 DEF RowsInOrder
    <3> QED
      BY <2>0, <3>4 DEF Resolutions
  <2> QED
    BY <2>1, <2>2
<1>3. s \notin Inferred => ~MayConflict(s)
  <2>1. mirror[s] \in Attributions /\ (mirror[s] = "unowned" => s \in Inferred)
    BY DEF MapperInv, MapperTypeOK, RowsInOrder
  <2> QED
    BY <1>2, <2>1 DEF MayConflict, AppendConflicts, Attributions
<1>4. ~DeltaRefused(s)
  BY <1>0, <1>1 DEF DeltaRefused, Seqs
<1> QED
  BY <1>2, <1>3, <1>4 DEF MapperThrows, Resolutions

\* An envelope offered in order leaves the rows in order and is passed by the front.
LEMMA ApplyInOrder ==
  ASSUME MapperInv, RowsInOrder, EvidencePrecedes,
         NEW s \in Seqs, s <= DeltaCursor + 1, ~IsDelta(s), ApplySemantic(s)
  PROVE  /\ RowsInOrder' /\ DeltaCursor' >= DeltaCursor /\ cursor' >= s /\ DeltaCursor' = cursor'
         /\ s > cursor => cursor' = s
<1>0. MaxSeq \in Nat \ {0}
  BY MapperAssumption
<1>1. /\ DeltaCursor = Flushed /\ Flushed \in 0..MaxSeq /\ Flushed >= cursor /\ cursor \in 0..MaxSeq
      /\ \A k \in (cursor + 1)..Flushed : IsDelta(k)
  BY FrontIsFlushed DEF MapperInv, MapperTypeOK
<1>2. mirror \in [Seqs -> Attributions] /\ disp \in [Seqs -> Dispositions]
  BY DEF MapperInv, MapperTypeOK
<1>r. PICK run \in Resolutions(s) : IF AlreadyResolved(s) THEN Replay(s, run) ELSE Resolve(s, run)
  BY DEF ApplySemantic
<1>o. run \in {"owned", "unowned"} /\ (run = "unowned" => s \in Inferred)
  BY InOrderIsAttributed
<1>3. pend' = 0 /\ DeltaCursor' = cursor'
  BY DEF ApplySemantic, DeltaCursor
<1>4. CASE AlreadyResolved(s)
  <2>1. /\ mirror' = [mirror EXCEPT ![s] = run] /\ cursor' = Flushed /\ disp' = disp
    BY <1>r, <1>4 DEF Replay
  <2>2. s <= Flushed
    BY <1>0, <1>1, <1>4 DEF AlreadyResolved, RowsInOrder, Seqs
  <2>3. RowsInOrder'
    <3> SUFFICES ASSUME NEW k \in Seqs
                 PROVE  /\ disp'[k] # "none" => k <= cursor'
                        /\ mirror'[k] = "unowned" => k \in Inferred
                        /\ (k <= cursor' /\ ~IsDelta(k)) => mirror'[k] # "absent"
                        /\ mirror'[k] # "absent" => k <= cursor' \/ k <= Migrated
      BY DEF RowsInOrder
    <3>0. Migrated \in 0..MaxSeq
      BY MapperAssumption
    <3>1. CASE k = s
      BY <1>0, <1>1, <1>2, <1>o, <2>1, <2>2, <3>1 DEF Seqs
    <3>2. CASE k # s
      BY <1>0, <1>1, <1>2, <2>1, <3>0, <3>2 DEF RowsInOrder, Seqs
    <3> QED
      BY <3>1, <3>2
  <2>4. ~(s > cursor)
    BY <1>0, <1>1, <2>2 DEF Seqs
  <2> QED
    BY <1>0, <1>1, <1>3, <2>1, <2>2, <2>3, <2>4
<1>5. CASE ~AlreadyResolved(s)
  <2>1. /\ disp' = [disp EXCEPT ![s] = DispositionOf(s, run)]
        /\ mirror' = [mirror EXCEPT ![s] = run]
        /\ cursor' = AdvanceContiguous(Flushed, disp') /\ DispositionOf(s, run) # "none"
    BY <1>r, <1>5 DEF Resolve, DispositionOf
  <2>2. s = Flushed + 1
    BY <1>0, <1>1, <1>5 DEF AlreadyResolved, Seqs
  <2>3. \A k \in Seqs : k > Flushed => (disp'[k] # "none" <=> k = s)
    BY <1>0, <1>1, <1>2, <2>1 DEF RowsInOrder, Seqs
  <2>4. /\ cursor' \in Flushed..MaxSeq
        /\ \A k \in (Flushed + 1)..cursor' : disp'[k] # "none"
        /\ cursor' = MaxSeq \/ disp'[cursor' + 1] = "none"
    BY <1>1, <2>1, AdvanceContiguousStopsAtHole
  <2>5. cursor' = s
    BY <1>0, <1>1, <2>2, <2>3, <2>4 DEF Seqs
  <2>6. RowsInOrder'
    <3> SUFFICES ASSUME NEW k \in Seqs
                 PROVE  /\ disp'[k] # "none" => k <= cursor'
                        /\ mirror'[k] = "unowned" => k \in Inferred
                        /\ (k <= cursor' /\ ~IsDelta(k)) => mirror'[k] # "absent"
                        /\ mirror'[k] # "absent" => k <= cursor' \/ k <= Migrated
      BY DEF RowsInOrder
    <3>0. Migrated \in 0..MaxSeq
      BY MapperAssumption
    <3>1. CASE k = s
      BY <1>2, <1>o, <2>1, <2>5, <3>1 DEF Seqs
    <3>2. CASE k # s
      BY <1>0, <1>1, <1>2, <2>1, <2>2, <2>5, <3>0, <3>2 DEF RowsInOrder, Seqs
    <3> QED
      BY <3>1, <3>2
  <2> QED
    BY <1>0, <1>1, <1>3, <2>2, <2>5, <2>6
<1> QED
  BY <1>4, <1>5

\* A raw delta offered in order is passed by the front.
LEMMA DeltaInOrder ==
  ASSUME MapperInv, RowsInOrder, NEW s \in Seqs, s <= DeltaCursor + 1, IgnoreRawDelta(s)
  PROVE  RowsInOrder' /\ DeltaCursor' >= DeltaCursor /\ DeltaCursor' >= s /\ cursor' = cursor
<1>0. MaxSeq \in Nat \ {0}
  BY MapperAssumption
<1>1. DeltaCursor \in 0..MaxSeq
  BY FrontIsFlushed
<1>2. UNCHANGED <<cursor, disp, mirror>>
  BY DEF IgnoreRawDelta
<1>3. RowsInOrder'
  BY <1>2 DEF RowsInOrder, IsDelta
<1>4. \/ s = DeltaCursor + 1 /\ pend' = s
      \/ s <= DeltaCursor /\ pend' = pend
  BY <1>0, <1>1 DEF IgnoreRawDelta, Seqs
<1>5. DeltaCursor' >= DeltaCursor /\ DeltaCursor' >= s
  BY <1>0, <1>1, <1>2, <1>4 DEF DeltaCursor, Seqs
<1> QED
  BY <1>2, <1>3, <1>5

\* A flush moves the cursor to the front and leaves the front where it is.
LEMMA FlushInOrder ==
  ASSUME MapperInv, RowsInOrder, FlushIgnoredDeltas
  PROVE  RowsInOrder' /\ DeltaCursor' = DeltaCursor
<1>0. MaxSeq \in Nat \ {0}
  BY MapperAssumption
<1>1. /\ DeltaCursor = Flushed /\ Flushed \in 0..MaxSeq /\ Flushed >= cursor /\ cursor \in 0..MaxSeq
      /\ \A k \in (cursor + 1)..Flushed : IsDelta(k)
  BY FrontIsFlushed DEF MapperInv, MapperTypeOK
<1>2. cursor' = Flushed /\ pend' = 0 /\ UNCHANGED <<disp, mirror>>
  BY DEF FlushIgnoredDeltas
<1>m. Migrated \in 0..MaxSeq
  BY MapperAssumption
<1>3. RowsInOrder'
  BY <1>0, <1>1, <1>2, <1>m DEF RowsInOrder, IsDelta, Seqs
<1> QED
  BY <1>1, <1>2, <1>3 DEF DeltaCursor

----------------------------------------------------------------------------
(* The controller, with a stream that neither loses nor reorders.          *)

OrderedStream == "loss" \notin FaultKinds /\ "reorder" \notin FaultKinds

\* What a consumer or a replay is offered is never beyond the next expected sequence.
LEMMA OfferedIsDue ==
  ASSUME OrderedStream, IInv, OrderInv, NEW s \in Seqs, Offered(s)
  PROVE  s <= DeltaCursor + 1
<1>0. /\ MaxSeq \in Nat \ {0} /\ DeltaCursor \in 0..MaxSeq /\ head \in 0..MaxSeq
      /\ atUpto \in 0..MaxSeq /\ cursor \in 0..MaxSeq /\ cursor <= DeltaCursor
  BY MapperAssumption, FrontIsFlushed DEF IInv, TypeOK, MapperTypeOK
<1>1. CASE cons = "idle" /\ Arrives(s)
  <2>1. s \in chan /\ s <= head /\ \A k \in chan : s <= k
    BY <1>1 DEF Arrives, First, OrderedStream, OrderInv, NothingIsSkipped
  <2>2. (DeltaCursor + 1)..head \subseteq chan
    BY <1>1 DEF OrderInv, NothingIsSkipped
  <2>3. CASE DeltaCursor + 1 <= head
    <3>1. DeltaCursor + 1 \in chan
      BY <1>0, <2>2, <2>3
    <3> QED
      BY <2>1, <3>1
  <2>4. CASE ~(DeltaCursor + 1 <= head)
    BY <1>0, <2>1, <2>4 DEF Seqs
  <2> QED
    BY <2>3, <2>4
<1>2. CASE cons = "after" /\ s = consSeq
  BY <1>0, <1>2 DEF OrderInv, Seqs
<1>3. CASE at = "apply" /\ First(atTodo, s)
  <2>1. s \in atTodo /\ s <= atUpto /\ \A k \in atTodo : s <= k
    BY <1>3 DEF First, OrderInv, NothingIsSkipped
  <2>2. (DeltaCursor + 1)..atUpto \subseteq atTodo
    BY <1>3 DEF OrderInv, NothingIsSkipped
  <2>3. CASE DeltaCursor + 1 <= atUpto
    <3>1. DeltaCursor + 1 \in atTodo
      BY <1>0, <2>2, <2>3
    <3> QED
      BY <2>1, <3>1
  <2>4. CASE ~(DeltaCursor + 1 <= atUpto)
    BY <1>0, <2>1, <2>4 DEF Seqs
  <2> QED
    BY <2>3, <2>4
<1> QED
  BY <1>1, <1>2, <1>3 DEF Offered

\* With nothing missing below what is offered, no gap is noticed, and a backfill that
\* finds no gap does not start.
LEMMA NothingIsMissing ==
  ASSUME IInv, NEW s \in Seqs, s <= DeltaCursor + 1
  PROVE  MissingBelow(s) = {}
<1>0. MaxSeq \in Nat \ {0} /\ DeltaCursor = Flushed /\ DeltaCursor \in 0..MaxSeq
  BY MapperAssumption, FrontIsFlushed DEF IInv
<1> QED
  BY <1>0 DEF MissingBelow, Seqs

LEMMA FlushStartsNothing ==
  ASSUME gap = {}, bf = "off", NEW s, NEW d, FlushGapBackfill(s, d)
  PROVE  gap' = {} /\ bf' = "off"
BY DEF FlushGapBackfill, StartBackfill, gapVars

\* A front that moves forward leaves less to come, and what it has passed is not part of it.
LEMMA LessToCome ==
  ASSUME NEW a \in Int, NEW b \in Int, b >= a, NEW n \in Int
  PROVE  /\ (b + 1)..n \subseteq (a + 1)..n
         /\ \A k \in (b + 1)..n : \A s \in Int : b >= s => k # s
OBVIOUS

LEMMA FrontTypedNext ==
  ASSUME MapperInv'
  PROVE  cursor' \in 0..MaxSeq /\ DeltaCursor' \in 0..MaxSeq /\ cursor' <= DeltaCursor'
<1>1. /\ MaxSeq \in Nat /\ cursor' \in 0..MaxSeq /\ pend' \in 0..MaxSeq
      /\ pend' # 0 => pend' > cursor'
  BY MapperAssumption DEF MapperInv, MapperTypeOK, PendingIsDeltas
<1>2. DeltaCursor' = IF pend' # 0 THEN pend' ELSE cursor'
  BY DEF DeltaCursor
<1> QED
  BY <1>1, <1>2

\* A consumer that throws leaves nothing to be skipped.
LEMMA ThrowKeepsOrder ==
  ASSUME IInv, OrderInv, cons # "off", FlushIgnoredDeltas, ConsumerThrows, gap' = {},
         UNCHANGED <<head, bf, at, atTodo, atUpto>>
  PROVE  OrderInv'
<1>1. RowsInOrder'
  BY FlushInOrder DEF IInv, OrderInv
<1>2. at = "off" /\ bf = "off" /\ cons' = "probe" /\ chan' = {}
  BY DEF OrderInv, ConsumerThrows
<1> QED
  BY <1>1, <1>2 DEF OrderInv, NothingIsSkipped, ReplayIsNew

\* The steps of the live consumer.
LEMMA ConsumerKeepsOrder ==
  ASSUME OrderedStream, EvidencePrecedes, IInv, OrderInv, IInv',
         ConsumerStep \/ ConsumerBusyRetry \/ ConsumerFails
  PROVE  OrderInv'
<1>0. /\ MaxSeq \in Nat \ {0} /\ DeltaCursor \in 0..MaxSeq /\ head \in 0..MaxSeq
      /\ atUpto \in 0..MaxSeq /\ cursor \in 0..MaxSeq /\ consSeq \in 0..MaxSeq
      /\ cursor <= DeltaCursor /\ MapperInv /\ RowsInOrder /\ gap = {} /\ bf = "off"
      /\ DeltaCursor' \in 0..MaxSeq /\ cursor' \in 0..MaxSeq /\ cursor' <= DeltaCursor'
  BY MapperAssumption, FrontIsFlushed, FrontTypedNext DEF IInv, TypeOK, MapperTypeOK, OrderInv
<1>a. cons # "off" => at = "off"
  BY DEF OrderInv
<1> USE DEF ReplayIsNew
<1>1. ASSUME NEW s \in Seqs, ConsumeDelta(s) PROVE OrderInv'
  <2>1. s <= DeltaCursor + 1
    BY <1>1, OfferedIsDue DEF ConsumeDelta, Offered
  <2>2. ~DeltaRefused(s)
    BY <2>1, <1>0 DEF DeltaRefused, Seqs
  <2>3. /\ IgnoreRawDelta(s) /\ chan' = chan \ {s} /\ cons = "idle"
        /\ UNCHANGED <<cons, consSeq, head, gap, bf, at, atTodo, atUpto>>
    BY <1>1, <2>2 DEF ConsumeDelta, brokerVars, gapVars, attachVars
  <2>4. RowsInOrder' /\ DeltaCursor' >= DeltaCursor /\ DeltaCursor' >= s /\ cursor' = cursor
    BY <1>0, <2>1, <2>3, DeltaInOrder
  <2>5. NothingIsSkipped'
    <3>0. /\ DeltaCursor \in Int /\ DeltaCursor' \in Int /\ DeltaCursor' >= DeltaCursor
          /\ head \in Int /\ s \in Int /\ DeltaCursor' >= s
      BY <1>0, <2>4 DEF Seqs
    <3>1. /\ (DeltaCursor' + 1)..head \subseteq (DeltaCursor + 1)..head
          /\ s \notin (DeltaCursor' + 1)..head
      BY <3>0, LessToCome
    <3> QED
      BY <1>0, <1>a, <2>3, <3>1 DEF OrderInv, NothingIsSkipped
  <2> QED
    BY <1>0, <1>a, <2>3, <2>4, <2>5 DEF OrderInv
<1>2. ASSUME NEW s \in Seqs, ConsumeSemantic(s) PROVE OrderInv'
  <2>1. s <= DeltaCursor + 1 /\ ~IsDelta(s)
    BY <1>2, OfferedIsDue DEF ConsumeSemantic, Offered
  <2>2. /\ cons = "idle" /\ gap' = {} /\ UNCHANGED <<head, bf, at, atTodo, atUpto>>
    BY <1>0, <1>2, <2>1, NothingIsMissing DEF ConsumeSemantic, brokerVars, attachVars
  <2>c. CASE FlushIgnoredDeltas /\ ConsumerThrows
    BY <1>0, <1>a, <2>2, <2>c, ThrowKeepsOrder
  <2>d. SUFFICES ASSUME ApplySemantic(s), chan' = chan \ {s}, cons' = "ack", consSeq' = s
                 PROVE  OrderInv'
    BY <1>2, <2>c, Zenon DEF ConsumeSemantic
  <2>3. /\ ApplySemantic(s) /\ chan' = chan \ {s} /\ cons = "idle" /\ cons' = "ack" /\ consSeq' = s
        /\ UNCHANGED <<head, bf, at, atTodo, atUpto>>
    BY <2>2, <2>d
  <2>4. RowsInOrder' /\ DeltaCursor' >= DeltaCursor /\ cursor' >= s /\ DeltaCursor' = cursor'
    BY <1>0, <2>1, <2>3, ApplyInOrder
  <2>5. NothingIsSkipped'
    <3>0. /\ DeltaCursor \in Int /\ DeltaCursor' \in Int /\ DeltaCursor' >= DeltaCursor
          /\ head \in Int /\ s \in Int /\ DeltaCursor' >= s
      BY <1>0, <2>4 DEF Seqs
    <3>1. /\ (DeltaCursor' + 1)..head \subseteq (DeltaCursor + 1)..head
          /\ s \notin (DeltaCursor' + 1)..head
      BY <3>0, LessToCome
    <3> QED
      BY <1>0, <1>a, <2>3, <3>1 DEF OrderInv, NothingIsSkipped
  <2> QED
    BY <1>0, <1>a, <2>2, <2>3, <2>4, <2>5 DEF OrderInv
<1>3. CASE ConsumerAck
  <2>1. /\ cons = "ack" /\ cons' = "after"
        /\ UNCHANGED <<cursor, disp, mirror, pend, head, chan, consSeq, gap, bf, at, atTodo, atUpto>>
    BY <1>3 DEF ConsumerAck, mapperVars, gapVars, attachVars
  <2> QED
    BY <2>1, <1>a DEF OrderInv, RowsInOrder, NothingIsSkipped, DeltaCursor
<1>4. CASE ConsumerAfter
  <2>1. /\ cons = "after" /\ cons' = "idle" /\ FlushGapBackfill(consSeq, disp)
        /\ UNCHANGED <<cursor, disp, mirror, pend, head, chan, at, atTodo, atUpto>>
    BY <1>4 DEF ConsumerAfter, mapperVars, brokerVars, attachVars
  <2>2. gap' = {} /\ bf' = "off"
    BY <1>0, <2>1, FlushStartsNothing
  <2> QED
    BY <2>1, <2>2, <1>a DEF OrderInv, RowsInOrder, NothingIsSkipped, DeltaCursor
<1>5. CASE ConsumerBusyRetry
  <2>1. consSeq \in Seqs /\ ~IsDelta(consSeq) /\ cons = "after"
    BY <1>5 DEF ConsumerBusyRetry, IInv, ConsumerHoldsSemantic, IsDelta
  <2>2. consSeq <= cursor /\ consSeq <= DeltaCursor + 1
    BY <1>0, <2>1 DEF OrderInv, Seqs
  <2>3. gap' = {} /\ UNCHANGED <<head, bf, at, atTodo, atUpto>>
    BY <1>0, <1>5, <2>1, <2>2, NothingIsMissing DEF ConsumerBusyRetry, brokerVars, attachVars
  <2>c. CASE FlushIgnoredDeltas /\ ConsumerThrows
    BY <1>0, <1>a, <2>1, <2>3, <2>c, ThrowKeepsOrder
  <2>d. SUFFICES ASSUME ApplySemantic(consSeq), cons' = "ack", UNCHANGED <<chan, consSeq>>
                 PROVE  OrderInv'
    BY <1>5, <2>c, Zenon DEF ConsumerBusyRetry
  <2>4. /\ ApplySemantic(consSeq) /\ cons' = "ack"
        /\ UNCHANGED <<head, chan, consSeq, bf, at, atTodo, atUpto>>
    BY <2>3, <2>d
  <2>5. RowsInOrder' /\ DeltaCursor' >= DeltaCursor /\ cursor' >= consSeq
    BY <1>0, <2>1, <2>2, <2>4, ApplyInOrder
  <2>7. NothingIsSkipped'
    <3>0. /\ DeltaCursor \in Int /\ DeltaCursor' \in Int /\ DeltaCursor' >= DeltaCursor
          /\ head \in Int
      BY <1>0, <2>5
    <3>1. (DeltaCursor' + 1)..head \subseteq (DeltaCursor + 1)..head
      BY <3>0, LessToCome
    <3> QED
      BY <1>0, <1>a, <2>1, <2>4, <3>1 DEF OrderInv, NothingIsSkipped
  <2> QED
    BY <1>0, <1>a, <2>1, <2>3, <2>4, <2>5, <2>7 DEF OrderInv
<1>6. CASE ConsumerFails
  <2>1. /\ cons \in {"ack", "after", "endack"} /\ cons' = "probe" /\ chan' = {}
        /\ UNCHANGED <<cursor, disp, mirror, pend, head, gap, bf, at, atTodo, atUpto>>
    BY <1>6 DEF ConsumerFails, ConsumerThrows, mapperVars, brokerVars, gapVars, attachVars
  <2> QED
    BY <2>1, <1>a DEF OrderInv, RowsInOrder, NothingIsSkipped
<1>7. CASE StreamEnds
  <2>1. /\ FlushIgnoredDeltas /\ cons = "idle" /\ cons' = "endack" /\ chan' = {}
        /\ UNCHANGED <<head, gap, bf, at, atTodo, atUpto>>
    BY <1>7 DEF StreamEnds, brokerVars, gapVars, attachVars
  <2>2. RowsInOrder'
    BY <1>0, <2>1, FlushInOrder
  <2> QED
    BY <2>1, <2>2, <1>a DEF OrderInv, NothingIsSkipped
<1>8. CASE ConsumerEndAck
  <2>1. /\ cons = "endack" /\ cons' = "off"
        /\ UNCHANGED <<cursor, disp, mirror, pend, head, chan, gap, bf, at, atTodo, atUpto>>
    BY <1>8 DEF ConsumerEndAck, mapperVars, gapVars, attachVars
  <2> QED
    BY <2>1, <1>a DEF OrderInv, RowsInOrder, NothingIsSkipped
<1>9. CASE ConsumerProbed
  <2>1. /\ cons = "probe" /\ cons' = "off"
        /\ UNCHANGED <<cursor, disp, mirror, pend, head, chan, gap, bf, at, atTodo, atUpto>>
    BY <1>9 DEF ConsumerProbed, mapperVars, brokerVars, gapVars, attachVars
  <2> QED
    BY <2>1, <1>a DEF OrderInv, RowsInOrder, NothingIsSkipped
<1> QED
  BY <1>1, <1>2, <1>3, <1>4, <1>5, <1>6, <1>7, <1>8, <1>9 DEF ConsumerStep, Consume

\* The steps of the attach and its replay.
LEMMA AttachKeepsOrder ==
  ASSUME OrderedStream, EvidencePrecedes, IInv, OrderInv,
         AttachBegin \/ AttachStep \/ AttachFails
  PROVE  OrderInv'
<1>0. /\ MaxSeq \in Nat \ {0} /\ DeltaCursor \in 0..MaxSeq /\ head \in 0..MaxSeq
      /\ atUpto \in 0..MaxSeq /\ cursor \in 0..MaxSeq /\ atBase \in 0..MaxSeq
      /\ cursor <= DeltaCursor /\ MapperInv /\ RowsInOrder /\ gap = {} /\ bf = "off"
      /\ chan \subseteq 1..head /\ atTodo \subseteq Seqs
  BY MapperAssumption, FrontIsFlushed DEF IInv, TypeOK, MapperTypeOK, OrderInv, NothingIsSkipped
<1>a. at # "off" => cons = "off"
  BY DEF OrderInv
<1> USE DEF ReplayIsNew
<1>s. ASSUME at' = "off", chan' \subseteq chan, cons' = "off" \/ UNCHANGED cons, at # "off",
             UNCHANGED <<cursor, disp, mirror, head, gap, bf>>
      PROVE  OrderInv'
  BY <1>0, <1>a, <1>s DEF OrderInv, RowsInOrder, NothingIsSkipped
<1>1. CASE AttachBegin
  <2>1. /\ at = "off" /\ cons = "off" /\ at' = "snapshot" /\ atBase' = cursor
        /\ UNCHANGED <<cursor, disp, mirror, head, chan, cons, gap, bf>>
    BY <1>1 DEF AttachBegin, mapperVars, brokerVars, consVars, gapVars
  <2> QED
    BY <1>0, <2>1 DEF OrderInv, RowsInOrder, NothingIsSkipped
<1>2. CASE AttachSnapshot
  <2>0. at = "snapshot" /\ UNCHANGED <<cursor, disp, mirror, head, chan, cons, gap, bf>>
    BY <1>2 DEF AttachSnapshot, mapperVars, brokerVars, consVars, gapVars
  <2>1. \/ at' = "off"
        \/ at' = "fetch" /\ atBase' = atBase
    BY <1>2 DEF AttachSnapshot, ReplayStale, AttachStops
  <2>2. CASE at' = "off"
    BY <2>0, <2>2, <1>s
  <2>3. CASE at' = "fetch" /\ atBase' = atBase
    <3>1. ReplayIsNew'
      BY <2>0, <2>3 DEF OrderInv
    <3> QED
      BY <1>0, <1>a, <2>0, <2>3, <3>1 DEF OrderInv, RowsInOrder, NothingIsSkipped
  <2> QED
    BY <2>1, <2>2, <2>3
<1>3. CASE AttachFetch
  <2>1. /\ at = "fetch"
        /\ UNCHANGED <<cursor, disp, mirror, pend, head, chan, cons, gap, bf>>
    BY <1>3 DEF AttachFetch, mapperVars, brokerVars, consVars, gapVars
  <2>2. \/ at' = "off"
        \/ at' = "apply" /\ atTodo' = (atBase + 1)..head /\ atUpto' = head
    BY <1>3 DEF AttachFetch, ReplayStale, AttachStops
  <2>3. atBase = cursor
    BY <2>1 DEF OrderInv
  <2>4. CASE at' = "off"
    BY <1>0, <1>a, <2>1, <2>4 DEF OrderInv, RowsInOrder, NothingIsSkipped
  <2>5. CASE at' = "apply" /\ atTodo' = (atBase + 1)..head /\ atUpto' = head
    <3>1. NothingIsSkipped'
      <4>1. DeltaCursor' = DeltaCursor
        BY <2>1 DEF DeltaCursor
      <4>2. atTodo' \subseteq 1..atUpto'
        BY <1>0, <2>5
      <4>3. (DeltaCursor + 1)..head \subseteq (atBase + 1)..head
        BY <1>0, <2>3
      <4>4. (head + 1)..head = {}
        BY <1>0
      <4> QED
        BY <1>0, <1>a, <2>1, <2>5, <4>1, <4>2, <4>3, <4>4 DEF NothingIsSkipped
    <3>2. \A k \in (atBase + 1)..head : k > cursor
      BY <1>0, <2>3
    <3> QED
      BY <1>0, <1>a, <2>1, <2>5, <3>1, <3>2 DEF OrderInv, RowsInOrder
  <2> QED
    BY <2>2, <2>4, <2>5
<1>4. CASE AttachApply
  <2>0. /\ at = "apply" /\ cons = "off" /\ UNCHANGED <<head, chan, cons, consSeq>>
        /\ atUpto <= head /\ atTodo \subseteq 1..atUpto
        /\ (DeltaCursor + 1)..atUpto \subseteq atTodo /\ (atUpto + 1)..head \subseteq chan
    BY <1>4, <1>a DEF AttachApply, brokerVars, consVars, OrderInv, NothingIsSkipped
  <2>1. PICK s \in atTodo :
       /\ First(atTodo, s)
       /\ \/ IsDelta(s) /\ IgnoreRawDelta(s)
             /\ atTodo' = atTodo \ {s}
             /\ UNCHANGED <<status, client, gapVars, at, atBase, atExited, atUpto>>
          \/ ~IsDelta(s) /\ ApplySemantic(s)
             /\ FlushGapBackfill(s, disp') /\ MarkInvocationTerminal(s)
             /\ atTodo' = atTodo \ {s}
             /\ UNCHANGED <<at, atBase, atExited, atUpto>>
          \/ MapperThrows(s)
             /\ ReplayStale /\ UNCHANGED <<mapperVars, client, gapVars>>
    BY <1>4, Zenon DEF AttachApply
  <2>2. s \in Seqs /\ s <= DeltaCursor + 1
    <3>1. s \in Seqs
      BY <1>0
    <3> QED
      BY <2>0, <2>1, <3>1, OfferedIsDue DEF Offered
  <2>n. \A k \in atTodo : (IsDelta(k) \/ k > cursor) /\ k \in Seqs /\ s <= k
    BY <1>0, <2>0, <2>1 DEF OrderInv, First
  <2>3. ASSUME RowsInOrder', DeltaCursor' >= DeltaCursor, DeltaCursor' >= s, DeltaCursor' \in Int,
               atTodo' = atTodo \ {s}, gap' = {}, bf' = "off", UNCHANGED <<at, atUpto>>,
               cursor' = cursor \/ cursor' = s
        PROVE  OrderInv'
    <3>1. NothingIsSkipped'
      <4>0. /\ DeltaCursor \in Int /\ DeltaCursor' \in Int /\ DeltaCursor' >= DeltaCursor
            /\ atUpto \in Int /\ s \in Int /\ DeltaCursor' >= s
        BY <1>0, <2>2, <2>3 DEF Seqs
      <4>1. /\ (DeltaCursor' + 1)..atUpto \subseteq (DeltaCursor + 1)..atUpto
            /\ s \notin (DeltaCursor' + 1)..atUpto
        BY <4>0, LessToCome
      <4> QED
        BY <1>0, <2>0, <2>3, <4>1 DEF NothingIsSkipped
    <3>2. ReplayIsNew'
      <4>1. \A k \in atTodo' : IsDelta(k) \/ k > cursor'
        BY <1>0, <2>2, <2>3, <2>n DEF Seqs
      <4> QED
        BY <2>0, <2>3, <4>1 DEF IsDelta
    <3> QED
      BY <2>0, <2>3, <3>1, <3>2 DEF OrderInv
  <2>4. CASE IsDelta(s) /\ IgnoreRawDelta(s) /\ atTodo' = atTodo \ {s}
             /\ UNCHANGED <<gapVars, at, atUpto>>
    <3>1. RowsInOrder' /\ DeltaCursor' >= DeltaCursor /\ DeltaCursor' >= s /\ cursor' = cursor
      BY <1>0, <2>2, <2>4, DeltaInOrder
    <3>2. DeltaCursor' \in Int
      BY <1>0, <2>2, <2>4 DEF IgnoreRawDelta, DeltaCursor, MapperInv, MapperTypeOK, Seqs
    <3> QED
      BY <1>0, <2>3, <2>4, <3>1, <3>2 DEF gapVars
  <2>5. CASE ~IsDelta(s) /\ ApplySemantic(s) /\ FlushGapBackfill(s, disp')
             /\ atTodo' = atTodo \ {s} /\ UNCHANGED <<at, atUpto>>
    <3>0. s > cursor
      BY <2>1, <2>5, <2>n
    <3>1. /\ RowsInOrder' /\ DeltaCursor' >= DeltaCursor /\ cursor' >= s /\ DeltaCursor' = cursor'
          /\ cursor' = s
      BY <1>0, <2>2, <2>5, <3>0, ApplyInOrder
    <3>2. cursor' \in Int
      BY <1>0, <2>2, <2>5, ApplyPreserves DEF MapperInv, MapperTypeOK
    <3>3. gap' = {} /\ bf' = "off"
      BY <1>0, <2>5, FlushStartsNothing
    <3> QED
      BY <2>3, <2>5, <3>1, <3>2, <3>3
  <2>6. CASE ReplayStale /\ UNCHANGED <<mapperVars, gapVars>>
    <3>1. at' = "off" /\ UNCHANGED <<cursor, disp, mirror, gap, bf>>
      BY <2>6 DEF ReplayStale, AttachStops, mapperVars, gapVars
    <3> QED
      BY <2>0, <3>1, <1>s
  <2> QED
    BY <2>1, <2>4, <2>5, <2>6, Zenon
<1>5. CASE AttachFlush
  <2>1. /\ at = "apply" /\ at' = "ack" /\ FlushIgnoredDeltas
        /\ UNCHANGED <<head, chan, cons, consSeq, gap, bf, atTodo, atUpto>>
    BY <1>5 DEF AttachFlush, brokerVars, consVars, gapVars
  <2>2. RowsInOrder' /\ DeltaCursor' = DeltaCursor
    BY <1>0, <2>1, FlushInOrder
  <2> QED
    BY <1>a, <2>1, <2>2 DEF OrderInv, NothingIsSkipped
<1>6. CASE AttachAck
  <2>1. /\ at = "ack" /\ at' = "prove"
        /\ UNCHANGED <<cursor, disp, mirror, pend, head, chan, cons, consSeq, gap, bf, atTodo, atUpto>>
    BY <1>6 DEF AttachAck, mapperVars, consVars, gapVars
  <2> QED
    BY <1>a, <2>1 DEF OrderInv, RowsInOrder, NothingIsSkipped, DeltaCursor
<1>7. CASE AttachPublish
  <2>1. /\ at = "prove" /\ at' = "off" /\ cons' = "idle"
        /\ UNCHANGED <<cursor, disp, mirror, pend, head, chan, gap, bf>>
    BY <1>7 DEF AttachPublish, AttachStops, mapperVars, brokerVars, gapVars
  <2>2. /\ atTodo = {} /\ (DeltaCursor + 1)..atUpto \subseteq atTodo
        /\ (atUpto + 1)..head \subseteq chan
    BY <2>1 DEF IInv, ReplaySettles, OrderInv, NothingIsSkipped
  <2>3. (DeltaCursor + 1)..head \subseteq chan
    BY <1>0, <2>2
  <2>4. DeltaCursor' = DeltaCursor
    BY <2>1 DEF DeltaCursor
  <2> QED
    BY <1>0, <2>1, <2>3, <2>4 DEF OrderInv, RowsInOrder, NothingIsSkipped
<1>8. CASE AttachFails
  <2>1. /\ at' = "off" /\ chan' = {} /\ at # "off"
        /\ UNCHANGED <<cursor, disp, mirror, head, cons, gap, bf>>
    BY <1>8 DEF AttachFails, AttachStops, mapperVars, brokerVars, gapVars
  <2> QED
    BY <2>1, <1>s
<1> QED
  BY <1>1, <1>2, <1>3, <1>4, <1>5, <1>6, <1>7, <1>8 DEF AttachStep

\* A fresh invocation, or a migrated one, starts in order.
LEMMA InitOrderInv == Init => OrderInv
<1> SUFFICES ASSUME Init PROVE OrderInv
  OBVIOUS
<1>0. MaxSeq \in Nat \ {0} /\ Migrated \in 0..MaxSeq
  BY MapperAssumption
<1>1. /\ cursor \in 0..MaxSeq /\ cursor <= Migrated /\ pend = 0
      /\ disp = [s \in Seqs |-> "none"]
      /\ mirror = [s \in Seqs |-> IF s <= Migrated /\ ~IsDelta(s) THEN "owned" ELSE "absent"]
  BY <1>0 DEF Init, MapperInit
<1>2. RowsInOrder
  <2> SUFFICES ASSUME NEW s \in Seqs
               PROVE  /\ disp[s] = "none" /\ mirror[s] # "unowned"
                      /\ (s <= cursor /\ ~IsDelta(s)) => mirror[s] # "absent"
                      /\ mirror[s] # "absent" => s <= Migrated
    BY DEF RowsInOrder
  <2>1. CASE s <= Migrated /\ ~IsDelta(s)
    BY <1>1, <2>1
  <2>2. CASE ~(s <= Migrated /\ ~IsDelta(s))
    BY <1>0, <1>1, <2>2 DEF Seqs
  <2> QED
    BY <2>1, <2>2
<1>3. NothingIsSkipped
  <2>1. at = "off" /\ chan = {} /\ head = Migrated /\ (cons = "idle" => Migrated = 0)
        /\ cons \in {"idle", "off"}
    BY DEF Init
  <2>2. CASE Migrated = 0
    <3>1. DeltaCursor = 0 /\ head = 0
      BY <1>0, <1>1, <2>1, <2>2 DEF DeltaCursor
    <3>2. (DeltaCursor + 1)..head = {}
      BY <3>1
    <3> QED
      BY <2>1, <3>2 DEF NothingIsSkipped
  <2>3. CASE Migrated # 0
    BY <2>1, <2>3 DEF NothingIsSkipped
  <2> QED
    BY <2>2, <2>3
<1> QED
  BY <1>2, <1>3 DEF Init, OrderInv, ReplayIsNew

\* OrderInv is inductive beside IInv.
LEMMA NextOrderInv ==
  ASSUME OrderedStream, EvidencePrecedes, IInv, OrderInv, [Next]_vars
  PROVE  OrderInv'
<1>0. /\ MaxSeq \in Nat \ {0} /\ head \in 0..MaxSeq /\ atUpto \in 0..MaxSeq
      /\ gap = {} /\ bf = "off" /\ IInv'
  BY MapperAssumption, NextIInv DEF IInv, TypeOK, OrderInv
<1>1. CASE ConsumerStep \/ ConsumerBusyRetry \/ ConsumerFails
  BY <1>0, <1>1, ConsumerKeepsOrder
<1>2. CASE AttachBegin \/ AttachStep \/ AttachFails
  BY <1>2, AttachKeepsOrder
<1>3. CASE BrokerAppend
  <2>1. /\ head' = head + 1
        /\ chan' = IF cons \notin {"off", "probe"} \/ at # "off" THEN chan \cup {head + 1} ELSE chan
        /\ UNCHANGED <<cursor, disp, mirror, pend, cons, consSeq, gap, bf, at, atBase, atTodo, atUpto>>
    BY <1>3 DEF BrokerAppend, mapperVars, gapVars, attachVars
  <2>2. DeltaCursor' = DeltaCursor
    BY <2>1 DEF DeltaCursor
  <2>3. \A n \in 0..MaxSeq : (n + 1)..(head + 1) \subseteq ((n + 1)..head) \cup {head + 1}
    BY <1>0
  <2>4. DeltaCursor \in 0..MaxSeq
    BY FrontIsFlushed DEF IInv
  <2>5. 1..head \subseteq 1..(head + 1) /\ head + 1 \in 1..(head + 1)
    BY <1>0
  <2>6. (DeltaCursor + 1)..(head + 1) \subseteq ((DeltaCursor + 1)..head) \cup {head + 1}
    BY <2>3, <2>4
  <2>7. (atUpto + 1)..(head + 1) \subseteq ((atUpto + 1)..head) \cup {head + 1}
    BY <1>0, <2>3
  <2>8. NothingIsSkipped'
    BY <1>0, <2>1, <2>2, <2>5, <2>6, <2>7 DEF OrderInv, NothingIsSkipped
  <2> QED
    BY <2>1, <2>8 DEF OrderInv, RowsInOrder, ReplayIsNew, attachVars, mapperVars
<1>4. CASE BrokerPrune \/ BrokerClose \/ UNCHANGED vars \/ Fence
  <2>1. UNCHANGED <<cursor, disp, mirror, pend, head, chan, cons, consSeq, gap, bf, at, atBase, atTodo,
                    atUpto>>
    BY <1>4 DEF BrokerPrune, BrokerClose, Fence, FenceBrokerInput, vars, mapperVars, brokerVars,
                consVars, gapVars, attachVars
  <2> QED
    BY <2>1 DEF OrderInv, RowsInOrder, NothingIsSkipped, DeltaCursor, ReplayIsNew, IsDelta
<1>5. CASE Crash
  <2>1. /\ cons' = "off" /\ at' = "off" /\ bf' = "off" /\ gap' = {} /\ chan' = {}
        /\ UNCHANGED <<cursor, disp, mirror>>
    BY <1>5 DEF Crash, AttachStops, BackfillStops
  <2> QED
    BY <2>1 DEF OrderInv, RowsInOrder, NothingIsSkipped, ReplayIsNew
<1>6. ~LoseLive
  BY DEF LoseLive, Fault, OrderedStream
<1>7. ~GapTimerFires /\ ~BackfillStep /\ ~BackfillFails
  BY <1>0 DEF GapTimerFires, BackfillStep, BackfillFetch, BackfillApply, BackfillAck, BackfillFlush,
              BackfillEndAck, BackfillFails
<1> QED
  BY <1>1, <1>2, <1>3, <1>4, <1>5, <1>6, <1>7 DEF Next, FaultStep

\* Both invariants hold together when the stream neither loses nor reorders.
LEMMA OrderIsInvariant ==
  ASSUME OrderedStream, EvidencePrecedes
  PROVE  Spec => [](IInv /\ OrderInv)
<1>1. Init => IInv /\ OrderInv
  BY InitIInv, InitOrderInv
<1>2. IInv /\ OrderInv /\ [Next]_vars => (IInv /\ OrderInv)'
  BY NextIInv, NextOrderInv
<1> QED
  BY <1>1, <1>2, PTL DEF Spec

\* A live stream that arrives whole and in order never shows a gap, no raw delta of it is
\* refused, and a live event, a busy retry or a replay can only conflict with the row left
\* before where the run is inferred from rows that changed since, crashes and discarded
\* history included.
THEOREM OrderedStreamNeedsNoRepair ==
  ASSUME OrderedStream, EvidencePrecedes
  PROVE  Spec => []OrderedStreamIsClean
<1>1. IInv /\ OrderInv => OrderedStreamIsClean
  <2> SUFFICES ASSUME IInv, OrderInv
               PROVE  /\ gap = {}
                      /\ \A s \in Seqs : Offered(s) /\ MapperThrows(s) => s \in Inferred \ DeltaSeqs
    BY DEF OrderedStreamIsClean
  <2>1. ASSUME NEW s \in Seqs, Offered(s), MapperThrows(s) PROVE s \in Inferred \ DeltaSeqs
    <3>1. s <= DeltaCursor + 1
      BY <2>1, OfferedIsDue
    <3> QED
      BY <2>1, <3>1, InOrderIsAttributed DEF IInv, OrderInv, IsDelta
  <2> QED
    BY <2>1 DEF OrderInv
<1> QED
  BY <1>1, OrderIsInvariant, PTL

\* What the configurations beside the runs show violated after a loss holds without one: a
\* raw delta gap is real, and a replay never conflicts, however the rows change from which
\* runs are inferred, because it brings only what was never stored; the one row that can
\* lie beyond the cursor it starts from was mapped before dispositions existed.
THEOREM OrderedReplayIsFaithful ==
  ASSUME OrderedStream, EvidencePrecedes, Inferred \cap 1..Migrated = {}
  PROVE  Spec => [](RefusedDeltaIsARealGap /\ ReplayNeverConflicts)
<1>1. IInv /\ OrderInv => RefusedDeltaIsARealGap /\ ReplayNeverConflicts
  <2> SUFFICES ASSUME IInv, OrderInv PROVE RefusedDeltaIsARealGap /\ ReplayNeverConflicts
    OBVIOUS
  <2>0. MaxSeq \in Nat \ {0} /\ Migrated \in 0..MaxSeq /\ cursor \in 0..MaxSeq /\ atTodo \subseteq Seqs
    BY MapperAssumption DEF IInv, TypeOK, MapperTypeOK
  <2>1. ASSUME NEW s \in Seqs, Offered(s), MapperThrows(s) PROVE s \in Inferred /\ ~IsDelta(s)
    <3>1. s <= DeltaCursor + 1
      BY <2>1, OfferedIsDue
    <3> QED
      BY <2>1, <3>1, InOrderIsAttributed DEF IInv, OrderInv
  <2>2. RefusedDeltaIsARealGap
    <3>1. \A s \in DeltaSeqs : s \in Seqs /\ IsDelta(s)
      BY MapperAssumption DEF IsDelta
    <3> QED
      BY <2>1, <3>1 DEF RefusedDeltaIsARealGap, Offered, MapperThrows
  <2>3. ASSUME at = "apply", NEW s \in atTodo \ DeltaSeqs, First(atTodo, s), MayConflict(s)
        PROVE  FALSE
    <3>1. s \in Seqs /\ ~IsDelta(s) /\ s > cursor
      BY <2>0, <2>3 DEF OrderInv, ReplayIsNew, IsDelta
    <3>2. s \in Inferred
      BY <2>1, <2>3, <3>1 DEF Offered, MapperThrows
    <3>3. s <= Migrated
      BY <2>0, <2>3, <3>1 DEF MayConflict, AppendConflicts, OrderInv, RowsInOrder, Seqs
    <3> QED
      BY <2>0, <3>1, <3>2, <3>3 DEF Seqs
  <2> QED
    BY <2>2, <2>3 DEF ReplayNeverConflicts
<1> QED
  BY <1>1, OrderIsInvariant, PTL
=============================================================================
