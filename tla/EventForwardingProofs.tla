------------------------- MODULE EventForwardingProofs -------------------------
(***************************************************************************)
(* What forwarding promises for feeds, batches and blobs of any size, any  *)
(* choice of foreign, oversized and spilled rows, and any number of faults *)
(* of every kind: the durable cursors skip nothing, no row the receiver    *)
(* could still take is parked, imported rows are announced at most once,   *)
(* and the whole implements Outbox.                                        *)
(***************************************************************************)
EXTENDS EventForwarding, FiniteSetTheorems, TLAPS

----------------------------------------------------------------------------
(* The inductive invariant.                                                *)

\* Rows and cursors lie within what the ledger ever held.
InLedger ==
  /\ rows \subseteq Appended /\ held \subseteq Appended
  /\ \A f \in Feeds : disk[f] <= last[f] /\ cur[f] <= last[f]

\* No cursor, durable or in memory, has passed a row of the ledger that is not settled.
RowsSettled(cursors) ==
  \A r \in rows : r[2] <= cursors[r[1]] => r \in held \/ r \in cursors.dead

\* The page of a feed is what follows the cursor, without gaps.
FeedPage ==
  stage \in Feeds =>
    /\ \A n \in todo : n \in Seqs /\ <<stage, n>> \in Appended /\ cur[stage] < n
    /\ \A r \in rows, m \in todo :
         r[1] = stage /\ cur[stage] < r[2] /\ r[2] <= m => r[2] \in todo

\* The request that is waited for is the head of the page.
WireFits ==
  pc = "wait" =>
    /\ wire.feed = stage /\ stage # "idle"
    /\ stage \in Feeds =>
         /\ wire.through \in wire.items
         /\ wire.items = {n \in todo : n <= wire.through}
         /\ \A n \in wire.items : Version(stage, n) = wire.version
    /\ stage = "blobs" =>
         /\ wire.items = {part} /\ wire.through = part /\ wire.version = 1
         /\ \E head \in todo : IsFirst(head) /\ wire.blob = page[head]

\* A part that was taken stays until its blob is complete.
Arrived(blob, p) == blob \in stored \/ <<blob, p>> \in staged

\* The answer tells what the receiver did with the request.
AnswerTells ==
  answer # NoAnswer =>
    /\ pc = "wait"
    /\ answer.kind = "ok" =>
         /\ stage \in Feeds => answer.seq = wire.through
                               /\ \A n \in wire.items : <<stage, n>> \in held
         /\ stage = "blobs" => Arrived(wire.blob, part)
    /\ answer.kind = "divergent_duplicate" =>
         /\ stage \in Feeds /\ answer.seq \in wire.items /\ MayDiffer(<<stage, answer.seq>>)
         /\ \A n \in wire.items : n < answer.seq => <<stage, n>> \in held
    /\ answer.kind = "invalid_batch" => ~Admitted(wire)

\* What precedes a row of a request in the ledger is in the request, has arrived, or never will.
InOrderRequest(req) ==
  req.feed \in Feeds =>
    \A n \in req.items :
      /\ <<req.feed, n>> \in Appended
      /\ \A q \in rows \ Undeliverable :
           q[1] = req.feed /\ q[2] < n => q[2] \in req.items \/ q \in held

RequestsInOrder == InOrderRequest(wire) /\ \A req \in late : InOrderRequest(req)

\* A request for a part names one that exists.
PartRequest(req) == req.feed = "blobs" => req.blob \in Spilled /\ req.through \in 0..(Parts - 1)

PartRequests == PartRequest(wire) /\ \A req \in late : PartRequest(req)

\* A complete blob leaves the staging area at once.
StagedIsIncomplete == \A blob \in Spilled : \E p \in 0..(Parts - 1) : <<blob, p>> \notin staged

\* The parts before the current one have arrived.
PartsArrived ==
  stage = "blobs" =>
    /\ todo \subseteq DOMAIN page
    /\ \A head \in todo : IsFirst(head) => \A p \in 0..(part - 1) : Arrived(page[head], p)

\* While no runtime was pruned: the page is what follows the blob cursor, without gaps.
BlobPage ==
  stage = "blobs" /\ rows = Appended =>
    /\ \A i \in todo : i \in DOMAIN blobs /\ page[i] = blobs[i] /\ cur.blobs < i
    /\ \A i \in DOMAIN blobs, j \in todo : cur.blobs < i /\ i <= j => i \in todo

\* While no runtime was pruned: a blob cursor stands at a blob, so that the next rowid lies ahead
\* of it, and has passed no blob that is not settled.
BlobsSettled(cursors) ==
  rows = Appended =>
    /\ cursors.blobs = 0 \/ cursors.blobs \in DOMAIN blobs
    /\ \A i \in DOMAIN blobs :
         i <= cursors.blobs => blobs[i] \in stored \/ <<"blobs", i>> \in cursors.dead

RowidsArePositive == 0 \notin DOMAIN blobs

UnheardIsFinite == IsFiniteSet(Unheard)

IInv ==
  /\ TypeOK /\ InLedger
  /\ RowsSettled(disk) /\ RowsSettled(cur)
  /\ FeedPage /\ WireFits /\ AnswerTells /\ RequestsInOrder /\ PartRequests
  /\ OnlyPoisonIsParked /\ AnnouncedOnce /\ UnheardIsFinite
  /\ StagedIsIncomplete /\ PartsArrived
  /\ RowidsArePositive /\ BlobPage /\ BlobsSettled(disk) /\ BlobsSettled(cur)

----------------------------------------------------------------------------
LEMMA RowFacts ==
  /\ \A f \in Feeds : \A n : <<f, n>> \in Rows <=> n \in 1..MaxRows[f]
  /\ \A r \in Rows : r[1] \in Feeds /\ r = <<r[1], r[2]>> /\ r[2] \in Seqs
  /\ Seqs \subseteq Nat \ {0}
  <1>1. \A f \in Feeds : MaxRows[f] \in Nat
    BY ForwardingAssumption
  <1>2. \A r : r \in Rows <=> \E f \in Feeds : r \in {f} \X (1..MaxRows[f])
    BY DEF Rows
  <1>3. \A n : n \in Seqs <=> \E f \in Feeds : n \in 1..MaxRows[f]
    BY DEF Seqs
  <1>4. \A f \in Feeds : \A n : <<f, n>> \in Rows <=> n \in 1..MaxRows[f]
    BY <1>2
  <1>5. \A r \in Rows : r[1] \in Feeds /\ r = <<r[1], r[2]>> /\ r[2] \in Seqs
    BY <1>2, <1>3
  <1>6. Seqs \subseteq Nat \ {0}
    BY <1>1, <1>3
  <1> QED BY <1>4, <1>5, <1>6

\* A cursor file and a cursor in memory say the same of the tables.
LEMMA SettleMoves ==
  ASSUME cur \in Cursors, stage \in Stages, NEW n, NEW letters, Settle(n, letters)
  PROVE  /\ cur'[stage] = n /\ cur'.dead = cur.dead \cup letters
         /\ \A s \in Stages \ {stage} : cur'[s] = cur[s]
         /\ n \in Nat /\ (stage \in Feeds => n \in Seqs) /\ letters \subseteq Stages \X Nat
              => cur' \in Cursors
  <1>1. /\ cur'[stage] = n /\ cur'.dead = cur.dead \cup letters
        /\ \A s \in Stages \ {stage} : cur'[s] = cur[s]
    BY DEF Settle, Cursors, Stages, Feeds
  <1>2. ASSUME n \in Nat, stage \in Feeds => n \in Seqs, letters \subseteq Stages \X Nat
        PROVE  cur' \in Cursors
    BY <1>2 DEF Settle, Cursors, Stages, Feeds
  <1> QED BY <1>1, <1>2

LEMMA PageIsPrefix ==
  ASSUME NEW s, NEW cursors, Candidates(s, cursors) \subseteq Nat,
         NEW m \in Page(s, cursors), NEW n \in Candidates(s, cursors), n <= m
  PROVE  n \in Page(s, cursors)
  <1> DEFINE below(k) == {j \in Candidates(s, cursors) : j <= k}
  <1>1. below(m) \subseteq 0..m /\ below(n) \subseteq below(m) /\ m \in Nat /\ n \in Nat
    BY DEF Page
  <1>5. Cardinality(below(m)) <= BatchSize
    BY DEF Page
  <1>6. Cardinality(below(n)) <= BatchSize => n \in Page(s, cursors)
    BY DEF Page
  <1> HIDE DEF below
  <1>7. IsFiniteSet(0..m)
    BY <1>1, FS_Interval
  <1>2. IsFiniteSet(below(m))
    BY <1>1, <1>7, FS_Subset
  <1>3. Cardinality(below(n)) <= Cardinality(below(m)) /\ IsFiniteSet(below(n))
    BY <1>1, <1>2, FS_Subset
  <1>4. Cardinality(below(n)) \in Nat /\ Cardinality(below(m)) \in Nat
    BY <1>2, <1>3, FS_CardinalityType
  <1> QED BY <1>3, <1>4, <1>5, <1>6, ForwardingAssumption

----------------------------------------------------------------------------
(* What a request does to the receiver, as a whole, in part, or late.      *)

Ingests(req) ==
  IngestBreaksOff(req) \/ \E kind \in Answers, seq \in Numbers : IngestBatch(req, kind, seq)

\* Nothing is taken back; what is new is a prefix of the request.
Took(req) ==
  /\ held \subseteq held' /\ stored \subseteq stored'
  /\ \A blob \in Spilled, p \in 0..(Parts - 1) : Arrived(blob, p) => Arrived(blob, p)'
  /\ \A r \in held' \ held :
       /\ req.feed \in Feeds
       /\ \E n \in req.items : /\ r = <<req.feed, n>>
                               /\ \A m \in req.items : m < n => <<req.feed, m>> \in held'

\* No row is announced twice, and none that was not imported.
OncePerRow ==
  \A r \in Rows : notified[r] <= 1 /\ (notified[r] = 1 => r \in held /\ Notifies(r))

ReceiverOK ==
  /\ held \subseteq Rows /\ stored \subseteq Spilled /\ staged \subseteq Spilled \X (0..(Parts - 1))
  /\ notified \in [Rows -> Nat]
  /\ OncePerRow /\ StagedIsIncomplete

LEMMA ImportTakesPrefix ==
  ASSUME ReceiverOK, NEW f \in Feeds, NEW all, NEW items \in SUBSET all,
         \A n \in all : <<f, n>> \in Rows,
         \A n \in items, m \in all : m < n => m \in items,
         NEW unheard, Import(f, items, unheard), UNCHANGED <<staged, stored>>
  PROVE  /\ ReceiverOK' /\ held' = held \cup {<<f, n>> : n \in items}
         /\ \A r \in held' \ held : \E n \in all :
              r = <<f, n>> /\ \A m \in all : m < n => <<f, m>> \in held'
  <1>1. held' = held \cup {<<f, n>> : n \in items}
    BY DEF Import
  <1>2. \A r \in Rows :
          \/ notified'[r] = notified[r]
          \/ r \in held' \ held /\ Notifies(r) /\ notified'[r] = notified[r] + 1
    BY <1>1 DEF Import
  <1>3. held' \subseteq Rows /\ notified' \in [Rows -> Nat]
    BY <1>1 DEF Import, ReceiverOK
  <1>4. OncePerRow'
    BY <1>1, <1>2, <1>3 DEF OncePerRow, Notifies, ReceiverOK
  <1>5. ReceiverOK'
    BY <1>3, <1>4 DEF ReceiverOK, StagedIsIncomplete
  <1> QED BY <1>1, <1>5

LEMMA PartIsStaged ==
  ASSUME ReceiverOK, NEW blob \in Spilled, NEW p \in 0..(Parts - 1), IngestPart(blob, p),
         UNCHANGED <<held, notified>>
  PROVE  /\ ReceiverOK' /\ stored \subseteq stored' /\ Arrived(blob, p)'
         /\ \A b \in Spilled, q \in 0..(Parts - 1) : Arrived(b, q) => Arrived(b, q)'
  <1> USE ForwardingAssumption DEF ReceiverOK
  <1> DEFINE parts == staged \cup {<<blob, p>>}
             complete == \A q \in 0..(Parts - 1) : <<blob, q>> \in parts
  <1>1. CASE blob \in stored
    BY <1>1 DEF IngestPart, Arrived, OncePerRow, StagedIsIncomplete
  <1>2. CASE blob \notin stored /\ complete
    <2>1. stored' = stored \cup {blob} /\ staged' = {x \in parts : x[1] # blob}
      BY <1>2 DEF IngestPart
    <2>2. \A b \in Spilled, q \in 0..(Parts - 1) :
            <<b, q>> \in staged' <=> <<b, q>> \in staged /\ b # blob
      BY <2>1
    <2>3. StagedIsIncomplete' /\ staged' \subseteq Spilled \X (0..(Parts - 1))
      BY <2>1, <2>2 DEF StagedIsIncomplete
    <2> QED BY <2>1, <2>2, <2>3 DEF Arrived, OncePerRow
  <1>3. CASE blob \notin stored /\ ~complete
    <2>1. stored' = stored /\ staged' = parts
      BY <1>3 DEF IngestPart
    <2>2. StagedIsIncomplete'
      BY <1>3, <2>1 DEF StagedIsIncomplete
    <2> QED BY <2>1, <2>2 DEF Arrived, OncePerRow
  <1> QED BY <1>1, <1>2, <1>3

\* Whatever becomes of a request, the receiver stays consistent and takes a prefix of it.
LEMMA IngestTakes ==
  ASSUME ReceiverOK, NEW req, InOrderRequest(req), PartRequest(req), Ingests(req)
  PROVE  ReceiverOK' /\ Took(req)
  <1>1. CASE UNCHANGED receiver
    BY <1>1 DEF receiver, ReceiverOK, Took, Arrived, OncePerRow, StagedIsIncomplete
  <1>2. ASSUME req.feed \in Feeds, NEW items \in SUBSET req.items,
               \A n \in items, m \in req.items : m < n => m \in items,
               NEW unheard, Import(req.feed, items, unheard), UNCHANGED <<staged, stored>>
        PROVE  ReceiverOK' /\ Took(req)
    <2>1. \A n \in req.items : <<req.feed, n>> \in Rows
      BY <1>2 DEF InOrderRequest, Appended
    <2> QED BY <1>2, <2>1, ImportTakesPrefix DEF Took, Arrived
  <1>3. ASSUME req.feed \in Feeds PROVE req.items \subseteq Nat
    BY <1>3, RowFacts DEF InOrderRequest, Appended
  <1>4. CASE IngestBreaksOff(req)
    <2>1. SUFFICES ASSUME req.feed \in Feeds, NEW n \in req.items, NEW unheard,
                          Import(req.feed, {m \in req.items : m <= n}, unheard),
                          UNCHANGED <<staged, stored>>
                   PROVE  ReceiverOK' /\ Took(req)
      BY <1>1, <1>4 DEF IngestBreaksOff
    <2>2. \A k \in {m \in req.items : m <= n}, m \in req.items : m < k => m <= n
      BY <1>3, <2>1
    <2> QED BY <1>2, <2>1, <2>2
  <1>5. ASSUME NEW kind \in Answers, NEW seq \in Numbers, IngestBatch(req, kind, seq)
        PROVE  ReceiverOK' /\ Took(req)
    <2>1. CASE req.feed = "blobs" /\ IngestPart(req.blob, req.through) /\ UNCHANGED <<held, notified>>
      BY <2>1, PartIsStaged DEF PartRequest, Took
    <2>2. CASE req.feed \in Feeds /\ Import(req.feed, req.items, {}) /\ UNCHANGED <<staged, stored>>
      BY <2>2, <1>2
    <2>3. CASE /\ req.feed \in Feeds /\ IsConflict(req, seq)
               /\ Import(req.feed, {m \in req.items : m < seq}, {}) /\ UNCHANGED <<staged, stored>>
      <3>1. \A k \in {m \in req.items : m < seq}, m \in req.items : m < k => m < seq
        BY <1>3, <2>3 DEF IsConflict
      <3> QED BY <1>2, <2>3, <3>1
    <2> QED BY <1>1, <1>5, <2>1, <2>2, <2>3 DEF IngestBatch
  <1> QED BY <1>4, <1>5 DEF Ingests

\* An answer tells what was done: everything was taken, or everything before the row it names,
\* or nothing of a version that is not known.
LEMMA AnswerIsTrue ==
  ASSUME ReceiverOK, NEW req, InOrderRequest(req), PartRequest(req),
         NEW kind \in Answers, NEW seq \in Numbers, IngestBatch(req, kind, seq)
  PROVE  /\ kind = "ok" /\ req.feed \in Feeds =>
              seq = req.through /\ \A n \in req.items : <<req.feed, n>> \in held'
         /\ kind = "ok" /\ req.feed = "blobs" /\ Admitted(req) => Arrived(req.blob, req.through)'
         /\ kind = "divergent_duplicate" =>
              /\ req.feed \in Feeds /\ seq \in req.items /\ MayDiffer(<<req.feed, seq>>)'
              /\ \A n \in req.items : n < seq => <<req.feed, n>> \in held'
         /\ kind = "invalid_batch" => ~Admitted(req)
  <1>1. CASE ~Admitted(req) /\ kind = "invalid_batch"
    BY <1>1
  <1>2. CASE req.feed = "blobs" /\ IngestPart(req.blob, req.through) /\ UNCHANGED <<held, notified>>
             /\ kind = "ok"
    BY <1>2, PartIsStaged DEF PartRequest, Feeds
  <1>3. CASE req.feed \in Feeds /\ Import(req.feed, req.items, {}) /\ kind = "ok" /\ seq = req.through
    <2>1. \A n \in req.items : <<req.feed, n>> \in held'
      BY <1>3 DEF Import
    <2> QED BY <1>3, <2>1 DEF Feeds
  <1>4. CASE req.feed \in Feeds /\ IsConflict(req, seq) /\ kind = "divergent_duplicate"
             /\ Import(req.feed, {m \in req.items : m < seq}, {})
    <2>1. \A n \in req.items : n < seq => <<req.feed, n>> \in held'
      BY <1>4 DEF Import
    <2>2. held \subseteq held'
      BY <1>4 DEF Import
    <2> QED BY <1>4, <2>1, <2>2 DEF IsConflict, MayDiffer
  <1> QED BY <1>1, <1>2, <1>3, <1>4 DEF IngestBatch

\* Only the rows whose announcement fails become unheard.
LEMMA ImportIsHeard ==
  ASSUME ReceiverOK, NEW f, NEW items, NEW unheard, Import(f, items, unheard), held' \subseteq Rows
  PROVE  Unheard' \subseteq Unheard \cup unheard
  <1> SUFFICES ASSUME NEW r \in held', Notifies(r), notified'[r] = 0, r \notin unheard
               PROVE  r \in Unheard
    BY DEF Unheard, Notifies
  <1>1. r \in Rows /\ notified[r] \in Nat
    BY DEF ReceiverOK
  <1>2. CASE r \in held
    BY <1>1, <1>2 DEF Import, Unheard
  <1>3. CASE r \notin held
    <2>1. notified'[r] = notified[r] + 1
      BY <1>1, <1>3 DEF Import
    <2> QED BY <1>1, <2>1
  <1> QED BY <1>2, <1>3

\* A request that is applied to its end, or to its conflict, is heard.
LEMMA IngestIsHeard ==
  ASSUME ReceiverOK, held' \subseteq Rows, NEW req, NEW kind, NEW seq, IngestBatch(req, kind, seq)
  PROVE  Unheard' \subseteq Unheard
  <1>1. CASE UNCHANGED <<held, notified>>
    BY <1>1 DEF Unheard, Notifies
  <1>2. ASSUME NEW items, Import(req.feed, items, {}) PROVE Unheard' \subseteq Unheard
    BY <1>2, ImportIsHeard
  <1> QED BY <1>1, <1>2 DEF IngestBatch, receiver

\* A request that breaks off silences one row at most.
LEMMA BreakIsHeard ==
  ASSUME ReceiverOK, held' \subseteq Rows, NEW req, IngestBreaksOff(req)
  PROVE  \E x : Unheard' \subseteq Unheard \cup {x}
  <1>1. CASE UNCHANGED receiver
    BY <1>1 DEF receiver, Unheard, Notifies
  <1>2. ASSUME NEW n, NEW items, NEW unheard \in {{}, {<<req.feed, n>>}}, Import(req.feed, items, unheard)
        PROVE  \E x : Unheard' \subseteq Unheard \cup {x}
    <2>1. Unheard' \subseteq Unheard \cup unheard
      BY <1>2, ImportIsHeard
    <2> QED BY <2>1
  <1> QED BY <1>1, <1>2 DEF IngestBreaksOff

----------------------------------------------------------------------------
(* Every step is one of a few kinds.                                       *)

\* A row is appended, with its blob, or a runtime is pruned.
LedgerMoves ==
  /\ (\E f \in Feeds : AppendRow(f)) \/ (\E r \in rows : PruneRuntime(RuntimeOf[r]))
  /\ UNCHANGED <<disk, cur, stage, batch, pc, wire, answer, late, receiver>>

\* The next page is read.
PageTurns ==
  /\ \E s \in Stages \cup {"idle"} : ReadPage(s, cur')
  /\ pc # "wait"
  /\ \/ cur' \in {cur, disk} /\ disk' = disk
     \/ CursorsUnreadable /\ cur' = InitialCursors /\ disk' \in {disk, InitialCursors}
  /\ UNCHANGED <<ledger, pc, wire, answer, late, receiver>>

\* The next request is made.
Posts == PostBatch \/ PostPart

\* The cursor moves to the row or blob n, and everything before it is settled.
Advances(n, letters) ==
  /\ stage \in Stages /\ n \in todo
  /\ Settle(n, letters) /\ letters \subseteq {<<stage, n>>}
  /\ todo' = {m \in todo : m > n} /\ part' \in {0, part}
  /\ stage \in Feeds =>
       /\ letters \subseteq Undeliverable \cup (Unstable \cap held)
       /\ \A m \in todo : m <= n => <<stage, m>> \in held \cup letters
  /\ stage = "blobs" => /\ part' = 0 /\ IsFirst(n) /\ (page[n] \in stored \/ <<stage, n>> \in letters)
                        /\ letters # {} => page[n] \in HugeBlobs
  /\ pc' = "write" /\ narrow' \in BOOLEAN
  /\ UNCHANGED <<ledger, disk, stage, page, late, receiver>>
  /\ (wire' = wire /\ answer' = answer /\ pc # "wait") \/ (wire' = NoRequest /\ answer' = NoAnswer)

\* A part is acknowledged that is not the last, or a batch is narrowed.
Continues ==
  /\ pc' = "next" /\ narrow' \in BOOLEAN
  /\ \/ part' = part
     \/ stage = "blobs" /\ part' = part + 1 /\ part' < Parts /\ Arrived(wire.blob, part)
                        /\ \E head \in todo : IsFirst(head) /\ wire.blob = page[head]
  /\ wire' = NoRequest /\ answer' = NoAnswer
  /\ UNCHANGED <<ledger, disk, cur, stage, todo, page, late, receiver>>

\* The sweep ends before its end; its request may stay on its way, or be applied in part.
GivesUp ==
  /\ Abandon
  /\ late' \subseteq late \cup {wire}
  /\ UNCHANGED receiver \/ \E req \in late \cup {wire} : Ingests(req)
  /\ UNCHANGED <<ledger, disk>>

\* The receiver answers the request that is waited for, or takes a late one.
Receives ==
  /\ \/ /\ pc = "wait" /\ answer = NoAnswer
        /\ \/ answer'.kind = "retry" /\ answer'.seq = 0 /\ IngestBreaksOff(wire)
           \/ /\ answer'.kind \in Answers /\ answer'.seq \in Numbers
              /\ IngestBatch(wire, answer'.kind, answer'.seq)
        /\ answer' = [kind |-> answer'.kind, seq |-> answer'.seq]
        /\ late' = late
     \/ \E req \in late : Ingests(req) /\ late' = late \ {req} /\ answer' = answer
  /\ UNCHANGED <<ledger, disk, cur, stage, batch, pc, wire>>

\* The head of a set of sequences, up to one of them, and its first element.
LEMMA HeadOfPage ==
  ASSUME NEW S \in SUBSET Nat, NEW t \in S, NEW items, items = {n \in S : n <= t}
  PROVE  /\ t \in items /\ items \subseteq 0..t
         /\ S \ items = {m \in S : m > t}
         /\ \A m \in S, n \in items : m < n => m \in items
         /\ \A m \in S : m <= t => m \in items
  <1>1. t \in Nat /\ \A n \in S : n \in Nat
    OBVIOUS
  <1>2. \A n : n \in items <=> n \in S /\ n <= t
    OBVIOUS
  <1>3. \A n \in Nat : n <= t <=> ~(n > t)
    BY <1>1
  <1>4. S \ items = {m \in S : m > t}
    BY <1>1, <1>2, <1>3
  <1>5. \A m \in Nat, n \in Nat : m < n /\ n <= t => m <= t
    BY <1>1
  <1>6. \A m \in S, n \in items : m < n => m \in items
    BY <1>1, <1>2, <1>5
  <1>7. t <= t /\ \A n \in Nat : n <= t => n \in 0..t
    BY <1>1
  <1>8. t \in items /\ items \subseteq 0..t
    BY <1>1, <1>2, <1>7
  <1> QED BY <1>2, <1>4, <1>6, <1>8

LEMMA FirstOfPage ==
  ASSUME NEW S \in SUBSET Nat, NEW t \in S, \A m \in S : t <= m
  PROVE  S \ {t} = {m \in S : m > t}
  <1>1. t \in Nat /\ \A n \in S : n \in Nat
    OBVIOUS
  <1>2. \A n \in Nat : t <= n => (n > t <=> n # t)
    BY <1>1
  <1> QED BY <1>1, <1>2

\* An acknowledged batch is the head of the page up to the row it names.
LEMMA AckAdvances ==
  ASSUME IInv, BatchAcked
  PROVE  \E n \in todo : Advances(n, {})
  <1> USE DEF IInv
  <1>1. pc = "wait" /\ answer # NoAnswer /\ answer.kind = "ok" /\ stage \in Feeds
        /\ stage \in Stages /\ stage # "blobs"
    BY DEF BatchAcked, Answered, NoAnswer, Stages, Feeds
  <1>2. /\ wire.items = {n \in todo : n <= wire.through} /\ wire.through \in todo
        /\ answer.seq = wire.through /\ \A n \in wire.items : <<stage, n>> \in held
    BY <1>1 DEF WireFits, AnswerTells
  <1>3. todo \subseteq Nat
    BY DEF TypeOK
  <1>4. todo' = {m \in todo : m > wire.through} /\ \A m \in todo : m <= wire.through => m \in wire.items
    BY <1>2, <1>3, HeadOfPage DEF BatchAcked
  <1> QED BY <1>1, <1>2, <1>4 DEF Advances, BatchAcked, Answered, TypeOK

\* The last part completes the first blob of the page, any other lets the sweep go on.
LEMMA PartAdvancesOrContinues ==
  ASSUME IInv, PartAcked
  PROVE  (\E n \in todo : Advances(n, {})) \/ Continues
  <1> USE DEF IInv
  <1>1. /\ pc = "wait" /\ answer # NoAnswer /\ answer.kind = "ok" /\ stage = "blobs"
        /\ stage \in Stages /\ stage \notin Feeds
    BY DEF PartAcked, Answered, NoAnswer, Stages, Feeds
  <1>2. /\ \E head \in todo : IsFirst(head) /\ wire.blob = page[head]
        /\ Arrived(wire.blob, part)
    BY <1>1 DEF WireFits, AnswerTells
  <1>3. todo \subseteq Nat /\ part \in 0..(Parts - 1) /\ narrow \in BOOLEAN
    BY DEF TypeOK
  <1>4. CASE part + 1 < Parts
    BY <1>1, <1>2, <1>3, <1>4 DEF PartAcked, Answered, Continues
  <1>5. CASE ~(part + 1 < Parts)
    <2>1. PICK head \in todo : IsFirst(head) /\ Settle(head, {}) /\ todo' = todo \ {head}
                             /\ part' = 0 /\ pc' = "write"
      BY <1>5 DEF PartAcked
    <2>2. wire.blob = page[head] /\ page[head] \in Spilled
      BY <1>2, <1>3, <2>1, <1>1 DEF IsFirst, PartsArrived, TypeOK
    <2>3. \A p \in 0..(Parts - 1) : Arrived(page[head], p)
      BY <1>1, <1>2, <1>3, <1>5, <2>1, <2>2, ForwardingAssumption DEF PartsArrived
    <2>4. page[head] \in stored
      BY <2>2, <2>3 DEF Arrived, StagedIsIncomplete
    <2>5. todo' = {m \in todo : m > head}
      BY <2>1, <1>3, FirstOfPage DEF IsFirst
    <2> QED BY <1>1, <1>3, <2>1, <2>4, <2>5 DEF Advances, PartAcked, Answered
  <1> QED BY <1>4, <1>5

\* A dead letter is the first row or blob of the page, or follows rows that have arrived.
LEMMA DeadLetterAdvances ==
  ASSUME IInv, NEW n \in todo, stage \in Stages, DeadLetter(n),
         stage \in Feeds => /\ <<stage, n>> \in Undeliverable \cup (Unstable \cap held)
                           /\ \A m \in todo : m < n => <<stage, m>> \in held,
         stage = "blobs" => IsFirst(n) /\ page[n] \in HugeBlobs,
         UNCHANGED <<ledger, disk, stage, page, late, receiver>>,
         (wire' = wire /\ answer' = answer /\ pc # "wait") \/ (wire' = NoRequest /\ answer' = NoAnswer)
  PROVE  Advances(n, {<<stage, n>>})
  <1>1. todo \subseteq Nat
    BY DEF IInv, TypeOK
  <1>2. \A m \in todo : m <= n => m < n \/ m = n
    BY <1>1
  <1>3. stage \in Feeds => \A m \in todo : m <= n => <<stage, m>> \in held \cup {<<stage, n>>}
    BY <1>2
  <1> QED BY <1>3 DEF DeadLetter, Advances

LEMMA OversizeAdvances ==
  ASSUME IInv, Oversize
  PROVE  \E n \in todo : Advances(n, {<<stage, n>>})
  <1>1. PICK head \in todo :
          /\ IsFirst(head) /\ DeadLetter(head)
          /\ IF stage = "blobs" THEN PartTooLarge(page[head]) ELSE <<stage, head>> \in Oversized
    BY DEF Oversize
  <1>2. todo \subseteq Nat /\ stage \in Stages
    BY DEF IInv, TypeOK, Oversize
  <1>3. \A m \in todo : ~(m < head)
    BY <1>1, <1>2 DEF IsFirst
  <1>4. stage \in Feeds => <<stage, head>> \in Undeliverable
    BY <1>1 DEF Undeliverable, Feeds
  <1>5. Advances(head, {<<stage, head>>})
    BY <1>1, <1>2, <1>3, <1>4, DeadLetterAdvances DEF Oversize, PartTooLarge
  <1> QED BY <1>5

LEMMA RowRefusedAdvances ==
  ASSUME IInv, RowRefused
  PROVE  \E n \in todo : Advances(n, {<<stage, n>>})
  <1>1. answer # NoAnswer /\ answer.kind = "divergent_duplicate" /\ pc = "wait"
    BY DEF RowRefused, Answered, NoAnswer
  <1>2. /\ stage \in Feeds /\ answer.seq \in wire.items /\ MayDiffer(<<stage, answer.seq>>)
        /\ \A n \in wire.items : n < answer.seq => <<stage, n>> \in held
    BY <1>1 DEF IInv, AnswerTells
  <1>3. wire.items = {n \in todo : n <= wire.through} /\ wire.through \in todo /\ todo \subseteq Nat
    BY <1>1, <1>2 DEF IInv, WireFits, TypeOK
  <1>4. answer.seq \in todo /\ \A m \in todo : m < answer.seq => <<stage, m>> \in held
    <2>1. \A m \in todo, n \in wire.items : m < n => m \in wire.items
      BY <1>3, HeadOfPage
    <2>2. wire.items \subseteq todo
      BY <1>3
    <2> QED BY <1>2, <2>1, <2>2
  <1>5. stage \in Stages /\ stage # "blobs"
    BY <1>2 DEF Stages, Feeds
  <1>6. Advances(answer.seq, {<<stage, answer.seq>>})
    BY <1>2, <1>4, <1>5, DeadLetterAdvances DEF RowRefused, Answered, Undeliverable, MayDiffer
  <1> QED BY <1>4, <1>6

\* A version the receiver does not know refuses every row of the request alike.
LEMMA BatchRefusedAdvancesOrContinues ==
  ASSUME IInv, BatchRefused
  PROVE  (\E n \in todo : Advances(n, {<<stage, n>>})) \/ Continues
  <1>1. answer # NoAnswer /\ answer.kind = "invalid_batch" /\ pc = "wait"
    BY DEF BatchRefused, Answered, NoAnswer
  <1>2. ~AcceptsV2 /\ wire.version # 1 /\ stage \in Stages
    BY <1>1 DEF IInv, AnswerTells, WireFits, Admitted, TypeOK
  <1>3. stage \in Feeds
    BY <1>1, <1>2 DEF IInv, WireFits, Stages
  <1>4. /\ wire.items = {n \in todo : n <= wire.through} /\ wire.through \in todo /\ todo \subseteq Nat
        /\ \A n \in wire.items : Version(stage, n) = wire.version
    BY <1>1, <1>3 DEF IInv, WireFits, TypeOK
  <1>5. \A n \in wire.items : <<stage, n>> \in Undeliverable
    BY <1>2, <1>4 DEF Version, Undeliverable
  <1>6. CASE Cardinality(wire.items) > 1
    BY <1>6 DEF BatchRefused, Answered, Continues
  <1>7. CASE ~(Cardinality(wire.items) > 1)
    <2>1. IsFiniteSet(0..wire.through) /\ wire.items \subseteq 0..wire.through
      <3>1. wire.through \in Nat /\ wire.items \subseteq 0..wire.through
        BY <1>4, HeadOfPage
      <3> QED BY <3>1, FS_Interval
    <2>2. IsFiniteSet(wire.items)
      BY <2>1, FS_Subset
    <2>3. Cardinality(wire.items) \in Nat
      BY <2>2, FS_CardinalityType
    <2>4. wire.items # {} /\ wire.through \in wire.items
      BY <1>4, HeadOfPage
    <2>5. Cardinality(wire.items) # 0
      BY <2>2, <2>4, FS_EmptySet
    <2>6. Cardinality(wire.items) = 1
      BY <1>7, <2>3, <2>5
    <2>7. \E x : wire.items = {x}
      BY <2>2, <2>6, FS_Singleton
    <2>8. \A m \in todo : ~(m < wire.through)
      <3>1. \A m \in todo : m < wire.through => m \in wire.items
        <4>1. \A m \in todo, n \in wire.items : m < n => m \in wire.items
          BY <1>4, HeadOfPage
        <4> QED BY <2>4, <4>1
      <3>2. wire.items = {wire.through} /\ wire.through \in Nat
        BY <1>4, <2>4, <2>7
      <3> QED BY <1>4, <3>1, <3>2
    <2>9. DeadLetter(wire.through)
      BY <1>7 DEF BatchRefused
    <2>10. Advances(wire.through, {<<stage, wire.through>>})
      BY <1>2, <1>3, <1>4, <1>5, <2>4, <2>8, <2>9, DeadLetterAdvances
         DEF BatchRefused, Answered, Stages, Feeds
    <2> QED BY <1>4, <2>10
  <1> QED BY <1>6, <1>7

LEMMA StepKinds ==
  ASSUME IInv, Next
  PROVE  \/ LedgerMoves \/ PageTurns \/ Posts \/ WriteCursors \/ Continues \/ GivesUp \/ Receives
         \/ \E n \in todo : \E letters : Advances(n, letters)
  <1> USE DEF ledger, batch, receiver
  <1>0. stage = "idle" => pc # "wait"
    BY DEF IInv, WireFits
  <1>1. ASSUME NEW f \in Feeds, AppendRow(f) PROVE LedgerMoves
    BY <1>1 DEF LedgerMoves, AppendRow
  <1>2. ASSUME NEW r \in rows, PruneRuntime(RuntimeOf[r]) PROVE LedgerMoves
    BY <1>2 DEF LedgerMoves, PruneRuntime
  <1>3. CASE StartSweep
    BY <1>3, <1>0 DEF StartSweep, PageTurns, Stages
  <1>4. CASE NextTable
    BY <1>4 DEF NextTable, PageTurns, NextStage, Stages, Feeds
  <1>5. CASE CursorsUnreadable
    BY <1>5, <1>0 DEF CursorsUnreadable, PageTurns, Stages
  <1>6. CASE PostBatch \/ PostPart
    BY <1>6 DEF Posts
  <1>7. CASE Oversize \/ BatchAcked \/ PartAcked \/ RowRefused \/ BatchRefused
    BY <1>7, OversizeAdvances, AckAdvances, PartAdvancesOrContinues, RowRefusedAdvances,
       BatchRefusedAdvancesOrContinues
  <1>8. CASE RetryLater
    BY <1>8 DEF RetryLater, GivesUp
  <1>9. CASE WriteFails
    BY <1>9 DEF WriteFails, GivesUp
  <1>10. CASE ConnectionBreaks
    BY <1>10 DEF ConnectionBreaks, GivesUp, Orphaned
  <1>11. CASE SenderCrashes
    BY <1>11 DEF SenderCrashes, GivesUp, Orphaned
  <1>12. CASE ReceiverCrashes
    BY <1>12 DEF ReceiverCrashes, GivesUp, Ingests
  <1>13. CASE Receive
    BY <1>13 DEF Receive, Receives
  <1>14. CASE ReceiverRefuses
    BY <1>14 DEF ReceiverRefuses, Receives
  <1>15. ASSUME NEW req \in late, ReceiveLate(req) PROVE Receives
    BY <1>15 DEF ReceiveLate, Receives, Ingests
  <1> QED BY <1>1, <1>2, <1>3, <1>4, <1>5, <1>6, <1>7, <1>8, <1>9, <1>10, <1>11, <1>12, <1>13, <1>14, <1>15
          DEF Next, LedgerStep, SweepStep, SenderFault, ReceiverFault

----------------------------------------------------------------------------
(* What every step keeps.                                                  *)

\* The receiver only gains: a prefix of a request that was made.
LEMMA ReceiverKept ==
  ASSUME IInv, [Next]_vars
  PROVE  /\ ReceiverOK'
         /\ UNCHANGED receiver \/ \E req \in late \cup {wire} : Took(req)
  <1>1. ReceiverOK
    BY DEF IInv, TypeOK, ReceiverOK, AnnouncedOnce, OncePerRow
  <1>2. CASE UNCHANGED receiver
    BY <1>1, <1>2 DEF receiver, ReceiverOK, OncePerRow, Notifies, StagedIsIncomplete
  <1>3. ASSUME NEW req \in late \cup {wire}, Ingests(req)
        PROVE  ReceiverOK' /\ Took(req)
    BY <1>1, <1>3, IngestTakes DEF IInv, RequestsInOrder, PartRequests
  <1>4. CASE Receives
    <2>1. \E req \in late \cup {wire} : Ingests(req)
      BY <1>4 DEF Receives, Ingests
    <2> QED BY <2>1, <1>3
  <1>5. CASE GivesUp
    BY <1>2, <1>3, <1>5 DEF GivesUp
  <1>6. CASE LedgerMoves \/ PageTurns \/ Posts \/ WriteCursors \/ Continues
             \/ (\E n \in todo : \E letters : Advances(n, letters)) \/ UNCHANGED vars
    <2>1. UNCHANGED receiver
      BY <1>6 DEF LedgerMoves, PageTurns, Posts, PostBatch, PostPart, WriteCursors, Continues, Advances,
         vars, receiver
    <2> QED BY <1>2, <2>1
  <1> QED BY <1>4, <1>5, <1>6, StepKinds

\* Every fault silences one row at most, and nothing else does.
LEMMA AnnouncedKept ==
  ASSUME IInv, [Next]_vars
  PROVE  AnnouncedOnce' /\ UnheardIsFinite'
  <1>1. ReceiverOK /\ ReceiverOK' /\ held' \subseteq Rows
    BY ReceiverKept DEF IInv, TypeOK, ReceiverOK, AnnouncedOnce, OncePerRow
  <1>2. IsFiniteSet(Unheard) /\ Cardinality(Unheard) <= faults /\ faults \in Nat
    BY ForwardingAssumption DEF IInv, UnheardIsFinite, AnnouncedOnce, TypeOK
  <1>3. \/ faults' = faults + 1 /\ \E x : Unheard' \subseteq Unheard \cup {x}
        \/ faults' \in {faults, faults + 1} /\ Unheard' \subseteq Unheard
    <2>1. CASE ReceiverFault
      <3>1. PICK req : IngestBreaksOff(req)
        BY <2>1 DEF ReceiverFault, ReceiverRefuses, ReceiverCrashes
      <3>2. faults' = faults + 1
        BY <2>1 DEF ReceiverFault, ReceiverRefuses, ReceiverCrashes, Fault
      <3> QED BY <1>1, <3>1, <3>2, BreakIsHeard
    <2>2. CASE Receive
      <3>1. PICK kind \in Answers, seq \in Numbers : IngestBatch(wire, kind, seq)
        BY <2>2 DEF Receive
      <3> QED BY <1>1, <2>2, <3>1, IngestIsHeard DEF Receive
    <2>3. ASSUME NEW req \in late, ReceiveLate(req)
          PROVE  faults' = faults /\ Unheard' \subseteq Unheard
      <3>1. PICK kind \in Answers, seq \in Numbers : IngestBatch(req, kind, seq)
        BY <2>3 DEF ReceiveLate
      <3> QED BY <1>1, <2>3, <3>1, IngestIsHeard DEF ReceiveLate
    <2>4. CASE LedgerStep \/ SweepStep \/ SenderFault \/ UNCHANGED vars
      <3>1. UNCHANGED <<held, notified>> /\ faults' \in {faults, faults + 1}
        BY <2>4 DEF LedgerStep, AppendRow, PruneRuntime, SweepStep, StartSweep, NextTable, PostBatch, PostPart,
           Oversize, BatchAcked, PartAcked, RowRefused, BatchRefused, WriteCursors, RetryLater, SenderFault,
           CursorsUnreadable, WriteFails, ConnectionBreaks, SenderCrashes, Fault, receiver, vars
      <3> QED BY <3>1 DEF Unheard, Notifies
    <2> QED BY <2>1, <2>2, <2>3, <2>4 DEF Next
  <1>4. IsFiniteSet(Unheard') /\ Cardinality(Unheard') <= faults'
    <2>1. ASSUME NEW x, Unheard' \subseteq Unheard \cup {x}
          PROVE  /\ IsFiniteSet(Unheard')
                 /\ Cardinality(Unheard') <= Cardinality(Unheard) + 1
      <3>1. /\ IsFiniteSet(Unheard \cup {x})
            /\ Cardinality(Unheard \cup {x}) <= Cardinality(Unheard) + 1
        <4>1. Cardinality(Unheard) \in Nat
          BY <1>2, FS_CardinalityType
        <4> QED BY <1>2, <4>1, FS_AddElement
      <3>2. IsFiniteSet(Unheard') /\ Cardinality(Unheard') <= Cardinality(Unheard \cup {x})
        BY <2>1, <3>1, FS_Subset
      <3>3. /\ Cardinality(Unheard') \in Nat /\ Cardinality(Unheard) \in Nat
            /\ Cardinality(Unheard \cup {x}) \in Nat
        BY <1>2, <3>1, <3>2, FS_CardinalityType
      <3> QED BY <3>1, <3>2, <3>3
    <2>2. CASE Unheard' \subseteq Unheard
      <3>1. IsFiniteSet(Unheard') /\ Cardinality(Unheard') <= Cardinality(Unheard)
        BY <1>2, <2>2, FS_Subset
      <3>2. Cardinality(Unheard') \in Nat /\ Cardinality(Unheard) \in Nat
        BY <1>2, <3>1, FS_CardinalityType
      <3>3. faults' \in {faults, faults + 1}
        BY <1>3
      <3> QED BY <1>2, <3>1, <3>2, <3>3
    <2>3. CASE faults' = faults + 1 /\ \E x : Unheard' \subseteq Unheard \cup {x}
      <3>1. IsFiniteSet(Unheard') /\ Cardinality(Unheard') <= Cardinality(Unheard) + 1
        BY <2>1, <2>3
      <3>2. Cardinality(Unheard') \in Nat /\ Cardinality(Unheard) \in Nat
        BY <1>2, <3>1, FS_CardinalityType
      <3> QED BY <1>2, <2>3, <3>1, <3>2
    <2> QED BY <1>3, <2>2, <2>3
  <1>5. OncePerRow'
    BY <1>1 DEF ReceiverOK
  <1> QED BY <1>4, <1>5 DEF AnnouncedOnce, OncePerRow, UnheardIsFinite, Unheard

LEMMA NothingTakenBack ==
  ASSUME IInv, [Next]_vars
  PROVE  /\ held \subseteq held' /\ stored \subseteq stored'
         /\ \A blob \in Spilled, p \in 0..(Parts - 1) : Arrived(blob, p) => Arrived(blob, p)'
  BY ReceiverKept DEF Took, receiver, Arrived

\* The ledger loses rows, or gains one behind all others while nothing else moves.
Appends(f) ==
  /\ last[f] + 1 \in 1..MaxRows[f]
  /\ last' = [last EXCEPT ![f] = @ + 1]
  /\ rows' = rows \cup {<<f, last[f] + 1>>}
  /\ UNCHANGED <<disk, cur, stage, todo, wire, late, held>>

LEMMA LedgerKept ==
  ASSUME IInv, [Next]_vars
  PROVE  (last' = last /\ rows' \subseteq rows) \/ \E f \in Feeds : Appends(f)
  <1>1. ASSUME NEW f \in Feeds, AppendRow(f), LedgerMoves PROVE Appends(f)
    <2>1. last[f] \in {0} \cup Seqs /\ MaxRows[f] \in Nat
      BY ForwardingAssumption DEF IInv, TypeOK
    <2>2. last[f] \in Nat
      BY <2>1, RowFacts
    <2>3. last[f] < MaxRows[f]
      BY <1>1 DEF AppendRow
    <2>4. last[f] + 1 \in 1..MaxRows[f]
      BY <2>1, <2>2, <2>3
    <2> QED BY <1>1, <2>4 DEF AppendRow, LedgerMoves, Appends, batch, receiver
  <1>2. ASSUME NEW r \in rows, PruneRuntime(RuntimeOf[r]) PROVE last' = last /\ rows' \subseteq rows
    BY <1>2 DEF PruneRuntime
  <1>3. CASE ~LedgerMoves
    BY <1>3, StepKinds DEF PageTurns, Posts, PostBatch, PostPart, WriteCursors, Continues, GivesUp, Receives,
       Advances, ledger, vars
  <1> QED BY <1>1, <1>2, <1>3 DEF LedgerMoves

LEMMA LedgerFacts ==
  ASSUME IInv, [Next]_vars
  PROVE  /\ last' \in [Feeds -> {0} \cup Seqs]
         /\ Appended \subseteq Appended' /\ rows' \subseteq Appended'
         /\ \A f \in Feeds : last[f] \in Nat /\ last'[f] \in Nat /\ last[f] <= last'[f]
         /\ \A r \in rows' \ rows :
              r \in Rows /\ r[2] = last[r[1]] + 1 /\ UNCHANGED <<disk, cur, stage, todo, wire, late, held>>
  <1>1. last \in [Feeds -> {0} \cup Seqs] /\ Seqs \subseteq Nat /\ rows \subseteq Appended
    BY RowFacts DEF IInv, TypeOK, InLedger
  <1>5. ASSUME NEW f \in Feeds PROVE last[f] \in Nat
    <2>1. last[f] \in {0} \cup Seqs
      BY <1>1
    <2> QED BY <2>1, RowFacts
  <1>2. CASE last' = last /\ rows' \subseteq rows
    BY <1>1, <1>2, <1>5 DEF Appended
  <1>3. ASSUME NEW f \in Feeds, Appends(f)
        PROVE  /\ last' \in [Feeds -> {0} \cup Seqs]
               /\ Appended \subseteq Appended' /\ rows' \subseteq Appended'
               /\ \A g \in Feeds : last[g] \in Nat /\ last'[g] \in Nat /\ last[g] <= last'[g]
               /\ \A r \in rows' \ rows : r \in Rows /\ r[2] = last[r[1]] + 1
    <2>1. <<f, last[f] + 1>> \in Rows /\ last[f] + 1 \in Seqs
      BY <1>3, RowFacts DEF Appends
    <2>2. /\ last' \in [Feeds -> {0} \cup Seqs]
          /\ \A g \in Feeds : last'[g] = IF g = f THEN last[f] + 1 ELSE last[g]
      BY <1>1, <1>3, <2>1 DEF Appends
    <2>3. \A g \in Feeds : last[g] \in Nat /\ last'[g] \in Nat /\ last[g] <= last'[g]
      BY <1>5, <2>2
    <2>4. \A r \in Rows : r[1] \in Feeds /\ r[2] \in Nat
      BY RowFacts
    <2>5. Appended \subseteq Appended'
      BY <2>3, <2>4 DEF Appended
    <2>6. <<f, last[f] + 1>> \in Appended'
      BY <2>1, <2>2, <2>3 DEF Appended
    <2> QED BY <1>1, <1>3, <2>1, <2>2, <2>3, <2>5, <2>6 DEF Appends
  <1>4. \A r \in Rows : r[1] \in Feeds
    BY RowFacts
  <1> QED BY <1>2, <1>3, LedgerKept DEF Appends

LEMMA CursorsKept ==
  ASSUME IInv, [Next]_vars
  PROVE  cur' \in Cursors /\ disk' \in Cursors
  <1>1. cur \in Cursors /\ disk \in Cursors /\ InitialCursors \in Cursors
    BY DEF IInv, TypeOK, Cursors, InitialCursors
  <1>2. ASSUME NEW n \in todo, NEW letters, Advances(n, letters)
        PROVE  cur' \in Cursors /\ disk' = disk
    <2>1. n \in Nat /\ (stage \in Feeds => n \in Seqs)
      BY DEF IInv, TypeOK, FeedPage
    <2>2. letters \subseteq Stages \X Nat
      BY <1>2, <2>1 DEF Advances
    <2> QED BY <1>1, <1>2, <2>1, <2>2, SettleMoves DEF Advances, ledger
  <1>3. CASE ~\E n \in todo : \E letters : Advances(n, letters)
    BY <1>1, <1>3, StepKinds DEF LedgerMoves, PageTurns, Posts, PostBatch, PostPart, WriteCursors,
       Continues, GivesUp, Abandon, Receives, vars
  <1> QED BY <1>1, <1>2, <1>3

LEMMA InLedgerKept ==
  ASSUME IInv, [Next]_vars
  PROVE  InLedger'
  <1>1. held' \subseteq Appended'
    <2>1. CASE UNCHANGED receiver
      BY <2>1, LedgerFacts DEF receiver, IInv, InLedger
    <2>2. ASSUME NEW req \in late \cup {wire}, Took(req) PROVE held' \subseteq Appended'
      <3>1. held' \ held \subseteq Appended
        BY <2>2 DEF Took, IInv, RequestsInOrder, InOrderRequest
      <3> QED BY <3>1, LedgerFacts DEF IInv, InLedger
    <2> QED BY <2>1, <2>2, ReceiverKept
  <1>2. \A f \in Feeds : disk'[f] <= last[f] /\ cur'[f] <= last[f]
    <2> USE DEF IInv, InLedger
    <2>1. \A f \in Feeds : InitialCursors[f] = 0 /\ last[f] \in Nat
      BY LedgerFacts DEF InitialCursors, Feeds
    <2>2. CASE cur' \in {cur, disk, InitialCursors} /\ disk' \in {cur, disk, InitialCursors}
      BY <2>1, <2>2
    <2>3. ASSUME NEW n \in todo, NEW letters, Advances(n, letters)
          PROVE  \A f \in Feeds : disk'[f] <= last[f] /\ cur'[f] <= last[f]
      <3>1. cur'[stage] = n /\ \A s \in Stages \ {stage} : cur'[s] = cur[s]
        BY <2>3, SettleMoves DEF Advances, TypeOK
      <3>2. stage \in Feeds => n <= last[stage]
        BY DEF FeedPage, Appended
      <3> QED BY <2>3, <3>1, <3>2 DEF Advances, Stages
    <2>4. CASE ~\E n \in todo : \E letters : Advances(n, letters)
      BY <2>2, <2>4, StepKinds DEF LedgerMoves, PageTurns, Posts, PostBatch, PostPart, WriteCursors,
         Continues, GivesUp, Abandon, Receives, vars
    <2> QED BY <2>3, <2>4
  <1>3. \A f \in Feeds : disk'[f] <= last'[f] /\ cur'[f] <= last'[f]
    <2>1. \A f \in Feeds : disk'[f] \in Nat /\ cur'[f] \in Nat
      BY CursorsKept, RowFacts DEF Cursors, Feeds
    <2> QED BY <1>2, <2>1, LedgerFacts
  <1> QED BY <1>1, <1>3, LedgerFacts DEF InLedger

PageTyped ==
  /\ stage \in Stages \cup {"idle"} /\ todo \subseteq Nat
  /\ DOMAIN page \subseteq Nat /\ \A i \in DOMAIN page : page[i] \in Spilled
  /\ part \in 0..(Parts - 1) /\ narrow \in BOOLEAN

\* The sender's cursors, page and request keep their types, and the faults their bound.
LEMMA TypeKept ==
  ASSUME IInv, [Next]_vars
  PROVE  TypeOK'
  <1> USE DEF IInv, TypeOK
  <1>1. last' \in [Feeds -> {0} \cup Seqs] /\ rows' \subseteq Rows /\ disk' \in Cursors /\ cur' \in Cursors
    BY LedgerFacts, CursorsKept DEF Appended
  <1>2. /\ held' \subseteq Rows /\ stored' \subseteq Spilled /\ staged' \subseteq Spilled \X (0..(Parts - 1))
        /\ notified' \in [Rows -> Nat]
    BY ReceiverKept DEF ReceiverOK
  <1>3. DOMAIN blobs' \subseteq Nat /\ \A i \in DOMAIN blobs' : blobs'[i] \in Spilled
    <2>1. ASSUME NEW f \in Feeds, AppendRow(f)
          PROVE  DOMAIN blobs' \subseteq Nat /\ \A i \in DOMAIN blobs' : blobs'[i] \in Spilled
      BY <2>1 DEF AppendRow, IsNewRowid
    <2>2. ASSUME NEW r \in rows, PruneRuntime(RuntimeOf[r])
          PROVE  DOMAIN blobs' \subseteq Nat /\ \A i \in DOMAIN blobs' : blobs'[i] \in Spilled
      BY <2>2 DEF PruneRuntime
    <2>3. CASE ~LedgerMoves
      BY <2>3, StepKinds DEF PageTurns, Posts, PostBatch, PostPart, WriteCursors, Continues, GivesUp, Receives,
         Advances, ledger, vars
    <2> QED BY <2>1, <2>2, <2>3 DEF LedgerMoves
  <1>4. PageTyped'
    <2> USE DEF PageTyped
    <2>0. 0 \in 0..(Parts - 1) /\ DOMAIN NoPage = {}
      BY ForwardingAssumption DEF NoPage
    <2>1. ASSUME NEW s \in Stages \cup {"idle"}, ReadPage(s, cur')
          PROVE  PageTyped'
      <3>1. /\ stage' = s /\ todo' = (IF s = "idle" THEN {} ELSE Page(s, cur')) /\ part' = 0 /\ narrow' = FALSE
            /\ page' = IF s = "blobs" THEN [i \in todo' |-> blobs[i]] ELSE NoPage
        BY <2>1 DEF ReadPage
      <3>2. Page(s, cur') \subseteq Nat /\ (s = "blobs" => Page(s, cur') \subseteq DOMAIN blobs)
        BY RowFacts DEF Page, Candidates
      <3> QED BY <3>1, <3>2, <2>0
    <2>2. CASE PageTurns
      BY <2>1, <2>2 DEF PageTurns
    <2>3. CASE Continues
      BY <2>3, ForwardingAssumption DEF Continues
    <2>4. CASE GivesUp
      BY <2>4, <2>0 DEF GivesUp, Abandon
    <2>5. ASSUME NEW n \in todo, NEW letters, Advances(n, letters) PROVE PageTyped'
      <3>1. /\ UNCHANGED <<stage, page>> /\ todo' \subseteq todo /\ part' \in {0, part}
            /\ narrow' \in BOOLEAN
        BY <2>5 DEF Advances
      <3> QED BY <3>1, <2>0
    <2>6. CASE UNCHANGED <<stage, todo, page, part, narrow>>
      BY <2>6
    <2> QED BY <2>2, <2>3, <2>4, <2>5, <2>6, StepKinds
            DEF LedgerMoves, Posts, PostBatch, PostPart, WriteCursors, Receives, batch, vars
  <1>5. pc' \in {"next", "wait", "write"} /\ answer' \in [kind : Answers \cup {"none", "retry"}, seq : Numbers]
    <2>1. NoAnswer \in [kind : Answers \cup {"none", "retry"}, seq : Numbers] /\ 0 \in Numbers
      BY ForwardingAssumption DEF NoAnswer, Numbers
    <2> QED BY <2>1, StepKinds DEF LedgerMoves, PageTurns, Posts, PostBatch, PostPart, WriteCursors, Continues,
               GivesUp, Abandon, Receives, Advances, batch, vars
  <1>6. wire' \in Requests /\ late' \subseteq Requests
    <2>1. NoRequest \in Requests
      BY ForwardingAssumption DEF NoRequest, Requests, Numbers, NoBlob
    <2>2. ASSUME PostBatch PROVE wire' \in Requests
      <3>1. todo \subseteq Numbers /\ stage \in Stages /\ NoBlob \in Rows \cup {NoBlob}
        BY <2>2 DEF PostBatch, FeedPage, Numbers, Stages
      <3>2. PICK head, top \in todo :
              wire' = [feed |-> stage, items |-> {n \in OriginRun(head) : n <= top}, through |-> top,
                       version |-> Version(stage, head), blob |-> NoBlob]
        BY <2>2 DEF PostBatch
      <3>3. {n \in OriginRun(head) : n <= top} \subseteq Numbers /\ top \in Numbers /\ Version(stage, head) \in 0..2
        <4>1. Version(stage, head) \in 0..2
          BY DEF Version
        <4>2. OriginRun(head) \subseteq Numbers /\ top \in Numbers
          BY <3>1 DEF OriginRun
        <4>3. {n \in OriginRun(head) : n <= top} \subseteq OriginRun(head)
          OBVIOUS
        <4> QED BY <4>1, <4>2, <4>3
      <3> QED BY <3>1, <3>2, <3>3 DEF Requests
    <2>3. ASSUME PostPart PROVE wire' \in Requests
      <3>1. part \in Numbers /\ todo \subseteq DOMAIN page /\ Spilled \subseteq Rows /\ "blobs" \in Stages
        BY <2>3, ForwardingAssumption DEF PostPart, PartsArrived, Numbers, Stages
      <3> QED BY <2>3, <3>1 DEF PostPart, Requests
    <2> QED BY <2>1, <2>2, <2>3, StepKinds DEF LedgerMoves, PageTurns, Posts, PostBatch, PostPart, WriteCursors,
               Continues, GivesUp, Abandon, Receives, Advances, vars
  <1>7. faults' \in 0..MaxFaults
    <2>1. ASSUME NEW kind, Fault(kind) PROVE faults' \in 0..MaxFaults
      BY <2>1, ForwardingAssumption DEF Fault
    <2>2. ASSUME NEW r \in rows, PruneRuntime(RuntimeOf[r]) PROVE faults' \in 0..MaxFaults
      BY <2>1, <2>2 DEF PruneRuntime
    <2>3. CASE SenderFault \/ ReceiverFault
      BY <2>1, <2>3 DEF SenderFault, ReceiverFault, CursorsUnreadable, WriteFails, ConnectionBreaks,
         SenderCrashes, ReceiverRefuses, ReceiverCrashes
    <2>4. CASE SweepStep
      BY <2>4 DEF SweepStep, StartSweep, NextTable, PostBatch, PostPart, Oversize, BatchAcked, PartAcked,
         RowRefused, BatchRefused, WriteCursors, RetryLater
    <2> QED BY <2>2, <2>3, <2>4 DEF Next, vars, LedgerStep, AppendRow, Receive, ReceiveLate
  <1> QED BY <1>1, <1>2, <1>3, <1>4, <1>5, <1>6, <1>7 DEF PageTyped

\* What is settled behind a cursor stays settled: a new row lies ahead of every cursor.
LEMMA RowsStaySettled ==
  ASSUME IInv, [Next]_vars, NEW cursors, RowsSettled(cursors),
         \A f \in Feeds : cursors[f] \in Nat /\ cursors[f] <= last[f]
  PROVE  \A r \in rows' : r[2] <= cursors[r[1]] => r \in held' \/ r \in cursors.dead
  <1>1. ASSUME NEW r \in rows' \ rows PROVE ~(r[2] <= cursors[r[1]])
    <2>1. r[2] = last[r[1]] + 1 /\ r[1] \in Feeds
      BY <1>1, LedgerFacts, RowFacts
    <2>2. last[r[1]] \in Nat /\ cursors[r[1]] \in Nat /\ cursors[r[1]] <= last[r[1]]
      BY <2>1, LedgerFacts
    <2> QED BY <2>1, <2>2
  <1> QED BY <1>1, NothingTakenBack DEF RowsSettled

LEMMA RowsSettledKept ==
  ASSUME IInv, [Next]_vars
  PROVE  RowsSettled(disk)' /\ RowsSettled(cur)'
  <1> USE DEF IInv
  <1>1. ASSUME NEW cursors \in {disk, cur, InitialCursors}
        PROVE  \A r \in rows' : r[2] <= cursors[r[1]] => r \in held' \/ r \in cursors.dead
    <2>1. \A f \in Feeds : InitialCursors[f] = 0 /\ last[f] \in Nat
      BY LedgerFacts DEF InitialCursors, Feeds
    <2>2. \A f \in Feeds : cursors[f] \in Nat /\ cursors[f] <= last[f]
      BY <1>1, <2>1, RowFacts DEF InLedger, TypeOK, Cursors, Feeds
    <2>3. RowsSettled(InitialCursors)
      BY <2>1, RowFacts DEF RowsSettled, TypeOK
    <2>4. RowsSettled(cursors)
      BY <1>1, <2>3
    <2> QED BY <2>2, <2>4, RowsStaySettled
  <1>2. ASSUME NEW n \in todo, NEW letters, Advances(n, letters)
        PROVE  RowsSettled(cur)' /\ disk' = disk
    <2>1. disk' = disk /\ rows' = rows /\ held' = held /\ stage \in Stages
      BY <1>2 DEF Advances, ledger, receiver
    <2>2. /\ cur'[stage] = n /\ cur'.dead = cur.dead \cup letters
          /\ \A s \in Stages \ {stage} : cur'[s] = cur[s]
      BY <1>2, SettleMoves DEF Advances, TypeOK
    <2>3. ASSUME NEW r \in rows, r[2] <= cur'[r[1]] PROVE r \in held' \/ r \in cur'.dead
      <3>1. r[1] \in Feeds /\ r = <<r[1], r[2]>> /\ r[2] \in Nat
        BY RowFacts DEF TypeOK
      <3>2. CASE r[1] # stage \/ r[2] <= cur[stage]
        BY <2>1, <2>2, <2>3, <3>1, <3>2 DEF RowsSettled, Stages
      <3>3. CASE r[1] = stage /\ ~(r[2] <= cur[stage])
        <4>1. cur[stage] \in Nat
          BY <3>1, <3>3, RowFacts DEF TypeOK, Cursors, Feeds
        <4>2. r[2] \in todo /\ r[2] <= n
          BY <2>2, <2>3, <3>1, <3>3, <4>1 DEF FeedPage
        <4> QED BY <1>2, <2>1, <2>2, <3>1, <3>3, <4>2 DEF Advances
      <3> QED BY <3>2, <3>3
    <2> QED BY <2>1, <2>3 DEF RowsSettled
  <1>3. CASE ~\E n \in todo : \E letters : Advances(n, letters)
    <2>1. cur' \in {disk, cur, InitialCursors} /\ disk' \in {disk, cur, InitialCursors}
      BY <1>3, StepKinds DEF LedgerMoves, PageTurns, Posts, PostBatch, PostPart, WriteCursors,
         Continues, GivesUp, Abandon, Receives, vars
    <2> QED BY <1>1, <2>1 DEF RowsSettled
  <1> QED BY <1>1, <1>2, <1>3 DEF RowsSettled

\* The page of a feed is read without gaps and shrinks from its head.
LEMMA FeedPageKept ==
  ASSUME IInv, [Next]_vars
  PROVE  FeedPage'
  <1> USE DEF IInv
  <1>1. CASE UNCHANGED <<cur, stage, todo>>
    <2>1. SUFFICES ASSUME stage \in Feeds PROVE FeedPage'
      BY <1>1 DEF FeedPage
    <2>2. \A n \in todo : n \in Seqs /\ <<stage, n>> \in Appended' /\ cur[stage] < n
      BY <2>1, LedgerFacts DEF FeedPage
    <2>3. ASSUME NEW r \in rows', NEW m \in todo, r[1] = stage, cur[stage] < r[2], r[2] <= m
          PROVE  r[2] \in todo
      <3>1. r \in rows
        <4>1. SUFFICES ASSUME r \in rows' \ rows PROVE FALSE
          BY <2>3
        <4>2. r[2] = last[stage] + 1 /\ last[stage] \in Nat
          BY <2>1, <2>3, <4>1, LedgerFacts
        <4>3. m <= last[stage] /\ m \in Nat
          BY <2>1, RowFacts DEF FeedPage, Appended
        <4> QED BY <2>3, <4>2, <4>3
      <3> QED BY <2>1, <2>3, <3>1 DEF FeedPage
    <2> QED BY <1>1, <2>2, <2>3 DEF FeedPage
  <1>2. CASE PageTurns
    <2>1. PICK s \in Stages \cup {"idle"} : ReadPage(s, cur')
      BY <1>2 DEF PageTurns
    <2>2. SUFFICES ASSUME s \in Feeds PROVE FeedPage'
      BY <2>1 DEF FeedPage, ReadPage
    <2>3. stage' = s /\ todo' = Page(s, cur') /\ UNCHANGED ledger
      BY <1>2, <2>1, <2>2 DEF ReadPage, PageTurns, Feeds
    <2>4. /\ Candidates(s, cur') = {n \in Seqs : n > cur'[s] /\ <<s, n>> \in rows}
          /\ Candidates(s, cur') \subseteq Nat /\ cur'[s] \in Nat
      BY <2>2, RowFacts, CursorsKept DEF Candidates, Feeds, Cursors
    <2>5. \A n \in todo' : n \in Seqs /\ n > cur'[s] /\ <<s, n>> \in rows
      BY <2>3, <2>4 DEF Page
    <2>6. ASSUME NEW r \in rows, NEW m \in todo', r[1] = s, cur'[s] < r[2], r[2] <= m
          PROVE  r[2] \in todo'
      <3>1. r[2] \in Seqs /\ r = <<s, r[2]>> /\ r[2] \in Nat
        BY <2>6, RowFacts DEF TypeOK
      <3>2. r[2] \in Candidates(s, cur')
        BY <2>4, <2>6, <3>1
      <3> QED BY <2>3, <2>4, <2>6, <3>2, PageIsPrefix
    <2>7. \A n \in todo' : cur'[s] < n
      BY <2>4, <2>5, RowFacts
    <2> QED BY <2>3, <2>5, <2>6, <2>7 DEF FeedPage, ledger, InLedger, Appended
  <1>3. ASSUME NEW n \in todo, NEW letters, Advances(n, letters) PROVE FeedPage'
    <2>1. SUFFICES ASSUME stage \in Feeds PROVE FeedPage'
      BY <1>3 DEF FeedPage, Advances
    <2>2. cur'[stage] = n
      BY <1>3, SettleMoves DEF Advances, TypeOK
    <2>3. stage' = stage /\ todo' = {m \in todo : m > n} /\ UNCHANGED ledger
      BY <1>3 DEF Advances
    <2>4. n \in Nat /\ todo \subseteq Nat /\ cur[stage] < n /\ cur[stage] \in Nat
      <3>1. cur[stage] \in {0} \cup Seqs
        BY <2>1 DEF TypeOK, Cursors, Feeds
      <3>2. cur[stage] < n /\ todo \subseteq Nat
        BY <2>1 DEF TypeOK, FeedPage
      <3> QED BY <3>1, <3>2, RowFacts
    <2>5. \A m \in todo' : m \in todo /\ n < m
      BY <2>3, <2>4
    <2>6. ASSUME NEW r \in rows, NEW m \in todo', r[1] = stage, n < r[2], r[2] <= m
          PROVE  r[2] \in todo'
      <3>1. r[2] \in Nat
        BY RowFacts DEF TypeOK
      <3>2. cur[stage] < r[2]
        BY <2>4, <2>6, <3>1
      <3>3. r[2] \in todo
        BY <2>1, <2>5, <2>6, <3>2 DEF FeedPage
      <3> QED BY <2>3, <2>4, <2>6, <3>1, <3>3
    <2> QED BY <2>1, <2>2, <2>3, <2>5, <2>6 DEF FeedPage, ledger, Appended
  <1>4. CASE GivesUp
    BY <1>4 DEF GivesUp, Abandon, FeedPage, Feeds
  <1> QED BY <1>1, <1>2, <1>3, <1>4, StepKinds
          DEF LedgerMoves, Posts, PostBatch, PostPart, WriteCursors, Continues, Receives, batch, vars

\* A request is made from the head of the page, and the page stays while it is on the wire.
LEMMA WireKept ==
  ASSUME IInv, [Next]_vars
  PROVE  WireFits'
  <1> USE DEF IInv
  <1>1. CASE PostBatch
    <2>1. PICK head, top \in todo :
            /\ IsFirst(head) /\ Sendable(head, top)
            /\ wire' = [feed |-> stage, items |-> {n \in OriginRun(head) : n <= top}, through |-> top,
                        version |-> Version(stage, head), blob |-> NoBlob]
      BY <1>1 DEF PostBatch
    <2>2. stage \in Feeds /\ stage # "idle" /\ stage # "blobs" /\ UNCHANGED <<stage, todo>> /\ todo \subseteq Nat
      BY <1>1 DEF PostBatch, Feeds, TypeOK, batch
    <2>3. top \in todo /\ \A m \in todo : m <= top => Version(stage, m) = Version(stage, head)
      BY <2>1 DEF Sendable, OriginRun
    <2>4. \A n, m \in Nat : n <= top /\ m <= n => m <= top
      BY <2>2
    <2>5. \A n \in todo : n <= top => n \in OriginRun(head)
      BY <2>2, <2>3, <2>4 DEF OriginRun
    <2>6. top \in {n \in todo : n <= top}
      BY <2>2, <2>3, HeadOfPage
    <2>7. {n \in OriginRun(head) : n <= top} = {n \in todo : n <= top}
      BY <2>5 DEF OriginRun
    <2> QED BY <2>1, <2>2, <2>3, <2>6, <2>7 DEF WireFits, Version
  <1>2. CASE PostPart
    <2>1. PICK head \in todo :
            /\ IsFirst(head)
            /\ wire' = [feed |-> "blobs", items |-> {part}, through |-> part, version |-> 1, blob |-> page[head]]
      BY <1>2 DEF PostPart
    <2>2. stage = "blobs" /\ UNCHANGED <<stage, todo, page, part>>
      BY <1>2 DEF PostPart, batch
    <2> QED BY <2>1, <2>2 DEF WireFits, IsFirst, Feeds
  <1>3. CASE pc' = "wait" /\ UNCHANGED <<pc, wire, stage, todo, page, part>>
    BY <1>3 DEF WireFits, IsFirst, Version
  <1>4. CASE pc' # "wait"
    BY <1>4 DEF WireFits
  <1> QED BY <1>1, <1>2, <1>3, <1>4, StepKinds
          DEF LedgerMoves, PageTurns, Posts, WriteCursors, Continues, GivesUp, Abandon, Advances, Receives, batch, vars

\* An answer stays true: what it reports was taken and is not given back.
LEMMA AnswerKept ==
  ASSUME IInv, [Next]_vars
  PROVE  AnswerTells'
  <1> USE DEF IInv
  <1>1. CASE answer' = NoAnswer
    BY <1>1 DEF AnswerTells, NoAnswer
  <1>2. pc = "wait" => /\ stage = "blobs" => wire.blob \in Spilled /\ part \in 0..(Parts - 1)
                      /\ wire.feed = stage /\ (stage = "blobs" => wire.through = part)
    BY DEF WireFits, PartRequests, PartRequest
  <1>3. CASE answer # NoAnswer /\ UNCHANGED <<answer, pc, wire, stage, part>>
    BY <1>2, <1>3, NothingTakenBack DEF AnswerTells, Arrived, Admitted, MayDiffer
  <1>4. CASE /\ pc = "wait" /\ UNCHANGED <<pc, wire, stage, part>>
             /\ answer'.kind \in Answers /\ answer'.seq \in Numbers
             /\ IngestBatch(wire, answer'.kind, answer'.seq)
    <2>1. ReceiverOK /\ InOrderRequest(wire) /\ PartRequest(wire)
      BY DEF TypeOK, ReceiverOK, AnnouncedOnce, OncePerRow, RequestsInOrder, PartRequests
    <2>2. stage = "blobs" => Admitted(wire)
      BY <1>4 DEF WireFits, Admitted
    <2> QED BY <1>2, <1>4, <2>1, <2>2, AnswerIsTrue DEF AnswerTells, Arrived, Admitted, MayDiffer
  <1>5. CASE pc = "wait" /\ UNCHANGED pc /\ answer' = [kind |-> "retry", seq |-> 0]
    BY <1>5 DEF AnswerTells
  <1>6. CASE Receives
    BY <1>1, <1>3, <1>4, <1>5, <1>6 DEF Receives, batch
  <1>7. pc # "wait" => answer = NoAnswer
    BY DEF AnswerTells
  <1> QED BY <1>1, <1>3, <1>6, <1>7, StepKinds
          DEF LedgerMoves, PageTurns, Posts, PostBatch, PostPart, WriteCursors, Continues, GivesUp, Abandon,
          Advances, batch, vars

\* A request that is in order stays so: new rows come after all of its rows.
StaysInOrder(req) ==
  req.feed \in Feeds =>
    \A n \in req.items :
      /\ <<req.feed, n>> \in Appended'
      /\ \A q \in rows' \ Undeliverable :
           q[1] = req.feed /\ q[2] < n => q[2] \in req.items \/ q \in held'

LEMMA OldRequestsStayInOrder ==
  ASSUME IInv, [Next]_vars, NEW req, InOrderRequest(req)
  PROVE  StaysInOrder(req)
  <1> SUFFICES ASSUME req.feed \in Feeds, NEW n \in req.items
               PROVE  /\ <<req.feed, n>> \in Appended'
                      /\ \A q \in rows' \ Undeliverable :
                           q[1] = req.feed /\ q[2] < n => q[2] \in req.items \/ q \in held'
    BY DEF StaysInOrder
  <1>1. <<req.feed, n>> \in Appended /\ n \in Nat /\ n <= last[req.feed]
    BY RowFacts DEF InOrderRequest, Appended
  <1>2. ASSUME NEW q \in rows' \ rows, q[1] = req.feed PROVE ~(q[2] < n)
    BY <1>1, <1>2, LedgerFacts
  <1> QED BY <1>1, <1>2, LedgerFacts, NothingTakenBack DEF InOrderRequest

LEMMA RequestsKept ==
  ASSUME IInv, [Next]_vars
  PROVE  RequestsInOrder' /\ PartRequests'
  <1> USE DEF IInv
  <1>1. CASE wire' \in {wire, NoRequest} /\ late' \subseteq late \cup {wire}
    <2>1. StaysInOrder(wire) /\ \A req \in late : StaysInOrder(req)
      BY OldRequestsStayInOrder DEF RequestsInOrder
    <2>2. StaysInOrder(wire') /\ \A req \in late' : StaysInOrder(req)
      BY <1>1, <2>1 DEF StaysInOrder, NoRequest, Feeds
    <2>3. RequestsInOrder'
      BY <2>2 DEF RequestsInOrder, InOrderRequest, StaysInOrder, Undeliverable
    <2> QED BY <1>1, <2>3 DEF PartRequests, PartRequest, NoRequest
  <1>2. CASE PostPart
    <2>1. PICK head \in todo :
            wire' = [feed |-> "blobs", items |-> {part}, through |-> part, version |-> 1, blob |-> page[head]]
      BY <1>2 DEF PostPart
    <2>2. late' = late /\ stage = "blobs"
      BY <1>2 DEF PostPart
    <2>3. page[head] \in Spilled /\ part \in 0..(Parts - 1)
      BY <2>2 DEF PartsArrived, TypeOK
    <2>4. PartRequests'
      BY <2>1, <2>2, <2>3 DEF PartRequests, PartRequest
    <2>5. \A req \in late' : StaysInOrder(req)
      BY <2>2, OldRequestsStayInOrder DEF RequestsInOrder
    <2>6. RequestsInOrder'
      BY <2>1, <2>5 DEF RequestsInOrder, InOrderRequest, StaysInOrder, Undeliverable, Feeds
    <2> QED BY <2>4, <2>6
  <1>3. CASE PostBatch
    <2>1. /\ stage \in Feeds /\ late' = late /\ wire'.feed = stage /\ pc' = "wait"
          /\ UNCHANGED <<stage, todo, rows, held, last>>
      BY <1>3 DEF PostBatch, ledger, receiver, batch
    <2>2. wire'.items = {n \in todo : n <= wire'.through} /\ wire'.through \in todo
      BY <2>1, WireKept DEF WireFits, Feeds
    <2>3. ASSUME NEW n \in wire'.items, NEW q \in rows \ Undeliverable, q[1] = stage, q[2] < n
          PROVE  q[2] \in wire'.items \/ q \in held
      <3>1. n \in todo /\ q = <<stage, q[2]>> /\ q[2] \in Nat /\ todo \subseteq Nat /\ n \in Nat
        BY <2>2, <2>3, RowFacts DEF TypeOK
      <3>2. cur[stage] \in {0} \cup Seqs
        BY <2>1 DEF TypeOK, Cursors, Feeds
      <3>3. CASE q[2] <= cur[stage]
        <4>1. q \in held \/ q \in cur.dead
          BY <2>3, <3>3 DEF RowsSettled
        <4>2. q \in cur.dead => q \in held
          BY <2>1, <2>3 DEF OnlyPoisonIsParked, Feeds
        <4> QED BY <4>1, <4>2
      <3>4. CASE ~(q[2] <= cur[stage])
        <4>1. q[2] <= n /\ cur[stage] < q[2]
          BY <2>3, <3>1, <3>2, <3>4, RowFacts
        <4>2. q[2] \in todo
          BY <2>1, <2>3, <3>1, <4>1 DEF FeedPage
        <4>3. n <= wire'.through /\ wire'.through \in Nat
          BY <2>2, <2>3, <3>1
        <4>4. q[2] <= wire'.through
          BY <3>1, <4>1, <4>3
        <4> QED BY <2>2, <4>2, <4>4
      <3> QED BY <3>3, <3>4
    <2>4. \A n \in wire'.items : <<stage, n>> \in Appended'
      BY <2>1, <2>2 DEF FeedPage, Appended
    <2>5. \A req \in late' : StaysInOrder(req)
      BY <2>1, OldRequestsStayInOrder DEF RequestsInOrder
    <2>6. StaysInOrder(wire')
      BY <2>1, <2>3, <2>4 DEF StaysInOrder
    <2>7. RequestsInOrder'
      BY <2>5, <2>6 DEF RequestsInOrder, InOrderRequest, StaysInOrder, Undeliverable
    <2>8. PartRequests'
      BY <2>1 DEF PartRequests, PartRequest, Feeds
    <2> QED BY <2>7, <2>8
  <1> QED BY <1>1, <1>2, <1>3, StepKinds
          DEF LedgerMoves, PageTurns, Posts, WriteCursors, Continues, GivesUp, Abandon, Advances, Receives, vars

\* A letter of a feed is written for a row the receiver can never take, or has taken.
LEMMA PoisonKept ==
  ASSUME IInv, [Next]_vars
  PROVE  OnlyPoisonIsParked'
  <1> USE DEF IInv
  <1>0. held \subseteq held'
    BY NothingTakenBack
  <1>1. ASSUME NEW n \in todo, NEW letters, Advances(n, letters)
        PROVE  \A letter \in cur'.dead \cup disk'.dead :
                 letter[1] # "blobs" => letter \in Undeliverable \cup (Unstable \cap held')
    <2>1. cur'.dead = cur.dead \cup letters /\ disk' = disk
      BY <1>1, SettleMoves DEF Advances, TypeOK
    <2>2. \A letter \in letters : letter[1] # "blobs" => letter \in Undeliverable \cup (Unstable \cap held)
      BY <1>1 DEF Advances, Stages
    <2> QED BY <1>0, <2>1, <2>2 DEF OnlyPoisonIsParked
  <1>2. CASE ~\E n \in todo : \E letters : Advances(n, letters)
    <2>1. cur' \in {disk, cur, InitialCursors} /\ disk' \in {disk, cur, InitialCursors}
      BY <1>2, StepKinds DEF LedgerMoves, PageTurns, Posts, PostBatch, PostPart, WriteCursors,
         Continues, GivesUp, Abandon, Receives, vars
    <2> QED BY <1>0, <2>1 DEF OnlyPoisonIsParked, InitialCursors, Undeliverable
  <1> QED BY <1>1, <1>2 DEF OnlyPoisonIsParked, Undeliverable

\* A part counts as sent when it was acknowledged.
LEMMA PartsKept ==
  ASSUME IInv, [Next]_vars
  PROVE  PartsArrived'
  <1> USE DEF IInv
  <1>1. CASE UNCHANGED <<stage, todo, page, part>>
    <2>1. SUFFICES ASSUME stage = "blobs" PROVE PartsArrived'
      BY <1>1 DEF PartsArrived
    <2>2. \A head \in todo : page[head] \in Spilled
      BY <2>1 DEF PartsArrived, TypeOK
    <2>3. \A head \in todo : IsFirst(head) => \A p \in 0..(part - 1) : Arrived(page[head], p)'
      <3>1. \A p \in 0..(part - 1) : p \in 0..(Parts - 1)
        BY ForwardingAssumption DEF TypeOK
      <3> QED BY <1>1, <2>1, <2>2, <3>1, NothingTakenBack DEF PartsArrived, Arrived
    <2> QED BY <1>1, <2>1, <2>3 DEF PartsArrived, IsFirst, Arrived
  <1>2. CASE PageTurns
    <2>1. PICK s \in Stages \cup {"idle"} : ReadPage(s, cur')
      BY <1>2 DEF PageTurns
    <2>2. part' = 0 /\ stage' = s /\ (s = "blobs" => todo' \subseteq DOMAIN page')
      BY <2>1 DEF ReadPage
    <2>3. 0..(part' - 1) = {}
      BY <2>2
    <2> QED BY <2>2, <2>3 DEF PartsArrived
  <1>3. ASSUME NEW n \in todo, NEW letters, Advances(n, letters) PROVE PartsArrived'
    <2>1. stage' = stage /\ page' = page /\ todo' \subseteq todo /\ (stage = "blobs" => part' = 0)
      BY <1>3 DEF Advances
    <2>2. 0..(0 - 1) = {}
      OBVIOUS
    <2> QED BY <2>1, <2>2 DEF PartsArrived
  <1>4. CASE Continues /\ part' # part
    <2>1. /\ stage = "blobs" /\ part' = part + 1 /\ Arrived(wire.blob, part)
          /\ UNCHANGED <<stage, todo, page, receiver>>
      BY <1>4 DEF Continues
    <2>2. PICK first \in todo : IsFirst(first) /\ wire.blob = page[first]
      BY <1>4 DEF Continues
    <2>3. \A head \in todo : IsFirst(head) => head = first
      BY <2>2 DEF IsFirst, TypeOK
    <2>4. \A p \in 0..(part' - 1) : p = part \/ p \in 0..(part - 1)
      BY <2>1 DEF TypeOK
    <2>5. \A head \in todo : IsFirst(head) => \A p \in 0..(part' - 1) : Arrived(page[head], p)
      BY <2>1, <2>2, <2>3, <2>4 DEF PartsArrived
    <2> QED BY <2>1, <2>5 DEF PartsArrived, IsFirst, Arrived, receiver
  <1>5. CASE GivesUp
    BY <1>5 DEF GivesUp, Abandon, PartsArrived
  <1> QED BY <1>1, <1>2, <1>3, <1>4, <1>5, StepKinds
          DEF LedgerMoves, Posts, PostBatch, PostPart, WriteCursors, Continues, Receives, batch, vars

\* A ledger that was never pruned holds every row; its blobs only gain one behind all others.
AppendsBlob(i) ==
  /\ i \in Nat \ {0} /\ \A j \in DOMAIN blobs : j < i
  /\ DOMAIN blobs' = DOMAIN blobs \cup {i} /\ \A j \in DOMAIN blobs : blobs'[j] = blobs[j]
  /\ UNCHANGED <<disk, cur, stage, todo, page>>

LEMMA BlobFacts ==
  ASSUME IInv, [Next]_vars
  PROVE  /\ RowidsArePositive'
         /\ rows' = Appended' => rows = Appended /\ (blobs' = blobs \/ \E i : AppendsBlob(i))
  <1> USE DEF IInv
  <1>1. ASSUME NEW f \in Feeds, AppendRow(f), LedgerMoves
        PROVE  /\ rows' = Appended' => rows = Appended
               /\ blobs' = blobs \/ \E i : AppendsBlob(i)
    <2>1. /\ last' = [last EXCEPT ![f] = @ + 1] /\ rows' = rows \cup {<<f, last[f] + 1>>}
          /\ last \in [Feeds -> {0} \cup Seqs]
      BY <1>1 DEF AppendRow, TypeOK
    <2>2. last[f] \in Nat /\ <<f, last[f] + 1>> \notin Appended
      BY LedgerFacts DEF Appended
    <2>3. Appended \subseteq Appended' /\ rows \subseteq Appended
      BY LedgerFacts DEF InLedger
    <2>4. rows' = Appended' => rows = Appended
      BY <2>1, <2>2, <2>3
    <2>5. CASE blobs' # blobs
      <3>1. PICK i \in Rowids : /\ IsNewRowid(i)
                               /\ blobs' = [j \in DOMAIN blobs \cup {i} |->
                                            IF j = i THEN <<f, last[f] + 1>> ELSE blobs[j]]
        BY <1>1, <2>5 DEF AppendRow
      <3>2. i \notin DOMAIN blobs
        BY <3>1 DEF IsNewRowid
      <3>3. AppendsBlob(i)
        BY <1>1, <3>1, <3>2 DEF AppendsBlob, IsNewRowid, LedgerMoves, batch
      <3> QED BY <2>4, <3>3
    <2> QED BY <2>4, <2>5
  <1>2. ASSUME NEW r \in rows, PruneRuntime(RuntimeOf[r])
        PROVE  rows' # Appended' /\ DOMAIN blobs' \subseteq DOMAIN blobs
    <2>1. r \notin rows' /\ r \in Appended'
      BY <1>2 DEF PruneRuntime, InLedger, Appended
    <2> QED BY <1>2, <2>1 DEF PruneRuntime
  <1>3. CASE ~LedgerMoves
    <2>1. UNCHANGED ledger
      BY <1>3, StepKinds DEF PageTurns, Posts, PostBatch, PostPart, WriteCursors, Continues, GivesUp, Receives,
         Advances, ledger, vars
    <2> QED BY <2>1 DEF ledger, Appended, RowidsArePositive
  <1>4. ASSUME NEW f \in Feeds, AppendRow(f), LedgerMoves PROVE RowidsArePositive'
    BY <1>1, <1>4 DEF RowidsArePositive, AppendsBlob
  <1>5. ASSUME NEW r \in rows, PruneRuntime(RuntimeOf[r]) PROVE RowidsArePositive'
    BY <1>2, <1>5 DEF RowidsArePositive
  <1> QED BY <1>1, <1>2, <1>3, <1>4, <1>5 DEF LedgerMoves

LEMMA BlobPageKept ==
  ASSUME IInv, [Next]_vars
  PROVE  BlobPage'
  <1> USE DEF IInv
  <1> SUFFICES ASSUME stage' = "blobs", rows' = Appended'
               PROVE  /\ \A i \in todo' : i \in DOMAIN blobs' /\ page'[i] = blobs'[i] /\ cur'.blobs < i
                      /\ \A i \in DOMAIN blobs', j \in todo' : cur'.blobs < i /\ i <= j => i \in todo'
    BY DEF BlobPage
  <1>0. /\ rows = Appended /\ (blobs' = blobs \/ \E i : AppendsBlob(i))
        /\ DOMAIN blobs \subseteq Nat /\ todo \subseteq Nat
    BY BlobFacts DEF TypeOK
  <1>1. CASE UNCHANGED <<cur, stage, todo, page>>
    <2>1. CASE blobs' = blobs
      BY <1>0, <1>1, <2>1 DEF BlobPage
    <2>2. ASSUME NEW k, AppendsBlob(k)
          PROVE  /\ \A i \in todo : i \in DOMAIN blobs' /\ page[i] = blobs'[i] /\ cur.blobs < i
                 /\ \A i \in DOMAIN blobs', j \in todo : cur.blobs < i /\ i <= j => i \in todo
      <3>1. \A j \in todo : j \in DOMAIN blobs /\ page[j] = blobs[j] /\ cur.blobs < j
        BY <1>0, <1>1 DEF BlobPage
      <3>2. \A j \in todo : ~(k <= j)
        BY <1>0, <2>2, <3>1 DEF AppendsBlob
      <3> QED BY <1>0, <1>1, <2>2, <3>1, <3>2 DEF AppendsBlob, BlobPage
    <2> QED BY <1>0, <1>1, <2>1, <2>2
  <1>2. CASE PageTurns
    <2>1. ReadPage("blobs", cur') /\ UNCHANGED ledger
      BY <1>2 DEF PageTurns, ReadPage
    <2>2. todo' = Page("blobs", cur') /\ page' = [i \in todo' |-> blobs[i]] /\ blobs' = blobs
      BY <2>1 DEF ReadPage, ledger
    <2>3. /\ Candidates("blobs", cur') = {i \in DOMAIN blobs : i > cur'.blobs}
          /\ Candidates("blobs", cur') \subseteq Nat /\ cur'.blobs \in Nat
      BY <1>0, CursorsKept DEF Candidates, Cursors
    <2>4. \A i \in todo' : i \in DOMAIN blobs /\ i > cur'.blobs
      BY <2>2, <2>3 DEF Page
    <2>5. \A i \in todo' : page'[i] = blobs[i] /\ cur'.blobs < i
      BY <1>0, <2>2, <2>3, <2>4
    <2>6. ASSUME NEW i \in DOMAIN blobs, NEW j \in todo', cur'.blobs < i, i <= j PROVE i \in todo'
      <3>1. i \in Candidates("blobs", cur')
        BY <1>0, <2>3, <2>6
      <3> QED BY <2>2, <2>3, <2>6, <3>1, PageIsPrefix
    <2> QED BY <2>2, <2>4, <2>5, <2>6
  <1>3. ASSUME NEW n \in todo, NEW letters, Advances(n, letters)
        PROVE  /\ \A i \in todo' : i \in DOMAIN blobs' /\ page'[i] = blobs'[i] /\ cur'.blobs < i
               /\ \A i \in DOMAIN blobs', j \in todo' : cur'.blobs < i /\ i <= j => i \in todo'
    <2>1. stage = "blobs" /\ todo' = {m \in todo : m > n} /\ UNCHANGED <<page, blobs>>
      BY <1>3 DEF Advances, ledger
    <2>2. cur'.blobs = n
      BY <1>3, <2>1, SettleMoves DEF Advances, TypeOK
    <2>3. /\ n \in Nat /\ cur.blobs \in Nat /\ cur.blobs < n
          /\ \A i \in todo : i \in DOMAIN blobs /\ page[i] = blobs[i]
      BY <1>0, <2>1 DEF BlobPage, TypeOK, Cursors
    <2>4. \A m \in todo' : m \in todo /\ n < m
      BY <1>0, <2>1, <2>3
    <2>5. ASSUME NEW i \in DOMAIN blobs, NEW j \in todo', n < i, i <= j PROVE i \in todo'
      <3>1. cur.blobs < i
        BY <1>0, <2>3, <2>5
      <3>2. i \in todo
        BY <1>0, <2>1, <2>4, <2>5, <3>1 DEF BlobPage
      <3> QED BY <1>0, <2>1, <2>3, <2>5, <3>2
    <2> QED BY <2>1, <2>2, <2>3, <2>4, <2>5
  <1>4. ~GivesUp
    BY DEF GivesUp, Abandon
  <1> QED BY <1>1, <1>2, <1>3, <1>4, StepKinds
          DEF LedgerMoves, Posts, PostBatch, PostPart, WriteCursors, Continues, Receives, batch, vars

LEMMA BlobsSettledKept ==
  ASSUME IInv, [Next]_vars
  PROVE  BlobsSettled(disk)' /\ BlobsSettled(cur)'
  <1> USE DEF IInv
  <1> SUFFICES ASSUME rows' = Appended'
               PROVE  \A cursors \in {disk', cur'} :
                        /\ cursors.blobs = 0 \/ cursors.blobs \in DOMAIN blobs'
                        /\ \A i \in DOMAIN blobs' : i <= cursors.blobs =>
                             blobs'[i] \in stored' \/ <<"blobs", i>> \in cursors.dead
    BY DEF BlobsSettled
  <1>0. /\ rows = Appended /\ (blobs' = blobs \/ \E i : AppendsBlob(i))
        /\ DOMAIN blobs \subseteq Nat /\ 0 \notin DOMAIN blobs /\ stored \subseteq stored'
    BY BlobFacts, NothingTakenBack DEF TypeOK, RowidsArePositive
  <1>1. ASSUME NEW cursors \in {disk, cur, InitialCursors}
        PROVE  /\ cursors.blobs = 0 \/ cursors.blobs \in DOMAIN blobs'
               /\ \A i \in DOMAIN blobs' : i <= cursors.blobs =>
                    blobs'[i] \in stored' \/ <<"blobs", i>> \in cursors.dead
    <2>1. /\ cursors.blobs \in Nat
          /\ cursors.blobs = 0 \/ cursors.blobs \in DOMAIN blobs
          /\ \A i \in DOMAIN blobs : i <= cursors.blobs =>
               blobs[i] \in stored \/ <<"blobs", i>> \in cursors.dead
      <3>1. CASE cursors \in {disk, cur}
        BY <1>0, <3>1 DEF BlobsSettled, TypeOK, Cursors
      <3>2. CASE cursors = InitialCursors
        <4>1. cursors.blobs = 0
          BY <3>2 DEF InitialCursors
        <4>2. \A i \in DOMAIN blobs : ~(i <= 0)
          BY <1>0
        <4> QED BY <4>1, <4>2
      <3> QED BY <3>1, <3>2
    <2>2. CASE blobs' = blobs
      BY <1>0, <2>1, <2>2
    <2>3. ASSUME NEW k, AppendsBlob(k)
          PROVE  /\ cursors.blobs = 0 \/ cursors.blobs \in DOMAIN blobs'
                 /\ \A i \in DOMAIN blobs' : i <= cursors.blobs =>
                      blobs'[i] \in stored' \/ <<"blobs", i>> \in cursors.dead
      <3>1. ~(k <= cursors.blobs)
        BY <1>0, <2>1, <2>3 DEF AppendsBlob
      <3> QED BY <1>0, <2>1, <2>3, <3>1 DEF AppendsBlob
    <2> QED BY <1>0, <2>2, <2>3
  <1>2. ASSUME NEW n \in todo, NEW letters, Advances(n, letters)
        PROVE  /\ disk' = disk
               /\ cur'.blobs = 0 \/ cur'.blobs \in DOMAIN blobs'
               /\ \A i \in DOMAIN blobs' : i <= cur'.blobs =>
                    blobs'[i] \in stored' \/ <<"blobs", i>> \in cur'.dead
    <2>1. UNCHANGED <<disk, blobs, stored>> /\ stage \in Stages
      BY <1>2 DEF Advances, ledger, receiver
    <2>2. /\ cur'[stage] = n /\ cur'.dead = cur.dead \cup letters
          /\ \A s \in Stages \ {stage} : cur'[s] = cur[s]
      BY <1>2, SettleMoves DEF Advances, TypeOK
    <2>3. CASE stage # "blobs"
      <3>1. cur'.blobs = cur.blobs
        BY <2>2, <2>3 DEF Stages
      <3> QED BY <1>1, <2>1, <2>2, <3>1
    <2>4. CASE stage = "blobs"
      <3>1. /\ n \in DOMAIN blobs /\ page[n] = blobs[n] /\ cur'.blobs = n /\ n \in Nat /\ cur.blobs \in Nat
        BY <1>0, <2>2, <2>4 DEF BlobPage, TypeOK, Cursors
      <3>2. ASSUME NEW i \in DOMAIN blobs, i <= n
            PROVE  blobs[i] \in stored \/ <<"blobs", i>> \in cur'.dead
        <4>1. CASE i <= cur.blobs
          BY <1>1, <2>1, <2>2, <4>1
        <4>2. CASE ~(i <= cur.blobs)
          <5>1. i \in todo
            BY <1>0, <2>4, <3>1, <3>2, <4>2 DEF BlobPage
          <5>2. i = n
            BY <1>0, <1>2, <2>4, <3>1, <3>2, <5>1 DEF Advances, IsFirst
          <5> QED BY <1>2, <2>2, <2>4, <3>1, <5>2 DEF Advances
        <4> QED BY <4>1, <4>2
      <3> QED BY <2>1, <3>1, <3>2
    <2> QED BY <2>3, <2>4
  <1>3. CASE ~\E n \in todo : \E letters : Advances(n, letters)
    <2>1. cur' \in {disk, cur, InitialCursors} /\ disk' \in {disk, cur, InitialCursors}
      BY <1>3, StepKinds DEF LedgerMoves, PageTurns, Posts, PostBatch, PostPart, WriteCursors,
         Continues, GivesUp, Abandon, Receives, vars
    <2> QED BY <1>1, <2>1
  <1> QED BY <1>1, <1>2, <1>3

----------------------------------------------------------------------------
(* The theorems.                                                           *)

LEMMA InitHolds == Init => IInv
  <1> SUFFICES ASSUME Init PROVE IInv
    OBVIOUS
  <1> USE DEF Init
  <1>1. TypeOK
    <2>1. InitialCursors \in Cursors
      BY DEF InitialCursors, Cursors
    <2>2. NoRequest \in Requests /\ NoAnswer \in [kind : Answers \cup {"none", "retry"}, seq : Numbers]
      BY ForwardingAssumption DEF NoRequest, NoAnswer, Requests, Numbers
    <2>3. DOMAIN NoPage = {}
      BY DEF NoPage
    <2>4. last \in [Feeds -> {0} \cup Seqs] /\ rows \subseteq Rows /\ notified \in [Rows -> Nat]
      OBVIOUS
    <2>5. part \in 0..(Parts - 1) /\ faults \in 0..MaxFaults
      BY ForwardingAssumption
    <2> QED BY <2>1, <2>2, <2>3, <2>4, <2>5 DEF TypeOK
  <1>2. \A r \in Rows : r[1] \in Feeds /\ r[2] \in Nat \ {0}
    BY RowFacts
  <1>3. Appended = {}
    BY <1>2 DEF Appended
  <1>4. InLedger /\ RowsSettled(disk) /\ RowsSettled(cur)
    BY DEF InLedger, RowsSettled, InitialCursors, Feeds
  <1>5. FeedPage /\ WireFits /\ AnswerTells /\ PartsArrived /\ BlobPage
    BY DEF FeedPage, WireFits, AnswerTells, PartsArrived, BlobPage, Feeds
  <1>6. RequestsInOrder /\ PartRequests
    BY DEF RequestsInOrder, InOrderRequest, PartRequests, PartRequest, NoRequest, Feeds
  <1>7. OnlyPoisonIsParked /\ AnnouncedOnce /\ UnheardIsFinite
    <2>1. Unheard = {}
      BY DEF Unheard
    <2> QED BY <2>1, FS_EmptySet DEF OnlyPoisonIsParked, AnnouncedOnce, UnheardIsFinite, InitialCursors
  <1>8. StagedIsIncomplete
    BY ForwardingAssumption DEF StagedIsIncomplete
  <1>9. RowidsArePositive /\ BlobsSettled(disk) /\ BlobsSettled(cur)
    BY DEF RowidsArePositive, BlobsSettled, InitialCursors, NoPage
  <1> QED BY <1>1, <1>4, <1>5, <1>6, <1>7, <1>8, <1>9 DEF IInv

LEMMA NextKeeps == IInv /\ [Next]_vars => IInv'
  <1> SUFFICES ASSUME IInv, [Next]_vars PROVE IInv'
    OBVIOUS
  <1>1. AnnouncedOnce' /\ UnheardIsFinite' /\ StagedIsIncomplete'
    BY AnnouncedKept, ReceiverKept DEF ReceiverOK
  <1>2. RowidsArePositive'
    BY BlobFacts
  <1> QED BY <1>1, <1>2, TypeKept, InLedgerKept, RowsSettledKept, FeedPageKept, WireKept, AnswerKept,
             RequestsKept, PoisonKept, PartsKept, BlobPageKept, BlobsSettledKept DEF IInv

\* The inductive invariant of the forwarder, over forwardAvailableEvents and ingestBatch with
\* all of their faults.
THEOREM InvariantHolds == Spec => []IInv
  BY InitHolds, NextKeeps, PTL DEF Spec

\* Ledger, cursor file, request, page and receiver keep their shape.
THEOREM Typing == Spec => []TypeOK
  <1>1. IInv => TypeOK
    BY DEF IInv
  <1> QED BY <1>1, InvariantHolds, PTL

\* The durable cursors pass only what arrived or is a dead letter of the same file, whatever was
\* lost, refused, repeated or restarted.
THEOREM CursorsAreSafe == Spec => []CursorNeverSkips
  <1>1. IInv => CursorNeverSkips
    BY DEF IInv, CursorNeverSkips, NoBlobIsPassed, RowsSettled, BlobsSettled
  <1> QED BY <1>1, InvariantHolds, PTL

\* The forwarder parks no row the receiver could still take: a dead letter can never be delivered,
\* or has arrived and is told apart only by the identity the two daemons derive for it.
THEOREM ParkingIsJustified == Spec => []OnlyPoisonIsParked
  <1>1. IInv => OnlyPoisonIsParked
    BY DEF IInv
  <1> QED BY <1>1, InvariantHolds, PTL

\* Late and repeated requests announce no imported row a second time, and a fault between commit
\* and announcement silences one row at most.
THEOREM FanOutIsOnce == Spec => []AnnouncedOnce
  <1>1. IInv => AnnouncedOnce
    BY DEF IInv
  <1> QED BY <1>1, InvariantHolds, PTL

\* A new row arrives after everything before it that is still there and can be delivered.
LEMMA DeliveryIsInOrder ==
  ASSUME IInv, [Next]_vars, NEW r \in held' \ held, NEW q \in rows \ Undeliverable,
         q[1] = r[1], q[2] < r[2]
  PROVE  q \in held'
  <1>1. PICK req \in late \cup {wire} : Took(req)
    BY ReceiverKept DEF receiver
  <1>2. InOrderRequest(req)
    BY DEF IInv, RequestsInOrder
  <1>3. PICK n \in req.items : /\ r = <<req.feed, n>> /\ req.feed \in Feeds
                             /\ \A m \in req.items : m < n => <<req.feed, m>> \in held'
    BY <1>1 DEF Took
  <1>4. q = <<req.feed, q[2]>> /\ q[2] < n
    BY <1>3, RowFacts DEF IInv, TypeOK
  <1>5. q[2] \in req.items \/ q \in held
    BY <1>2, <1>3, <1>4 DEF InOrderRequest
  <1> QED BY <1>3, <1>4, <1>5, NothingTakenBack

\* A step of the forwarder appends, removes or delivers rows, or does nothing the outbox sees.
LEMMA StepImplementsOutbox == IInv /\ [Next]_vars => [Delivery!Next]_(Delivery!vars)
  <1> SUFFICES ASSUME IInv, [Next]_vars PROVE [Delivery!Next]_(Delivery!vars)
    OBVIOUS
  <1>0. rows \subseteq Appended /\ rows' \subseteq Appended' /\ InLedger'
    BY LedgerFacts, InLedgerKept DEF IInv, InLedger
  <1>1. ASSUME NEW f \in Feeds, Appends(f) PROVE Delivery!Append
    <2>1. last[f] \in Nat /\ last \in [Feeds -> {0} \cup Seqs]
      BY LedgerFacts DEF IInv, TypeOK
    <2> DEFINE row == <<f, last[f] + 1>>
    <2>2. row \in Rows /\ row[1] = f /\ row[2] = last[f] + 1
      BY <1>1, RowFacts DEF Appends
    <2>3. row \notin Appended /\ \A q \in Appended : ~Delivery!Precedes(row, q)
      <3>1. \A q \in Appended : q[2] \in Nat /\ q[2] <= last[q[1]]
        BY RowFacts DEF Appended
      <3> QED BY <2>1, <2>2, <3>1 DEF Delivery!Precedes
    <2>4. \A r \in Rows : r \in Appended' <=> r \in Appended \/ r = row
      <3>1. \A g \in Feeds : last'[g] = IF g = f THEN last[f] + 1 ELSE last[g]
        BY <1>1, <2>1 DEF Appends
      <3>2. \A r \in Rows : r[1] \in Feeds /\ r = <<r[1], r[2]>> /\ r[2] \in Nat
        BY RowFacts
      <3>3. \A k \in Nat : k <= last[f] + 1 <=> k <= last[f] \/ k = last[f] + 1
        BY <2>1
      <3> QED BY <2>2, <3>1, <3>2, <3>3 DEF Appended
    <2>5. Appended' = Appended \cup {row}
      BY <2>2, <2>4 DEF Appended
    <2>6. Appended' \ rows' = Appended \ rows /\ held' = held
      BY <1>0, <1>1, <2>3, <2>5 DEF Appends
    <2> QED BY <2>2, <2>3, <2>5, <2>6 DEF Delivery!Append
  <1>2. CASE last' = last /\ rows' \subseteq rows /\ held' = held
    <2>1. Appended' = Appended
      BY <1>2 DEF Appended
    <2> QED BY <1>0, <1>2, <2>1 DEF Delivery!Next, Delivery!Remove, Appended
  <1>3. CASE last' = last /\ rows' = rows
    <2>1. Appended' = Appended /\ held' \subseteq Appended /\ held \subseteq held'
      BY <1>0, <1>3, NothingTakenBack DEF Appended, InLedger
    <2>2. Appended \ ((Appended \ rows) \cup Undeliverable) = rows \ Undeliverable
      BY <1>0
    <2>3. \A r \in held' \ held : \A q \in rows \ Undeliverable : Delivery!Precedes(q, r) => q \in held'
      BY DeliveryIsInOrder DEF Delivery!Precedes
    <2> QED BY <1>3, <2>1, <2>2, <2>3 DEF Delivery!Next, Delivery!Deliver
  <1>4. \/ \E f \in Feeds : Appends(f)
        \/ last' = last /\ rows' \subseteq rows /\ held' = held
        \/ last' = last /\ rows' = rows
    <2>1. CASE LedgerMoves
      BY <2>1, LedgerKept DEF LedgerMoves, receiver
    <2>2. CASE ~LedgerMoves
      BY <2>2, StepKinds DEF PageTurns, Posts, PostBatch, PostPart, WriteCursors, Continues, GivesUp, Receives,
         Advances, ledger, vars
    <2> QED BY <2>1, <2>2
  <1> QED BY <1>1, <1>2, <1>3, <1>4 DEF Delivery!Next

\* The forwarder implements the outbox: rows arrive in the order of the ledger, none is taken
\* back, and only what can never be delivered or was pruned is left out.
THEOREM ForwarderImplementsOutbox == Spec => InOrder
  <1>1. Init => Delivery!Init
    <2>1. ASSUME Init PROVE Appended = {}
      BY <2>1, RowFacts DEF Init, Appended
    <2> QED BY <2>1 DEF Init, Delivery!Init
  <1> QED BY <1>1, StepImplementsOutbox, InvariantHolds, PTL DEF Spec, InOrder, Delivery!Spec

----------------------------------------------------------------------------
(* Progress is kept, and no blob is given up.                              *)

\* The file is behind the sweep, and the sweep behind its page.
FileIsBehind ==
  /\ \A s \in Stages : disk[s] <= cur[s]
  /\ disk.dead \subseteq cur.dead
  /\ stage = "blobs" => \A i \in todo : cur.blobs < i

\* While no runtime was pruned, every spilled row of the ledger has its blob ...
SpilledHasBlob ==
  rows = Appended => \A r \in rows \cap Spilled : \E i \in DOMAIN blobs : blobs[i] = r

\* ... and only what fits no frame is parked.
OnlyHugeIsParked(cursors) ==
  rows = Appended =>
    \A i : <<"blobs", i>> \in cursors.dead => i \in DOMAIN blobs /\ blobs[i] \in HugeBlobs

BlobInv == SpilledHasBlob /\ OnlyHugeIsParked(disk) /\ OnlyHugeIsParked(cur)

LEMMA CursorNumbers ==
  ASSUME IInv
  PROVE  /\ \A s \in Stages : disk[s] \in Nat /\ cur[s] \in Nat
         /\ \A s \in Stages : InitialCursors[s] = 0
         /\ todo \subseteq Nat
  <1>1. ASSUME NEW c \in Cursors, NEW s \in Stages PROVE c[s] \in Nat
    <2>1. {0} \cup Seqs \subseteq Nat
      BY RowFacts
    <2> QED BY <2>1 DEF Cursors, Stages, Feeds
  <1>2. \A s \in Stages : InitialCursors[s] = 0
    BY DEF InitialCursors, Stages, Feeds
  <1> QED BY <1>1, <1>2 DEF IInv, TypeOK

\* The cursor moves forward to an item of the page.
LEMMA AdvancesForward ==
  ASSUME IInv, FileIsBehind, NEW n \in todo, NEW letters, Advances(n, letters)
  PROVE  /\ cur[stage] < n /\ cur'[stage] = n /\ cur'.dead = cur.dead \cup letters
         /\ \A s \in Stages \ {stage} : cur'[s] = cur[s]
  <1>1. stage \in Stages /\ Settle(n, letters)
    BY DEF Advances
  <1>2. cur[stage] < n
    <2>1. CASE stage \in Feeds
      BY <2>1 DEF IInv, FeedPage
    <2>2. CASE stage = "blobs"
      BY <2>2 DEF FileIsBehind
    <2> QED BY <1>1, <2>1, <2>2 DEF Stages
  <1> QED BY <1>1, <1>2, SettleMoves DEF IInv, TypeOK

LEMMA FileBehindKept ==
  ASSUME IInv, FileIsBehind, "unreadable" \notin Hazards, [Next]_vars
  PROVE  FileIsBehind'
  <1> USE CursorNumbers
  <1>1. CASE UNCHANGED <<disk, cur, stage, todo>>
    BY <1>1 DEF FileIsBehind
  <1>2. CASE PageTurns
    <2>1. (\A s \in Stages : disk'[s] <= cur'[s]) /\ disk'.dead \subseteq cur'.dead
      BY <1>2 DEF PageTurns, FileIsBehind, CursorsUnreadable, Fault
    <2>2. ASSUME stage' = "blobs", NEW i \in todo' PROVE cur'.blobs < i
      <3>1. todo' = Page("blobs", cur')
        BY <1>2, <2>2 DEF PageTurns, ReadPage
      <3>2. i \in Nat /\ i > cur'.blobs
        BY <2>2, <3>1 DEF Page, Candidates, IInv, TypeOK
      <3>3. cur'.blobs \in Nat
        BY CursorsKept DEF Cursors
      <3> QED BY <3>2, <3>3
    <2> QED BY <2>1, <2>2 DEF FileIsBehind
  <1>3. ASSUME NEW n \in todo, NEW letters, Advances(n, letters) PROVE FileIsBehind'
    <2>1. /\ cur[stage] < n /\ cur'[stage] = n /\ cur'.dead = cur.dead \cup letters
          /\ \A s \in Stages \ {stage} : cur'[s] = cur[s]
      BY <1>3, AdvancesForward
    <2>2. stage \in Stages /\ UNCHANGED <<disk, stage>> /\ todo' = {m \in todo : m > n}
      BY <1>3 DEF Advances
    <2>3. \A s \in Stages : disk'[s] <= cur'[s]
      BY <2>1, <2>2 DEF FileIsBehind
    <2>4. stage' = "blobs" => \A i \in todo' : cur'.blobs < i
      BY <2>1, <2>2
    <2> QED BY <2>1, <2>2, <2>3, <2>4 DEF FileIsBehind
  <1>4. CASE WriteCursors
    BY <1>4 DEF WriteCursors, FileIsBehind, batch
  <1>5. CASE GivesUp
    BY <1>5 DEF GivesUp, Abandon, FileIsBehind
  <1> QED BY <1>1, <1>2, <1>3, <1>4, <1>5, StepKinds
          DEF LedgerMoves, Posts, PostBatch, PostPart, Continues, Receives, batch, vars

\* A write takes over cursors that are not behind the file.
LEMMA StepOnlyGrows ==
  ASSUME IInv, FileIsBehind, "unreadable" \notin Hazards, [Next]_vars
  PROVE  (\A s \in Stages : disk[s] <= disk'[s]) /\ disk.dead \subseteq disk'.dead
  <1>1. disk' = disk \/ WriteCursors
    BY StepKinds DEF LedgerMoves, PageTurns, CursorsUnreadable, Fault, Posts, PostBatch, PostPart, Continues, GivesUp, Receives,
       Advances, vars
  <1>2. CASE disk' = disk
    BY <1>2, CursorNumbers
  <1>3. CASE WriteCursors
    BY <1>3 DEF WriteCursors, FileIsBehind
  <1> QED BY <1>1, <1>2, <1>3

\* A row and its blob come in one transaction.
LEMMA SpilledHasBlobKept ==
  ASSUME IInv, SpilledHasBlob, [Next]_vars
  PROVE  SpilledHasBlob'
  <1> SUFFICES ASSUME rows' = Appended', NEW r \in rows' \cap Spilled
               PROVE  \E i \in DOMAIN blobs' : blobs'[i] = r
    BY DEF SpilledHasBlob
  <1>1. rows = Appended /\ (blobs' = blobs \/ \E i : AppendsBlob(i))
    BY BlobFacts
  <1>2. CASE r \in rows
    <2>1. PICK i \in DOMAIN blobs : blobs[i] = r
      BY <1>1, <1>2 DEF SpilledHasBlob
    <2> QED BY <1>1, <2>1 DEF AppendsBlob
  <1>3. CASE r \notin rows
    <2>1. LedgerMoves
      BY <1>3, StepKinds DEF PageTurns, Posts, PostBatch, PostPart, WriteCursors, Continues, GivesUp,
         Receives, Advances, ledger, vars
    <2>2. PICK f \in Feeds : AppendRow(f)
      BY <1>3, <2>1 DEF LedgerMoves, PruneRuntime
    <2>3. r = <<f, last[f] + 1>>
      BY <1>3, <2>2 DEF AppendRow
    <2>4. PICK i \in Rowids :
            blobs' = [j \in DOMAIN blobs \cup {i} |-> IF j = i THEN r ELSE blobs[j]]
      BY <2>2, <2>3 DEF AppendRow
    <2> QED BY <2>4
  <1> QED BY <1>2, <1>3

\* Only a part that fits no frame parks a blob.
LEMMA OnlyHugeKept ==
  ASSUME IInv, OnlyHugeIsParked(disk), OnlyHugeIsParked(cur), [Next]_vars
  PROVE  OnlyHugeIsParked(disk)' /\ OnlyHugeIsParked(cur)'
  <1> SUFFICES ASSUME rows' = Appended'
               PROVE  \A cursors \in {disk', cur'} : \A i : <<"blobs", i>> \in cursors.dead =>
                        i \in DOMAIN blobs' /\ blobs'[i] \in HugeBlobs
    BY DEF OnlyHugeIsParked
  <1>0. rows = Appended /\ (blobs' = blobs \/ \E i : AppendsBlob(i))
    BY BlobFacts
  <1>1. ASSUME NEW cursors \in {disk, cur, InitialCursors}, NEW i, <<"blobs", i>> \in cursors.dead
        PROVE  i \in DOMAIN blobs' /\ blobs'[i] \in HugeBlobs
    <2>1. i \in DOMAIN blobs /\ blobs[i] \in HugeBlobs
      BY <1>0, <1>1 DEF OnlyHugeIsParked, InitialCursors
    <2> QED BY <1>0, <2>1 DEF AppendsBlob
  <1>2. ASSUME NEW n \in todo, NEW letters, Advances(n, letters)
        PROVE  /\ disk' = disk
               /\ \A i : <<"blobs", i>> \in cur'.dead => i \in DOMAIN blobs' /\ blobs'[i] \in HugeBlobs
    <2>1. cur'.dead = cur.dead \cup letters /\ letters \subseteq {<<stage, n>>}
          /\ UNCHANGED <<disk, blobs>>
      BY <1>2, SettleMoves DEF Advances, IInv, TypeOK, ledger
    <2>2. ASSUME NEW i, <<"blobs", i>> \in letters PROVE i \in DOMAIN blobs' /\ blobs'[i] \in HugeBlobs
      <3>1. stage = "blobs" /\ i = n /\ page[n] \in HugeBlobs
        BY <1>2, <2>1, <2>2 DEF Advances
      <3> QED BY <1>0, <2>1, <3>1 DEF IInv, BlobPage
    <2> QED BY <1>1, <2>1, <2>2
  <1>3. CASE ~\E n \in todo : \E letters : Advances(n, letters)
    <2>1. cur' \in {disk, cur, InitialCursors} /\ disk' \in {disk, cur, InitialCursors}
      BY <1>3, StepKinds DEF LedgerMoves, PageTurns, Posts, PostBatch, PostPart, WriteCursors,
         Continues, GivesUp, Abandon, Receives, vars
    <2> QED BY <1>1, <2>1
  <1> QED BY <1>1, <1>2, <1>3

\* The invariant behind the sending of blobs.
LEMMA BlobInvHolds == Spec => []BlobInv
  <1>1. Init => BlobInv
    BY DEF Init, BlobInv, SpilledHasBlob, OnlyHugeIsParked, InitialCursors
  <1>2. IInv /\ BlobInv /\ [Next]_vars => BlobInv'
    BY SpilledHasBlobKept, OnlyHugeKept DEF BlobInv
  <1> QED BY <1>1, <1>2, InvariantHolds, PTL DEF Spec

\* As long as the cursor file can be read, no fault lets a sweep start behind an earlier one, or
\* forget what it parked.
THEOREM CursorsNeverMoveBack ==
  ASSUME "unreadable" \notin Hazards
  PROVE  Spec => CursorsOnlyGrow
  <1>1. Init => FileIsBehind
    BY DEF Init, FileIsBehind, InitialCursors, Stages, Feeds
  <1>2. IInv /\ FileIsBehind /\ [Next]_vars => FileIsBehind'
    BY FileBehindKept
  <1>3. IInv /\ FileIsBehind /\ [Next]_vars =>
          [(\A s \in Stages : disk[s] <= disk'[s]) /\ disk.dead \subseteq disk'.dead]_vars
    BY StepOnlyGrows
  <1> QED BY <1>1, <1>2, <1>3, InvariantHolds, PTL DEF Spec, CursorsOnlyGrow

\* Until a runtime is pruned, every spilled result that can be sent is complete at the receiver or
\* ahead of the durable cursor: the safety half of BlobFollowsRow.
THEOREM SpilledResultsAreKept == Spec => []BlobIsNotLost
  <1>1. ASSUME IInv, BlobInv, rows = Appended, NEW r \in (rows \cap Spilled) \ HugeBlobs
        PROVE  r \in stored \/ \E i \in DOMAIN blobs : blobs[i] = r /\ disk.blobs < i
    <2>1. PICK i \in DOMAIN blobs : blobs[i] = r
      BY <1>1 DEF BlobInv, SpilledHasBlob
    <2>2. i \in Nat /\ disk.blobs \in Nat
      BY <1>1 DEF IInv, TypeOK, Cursors
    <2>3. CASE i <= disk.blobs
      <3>1. r \in stored \/ <<"blobs", i>> \in disk.dead
        BY <1>1, <2>1, <2>3 DEF IInv, BlobsSettled
      <3>2. <<"blobs", i>> \notin disk.dead
        BY <1>1, <2>1 DEF BlobInv, OnlyHugeIsParked
      <3> QED BY <3>1, <3>2
    <2> QED BY <2>1, <2>2, <2>3
  <1>2. IInv /\ BlobInv => BlobIsNotLost
    BY <1>1 DEF BlobIsNotLost
  <1> QED BY <1>2, BlobInvHolds, InvariantHolds, PTL

\* Where no runtime is ever pruned the blob cursor passes nothing: pruning is the only way to the
\* loss that NoBlobIsPassed is violated by.
THEOREM NothingPassedWithoutPruning ==
  ASSUME "prune" \notin Hazards
  PROVE  Spec => []NoBlobIsPassed
  <1>1. Init => rows = Appended
    BY RowFacts DEF Init, Appended
  <1>2. IInv /\ rows = Appended /\ [Next]_vars => (rows = Appended)'
    <2> SUFFICES ASSUME IInv, rows = Appended, [Next]_vars PROVE (rows = Appended)'
      OBVIOUS
    <2>1. CASE last' = last /\ rows' = rows
      BY <2>1 DEF Appended
    <2>2. ASSUME NEW f \in Feeds, Appends(f) PROVE rows' = Appended'
      <3>1. rows' = rows \cup {<<f, last[f] + 1>>} /\ rows' \subseteq Appended'
        BY <2>2, LedgerFacts DEF Appends
      <3>2. \A g \in Feeds : last'[g] = IF g = f THEN last[f] + 1 ELSE last[g]
        BY <2>2 DEF Appends, IInv, TypeOK
      <3>3. ASSUME NEW r \in Appended' PROVE r \in rows'
        <4>1. r \in Rows /\ r[1] \in Feeds /\ r = <<r[1], r[2]>> /\ r[2] \in Nat /\ r[2] <= last'[r[1]]
          BY <3>3, RowFacts DEF Appended
        <4>2. last[f] \in Nat
          BY LedgerFacts
        <4>3. CASE r[1] = f /\ r[2] = last[f] + 1
          BY <3>1, <4>1, <4>3
        <4>4. CASE ~(r[1] = f /\ r[2] = last[f] + 1)
          <5>1. r[2] <= last[r[1]]
            BY <3>2, <4>1, <4>2, <4>4
          <5> QED BY <3>1, <4>1, <5>1 DEF Appended
        <4> QED BY <4>3, <4>4
      <3> QED BY <3>1, <3>3
    <2>3. \/ last' = last /\ rows' = rows
          \/ \E f \in Feeds : Appends(f)
      <3>1. CASE LedgerMoves
        <4>1. PICK f \in Feeds : AppendRow(f)
          BY <3>1 DEF LedgerMoves, PruneRuntime, Fault
        <4>2. last' # last
          <5>1. last[f] \in Nat /\ last \in [Feeds -> {0} \cup Seqs]
            BY LedgerFacts DEF IInv, TypeOK
          <5> QED BY <4>1, <5>1 DEF AppendRow
        <4> QED BY <4>2, LedgerKept
      <3>2. CASE ~LedgerMoves
        BY <3>2, StepKinds DEF PageTurns, Posts, PostBatch, PostPart, WriteCursors, Continues, GivesUp,
           Receives, Advances, ledger, vars
      <3> QED BY <3>1, <3>2
    <2> QED BY <2>1, <2>2, <2>3
  <1>3. IInv /\ rows = Appended => NoBlobIsPassed
    BY DEF IInv, BlobsSettled, NoBlobIsPassed
  <1> QED BY <1>1, <1>2, <1>3, InvariantHolds, PTL DEF Spec
=============================================================================
