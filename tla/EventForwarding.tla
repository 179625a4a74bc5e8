---------------------------- MODULE EventForwarding ----------------------------
(***************************************************************************)
(* A daemon that forwards its ledger to another daemon: the sweep over the *)
(* local tool-result blobs and the two event feeds, the ingest request on  *)
(* the wire, and the listener that applies it.                             *)
(*                                                                         *)
(* The sender keeps one cursor per feed and its dead letters in one file,  *)
(* replaced by a rename; a sweep works on a copy in memory.  The receiver  *)
(* knows rows by their source and origin sequence and blobs by their id.   *)
(* A request may be applied although its answer is lost, and may be        *)
(* applied late, next to the requests of a later sweep.                    *)
(***************************************************************************)
EXTENDS Integers, FiniteSets

CONSTANTS
  MaxRows,     \* bound on the rows of a feed
  BatchSize,   \* HRC_INGEST_MAX_BATCH_EVENTS
  Oversized,   \* rows that fit no frame on their own
  Foreign,     \* rows whose origin sequence the receiver holds with other content
  Unstable,    \* lifecycle rows whose identity the two daemons may derive differently
  Retained,    \* rows with evidenceOrigin 'retained'; they ride version 2
  AcceptsV2,   \* does the receiver know ingest version 2?
  Spilled,     \* rows whose tool result lies in a blob
  HugeBlobs,   \* spilled rows whose last part fits no frame
  Parts,       \* parts of a blob
  RuntimeOf,   \* runtime of a row
  Hazards,     \* what the environment may do, of AllHazards
  MaxFaults    \* bound on the faults of one behaviour

Feeds == {"hrc_events", "broker_invocation_events"}
Rows == UNION {{f} \X (1..MaxRows[f]) : f \in Feeds}
Seqs == UNION {1..MaxRows[f] : f \in Feeds}

\* "lost": the connection breaks, before or after the request is applied.  "late": the request
\* of a connection that is gone is still applied afterwards.  "crash", "receiver_crash": a
\* daemon dies.  "refuse": the receiver is busy or its store fails.  "write", "unreadable": the
\* cursor file cannot be written, or read.  "prune": a runtime goes, with its ledger rows.
AllHazards ==
  {"lost", "late", "crash", "receiver_crash", "refuse", "write", "unreadable", "prune"}

ASSUME ForwardingAssumption ==
  /\ MaxRows \in [Feeds -> Nat] /\ BatchSize \in Nat \ {0} /\ MaxFaults \in Nat /\ Parts \in Nat \ {0}
  /\ Oversized \subseteq Rows /\ Foreign \subseteq Rows /\ Retained \subseteq Rows
  /\ Unstable \subseteq {r \in Rows : r[1] = "hrc_events"}
  /\ Spilled \subseteq Rows /\ HugeBlobs \subseteq Spilled
  /\ AcceptsV2 \in BOOLEAN /\ Hazards \subseteq AllHazards

VARIABLES
  last,      \* sender: highest sequence each feed has allocated (durable)
  rows,      \* sender: rows of the ledger (durable)
  blobs,     \* sender: tool_result_blobs, from rowid to the row that spilled it (durable)
  disk,      \* sender: the cursor file (durable)
  cur,       \* sender: the cursors of the running sweep
  stage,     \* sender: the table the sweep is at, "idle" between sweeps
  todo,      \* sender: sequences (or rowids) of the page that are still to be settled
  page,      \* sender: the blobs of the page, as they were read
  part,      \* sender: next part of the first blob
  narrow,    \* sender: a refusal named no row, so the next request carries one
  pc,        \* sender: "next" request, "wait" for the answer, "write" the cursors
  wire,      \* the request it waits for, or NoRequest
  answer,    \* the answer to it, or NoAnswer
  late,      \* requests of connections that are gone
  held,      \* receiver: rows imported from this source (durable)
  staged,    \* receiver: parts of incomplete blobs (durable)
  stored,    \* receiver: complete blobs (durable)
  notified,  \* ghost: how often each imported row was fanned out
  faults     \* bound: faults so far

ledger == <<last, rows, blobs>>
batch == <<todo, page, part, narrow>>
receiver == <<held, staged, stored, notified>>
vars == <<last, rows, blobs, disk, cur, stage, todo, page, part, narrow, pc, wire, answer, late,
          held, staged, stored, notified, faults>>

Stages == Feeds \cup {"blobs"}

\* The order of a sweep.
NextStage(s) == CASE s = "blobs" -> "hrc_events"
                  [] s = "hrc_events" -> "broker_invocation_events"
                  [] OTHER -> "idle"

InitialCursors == [blobs |-> 0, hrc_events |-> 0, broker_invocation_events |-> 0, dead |-> {}]

NoBlob == <<"blobs", 0>>
NoPage == [i \in {} |-> NoBlob]
NoRequest == [feed |-> "idle", items |-> {}, through |-> 0, version |-> 0, blob |-> NoBlob]
NoAnswer == [kind |-> "none", seq |-> 0]

Init ==
  /\ last = [f \in Feeds |-> 0] /\ rows = {} /\ blobs = NoPage
  /\ disk = InitialCursors /\ cur = InitialCursors
  /\ stage = "idle" /\ todo = {} /\ page = NoPage /\ part = 0 /\ narrow = FALSE
  /\ pc = "next" /\ wire = NoRequest /\ answer = NoAnswer /\ late = {}
  /\ held = {} /\ staged = {} /\ stored = {}
  /\ notified = [r \in Rows |-> 0]
  /\ faults = 0

Fault(kind) == kind \in Hazards /\ faults < MaxFaults /\ faults' = faults + 1

----------------------------------------------------------------------------
(* The ledger of the sender.                                               *)

\* A new rowid is one above the largest that is left: the table has no AUTOINCREMENT.
IsNewRowid(i) ==
  /\ i \in Nat \ {0} /\ \A j \in DOMAIN blobs : j < i
  /\ i = 1 \/ i - 1 \in DOMAIN blobs

Rowids == 1..Cardinality(Spilled)

\* A row and its spilled tool result are written in one transaction.
AppendRow(f) ==
  /\ last[f] < MaxRows[f]
  /\ last' = [last EXCEPT ![f] = @ + 1]
  /\ LET row == <<f, last[f] + 1>>
     IN /\ rows' = rows \cup {row}
        /\ \/ row \notin Spilled /\ UNCHANGED blobs
           \/ /\ row \in Spilled
              /\ \E i \in Rowids :
                   /\ IsNewRowid(i)
                   /\ blobs' = [j \in DOMAIN blobs \cup {i} |-> IF j = i THEN row ELSE blobs[j]]
  /\ UNCHANGED <<disk, cur, stage, batch, pc, wire, answer, late, receiver, faults>>

\* deleteRuntimesWithLedgers: rows and blobs of a runtime go in one transaction.
PruneRuntime(rt) ==
  /\ \E r \in rows : RuntimeOf[r] = rt
  /\ Fault("prune")
  /\ rows' = {r \in rows : RuntimeOf[r] # rt}
  /\ blobs' = [i \in {j \in DOMAIN blobs : RuntimeOf[blobs[j]] # rt} |-> blobs[i]]
  /\ UNCHANGED <<last, disk, cur, stage, batch, pc, wire, answer, late, receiver>>

----------------------------------------------------------------------------
(* The sweep: forwardAvailableEvents.                                      *)

\* What lies behind the cursor, in order, at most a batch of it.
Candidates(s, cursors) ==
  IF s = "blobs" THEN {i \in DOMAIN blobs : i > cursors.blobs}
  ELSE {n \in Seqs : n > cursors[s] /\ <<s, n>> \in rows}

\* Mutant of Page: the newest rows instead of the oldest.
PageNewest(s, cursors) ==
  {n \in Candidates(s, cursors) :
     Cardinality({m \in Candidates(s, cursors) : m >= n}) <= BatchSize}

Page(s, cursors) ==
  {n \in Candidates(s, cursors) :
     Cardinality({m \in Candidates(s, cursors) : m <= n}) <= BatchSize}

\* The page of a table is read when its turn comes.
ReadPage(s, cursors) ==
  /\ stage' = s
  /\ todo' = IF s = "idle" THEN {} ELSE Page(s, cursors)
  /\ page' = IF s = "blobs" THEN [i \in todo' |-> blobs[i]] ELSE NoPage
  /\ part' = 0 /\ narrow' = FALSE

StartSweep ==
  /\ stage = "idle"
  /\ cur' = disk
  /\ ReadPage("blobs", disk)
  /\ UNCHANGED <<ledger, disk, pc, wire, answer, late, receiver, faults>>

\* Missing or invalid cursor state starts at the ledger beginning; so does a read that fails,
\* which leaves the file as it is until the sweep writes it.
CursorsUnreadable ==
  /\ stage = "idle" /\ Fault("unreadable")
  /\ disk' \in {disk, InitialCursors} /\ cur' = InitialCursors
  /\ ReadPage("blobs", InitialCursors)
  /\ UNCHANGED <<ledger, pc, wire, answer, late, receiver>>

NextTable ==
  /\ stage # "idle" /\ pc = "next" /\ todo = {}
  /\ ReadPage(NextStage(stage), cur)
  /\ UNCHANGED <<ledger, disk, cur, pc, wire, answer, late, receiver, faults>>

IsFirst(n) == n \in todo /\ \A m \in todo : n <= m

Version(f, n) == IF <<f, n>> \in Retained THEN 2 ELSE 1

\* originRuns: the rows at the head of the page that ride the same version.
OriginRun(head) ==
  {n \in todo : \A m \in todo : m <= n => Version(stage, m) = Version(stage, head)}

\* Mutant of Sendable: a refusal does not narrow the next request.
SendableWide(head, top) ==
  /\ top \in OriginRun(head)
  /\ \A n \in OriginRun(head) : n <= top => <<stage, n>> \notin Oversized

\* prepareBoundedBatch sends the longest prefix that fits a frame.  Bytes are abstracted: any
\* prefix without a row that is too large by itself may be the longest.  After a refusal
\* that named no row the prefix is one row.
Sendable(head, top) ==
  /\ top \in OriginRun(head) /\ (narrow => top = head)
  /\ \A n \in OriginRun(head) : n <= top => <<stage, n>> \notin Oversized

PostBatch ==
  /\ stage \in Feeds /\ pc = "next"
  /\ \E head, top \in todo :
       /\ IsFirst(head) /\ Sendable(head, top)
       /\ wire' = [feed |-> stage, items |-> {n \in OriginRun(head) : n <= top}, through |-> top,
                   version |-> Version(stage, head), blob |-> NoBlob]
  /\ pc' = "wait"
  /\ UNCHANGED <<ledger, disk, cur, stage, batch, answer, late, receiver, faults>>

PartTooLarge(blob) == blob \in HugeBlobs /\ part = Parts - 1

\* forwardBlobParts: one request for each part.
PostPart ==
  /\ stage = "blobs" /\ pc = "next"
  /\ \E head \in todo :
       /\ IsFirst(head) /\ ~PartTooLarge(page[head])
       /\ wire' = [feed |-> "blobs", items |-> {part}, through |-> part, version |-> 1,
                   blob |-> page[head]]
  /\ pc' = "wait"
  /\ UNCHANGED <<ledger, disk, cur, stage, batch, answer, late, receiver, faults>>

\* The cursor moves to what was acked or dead-lettered.
Settle(n, letters) ==
  cur' = [cur EXCEPT ![stage] = n, !.dead = @ \cup letters]

\* deadLetterAndAdvance of the row n; everything up to it leaves the page.
DeadLetter(n) ==
  /\ Settle(n, {<<stage, n>>})
  /\ todo' = {m \in todo : m > n}
  /\ part' = 0 /\ narrow' = FALSE /\ pc' = "write"

\* OversizedForwardEventError: nothing is sent.
Oversize ==
  /\ stage # "idle" /\ pc = "next"
  /\ \E head \in todo :
       /\ IsFirst(head)
       /\ IF stage = "blobs" THEN PartTooLarge(page[head]) ELSE <<stage, head>> \in Oversized
       /\ DeadLetter(head)
  /\ UNCHANGED <<ledger, disk, stage, page, wire, answer, late, receiver, faults>>

Answered(kind) == pc = "wait" /\ answer.kind = kind /\ wire' = NoRequest /\ answer' = NoAnswer

\* Mutant of BatchAcked: the cursor moves to the end of the page, not of the request.
BatchAckedPage ==
  /\ stage \in Feeds /\ Answered("ok")
  /\ \E n \in todo : (\A m \in todo : m <= n) /\ Settle(n, {})
  /\ todo' = todo \ wire.items
  /\ narrow' = FALSE /\ pc' = "write"
  /\ UNCHANGED <<ledger, disk, stage, page, part, late, receiver, faults>>

BatchAcked ==
  /\ stage \in Feeds /\ Answered("ok")
  /\ Settle(answer.seq, {})
  /\ todo' = todo \ wire.items
  /\ narrow' = FALSE /\ pc' = "write"
  /\ UNCHANGED <<ledger, disk, stage, page, part, late, receiver, faults>>

\* Mutant of PartAcked: the first part settles the blob.
PartAckedFirst ==
  /\ stage = "blobs" /\ Answered("ok")
  /\ \E head \in todo :
       /\ IsFirst(head)
       /\ Settle(head, {})
       /\ todo' = todo \ {head}
  /\ part' = 0 /\ pc' = "write"
  /\ UNCHANGED <<ledger, disk, stage, page, narrow, late, receiver, faults>>

\* Mutant of PartAcked: one part too many.
PartAckedOneMore ==
  /\ stage = "blobs" /\ Answered("ok")
  /\ IF part < Parts
     THEN part' = part + 1 /\ pc' = "next" /\ UNCHANGED <<cur, todo>>
     ELSE part' = 0 /\ pc' = "write" /\ UNCHANGED <<cur, todo>>
  /\ UNCHANGED <<ledger, disk, stage, page, narrow, late, receiver, faults>>

\* The cursor follows the last part of a blob.
PartAcked ==
  /\ stage = "blobs" /\ Answered("ok")
  /\ IF part + 1 < Parts
     THEN /\ part' = part + 1 /\ pc' = "next"
          /\ UNCHANGED <<cur, todo>>
     ELSE \E head \in todo :
          /\ IsFirst(head)
          /\ Settle(head, {})
          /\ todo' = todo \ {head}
          /\ part' = 0 /\ pc' = "write"
  /\ UNCHANGED <<ledger, disk, stage, page, narrow, late, receiver, faults>>

\* Mutant of RowRefused: the first row of the request is parked instead of the one named.
RowRefusedFirst ==
  /\ Answered("divergent_duplicate")
  /\ \E n \in wire.items : (\A m \in wire.items : n <= m) /\ DeadLetter(n)
  /\ UNCHANGED <<ledger, disk, stage, page, late, receiver, faults>>

\* divergent_duplicate names its row: what precedes it in the request was applied.
RowRefused ==
  /\ Answered("divergent_duplicate")
  /\ DeadLetter(answer.seq)
  /\ UNCHANGED <<ledger, disk, stage, page, late, receiver, faults>>

\* invalid_batch without a row: narrow a batch down to its first row, dead-letter a single one.
BatchRefused ==
  /\ Answered("invalid_batch")
  /\ IF Cardinality(wire.items) > 1
     THEN narrow' = TRUE /\ pc' = "next" /\ UNCHANGED <<cur, todo, part>>
     ELSE DeadLetter(wire.through)
  /\ UNCHANGED <<ledger, disk, stage, page, late, receiver, faults>>

WriteCursors ==
  /\ pc = "write"
  /\ disk' = cur /\ pc' = "next"
  /\ UNCHANGED <<ledger, cur, stage, batch, wire, answer, late, receiver, faults>>

\* The sweep throws or dies; the next one reads the file again.
Abandon ==
  /\ stage' = "idle" /\ todo' = {} /\ page' = NoPage /\ part' = 0 /\ narrow' = FALSE
  /\ pc' = "next" /\ cur' = disk /\ wire' = NoRequest /\ answer' = NoAnswer

WriteFails ==
  /\ pc = "write" /\ Fault("write")
  /\ Abandon
  /\ UNCHANGED <<ledger, disk, late, receiver>>

\* ingest_busy and ingest_error are retried by a later sweep.
RetryLater ==
  /\ pc = "wait" /\ answer.kind = "retry"
  /\ Abandon
  /\ UNCHANGED <<ledger, disk, late, receiver, faults>>

\* A request that nobody waits for any more is dropped or stays on its way.
Orphaned ==
  \/ late' = late
  \/ "late" \in Hazards /\ wire # NoRequest /\ answer = NoAnswer /\ late' = late \cup {wire}

ConnectionBreaks ==
  /\ pc = "wait" /\ Fault("lost")
  /\ Orphaned /\ Abandon
  /\ UNCHANGED <<ledger, disk, receiver>>

SenderCrashes ==
  /\ stage # "idle" /\ Fault("crash")
  /\ Orphaned /\ Abandon
  /\ UNCHANGED <<ledger, disk, receiver>>

----------------------------------------------------------------------------
(* The receiver: ingestBatch applies a request in one go, an item at a     *)
(* time.                                                                   *)

\* Fan-out of a new row; retained broker history never reaches the actuators.
Notifies(row) == row[1] = "hrc_events" \/ row \notin Retained

\* Mutant of Import: a duplicate is announced again.
ImportAnnouncesAll(f, items, unheard) ==
  LET all == {<<f, n>> : n \in items}
  IN /\ held' = held \cup all
     /\ notified' = [r \in Rows |-> IF r \in all /\ Notifies(r) THEN notified[r] + 1 ELSE notified[r]]

\* applyItem of each row of items: a row that is there already is a duplicate, a new one is
\* committed and then announced, but for the rows whose announcement fails.
Import(f, items, unheard) ==
  LET new == {<<f, n>> : n \in items} \ held
      heard == {r \in new \ unheard : Notifies(r)}
  IN /\ held' = held \cup new
     /\ notified' = [r \in Rows |-> IF r \in heard THEN notified[r] + 1 ELSE notified[r]]

\* ingestPart: stage the part; the last one completes the blob.
IngestPart(blob, p) ==
  LET parts == staged \cup {<<blob, p>>}
      complete == \A q \in 0..(Parts - 1) : <<blob, q>> \in parts
  IN IF blob \in stored THEN UNCHANGED <<staged, stored>>
     ELSE /\ stored' = IF complete THEN stored \cup {blob} ELSE stored
          /\ staged' = IF complete THEN {x \in parts : x[1] # blob} ELSE parts

\* appendImported compares a row it holds with the one sent, for lifecycle rows with the identity
\* that each daemon derives from its own continuities: the resend of an unstable row may be
\* found to differ.
MayDiffer(row) == row \in Foreign \/ row \in Unstable \cap held

\* The first row of a request that conflicts, if any.
IsConflict(req, n) ==
  /\ n \in req.items /\ MayDiffer(<<req.feed, n>>)
  /\ \A m \in req.items : m < n => <<req.feed, m>> \notin Foreign

Answers == {"ok", "divergent_duplicate", "invalid_batch"}
Numbers == Seqs \cup 0..Parts

Admitted(req) == req.version = 1 \/ AcceptsV2

\* ingestBatch of a request, with the answer it makes.
IngestBatch(req, kind, seq) ==
  \/ /\ ~Admitted(req)
     /\ kind = "invalid_batch" /\ seq = 0
     /\ UNCHANGED receiver
  \/ /\ req.feed = "blobs"
     /\ IngestPart(req.blob, req.through)
     /\ kind = "ok" /\ seq = req.through
     /\ UNCHANGED <<held, notified>>
  \/ /\ req.feed \in Feeds /\ Admitted(req)
     /\ \A n \in req.items : <<req.feed, n>> \notin Foreign
     /\ Import(req.feed, req.items, {})
     /\ kind = "ok" /\ seq = req.through
     /\ UNCHANGED <<staged, stored>>
  \/ /\ req.feed \in Feeds /\ Admitted(req)
     /\ IsConflict(req, seq)
     /\ Import(req.feed, {m \in req.items : m < seq}, {})
     /\ kind = "divergent_duplicate"
     /\ UNCHANGED <<staged, stored>>

\* The first rows of a request are applied, and then the store or the process fails: between two
\* rows, or between the commit of the last one and its announcement.
IngestBreaksOff(req) ==
  \/ UNCHANGED receiver
  \/ /\ req.feed \in Feeds /\ Admitted(req)
     /\ \E n \in req.items :
          /\ \A m \in req.items : m <= n => <<req.feed, m>> \notin Foreign
          /\ \E unheard \in {{}, {<<req.feed, n>>}} :
               Import(req.feed, {m \in req.items : m <= n}, unheard)
     /\ UNCHANGED <<staged, stored>>

Receive ==
  /\ pc = "wait" /\ answer = NoAnswer
  /\ \E kind \in Answers, seq \in Numbers :
       /\ IngestBatch(wire, kind, seq)
       /\ answer' = [kind |-> kind, seq |-> seq]
  /\ UNCHANGED <<ledger, disk, cur, stage, batch, pc, wire, late, faults>>

\* ingest_busy, or ingest_error at one of the rows or in a subscriber.
ReceiverRefuses ==
  /\ pc = "wait" /\ answer = NoAnswer /\ Fault("refuse")
  /\ IngestBreaksOff(wire)
  /\ answer' = [kind |-> "retry", seq |-> 0]
  /\ UNCHANGED <<ledger, disk, cur, stage, batch, pc, wire, late>>

ReceiverCrashes ==
  /\ pc = "wait" /\ answer = NoAnswer /\ Fault("receiver_crash")
  /\ \E req \in late \cup {wire} : IngestBreaksOff(req)
  /\ late' = {} /\ Abandon
  /\ UNCHANGED <<ledger, disk>>

\* The answer goes nowhere.
ReceiveLate(req) ==
  /\ \E kind \in Answers, seq \in Numbers : IngestBatch(req, kind, seq)
  /\ late' = late \ {req}
  /\ UNCHANGED <<ledger, disk, cur, stage, batch, pc, wire, answer, faults>>

SweepStep == StartSweep \/ NextTable \/ PostBatch \/ PostPart \/ Oversize \/ BatchAcked \/ PartAcked
             \/ RowRefused \/ BatchRefused \/ WriteCursors \/ RetryLater
SenderFault == CursorsUnreadable \/ WriteFails \/ ConnectionBreaks \/ SenderCrashes
ReceiverFault == ReceiverRefuses \/ ReceiverCrashes
LedgerStep == (\E f \in Feeds : AppendRow(f)) \/ (\E r \in rows : PruneRuntime(RuntimeOf[r]))

Next == LedgerStep \/ SweepStep \/ Receive \/ SenderFault \/ ReceiverFault
        \/ (\E req \in late : ReceiveLate(req))

Spec == Init /\ [][Next]_vars

\* The forwarder sweeps again after every sweep (its timer, or at once), and the receiver
\* answers a request on a live connection; nothing is assumed of faults and late requests.
FairSpec == Spec /\ WF_vars(SweepStep) /\ WF_vars(Receive)

----------------------------------------------------------------------------
(* Properties.                                                             *)

Requests ==
  [feed : Stages \cup {"idle"}, items : SUBSET Numbers, through : Numbers, version : 0..2,
   blob : Rows \cup {NoBlob}]
Cursors ==
  [blobs : Nat, hrc_events : {0} \cup Seqs, broker_invocation_events : {0} \cup Seqs,
   dead : SUBSET (Stages \X Nat)]

TypeOK ==
  /\ last \in [Feeds -> {0} \cup Seqs] /\ rows \subseteq Rows
  /\ DOMAIN blobs \subseteq Nat /\ \A i \in DOMAIN blobs : blobs[i] \in Spilled
  /\ disk \in Cursors /\ cur \in Cursors
  /\ stage \in Stages \cup {"idle"} /\ todo \subseteq Nat
  /\ DOMAIN page \subseteq Nat /\ \A i \in DOMAIN page : page[i] \in Spilled
  /\ part \in 0..(Parts - 1) /\ narrow \in BOOLEAN
  /\ pc \in {"next", "wait", "write"}
  /\ wire \in Requests /\ late \subseteq Requests
  /\ answer \in [kind : Answers \cup {"none", "retry"}, seq : Numbers]
  /\ held \subseteq Rows /\ stored \subseteq Spilled /\ staged \subseteq Spilled \X (0..(Parts - 1))
  /\ notified \in [Rows -> Nat]
  /\ faults \in 0..MaxFaults

Appended == {r \in Rows : r[2] <= last[r[1]]}

\* The blob cursor passes only blobs that arrived or are dead letters.
NoBlobIsPassed ==
  \A i \in DOMAIN blobs : i <= disk.blobs => blobs[i] \in stored \/ <<"blobs", i>> \in disk.dead

\* "A cursor advances only through what the receiver acked or what was dead-lettered, so a
\* transient failure never lets it pass an unsent row": of what the ledger holds, everything
\* behind a durable cursor has arrived, or the same file names it as a dead letter.  (For
\* blobs as long as no runtime was pruned: see NoBlobIsPassed.)
CursorNeverSkips ==
  /\ \A r \in rows : r[2] <= disk[r[1]] => r \in held \/ r \in disk.dead
  /\ rows = Appended => NoBlobIsPassed

\* What the receiver can never take: no retry of the same row would end differently.
Undeliverable ==
  Oversized \cup Foreign \cup (IF AcceptsV2 THEN {} ELSE Retained)

\* A refusal of a whole batch costs no row the receiver could take: a dead letter is a row that can
\* never be delivered, or the resend of one that has arrived and whose identity the two daemons
\* derive differently.
OnlyPoisonIsParked ==
  \A letter \in cur.dead \cup disk.dead :
    letter[1] # "blobs" => letter \in Undeliverable \cup (Unstable \cap held)

\* "identical resend acks no-op" (event-ingest.test.ts): no row that has arrived is ever a dead letter.
ArrivedIsNotParked == \A letter \in disk.dead : letter \notin held

\* Rows that were committed and not announced: their retry finds a duplicate.
Unheard == {r \in held : Notifies(r) /\ notified[r] = 0}

\* Retries, late requests and crashes repeat requests; an imported row is announced to the
\* subscribers of the receiver at most once, and retained broker history never.  The commit comes
\* before the announcement, so a fault in between silences a row for good: one row a fault.
AnnouncedOnce ==
  /\ \A r \in Rows : notified[r] <= 1 /\ (notified[r] = 1 => r \in held /\ Notifies(r))
  /\ Cardinality(Unheard) <= faults

\* Every imported row reaches the subscribers, whatever fails.
NobodyMissesARow == Unheard = {}

\* A poisoned row halts nothing: every row of the ledger is delivered, dead-lettered or pruned.
EveryRowSettles ==
  \A r \in Rows : r \in rows ~> r \in held \cup disk.dead \/ r \notin rows

\* A row that arrived before its blob gets it later, while no runtime is pruned.
BlobFollowsRow ==
  \A r \in Spilled \ HugeBlobs : r \in held ~> r \in stored \/ rows # Appended

\* A spilled result is never given up: while no runtime was pruned, what a row refers to is complete
\* at the receiver or still ahead of the durable cursor, so that the next sweep reads it again.
BlobIsNotLost ==
  rows = Appended =>
    \A r \in (rows \cap Spilled) \ HugeBlobs :
      r \in stored \/ \E i \in DOMAIN blobs : blobs[i] = r /\ disk.blobs < i

\* As long as the cursor file can be read, abandoned sweeps, late answers and failed writes move no
\* durable cursor back and forget no dead letter.
CursorsOnlyGrow ==
  [][(\A s \in Stages : disk[s] <= disk'[s]) /\ disk.dead \subseteq disk'.dead]_vars

\* The forwarder implements an outbox: rows arrive in the order of the ledger.
Delivery == INSTANCE Outbox WITH log <- Appended, removed <- Appended \ rows, delivered <- held

InOrder == Delivery!Spec
=============================================================================
