--------------------------- MODULE ParticipantsProofs ---------------------------
(***************************************************************************)
(* What the life of a participant promises for any number of attempts, any *)
(* retry budget and any faults: one writer at a time, no attempt stranded  *)
(* with its work done, nothing that was reached or terminated taken back.  *)
(***************************************************************************)
EXTENDS Participants, TLAPS

-----------------------------------------------------------------------------
(* The inductive invariant                                                 *)

\* The phases of an operation that has begun to establish its attempt.
Phases == {"realize", "install", "ensure", "stage", "activate", "replay",
           "publish"}

\* From the installation on the operation works with the host's broker.
BrokerPhases == Phases \ {"realize"}

\* From the staging on the runtime row has been materialized for the attempt.
StagedPhases == {"stage", "activate", "replay", "publish"}

\* Attempts are numbered without gaps; what was not minted yet is blank and idle.
Numbered ==
    /\ \A e \in Epochs : e > latest =>
          attempt[e] = NoAttempt /\ op[e].pc = "idle"
    /\ \A e \in Epochs : e <= latest =>
          attempt[e].runtime \in 1 .. e /\ attempt[e].state # "NONE"

\* An attempt that has a successor is settled and has no work left.
PastIsSettled ==
    \A e \in Epochs : e < latest => attempt[e].settled /\ attempt[e].work \notin Armed

\* A settled attempt is disposed of and its broker is not writing.
SettledIsDead ==
    \A e \in Epochs : attempt[e].settled => attempt[e].state \in Absorbing /\ broker[e] # "up"

\* Activation waits for every earlier attempt to be settled.
ActivatedAlone ==
    \A e \in Epochs : attempt[e].activated => \A p \in Epochs : p < e => attempt[p].settled

\* A broker appears with the attach that prepares its attempt.
AttachedTogether ==
    \A e \in Epochs :
        /\ broker[e] = "absent" <=> ~attempt[e].prepared
        /\ attempt[e].prepared \/ attempt[e].state \in {"NONE", "IDENTITY_MINTED", "ABANDONED"}
        /\ attempt[e].state = "ABANDONED" /\ ~attempt[e].prepared =>
             attempt[e].intent # NoIntent \/ attempt[e].work \notin Armed

\* A pre-attach replacement holds an attempt that no host attached to, that stopped right
\* behind its attach, or that was disposed of.
IntentsHold ==
    \A e \in Epochs : attempt[e].intent # NoIntent =>
        /\ e < MaxEpoch /\ e <= latest
        /\ attempt[e].intent.pre => attempt[e].intent.cand = "new"
        /\ attempt[e].intent.pre /\ attempt[e].prepared =>
             attempt[e].state \in {"PREPARED", "HOSTING_INTENT_PERSISTED"}
        /\ attempt[e].intent.cand = "new" /\ ~attempt[e].intent.pre => ~NeverAttached(e)

\* A drive that still holds its intent works on the current attempt, as it read it.
DrivesHold ==
    \A d \in drives :
        /\ d.e < MaxEpoch /\ d.e <= latest
        /\ d.e < latest => d.stale
        /\ d.stale \/ attempt[d.e].intent # NoIntent
        /\ Holds(d) =>
             /\ d.pre <=> attempt[d.e].intent.pre
             /\ ~d.ended /\ ~attempt[d.e].prepared => attempt[d.e].state # "ABANDONED"

\* An operation runs for an attached attempt that no pre-attach replacement holds.
RunsAttached ==
    \A e \in Epochs : op[e].pc \in Phases =>
        /\ attempt[e].prepared /\ (attempt[e].intent # NoIntent => ~attempt[e].intent.pre)
        /\ op[e].pc = "realize" => attempt[e].state # "ACTIVE"
        /\ op[e].pc \in {"replay", "publish"} => attempt[e].state \in {"ACTIVE"} \cup Absorbing

\* The work of an attempt, or what a cancelled replacement will give back of it, is completed
\* only when the attempt is served or disposed of.
WorkOf(a) == IF a.intent = NoIntent THEN a.work ELSE a.intent.work

WorkEndsServed ==
    \A e \in Epochs : e <= latest /\ WorkOf(attempt[e]) = "completed" =>
        attempt[e].state \in {"ACTIVE"} \cup Absorbing

\* A published client serves an attempt that was activated on its runtime, and no operation
\* reconnects it meanwhile.
ClientsServe ==
    /\ \A r \in Epochs : client[r] # 0 =>
         /\ attempt[client[r]].runtime = r
         /\ attempt[client[r]].state \in {"ACTIVE"} \cup Absorbing
    /\ \A e \in Epochs : op[e].pc \in BrokerPhases => \A r \in Epochs : client[r] # e

\* The replay of the operation carried the exit of its attempt.
Carried(e) == op[e].pc = "publish" /\ attempt[e].state = "TERMINAL"

\* While the broker lives, an operation works on an attempt that is not disposed of, and from
\* the staging on with the runtime row it materialized; unless its own replay ended both.
StagedRuntimeStands ==
    \A e \in Epochs : broker[e] = "up" =>
        /\ op[e].pc \in BrokerPhases => attempt[e].state \notin Absorbing \/ Carried(e)
        /\ op[e].pc \in StagedPhases =>
             RuntimeOf(e).inv = e /\ (RuntimeOf(e).status = "live" \/ Carried(e))

IInv ==
    /\ TypeOK /\ Numbered /\ PastIsSettled /\ SettledIsDead /\ ActivatedAlone
    /\ AttachedTogether /\ IntentsHold /\ DrivesHold /\ RunsAttached
    /\ WorkEndsServed /\ ClientsServe /\ StagedRuntimeStands

-----------------------------------------------------------------------------
(* What the operators of the model change                                  *)

\* Nothing that an attempt reached moves.
SameStand(a, b) ==
    /\ b.state = a.state /\ b.prepared = a.prepared /\ b.identity = a.identity
    /\ b.activated = a.activated /\ b.settled = a.settled /\ b.runtime = a.runtime

\* The work of attempt e was counted or closed, and nothing else of any attempt changed.
Counted(a, b, e) ==
    /\ b \in [Epochs -> Attempts]
    /\ \A x \in Epochs : x # e => b[x] = a[x]
    /\ SameStand(a[e], b[e]) /\ b[e].intent = a[e].intent
    /\ b[e].work \in Armed => a[e].work \in Armed

\* An operation of e ended or is due again; the other operations go on.
Paused(o, p, e) ==
    /\ p \in [Epochs -> Ops]
    /\ \A x \in Epochs : x # e => p[x] = o[x]
    /\ p[e].pc \in {"idle", "due"}

\* A failure changes the work and the count of its attempt, and completes nothing.
LEMMA FailedFact ==
    ASSUME NEW a \in [Epochs -> Attempts], NEW e \in Epochs, NEW max
    PROVE  /\ Counted(a, Failed(a, e, max), e)
           /\ Failed(a, e, max)[e].work = "completed" => a[e].work = "completed"
<1> DEFINE b == Failed(a, e, max)
<1>1. CASE a[e].work \notin Armed
  BY <1>1 DEF Failed, Counted, SameStand
<1>2. CASE a[e].work \in Armed
  <2> DEFINE w == IF a[e].count + 1 >= max THEN "exhausted" ELSE "retry_wait"
             c == IF a[e].count > MaxTries THEN a[e].count ELSE a[e].count + 1
  <2>1. b = [a EXCEPT ![e] = [a[e] EXCEPT !.count = c, !.work = w]]
    BY <1>2 DEF Failed, Attempts
  <2>2. c \in 0 .. MaxTries + 1 /\ w \in {"exhausted", "retry_wait"}
    BY ParticipantsAssumption DEF Attempts
  <2> HIDE DEF b, c, w
  <2>3. /\ [a[e] EXCEPT !.count = c, !.work = w] \in Attempts
        /\ SameStand(a[e], [a[e] EXCEPT !.count = c, !.work = w])
        /\ [a[e] EXCEPT !.count = c, !.work = w].intent = a[e].intent
        /\ [a[e] EXCEPT !.count = c, !.work = w].work = w
    BY <2>2 DEF Attempts, SameStand, WorkStates, Armed
  <2>4. /\ b[e] = [a[e] EXCEPT !.count = c, !.work = w]
        /\ b \in [Epochs -> Attempts]
        /\ \A x \in Epochs : x # e => b[x] = a[x]
    BY <2>1, <2>3
  <2> QED
    BY <1>2, <2>2, <2>3, <2>4 DEF Counted, b
<1> QED
  BY <1>1, <1>2

\* Completing the work of an attempt leaves what it reached.
LEMMA CompletedFact ==
    ASSUME NEW a \in [Epochs -> Attempts], NEW e \in Epochs
    PROVE  Counted(a, Completed(a, e), e)
<1>1. CASE a[e].work \notin Armed
  BY <1>1 DEF Completed, Counted, SameStand
<1>2. CASE a[e].work \in Armed
  <2>1. /\ [a[e] EXCEPT !.work = "completed"] \in Attempts
        /\ SameStand(a[e], [a[e] EXCEPT !.work = "completed"])
        /\ [a[e] EXCEPT !.work = "completed"].intent = a[e].intent
    BY DEF Attempts, SameStand, WorkStates, Armed
  <2> QED
    BY <1>2, <2>1 DEF Completed, Counted
<1> QED
  BY <1>1, <1>2

\* Scheduling makes an idle operation due, and only that of an attempt with work to do.
LEMMA ScheduledFact ==
    ASSUME NEW o \in [Epochs -> Ops], NEW a, NEW e \in Epochs
    PROVE  /\ Scheduled(o, a, e) \in [Epochs -> Ops]
           /\ \A x \in Epochs : x # e => Scheduled(o, a, e)[x] = o[x]
           /\ \/ Scheduled(o, a, e)[e] = o[e]
              \/ o[e].pc = "idle" /\ Scheduled(o, a, e)[e] = Due /\ a[e].work \in Armed
<1>1. Due \in Ops
  BY DEF Due, Idle, Ops, AttemptStates
<1> QED
  BY <1>1 DEF Scheduled

\* An operation that threw counted its failure and is idle or due again.
LEMMA ThrowsFact ==
    ASSUME NEW a \in [Epochs -> Attempts], NEW e \in Epochs, NEW max, NEW lost,
           op \in [Epochs -> Ops], settling \subseteq Epochs, lost \subseteq Epochs,
           Throws(a, e, max, lost)
    PROVE  /\ Counted(a, attempt', e) /\ Paused(op, op', e) /\ settling' \subseteq Epochs
           /\ attempt'[e].work = "completed" => a[e].work = "completed"
<1> DEFINE b == Failed(a, e, max)
           o == [op EXCEPT ![e] = Idle]
<1>1. Idle \in Ops /\ Idle.pc = "idle" /\ Due.pc = "due"
  BY DEF Idle, Due, Ops, AttemptStates
<1>2. o \in [Epochs -> Ops] /\ o[e] = Idle /\ \A x \in Epochs : x # e => o[x] = op[x]
  BY <1>1
<1>3. /\ attempt' = b
      /\ op' = o \/ op' = Scheduled(o, b, e)
      /\ settling' \subseteq settling \cup lost \cup {e}
  BY DEF Throws
<1> HIDE DEF b, o
<1>4. Paused(op, op', e)
  <2>1. CASE op' = o
    BY <1>1, <1>2, <2>1 DEF Paused
  <2>2. CASE op' = Scheduled(o, b, e)
    <3>1. /\ op' \in [Epochs -> Ops]
          /\ \A x \in Epochs : x # e => op'[x] = o[x]
          /\ op'[e] = o[e] \/ op'[e] = Due
      BY <1>2, <2>2, ScheduledFact
    <3> QED
      BY <1>1, <1>2, <3>1 DEF Paused
  <2> QED
    BY <1>3, <2>1, <2>2
<1>5. Counted(a, attempt', e) /\ (attempt'[e].work = "completed" => a[e].work = "completed")
  BY <1>3, FailedFact DEF b
<1> QED
  BY <1>3, <1>4, <1>5

-----------------------------------------------------------------------------
(* Steps that keep the books: no attempt moves                             *)

\* The attempt is served, or it was disposed of.
Served(a) == a.state \in {"ACTIVE"} \cup Absorbing

\* Attempts stay where they are, work and intents are closed or given back, operations pause,
\* drives end or become stale, clients and brokers disappear.
KeepsBooks ==
    /\ TypeOK'
    /\ latest' = latest /\ runtime' = runtime
    /\ \A e \in Epochs :
        /\ SameStand(attempt[e], attempt'[e])
        /\ attempt'[e].intent \in {attempt[e].intent, NoIntent}
        /\ e > latest => attempt'[e] = attempt[e] /\ op'[e].pc = "idle"
        /\ e < latest /\ attempt'[e].work \in Armed => attempt[e].work \in Armed
        /\ WorkOf(attempt'[e]) = "completed" =>
             WorkOf(attempt[e]) = "completed" \/ Served(attempt[e])
        /\ attempt[e].state = "ABANDONED" /\ ~attempt[e].prepared =>
             attempt'[e].intent # NoIntent \/ attempt'[e].work \notin Armed
        /\ op'[e] = op[e] \/ op'[e].pc \notin Phases
        /\ broker'[e] = "absent" <=> broker[e] = "absent"
        /\ broker'[e] = "up" => broker[e] = "up"
        /\ client'[e] \in {client[e], 0}
    /\ \A d \in drives' : \E c \in drives :
        /\ c.e = d.e /\ c.pre = d.pre /\ c.ended = d.ended /\ (c.stale => d.stale)
        /\ d.stale \/ attempt'[c.e].intent = attempt[c.e].intent

\* Such a step keeps the invariant.
LEMMA BooksKept == IInv /\ KeepsBooks => IInv'
<1> SUFFICES ASSUME IInv, KeepsBooks PROVE IInv'
  OBVIOUS
<1>1. Numbered'
  <2>1. \A e \in Epochs :
          /\ SameStand(attempt[e], attempt'[e])
          /\ e > latest => attempt'[e] = attempt[e] /\ op'[e].pc = "idle"
    BY DEF KeepsBooks
  <2>2. latest' = latest /\ latest \in Nat /\ Epochs \subseteq Nat
    BY ParticipantsAssumption DEF IInv, TypeOK, KeepsBooks, Epochs
  <2>3. ASSUME NEW e \in Epochs, e > latest
        PROVE  attempt'[e] = NoAttempt /\ op'[e].pc = "idle"
    BY <2>1, <2>2, <2>3 DEF IInv, Numbered
  <2>4. ASSUME NEW e \in Epochs, e <= latest
        PROVE  attempt'[e].runtime \in 1 .. e /\ attempt'[e].state # "NONE"
    BY <2>1, <2>2, <2>4 DEF IInv, Numbered, SameStand
  <2> QED
    BY <2>2, <2>3, <2>4 DEF Numbered
<1>2. PastIsSettled'
  BY DEF IInv, KeepsBooks, PastIsSettled, SameStand
<1>3. SettledIsDead'
  BY DEF IInv, KeepsBooks, SettledIsDead, SameStand
<1>4. ActivatedAlone'
  BY DEF IInv, KeepsBooks, ActivatedAlone, SameStand
<1>5. AttachedTogether'
  BY DEF IInv, KeepsBooks, AttachedTogether, SameStand
<1>6. \A e \in Epochs : NeverAttached(e)' => NeverAttached(e)
  BY DEF KeepsBooks, NeverAttached, RuntimeOf, SameStand
<1>7. IntentsHold'
  BY <1>6 DEF IInv, KeepsBooks, IntentsHold, SameStand
<1>8. DrivesHold'
  <2>1. SUFFICES ASSUME NEW d \in drives'
                 PROVE  /\ d.e < MaxEpoch /\ d.e <= latest
                        /\ d.e < latest => d.stale
                        /\ d.stale \/ attempt'[d.e].intent # NoIntent
                        /\ Holds(d)' =>
                             /\ d.pre <=> attempt'[d.e].intent.pre
                             /\ ~d.ended /\ ~attempt'[d.e].prepared =>
                                  attempt'[d.e].state # "ABANDONED"
    BY DEF DrivesHold, KeepsBooks
  <2>2. PICK c \in drives :
          /\ c.e = d.e /\ c.pre = d.pre /\ c.ended = d.ended /\ (c.stale => d.stale)
          /\ d.stale \/ attempt'[c.e].intent = attempt[c.e].intent
    BY DEF KeepsBooks
  <2>3. d.e \in Epochs
    BY <2>2 DEF IInv, TypeOK, Drives
  <2>4. Holds(d)' => Holds(c) /\ attempt'[d.e].intent = attempt[d.e].intent
    BY <2>2, <2>3 DEF Holds, KeepsBooks
  <2> QED
    BY <2>2, <2>3, <2>4 DEF IInv, DrivesHold, KeepsBooks, SameStand
<1>9. RunsAttached'
  BY DEF IInv, KeepsBooks, RunsAttached, SameStand
<1>10. WorkEndsServed'
  BY DEF IInv, KeepsBooks, WorkEndsServed, Served, SameStand
<1>11. ClientsServe'
  <2>1. \A r \in Epochs : client'[r] # 0 => client'[r] = client[r] /\ client[r] \in Epochs
    BY ParticipantsAssumption DEF IInv, TypeOK, KeepsBooks, Epochs
  <2>2. \A e \in Epochs : op'[e].pc \in BrokerPhases => op'[e] = op[e]
    BY DEF KeepsBooks, Phases, BrokerPhases
  <2>3. ASSUME NEW r \in Epochs, client'[r] # 0
        PROVE  /\ attempt'[client'[r]].runtime = r
               /\ attempt'[client'[r]].state \in {"ACTIVE"} \cup Absorbing
    BY <2>1, <2>3 DEF IInv, KeepsBooks, ClientsServe, SameStand
  <2>4. ASSUME NEW e \in Epochs, op'[e].pc \in BrokerPhases, NEW r \in Epochs
        PROVE  client'[r] # e
    <3>1. client[r] # e
      BY <2>2, <2>4 DEF IInv, ClientsServe
    <3>2. e # 0
      BY ParticipantsAssumption DEF Epochs
    <3> QED
      BY <2>1, <3>1, <3>2
  <2> QED
    BY <2>3, <2>4 DEF ClientsServe
<1>12. StagedRuntimeStands'
  <2>1. \A e \in Epochs :
           op'[e].pc \in BrokerPhases \/ op'[e].pc \in StagedPhases => op'[e] = op[e]
    BY DEF KeepsBooks, Phases, BrokerPhases, StagedPhases
  <2> QED
    BY <2>1 DEF IInv, KeepsBooks, StagedRuntimeStands, Carried, RuntimeOf, SameStand
<1> QED
  BY <1>1, <1>2, <1>3, <1>4, <1>5, <1>7, <1>8, <1>9, <1>10, <1>11, <1>12
     DEF IInv, KeepsBooks

-----------------------------------------------------------------------------
(* Steps that move one attempt towards its activation                      *)

\* No published client serves e.
Unserved(e) == \A r \in Epochs : client[r] # e

\* Nothing but attempt e moves, and it is attached: its state may change while it is neither
\* served nor disposed of, its operation goes on, and its runtime row may be materialized.
Advances(e) ==
    /\ TypeOK'
    /\ latest' = latest /\ broker' = broker /\ client' = client /\ drives' = drives
    /\ e <= latest /\ attempt[e].prepared
    /\ \A x \in Epochs : x # e => attempt'[x] = attempt[x] /\ op'[x] = op[x]
    /\ attempt'[e].prepared /\ attempt'[e].settled = attempt[e].settled
    /\ attempt'[e].runtime = attempt[e].runtime
    /\ attempt'[e].intent = attempt[e].intent
    /\ attempt'[e].work \in Armed => attempt[e].work \in Armed
    /\ WorkOf(attempt'[e]) = "completed" => WorkOf(attempt[e]) = "completed"
    /\ attempt'[e].activated => attempt[e].activated \/ PriorSettled(e)
    /\ \/ attempt'[e].state = attempt[e].state
       \/ /\ attempt[e].state \notin Absorbing
          /\ attempt'[e].state \notin {"NONE"} \cup Absorbing
          /\ Unserved(e) /\ WorkOf(attempt[e]) # "completed"
    /\ attempt[e].intent # NoIntent /\ attempt[e].intent.pre =>
         attempt'[e].state \in {"PREPARED", "HOSTING_INTENT_PERSISTED"}
    /\ op'[e].pc \in Phases =>
         /\ attempt[e].intent # NoIntent => ~attempt[e].intent.pre
         /\ op'[e].pc = "realize" => attempt'[e].state # "ACTIVE"
         /\ op'[e].pc \in {"replay", "publish"} => attempt'[e].state \in {"ACTIVE"} \cup Absorbing
    /\ op'[e].pc \in BrokerPhases =>
         Unserved(e) /\ (broker[e] = "up" => attempt'[e].state \notin Absorbing)
    /\ op'[e].pc \in StagedPhases /\ broker[e] = "up" =>
         runtime'[attempt[e].runtime].status = "live" /\ runtime'[attempt[e].runtime].inv = e
    /\ \/ runtime' = runtime
       \/ /\ broker[e] = "up"
          /\ runtime' = [runtime EXCEPT ![attempt[e].runtime] = [status |-> "live", inv |-> e]]

\* Only the current attempt can have a living broker.
LEMMA OneBroker ==
    ASSUME IInv, NEW x \in Epochs, NEW y \in Epochs, x <= latest, y <= latest,
           broker[x] = "up", broker[y] = "up"
    PROVE  x = y
<1>1. \A z \in Epochs : broker[z] = "up" => ~(z < latest)
  BY DEF IInv, PastIsSettled, SettledIsDead
<1>2. latest \in Nat /\ x \in Nat /\ y \in Nat
  BY ParticipantsAssumption DEF IInv, TypeOK, Epochs
<1> QED
  BY <1>1, <1>2

\* Such a step keeps the invariant.
LEMMA AdvanceKeeps ==
    ASSUME IInv, NEW e \in Epochs, Advances(e)
    PROVE  IInv'
<1> USE DEF SameStand
<1>0. ParticipantsAssumption /\ Epochs \subseteq Nat /\ latest \in Nat
  BY ParticipantsAssumption DEF Epochs, IInv, TypeOK
<1>1. Numbered'
  BY <1>0 DEF IInv, Advances, Numbered
<1>2. PastIsSettled'
  BY <1>0 DEF IInv, Advances, PastIsSettled
<1>3. SettledIsDead'
  BY DEF IInv, Advances, SettledIsDead
<1>4. ActivatedAlone'
  <2>1. \A x \in Epochs : attempt'[x].settled = attempt[x].settled
    BY DEF Advances
  <2>2. \A x \in Epochs : attempt'[x].activated => attempt[x].activated \/ PriorSettled(x)
    BY DEF Advances
  <2> QED
    BY <2>1, <2>2 DEF IInv, ActivatedAlone, PriorSettled
<1>5. AttachedTogether'
  BY DEF IInv, Advances, AttachedTogether
<1>6. \A x \in Epochs : NeverAttached(x)' => NeverAttached(x)
  <2>1. \A r \in Epochs : runtime'[r].status = "none" => runtime[r].status = "none"
    BY DEF IInv, TypeOK, Advances
  <2>2. \A x \in Epochs : NeverAttached(x)' => x # e /\ x <= latest
    BY <1>0 DEF IInv, Numbered, Advances, NeverAttached, NoAttempt
  <2>3. \A x \in Epochs : x <= latest => attempt[x].runtime \in Epochs
    BY <1>0 DEF IInv, Numbered, Epochs, TypeOK
  <2> QED
    BY <2>1, <2>2, <2>3 DEF Advances, NeverAttached, RuntimeOf
<1>7. IntentsHold'
  BY <1>6 DEF IInv, Advances, IntentsHold
<1>8. DrivesHold'
  <2>1. \A d \in drives : d.e \in Epochs
    BY DEF IInv, TypeOK, Drives
  <2>2. \A d \in drives : Holds(d)' => Holds(d)
    BY <2>1 DEF Holds, Advances
  <2> QED
    BY <2>1, <2>2 DEF IInv, DrivesHold, Advances
<1>9. RunsAttached'
  BY DEF IInv, Advances, RunsAttached
<1>10. WorkEndsServed'
  BY DEF IInv, Advances, WorkEndsServed
<1>11. ClientsServe'
  <2>1. ASSUME NEW r \in Epochs, client[r] # 0
        PROVE  /\ attempt'[client[r]].runtime = r
               /\ attempt'[client[r]].state \in {"ACTIVE"} \cup Absorbing
    <3>1. client[r] \in Epochs
      BY <1>0, <2>1 DEF IInv, TypeOK, Epochs
    <3> QED
      BY <2>1, <3>1 DEF IInv, Advances, ClientsServe, Unserved
  <2>2. ASSUME NEW x \in Epochs, op'[x].pc \in BrokerPhases, NEW r \in Epochs
        PROVE  client[r] # x
    BY <2>2 DEF IInv, Advances, ClientsServe, Unserved
  <2> QED
    BY <2>1, <2>2 DEF ClientsServe, Advances
<1>12. StagedRuntimeStands'
  <2> SUFFICES ASSUME NEW x \in Epochs, broker[x] = "up"
               PROVE  /\ op'[x].pc \in BrokerPhases =>
                           attempt'[x].state \notin Absorbing \/ Carried(x)'
                      /\ op'[x].pc \in StagedPhases =>
                           /\ runtime'[attempt'[x].runtime].inv = x
                           /\ \/ runtime'[attempt'[x].runtime].status = "live"
                              \/ Carried(x)'
    BY DEF StagedRuntimeStands, RuntimeOf, Advances
  <2>1. CASE x = e
    BY <2>1 DEF Advances
  <2>2. CASE x # e
    <3>1. op'[x] = op[x] /\ attempt'[x] = attempt[x]
      BY <2>2 DEF Advances
    <3>2. CASE op[x].pc \notin StagedPhases
      BY <3>1, <3>2 DEF IInv, StagedRuntimeStands, Carried
    <3>3. CASE op[x].pc \in StagedPhases
      <4>1. x <= latest
        BY <1>0, <3>3 DEF IInv, Numbered, StagedPhases
      <4>2. broker[e] # "up"
        BY <2>2, <4>1, OneBroker DEF Advances
      <4> QED
        BY <3>1, <4>2 DEF IInv, StagedRuntimeStands, Carried, RuntimeOf, Advances
    <3> QED
      BY <3>2, <3>3
  <2> QED
    BY <2>1, <2>2
<1> QED
  BY <1>1, <1>2, <1>3, <1>4, <1>5, <1>7, <1>8, <1>9, <1>10, <1>11, <1>12
     DEF IInv, Advances

-----------------------------------------------------------------------------
(* One lemma per action that keeps the books                               *)

\* What the drives work on are attempts.
LEMMA DrivesFact ==
    ASSUME IInv
    PROVE  drives \subseteq Drives /\ \A d \in drives : d.e \in Epochs
BY DEF IInv, TypeOK, Drives

\* An operation pauses, with or without a failure that is counted.
LEMMA PauseKeeps ==
    ASSUME IInv, NEW e \in Epochs, e <= latest,
           Counted(attempt, attempt', e), Paused(op, op', e),
           attempt'[e].work = "completed" =>
               attempt[e].work = "completed" \/ Served(attempt[e]),
           settling' \subseteq Epochs, staged' \subseteq Epochs, faults' \in [Faults -> Nat],
           UNCHANGED <<latest, runtime, binding, up, client, hosting, drives, broker>>
    PROVE  IInv'
<1>1. TypeOK'
  BY DEF IInv, TypeOK, Counted, Paused
<1>2. ASSUME NEW x \in Epochs
      PROVE  /\ SameStand(attempt[x], attempt'[x]) /\ attempt'[x].intent = attempt[x].intent
             /\ attempt'[x].work \in Armed => attempt[x].work \in Armed
             /\ x # e => attempt'[x] = attempt[x] /\ op'[x] = op[x]
             /\ op'[x] = op[x] \/ op'[x].pc \notin Phases
             /\ WorkOf(attempt'[x]) = "completed" =>
                  WorkOf(attempt[x]) = "completed" \/ Served(attempt[x])
  BY DEF Counted, SameStand, Paused, WorkOf, Phases
<1>3. \A x \in Epochs : x > latest => x # e /\ op[x].pc = "idle"
  BY ParticipantsAssumption DEF IInv, TypeOK, Epochs, Numbered
<1>4. \A x \in Epochs : attempt[x].state = "ABANDONED" /\ ~attempt[x].prepared =>
         attempt[x].intent # NoIntent \/ attempt[x].work \notin Armed
  BY DEF IInv, AttachedTogether
<1>5. KeepsBooks
  BY <1>1, <1>2, <1>3, <1>4, DrivesFact DEF KeepsBooks
<1> QED
  BY <1>5, BooksKept

\* A step that touches only what no part of the invariant but the typing constrains.
LEMMA AsideKeeps ==
    ASSUME IInv, settling' \subseteq Epochs, staged' \subseteq Epochs, hosting' \subseteq Epochs,
           faults' \in [Faults -> Nat],
           UNCHANGED <<rows, up, client, op, drives, broker>>
    PROVE  IInv'
<1>1. TypeOK'
  BY DEF IInv, TypeOK, rows
<1>2. \A x \in Epochs :
         /\ x > latest => op[x].pc = "idle"
         /\ attempt[x].state = "ABANDONED" /\ ~attempt[x].prepared =>
             attempt[x].intent # NoIntent \/ attempt[x].work \notin Armed
  BY DEF IInv, AttachedTogether, Numbered
<1>3. KeepsBooks
  BY <1>1, <1>2 DEF KeepsBooks, rows, SameStand
<1> QED
  BY <1>3, BooksKept

\* Counting a fault keeps the counts numbers.
LEMMA FaultFact ==
    ASSUME IInv, NEW kind, Fault(kind)
    PROVE  faults' \in [Faults -> Nat]
BY DEF IInv, TypeOK, Fault

\* What an operation works on was registered.
LEMMA OperationIsKnown ==
    ASSUME IInv, NEW e \in Epochs, op[e].pc # "idle"
    PROVE  e <= latest /\ attempt[e].runtime \in Epochs
BY ParticipantsAssumption DEF IInv, TypeOK, Numbered, Epochs

LEMMA RunNothingKeeps ==
    ASSUME IInv, NEW e \in Epochs, RunNothing(e)
    PROVE  IInv'
<1>1. e <= latest
  BY OperationIsKnown DEF RunNothing, At
<1>2. Counted(attempt, attempt', e)
  BY DEF IInv, TypeOK, RunNothing, rows, Counted, SameStand
<1>3. Paused(op, op', e)
  BY DEF IInv, TypeOK, RunNothing, Paused, Idle, Ops, AttemptStates
<1>4. /\ settling' \subseteq Epochs /\ staged' \subseteq Epochs /\ faults' \in [Faults -> Nat]
      /\ UNCHANGED <<latest, runtime, binding, up, client, hosting, drives, broker, attempt>>
  BY DEF IInv, TypeOK, RunNothing, rows, env
<1> QED
  BY <1>1, <1>2, <1>3, <1>4, PauseKeeps

LEMMA CallFailsKeeps ==
    ASSUME IInv, NEW e \in Epochs, CallFails(e)
    PROVE  IInv'
<1> DEFINE lost == IF op[e].pc \in {"replay", "publish"} THEN {RuntimeOf(e).inv} \ {0} ELSE {}
<1>1. e <= latest /\ attempt[e].runtime \in Epochs
  BY OperationIsKnown DEF CallFails
<1>2. lost \subseteq Epochs
  BY <1>1, ParticipantsAssumption DEF IInv, TypeOK, RuntimeOf, Epochs
<1>3. Throws(attempt, e, MaxTries, lost)
  BY DEF CallFails
<1> HIDE DEF lost
<1>4. /\ Counted(attempt, attempt', e) /\ Paused(op, op', e) /\ settling' \subseteq Epochs
      /\ attempt'[e].work = "completed" => attempt[e].work = "completed"
  BY <1>2, <1>3, ThrowsFact DEF IInv, TypeOK
<1>5. faults' \in [Faults -> Nat]
  BY FaultFact DEF IInv, TypeOK, CallFails
<1>6. staged' \subseteq Epochs
  BY DEF IInv, TypeOK, CallFails
<1> QED
  BY <1>1, <1>4, <1>5, <1>6, PauseKeeps DEF CallFails

LEMMA HostingFailsKeeps ==
    ASSUME IInv, NEW e \in Epochs, HostingFails(e)
    PROVE  IInv'
<1>1. faults' \in [Faults -> Nat]
  BY FaultFact DEF HostingFails
<1> QED
  BY <1>1, AsideKeeps DEF HostingFails, IInv, TypeOK

LEMMA CandidateClosesKeeps ==
    ASSUME IInv, NEW e \in Epochs, CandidateCloses(e)
    PROVE  IInv'
BY AsideKeeps DEF CandidateCloses, env, IInv, TypeOK

LEMMA SettleNothingKeeps ==
    ASSUME IInv, NEW e \in Epochs, SettleNothing(e)
    PROVE  IInv'
<1>1. faults' \in [Faults -> Nat]
  BY FaultFact DEF SettleNothing, IInv, TypeOK
<1> QED
  BY <1>1, AsideKeeps DEF SettleNothing, IInv, TypeOK

LEMMA BrokerDiesKeeps ==
    ASSUME IInv, NEW e \in Epochs, BrokerDies(e)
    PROVE  IInv'
<1>1. TypeOK'
  BY DEF BrokerDies, IInv, TypeOK, rows, memory
<1>2. \A x \in Epochs :
         /\ broker'[x] = "absent" <=> broker[x] = "absent"
         /\ broker'[x] = "up" => broker[x] = "up"
  BY DEF BrokerDies, IInv, TypeOK
<1>3. \A x \in Epochs :
         /\ x > latest => op[x].pc = "idle"
         /\ attempt[x].state = "ABANDONED" /\ ~attempt[x].prepared =>
             attempt[x].intent # NoIntent \/ attempt[x].work \notin Armed
  BY DEF IInv, AttachedTogether, Numbered
<1>4. KeepsBooks
  BY <1>1, <1>2, <1>3 DEF KeepsBooks, BrokerDies, rows, memory, SameStand
<1> QED
  BY <1>4, BooksKept

LEMMA ClientClosesKeeps ==
    ASSUME IInv, NEW r \in Epochs, ClientCloses(r)
    PROVE  IInv'
<1>1. faults' \in [Faults -> Nat]
  BY FaultFact DEF ClientCloses, IInv, TypeOK
<1>2. runtime[r].inv \in 0 .. MaxEpoch
  BY DEF IInv, TypeOK
<1>3. settling' \subseteq Epochs
  <2>1. {runtime[r].inv} \ {0} \subseteq Epochs
    BY <1>2, ParticipantsAssumption DEF Epochs
  <2>2. settling' = settling \cup ({runtime[r].inv} \ {0}) /\ settling \subseteq Epochs
    BY DEF ClientCloses, IInv, TypeOK
  <2> QED
    BY <2>1, <2>2
<1>4. client' \in [Epochs -> 0 .. MaxEpoch] /\ \A x \in Epochs : client'[x] \in {client[x], 0}
  BY ParticipantsAssumption DEF ClientCloses, IInv, TypeOK
<1>5. TypeOK'
  BY <1>1, <1>3, <1>4 DEF ClientCloses, IInv, TypeOK, rows
<1>6. \A x \in Epochs :
         /\ x > latest => op[x].pc = "idle"
         /\ attempt[x].state = "ABANDONED" /\ ~attempt[x].prepared =>
             attempt[x].intent # NoIntent \/ attempt[x].work \notin Armed
  BY DEF IInv, AttachedTogether, Numbered
<1>7. KeepsBooks
  BY <1>4, <1>5, <1>6 DEF KeepsBooks, ClientCloses, rows, SameStand
<1> QED
  BY <1>7, BooksKept

LEMMA CrashKeeps ==
    ASSUME IInv, Crash
    PROVE  IInv'
<1>1. faults' \in [Faults -> Nat]
  BY FaultFact DEF Crash
<1>2. Idle \in Ops /\ Idle.pc = "idle" /\ "idle" \notin Phases
  BY DEF Idle, Ops, AttemptStates, Phases
<1>3. TypeOK'
  <2>1. client' \in [Epochs -> 0 .. MaxEpoch] /\ op' \in [Epochs -> Ops]
    BY <1>2, ParticipantsAssumption DEF Crash, Forget
  <2>2. /\ UNCHANGED <<latest, attempt, runtime, binding, broker>>
        /\ up' = FALSE /\ staged' = {} /\ hosting' = {} /\ drives' = {} /\ settling' = {}
    BY DEF Crash, Forget, rows
  <2> QED
    BY <1>1, <2>1, <2>2 DEF IInv, TypeOK
<1>4. \A x \in Epochs :
         attempt[x].state = "ABANDONED" /\ ~attempt[x].prepared =>
             attempt[x].intent # NoIntent \/ attempt[x].work \notin Armed
  BY DEF IInv, AttachedTogether
<1>5. KeepsBooks
  BY <1>2, <1>3, <1>4 DEF KeepsBooks, Crash, Forget, rows, SameStand
<1> QED
  BY <1>5, BooksKept

\* A reconnect arms the work of its attempt and leaves the rest.
LEMMA ArmedFact ==
    ASSUME NEW a \in [Epochs -> Attempts], NEW e \in Epochs
    PROVE  /\ ArmReconnect(a, e) \in [Epochs -> Attempts]
           /\ \A x \in Epochs : x # e => ArmReconnect(a, e)[x] = a[x]
           /\ SameStand(a[e], ArmReconnect(a, e)[e])
           /\ ArmReconnect(a, e)[e].intent = a[e].intent
           /\ ArmReconnect(a, e)[e].work = "pending"
<1> DEFINE b == [a[e] EXCEPT !.work = "pending", !.count = 0]
<1>0. 0 \in 0 .. MaxTries + 1 /\ "pending" \in WorkStates
  BY ParticipantsAssumption DEF WorkStates, Armed
<1>1. /\ b \in Attempts /\ SameStand(a[e], b)
      /\ b.intent = a[e].intent /\ b.work = "pending"
  BY <1>0 DEF Attempts, SameStand
<1>2. ArmReconnect(a, e) = [a EXCEPT ![e] = b]
  BY DEF ArmReconnect, Attempts
<1> HIDE DEF b
<1> QED
  BY <1>1, <1>2

LEMMA DeliverKeeps ==
    ASSUME IInv, Deliver
    PROVE  IInv'
<1> DEFINE a == ArmReconnect(attempt, latest)
<1>1. latest \in Epochs /\ attempt[latest].state = "ACTIVE"
  BY ParticipantsAssumption DEF Deliver, Delivery, IInv, TypeOK, Epochs
<1>2. /\ a \in [Epochs -> Attempts]
      /\ \A x \in Epochs : x # latest => a[x] = attempt[x]
      /\ SameStand(attempt[latest], a[latest]) /\ a[latest].intent = attempt[latest].intent
  BY <1>1, ArmedFact DEF IInv, TypeOK
<1>3. attempt' = a /\ op' = Scheduled(op, a, latest)
  BY DEF Deliver
<1> HIDE DEF a
<1>4. /\ op' \in [Epochs -> Ops]
      /\ \A x \in Epochs : x # latest => op'[x] = op[x]
      /\ op'[latest] = op[latest] \/ op'[latest] = Due
  <2>1. op \in [Epochs -> Ops]
    BY DEF IInv, TypeOK
  <2>2. /\ Scheduled(op, a, latest) \in [Epochs -> Ops]
        /\ \A x \in Epochs : x # latest => Scheduled(op, a, latest)[x] = op[x]
        /\ Scheduled(op, a, latest)[latest] \in {op[latest], Due}
    BY <1>1, <2>1, ScheduledFact
  <2> QED
    BY <1>3, <2>2
<1>5. TypeOK'
  BY <1>2, <1>3, <1>4 DEF Deliver, IInv, TypeOK, env
<1>6. ASSUME NEW x \in Epochs
      PROVE  /\ SameStand(attempt[x], attempt'[x])
             /\ attempt'[x].intent = attempt[x].intent
             /\ x # latest => attempt'[x] = attempt[x]
             /\ x > latest => op'[x].pc = "idle"
             /\ op'[x] = op[x] \/ op'[x].pc \notin Phases
             /\ attempt'[x].state = "ABANDONED" => x # latest
  BY <1>1, <1>2, <1>3, <1>4 DEF SameStand, Due, Idle, Phases, IInv, TypeOK, Numbered, Epochs
<1>7. \A x \in Epochs :
         /\ WorkOf(attempt'[x]) = "completed" =>
             WorkOf(attempt[x]) = "completed" \/ Served(attempt[x])
         /\ attempt[x].state = "ABANDONED" /\ ~attempt[x].prepared =>
             attempt'[x].intent # NoIntent \/ attempt'[x].work \notin Armed
  BY <1>1, <1>6 DEF IInv, AttachedTogether, Served, SameStand
<1>8. ASSUME NEW x \in Epochs
      PROVE  /\ x > latest => attempt'[x] = attempt[x]
             /\ x < latest /\ attempt'[x].work \in Armed => attempt[x].work \in Armed
  BY <1>1, <1>6 DEF Epochs
<1>9. KeepsBooks
  BY <1>5, <1>6, <1>7, <1>8, DrivesFact DEF KeepsBooks, Deliver, env
<1> QED
  BY <1>9, BooksKept

LEMMA BootKeeps ==
    ASSUME IInv, Boot
    PROVE  IInv'
<1>1. /\ attempt' \in [Epochs -> Attempts]
      /\ \A x \in Epochs :
           /\ SameStand(attempt[x], attempt'[x]) /\ attempt'[x].intent = attempt[x].intent
           /\ attempt'[x] # attempt[x] => x = latest /\ attempt[x].state = "ACTIVE"
  <2>1. CASE latest # 0 /\ NeedsReconnect(latest)
    <3>1. latest \in Epochs
      BY <2>1, ParticipantsAssumption DEF IInv, TypeOK, Epochs
    <3>2. attempt' = ArmReconnect(attempt, latest)
      BY <2>1 DEF Boot, Rearmed
    <3> QED
      BY <2>1, <3>1, <3>2, ArmedFact DEF IInv, TypeOK, NeedsReconnect, SameStand
  <2>2. CASE ~(latest # 0 /\ NeedsReconnect(latest))
    BY <2>2 DEF Boot, Rearmed, IInv, TypeOK, SameStand
  <2> QED
    BY <2>1, <2>2
<1>2. /\ op' \in [Epochs -> Ops]
      /\ \A x \in Epochs :
           op'[x] = op[x] \/ (op'[x] = Due /\ attempt'[x].work \in Armed)
  <2>1. \A x \in Epochs :
           /\ Scheduled(op, attempt', x)[x] \in Ops
           /\ \/ Scheduled(op, attempt', x)[x] = op[x]
              \/ Scheduled(op, attempt', x)[x] = Due /\ attempt'[x].work \in Armed
    BY ScheduledFact DEF IInv, TypeOK
  <2>2. op' = [x \in Epochs |-> Scheduled(op, attempt', x)[x]]
    BY DEF Boot
  <2> QED
    BY <2>1, <2>2
<1>3. settling' \subseteq Epochs
  BY DEF Boot, ExhaustedReconnects
<1>4. TypeOK'
  BY <1>1, <1>2, <1>3 DEF Boot, IInv, TypeOK, env
<1>5. ASSUME NEW x \in Epochs
      PROVE  /\ x > latest => attempt'[x] = attempt[x] /\ op'[x].pc = "idle"
             /\ x < latest => attempt'[x] = attempt[x]
             /\ op'[x] = op[x] \/ op'[x].pc \notin Phases
             /\ attempt[x].state = "ABANDONED" => attempt'[x] = attempt[x]
  <2>1. x # latest => attempt'[x] = attempt[x]
    BY <1>1
  <2>2. x > latest => op[x].pc = "idle" /\ attempt[x].work \notin Armed
    BY DEF IInv, Numbered, NoAttempt, Armed
  <2>3. x \in Nat /\ latest \in Nat
    BY ParticipantsAssumption DEF IInv, TypeOK, Epochs
  <2> QED
    BY <1>1, <1>2, <2>1, <2>2, <2>3 DEF Due, Idle, Phases
<1>6. \A x \in Epochs :
         /\ WorkOf(attempt'[x]) = "completed" =>
             WorkOf(attempt[x]) = "completed" \/ Served(attempt[x])
         /\ attempt[x].state = "ABANDONED" /\ ~attempt[x].prepared =>
             attempt'[x].intent # NoIntent \/ attempt'[x].work \notin Armed
  BY <1>1, <1>5 DEF IInv, AttachedTogether, Served
<1>7. KeepsBooks
  BY <1>1, <1>4, <1>5, <1>6, DrivesFact DEF KeepsBooks, Boot, env
<1> QED
  BY <1>7, BooksKept

-----------------------------------------------------------------------------
(* One lemma per step of an establishment operation                        *)

\* Only attempt e differs, in its state, identity and activation, as Advances allows.
Moved(a, e) ==
    /\ a \in [Epochs -> Attempts]
    /\ \A x \in Epochs : x # e => a[x] = attempt[x]
    /\ a[e].prepared = attempt[e].prepared /\ a[e].settled = attempt[e].settled
    /\ a[e].runtime = attempt[e].runtime
    /\ a[e].intent = attempt[e].intent /\ a[e].work = attempt[e].work
    /\ a[e].activated => attempt[e].activated \/ PriorSettled(e)
    /\ \/ a[e].state = attempt[e].state
       \/ /\ attempt[e].state \notin Absorbing
          /\ a[e].state \notin {"NONE"} \cup Absorbing
          /\ Unserved(e) /\ WorkOf(attempt[e]) # "completed"

LEMMA NotMoved ==
    ASSUME IInv, NEW e \in Epochs
    PROVE  Moved(attempt, e)
BY DEF IInv, TypeOK, Moved

\* Attempt e in state s, with or without a broker identity and an activation.
MoveTo(e, s, i, v) ==
    [attempt EXCEPT ![e] = [attempt[e] EXCEPT !.state = s, !.identity = i, !.activated = v]]

\* An attempt that is neither served nor disposed of may take another state.
LEMMA StateMoves ==
    ASSUME IInv, NEW e \in Epochs, e <= latest, ~Served(attempt[e]),
           NEW s \in AttemptStates, s \notin {"NONE"} \cup Absorbing,
           NEW i \in BOOLEAN, NEW v \in BOOLEAN,
           \/ v = attempt[e].activated
           \/ attempt[e].activated
           \/ PriorSettled(e)
    PROVE  /\ Moved(MoveTo(e, s, i, v), e)
           /\ MoveTo(e, s, i, v)[e].state = s
           /\ MoveTo(e, s, i, v)[e].identity = i /\ MoveTo(e, s, i, v)[e].activated = v
<1> DEFINE b == [attempt[e] EXCEPT !.state = s, !.identity = i, !.activated = v]
<1>1. attempt[e] \in Attempts /\ attempt \in [Epochs -> Attempts]
  BY DEF IInv, TypeOK
<1>2. /\ b \in Attempts /\ b.state = s /\ b.identity = i /\ b.activated = v
      /\ b.prepared = attempt[e].prepared /\ b.settled = attempt[e].settled
      /\ b.runtime = attempt[e].runtime
      /\ b.intent = attempt[e].intent /\ b.work = attempt[e].work
  BY <1>1 DEF Attempts
<1> HIDE DEF b
<1>3. MoveTo(e, s, i, v) = [attempt EXCEPT ![e] = b]
  BY DEF b, MoveTo
<1>4. Unserved(e)
  <2>1. e # 0
    BY ParticipantsAssumption DEF Epochs
  <2> QED
    BY <2>1 DEF IInv, ClientsServe, Unserved, Served
<1>5. WorkOf(attempt[e]) # "completed"
  BY DEF IInv, WorkEndsServed, Served
<1> QED
  BY <1>1, <1>2, <1>3, <1>4, <1>5 DEF Moved, Served

\* An operation in a phase works on an attached attempt.
LEMMA RunningFact ==
    ASSUME IInv, NEW e \in Epochs, op[e].pc \in Phases
    PROVE  /\ e <= latest /\ attempt[e].runtime \in Epochs /\ attempt[e].prepared
           /\ attempt[e].intent # NoIntent => ~attempt[e].intent.pre
<1>1. op[e].pc # "idle"
  BY DEF Phases
<1> QED
  BY <1>1, OperationIsKnown DEF IInv, RunsAttached

\* An operation that moved its attempt and then threw.
LEMMA ThrowKeeps ==
    ASSUME IInv, NEW e \in Epochs, op[e].pc \in Phases, NEW a, Moved(a, e),
           NEW max, NEW lost, lost \subseteq Epochs, Throws(a, e, max, lost),
           staged' \subseteq Epochs, faults' \in [Faults -> Nat],
           UNCHANGED <<latest, runtime, binding, up, client, hosting, drives, broker>>
    PROVE  IInv'
<1>1. a \in [Epochs -> Attempts]
  BY DEF Moved
<1>2. op \in [Epochs -> Ops] /\ settling \subseteq Epochs
  BY DEF IInv, TypeOK
<1>3. /\ Counted(a, attempt', e) /\ Paused(op, op', e) /\ settling' \subseteq Epochs
      /\ attempt'[e].work = "completed" => a[e].work = "completed"
  BY <1>1, <1>2, ThrowsFact
<1>4. TypeOK'
  BY <1>3 DEF IInv, TypeOK, Counted, Paused
<1>5. op'[e].pc \notin Phases \cup BrokerPhases \cup StagedPhases
  BY <1>3 DEF Paused, Phases, BrokerPhases, StagedPhases
<1>6. WorkOf(attempt'[e]) = "completed" => WorkOf(attempt[e]) = "completed"
  BY <1>3 DEF Counted, Moved, WorkOf
<1>7. Advances(e)
  BY <1>3, <1>4, <1>5, <1>6, RunningFact
     DEF Advances, Moved, Counted, SameStand, Paused
<1> QED
  BY <1>7, AdvanceKeeps

\* An operation that moved its attempt and goes on to its next phase.
LEMMA GoesOnKeeps ==
    ASSUME IInv, NEW e \in Epochs, e <= latest, attempt[e].prepared,
           attempt[e].intent # NoIntent => ~attempt[e].intent.pre,
           Moved(attempt', e),
           NEW p \in Ops, op' = [op EXCEPT ![e] = p],
           p.pc = "realize" => attempt'[e].state # "ACTIVE",
           p.pc \in {"replay", "publish"} => attempt'[e].state \in {"ACTIVE"} \cup Absorbing,
           p.pc \in BrokerPhases =>
               Unserved(e) /\ (broker[e] = "up" => attempt'[e].state \notin Absorbing),
           p.pc \in StagedPhases /\ broker[e] = "up" =>
               /\ runtime'[attempt[e].runtime].status = "live"
               /\ runtime'[attempt[e].runtime].inv = e,
           \/ runtime' = runtime
           \/ /\ broker[e] = "up"
              /\ runtime' = [runtime EXCEPT ![attempt[e].runtime] = [status |-> "live", inv |-> e]],
           staged' \subseteq Epochs,
           UNCHANGED <<latest, binding, up, client, hosting, drives, settling, env>>
    PROVE  IInv'
<1>1. e \in 0 .. MaxEpoch
  BY ParticipantsAssumption DEF Epochs
<1>2. runtime' \in [Epochs -> [status : {"none", "live", "terminated"}, inv : 0 .. MaxEpoch]]
  <2>1. /\ runtime \in [Epochs -> [status : {"none", "live", "terminated"}, inv : 0 .. MaxEpoch]]
        /\ [status |-> "live", inv |-> e]
              \in [status : {"none", "live", "terminated"}, inv : 0 .. MaxEpoch]
    BY <1>1 DEF IInv, TypeOK
  <2> QED
    BY <2>1
<1>3. /\ op' \in [Epochs -> Ops] /\ op'[e] = p
      /\ \A x \in Epochs : x # e => op'[x] = op[x]
  BY DEF IInv, TypeOK
<1>4. TypeOK'
  BY <1>2, <1>3 DEF IInv, TypeOK, Moved, env
<1>5. WorkOf(attempt'[e]) = "completed" => WorkOf(attempt[e]) = "completed"
  BY DEF Moved, WorkOf
<1>6. Advances(e)
  BY <1>3, <1>4, <1>5 DEF Advances, Moved, env
<1> QED
  BY <1>6, AdvanceKeeps

\* A published client of an attempt serves it on its own runtime.
LEMMA UnservedBy ==
    ASSUME IInv, NEW e \in Epochs, client[attempt[e].runtime] # e
    PROVE  Unserved(e)
<1>1. e # 0
  BY ParticipantsAssumption DEF Epochs
<1> QED
  BY <1>1 DEF IInv, ClientsServe, Unserved

LEMMA RunEstablishmentKeeps ==
    ASSUME IInv, NEW e \in Epochs, RunEstablishment(e)
    PROVE  IInv'
<1>1. /\ e <= latest /\ attempt[e] \in Attempts /\ op[e] \in Ops
      /\ attempt \in [Epochs -> Attempts] /\ op \in [Epochs -> Ops]
  BY OperationIsKnown DEF RunEstablishment, Runs, At, IInv, TypeOK
<1>2. Runs(e)
  BY DEF RunEstablishment
<1>3. CASE AlreadyServed(e)
  <2>1. attempt' = Completed(attempt, e) /\ op' = [op EXCEPT ![e] = Idle]
    BY <1>3 DEF RunEstablishment
  <2>2. Counted(attempt, attempt', e)
    BY <1>1, <2>1, CompletedFact
  <2>3. Paused(op, op', e)
    BY <1>1, <2>1 DEF Paused, Idle, Ops, AttemptStates
  <2>4. Served(attempt[e])
    <3>1. CASE e # latest
      <4>1. e < latest
        BY <1>1, <3>1, ParticipantsAssumption DEF IInv, TypeOK, Epochs
      <4> QED
        BY <4>1 DEF IInv, PastIsSettled, SettledIsDead, Served
    <3>2. CASE attempt[e].state = "ACTIVE"
      BY <3>2 DEF Served
    <3> QED
      BY <1>3, <3>1, <3>2 DEF AlreadyServed
  <2>5. /\ settling' \subseteq Epochs /\ staged' \subseteq Epochs /\ faults' \in [Faults -> Nat]
        /\ UNCHANGED <<latest, runtime, binding, up, client, hosting, drives, broker>>
    BY DEF RunEstablishment, IInv, TypeOK, env
  <2> QED
    BY <1>1, <2>2, <2>3, <2>4, <2>5, PauseKeeps
<1>4. CASE ~AlreadyServed(e)
  <2> DEFINE p == [pc |-> "realize", seen |-> "NONE",
                   path |-> IF attempt[e].state \in {"ACTIVE", "DETACHED", "ATTACH_CONFIRMED"}
                            THEN "reattach" ELSE "start"]
  <2>1. p \in Ops /\ p.pc = "realize"
    BY DEF Ops, AttemptStates
  <2>2. attempt' = Detach(e) /\ op' = [op EXCEPT ![e] = p]
    BY <1>4 DEF RunEstablishment
  <2> HIDE DEF p
  <2>3. attempt[e].prepared /\ attempt[e].intent = NoIntent /\ attempt[e].work \in Armed
    <3>1. /\ attempt[e].intent = NoIntent /\ attempt[e].work \in Armed
          /\ ~(attempt[e].state = "IDENTITY_MINTED" /\ ~attempt[e].prepared)
      BY <1>2 DEF Runs, NonRunnable
    <3> QED
      BY <1>1, <3>1 DEF IInv, AttachedTogether, Numbered
  <2>4. Moved(attempt', e) /\ attempt'[e].state # "ACTIVE"
    <3>1. CASE attempt[e].state = "ACTIVE"
      <4>1. Unserved(e)
        BY <1>4, <3>1, UnservedBy DEF AlreadyServed, ClientOf
      <4>2. WorkOf(attempt[e]) # "completed"
        BY <2>3 DEF WorkOf, Armed
      <4>3. attempt' = [attempt EXCEPT ![e] = [attempt[e] EXCEPT !.state = "DETACHED"]]
        BY <2>2, <3>1 DEF Detach
      <4>4. /\ [attempt[e] EXCEPT !.state = "DETACHED"] \in Attempts
            /\ "DETACHED" \notin {"NONE", "ACTIVE"} \cup Absorbing
        BY <1>1 DEF Attempts, AttemptStates, Frozen, Absorbing
      <4>5. "ACTIVE" \notin Absorbing
        BY DEF Absorbing
      <4>6. attempt'[e] = [attempt[e] EXCEPT !.state = "DETACHED"]
        BY <1>1, <4>3
      <4> QED
        BY <1>1, <3>1, <4>1, <4>2, <4>3, <4>4, <4>5, <4>6 DEF Moved, Attempts
    <3>2. CASE attempt[e].state # "ACTIVE"
      BY <2>2, <3>2, NotMoved DEF Detach
    <3> QED
      BY <3>1, <3>2
  <2>5. "realize" \notin BrokerPhases /\ "realize" \notin StagedPhases
    BY DEF BrokerPhases, StagedPhases
  <2>6. /\ staged' \subseteq Epochs
        /\ UNCHANGED <<runtime, latest, binding, up, client, hosting, drives, settling, env>>
    BY DEF RunEstablishment, IInv, TypeOK
  <2> QED
    BY <1>1, <2>1, <2>2, <2>3, <2>4, <2>5, <2>6, GoesOnKeeps
<1> QED
  BY <1>3, <1>4

\* Going to another phase changes nothing else of an operation.
LEMMA GotoFact ==
    ASSUME IInv, NEW e \in Epochs,
           NEW pc \in {"install", "ensure", "stage", "activate", "replay", "publish", "recover"}
    PROVE  [op[e] EXCEPT !.pc = pc] \in Ops /\ [op[e] EXCEPT !.pc = pc].pc = pc
<1>1. op[e] \in Ops
  BY DEF IInv, TypeOK
<1> QED
  BY <1>1 DEF Ops

LEMMA RealizeKeeps ==
    ASSUME IInv, NEW e \in Epochs, Realize(e)
    PROVE  IInv'
<1>1. op[e].pc = "realize" /\ op[e].pc \in Phases
  BY DEF Realize, At, Phases
<1>2. /\ e <= latest /\ attempt[e].prepared
      /\ attempt[e].intent # NoIntent => ~attempt[e].intent.pre
      /\ attempt[e].state # "ACTIVE"
  BY <1>1, RunningFact DEF IInv, RunsAttached
<1>3. /\ UNCHANGED <<runtime, latest, binding, up, client, hosting, drives, env, broker>>
      /\ staged' \subseteq Epochs /\ faults' \in [Faults -> Nat]
  BY DEF Realize, IInv, TypeOK, env
<1>4. CASE attempt[e].state \in Frozen \cup {"HOSTING_INTENT_PERSISTED"}
  <2>1. attempt[e].state \notin {"NONE"} \cup Absorbing /\ ~Served(attempt[e])
    BY <1>2, <1>4 DEF Frozen, Absorbing, Served
  <2>2. /\ Moved(attempt', e) /\ attempt'[e].state \notin Absorbing
    <3>1. CASE attempt[e].state = "HOSTING_INTENT_PERSISTED"
      <4>1. attempt' = MoveTo(e, "DISPATCH_FROZEN", attempt[e].identity, attempt[e].activated)
        BY <1>4, <3>1 DEF Realize, IInv, TypeOK, Attempts, MoveTo
      <4>2. "DISPATCH_FROZEN" \in AttemptStates \ ({"NONE"} \cup Absorbing)
        BY DEF AttemptStates, Frozen, Absorbing
      <4>3. attempt[e].identity \in BOOLEAN /\ attempt[e].activated \in BOOLEAN
        BY DEF IInv, TypeOK, Attempts
      <4>4. Moved(attempt', e) /\ attempt'[e].state = "DISPATCH_FROZEN"
        BY <1>2, <2>1, <4>1, <4>2, <4>3, StateMoves
      <4> QED
        BY <4>2, <4>4
    <3>2. CASE attempt[e].state # "HOSTING_INTENT_PERSISTED"
      <4>1. attempt' = [attempt EXCEPT ![e] = [attempt[e] EXCEPT !.state = attempt[e].state]]
        BY <1>4, <3>2 DEF Realize
      <4>2. attempt[e] \in Attempts /\ attempt \in [Epochs -> Attempts]
        BY DEF IInv, TypeOK
      <4>3. [attempt[e] EXCEPT !.state = attempt[e].state] = attempt[e]
        BY <4>2 DEF Attempts
      <4>4. attempt' = attempt
        BY <4>1, <4>2, <4>3
      <4> QED
        BY <2>1, <4>4, NotMoved
    <3> QED
      BY <3>1, <3>2
  <2>3. Unserved(e)
    <3>1. e # 0
      BY ParticipantsAssumption DEF Epochs
    <3> QED
      BY <2>1, <3>1 DEF IInv, ClientsServe, Unserved, Served
  <2>4. op' = [op EXCEPT ![e] = [op[e] EXCEPT !.pc = "install"]] /\ UNCHANGED settling
    BY <1>4 DEF Realize, Goto
  <2>5. "install" \notin StagedPhases /\ "install" \notin {"realize", "replay", "publish"}
    BY DEF StagedPhases
  <2> DEFINE p == [op[e] EXCEPT !.pc = "install"]
  <2>7. p \in Ops /\ p.pc = "install"
    BY GotoFact
  <2> HIDE DEF p
  <2>8. op' = [op EXCEPT ![e] = p]
    BY <2>4 DEF p
  <2> QED
    BY <1>2, <1>3, <2>2, <2>3, <2>4, <2>5, <2>7, <2>8, GoesOnKeeps
<1>5. CASE attempt[e].state \notin Frozen \cup {"HOSTING_INTENT_PERSISTED"}
  <2>1. Throws(attempt, e, MaxTries, {})
    BY <1>5 DEF Realize
  <2> QED
    BY <1>1, <1>3, <2>1, NotMoved, ThrowKeeps
<1> QED
  BY <1>4, <1>5

\* With its broker up, an operation in a broker phase works on a standing, unserved attempt, until
\* it has replayed what it missed.
LEMMA StandingFact ==
    ASSUME IInv, NEW e \in Epochs, op[e].pc \in BrokerPhases \ {"publish"}, broker[e] = "up"
    PROVE  /\ Unserved(e) /\ attempt[e].state \notin Absorbing
           /\ op[e].pc \in StagedPhases =>
                RuntimeOf(e).status = "live" /\ RuntimeOf(e).inv = e
BY DEF IInv, ClientsServe, Unserved, StagedRuntimeStands, Carried

LEMMA MaterializeKeeps ==
    ASSUME IInv, NEW e \in Epochs, op[e].pc \in BrokerPhases \ {"publish"}, broker[e] = "up",
           NEW a, Moved(a, e), Materialize(a, e),
           UNCHANGED <<latest, binding, up, client, staged, hosting, drives, env>>
    PROVE  IInv'
<1>1. op[e].pc \in Phases
  BY DEF BrokerPhases
<1>2. /\ e <= latest /\ attempt[e].prepared /\ attempt[e].runtime \in Epochs
      /\ attempt[e].intent # NoIntent => ~attempt[e].intent.pre
  BY <1>1, RunningFact
<1>3. Unserved(e) /\ attempt[e].state \notin Absorbing
  BY StandingFact
<1>4. staged' \subseteq Epochs /\ faults' \in [Faults -> Nat] /\ broker' = broker
  BY DEF IInv, TypeOK, env
<1>5. CASE Materializable(a, e)
  <2> DEFINE p == [op[e] EXCEPT !.pc = "stage", !.seen = a[e].state]
  <2>1. a[e].state \in AttemptStates
    BY DEF Moved, Attempts
  <2>2. p \in Ops /\ p.pc = "stage"
    <3>1. op[e] \in Ops
      BY DEF IInv, TypeOK
    <3> QED
      BY <2>1, <3>1 DEF Ops
  <2>3. op' = [op EXCEPT ![e] = p]
    BY <1>5 DEF Materialize, IInv, TypeOK
  <2> HIDE DEF p
  <2>4. /\ attempt' = a
        /\ runtime' = [runtime EXCEPT ![attempt[e].runtime] = [status |-> "live", inv |-> e]]
        /\ UNCHANGED settling
    BY <1>5 DEF Materialize, Moved
  <2>5. /\ runtime'[attempt[e].runtime].status = "live"
        /\ runtime'[attempt[e].runtime].inv = e
    BY <1>2, <2>4 DEF IInv, TypeOK
  <2>6. attempt'[e].state \notin Absorbing /\ Moved(attempt', e)
    BY <1>3, <2>4 DEF Moved
  <2> QED
    BY <1>2, <1>3, <1>4, <2>2, <2>3, <2>4, <2>5, <2>6, GoesOnKeeps
<1>6. CASE ~Materializable(a, e)
  <2>1. Throws(a, e, 1, {}) /\ UNCHANGED runtime
    BY <1>6 DEF Materialize
  <2> QED
    BY <1>1, <1>4, <2>1, ThrowKeeps
<1> QED
  BY <1>5, <1>6

LEMMA InstallKeeps ==
    ASSUME IInv, NEW e \in Epochs, Install(e)
    PROVE  IInv'
<1> DEFINE a == IF attempt[e].identity THEN attempt
                ELSE [attempt EXCEPT ![e].state = "INSTALL_CONFIRMED", ![e].identity = TRUE]
<1>1. /\ op[e].pc = "install" /\ op[e].pc \in Phases /\ op[e].pc \in BrokerPhases
      /\ broker[e] = "up"
  BY DEF Install, At, Phases, BrokerPhases
<1>2. /\ e <= latest /\ attempt[e].prepared
      /\ attempt[e].intent # NoIntent => ~attempt[e].intent.pre
  BY <1>1, RunningFact
<1>3. Unserved(e) /\ attempt[e].state \notin Absorbing
  BY <1>1, StandingFact
<1>4. /\ UNCHANGED <<latest, binding, up, client, staged, hosting, drives, env, broker>>
      /\ staged' \subseteq Epochs /\ faults' \in [Faults -> Nat]
  BY DEF Install, IInv, TypeOK, env
<1>5. CASE ~attempt[e].identity /\ attempt[e].state # "DISPATCH_FROZEN"
  <2>1. Throws(attempt, e, MaxTries, {}) /\ UNCHANGED runtime
    BY <1>5 DEF Install
  <2> QED
    BY <1>1, <1>4, <2>1, NotMoved, ThrowKeeps
<1>6. CASE ~(~attempt[e].identity /\ attempt[e].state # "DISPATCH_FROZEN")
  <2>1. Moved(a, e) /\ a[e].state \in AttemptStates
    <3>1. CASE attempt[e].identity
      BY <3>1, NotMoved DEF IInv, TypeOK, Attempts
    <3>2. CASE ~attempt[e].identity
      <4>1. PICK i \in BOOLEAN : a = MoveTo(e, "INSTALL_CONFIRMED", i, attempt[e].activated)
        BY <3>2 DEF MoveTo, IInv, TypeOK, Attempts
      <4>2. ~Served(attempt[e])
        BY <1>6, <3>2 DEF Served, Absorbing
      <4>3. "INSTALL_CONFIRMED" \in AttemptStates \ ({"NONE"} \cup Absorbing)
        BY DEF AttemptStates, Frozen, Absorbing
      <4>4. attempt[e].activated \in BOOLEAN
        BY DEF IInv, TypeOK, Attempts
      <4>5. Moved(a, e)
        BY <1>2, <4>1, <4>2, <4>3, <4>4, StateMoves
      <4> QED
        BY <4>5 DEF Moved, Attempts
    <3> QED
      BY <3>1, <3>2
  <2> HIDE DEF a
  <2>2. CASE op[e].path = "reattach"
    <3>1. Materialize(a, e)
      BY <1>6, <2>2 DEF Install, a
    <3> QED
      BY <1>1, <1>4, <2>1, <3>1, MaterializeKeeps
  <2>3. CASE op[e].path # "reattach"
    <3> DEFINE p == [op[e] EXCEPT !.pc = "ensure", !.seen = a[e].state]
    <3>1. p \in Ops /\ p.pc = "ensure"
      <4>1. op[e] \in Ops
        BY DEF IInv, TypeOK
      <4> QED
        BY <2>1, <4>1 DEF Ops
    <3>2. /\ attempt' = a
          /\ op' = [op EXCEPT ![e].pc = "ensure", ![e].seen = a[e].state]
          /\ UNCHANGED <<runtime, settling>>
      BY <1>6, <2>3 DEF Install, a
    <3>3. op' = [op EXCEPT ![e] = p]
      BY <3>2 DEF IInv, TypeOK
    <3> HIDE DEF p
    <3>4. attempt'[e].state \notin Absorbing /\ Moved(attempt', e)
      BY <1>3, <2>1, <3>2 DEF Moved
    <3>5. "ensure" \notin StagedPhases /\ "ensure" \notin {"realize", "replay", "publish"}
      BY DEF StagedPhases
    <3> QED
      BY <1>2, <1>3, <1>4, <3>1, <3>2, <3>3, <3>4, <3>5, GoesOnKeeps
  <2> QED
    BY <2>2, <2>3
<1> QED
  BY <1>5, <1>6

LEMMA EnsureKeeps ==
    ASSUME IInv, NEW e \in Epochs, Ensure(e)
    PROVE  IInv'
<1> DEFINE a == IF attempt[e].state = "INSTALL_CONFIRMED" /\ op[e].seen = "INSTALL_CONFIRMED"
                THEN [attempt EXCEPT ![e].state = "INVOCATION_READY"] ELSE attempt
<1>1. op[e].pc \in Phases /\ op[e].pc \in BrokerPhases \ {"publish"} /\ broker[e] = "up"
  BY DEF Ensure, At, Phases, BrokerPhases
<1>2. e <= latest
  BY <1>1, RunningFact
<1>3. /\ UNCHANGED <<latest, binding, up, client, staged, hosting, drives, env, broker>>
      /\ staged' \subseteq Epochs /\ faults' \in [Faults -> Nat]
  BY DEF Ensure, IInv, TypeOK, env
<1>4. Moved(a, e)
  <2>1. CASE attempt[e].state = "INSTALL_CONFIRMED" /\ op[e].seen = "INSTALL_CONFIRMED"
    <3>1. a = MoveTo(e, "INVOCATION_READY", attempt[e].identity, attempt[e].activated)
      BY <2>1 DEF MoveTo, IInv, TypeOK, Attempts
    <3>2. ~Served(attempt[e])
      BY <2>1 DEF Served, Absorbing
    <3>3. "INVOCATION_READY" \in AttemptStates \ ({"NONE"} \cup Absorbing)
      BY DEF AttemptStates, Frozen, Absorbing
    <3>4. attempt[e].activated \in BOOLEAN /\ attempt[e].identity \in BOOLEAN
      BY DEF IInv, TypeOK, Attempts
    <3> QED
      BY <1>2, <3>1, <3>2, <3>3, <3>4, StateMoves
  <2>2. CASE ~(attempt[e].state = "INSTALL_CONFIRMED" /\ op[e].seen = "INSTALL_CONFIRMED")
    BY <2>2, NotMoved
  <2> QED
    BY <2>1, <2>2
<1>5. \/ Materialize(a, e)
      \/ Throws(a, e, MaxTries, {}) /\ UNCHANGED runtime
  BY DEF Ensure
<1> HIDE DEF a
<1>6. CASE Materialize(a, e)
  BY <1>1, <1>3, <1>4, <1>6, MaterializeKeeps
<1>7. CASE Throws(a, e, MaxTries, {}) /\ UNCHANGED runtime
  BY <1>1, <1>3, <1>4, <1>7, ThrowKeeps
<1> QED
  BY <1>5, <1>6, <1>7

LEMMA StageKeeps ==
    ASSUME IInv, NEW e \in Epochs, Stage(e)
    PROVE  IInv'
<1>1. /\ op[e].pc = "stage" /\ op[e].pc \in Phases /\ op[e].pc \in BrokerPhases
      /\ op[e].pc \in StagedPhases /\ broker[e] = "up"
  BY DEF Stage, At, Phases, BrokerPhases, StagedPhases
<1>2. /\ e <= latest /\ attempt[e].prepared
      /\ attempt[e].intent # NoIntent => ~attempt[e].intent.pre
  BY <1>1, RunningFact
<1>3. Unserved(e) /\ attempt[e].state \notin Absorbing
  BY <1>1, StandingFact
<1>4. /\ UNCHANGED <<latest, runtime, binding, up, client, hosting, drives, env, broker>>
      /\ staged' \subseteq Epochs /\ faults' \in [Faults -> Nat]
  BY DEF Stage, IInv, TypeOK, env
<1>5. CASE NeedsConfirmation(e) /\ ~Confirmable(e)
  <2>1. Throws(attempt, e, MaxTries, {})
    BY <1>5 DEF Stage
  <2> QED
    BY <1>1, <1>4, <2>1, NotMoved, ThrowKeeps
<1>6. CASE ~(NeedsConfirmation(e) /\ ~Confirmable(e))
  <2>1. Moved(attempt', e)
    <3>1. CASE Confirmable(e)
      <4>1. attempt' = MoveTo(e, "ATTACH_CONFIRMED", attempt[e].identity, attempt[e].activated)
        BY <1>6, <3>1 DEF Stage, MoveTo, IInv, TypeOK, Attempts
      <4>2. ~Served(attempt[e])
        BY <3>1 DEF Confirmable, Served, Absorbing
      <4>3. "ATTACH_CONFIRMED" \in AttemptStates \ ({"NONE"} \cup Absorbing)
        BY DEF AttemptStates, Frozen, Absorbing
      <4>4. attempt[e].activated \in BOOLEAN /\ attempt[e].identity \in BOOLEAN
        BY DEF IInv, TypeOK, Attempts
      <4> QED
        BY <1>2, <4>1, <4>2, <4>3, <4>4, StateMoves
    <3>2. CASE ~Confirmable(e)
      <4>1. attempt' = [attempt EXCEPT ![e] = [attempt[e] EXCEPT !.state = attempt[e].state]]
        BY <1>6, <3>2 DEF Stage
      <4>2. attempt[e] \in Attempts /\ attempt \in [Epochs -> Attempts]
        BY DEF IInv, TypeOK
      <4>3. [attempt[e] EXCEPT !.state = attempt[e].state] = attempt[e]
        BY <4>2 DEF Attempts
      <4>4. attempt' = attempt
        BY <4>1, <4>2, <4>3
      <4> QED
        BY <4>4, NotMoved
    <3> QED
      BY <3>1, <3>2
  <2> DEFINE p == [op[e] EXCEPT !.pc = "activate"]
  <2>2. p \in Ops /\ p.pc = "activate"
    BY GotoFact
  <2>3. op' = [op EXCEPT ![e] = p] /\ UNCHANGED settling
    BY <1>6 DEF Stage, Goto
  <2> HIDE DEF p
  <2>4. attempt'[e].state \notin Absorbing
    BY <1>3, <2>1 DEF Moved
  <2>5. runtime[attempt[e].runtime].status = "live" /\ runtime[attempt[e].runtime].inv = e
    BY <1>1, StandingFact DEF RuntimeOf, BrokerPhases, Phases, StagedPhases
  <2> QED
    BY <1>2, <1>3, <1>4, <2>1, <2>2, <2>3, <2>4, <2>5, GoesOnKeeps
<1> QED
  BY <1>5, <1>6

LEMMA ActivateKeeps ==
    ASSUME IInv, NEW e \in Epochs, Activate(e)
    PROVE  IInv'
<1> DEFINE a == [attempt EXCEPT ![e].state = "ACTIVE", ![e].activated = TRUE]
<1>1. /\ op[e].pc = "activate" /\ op[e].pc \in Phases /\ op[e].pc \in BrokerPhases
      /\ op[e].pc \in StagedPhases
  BY DEF Activate, At, Phases, BrokerPhases, StagedPhases
<1>2. /\ e <= latest /\ attempt[e].prepared
      /\ attempt[e].intent # NoIntent => ~attempt[e].intent.pre
  BY <1>1, RunningFact
<1>3. Unserved(e) /\ (broker[e] = "up" => attempt[e].state \notin Absorbing)
  BY <1>1, StandingFact DEF IInv, ClientsServe, Unserved
<1>4. /\ UNCHANGED <<latest, runtime, binding, up, client, hosting, drives, env, broker>>
      /\ staged' \subseteq Epochs /\ faults' \in [Faults -> Nat]
  BY DEF Activate, IInv, TypeOK, env
<1>5. CASE ~Activatable(e)
  <2>1. Throws(attempt, e, MaxTries, {})
    BY <1>5 DEF Activate
  <2> QED
    BY <1>1, <1>4, <2>1, NotMoved, ThrowKeeps
<1>6. CASE Activatable(e)
  <2>1. Moved(a, e) /\ a[e].state = "ACTIVE"
    <3>1. PICK v \in BOOLEAN : a = MoveTo(e, "ACTIVE", attempt[e].identity, v)
      BY DEF MoveTo, IInv, TypeOK, Attempts
    <3>2. CASE attempt[e].state = "ATTACH_CONFIRMED" /\ (attempt[e].activated \/ PriorSettled(e))
      <4>1. ~Served(attempt[e])
        BY <3>2 DEF Served, Absorbing
      <4>2. "ACTIVE" \in AttemptStates \ ({"NONE"} \cup Absorbing)
        BY DEF AttemptStates, Frozen, Absorbing
      <4>3. attempt[e].identity \in BOOLEAN
        BY DEF IInv, TypeOK, Attempts
      <4>4. attempt[e].activated \/ PriorSettled(e)
        BY <3>2
      <4> DEFINE b == MoveTo(e, "ACTIVE", attempt[e].identity, v)
      <4>5. Moved(b, e) /\ b[e].state = "ACTIVE"
        BY <1>2, <4>1, <4>2, <4>3, <4>4, StateMoves
      <4> QED
        BY <3>1, <4>5
    <3>3. CASE attempt[e].state = "ACTIVE" /\ attempt[e].activated
      <4>1. attempt[e] \in Attempts /\ attempt \in [Epochs -> Attempts]
        BY DEF IInv, TypeOK
      <4>2. a = [attempt EXCEPT ![e] = [attempt[e] EXCEPT !.state = "ACTIVE", !.activated = TRUE]]
        BY <4>1 DEF Attempts
      <4>3. attempt[e].activated = TRUE
        BY <3>3, <4>1 DEF Attempts
      <4>4. [attempt[e] EXCEPT !.state = "ACTIVE", !.activated = TRUE] = attempt[e]
        BY <3>3, <4>1, <4>3 DEF Attempts
      <4>5. a = attempt
        BY <4>1, <4>2, <4>4
      <4> QED
        BY <3>3, <4>5, NotMoved
    <3> QED
      BY <1>6, <3>2, <3>3 DEF Activatable
  <2> HIDE DEF a
  <2>2. CASE e \notin staged
    <3>1. Throws(a, e, MaxTries, {})
      BY <1>6, <2>2 DEF Activate, a
    <3> QED
      BY <1>1, <1>4, <2>1, <3>1, ThrowKeeps
  <2>3. CASE e \in staged
    <3> DEFINE p == [op[e] EXCEPT !.pc = "replay"]
    <3>1. p \in Ops /\ p.pc = "replay"
      BY GotoFact
    <3>2. attempt' = a /\ op' = [op EXCEPT ![e] = p] /\ UNCHANGED settling
      BY <1>6, <2>3 DEF Activate, Goto, a
    <3> HIDE DEF p
    <3>3. "ACTIVE" \notin Absorbing
      BY DEF Absorbing
    <3>4. broker[e] = "up" =>
            runtime[attempt[e].runtime].status = "live" /\ runtime[attempt[e].runtime].inv = e
      BY <1>1, StandingFact DEF RuntimeOf
    <3> QED
      BY <1>2, <1>3, <1>4, <2>1, <3>1, <3>2, <3>3, <3>4, GoesOnKeeps
  <2> QED
    BY <2>2, <2>3
<1> QED
  BY <1>5, <1>6

LEMMA PersistHostingKeeps ==
    ASSUME IInv, NEW e \in Epochs, PersistHosting(e)
    PROVE  IInv'
<1>1. /\ UNCHANGED <<latest, runtime, binding, up, client, staged, drives, settling, env, broker>>
      /\ hosting' \subseteq Epochs /\ op' = Scheduled(op, attempt', e)
  BY DEF PersistHosting, IInv, TypeOK, env
<1>2. /\ op' \in [Epochs -> Ops]
      /\ \A x \in Epochs : x # e => op'[x] = op[x]
      /\ op'[e] = op[e] \/ (op'[e] = Due /\ attempt'[e].work \in Armed)
  <2>1. op \in [Epochs -> Ops]
    BY DEF IInv, TypeOK
  <2> QED
    BY <1>1, <2>1, ScheduledFact
<1>3. Due.pc \notin Phases \cup BrokerPhases \cup StagedPhases
  BY DEF Due, Idle, Phases, BrokerPhases, StagedPhases
<1>4. CASE attempt[e].state = "PREPARED"
  <2>1. ~Served(attempt[e])
    BY <1>4 DEF Served, Absorbing
  <2>2. e <= latest /\ attempt[e].prepared
    <3>1. ~(e > latest)
      BY <1>4 DEF IInv, Numbered, NoAttempt
    <3>2. e \in Nat /\ latest \in Nat
      BY ParticipantsAssumption DEF IInv, TypeOK, Epochs
    <3> QED
      BY <1>4, <3>1, <3>2 DEF IInv, AttachedTogether
  <2>3. Moved(attempt', e) /\ attempt'[e].state = "HOSTING_INTENT_PERSISTED"
    <3>1. attempt' = MoveTo(e, "HOSTING_INTENT_PERSISTED", attempt[e].identity,
                            attempt[e].activated)
      BY <1>4 DEF PersistHosting, MoveTo, IInv, TypeOK, Attempts
    <3>2. "HOSTING_INTENT_PERSISTED" \in AttemptStates \ ({"NONE"} \cup Absorbing)
      BY DEF AttemptStates, Frozen, Absorbing
    <3>3. attempt[e].activated \in BOOLEAN /\ attempt[e].identity \in BOOLEAN
      BY DEF IInv, TypeOK, Attempts
    <3> QED
      BY <2>1, <2>2, <3>1, <3>2, <3>3, StateMoves
  <2>4. TypeOK'
    BY <1>1, <1>2, <2>3 DEF IInv, TypeOK, Moved, env
  <2>5. op[e].pc \in Phases =>
          /\ attempt[e].intent # NoIntent => ~attempt[e].intent.pre
          /\ op[e].pc \notin {"replay", "publish"}
    BY <1>4 DEF IInv, RunsAttached, Absorbing
  <2>6. /\ op[e].pc \in BrokerPhases => Unserved(e)
        /\ op[e].pc \in StagedPhases /\ broker[e] = "up" =>
             runtime[attempt[e].runtime].status = "live" /\ runtime[attempt[e].runtime].inv = e
    BY <2>5, StandingFact DEF IInv, ClientsServe, Unserved, RuntimeOf, Phases, BrokerPhases, StagedPhases
  <2>7. /\ WorkOf(attempt'[e]) = "completed" => WorkOf(attempt[e]) = "completed"
        /\ "HOSTING_INTENT_PERSISTED" \notin {"ACTIVE"} \cup Absorbing
    BY <2>3 DEF Moved, WorkOf, Absorbing
  <2>8. Advances(e)
    <3>1. CASE op'[e] = op[e]
      BY <1>1, <1>2, <2>2, <2>3, <2>4, <2>5, <2>6, <2>7, <3>1 DEF Advances, Moved
    <3>2. CASE op'[e] = Due
      BY <1>1, <1>2, <1>3, <2>2, <2>3, <2>4, <2>7, <3>2 DEF Advances, Moved
    <3> QED
      BY <1>2, <3>1, <3>2
  <2> QED
    BY <2>8, AdvanceKeeps
<1>5. CASE attempt[e].state # "PREPARED"
  <2>1. attempt' = attempt
    BY <1>5 DEF PersistHosting
  <2>2. TypeOK'
    BY <1>1, <1>2, <2>1 DEF IInv, TypeOK, env
  <2>3. \A x \in Epochs :
          /\ x > latest => op[x].pc = "idle" /\ attempt[x].work \notin Armed
          /\ attempt[x].state = "ABANDONED" /\ ~attempt[x].prepared =>
               attempt[x].intent # NoIntent \/ attempt[x].work \notin Armed
    BY DEF IInv, AttachedTogether, Numbered, NoAttempt, Armed
  <2>4. \A x \in Epochs :
          /\ op'[x] = op[x] \/ op'[x].pc \notin Phases
          /\ x > latest => op'[x].pc = "idle"
    BY <1>2, <1>3, <2>1, <2>3
  <2>5. KeepsBooks
    BY <1>1, <2>1, <2>2, <2>3, <2>4 DEF KeepsBooks, SameStand
  <2> QED
    BY <2>5, BooksKept
<1> QED
  BY <1>4, <1>5

LEMMA PublishKeeps ==
    ASSUME IInv, NEW e \in Epochs, Publish(e)
    PROVE  IInv'
<1> USE DEF SameStand
<1> DEFINE r == attempt[e].runtime
<1>1. /\ op[e].pc = "publish" /\ op[e].pc \in Phases /\ op[e].pc \in BrokerPhases
      /\ op[e].pc \in StagedPhases /\ broker[e] = "up"
  BY DEF Publish, At, Phases, BrokerPhases, StagedPhases
<1>2. e <= latest /\ attempt[e].prepared /\ r \in Epochs
  BY <1>1, RunningFact
<1>3. attempt[e].state \in {"ACTIVE"} \cup Absorbing
  BY <1>1 DEF IInv, RunsAttached
<1>4. Counted(attempt, attempt', e)
  BY CompletedFact DEF Publish, IInv, TypeOK
<1>5. /\ op' \in [Epochs -> Ops] /\ op'[e].pc = "idle"
      /\ \A x \in Epochs : x # e => op'[x] = op[x]
  BY DEF Publish, IInv, TypeOK, Idle, Ops, AttemptStates
<1>6. e \in 0 .. MaxEpoch /\ e # 0
  BY ParticipantsAssumption DEF Epochs
<1>7. /\ client' \in [Epochs -> 0 .. MaxEpoch] /\ client'[r] = e
      /\ \A x \in Epochs : x # r => client'[x] = client[x]
  BY <1>2, <1>6 DEF Publish, IInv, TypeOK
<1>8. /\ runtime' \in [Epochs -> [status : {"none", "live", "terminated"}, inv : 0 .. MaxEpoch]]
      /\ \A x \in Epochs : x # r => runtime'[x] = runtime[x]
      /\ runtime'[r].status = "live"
  <2>1. [status |-> "live", inv |-> e] \in [status : {"none", "live", "terminated"}, inv : 0 .. MaxEpoch]
    BY <1>6
  <2>2. runtime \in [Epochs -> [status : {"none", "live", "terminated"}, inv : 0 .. MaxEpoch]]
    BY DEF IInv, TypeOK
  <2> QED
    BY <1>2, <2>1, <2>2 DEF Publish
<1>9. UNCHANGED <<latest, binding, up, staged, hosting, drives, settling, broker, faults>>
  BY DEF Publish, env
<1> HIDE DEF r
<1>10. attempt[e].runtime = r
  BY DEF r
<1>11. ASSUME NEW x \in Epochs
       PROVE  /\ SameStand(attempt[x], attempt'[x]) /\ attempt'[x].intent = attempt[x].intent
              /\ x # e => attempt'[x] = attempt[x]
              /\ attempt'[x].work \in Armed => attempt[x].work \in Armed
              /\ x <= latest => attempt[x].runtime \in Epochs
              /\ ~(x <= latest /\ x > latest)
  <2>1. x \in Nat /\ latest \in Nat /\ x <= MaxEpoch
    BY ParticipantsAssumption DEF IInv, TypeOK, Epochs
  <2>2. x <= latest => attempt[x].runtime \in Epochs
    BY <2>1, ParticipantsAssumption DEF IInv, Numbered, Epochs
  <2> QED
    BY <1>4, <2>1, <2>2 DEF Counted
<1>12. TypeOK'
  BY <1>4, <1>5, <1>7, <1>8, <1>9 DEF IInv, TypeOK, Counted
<1>13. Numbered' /\ PastIsSettled' /\ SettledIsDead' /\ ActivatedAlone'
  BY <1>2, <1>5, <1>9, <1>11
     DEF IInv, Numbered, PastIsSettled, SettledIsDead, ActivatedAlone
<1>14. AttachedTogether'
  BY <1>2, <1>9, <1>11 DEF IInv, AttachedTogether
<1>15. IntentsHold'
  <2>1. \A x \in Epochs : NeverAttached(x)' => NeverAttached(x)
    <3>1. \A x \in Epochs : NeverAttached(x)' => ~(x > latest)
      BY <1>11 DEF IInv, Numbered, NeverAttached, NoAttempt
    <3>2. \A x \in Epochs : x <= latest \/ x > latest
      BY ParticipantsAssumption DEF IInv, TypeOK, Epochs
    <3>3. \A x \in Epochs : runtime'[x].status = "none" => runtime[x].status = "none"
      BY <1>8
    <3> QED
      BY <1>11, <3>1, <3>2, <3>3 DEF NeverAttached, RuntimeOf
  <2> QED
    BY <1>9, <1>11, <2>1 DEF IInv, IntentsHold
<1>16. DrivesHold'
  <2>1. \A d \in drives : d.e \in Epochs
    BY DEF IInv, TypeOK, Drives
  <2> QED
    BY <1>9, <1>11, <2>1 DEF IInv, DrivesHold, Holds
<1>17. RunsAttached'
  BY <1>5, <1>11 DEF IInv, RunsAttached, Phases
<1>18. WorkEndsServed'
  BY <1>3, <1>9, <1>11 DEF IInv, WorkEndsServed
<1>19. ClientsServe'
  <2>1. \A x \in Epochs : x # r /\ client[x] # 0 => client[x] \in Epochs
    BY ParticipantsAssumption DEF IInv, TypeOK, Epochs
  <2>2. ASSUME NEW x \in Epochs, client'[x] # 0
        PROVE  /\ attempt'[client'[x]].runtime = x
               /\ attempt'[client'[x]].state \in {"ACTIVE"} \cup Absorbing
    BY <1>3, <1>7, <1>10, <1>11, <2>1, <2>2 DEF IInv, ClientsServe
  <2>3. ASSUME NEW x \in Epochs, op'[x].pc \in BrokerPhases, NEW y \in Epochs
        PROVE  client'[y] # x
    <3>1. x # e /\ op[x].pc \in BrokerPhases
      BY <1>5, <2>3 DEF BrokerPhases, Phases
    <3> QED
      BY <1>7, <3>1 DEF IInv, ClientsServe
  <2> QED
    BY <2>2, <2>3 DEF ClientsServe
<1>20. StagedRuntimeStands'
  <2>1. ASSUME NEW x \in Epochs, broker[x] = "up", op'[x].pc \in BrokerPhases \cup StagedPhases
        PROVE  FALSE
    <3>1. x # e /\ op[x].pc # "idle"
      BY <1>5, <2>1 DEF Phases, BrokerPhases, StagedPhases
    <3> QED
      BY <1>1, <1>2, <2>1, <3>1, OneBroker, OperationIsKnown
  <2> QED
    BY <1>9, <2>1 DEF StagedRuntimeStands
<1> QED
  BY <1>12, <1>13, <1>14, <1>15, <1>16, <1>17, <1>18, <1>19, <1>20 DEF IInv

-----------------------------------------------------------------------------
(* Registration, attachment and the end of an attempt                      *)

LEMMA RegisterKeeps ==
    ASSUME IInv, Register
    PROVE  IInv'
<1>1. /\ latest = 0 /\ latest' = 1 /\ 1 \in Epochs /\ 1 \in 0 .. MaxEpoch
      /\ \A x \in Epochs : x > 0
  BY ParticipantsAssumption DEF Register, Epochs
<1>2. \A x \in Epochs : attempt[x] = NoAttempt /\ op[x].pc = "idle"
  BY <1>1 DEF IInv, Numbered
<1>3. /\ Minted(1) \in Attempts /\ NoAttempt \in Attempts
      /\ Minted(1).state = "IDENTITY_MINTED" /\ Minted(1).work = "pending"
      /\ Minted(1).intent = NoIntent /\ Minted(1).runtime = 1
      /\ ~Minted(1).prepared /\ ~Minted(1).settled /\ ~Minted(1).activated
  <2>1. /\ 0 \in 0 .. MaxTries + 1 /\ 0 \in 0 .. MaxEpoch /\ NoIntent \in Intents
    BY ParticipantsAssumption DEF Intents
  <2> QED
    BY <1>1, <2>1 DEF Minted, NoAttempt, Attempts, AttemptStates, WorkStates, Armed
<1>4. /\ attempt' \in [Epochs -> Attempts] /\ attempt'[1] = Minted(1)
      /\ \A x \in Epochs : x # 1 => attempt'[x] = attempt[x]
  BY <1>1, <1>3 DEF Register, IInv, TypeOK
<1>5. UNCHANGED <<runtime, up, client, staged, op, hosting, drives, settling, broker, faults>>
  BY DEF Register, memory, env
<1>6. /\ TypeOK'
  BY <1>1, <1>4, <1>5 DEF Register, IInv, TypeOK
<1>7. /\ ~NoAttempt.settled /\ ~NoAttempt.activated /\ ~NoAttempt.prepared
      /\ NoAttempt.intent = NoIntent /\ NoAttempt.state = "NONE" /\ NoAttempt.runtime = 0
  BY DEF NoAttempt
<1>8. \A x \in Epochs : x < 1 \/ x = 1 \/ x > 1
  BY DEF Epochs
<1>9. Numbered'
  BY <1>1, <1>2, <1>3, <1>4, <1>5, <1>8 DEF Numbered, Epochs
<1>10. PastIsSettled' /\ SettledIsDead' /\ ActivatedAlone' /\ IntentsHold'
  BY <1>1, <1>2, <1>3, <1>4, <1>5, <1>7
     DEF PastIsSettled, SettledIsDead, ActivatedAlone, IntentsHold, Epochs
<1>11. AttachedTogether'
  BY <1>1, <1>2, <1>3, <1>4, <1>5, <1>7 DEF IInv, AttachedTogether
<1>12. DrivesHold'
  <2>1. drives = {}
    BY <1>1, ParticipantsAssumption DEF IInv, TypeOK, DrivesHold, Drives, Epochs
  <2> QED
    BY <1>5, <2>1 DEF DrivesHold
<1>13. RunsAttached' /\ StagedRuntimeStands'
  BY <1>2, <1>5 DEF RunsAttached, StagedRuntimeStands, Phases, BrokerPhases, StagedPhases
<1>14. WorkEndsServed'
  BY <1>1, <1>3, <1>4, <1>8 DEF WorkEndsServed, WorkOf, Epochs
<1>15. ClientsServe'
  <2>1. \A r \in Epochs : client[r] = 0
    <3> SUFFICES ASSUME NEW r \in Epochs, client[r] # 0
                 PROVE  FALSE
      OBVIOUS
    <3>1. client[r] \in Epochs
      BY ParticipantsAssumption DEF IInv, TypeOK, Epochs
    <3> QED
      BY <1>1, <1>2, <1>7, <3>1 DEF IInv, ClientsServe
  <2> QED
    BY <1>2, <1>5, <2>1 DEF ClientsServe, Phases, BrokerPhases
<1> QED
  BY <1>6, <1>9, <1>10, <1>11, <1>12, <1>13, <1>14, <1>15 DEF IInv

LEMMA AttachKeeps ==
    ASSUME IInv, NEW e \in Epochs, Attach(e)
    PROVE  IInv'
<1> DEFINE b == [attempt[e] EXCEPT !.state = "PREPARED", !.prepared = TRUE,
                                   !.work = "pending", !.count = 0]
<1>1. /\ e = latest /\ attempt[e].state = "IDENTITY_MINTED" /\ ~attempt[e].prepared
      /\ attempt[e] \in Attempts /\ attempt \in [Epochs -> Attempts]
  BY DEF Attach, IInv, TypeOK
<1>2. /\ b \in Attempts /\ b.state = "PREPARED" /\ b.prepared /\ b.work = "pending"
      /\ b.settled = attempt[e].settled /\ b.activated = attempt[e].activated
      /\ b.runtime = attempt[e].runtime /\ b.intent = attempt[e].intent
  <2>1. 0 \in 0 .. MaxTries + 1 /\ "pending" \in WorkStates /\ "PREPARED" \in AttemptStates
    BY ParticipantsAssumption DEF WorkStates, Armed, AttemptStates
  <2> QED
    BY <1>1, <2>1 DEF Attempts
<1>3. attempt' = [attempt EXCEPT ![e] = b]
  BY <1>1 DEF Attach
<1> HIDE DEF b
<1>4. /\ attempt' \in [Epochs -> Attempts] /\ attempt'[e] = b
      /\ \A x \in Epochs : x # e => attempt'[x] = attempt[x]
  BY <1>1, <1>2, <1>3
<1>5. /\ broker' \in [Epochs -> {"absent", "up", "gone"}] /\ broker'[e] = "up"
      /\ \A x \in Epochs : x # e => broker'[x] = broker[x]
  BY DEF Attach, IInv, TypeOK
<1>6. UNCHANGED <<latest, runtime, up, client, staged, op, drives, settling, faults>>
  BY DEF Attach
<1>7. binding' \in [Epochs -> {"NONE", "BINDING", "BOUND", "RETIRING", "RETIRED"}]
  BY DEF Attach, IInv, TypeOK
<1>8. TypeOK'
  BY <1>4, <1>5, <1>6, <1>7 DEF Attach, IInv, TypeOK
<1>9. "IDENTITY_MINTED" \notin {"ACTIVE"} \cup Absorbing /\ "PREPARED" \notin Absorbing
  BY DEF Absorbing
<1>10. ~attempt[e].settled /\ op[e].pc \notin Phases
  BY <1>1, <1>9 DEF IInv, SettledIsDead, RunsAttached
<1>11. latest \in Nat /\ \A x \in Epochs : x \in Nat
  BY ParticipantsAssumption DEF IInv, TypeOK, Epochs
<1>12. Numbered'
  BY <1>1, <1>2, <1>4, <1>6, <1>11 DEF IInv, Numbered
<1>13. PastIsSettled' /\ SettledIsDead'
  BY <1>1, <1>2, <1>4, <1>5, <1>6, <1>10, <1>11 DEF IInv, PastIsSettled, SettledIsDead
<1>14. ActivatedAlone'
  BY <1>2, <1>4 DEF IInv, ActivatedAlone
<1>15. AttachedTogether'
  BY <1>2, <1>4, <1>5 DEF IInv, AttachedTogether
<1>16. IntentsHold'
  <2>1. \A x \in Epochs : NeverAttached(x)' => NeverAttached(x)
    BY <1>2, <1>4, <1>6 DEF NeverAttached, RuntimeOf
  <2> QED
    BY <1>2, <1>4, <1>6, <2>1 DEF IInv, IntentsHold
<1>17. DrivesHold'
  <2>1. \A d \in drives : d.e \in Epochs
    BY DEF IInv, TypeOK, Drives
  <2> QED
    BY <1>2, <1>4, <1>6, <2>1 DEF IInv, DrivesHold, Holds
<1>18. RunsAttached'
  BY <1>4, <1>6, <1>10 DEF IInv, RunsAttached
<1>19. WorkEndsServed'
  <2>1. WorkOf(attempt[e]) # "completed"
    BY <1>1, <1>9, <1>11 DEF IInv, WorkEndsServed
  <2>2. WorkOf(attempt'[e]) # "completed"
    BY <1>2, <1>4, <2>1 DEF WorkOf
  <2> QED
    BY <1>4, <1>6, <2>2 DEF IInv, WorkEndsServed
<1>20. ClientsServe'
  <2>1. \A r \in Epochs : client[r] # 0 => client[r] \in Epochs
    BY ParticipantsAssumption DEF IInv, TypeOK, Epochs
  <2>2. \A r \in Epochs : client[r] # 0 => client[r] # e
    BY <1>1, <1>9 DEF IInv, ClientsServe
  <2> QED
    BY <1>4, <1>6, <2>1, <2>2 DEF IInv, ClientsServe
<1>21. StagedRuntimeStands'
  <2>1. op[e].pc \notin BrokerPhases \cup StagedPhases
    BY <1>10 DEF Phases, BrokerPhases, StagedPhases
  <2> QED
    BY <1>4, <1>5, <1>6, <2>1 DEF IInv, StagedRuntimeStands, Carried, RuntimeOf
<1> QED
  BY <1>8, <1>12, <1>13, <1>14, <1>15, <1>16, <1>17, <1>18, <1>19, <1>20, <1>21 DEF IInv

\* The end of an attempt takes it to TERMINAL, or leaves it.
LEMMA EndedFact ==
    ASSUME NEW a \in [Epochs -> Attempts], NEW e \in Epochs
    PROVE  LET b == Ended(a, e)
           IN /\ b \in [Epochs -> Attempts]
              /\ \A x \in Epochs : x # e => b[x] = a[x]
              /\ b[e].prepared = a[e].prepared /\ b[e].identity = a[e].identity
              /\ b[e].activated = a[e].activated /\ b[e].settled = a[e].settled
              /\ b[e].runtime = a[e].runtime /\ b[e].intent = a[e].intent
              /\ b[e].work = a[e].work
              /\ \/ /\ b[e] = a[e]
                    /\ a[e].state \notin {"INVOCATION_READY", "ATTACH_CONFIRMED", "ACTIVE", "DETACHED"}
                 \/ /\ b[e].state = "TERMINAL"
                    /\ a[e].state \in {"INVOCATION_READY", "ATTACH_CONFIRMED", "ACTIVE", "DETACHED"}
<1> DEFINE t == [a[e] EXCEPT !.state = "TERMINAL"]
<1>1. /\ t \in Attempts /\ t.state = "TERMINAL"
      /\ t.prepared = a[e].prepared /\ t.identity = a[e].identity
      /\ t.activated = a[e].activated /\ t.settled = a[e].settled
      /\ t.runtime = a[e].runtime /\ t.intent = a[e].intent /\ t.work = a[e].work
  BY DEF Attempts, AttemptStates, Absorbing
<1>2. \/ /\ Ended(a, e) = a
         /\ a[e].state \notin {"INVOCATION_READY", "ATTACH_CONFIRMED", "ACTIVE", "DETACHED"}
      \/ /\ Ended(a, e) = [a EXCEPT ![e] = t]
         /\ a[e].state \in {"INVOCATION_READY", "ATTACH_CONFIRMED", "ACTIVE", "DETACHED"}
  BY DEF Ended
<1> HIDE DEF t
<1> QED
  BY <1>1, <1>2

\* An attempt ends, and its runtime row if that still serves it; what else the daemon holds in
\* memory goes on, or is forgotten.
LEMMA EndKeeps ==
    ASSUME IInv, NEW e \in Epochs, attempt' = Ended(attempt, e),
           NEW q \in [status : {"none", "live", "terminated"}, inv : 0 .. MaxEpoch],
           q.status # "none",
           \/ runtime' = runtime
           \/ /\ runtime' = [runtime EXCEPT ![attempt[e].runtime] = q]
              /\ RuntimeOf(e).inv = e,
           op' \in [Epochs -> Ops], client' \in [Epochs -> 0 .. MaxEpoch],
           \A x \in Epochs :
              /\ client'[x] \in {client[x], 0}
              /\ \/ op'[x] = op[x]
                 \/ op'[x].pc = "idle"
                 \/ /\ x = e /\ op[e].pc = "replay" /\ op'[e].pc = "publish"
                    /\ RuntimeOf(e).inv = e /\ q.inv = e,
           broker[e] = "up" /\ op'[e] = op[e] => op[e].pc \notin BrokerPhases,
           drives' \subseteq drives,
           settling' \subseteq Epochs, staged' \subseteq Epochs, hosting' \subseteq Epochs,
           up' \in BOOLEAN, faults' \in [Faults -> Nat],
           UNCHANGED <<latest, binding, broker>>
    PROVE  IInv'
<1> USE DEF Absorbing
<1>1. /\ attempt' \in [Epochs -> Attempts]
      /\ \A x \in Epochs : x # e => attempt'[x] = attempt[x]
      /\ \A x \in Epochs :
           /\ attempt'[x].prepared = attempt[x].prepared
           /\ attempt'[x].identity = attempt[x].identity
           /\ attempt'[x].activated = attempt[x].activated
           /\ attempt'[x].settled = attempt[x].settled
           /\ attempt'[x].runtime = attempt[x].runtime
           /\ attempt'[x].intent = attempt[x].intent
           /\ attempt'[x].work = attempt[x].work
      /\ \/ attempt'[e] = attempt[e] /\ attempt[e].state # "ACTIVE"
         \/ /\ attempt'[e].state = "TERMINAL"
            /\ attempt[e].state \in {"INVOCATION_READY", "ATTACH_CONFIRMED", "ACTIVE", "DETACHED"}
  <2>1. attempt \in [Epochs -> Attempts]
    BY DEF IInv, TypeOK
  <2> DEFINE b == Ended(attempt, e)
  <2>2. /\ b \in [Epochs -> Attempts]
        /\ \A x \in Epochs : x # e => b[x] = attempt[x]
        /\ b[e].prepared = attempt[e].prepared /\ b[e].identity = attempt[e].identity
        /\ b[e].activated = attempt[e].activated /\ b[e].settled = attempt[e].settled
        /\ b[e].runtime = attempt[e].runtime /\ b[e].intent = attempt[e].intent
        /\ b[e].work = attempt[e].work
        /\ \/ b[e] = attempt[e] /\ attempt[e].state # "ACTIVE"
           \/ /\ b[e].state = "TERMINAL"
              /\ attempt[e].state \in {"INVOCATION_READY", "ATTACH_CONFIRMED", "ACTIVE", "DETACHED"}
    BY <2>1, EndedFact
  <2>3. attempt' = b
    OBVIOUS
  <2> HIDE DEF b
  <2> QED
    BY <2>2, <2>3
<1>2. /\ runtime' \in [Epochs -> [status : {"none", "live", "terminated"}, inv : 0 .. MaxEpoch]]
      /\ \A r \in Epochs :
           runtime'[r] = runtime[r] \/ (runtime[r].inv = e /\ runtime'[r].status # "none")
  BY DEF IInv, TypeOK, RuntimeOf
<1>3. TypeOK'
  BY <1>1, <1>2 DEF IInv, TypeOK
<1>4. \A x \in Epochs :
         \/ attempt'[x] = attempt[x]
         \/ /\ attempt'[x].state = "TERMINAL"
            /\ attempt[x].state \in {"INVOCATION_READY", "ATTACH_CONFIRMED", "ACTIVE", "DETACHED"}
  BY <1>1
<1>5. UNCHANGED <<latest, broker>> /\ drives' \subseteq drives
      /\ \A x \in Epochs : op[x].pc = "idle" => op'[x].pc = "idle"
  OBVIOUS
<1>6. Numbered'
  <2>1. \A x \in Epochs : x > latest => attempt'[x] = attempt[x]
    BY <1>4 DEF IInv, Numbered, NoAttempt
  <2>2. \A x \in Epochs : attempt[x].state # "NONE" => attempt'[x].state # "NONE"
    BY <1>4
  <2> QED
    BY <1>1, <1>5, <2>1, <2>2 DEF IInv, Numbered
<1>7. PastIsSettled' /\ ActivatedAlone'
  BY <1>1, <1>5 DEF IInv, PastIsSettled, ActivatedAlone
<1>8. SettledIsDead' /\ AttachedTogether'
  BY <1>1, <1>4, <1>5 DEF IInv, SettledIsDead, AttachedTogether
<1>9. IntentsHold'
  <2>1. \A x \in Epochs : NeverAttached(x)' => NeverAttached(x)
    <3>1. \A x \in Epochs : NeverAttached(x)' => attempt[x].runtime \in Epochs
      <4>1. \A x \in Epochs : NeverAttached(x)' => ~(x > latest)
        BY <1>4 DEF IInv, Numbered, NeverAttached, NoAttempt
      <4> QED
        BY <4>1, ParticipantsAssumption DEF IInv, TypeOK, Numbered, Epochs
    <3> QED
      BY <1>1, <1>2, <1>4, <3>1 DEF NeverAttached, RuntimeOf
  <2> QED
    BY <1>1, <1>4, <1>5, <2>1 DEF IInv, IntentsHold
<1>10. DrivesHold'
  <2>1. \A d \in drives : d.e \in Epochs
    BY DEF IInv, TypeOK, Drives
  <2> QED
    BY <1>1, <1>4, <1>5, <2>1 DEF IInv, DrivesHold, Holds
<1>11. RunsAttached'
  <2>1. ASSUME NEW x \in Epochs, op'[x].pc \in Phases
        PROVE  /\ attempt'[x].prepared /\ (attempt'[x].intent # NoIntent => ~attempt'[x].intent.pre)
               /\ op'[x].pc = "realize" => attempt'[x].state # "ACTIVE"
               /\ op'[x].pc \in {"replay", "publish"} =>
                    attempt'[x].state \in {"ACTIVE"} \cup Absorbing
    <3>1. \/ op'[x] = op[x]
          \/ op[x].pc = "replay" /\ op'[x].pc = "publish"
      BY <2>1 DEF Phases
    <3>2. op[x].pc \in Phases
      BY <2>1, <3>1 DEF Phases
    <3>3. /\ attempt[x].prepared /\ (attempt[x].intent # NoIntent => ~attempt[x].intent.pre)
          /\ op[x].pc = "realize" => attempt[x].state # "ACTIVE"
          /\ op[x].pc \in {"replay", "publish"} => attempt[x].state \in {"ACTIVE"} \cup Absorbing
      BY <3>2 DEF IInv, RunsAttached
    <3> QED
      BY <1>1, <1>4, <3>1, <3>3
  <2> QED
    BY <2>1 DEF RunsAttached
<1>12. WorkEndsServed'
  <2>1. \A x \in Epochs : WorkOf(attempt'[x]) = WorkOf(attempt[x])
    BY <1>1 DEF WorkOf
  <2> QED
    BY <1>4, <1>5, <2>1 DEF IInv, WorkEndsServed
<1>13. ClientsServe'
  <2>1. \A r \in Epochs : client[r] # 0 => client[r] \in Epochs
    BY ParticipantsAssumption DEF IInv, TypeOK, Epochs
  <2>2. \A r \in Epochs : client'[r] # 0 => client'[r] = client[r]
    OBVIOUS
  <2>3. ASSUME NEW x \in Epochs, op'[x].pc \in BrokerPhases, NEW r \in Epochs
        PROVE  client'[r] # x
    <3>1. op[x].pc \in BrokerPhases
      BY <2>3 DEF BrokerPhases, Phases
    <3>2. x # 0 /\ client[r] # x
      BY <3>1, ParticipantsAssumption DEF IInv, ClientsServe, Epochs
    <3> QED
      BY <2>2, <3>2
  <2> QED
    BY <1>1, <1>4, <1>5, <2>1, <2>2, <2>3 DEF IInv, ClientsServe
<1>14. StagedRuntimeStands'
  <2> SUFFICES ASSUME NEW x \in Epochs, broker[x] = "up", op'[x].pc \in BrokerPhases
               PROVE  /\ attempt'[x].state \notin Absorbing \/ Carried(x)'
                      /\ op'[x].pc \in StagedPhases =>
                           /\ runtime'[attempt'[x].runtime].inv = x
                           /\ \/ runtime'[attempt'[x].runtime].status = "live"
                              \/ Carried(x)'
    BY <1>5 DEF StagedRuntimeStands, RuntimeOf, StagedPhases, BrokerPhases, Phases
  <2>1. CASE x = e
    <3>1. /\ op[e].pc = "replay" /\ op'[e].pc = "publish"
          /\ RuntimeOf(e).inv = e /\ q.inv = e
      BY <2>1 DEF BrokerPhases, Phases
    <3>2. op[e].pc \in BrokerPhases \ {"publish"} /\ op[e].pc \in Phases
      BY <3>1 DEF BrokerPhases, Phases
    <3>3. attempt[e].state = "ACTIVE" /\ attempt[e].runtime \in Epochs
      BY <2>1, <3>1, <3>2, StandingFact, RunningFact DEF IInv, RunsAttached
    <3>4. attempt'[e].state = "TERMINAL"
      BY <1>1, <3>3
    <3>5. runtime'[attempt[e].runtime].inv = e
      BY <3>1, <3>3 DEF IInv, TypeOK, RuntimeOf
    <3> QED
      BY <1>1, <2>1, <3>1, <3>4, <3>5 DEF Carried
  <2>2. CASE x # e
    <3>1. op'[x] = op[x] /\ attempt'[x] = attempt[x] /\ op[x].pc \in BrokerPhases
          /\ attempt[x].runtime \in Epochs
      <4>1. op'[x] = op[x] /\ attempt'[x] = attempt[x]
        BY <1>1, <2>2 DEF BrokerPhases, Phases
      <4> QED
        BY <4>1, RunningFact DEF BrokerPhases
    <3>2. /\ attempt[x].state \notin Absorbing \/ Carried(x)
          /\ op[x].pc \in StagedPhases =>
                /\ runtime[attempt[x].runtime].inv = x
                /\ runtime[attempt[x].runtime].status = "live" \/ Carried(x)
      BY <3>1 DEF IInv, StagedRuntimeStands, RuntimeOf
    <3>3. Carried(x)' <=> Carried(x)
      BY <3>1 DEF Carried
    <3> QED
      BY <1>2, <2>2, <3>1, <3>2, <3>3
  <2> QED
    BY <2>1, <2>2
<1> QED
  BY <1>3, <1>6, <1>7, <1>8, <1>9, <1>10, <1>11, <1>12, <1>13, <1>14 DEF IInv

\* The end of the runtime row of e, if that serves it.
LEMMA ReleasedFact ==
    ASSUME IInv, NEW e \in Epochs, attempt[e].runtime \in Epochs
    PROVE  \E q \in [status : {"none", "live", "terminated"}, inv : 0 .. MaxEpoch] :
              /\ q.status = "terminated" /\ (RuntimeOf(e).inv = e => q.inv = e)
              /\ \/ Released(e) = runtime /\ RuntimeOf(e).inv # e
                 \/ /\ Released(e) = [runtime EXCEPT ![attempt[e].runtime] = q]
                    /\ RuntimeOf(e).inv = e
<1> DEFINE r == attempt[e].runtime
           q == [runtime[r] EXCEPT !.status = "terminated"]
<1>1. runtime[r] \in [status : {"none", "live", "terminated"}, inv : 0 .. MaxEpoch]
  BY DEF IInv, TypeOK
<1>2. /\ q \in [status : {"none", "live", "terminated"}, inv : 0 .. MaxEpoch]
      /\ q.status = "terminated" /\ q.inv = runtime[r].inv
  BY <1>1
<1>3. \/ Released(e) = runtime /\ RuntimeOf(e).inv # e
      \/ Released(e) = [runtime EXCEPT ![r] = q] /\ RuntimeOf(e).inv = e
  BY <1>1 DEF Released, RuntimeOf, IInv, TypeOK
<1> HIDE DEF q
<1> QED
  BY <1>2, <1>3 DEF RuntimeOf

\* A client that streams serves a registered attempt, which no operation works on.
LEMMA StreamingFact ==
    ASSUME IInv, NEW e \in Epochs, Streaming(e)
    PROVE  e <= latest /\ attempt[e].runtime \in Epochs /\ op[e].pc \notin BrokerPhases
<1>1. client[attempt[e].runtime] = e /\ e <= latest
  BY DEF Streaming, ClientOf
<1>2. attempt[e].runtime \in Epochs
  BY <1>1, ParticipantsAssumption DEF IInv, TypeOK, Numbered, Epochs
<1> QED
  BY <1>1, <1>2 DEF IInv, ClientsServe

LEMMA ProducerExitsKeeps ==
    ASSUME IInv, NEW e \in Epochs, ProducerExits(e)
    PROVE  IInv'
<1>1. attempt[e].runtime \in Epochs /\ op[e].pc \notin BrokerPhases
  BY StreamingFact DEF ProducerExits
<1>2. PICK q \in [status : {"none", "live", "terminated"}, inv : 0 .. MaxEpoch] :
         /\ q.status = "terminated" /\ (RuntimeOf(e).inv = e => q.inv = e)
         /\ \/ Released(e) = runtime /\ RuntimeOf(e).inv # e
            \/ /\ Released(e) = [runtime EXCEPT ![attempt[e].runtime] = q]
               /\ RuntimeOf(e).inv = e
  BY <1>1, ReleasedFact
<1>3. /\ attempt' = Ended(attempt, e) /\ runtime' = Released(e)
      /\ UNCHANGED <<latest, binding, up, client, staged, op, hosting, drives, settling, env>>
  BY DEF ProducerExits, memory
<1>4. /\ op' \in [Epochs -> Ops] /\ client' \in [Epochs -> 0 .. MaxEpoch]
      /\ settling' \subseteq Epochs /\ staged' \subseteq Epochs /\ hosting' \subseteq Epochs
      /\ up' \in BOOLEAN /\ faults' \in [Faults -> Nat] /\ broker' = broker
  BY <1>3 DEF IInv, TypeOK, env
<1> QED
  BY <1>1, <1>2, <1>3, <1>4, EndKeeps

\* The replay carries nothing, or the exit.
LEMMA ReplayKeeps ==
    ASSUME IInv, NEW e \in Epochs, Replay(e)
    PROVE  IInv'
<1> DEFINE p == [op[e] EXCEPT !.pc = "publish"]
<1>1. /\ op[e].pc = "replay" /\ op[e].pc \in Phases /\ op[e].pc \in BrokerPhases \ {"publish"}
      /\ op[e].pc \in StagedPhases /\ broker[e] = "up"
  BY DEF Replay, At, Phases, BrokerPhases, StagedPhases
<1>2. /\ e <= latest /\ attempt[e].runtime \in Epochs /\ attempt[e].prepared
      /\ attempt[e].intent # NoIntent => ~attempt[e].intent.pre
  BY <1>1, RunningFact
<1>3. /\ Unserved(e) /\ attempt[e].state \notin Absorbing /\ attempt[e].state = "ACTIVE"
      /\ RuntimeOf(e).status = "live" /\ RuntimeOf(e).inv = e
  BY <1>1, StandingFact DEF IInv, RunsAttached
<1>4. p \in Ops /\ p.pc = "publish"
  BY GotoFact
<1> HIDE DEF p
<1>5. op' = [op EXCEPT ![e] = p] /\ op' \in [Epochs -> Ops] /\ op'[e] = p
      /\ \A x \in Epochs : x # e => op'[x] = op[x]
  BY <1>4 DEF Replay, Goto, p, IInv, TypeOK
<1>6. UNCHANGED <<latest, binding, up, client, staged, hosting, drives, settling, env, broker, faults>>
  BY DEF Replay, env
<1>7. CASE UNCHANGED <<attempt, runtime>>
  <2>1. Moved(attempt', e)
    BY <1>7, NotMoved
  <2>2. staged' \subseteq Epochs
    BY <1>6 DEF IInv, TypeOK
  <2>3. /\ runtime'[attempt[e].runtime].status = "live"
        /\ runtime'[attempt[e].runtime].inv = e
    BY <1>3, <1>7 DEF RuntimeOf
  <2> QED
    BY <1>2, <1>3, <1>4, <1>5, <1>6, <1>7, <2>1, <2>2, <2>3, GoesOnKeeps
<1>8. CASE attempt' = Ended(attempt, e) /\ runtime' = Released(e)
  <2>1. PICK q \in [status : {"none", "live", "terminated"}, inv : 0 .. MaxEpoch] :
           /\ q.status = "terminated" /\ (RuntimeOf(e).inv = e => q.inv = e)
           /\ \/ Released(e) = runtime /\ RuntimeOf(e).inv # e
              \/ /\ Released(e) = [runtime EXCEPT ![attempt[e].runtime] = q]
                 /\ RuntimeOf(e).inv = e
    BY <1>2, ReleasedFact
  <2>2. runtime' = [runtime EXCEPT ![attempt[e].runtime] = q] /\ q.inv = e
    BY <1>3, <1>8, <2>1
  <2>3. /\ client' \in [Epochs -> 0 .. MaxEpoch]
        /\ settling' \subseteq Epochs /\ staged' \subseteq Epochs /\ hosting' \subseteq Epochs
        /\ up' \in BOOLEAN /\ faults' \in [Faults -> Nat]
    BY <1>6 DEF IInv, TypeOK
  <2>4. op'[e] # op[e]
    BY <1>1, <1>4, <1>5
  <2> QED
    BY <1>1, <1>3, <1>4, <1>5, <1>6, <1>8, <2>1, <2>2, <2>3, <2>4, EndKeeps
<1> QED
  BY <1>7, <1>8 DEF Replay

LEMMA CrashAfterExitKeeps ==
    ASSUME IInv, NEW e \in Epochs, CrashAfterExit(e)
    PROVE  IInv'
<1>1. Idle \in Ops /\ Idle.pc = "idle" /\ "idle" \notin BrokerPhases
  BY DEF Idle, Ops, AttemptStates, BrokerPhases, Phases
<1>2. faults' \in [Faults -> Nat]
  BY FaultFact DEF CrashAfterExit
<1>3. /\ op' \in [Epochs -> Ops] /\ client' \in [Epochs -> 0 .. MaxEpoch]
      /\ \A x \in Epochs : client'[x] = 0 /\ op'[x].pc = "idle"
  BY <1>1, ParticipantsAssumption DEF CrashAfterExit, Forget
<1>4. /\ up' \in BOOLEAN /\ staged' \subseteq Epochs /\ hosting' \subseteq Epochs
      /\ drives' \subseteq drives /\ settling' \subseteq Epochs
      /\ attempt' = Ended(attempt, e) /\ UNCHANGED <<latest, runtime, binding, broker>>
  BY DEF CrashAfterExit, Forget
<1>5. op'[e] = op[e] => op[e].pc \notin BrokerPhases
  BY <1>1, <1>3
<1> DEFINE q == [status |-> "terminated", inv |-> 0]
<1>6. q \in [status : {"none", "live", "terminated"}, inv : 0 .. MaxEpoch] /\ q.status # "none"
  BY ParticipantsAssumption
<1> HIDE DEF q
<1> QED
  BY <1>2, <1>3, <1>4, <1>5, <1>6, EndKeeps

LEMMA SettleDeadKeeps ==
    ASSUME IInv, NEW e \in Epochs, SettleDead(e)
    PROVE  IInv'
<1> DEFINE q == [status |-> "terminated", inv |-> 0]
<1>1. /\ q \in [status : {"none", "live", "terminated"}, inv : 0 .. MaxEpoch]
      /\ q.status = "terminated"
  BY ParticipantsAssumption
<1>2. /\ broker[e] # "up" /\ settling' \subseteq Epochs
      /\ UNCHANGED <<latest, binding, up, client, staged, op, hosting, drives, env>>
  BY DEF SettleDead, IInv, TypeOK
<1>5. /\ op' \in [Epochs -> Ops] /\ client' \in [Epochs -> 0 .. MaxEpoch]
      /\ staged' \subseteq Epochs /\ hosting' \subseteq Epochs
      /\ up' \in BOOLEAN /\ faults' \in [Faults -> Nat] /\ broker' = broker
  BY <1>2 DEF IInv, TypeOK, env
<1>3. CASE LossStands(e)
  <2>1. /\ runtime' = [runtime EXCEPT ![attempt[e].runtime] = q]
        /\ attempt' = Ended(attempt, e) /\ RuntimeOf(e).inv = e
    BY <1>3 DEF SettleDead, LossStands
  <2> HIDE DEF q
  <2> QED
    BY <1>1, <1>2, <1>5, <2>1, EndKeeps
<1>4. CASE ~LossStands(e)
  <2>1. UNCHANGED <<rows, up, client, op, drives, broker, staged, hosting, faults>>
    BY <1>2, <1>4 DEF SettleDead, rows, env
  <2> QED
    BY <1>2, <2>1, AsideKeeps DEF IInv, TypeOK
<1> QED
  BY <1>3, <1>4

-----------------------------------------------------------------------------
(* Replacement                                                             *)

\* A stored intent is a whole record.
LEMMA IntentFact ==
    ASSUME NEW i \in Intents, i # NoIntent
    PROVE  i \in [cand : {"same", "new"}, pre : BOOLEAN, basis : BOOLEAN, next : 0 .. MaxEpoch,
                  work : WorkStates, count : 0 .. MaxTries + 1]
BY DEF Intents

LEMMA IntentOf ==
    ASSUME IInv, NEW e \in Epochs
    PROVE  /\ attempt \in [Epochs -> Attempts] /\ attempt[e] \in Attempts
           /\ attempt[e].intent \in Intents
BY DEF IInv, TypeOK, Attempts

\* Storing an intent leaves the attempt where it stands and remembers its work.
LEMMA IntendedFact ==
    ASSUME IInv, NEW e \in Epochs, attempt[e].intent = NoIntent, NEW cand \in {"same", "new"}
    PROVE  LET a == Intended(e, cand)
           IN /\ a \in [Epochs -> Attempts]
              /\ \A x \in Epochs : x # e => a[x] = attempt[x]
              /\ SameStand(attempt[e], a[e])
              /\ a[e].intent # NoIntent
              /\ a[e].intent.cand = cand /\ a[e].intent.pre = Supersedes(e, cand)
              /\ a[e].intent.work = attempt[e].work
<1> DEFINE i == [cand |-> cand, pre |-> Supersedes(e, cand), basis |-> FALSE, next |-> 0,
                 work |-> attempt[e].work, count |-> attempt[e].count]
           b == [attempt[e] EXCEPT !.intent = i, !.work = "pending"]
<1>1. attempt \in [Epochs -> Attempts] /\ attempt[e] \in Attempts
  BY IntentOf
<1>2. Supersedes(e, cand) \in BOOLEAN
  BY DEF Supersedes
<1>3. 0 \in 0 .. MaxEpoch /\ "pending" \in WorkStates
  BY ParticipantsAssumption DEF WorkStates, Armed
<1>4. i \in Intents /\ i.cand = cand /\ i.pre = Supersedes(e, cand) /\ i.work = attempt[e].work
  <2>1. attempt[e].work \in WorkStates /\ attempt[e].count \in 0 .. MaxTries + 1
    BY <1>1 DEF Attempts
  <2>2. i \in [cand : {"same", "new"}, pre : BOOLEAN, basis : BOOLEAN, next : 0 .. MaxEpoch,
               work : WorkStates, count : 0 .. MaxTries + 1]
    BY <1>2, <1>3, <2>1
  <2> QED
    BY <2>2 DEF Intents
<1>5. i # NoIntent
  <2>1. i.cand # NoIntent.cand
    BY DEF NoIntent
  <2> QED
    BY <2>1
<1> HIDE DEF i
<1>6. b \in Attempts /\ SameStand(attempt[e], b) /\ b.intent = i
  BY <1>1, <1>3, <1>4 DEF Attempts, SameStand
<1>7. Intended(e, cand) = [attempt EXCEPT ![e] = b]
  BY <1>1 DEF Intended, Attempts, i
<1> HIDE DEF b
<1> QED
  BY <1>1, <1>4, <1>5, <1>6, <1>7

\* The admission of a replacement, at the door or by the scheduler.
LEMMA AdmitKeeps ==
    ASSUME IInv, NEW by \in {"door", "work"}, NEW e \in Epochs, NEW cand \in {"same", "new"},
           e = latest, e < MaxEpoch,
           attempt[e].intent # NoIntent => attempt[e].intent.cand = cand,
           Admit(by, e, cand),
           op' \in [Epochs -> Ops],
           \A x \in Epochs : op'[x] = op[x] \/ (x = e /\ op'[x].pc \notin Phases),
           UNCHANGED <<latest, runtime, binding, up, client, staged, hosting, settling, env>>
    PROVE  IInv'
<1> DEFINE d0 == [by |-> by, e |-> e, kind |-> KindOf(e, cand), pre |-> Supersedes(e, cand),
                  ended |-> attempt[e].state \in Absorbing, stale |-> FALSE]
<1>1. /\ attempt' \in [Epochs -> Attempts]
      /\ \A x \in Epochs : x # e => attempt'[x] = attempt[x]
      /\ SameStand(attempt[e], attempt'[e])
      /\ WorkOf(attempt'[e]) = WorkOf(attempt[e]) /\ attempt'[e].intent # NoIntent
      /\ attempt'[e].intent.cand = cand
      /\ attempt'[e].intent.pre <=> Supersedes(e, cand)
  <2>1. CASE attempt[e].intent = NoIntent
    <3>1. attempt' = Intended(e, cand)
      BY DEF Admit
    <3>2. /\ attempt' \in [Epochs -> Attempts]
          /\ \A x \in Epochs : x # e => attempt'[x] = attempt[x]
          /\ SameStand(attempt[e], attempt'[e])
          /\ attempt'[e].intent # NoIntent
          /\ attempt'[e].intent.cand = cand /\ attempt'[e].intent.pre = Supersedes(e, cand)
          /\ attempt'[e].intent.work = attempt[e].work
      BY <2>1, <3>1, IntendedFact
    <3> QED
      BY <2>1, <3>2 DEF WorkOf
  <2>2. CASE attempt[e].intent # NoIntent
    <3>1. attempt' = attempt
      BY <2>2 DEF Admit, Intended
    <3>2. attempt[e].intent.pre <=> Supersedes(e, cand)
      BY <2>2 DEF IInv, IntentsHold, Supersedes
    <3> QED
      BY <2>2, <3>1, <3>2 DEF IInv, TypeOK, SameStand
  <2> QED
    BY <2>1, <2>2
<1>2. d0 \in Drives
  <2>1. /\ KindOf(e, cand) \in {"bridge", "host"} /\ Supersedes(e, cand) \in BOOLEAN
        /\ (attempt[e].state \in Absorbing) \in BOOLEAN
    BY DEF KindOf, Supersedes
  <2> QED
    BY <2>1 DEF Drives
<1>3. drives' = drives \cup {d0}
  BY DEF Admit
<1>4. /\ d0.e = e /\ (d0.pre <=> Supersedes(e, cand))
      /\ d0.ended <=> attempt[e].state \in Absorbing
  OBVIOUS
<1> HIDE DEF d0
<1>5. TypeOK'
  BY <1>1, <1>2, <1>3 DEF IInv, TypeOK, env
<1>6. /\ \A x \in Epochs : SameStand(attempt[x], attempt'[x])
      /\ \A x \in Epochs : WorkOf(attempt'[x]) = WorkOf(attempt[x])
      /\ UNCHANGED <<latest, runtime, client, broker>>
      /\ latest \in Nat /\ Epochs \subseteq Nat
  <2>1. \A x \in Epochs : x # e => attempt'[x] = attempt[x]
    BY <1>1
  <2>2. /\ UNCHANGED <<latest, runtime, client, broker>>
        /\ latest \in Nat /\ Epochs \subseteq Nat
    BY ParticipantsAssumption DEF env, IInv, TypeOK, Epochs
  <2>3. SameStand(attempt[e], attempt'[e]) /\ WorkOf(attempt'[e]) = WorkOf(attempt[e])
    BY <1>1
  <2>4. \A x \in Epochs : SameStand(attempt[x], attempt'[x])
    BY <2>1, <2>3 DEF SameStand
  <2>5. \A x \in Epochs : WorkOf(attempt'[x]) = WorkOf(attempt[x])
    BY <2>1, <2>3
  <2> QED
    BY <2>2, <2>4, <2>5
<1>7. Numbered'
  <2>1. \A x \in Epochs : x > latest => attempt'[x] = attempt[x] /\ op'[x] = op[x]
    BY <1>1, <1>6
  <2> QED
    BY <1>6, <2>1 DEF IInv, Numbered, SameStand
<1>8. PastIsSettled'
  <2>1. \A x \in Epochs : x < latest => attempt'[x] = attempt[x]
    BY <1>1, <1>6
  <2> QED
    BY <1>6, <2>1 DEF IInv, PastIsSettled
<1>9. SettledIsDead' /\ ActivatedAlone'
  BY <1>6 DEF IInv, SettledIsDead, ActivatedAlone, SameStand
<1>10. AttachedTogether'
  BY <1>1, <1>6 DEF IInv, AttachedTogether, SameStand
<1>11. Supersedes(e, cand) /\ attempt[e].prepared =>
         attempt[e].intent # NoIntent /\ attempt[e].intent.pre
  BY DEF Supersedes, NeverAttached
<1>12. \A x \in Epochs : NeverAttached(x)' <=> NeverAttached(x)
  BY <1>6 DEF NeverAttached, RuntimeOf, SameStand
<1>13. IntentsHold'
  <2>1. ASSUME NEW x \in Epochs, x # e, attempt'[x].intent # NoIntent
        PROVE  /\ x < MaxEpoch /\ x <= latest
               /\ attempt'[x].intent.pre => attempt'[x].intent.cand = "new"
               /\ attempt'[x].intent.pre /\ attempt'[x].prepared =>
                    attempt'[x].state \in {"PREPARED", "HOSTING_INTENT_PERSISTED"}
               /\ attempt'[x].intent.cand = "new" /\ ~attempt'[x].intent.pre => ~NeverAttached(x)
    BY <1>1, <2>1 DEF IInv, IntentsHold
  <2>2. /\ e < MaxEpoch /\ e <= latest
        /\ attempt'[e].intent.pre => attempt'[e].intent.cand = "new"
        /\ attempt'[e].intent.pre /\ attempt'[e].prepared =>
             attempt'[e].state \in {"PREPARED", "HOSTING_INTENT_PERSISTED"}
        /\ attempt'[e].intent.cand = "new" /\ ~attempt'[e].intent.pre => ~NeverAttached(e)
    <3>1. Supersedes(e, cand) => cand = "new"
      BY DEF Supersedes
    <3>2. cand = "new" /\ ~Supersedes(e, cand) => ~NeverAttached(e)
      BY DEF Supersedes
    <3>3. Supersedes(e, cand) /\ attempt[e].prepared =>
            attempt[e].state \in {"PREPARED", "HOSTING_INTENT_PERSISTED"}
      BY <1>11 DEF IInv, IntentsHold
    <3> QED
      BY <1>1, <1>6, <3>1, <3>2, <3>3 DEF SameStand
  <2> QED
    BY <1>6, <1>12, <2>1, <2>2 DEF IntentsHold
<1>14. DrivesHold'
  <2>1. ASSUME NEW d \in drives
        PROVE  /\ d.e \in Epochs /\ d.e < MaxEpoch /\ d.e <= latest
               /\ d.e < latest => d.stale
               /\ d.stale \/ attempt'[d.e].intent # NoIntent
               /\ Holds(d)' =>
                    /\ d.pre <=> attempt'[d.e].intent.pre
                    /\ ~d.ended /\ ~attempt'[d.e].prepared => attempt'[d.e].state # "ABANDONED"
    <3>1. d.e \in Epochs
      BY DrivesFact
    <3>2. /\ d.e < MaxEpoch /\ d.e <= latest /\ (d.e < latest => d.stale)
          /\ d.stale \/ attempt[d.e].intent # NoIntent
          /\ Holds(d) =>
               /\ d.pre <=> attempt[d.e].intent.pre
               /\ ~d.ended /\ ~attempt[d.e].prepared => attempt[d.e].state # "ABANDONED"
      BY DEF IInv, DrivesHold
    <3>3. Holds(d)' => Holds(d)
      BY <3>2 DEF Holds
    <3>4. Holds(d) => attempt'[d.e].intent = attempt[d.e].intent
      BY <1>1, <3>1 DEF Holds, Admit, Intended
    <3> QED
      BY <1>1, <1>6, <3>1, <3>2, <3>3, <3>4 DEF SameStand
  <2>2. "ABANDONED" \in Absorbing
    BY DEF Absorbing
  <2>3. /\ d0.e < MaxEpoch /\ d0.e <= latest /\ ~(d0.e < latest)
        /\ attempt'[d0.e].intent # NoIntent
        /\ d0.pre <=> attempt'[d0.e].intent.pre
        /\ ~d0.ended => attempt'[d0.e].state # "ABANDONED"
    BY <1>1, <1>4, <1>6, <2>2 DEF SameStand
  <2> QED
    BY <1>3, <1>6, <2>1, <2>3 DEF DrivesHold
<1>15. RunsAttached'
  <2> SUFFICES ASSUME NEW x \in Epochs, op'[x].pc \in Phases
               PROVE  /\ attempt'[x].prepared
                      /\ attempt'[x].intent # NoIntent => ~attempt'[x].intent.pre
                      /\ op'[x].pc = "realize" => attempt'[x].state # "ACTIVE"
                      /\ op'[x].pc \in {"replay", "publish"} => attempt'[x].state \in {"ACTIVE"} \cup Absorbing
    BY DEF RunsAttached
  <2>1. /\ op'[x] = op[x] /\ attempt[x].prepared
        /\ attempt[x].intent # NoIntent => ~attempt[x].intent.pre
        /\ op[x].pc = "realize" => attempt[x].state # "ACTIVE"
        /\ op[x].pc \in {"replay", "publish"} => attempt[x].state \in {"ACTIVE"} \cup Absorbing
    BY DEF IInv, RunsAttached
  <2>2. x = e => ~attempt'[x].intent.pre
    BY <1>1, <1>11, <2>1
  <2> QED
    BY <1>1, <1>6, <2>1, <2>2 DEF SameStand
<1>16. WorkEndsServed'
  BY <1>6 DEF IInv, WorkEndsServed, SameStand
<1>17. \A x \in Epochs : op'[x].pc \in BrokerPhases \/ op'[x].pc \in StagedPhases =>
          op'[x] = op[x]
  BY DEF Phases, BrokerPhases, StagedPhases
<1>18. ClientsServe'
  <2>1. \A r \in Epochs : client[r] # 0 => client[r] \in Epochs
    BY ParticipantsAssumption DEF IInv, TypeOK, Epochs
  <2> QED
    BY <1>6, <1>17, <2>1 DEF IInv, ClientsServe, SameStand
<1>19. StagedRuntimeStands'
  BY <1>6, <1>17 DEF IInv, StagedRuntimeStands, Carried, RuntimeOf, SameStand
<1> QED
  BY <1>5, <1>7, <1>8, <1>9, <1>10, <1>13, <1>14, <1>15, <1>16, <1>18, <1>19 DEF IInv

LEMMA RequestReplacementKeeps ==
    ASSUME IInv, NEW cand \in {"same", "new"}, RequestReplacement(cand)
    PROVE  IInv'
<1>1. latest \in Epochs /\ latest < MaxEpoch
  BY ParticipantsAssumption DEF RequestReplacement, Epochs
<1>2. op' \in [Epochs -> Ops] /\ \A x \in Epochs : op'[x] = op[x]
  BY DEF RequestReplacement, IInv, TypeOK
<1>3. /\ attempt[latest].intent # NoIntent => attempt[latest].intent.cand = cand
      /\ Admit("door", latest, cand)
      /\ UNCHANGED <<latest, runtime, binding, up, client, staged, hosting, settling, env>>
  BY DEF RequestReplacement
<1> QED
  BY <1>1, <1>2, <1>3, AdmitKeeps

LEMMA RunReplacementKeeps ==
    ASSUME IInv, NEW e \in Epochs, RunReplacement(e)
    PROVE  IInv'
<1> DEFINE cand == attempt[e].intent.cand
<1>1. attempt[e].intent # NoIntent /\ attempt[e].work \in Armed /\ op[e].pc = "due"
  BY DEF RunReplacement, At
<1>2. cand \in {"same", "new"}
  BY <1>1, IntentOf, IntentFact
<1>3. e = latest /\ e < MaxEpoch
  <2>1. e <= latest
    BY <1>1, OperationIsKnown
  <2>2. ~(e < latest)
    BY <1>1 DEF IInv, PastIsSettled
  <2>3. e < MaxEpoch
    BY <1>1 DEF IInv, IntentsHold
  <2> QED
    BY <2>1, <2>2, <2>3, ParticipantsAssumption DEF IInv, TypeOK, Epochs
<1>4. /\ op' \in [Epochs -> Ops]
      /\ \A x \in Epochs : op'[x] = op[x] \/ (x = e /\ op'[x].pc \notin Phases)
  <2>1. op' = [op EXCEPT ![e] = [op[e] EXCEPT !.pc = "recover"]]
    BY DEF RunReplacement, Goto
  <2>2. [op[e] EXCEPT !.pc = "recover"] \in Ops /\ [op[e] EXCEPT !.pc = "recover"].pc = "recover"
    BY GotoFact
  <2>3. "recover" \notin Phases
    BY DEF Phases
  <2> QED
    BY <2>1, <2>2, <2>3 DEF IInv, TypeOK
<1>5. /\ Admit("work", e, cand)
      /\ UNCHANGED <<latest, runtime, binding, up, client, staged, hosting, settling, env>>
  BY DEF RunReplacement
<1> QED
  BY <1>1, <1>2, <1>3, <1>4, <1>5, AdmitKeeps

\* Making the drives of e stale changes nothing else of them.
LEMMA StaledFact ==
    ASSUME NEW D, D \subseteq Drives, NEW e
    PROVE  /\ Staled(D, e) \subseteq Drives
           /\ \A y \in Staled(D, e) : \E c \in D :
                /\ c.e = y.e /\ c.pre = y.pre /\ c.ended = y.ended /\ (c.stale => y.stale)
                /\ y.e = e => y.stale
<1> SUFFICES ASSUME NEW y \in Staled(D, e)
             PROVE  /\ y \in Drives
                    /\ \E c \in D :
                         /\ c.e = y.e /\ c.pre = y.pre /\ c.ended = y.ended
                         /\ c.stale => y.stale
                         /\ y.e = e => y.stale
  OBVIOUS
<1>1. PICK c \in D : y = [c EXCEPT !.stale = @ \/ c.e = e]
  BY DEF Staled
<1>2. c \in Drives
  OBVIOUS
<1>3. (c.stale \/ c.e = e) \in BOOLEAN
  OBVIOUS
<1>4. /\ y \in Drives /\ c.e = y.e /\ c.pre = y.pre /\ c.ended = y.ended
      /\ y.stale = (c.stale \/ c.e = e)
  BY <1>1, <1>2, <1>3 DEF Drives
<1> QED
  BY <1>4

\* A drive that still holds its intent works on the current attempt.
LEMMA HoldsFact ==
    ASSUME IInv, NEW d \in drives, Holds(d)
    PROVE  /\ d.e \in Epochs /\ d.e = latest /\ d.e < MaxEpoch
           /\ attempt[d.e].intent # NoIntent /\ (d.pre <=> attempt[d.e].intent.pre)
<1>1. d.e \in Epochs
  BY DrivesFact
<1>2. /\ d.e <= latest /\ ~(d.e < latest) /\ d.e < MaxEpoch
      /\ d.pre <=> attempt[d.e].intent.pre
  BY DEF IInv, DrivesHold, Holds
<1>3. latest \in Nat /\ d.e \in Nat
  BY <1>1, ParticipantsAssumption DEF IInv, TypeOK, Epochs
<1> QED
  BY <1>1, <1>2, <1>3 DEF Holds

\* Parking closes the work of an attempt that was disposed of and gives another its work back.
LEMMA ParkedFact ==
    ASSUME IInv, NEW e \in Epochs, attempt[e].intent # NoIntent, NEW ended \in BOOLEAN
    PROVE  LET a == Parked(attempt, e, ended)
           IN /\ a \in [Epochs -> Attempts]
              /\ \A x \in Epochs : x # e => a[x] = attempt[x]
              /\ SameStand(attempt[e], a[e])
              /\ a[e].intent \in {attempt[e].intent, NoIntent}
              /\ WorkOf(a[e]) = WorkOf(attempt[e])
              /\ ended => a[e].intent # NoIntent
<1> DEFINE i == attempt[e].intent
           b == IF ended THEN [attempt[e] EXCEPT !.work = "completed"]
                ELSE [attempt[e] EXCEPT !.intent = NoIntent, !.work = i.work, !.count = i.count]
<1>1. attempt \in [Epochs -> Attempts] /\ attempt[e] \in Attempts
  BY IntentOf
<1>2. i.work \in WorkStates /\ i.count \in 0 .. MaxTries + 1
  BY IntentOf, IntentFact
<1>3. NoIntent \in Intents /\ "completed" \in WorkStates
  BY DEF Intents, WorkStates
<1>4. Parked(attempt, e, ended) = [attempt EXCEPT ![e] = b]
  BY <1>1 DEF Parked
<1>5. /\ b \in Attempts /\ SameStand(attempt[e], b) /\ b.intent \in {i, NoIntent}
      /\ ended => b.intent = i
      /\ ~ended => b.intent = NoIntent /\ b.work = i.work
  <2>1. CASE ended
    BY <1>1, <1>3, <2>1 DEF Attempts, SameStand
  <2>2. CASE ~ended
    <3> HIDE DEF i
    <3> QED
      BY <1>1, <1>2, <1>3, <2>2 DEF Attempts, SameStand
  <2> QED
    BY <2>1, <2>2
<1>6. WorkOf(b) = WorkOf(attempt[e])
  BY <1>5 DEF WorkOf
<1> HIDE DEF b
<1> QED
  BY <1>1, <1>4, <1>5, <1>6

\* A drive that ends without a successor keeps the books.
LEMMA DriveEndsKeeps ==
    ASSUME IInv, NEW d \in drives, NEW a \in [Epochs -> Attempts],
           \A x \in Epochs : x # d.e => a[x] = attempt[x],
           SameStand(attempt[d.e], a[d.e]),
           a[d.e].intent \in {attempt[d.e].intent, NoIntent},
           WorkOf(a[d.e]) = WorkOf(attempt[d.e]),
           d.e < latest => a = attempt,
           attempt[d.e].state = "ABANDONED" /\ ~attempt[d.e].prepared =>
               a[d.e].intent # NoIntent \/ a[d.e].work \notin Armed,
           NEW pending, DriveEnds(d, a, pending),
           \/ drives' = Staled(drives \ {d}, d.e)
           \/ drives' = drives \ {d} /\ a = attempt,
           faults' \in [Faults -> Nat],
           UNCHANGED <<latest, runtime, binding, up, client, staged, hosting, broker>>
    PROVE  IInv'
<1> DEFINE e == d.e
<1>1. /\ e \in Epochs /\ e <= latest /\ drives \subseteq Drives
      /\ latest \in Epochs /\ latest \in Nat /\ Epochs \subseteq Nat
  <2>1. d.e \in Epochs /\ drives \subseteq Drives /\ d.e <= latest
    BY DrivesFact DEF IInv, DrivesHold
  <2>2. latest \in 0 .. MaxEpoch
    BY DEF IInv, TypeOK
  <2> QED
    BY <2>1, <2>2, ParticipantsAssumption DEF Epochs
<1>2. op \in [Epochs -> Ops] /\ settling \subseteq Epochs
  BY DEF IInv, TypeOK
<1> HIDE DEF e
<1>3. /\ Counted(a, attempt', e) /\ op' \in [Epochs -> Ops] /\ settling' \subseteq Epochs
      /\ \A x \in Epochs : x > latest => op'[x] = op[x]
      /\ \A x \in Epochs : op'[x] = op[x] \/ op'[x].pc \in {"idle", "due"}
      /\ attempt'[e].work = "completed" => a[e].work = "completed"
  <2>1. CASE d.by = "work"
    <3>1. Throws(a, e, MaxTries, {})
      BY <2>1 DEF DriveEnds, e
    <3>2. /\ Counted(a, attempt', e) /\ Paused(op, op', e) /\ settling' \subseteq Epochs
          /\ attempt'[e].work = "completed" => a[e].work = "completed"
      BY <1>1, <1>2, <3>1, ThrowsFact
    <3> QED
      BY <1>1, <3>2 DEF Paused
  <2>2. CASE d.by # "work"
    <3>1. attempt' = a /\ settling' = settling
      BY <2>2 DEF DriveEnds
    <3>2. op' = op \/ op' = Scheduled(op, a, latest)
      BY <2>2 DEF DriveEnds
    <3>3. /\ op' \in [Epochs -> Ops]
          /\ \A x \in Epochs : x # latest => op'[x] = op[x]
          /\ op'[latest] = op[latest] \/ op'[latest] = Due
      <4>1. CASE op' = op
        BY <1>2, <4>1
      <4>2. CASE op' = Scheduled(op, a, latest)
        BY <1>1, <1>2, <4>2, ScheduledFact
      <4> QED
        BY <3>2, <4>1, <4>2
    <3>4. Due.pc = "due"
      BY DEF Due, Idle
    <3> QED
      BY <1>1, <1>2, <3>1, <3>3, <3>4 DEF Counted, SameStand
  <2> QED
    BY <2>1, <2>2
<1>4. drives' \subseteq Drives
  BY <1>1, StaledFact
<1>5. TypeOK'
  BY <1>3, <1>4 DEF IInv, TypeOK, Counted
<1>6. /\ SameStand(attempt[e], a[e]) /\ a[e].intent \in {attempt[e].intent, NoIntent}
      /\ WorkOf(a[e]) = WorkOf(attempt[e]) /\ (e < latest => a = attempt)
      /\ \A x \in Epochs : x # e => a[x] = attempt[x]
      /\ attempt[e].state = "ABANDONED" /\ ~attempt[e].prepared =>
           a[e].intent # NoIntent \/ a[e].work \notin Armed
  BY DEF e
<1>7. ASSUME NEW x \in Epochs
      PROVE  /\ SameStand(attempt[x], attempt'[x])
             /\ attempt'[x].intent \in {attempt[x].intent, NoIntent}
             /\ x > latest => attempt'[x] = attempt[x] /\ op'[x].pc = "idle"
             /\ x < latest /\ attempt'[x].work \in Armed => attempt[x].work \in Armed
             /\ WorkOf(attempt'[x]) = "completed" => WorkOf(attempt[x]) = "completed"
             /\ attempt[x].state = "ABANDONED" /\ ~attempt[x].prepared =>
                  attempt'[x].intent # NoIntent \/ attempt'[x].work \notin Armed
             /\ op'[x] = op[x] \/ op'[x].pc \notin Phases
  <2>1. op'[x] = op[x] \/ op'[x].pc \notin Phases
    BY <1>3 DEF Phases
  <2>2. x > latest => op'[x].pc = "idle"
    BY <1>3 DEF IInv, Numbered
  <2>3. CASE x # e
    <3>1. attempt'[x] = attempt[x]
      BY <1>3, <1>6, <2>3 DEF Counted
    <3>2. attempt[x].state = "ABANDONED" /\ ~attempt[x].prepared =>
             attempt[x].intent # NoIntent \/ attempt[x].work \notin Armed
      BY DEF IInv, AttachedTogether
    <3> QED
      BY <2>1, <2>2, <3>1, <3>2 DEF SameStand
  <2>4. CASE x = e
    <3>1. /\ SameStand(a[e], attempt'[e]) /\ attempt'[e].intent = a[e].intent
          /\ attempt'[e].work \in Armed => a[e].work \in Armed
          /\ attempt'[e].work = "completed" => a[e].work = "completed"
      BY <1>3 DEF Counted
    <3>2. WorkOf(attempt'[e]) = "completed" => WorkOf(attempt[e]) = "completed"
      BY <1>6, <3>1 DEF WorkOf
    <3>3. SameStand(attempt[e], attempt'[e])
      BY <1>6, <3>1 DEF SameStand
    <3> QED
      BY <1>1, <1>6, <2>1, <2>2, <2>4, <3>1, <3>2, <3>3
  <2> QED
    BY <2>3, <2>4
<1>8. \A y \in drives' : \E c \in drives :
        /\ c.e = y.e /\ c.pre = y.pre /\ c.ended = y.ended /\ (c.stale => y.stale)
        /\ y.stale \/ attempt'[c.e].intent = attempt[c.e].intent
  <2>1. CASE drives' = Staled(drives \ {d}, d.e)
    <3> SUFFICES ASSUME NEW y \in drives'
                 PROVE  \E c \in drives :
                          /\ c.e = y.e /\ c.pre = y.pre /\ c.ended = y.ended
                          /\ c.stale => y.stale
                          /\ y.stale \/ attempt'[c.e].intent = attempt[c.e].intent
      OBVIOUS
    <3>1. PICK c \in drives \ {d} :
             /\ c.e = y.e /\ c.pre = y.pre /\ c.ended = y.ended /\ (c.stale => y.stale)
             /\ y.e = d.e => y.stale
      BY <1>1, <2>1, StaledFact
    <3>2. c.e \in Epochs
      BY DrivesFact
    <3>3. c.e # e => attempt'[c.e].intent = attempt[c.e].intent
      BY <1>3, <1>6, <3>2 DEF Counted
    <3> QED
      BY <3>1, <3>3 DEF e
  <2>2. CASE drives' = drives \ {d} /\ a = attempt
    BY <1>3, <2>2, DrivesFact DEF Counted
  <2> QED
    BY <2>1, <2>2
<1>9. KeepsBooks
  BY <1>5, <1>7, <1>8 DEF KeepsBooks
<1> QED
  BY <1>9, BooksKept

LEMMA DriveLostKeeps ==
    ASSUME IInv, NEW d \in drives, DriveLost(d)
    PROVE  IInv'
<1>1. /\ UNCHANGED <<latest, runtime, binding, up, client, staged, hosting, broker, faults>>
      /\ faults' \in [Faults -> Nat]
  BY DEF DriveLost, env, IInv, TypeOK
<1>2. d.e \in Epochs
  BY DrivesFact
<1>3. CASE Holds(d)
  <2> DEFINE a == Parked(attempt, d.e, FALSE)
  <2>1. d.e = latest /\ attempt[d.e].intent # NoIntent
    BY <1>3, HoldsFact
  <2>2. /\ a \in [Epochs -> Attempts]
        /\ \A x \in Epochs : x # d.e => a[x] = attempt[x]
        /\ SameStand(attempt[d.e], a[d.e])
        /\ a[d.e].intent \in {attempt[d.e].intent, NoIntent}
        /\ WorkOf(a[d.e]) = WorkOf(attempt[d.e])
    <3>1. FALSE \in BOOLEAN
      OBVIOUS
    <3> QED
      BY <1>2, <2>1, <3>1, ParkedFact
  <2>3. DriveEnds(d, a, TRUE) /\ drives' = Staled(drives \ {d}, d.e)
    BY <1>3 DEF DriveLost
  <2>4. attempt[d.e].state # "ABANDONED"
    BY <1>3 DEF DriveLost, PreChanged, Absorbing
  <2>5. ~(d.e < latest)
    BY <1>2, <2>1, ParticipantsAssumption DEF Epochs
  <2> HIDE DEF a
  <2> QED
    BY <1>1, <2>2, <2>3, <2>4, <2>5, DriveEndsKeeps
<1>4. CASE ~Holds(d)
  <2>1. DriveEnds(d, attempt, TRUE) /\ drives' = drives \ {d}
    BY <1>4 DEF DriveLost
  <2>2. attempt[d.e].state = "ABANDONED" /\ ~attempt[d.e].prepared =>
          attempt[d.e].intent # NoIntent \/ attempt[d.e].work \notin Armed
    BY <1>2 DEF IInv, AttachedTogether
  <2>3. attempt \in [Epochs -> Attempts] /\ SameStand(attempt[d.e], attempt[d.e])
    BY DEF IInv, TypeOK, SameStand
  <2> QED
    BY <1>1, <2>1, <2>2, <2>3, DriveEndsKeeps
<1> QED
  BY <1>3, <1>4

LEMMA DriveHeldKeeps ==
    ASSUME IInv, NEW d \in drives, DriveHeld(d)
    PROVE  IInv'
<1> DEFINE a == Parked(attempt, d.e, d.ended)
           pending == broker[d.e] # "up"
<1>1. /\ Holds(d) /\ DriveEnds(d, a, pending) /\ drives' = Staled(drives \ {d}, d.e)
      /\ UNCHANGED <<latest, runtime, binding, up, client, staged, hosting, broker>>
  BY DEF DriveHeld
<1>2. faults' \in [Faults -> Nat]
  BY FaultFact DEF DriveHeld, IInv, TypeOK
<1>3. d.e \in Epochs /\ d.e = latest /\ attempt[d.e].intent # NoIntent
  BY <1>1, HoldsFact
<1>4. d.ended \in BOOLEAN
  BY DrivesFact DEF Drives
<1>5. /\ a \in [Epochs -> Attempts]
      /\ \A x \in Epochs : x # d.e => a[x] = attempt[x]
      /\ SameStand(attempt[d.e], a[d.e])
      /\ a[d.e].intent \in {attempt[d.e].intent, NoIntent}
      /\ WorkOf(a[d.e]) = WorkOf(attempt[d.e])
      /\ d.ended => a[d.e].intent # NoIntent
  BY <1>3, <1>4, ParkedFact
<1>6. ~d.ended /\ ~attempt[d.e].prepared => attempt[d.e].state # "ABANDONED"
  BY <1>1 DEF IInv, DrivesHold
<1>7. ~(d.e < latest)
  BY <1>3, ParticipantsAssumption DEF Epochs
<1> HIDE DEF a, pending
<1> QED
  BY <1>1, <1>2, <1>5, <1>6, <1>7, DriveEndsKeeps

\* The predecessor of a satisfied drive is the current attempt, its broker does not write, and
\* the receipt disposes of it and settles it.
LEMMA DisposedFact ==
    ASSUME IInv, NEW d \in drives, Satisfied(d)
    PROVE  LET e == d.e
               b == Disposed(d)
           IN /\ e \in Epochs /\ e = latest /\ e < MaxEpoch
              /\ broker[e] # "up"
              /\ attempt[e].intent # NoIntent
              /\ attempt[e].intent.pre => ~attempt[e].prepared
              /\ b \in [Epochs -> Attempts]
              /\ \A x \in Epochs : x # e => b[x] = attempt[x]
              /\ b[e].state \in Absorbing /\ b[e].settled
              /\ b[e].prepared = attempt[e].prepared /\ b[e].identity = attempt[e].identity
              /\ b[e].activated = attempt[e].activated /\ b[e].runtime = attempt[e].runtime
              /\ b[e].intent # NoIntent
              /\ b[e].intent.pre = attempt[e].intent.pre
              /\ b[e].intent.cand = attempt[e].intent.cand
              /\ b[e].intent.work = attempt[e].intent.work
<1> DEFINE e == d.e
           i == [attempt[e].intent EXCEPT !.basis = TRUE]
           s == IF attempt[e].state \in Absorbing THEN attempt[e].state ELSE "ABANDONED"
           t == [attempt[e] EXCEPT !.intent = i, !.state = s, !.settled = TRUE]
<1>1. Holds(d) /\ ~PreChanged(d) /\ (d.pre \/ broker[e] = "gone")
  BY DEF Satisfied
<1>2. /\ e \in Epochs /\ e = latest /\ e < MaxEpoch
      /\ attempt[e].intent # NoIntent /\ (d.pre <=> attempt[e].intent.pre)
  BY <1>1, HoldsFact
<1>3. attempt \in [Epochs -> Attempts] /\ attempt[e] \in Attempts
  BY <1>2, IntentOf
<1> HIDE DEF e
<1>4. attempt[e].intent.pre => ~attempt[e].prepared
  <2>1. attempt[e].intent.pre => NeverAttached(e) \/ attempt[e].state \in Absorbing
    BY <1>1, <1>2 DEF PreChanged, e
  <2>2. attempt[e].intent.pre /\ attempt[e].prepared => attempt[e].state \notin Absorbing
    BY <1>2 DEF IInv, IntentsHold, Absorbing
  <2> QED
    BY <2>1, <2>2 DEF NeverAttached
<1>5. broker[e] # "up"
  <2>1. CASE d.pre
    <3>1. ~attempt[e].prepared
      BY <1>2, <1>4, <2>1
    <3> QED
      BY <1>2, <3>1 DEF IInv, AttachedTogether
  <2>2. CASE ~d.pre
    BY <1>1, <2>2
  <2> QED
    BY <2>1, <2>2
<1>6. /\ i \in Intents /\ i # NoIntent
      /\ i.pre = attempt[e].intent.pre /\ i.cand = attempt[e].intent.cand
      /\ i.work = attempt[e].intent.work
  <2>1. attempt[e].intent \in [cand : {"same", "new"}, pre : BOOLEAN, basis : BOOLEAN,
                               next : 0 .. MaxEpoch, work : WorkStates, count : 0 .. MaxTries + 1]
    BY <1>2, IntentOf, IntentFact
  <2>2. /\ i \in [cand : {"same", "new"}, pre : BOOLEAN, basis : BOOLEAN,
                  next : 0 .. MaxEpoch, work : WorkStates, count : 0 .. MaxTries + 1]
        /\ i.pre = attempt[e].intent.pre /\ i.cand = attempt[e].intent.cand
        /\ i.work = attempt[e].intent.work
    BY <2>1
  <2>3. i.cand # NoIntent.cand
    BY <2>2 DEF NoIntent
  <2> QED
    BY <2>2, <2>3 DEF Intents
<1>7. s \in Absorbing /\ s \in AttemptStates
  BY DEF Absorbing, AttemptStates
<1>8. Disposed(d) = [attempt EXCEPT ![e] = t]
  BY <1>3 DEF Disposed, Attempts, e
<1> HIDE DEF i, s
<1>9. /\ t \in Attempts /\ t.state = s /\ t.settled /\ t.intent = i
      /\ t.prepared = attempt[e].prepared /\ t.identity = attempt[e].identity
      /\ t.activated = attempt[e].activated /\ t.runtime = attempt[e].runtime
  BY <1>3, <1>6, <1>7 DEF Attempts
<1> HIDE DEF t
<1>10. /\ Disposed(d) \in [Epochs -> Attempts] /\ Disposed(d)[e] = t
       /\ \A x \in Epochs : x # e => Disposed(d)[x] = attempt[x]
  BY <1>2, <1>3, <1>8, <1>9
<1> QED
  BY <1>2, <1>4, <1>5, <1>6, <1>7, <1>9, <1>10 DEF e

LEMMA CrashAfterDisposalKeeps ==
    ASSUME IInv, NEW d \in drives, CrashAfterDisposal(d)
    PROVE  IInv'
<1> DEFINE e == d.e
<1>1. /\ e \in Epochs /\ e = latest /\ e < MaxEpoch
      /\ broker[e] # "up"
      /\ attempt[e].intent # NoIntent
      /\ attempt[e].intent.pre => ~attempt[e].prepared
      /\ attempt' \in [Epochs -> Attempts]
      /\ \A x \in Epochs : x # e => attempt'[x] = attempt[x]
      /\ attempt'[e].state \in Absorbing /\ attempt'[e].settled
      /\ attempt'[e].prepared = attempt[e].prepared /\ attempt'[e].identity = attempt[e].identity
      /\ attempt'[e].activated = attempt[e].activated /\ attempt'[e].runtime = attempt[e].runtime
      /\ attempt'[e].intent # NoIntent
      /\ attempt'[e].intent.pre = attempt[e].intent.pre
      /\ attempt'[e].intent.cand = attempt[e].intent.cand
  <2>1. Satisfied(d) /\ attempt' = Disposed(d)
    BY DEF CrashAfterDisposal
  <2> QED
    BY <2>1, DisposedFact
<1> HIDE DEF e
<1>2. faults' \in [Faults -> Nat]
  BY FaultFact DEF CrashAfterDisposal
<1>3. binding' \in [Epochs -> {"NONE", "BINDING", "BOUND", "RETIRING", "RETIRED"}]
  BY DEF CrashAfterDisposal, Retiring, IInv, TypeOK
<1>4. Idle \in Ops /\ Idle.pc = "idle"
  BY DEF Idle, Ops, AttemptStates
<1>5. /\ client' \in [Epochs -> 0 .. MaxEpoch] /\ op' \in [Epochs -> Ops]
      /\ \A x \in Epochs : client'[x] = 0 /\ op'[x].pc = "idle"
  BY <1>4, ParticipantsAssumption DEF CrashAfterDisposal, Forget
<1>6. /\ UNCHANGED <<latest, runtime, broker>> /\ latest \in Nat /\ Epochs \subseteq Nat
      /\ up' = FALSE /\ staged' = {} /\ hosting' = {} /\ drives' = {} /\ settling' = {}
  BY ParticipantsAssumption DEF CrashAfterDisposal, Forget, IInv, TypeOK, Epochs
<1>7. TypeOK'
  BY <1>1, <1>2, <1>3, <1>5, <1>6 DEF IInv, TypeOK
<1>8. \A x \in Epochs : x # latest => attempt'[x] = attempt[x]
  BY <1>1
<1>9. Numbered'
  <2>1. "NONE" \notin Absorbing
    BY DEF Absorbing
  <2> QED
    BY <1>1, <1>5, <1>6, <1>8, <2>1 DEF IInv, Numbered
<1>10. PastIsSettled' /\ SettledIsDead'
  BY <1>1, <1>6, <1>8 DEF IInv, PastIsSettled, SettledIsDead
<1>11. ActivatedAlone'
  <2>1. \A x \in Epochs : /\ attempt[x].settled => attempt'[x].settled
                          /\ attempt'[x].activated => attempt[x].activated
    BY <1>1
  <2> QED
    BY <2>1 DEF IInv, ActivatedAlone
<1>12. AttachedTogether'
  <2>1. ~attempt[e].prepared => attempt'[e].state = "ABANDONED"
    <3>1. ~attempt[e].prepared => attempt[e].state \in {"NONE", "IDENTITY_MINTED", "ABANDONED"}
      BY <1>1 DEF IInv, AttachedTogether
    <3>2. attempt'[e].state = IF attempt[e].state \in Absorbing THEN attempt[e].state ELSE "ABANDONED"
      BY <1>1, IntentOf DEF CrashAfterDisposal, Disposed, Attempts, e
    <3> QED
      BY <3>1, <3>2 DEF Absorbing
  <2> QED
    BY <1>1, <1>6, <2>1 DEF IInv, AttachedTogether
<1>13. IntentsHold'
  <2>1. \A x \in Epochs : NeverAttached(x)' => NeverAttached(x)
    <3>1. "IDENTITY_MINTED" \notin Absorbing
      BY DEF Absorbing
    <3> QED
      BY <1>1, <1>6, <3>1 DEF NeverAttached, RuntimeOf
  <2> QED
    BY <1>1, <1>6, <2>1 DEF IInv, IntentsHold
<1>14. DrivesHold' /\ RunsAttached' /\ ClientsServe' /\ StagedRuntimeStands'
  BY <1>5, <1>6 DEF DrivesHold, RunsAttached, ClientsServe, StagedRuntimeStands,
                    Phases, BrokerPhases, StagedPhases
<1>15. WorkEndsServed'
  BY <1>1, <1>6, <1>8 DEF IInv, WorkEndsServed
<1> QED
  BY <1>7, <1>9, <1>10, <1>11, <1>12, <1>13, <1>14, <1>15 DEF IInv

\* An unprepared predecessor ends as abandoned.
LEMMA DisposedState ==
    ASSUME IInv, NEW d \in drives
    PROVE  ~attempt[d.e].prepared => Disposed(d)[d.e].state = "ABANDONED"
<1>1. d.e \in Epochs
  BY DrivesFact
<1>2. ~attempt[d.e].prepared => attempt[d.e].state \in {"NONE", "IDENTITY_MINTED", "ABANDONED"}
  BY <1>1 DEF IInv, AttachedTogether
<1>3. Disposed(d)[d.e].state =
        IF attempt[d.e].state \in Absorbing THEN attempt[d.e].state ELSE "ABANDONED"
  BY <1>1, IntentOf DEF Disposed, Attempts
<1> QED
  BY <1>2, <1>3 DEF Absorbing

\* The minted row is that of an attempt nobody attached to yet.
LEMMA MintedFact ==
    ASSUME NEW r \in Epochs
    PROVE  /\ Minted(r) \in Attempts
           /\ Minted(r).state = "IDENTITY_MINTED" /\ Minted(r).work = "pending"
           /\ Minted(r).intent = NoIntent /\ Minted(r).runtime = r
           /\ ~Minted(r).prepared /\ ~Minted(r).settled /\ ~Minted(r).activated
<1>1. /\ 0 \in 0 .. MaxTries + 1 /\ 0 \in 0 .. MaxEpoch /\ NoIntent \in Intents
      /\ r \in 0 .. MaxEpoch
  BY ParticipantsAssumption DEF Intents, Epochs
<1> QED
  BY <1>1 DEF Minted, NoAttempt, Attempts, AttemptStates, WorkStates, Armed

\* TX-6 disposes of the predecessor, completes its work and mints the successor.
LEMMA AllocatedFact ==
    ASSUME IInv, NEW d \in drives, Satisfied(d)
    PROVE  LET e == d.e
               n == d.e + 1
               b == Allocated(d)
               r == IF d.kind = "host" THEN n ELSE attempt[e].runtime
           IN /\ n \in Epochs /\ r \in 1 .. n /\ attempt[n] = NoAttempt
              /\ b \in [Epochs -> Attempts]
              /\ \A x \in Epochs : x # e /\ x # n => b[x] = attempt[x]
              /\ b[e].state \in Absorbing /\ b[e].settled /\ b[e].work = "completed"
              /\ ~attempt[e].prepared => b[e].state = "ABANDONED"
              /\ b[e].prepared = attempt[e].prepared /\ b[e].identity = attempt[e].identity
              /\ b[e].activated = attempt[e].activated /\ b[e].runtime = attempt[e].runtime
              /\ b[e].intent # NoIntent
              /\ b[e].intent.pre = attempt[e].intent.pre
              /\ b[e].intent.cand = attempt[e].intent.cand
              /\ b[n] = Minted(r)
<1> DEFINE e == d.e
           n == d.e + 1
           r == IF d.kind = "host" THEN n ELSE attempt[e].runtime
           a == Disposed(d)
           i == [a[e].intent EXCEPT !.next = n]
           t == [a[e] EXCEPT !.intent = i, !.work = "completed"]
<1>1. /\ e \in Epochs /\ e = latest /\ e < MaxEpoch
      /\ a \in [Epochs -> Attempts]
      /\ \A x \in Epochs : x # e => a[x] = attempt[x]
      /\ a[e].state \in Absorbing /\ a[e].settled
      /\ a[e].prepared = attempt[e].prepared /\ a[e].identity = attempt[e].identity
      /\ a[e].activated = attempt[e].activated /\ a[e].runtime = attempt[e].runtime
      /\ a[e].intent # NoIntent
      /\ a[e].intent.pre = attempt[e].intent.pre
      /\ a[e].intent.cand = attempt[e].intent.cand
  BY DisposedFact
<1>2. ~attempt[e].prepared => a[e].state = "ABANDONED"
  BY DisposedState
<1>3. Allocated(d) = [a EXCEPT ![n] = Minted(r), ![e].intent.next = n, ![e].work = "completed"]
  BY DEF Allocated
<1> HIDE DEF a
<1>4. n \in Epochs /\ n \in 0 .. MaxEpoch /\ n # e /\ attempt[n] = NoAttempt /\ n > latest
  <2>1. n \in Epochs /\ n \in 0 .. MaxEpoch /\ n # e /\ n > latest
    BY <1>1, ParticipantsAssumption DEF Epochs
  <2> QED
    BY <2>1 DEF IInv, Numbered
<1>5. r \in 1 .. n /\ r \in Epochs
  <2>1. attempt[e].runtime \in 1 .. e
    BY <1>1 DEF IInv, TypeOK, Numbered
  <2> QED
    BY <1>1, <1>4, <2>1, ParticipantsAssumption DEF Epochs
<1> HIDE DEF e, n, r
<1>6. /\ i \in Intents /\ i # NoIntent
      /\ i.pre = a[e].intent.pre /\ i.cand = a[e].intent.cand
  <2>1. a[e].intent \in [cand : {"same", "new"}, pre : BOOLEAN, basis : BOOLEAN,
                         next : 0 .. MaxEpoch, work : WorkStates, count : 0 .. MaxTries + 1]
    <3>1. a[e].intent \in Intents
      BY <1>1 DEF Attempts
    <3> QED
      BY <1>1, <3>1, IntentFact
  <2>2. /\ i \in [cand : {"same", "new"}, pre : BOOLEAN, basis : BOOLEAN,
                  next : 0 .. MaxEpoch, work : WorkStates, count : 0 .. MaxTries + 1]
        /\ i.pre = a[e].intent.pre /\ i.cand = a[e].intent.cand
    BY <1>4, <2>1
  <2>3. i.cand # NoIntent.cand
    BY <2>2 DEF NoIntent
  <2> QED
    BY <2>2, <2>3 DEF Intents
<1>7. Allocated(d) = [[a EXCEPT ![n] = Minted(r)] EXCEPT ![e] = t]
  BY <1>1, <1>3, <1>4 DEF Attempts
<1> HIDE DEF i
<1>8. /\ t \in Attempts /\ t.state = a[e].state /\ t.settled = a[e].settled /\ t.intent = i
      /\ t.work = "completed"
      /\ t.prepared = a[e].prepared /\ t.identity = a[e].identity
      /\ t.activated = a[e].activated /\ t.runtime = a[e].runtime
  <2>1. a[e] \in Attempts /\ "completed" \in WorkStates
    BY <1>1 DEF WorkStates
  <2> QED
    BY <1>6, <2>1 DEF Attempts
<1> HIDE DEF t
<1>9. Minted(r) \in Attempts
  BY <1>5, MintedFact
<1>10. /\ Allocated(d) \in [Epochs -> Attempts]
       /\ Allocated(d)[e] = t /\ Allocated(d)[n] = Minted(r)
       /\ \A x \in Epochs : x # e /\ x # n => Allocated(d)[x] = attempt[x]
  BY <1>1, <1>4, <1>7, <1>8, <1>9
<1>11. /\ n \in Epochs /\ r \in 1 .. n /\ attempt[n] = NoAttempt
       /\ Allocated(d)[e].state \in Absorbing /\ Allocated(d)[e].settled
       /\ Allocated(d)[e].work = "completed"
       /\ ~attempt[e].prepared => Allocated(d)[e].state = "ABANDONED"
       /\ Allocated(d)[e].prepared = attempt[e].prepared
       /\ Allocated(d)[e].identity = attempt[e].identity
       /\ Allocated(d)[e].activated = attempt[e].activated
       /\ Allocated(d)[e].runtime = attempt[e].runtime
       /\ Allocated(d)[e].intent # NoIntent
       /\ Allocated(d)[e].intent.pre = attempt[e].intent.pre
       /\ Allocated(d)[e].intent.cand = attempt[e].intent.cand
  BY <1>1, <1>2, <1>4, <1>5, <1>6, <1>8, <1>10
<1> QED
  BY <1>10, <1>11 DEF e, n, r

LEMMA DriveCommitsKeeps ==
    ASSUME IInv, NEW d \in drives, DriveCommits(d)
    PROVE  IInv'
<1> DEFINE e == d.e
           n == d.e + 1
           r == IF d.kind = "host" THEN n ELSE attempt[e].runtime
<1>1. /\ e \in Epochs /\ e = latest /\ broker[e] # "up"
      /\ attempt[e].intent # NoIntent
      /\ attempt[e].intent.pre => ~attempt[e].prepared
  BY DisposedFact DEF DriveCommits
<1>2. attempt' = Allocated(d) /\ latest' = n /\ Satisfied(d)
  BY DEF DriveCommits
<1>3. /\ n \in Epochs /\ r \in 1 .. n /\ attempt[n] = NoAttempt
      /\ attempt' \in [Epochs -> Attempts]
      /\ \A x \in Epochs : x # e /\ x # n => attempt'[x] = attempt[x]
      /\ attempt'[e].state \in Absorbing /\ attempt'[e].settled /\ attempt'[e].work = "completed"
      /\ ~attempt[e].prepared => attempt'[e].state = "ABANDONED"
      /\ attempt'[e].prepared = attempt[e].prepared /\ attempt'[e].identity = attempt[e].identity
      /\ attempt'[e].activated = attempt[e].activated /\ attempt'[e].runtime = attempt[e].runtime
      /\ attempt'[e].intent # NoIntent
      /\ attempt'[e].intent.pre = attempt[e].intent.pre
      /\ attempt'[e].intent.cand = attempt[e].intent.cand
      /\ attempt'[n] = Minted(r)
  BY <1>2, AllocatedFact
<1>4. n = e + 1
  OBVIOUS
<1>5. runtime' \in [Epochs -> [status : {"none", "live", "terminated"}, inv : 0 .. MaxEpoch]]
      /\ \A x \in Epochs : runtime'[x].status = "none" => runtime[x].status = "none"
  <2>1. runtime \in [Epochs -> [status : {"none", "live", "terminated"}, inv : 0 .. MaxEpoch]]
    BY DEF IInv, TypeOK
  <2>2. \/ runtime' = runtime
        \/ runtime' = [runtime EXCEPT ![attempt[d.e].runtime].status = "terminated"]
    BY DEF DriveCommits
  <2> QED
    BY <2>1, <2>2
<1>6. /\ op' \in [Epochs -> Ops] /\ op[n].pc = "idle"
      /\ \A x \in Epochs : op'[x] = op[x] \/ op'[x].pc = "idle"
  <2>1. Idle \in Ops /\ Idle.pc = "idle"
    BY DEF Idle, Ops, AttemptStates
  <2>2. op \in [Epochs -> Ops]
    BY DEF IInv, TypeOK
  <2>3. op' = op \/ op' = [op EXCEPT ![d.e] = Idle]
    BY DEF DriveCommits
  <2>4. n > latest
    BY <1>1, <1>4, ParticipantsAssumption DEF Epochs
  <2>5. op[n].pc = "idle"
    BY <1>3, <2>4 DEF IInv, Numbered
  <2> QED
    BY <2>1, <2>2, <2>3, <2>5
<1>7. /\ drives' \subseteq Drives
      /\ \A y \in drives' : \E c \in drives :
           c.e = y.e /\ (c.stale => y.stale) /\ (y.e = e => y.stale)
  <2>1. drives' = Staled(drives \ {d}, d.e) /\ drives \ {d} \subseteq Drives
    BY DrivesFact DEF DriveCommits
  <2>2. Staled(drives \ {d}, d.e) \subseteq Drives
    BY <2>1, StaledFact
  <2>3. \A y \in drives' : \E c \in drives \ {d} :
           c.e = y.e /\ (c.stale => y.stale) /\ (y.e = d.e => y.stale)
    BY <2>1, StaledFact
  <2> QED
    BY <2>1, <2>2, <2>3
<1>8. binding' \in [Epochs -> {"NONE", "BINDING", "BOUND", "RETIRING", "RETIRED"}]
  BY DEF DriveCommits, IInv, TypeOK
<1>9. /\ UNCHANGED <<up, client, staged, hosting, settling, broker, faults>>
      /\ latest \in Nat /\ Epochs \subseteq Nat
      /\ \A x \in Epochs : x \in Nat /\ x <= MaxEpoch
  BY ParticipantsAssumption DEF DriveCommits, env, IInv, TypeOK, Epochs
<1> HIDE DEF e, n, r
<1>10. /\ Minted(r).state = "IDENTITY_MINTED" /\ Minted(r).work = "pending"
       /\ Minted(r).intent = NoIntent /\ Minted(r).runtime = r
       /\ ~Minted(r).prepared /\ ~Minted(r).settled /\ ~Minted(r).activated
  <2>1. r \in Epochs
    BY <1>3, <1>9, ParticipantsAssumption DEF Epochs
  <2> QED
    BY <2>1, MintedFact
<1>11. /\ ~NoAttempt.settled /\ ~NoAttempt.activated /\ ~NoAttempt.prepared
       /\ NoAttempt.intent = NoIntent /\ NoAttempt.state = "NONE" /\ NoAttempt.runtime = 0
  BY DEF NoAttempt
<1>12. TypeOK'
  <2>1. n \in 0 .. MaxEpoch
    BY <1>3, <1>9, ParticipantsAssumption
  <2> QED
    BY <1>2, <1>3, <1>5, <1>6, <1>7, <1>8, <1>9, <2>1 DEF IInv, TypeOK
<1>13. /\ latest' = n /\ n # e
       /\ \A x \in Epochs : /\ x > n => x # e /\ x # n /\ x > latest
                            /\ x <= n => x = n \/ x <= latest
                            /\ x < n => x = e \/ (x # e /\ x # n /\ x < latest)
                            /\ x <= latest => x <= n /\ x # n
  BY <1>1, <1>2, <1>4, <1>9
<1>14. Numbered'
  <2>1. "NONE" \notin Absorbing /\ "IDENTITY_MINTED" # "NONE"
    BY DEF Absorbing
  <2>2. ASSUME NEW x \in Epochs, x > n
        PROVE  attempt'[x] = NoAttempt /\ op'[x].pc = "idle"
    <3>1. x # e /\ x # n /\ x > latest
      BY <1>13, <2>2
    <3>2. attempt[x] = NoAttempt /\ op[x].pc = "idle"
      BY <3>1 DEF IInv, Numbered
    <3> QED
      BY <1>3, <1>6, <3>1, <3>2
  <2>3. ASSUME NEW x \in Epochs, x <= n
        PROVE  attempt'[x].runtime \in 1 .. x /\ attempt'[x].state # "NONE"
    <3>1. CASE x = n
      BY <1>3, <1>10, <2>1, <3>1
    <3>2. CASE x # n
      <4>1. x <= latest
        BY <1>13, <2>3, <3>2
      <4>2. attempt[x].runtime \in 1 .. x /\ attempt[x].state # "NONE"
        BY <4>1 DEF IInv, Numbered
      <4> QED
        BY <1>3, <2>1, <3>2, <4>2
    <3> QED
      BY <3>1, <3>2
  <2> QED
    BY <1>13, <2>2, <2>3 DEF Numbered
<1>15. PastIsSettled'
  <2>1. "completed" \notin Armed
    BY DEF Armed
  <2> QED
    BY <1>3, <1>13, <2>1 DEF IInv, PastIsSettled
<1>16. SettledIsDead'
  BY <1>1, <1>3, <1>9, <1>10 DEF IInv, SettledIsDead
<1>17. ActivatedAlone'
  <2>1. \A x \in Epochs : /\ attempt[x].settled => attempt'[x].settled
                          /\ attempt'[x].activated => attempt[x].activated
    BY <1>3, <1>10, <1>11
  <2> QED
    BY <2>1 DEF IInv, ActivatedAlone
<1>18. AttachedTogether'
  BY <1>1, <1>3, <1>9, <1>10, <1>11 DEF IInv, AttachedTogether
<1>19. IntentsHold'
  <2>1. ASSUME NEW x \in Epochs, x # n, NeverAttached(x)'
        PROVE  NeverAttached(x)
    <3>1. "IDENTITY_MINTED" \notin Absorbing
      BY DEF Absorbing
    <3>2. x # e
      BY <1>3, <2>1, <3>1 DEF NeverAttached
    <3>3. attempt'[x] = attempt[x]
      BY <1>3, <2>1, <3>2
    <3>4. ~(x > latest)
      BY <2>1, <3>3 DEF NeverAttached, IInv, Numbered, NoAttempt
    <3>5. attempt[x].runtime \in Epochs
      BY <1>9, <3>4, ParticipantsAssumption DEF IInv, Numbered, Epochs
    <3> QED
      BY <1>5, <2>1, <3>3, <3>5 DEF NeverAttached, RuntimeOf
  <2>2. ASSUME NEW x \in Epochs, attempt'[x].intent # NoIntent
        PROVE  /\ x # n /\ attempt[x].intent # NoIntent
               /\ attempt'[x].intent.pre = attempt[x].intent.pre
               /\ attempt'[x].intent.cand = attempt[x].intent.cand
               /\ attempt'[x].prepared = attempt[x].prepared
               /\ attempt'[x].state = attempt[x].state
                    \/ (x = e /\ (attempt[e].intent.pre => ~attempt[e].prepared))
    <3>1. x # n
      BY <1>3, <1>10, <2>2
    <3>2. CASE x = e
      BY <1>1, <1>3, <3>1, <3>2
    <3>3. CASE x # e
      <4>1. attempt'[x] = attempt[x]
        BY <1>3, <3>1, <3>3
      <4> QED
        BY <2>2, <3>1, <4>1
    <3> QED
      BY <3>2, <3>3
  <2> SUFFICES ASSUME NEW x \in Epochs, attempt'[x].intent # NoIntent
               PROVE  /\ x < MaxEpoch /\ x <= n
                      /\ attempt'[x].intent.pre => attempt'[x].intent.cand = "new"
                      /\ attempt'[x].intent.pre /\ attempt'[x].prepared =>
                           attempt'[x].state \in {"PREPARED", "HOSTING_INTENT_PERSISTED"}
                      /\ attempt'[x].intent.cand = "new" /\ ~attempt'[x].intent.pre =>
                           ~NeverAttached(x)'
    BY <1>13 DEF IntentsHold
  <2>3. /\ x < MaxEpoch /\ x <= latest
        /\ attempt[x].intent.pre => attempt[x].intent.cand = "new"
        /\ attempt[x].intent.pre /\ attempt[x].prepared =>
             attempt[x].state \in {"PREPARED", "HOSTING_INTENT_PERSISTED"}
        /\ attempt[x].intent.cand = "new" /\ ~attempt[x].intent.pre => ~NeverAttached(x)
    BY <2>2 DEF IInv, IntentsHold
  <2>4. NeverAttached(x)' => NeverAttached(x)
    BY <2>1, <2>2
  <2>5. x <= n
    BY <1>13, <2>3
  <2> QED
    BY <2>2, <2>3, <2>4, <2>5
<1>20. DrivesHold'
  <2>1. ASSUME NEW y \in drives'
        PROVE  y.e < MaxEpoch /\ y.e <= n /\ y.e < n /\ y.stale
    <3>1. PICK c \in drives : c.e = y.e /\ (c.stale => y.stale) /\ (y.e = e => y.stale)
      BY <1>7
    <3>2. /\ c.e \in Epochs /\ c.e < MaxEpoch /\ c.e <= latest
          /\ c.e < latest => c.stale
      BY DrivesFact DEF IInv, DrivesHold
    <3> QED
      BY <1>1, <1>4, <1>9, <3>1, <3>2
  <2> QED
    BY <1>13, <2>1 DEF DrivesHold, Holds
<1>21. \A x \in Epochs : op'[x].pc \in Phases \/ op'[x].pc \in BrokerPhases
                           \/ op'[x].pc \in StagedPhases =>
         op'[x] = op[x] /\ x # n
  BY <1>6 DEF Phases, BrokerPhases, StagedPhases
<1>22. RunsAttached'
  <2> SUFFICES ASSUME NEW x \in Epochs, op'[x].pc \in Phases
               PROVE  /\ attempt'[x].prepared
                      /\ attempt'[x].intent # NoIntent => ~attempt'[x].intent.pre
                      /\ op'[x].pc = "realize" => attempt'[x].state # "ACTIVE"
                      /\ op'[x].pc \in {"replay", "publish"} => attempt'[x].state \in {"ACTIVE"} \cup Absorbing
    BY DEF RunsAttached
  <2>1. /\ op'[x] = op[x] /\ x # n /\ attempt[x].prepared
        /\ attempt[x].intent # NoIntent => ~attempt[x].intent.pre
        /\ op[x].pc = "realize" => attempt[x].state # "ACTIVE"
        /\ op[x].pc \in {"replay", "publish"} => attempt[x].state \in {"ACTIVE"} \cup Absorbing
    BY <1>21 DEF IInv, RunsAttached
  <2>2. CASE x = e
    BY <1>1, <1>3, <2>1, <2>2 DEF Absorbing
  <2>3. CASE x # e
    <3>1. attempt'[x] = attempt[x]
      BY <1>3, <2>1, <2>3
    <3> QED
      BY <2>1, <3>1
  <2> QED
    BY <2>2, <2>3
<1>23. WorkEndsServed'
  <2> SUFFICES ASSUME NEW x \in Epochs, x <= n, WorkOf(attempt'[x]) = "completed"
               PROVE  attempt'[x].state \in {"ACTIVE"} \cup Absorbing
    BY <1>13 DEF WorkEndsServed
  <2>1. x # n
    BY <1>3, <1>10 DEF WorkOf
  <2>2. CASE x = e
    BY <1>3, <2>2
  <2>3. CASE x # e
    <3>1. attempt'[x] = attempt[x] /\ x <= latest
      BY <1>3, <1>13, <2>1, <2>3
    <3> QED
      BY <3>1 DEF IInv, WorkEndsServed
  <2> QED
    BY <2>2, <2>3
<1>24. ClientsServe'
  <2>1. ASSUME NEW y \in Epochs, client[y] # 0
        PROVE  /\ attempt'[client[y]].runtime = y
               /\ attempt'[client[y]].state \in {"ACTIVE"} \cup Absorbing
    <3>1. client[y] \in Epochs
      BY <2>1, ParticipantsAssumption DEF IInv, TypeOK, Epochs
    <3>2. /\ attempt[client[y]].runtime = y
          /\ attempt[client[y]].state \in {"ACTIVE"} \cup Absorbing
      BY <2>1 DEF IInv, ClientsServe
    <3>3. client[y] # n
      BY <1>3, <1>11, <3>2, ParticipantsAssumption DEF Epochs
    <3>4. CASE client[y] = e
      BY <1>3, <3>2, <3>4
    <3>5. CASE client[y] # e
      BY <1>3, <3>1, <3>2, <3>3, <3>5
    <3> QED
      BY <3>4, <3>5
  <2>2. ASSUME NEW x \in Epochs, op'[x].pc \in BrokerPhases, NEW y \in Epochs
        PROVE  client[y] # x
    BY <1>21, <2>2 DEF IInv, ClientsServe
  <2> QED
    BY <1>9, <2>1, <2>2 DEF ClientsServe
<1>25. StagedRuntimeStands'
  <2>1. ASSUME NEW x \in Epochs, broker[x] = "up",
               op'[x].pc \in BrokerPhases \/ op'[x].pc \in StagedPhases
        PROVE  FALSE
    <3>1. op[x].pc # "idle"
      BY <1>21, <2>1 DEF Phases, BrokerPhases, StagedPhases
    <3>2. x <= latest
      BY <3>1, OperationIsKnown
    <3>3. ~(x < latest)
      BY <2>1 DEF IInv, PastIsSettled, SettledIsDead
    <3> QED
      BY <1>1, <1>9, <2>1, <3>2, <3>3
  <2> QED
    BY <1>9, <2>1 DEF StagedRuntimeStands
<1> QED
  BY <1>12, <1>14, <1>15, <1>16, <1>17, <1>18, <1>19, <1>20, <1>22, <1>23, <1>24, <1>25
     DEF IInv

-----------------------------------------------------------------------------
(* The invariant                                                           *)

LEMMA InitOK == Init => IInv
<1> SUFFICES ASSUME Init PROVE IInv
  OBVIOUS
<1>1. /\ MaxEpoch \in Nat \ {0} /\ MaxTries \in Nat \ {0} /\ Epochs \subseteq Nat \ {0}
      /\ 0 \in 0 .. MaxEpoch /\ 0 \in 0 .. MaxTries + 1
  BY ParticipantsAssumption DEF Epochs
<1>2. NoAttempt \in Attempts
  BY <1>1 DEF NoAttempt, Attempts, AttemptStates, WorkStates, Intents
<1>3. /\ NoAttempt.state = "NONE" /\ NoAttempt.work = "completed"
      /\ NoAttempt.intent = NoIntent /\ ~NoAttempt.prepared /\ ~NoAttempt.settled
      /\ ~NoAttempt.activated
  BY DEF NoAttempt
<1>4. Idle \in Ops /\ Idle.pc = "idle"
  BY DEF Idle, Ops, AttemptStates
<1>5. TypeOK
  BY <1>1, <1>2, <1>4 DEF Init, TypeOK
<1>6. \A e \in Epochs :
        /\ attempt[e] = NoAttempt /\ op[e].pc = "idle" /\ broker[e] = "absent"
        /\ client[e] = 0 /\ e > 0 /\ ~(e <= 0)
  BY <1>1, <1>4 DEF Init
<1>7. latest = 0 /\ drives = {}
  BY DEF Init
<1>8. Numbered /\ PastIsSettled
  BY <1>1, <1>6, <1>7 DEF Numbered, PastIsSettled
<1>9. SettledIsDead /\ ActivatedAlone
  BY <1>3, <1>6 DEF SettledIsDead, ActivatedAlone
<1>10. AttachedTogether
  BY <1>3, <1>6 DEF AttachedTogether
<1>11. IntentsHold /\ DrivesHold
  BY <1>3, <1>6, <1>7 DEF IntentsHold, DrivesHold
<1>12. RunsAttached /\ WorkEndsServed
  BY <1>6, <1>7 DEF RunsAttached, WorkEndsServed, Phases
<1>13. ClientsServe /\ StagedRuntimeStands
  BY <1>6 DEF ClientsServe, StagedRuntimeStands, BrokerPhases, Phases, StagedPhases
<1> QED
  BY <1>5, <1>8, <1>9, <1>10, <1>11, <1>12, <1>13 DEF IInv

LEMMA StutterKeeps ==
    ASSUME IInv, UNCHANGED vars
    PROVE  IInv'
<1>1. /\ settling' \subseteq Epochs /\ staged' \subseteq Epochs /\ hosting' \subseteq Epochs
      /\ faults' \in [Faults -> Nat]
  BY DEF IInv, TypeOK, vars, memory, env
<1>2. UNCHANGED <<rows, up, client, op, drives, broker>>
  BY DEF vars, memory, env
<1> QED
  BY <1>1, <1>2, AsideKeeps

LEMMA NextKeeps == IInv /\ [Next]_vars => IInv'
<1> SUFFICES ASSUME IInv, [Next]_vars PROVE IInv'
  OBVIOUS
<1>1. CASE UNCHANGED vars
  BY <1>1, StutterKeeps
<1>2. ASSUME NEW e \in Epochs, OperationStep(e) PROVE IInv'
  <2>1. ASSUME EstablishmentStep(e) PROVE IInv'
    BY <2>1, RunNothingKeeps, RunEstablishmentKeeps, RealizeKeeps, InstallKeeps, EnsureKeeps,
       StageKeeps, ActivateKeeps, ReplayKeeps, PublishKeeps, CallFailsKeeps DEF EstablishmentStep
  <2> QED
    BY <1>2, <2>1, RunReplacementKeeps DEF OperationStep
<1>3. ASSUME NEW e \in Epochs,
             \/ Attach(e) \/ PersistHosting(e) \/ HostingFails(e)
             \/ BrokerDies(e) \/ ProducerExits(e) \/ ClientCloses(e) \/ CandidateCloses(e)
             \/ SettleDead(e) \/ SettleNothing(e) \/ CrashAfterExit(e)
      PROVE  IInv'
  BY <1>3, AttachKeeps, PersistHostingKeeps, HostingFailsKeeps, BrokerDiesKeeps,
     ProducerExitsKeeps, ClientClosesKeeps, CandidateClosesKeeps, SettleDeadKeeps,
     SettleNothingKeeps, CrashAfterExitKeeps
<1>4. ASSUME NEW d \in drives, DriveStep(d) \/ CrashAfterDisposal(d) PROVE IInv'
  BY <1>4, DriveLostKeeps, DriveHeldKeeps, DriveCommitsKeeps, CrashAfterDisposalKeeps
     DEF DriveStep
<1>5. ASSUME NEW c \in {"same", "new"}, RequestReplacement(c) PROVE IInv'
  BY <1>5, RequestReplacementKeeps
<1>6. ASSUME Register \/ Deliver \/ Crash \/ Boot PROVE IInv'
  BY <1>6, RegisterKeeps, DeliverKeeps, CrashKeeps, BootKeeps
<1> QED
  BY <1>1, <1>2, <1>3, <1>4, <1>5, <1>6 DEF Next

\* The inductive invariant holds in every state of every behaviour.
THEOREM InvariantHolds == Spec => []IInv
<1>1. Init => IInv
  BY InitOK
<1>2. IInv /\ [Next]_vars => IInv'
  BY NextKeeps
<1> QED
  BY <1>1, <1>2, PTL DEF Spec

-----------------------------------------------------------------------------
(* What follows from it                                                    *)

\* The rows of participant_registration_attempts and its neighbours, and the maps the daemon
\* holds, keep their shape: retry counts, runtime names and phases stay in range.
THEOREM Typing == Spec => []TypeOK
<1>1. IInv => TypeOK
  BY DEF IInv
<1> QED
  BY <1>1, InvariantHolds, PTL

\* assertPriorParticipantRecoveryDisposition and the writer evidence of a replacement: no broker
\* of an earlier attempt writes once a later one was activated.
THEOREM WritersAreAlone == Spec => []SoleWriter
<1>1. IInv => SoleWriter
  <2>1. Epochs \subseteq Nat
    BY ParticipantsAssumption DEF Epochs
  <2>2. \A e \in Epochs : \A p \in 1 .. e - 1 : p \in Epochs /\ p < e
    BY ParticipantsAssumption DEF Epochs
  <2> QED
    BY <2>1, <2>2 DEF IInv, ActivatedAlone, SettledIsDead, SoleWriter
<1> QED
  BY <1>1, InvariantHolds, PTL

\* armParticipantReconnect, recordEstablishmentFailure and pauseOrCancelReplacement: no attempt
\* is stranded in the middle of its establishment with its work completed.
THEOREM NothingIsStranded == Spec => []CompletedMeansActive
<1>1. IInv => CompletedMeansActive
  <2> SUFFICES ASSUME IInv, latest # 0, attempt[latest].prepared,
                      attempt[latest].work = "completed", attempt[latest].intent = NoIntent
               PROVE  attempt[latest].state \in {"ACTIVE"} \cup Absorbing
    BY DEF CompletedMeansActive
  <2>1. latest \in Epochs /\ latest <= latest
    BY ParticipantsAssumption DEF IInv, TypeOK, Epochs
  <2> QED
    BY <2>1 DEF IInv, WorkEndsServed, WorkOf
<1> QED
  BY <1>1, InvariantHolds, PTL

-----------------------------------------------------------------------------
(* What a step never takes back                                            *)

\* What attempt a reached, b has reached too.
Kept(a, b) ==
    /\ a.prepared => b.prepared
    /\ a.identity => b.identity
    /\ a.activated => b.activated
    /\ a.state \in Absorbing => b.state \in Absorbing
    /\ a.runtime # 0 => b.runtime = a.runtime

AllKept(b) == \A x \in Epochs : Kept(attempt[x], b[x])

\* A failure that is counted takes nothing back.
LEMMA ThrowsKept ==
    ASSUME IInv, NEW e \in Epochs, NEW a \in [Epochs -> Attempts], AllKept(a),
           NEW max, NEW lost, lost \subseteq Epochs, Throws(a, e, max, lost)
    PROVE  AllKept(attempt')
<1>1. Counted(a, attempt', e)
  BY ThrowsFact DEF IInv, TypeOK
<1> QED
  BY <1>1 DEF Counted, SameStand, AllKept, Kept

\* Nor does a step that leaves the rows of the attempts alone.
LEMMA SameKept ==
    ASSUME IInv
    PROVE  AllKept(attempt) /\ attempt \in [Epochs -> Attempts]
BY DEF AllKept, Kept, IInv, TypeOK

\* An establishment operation changes the state of an attempt that is not disposed of.
LEMMA EstablishmentKept ==
    ASSUME IInv, NEW e \in Epochs, EstablishmentStep(e)
    PROVE  AllKept(attempt')
<1>1. attempt \in [Epochs -> Attempts] /\ attempt[e] \in Attempts /\ AllKept(attempt)
  BY SameKept
<1>2. CASE RunNothing(e)
  BY <1>1, <1>2 DEF RunNothing, rows
<1>3. CASE RunEstablishment(e)
  <2>1. attempt' = Completed(attempt, e) \/ attempt' = Detach(e)
    BY <1>3 DEF RunEstablishment
  <2>2. CASE attempt' = Completed(attempt, e)
    BY <1>1, <2>2, CompletedFact DEF Counted, SameStand, AllKept, Kept
  <2>3. CASE attempt' = Detach(e)
    BY <1>1, <2>3 DEF Detach, AllKept, Kept, Attempts, Absorbing
  <2> QED
    BY <2>1, <2>2, <2>3
<1>4. CASE Realize(e)
  <2>1. CASE Throws(attempt, e, MaxTries, {})
    BY <1>1, <2>1, ThrowsKept
  <2>2. CASE /\ attempt[e].state \in Frozen \cup {"HOSTING_INTENT_PERSISTED"}
             /\ attempt' = [attempt EXCEPT ![e].state =
                  IF @ = "HOSTING_INTENT_PERSISTED" THEN "DISPATCH_FROZEN" ELSE @]
    BY <1>1, <2>2 DEF AllKept, Kept, Attempts, Frozen, Absorbing
  <2> QED
    BY <1>4, <2>1, <2>2 DEF Realize
<1>5. ASSUME NEW a \in [Epochs -> Attempts], AllKept(a), Materialize(a, e)
      PROVE  AllKept(attempt')
  BY <1>5, ThrowsKept DEF Materialize
<1>6. CASE Install(e)
  <2> DEFINE b == [attempt EXCEPT ![e].state = "INSTALL_CONFIRMED", ![e].identity = TRUE]
             a == IF attempt[e].identity THEN attempt ELSE b
  <2>1. CASE Throws(attempt, e, MaxTries, {})
    BY <1>1, <2>1, ThrowsKept
  <2>2. CASE attempt[e].identity \/ attempt[e].state = "DISPATCH_FROZEN"
    <3>1. /\ [attempt[e] EXCEPT !.state = "INSTALL_CONFIRMED", !.identity = TRUE] \in Attempts
          /\ b = [attempt EXCEPT ![e] =
                    [attempt[e] EXCEPT !.state = "INSTALL_CONFIRMED", !.identity = TRUE]]
      BY <1>1 DEF Attempts, AttemptStates, Frozen
    <3>2. a \in [Epochs -> Attempts] /\ AllKept(a)
      BY <1>1, <2>2, <3>1 DEF AllKept, Kept, Attempts, Absorbing
    <3>3. attempt' = a \/ Materialize(a, e) \/ Throws(attempt, e, MaxTries, {})
      BY <1>6 DEF Install
    <3> HIDE DEF a
    <3> QED
      BY <1>5, <2>1, <3>2, <3>3
  <2> QED
    BY <1>6, <2>1, <2>2 DEF Install
<1>7. CASE Ensure(e)
  <2> DEFINE b == [attempt EXCEPT ![e].state = "INVOCATION_READY"]
             a == IF attempt[e].state = "INSTALL_CONFIRMED" /\ op[e].seen = "INSTALL_CONFIRMED"
                  THEN b ELSE attempt
  <2>1. /\ [attempt[e] EXCEPT !.state = "INVOCATION_READY"] \in Attempts
        /\ b = [attempt EXCEPT ![e] = [attempt[e] EXCEPT !.state = "INVOCATION_READY"]]
    BY <1>1 DEF Attempts, AttemptStates, Frozen
  <2>2. a \in [Epochs -> Attempts] /\ AllKept(a)
    BY <1>1, <2>1 DEF AllKept, Kept, Attempts, Absorbing
  <2>3. Materialize(a, e) \/ Throws(a, e, MaxTries, {})
    BY <1>7 DEF Ensure
  <2> HIDE DEF a
  <2> QED
    BY <1>5, <2>2, <2>3, ThrowsKept
<1>8. CASE Stage(e)
  <2>1. CASE Throws(attempt, e, MaxTries, {})
    BY <1>1, <2>1, ThrowsKept
  <2>2. CASE attempt' = [attempt EXCEPT ![e].state = IF Confirmable(e) THEN "ATTACH_CONFIRMED" ELSE @]
    BY <1>1, <2>2 DEF Confirmable, AllKept, Kept, Attempts, Absorbing
  <2> QED
    BY <1>8, <2>1, <2>2 DEF Stage
<1>9. CASE Activate(e)
  <2> DEFINE a == [attempt EXCEPT ![e].state = "ACTIVE", ![e].activated = TRUE]
  <2>1. CASE Throws(attempt, e, MaxTries, {})
    BY <1>1, <2>1, ThrowsKept
  <2>2. CASE Activatable(e)
    <3>1. /\ [attempt[e] EXCEPT !.state = "ACTIVE", !.activated = TRUE] \in Attempts
          /\ a = [attempt EXCEPT ![e] = [attempt[e] EXCEPT !.state = "ACTIVE", !.activated = TRUE]]
      BY <1>1 DEF Attempts, AttemptStates, Frozen
    <3>2. a \in [Epochs -> Attempts] /\ AllKept(a)
      BY <1>1, <2>2, <3>1 DEF Activatable, AllKept, Kept, Attempts, Absorbing
    <3>3. attempt' = a \/ Throws(a, e, MaxTries, {}) \/ Throws(attempt, e, MaxTries, {})
      BY <1>9 DEF Activate
    <3> HIDE DEF a
    <3> QED
      BY <2>1, <3>2, <3>3, ThrowsKept
  <2> QED
    BY <1>9, <2>1, <2>2 DEF Activate
<1>10. CASE Publish(e)
  <2>1. Counted(attempt, attempt', e)
    BY <1>1, <1>10, CompletedFact DEF Publish
  <2> QED
    BY <1>1, <2>1 DEF Counted, SameStand, AllKept, Kept
<1>12. CASE Replay(e)
  <2>1. attempt' = attempt \/ attempt' = Ended(attempt, e)
    BY <1>12 DEF Replay
  <2> QED
    BY <1>1, <2>1 DEF Ended, AllKept, Kept, Attempts, Absorbing
<1>11. CASE CallFails(e)
  <2> DEFINE lost == IF op[e].pc \in {"replay", "publish"} THEN {RuntimeOf(e).inv} \ {0} ELSE {}
  <2>1. attempt[e].runtime \in Epochs
    BY <1>11, OperationIsKnown DEF CallFails
  <2>2. lost \subseteq Epochs
    BY <2>1 DEF IInv, TypeOK, RuntimeOf, Epochs
  <2>3. Throws(attempt, e, MaxTries, lost)
    BY <1>11 DEF CallFails
  <2> HIDE DEF lost
  <2> QED
    BY <1>1, <2>2, <2>3, ThrowsKept
<1> QED
  BY <1>2, <1>3, <1>4, <1>6, <1>7, <1>8, <1>9, <1>10, <1>11, <1>12 DEF EstablishmentStep

\* A drive disposes of its attempt, mints a successor where no attempt was, or gives work back.
LEMMA DriveKept ==
    ASSUME IInv, NEW d \in drives, DriveStep(d) \/ CrashAfterDisposal(d)
    PROVE  AllKept(attempt')
<1>1. /\ attempt \in [Epochs -> Attempts] /\ AllKept(attempt)
      /\ d.e \in Epochs /\ d.ended \in BOOLEAN
  BY SameKept, DrivesFact DEF Drives
<1>2. ASSUME NEW a \in [Epochs -> Attempts], AllKept(a), NEW pending, DriveEnds(d, a, pending)
      PROVE  AllKept(attempt')
  <2>1. attempt' = a \/ Throws(a, d.e, MaxTries, {})
    BY <1>2 DEF DriveEnds
  <2> QED
    BY <1>1, <1>2, <2>1, ThrowsKept
<1>3. ASSUME NEW ended \in BOOLEAN, Holds(d)
      PROVE  /\ Parked(attempt, d.e, ended) \in [Epochs -> Attempts]
             /\ AllKept(Parked(attempt, d.e, ended))
  BY <1>1, <1>3, ParkedFact, HoldsFact DEF SameStand, AllKept, Kept
<1>4. CASE DriveLost(d)
  <2>1. DriveEnds(d, IF Holds(d) THEN Parked(attempt, d.e, FALSE) ELSE attempt, TRUE)
    BY <1>4 DEF DriveLost
  <2> QED
    BY <1>1, <1>2, <1>3, <2>1
<1>5. CASE DriveHeld(d)
  <2>1. Holds(d) /\ DriveEnds(d, Parked(attempt, d.e, d.ended), broker[d.e] # "up")
    BY <1>5 DEF DriveHeld
  <2> QED
    BY <1>1, <1>2, <1>3, <2>1
<1>6. CASE DriveCommits(d)
  <2>1. Satisfied(d) /\ attempt' = Allocated(d)
    BY <1>6 DEF DriveCommits
  <2>2. /\ attempt[d.e + 1] = NoAttempt
        /\ \A x \in Epochs : x # d.e /\ x # d.e + 1 => attempt'[x] = attempt[x]
        /\ attempt'[d.e].state \in Absorbing
        /\ attempt'[d.e].prepared = attempt[d.e].prepared
        /\ attempt'[d.e].identity = attempt[d.e].identity
        /\ attempt'[d.e].activated = attempt[d.e].activated
    BY <2>1, AllocatedFact
  <2>3. Kept(NoAttempt, attempt'[d.e + 1]) /\ attempt'[d.e].runtime = attempt[d.e].runtime
    BY <2>1, AllocatedFact DEF Kept, NoAttempt, Absorbing
  <2> QED
    BY <2>2, <2>3 DEF AllKept, Kept
<1>7. CASE CrashAfterDisposal(d)
  BY <1>7, DisposedFact DEF CrashAfterDisposal, AllKept, Kept
<1> QED
  BY <1>4, <1>5, <1>6, <1>7 DEF DriveStep

\* A request stores its intent beside what the attempt reached.
LEMMA AdmitKept ==
    ASSUME IInv, NEW by, NEW e \in Epochs, NEW cand \in {"same", "new"}, Admit(by, e, cand)
    PROVE  AllKept(attempt')
<1>1. attempt' = Intended(e, cand)
  BY DEF Admit
<1>2. CASE attempt[e].intent # NoIntent
  BY <1>1, <1>2, SameKept DEF Intended
<1>3. CASE attempt[e].intent = NoIntent
  BY <1>1, <1>3, IntendedFact DEF SameStand, AllKept, Kept
<1> QED
  BY <1>2, <1>3

LEMMA NextKept ==
    ASSUME IInv, [Next]_vars
    PROVE  AllKept(attempt')
<1>1. attempt \in [Epochs -> Attempts] /\ AllKept(attempt)
  BY SameKept
<1>2. ASSUME UNCHANGED attempt PROVE AllKept(attempt')
  BY <1>1, <1>2
<1>3. CASE UNCHANGED vars
  BY <1>2, <1>3 DEF vars, rows
<1>4. ASSUME NEW e \in Epochs, OperationStep(e) PROVE AllKept(attempt')
  <2>1. CASE RunReplacement(e)
    <3>1. attempt[e].intent.cand \in {"same", "new"} /\ Admit("work", e, attempt[e].intent.cand)
      BY <2>1, IntentOf, IntentFact DEF RunReplacement
    <3> QED
      BY <3>1, AdmitKept
  <2> QED
    BY <1>4, <2>1, EstablishmentKept DEF OperationStep
<1>5. ASSUME NEW e \in Epochs,
             HostingFails(e) \/ BrokerDies(e) \/ ClientCloses(e) \/ CandidateCloses(e) \/ SettleNothing(e)
      PROVE  AllKept(attempt')
  BY <1>2, <1>5
     DEF HostingFails, BrokerDies, ClientCloses, CandidateCloses, SettleNothing, rows
<1>6. ASSUME NEW e \in Epochs, Attach(e) PROVE AllKept(attempt')
  BY <1>1, <1>6 DEF Attach, AllKept, Kept, Attempts, Absorbing
<1>7. ASSUME NEW e \in Epochs, PersistHosting(e) PROVE AllKept(attempt')
  BY <1>1, <1>7 DEF PersistHosting, AllKept, Kept, Attempts, Absorbing
<1>8. ASSUME NEW e \in Epochs, attempt' = Ended(attempt, e) PROVE AllKept(attempt')
  BY <1>1, <1>8 DEF Ended, AllKept, Kept, Attempts, Absorbing
<1>9. ASSUME NEW e \in Epochs, ProducerExits(e) \/ SettleDead(e) \/ CrashAfterExit(e)
      PROVE  AllKept(attempt')
  BY <1>2, <1>8, <1>9 DEF ProducerExits, SettleDead, CrashAfterExit
<1>10. ASSUME NEW d \in drives, DriveStep(d) \/ CrashAfterDisposal(d) PROVE AllKept(attempt')
  BY <1>10, DriveKept
<1>11. ASSUME NEW c \in {"same", "new"}, RequestReplacement(c) PROVE AllKept(attempt')
  <2>1. latest \in Epochs /\ Admit("door", latest, c)
    BY <1>11, ParticipantsAssumption DEF RequestReplacement, Epochs
  <2> QED
    BY <2>1, AdmitKept
<1>12. CASE Register
  <2>1. attempt[1] = NoAttempt /\ 1 \in Epochs
    BY <1>12, ParticipantsAssumption DEF Register, IInv, Numbered, Epochs
  <2>2. Kept(NoAttempt, attempt'[1])
    BY DEF Kept, NoAttempt, Absorbing
  <2> QED
    BY <1>1, <1>12, <2>1, <2>2 DEF Register, AllKept
<1>13. ASSUME NEW e \in Epochs, attempt' = ArmReconnect(attempt, e) PROVE AllKept(attempt')
  BY <1>1, <1>13, ArmedFact DEF SameStand, AllKept, Kept
<1>14. CASE Deliver
  <2>1. latest \in Epochs
    BY <1>14, ParticipantsAssumption DEF Deliver, Delivery, IInv, TypeOK, Epochs
  <2> QED
    BY <1>13, <1>14, <2>1 DEF Deliver
<1>15. CASE Boot
  <2>1. latest # 0 => latest \in Epochs
    BY ParticipantsAssumption DEF IInv, TypeOK, Epochs
  <2> QED
    BY <1>2, <1>13, <1>15, <2>1 DEF Boot, Rearmed
<1>16. CASE Crash
  BY <1>2, <1>16 DEF Crash, rows
<1> QED
  BY <1>3, <1>4, <1>5, <1>6, <1>7, <1>9, <1>10, <1>11, <1>12, <1>14, <1>15, <1>16 DEF Next

\* updateAttempt, persistInstallAcknowledgement and the transactions of a replacement: an attempt
\* keeps its preparation, broker identity and activation, and what was disposed of stays so.
THEOREM NothingIsReborn == Spec => AttemptIsNeverReborn
<1>1. IInv /\ [Next]_vars =>
        [\A e \in Epochs :
           /\ attempt[e].prepared => attempt'[e].prepared
           /\ attempt[e].identity => attempt'[e].identity
           /\ attempt[e].activated => attempt'[e].activated
           /\ attempt[e].state \in Absorbing => attempt'[e].state \in Absorbing]_vars
  BY NextKept DEF AllKept, Kept
<1> QED
  BY <1>1, InvariantHolds, PTL DEF Spec, AttemptIsNeverReborn

\* A terminated runtime in q is terminated in p.
RuntimesEnd(q, p) == \A r \in Epochs : q[r].status = "terminated" => p[r].status = "terminated"

\* Only an operation that finds its runtime standing writes the row as live, until it publishes.
LEMMA EstablishmentRevivesNone ==
    ASSUME IInv, NEW e \in Epochs, EstablishmentStep(e), ~Publish(e)
    PROVE  RuntimesEnd(runtime, runtime')
<1>1. runtime \in [Epochs -> [status : {"none", "live", "terminated"}, inv : 0 .. MaxEpoch]]
  BY DEF IInv, TypeOK
<1>2. ASSUME UNCHANGED runtime PROVE RuntimesEnd(runtime, runtime')
  BY <1>2 DEF RuntimesEnd
<1>3. ASSUME NEW a, Materialize(a, e), a[e].runtime = attempt[e].runtime, op[e].pc \in Phases
      PROVE  RuntimesEnd(runtime, runtime')
  <2>1. CASE Materializable(a, e)
    <3>1. attempt[e].runtime \in Epochs /\ RuntimeOf(e).status # "terminated"
      BY <1>3, <2>1, RunningFact DEF Materializable, RuntimeOf
    <3>2. runtime' = [runtime EXCEPT ![attempt[e].runtime] = [status |-> "live", inv |-> e]]
      BY <1>3, <2>1 DEF Materialize
    <3> QED
      BY <1>1, <3>1, <3>2 DEF RuntimesEnd, RuntimeOf
  <2>2. CASE ~Materializable(a, e)
    BY <1>2, <1>3, <2>2 DEF Materialize
  <2> QED
    BY <2>1, <2>2
<1>4. attempt \in [Epochs -> Attempts] /\ attempt[e] \in Attempts
  BY DEF IInv, TypeOK
<1>5. CASE Install(e)
  <2> DEFINE a == IF attempt[e].identity THEN attempt
                  ELSE [attempt EXCEPT ![e].state = "INSTALL_CONFIRMED", ![e].identity = TRUE]
  <2>1. a[e].runtime = attempt[e].runtime
    BY <1>4 DEF Attempts
  <2>2. op[e].pc \in Phases
    BY <1>5 DEF Install, At, Phases
  <2>3. UNCHANGED runtime \/ Materialize(a, e)
    BY <1>5 DEF Install
  <2> HIDE DEF a
  <2> QED
    BY <1>2, <1>3, <2>1, <2>2, <2>3
<1>6. CASE Ensure(e)
  <2> DEFINE a == IF attempt[e].state = "INSTALL_CONFIRMED" /\ op[e].seen = "INSTALL_CONFIRMED"
                  THEN [attempt EXCEPT ![e].state = "INVOCATION_READY"] ELSE attempt
  <2>1. a[e].runtime = attempt[e].runtime
    BY <1>4 DEF Attempts
  <2>2. op[e].pc \in Phases
    BY <1>6 DEF Ensure, At, Phases
  <2>3. UNCHANGED runtime \/ Materialize(a, e)
    BY <1>6 DEF Ensure
  <2> HIDE DEF a
  <2> QED
    BY <1>2, <1>3, <2>1, <2>2, <2>3
<1>7. CASE Replay(e)
  BY <1>1, <1>2, <1>7 DEF Replay, Released, RuntimesEnd
<1>8. CASE RunNothing(e) \/ RunEstablishment(e) \/ Realize(e) \/ Stage(e) \/ Activate(e) \/ CallFails(e)
  BY <1>2, <1>8 DEF RunNothing, RunEstablishment, Realize, Stage, Activate, CallFails, rows
<1> QED
  BY <1>5, <1>6, <1>7, <1>8 DEF EstablishmentStep

LEMMA NextRevivesNone ==
    ASSUME IInv, [Next]_vars, \A e \in Epochs : ~Publish(e)
    PROVE  RuntimesEnd(runtime, runtime')
<1>1. runtime \in [Epochs -> [status : {"none", "live", "terminated"}, inv : 0 .. MaxEpoch]]
  BY DEF IInv, TypeOK
<1>2. ASSUME UNCHANGED runtime PROVE RuntimesEnd(runtime, runtime')
  BY <1>2 DEF RuntimesEnd
<1>3. CASE UNCHANGED vars
  BY <1>2, <1>3 DEF vars, rows
<1>4. ASSUME NEW e \in Epochs, OperationStep(e) PROVE RuntimesEnd(runtime, runtime')
  BY <1>2, <1>4, EstablishmentRevivesNone DEF OperationStep, RunReplacement
<1>5. ASSUME NEW e \in Epochs,
             \/ Attach(e) \/ PersistHosting(e) \/ HostingFails(e) \/ BrokerDies(e)
             \/ ClientCloses(e) \/ CandidateCloses(e) \/ SettleNothing(e) \/ CrashAfterExit(e)
      PROVE  RuntimesEnd(runtime, runtime')
  BY <1>2, <1>5
     DEF Attach, PersistHosting, HostingFails, BrokerDies, ClientCloses, CandidateCloses,
         SettleNothing, CrashAfterExit, rows
<1>6. ASSUME NEW e \in Epochs, ProducerExits(e) PROVE RuntimesEnd(runtime, runtime')
  BY <1>1, <1>6 DEF ProducerExits, Released, RuntimesEnd
<1>7. ASSUME NEW e \in Epochs, SettleDead(e) PROVE RuntimesEnd(runtime, runtime')
  BY <1>1, <1>7 DEF SettleDead, RuntimesEnd
<1>8. ASSUME NEW d \in drives, DriveStep(d) \/ CrashAfterDisposal(d)
      PROVE  RuntimesEnd(runtime, runtime')
  <2>1. CASE DriveCommits(d)
    BY <1>1, <2>1 DEF DriveCommits, RuntimesEnd
  <2>2. CASE DriveLost(d) \/ DriveHeld(d) \/ CrashAfterDisposal(d)
    BY <1>2, <2>2 DEF DriveLost, DriveHeld, CrashAfterDisposal
  <2> QED
    BY <1>8, <2>1, <2>2 DEF DriveStep
<1>9. ASSUME NEW c \in {"same", "new"}, RequestReplacement(c)
      PROVE  RuntimesEnd(runtime, runtime')
  BY <1>2, <1>9 DEF RequestReplacement
<1>10. CASE Register \/ Deliver \/ Crash \/ Boot
  BY <1>2, <1>10 DEF Register, Deliver, Crash, Boot, rows
<1> QED
  BY <1>3, <1>4, <1>5, <1>6, <1>7, <1>8, <1>9, <1>10 DEF Next

\* The publication writes a runtime as live that stands, or that the exit its own replay carried
\* has ended.
LEMMA PublishRevives ==
    ASSUME IInv, NEW e \in Epochs, Publish(e), NEW r \in Epochs, runtime[r].status = "terminated"
    PROVE  \/ runtime'[r].status = "terminated"
           \/ /\ attempt[e].runtime = r /\ attempt[e].state = "TERMINAL"
              /\ runtime[r].inv = e /\ op[e].pc = "publish" /\ client'[r] = e
<1>1. /\ op[e].pc = "publish" /\ op[e].pc \in StagedPhases /\ broker[e] = "up"
      /\ runtime' = [runtime EXCEPT ![attempt[e].runtime] = [status |-> "live", inv |-> e]]
      /\ client' = [client EXCEPT ![attempt[e].runtime] = e]
  BY DEF Publish, At, StagedPhases
<1>2. CASE attempt[e].runtime # r
  BY <1>1, <1>2 DEF IInv, TypeOK
<1>3. CASE attempt[e].runtime = r
  <2>1. RuntimeOf(e).inv = e /\ Carried(e)
    BY <1>1, <1>3 DEF IInv, StagedRuntimeStands, RuntimeOf
  <2>2. client'[r] = e
    BY <1>1, <1>3 DEF IInv, TypeOK
  <2> QED
    BY <1>1, <1>3, <2>1, <2>2 DEF Carried, RuntimeOf
<1> QED
  BY <1>2, <1>3

\* materializeParticipantBrokerBookkeeping and attachAndReplay: no retry of an attempt, settlement,
\* replacement or restart brings a terminated runtime back; the one operation that does is the
\* attachment whose own replay applied the exit, when it writes the status of its snapshot.
THEOREM RuntimesStayTerminated == Spec => TerminatedStaysTerminated
<1>1. IInv /\ [Next]_vars =>
        [\A r \in Epochs :
           runtime[r].status = "terminated" =>
               \/ runtime'[r].status = "terminated"
               \/ \E e \in Epochs :
                     /\ attempt[e].runtime = r /\ attempt[e].state = "TERMINAL"
                     /\ runtime[r].inv = e /\ op[e].pc = "publish" /\ client'[r] = e]_vars
  <2> SUFFICES ASSUME IInv, [Next]_vars, NEW r \in Epochs, runtime[r].status = "terminated"
               PROVE  \/ runtime'[r].status = "terminated"
                      \/ \E e \in Epochs :
                            /\ attempt[e].runtime = r /\ attempt[e].state = "TERMINAL"
                            /\ runtime[r].inv = e /\ op[e].pc = "publish" /\ client'[r] = e
    OBVIOUS
  <2>1. CASE \A e \in Epochs : ~Publish(e)
    BY <2>1, NextRevivesNone DEF RuntimesEnd
  <2>2. CASE \E e \in Epochs : Publish(e)
    BY <2>2, PublishRevives
  <2> QED
    BY <2>1, <2>2
<1> QED
  BY <1>1, InvariantHolds, PTL DEF Spec, TerminatedStaysTerminated

-----------------------------------------------------------------------------
(* The one host of an address                                              *)

\* What was not minted has no binding yet.
HostedInv == OneLiveBinding /\ \A r \in Epochs : r > latest => binding[r] = "NONE"

\* A binding moves on, or stays.
MovesOn(from, to) ==
    to # from => <<from, to>> \in
        {<<"NONE", "BINDING">>, <<"BINDING", "BOUND">>, <<"BINDING", "RETIRED">>,
         <<"BOUND", "RETIRING">>, <<"BOUND", "RETIRED">>, <<"RETIRING", "RETIRED">>}

\* Bindings move on where they are, so that live ones stay live and retired ones retired.
BindingsStay ==
    \A r \in Epochs :
        /\ MovesOn(binding[r], binding'[r])
        /\ binding'[r] \in LiveBinding <=> binding[r] \in LiveBinding
        /\ binding[r] = "NONE" => binding'[r] = "NONE"

\* The live slot passes from the binding of one attempt to that of the next.
SlotPasses ==
    /\ latest < MaxEpoch /\ latest' = latest + 1
    /\ attempt'[latest + 1].runtime = latest + 1
    /\ \A r \in Epochs :
        binding'[r] = IF r = latest + 1 THEN "BINDING"
                      ELSE IF binding[r] \in LiveBinding THEN "RETIRED" ELSE binding[r]

\* Only a registration and the commit of a replacement mint an attempt; a bridge successor
\* stands on the binding of its predecessor.
HostStep ==
    \/ BindingsStay /\ latest' = latest
    \/ BindingsStay /\ latest # 0 /\ latest' = latest + 1 /\ latest + 1 \in Epochs
       /\ attempt'[latest + 1].runtime = attempt[latest].runtime
    \/ SlotPasses

LEMMA CurrentFact ==
    ASSUME IInv
    PROVE  /\ latest \in Nat /\ MaxEpoch \in Nat /\ Epochs = 1 .. MaxEpoch /\ latest <= MaxEpoch
           /\ latest # 0 => latest \in Epochs /\ attempt[latest].runtime \in 1 .. latest
           /\ binding \in [Epochs -> {"NONE", "BINDING", "BOUND", "RETIRING", "RETIRED"}]
BY ParticipantsAssumption DEF IInv, TypeOK, Numbered, Epochs

LEMMA StayFact ==
    ASSUME UNCHANGED <<binding, latest>>
    PROVE  HostStep
BY DEF HostStep, BindingsStay, MovesOn

\* The disposal of a predecessor begins to retire its binding, if it was bound.
LEMMA RetiringFact ==
    ASSUME IInv, NEW d \in drives, d.e \in Epochs
    PROVE  \A r \in Epochs :
             Retiring(d)[r] = IF r = attempt[d.e].runtime /\ d.kind = "host" /\ binding[r] = "BOUND"
                              THEN "RETIRING" ELSE binding[r]
BY CurrentFact DEF Retiring

LEMMA CommitIsHostStep ==
    ASSUME IInv, HostedInv, NEW d \in drives, DriveCommits(d)
    PROVE  HostStep
<1> DEFINE r == attempt[d.e].runtime
           n == d.e + 1
<1>1. /\ Satisfied(d) /\ attempt' = Allocated(d) /\ latest' = n
      /\ binding' = IF d.kind = "bridge" THEN binding
                    ELSE [binding EXCEPT ![r] = "RETIRED", ![n] = "BINDING"]
      /\ d.kind \in {"bridge", "host"}
  BY DrivesFact DEF DriveCommits, Drives
<1>2. d.e = latest /\ d.e \in Epochs /\ n \in Epochs /\ latest # 0 /\ r \in 1 .. latest /\ r \in Epochs
  BY <1>1, DisposedFact, AllocatedFact, CurrentFact
<1>3. attempt'[n] = Minted(IF d.kind = "host" THEN n ELSE r)
  BY <1>1, AllocatedFact
<1>4. attempt'[n].runtime = IF d.kind = "host" THEN n ELSE r
  BY <1>3 DEF Minted, NoAttempt
<1>5. CASE d.kind = "bridge"
  BY <1>1, <1>2, <1>4, <1>5 DEF HostStep, BindingsStay, MovesOn
<1>6. CASE d.kind = "host"
  <2>1. \A x \in Epochs : binding'[x] = IF x = n THEN "BINDING"
                                        ELSE IF x = r THEN "RETIRED" ELSE binding[x]
    BY <1>1, <1>2, <1>6, CurrentFact
  <2>2. \A x \in Epochs : binding[x] \in LiveBinding <=> x = r
    BY <1>2 DEF HostedInv, OneLiveBinding
  <2>3. latest < MaxEpoch
    BY <1>2, CurrentFact
  <2> QED
    BY <1>1, <1>2, <1>4, <1>6, <2>1, <2>2, <2>3 DEF HostStep, SlotPasses
<1> QED
  BY <1>1, <1>5, <1>6

LEMMA NextIsHostStep ==
    ASSUME IInv, HostedInv, [Next]_vars
    PROVE  HostStep
<1>1. ASSUME NEW e \in Epochs, OperationStep(e) PROVE HostStep
  BY <1>1, StayFact
     DEF OperationStep, EstablishmentStep, RunNothing, RunEstablishment, Realize, Install, Ensure,
         Stage, Activate, Replay, Publish, CallFails, RunReplacement, rows
<1>2. ASSUME NEW e \in Epochs, Attach(e) PROVE HostStep
  <2>1. /\ latest' = latest
        /\ binding' = [binding EXCEPT ![attempt[e].runtime] = IF @ = "BINDING" THEN "BOUND" ELSE @]
    BY <1>2 DEF Attach
  <2>2. \A r \in Epochs : binding'[r] \in {binding[r], "BOUND"}
                          /\ (binding'[r] # binding[r] => binding[r] = "BINDING")
    BY <2>1, CurrentFact
  <2> QED
    BY <2>1, <2>2 DEF HostStep, BindingsStay, MovesOn, LiveBinding
<1>3. ASSUME NEW e \in Epochs,
             \/ PersistHosting(e) \/ HostingFails(e) \/ BrokerDies(e) \/ ProducerExits(e)
             \/ ClientCloses(e) \/ CandidateCloses(e) \/ SettleDead(e) \/ SettleNothing(e)
             \/ CrashAfterExit(e)
      PROVE  HostStep
  BY <1>3, StayFact
     DEF PersistHosting, HostingFails, BrokerDies, ProducerExits, ClientCloses, CandidateCloses,
         SettleDead, SettleNothing, CrashAfterExit, rows
<1>4. ASSUME NEW d \in drives, CrashAfterDisposal(d) PROVE HostStep
  <2>1. binding' = Retiring(d) /\ latest' = latest /\ d.e \in Epochs
    BY <1>4, DrivesFact DEF CrashAfterDisposal
  <2>2. \A r \in Epochs : binding'[r] = binding[r] \/ (binding[r] = "BOUND" /\ binding'[r] = "RETIRING")
    BY <2>1, RetiringFact
  <2> QED
    BY <2>1, <2>2 DEF HostStep, BindingsStay, MovesOn, LiveBinding
<1>5. ASSUME NEW d \in drives, DriveLost(d) \/ DriveHeld(d) PROVE HostStep
  BY <1>5, StayFact DEF DriveLost, DriveHeld
<1>6. CASE Register
  <2>1. /\ latest = 0 /\ latest' = 1
        /\ attempt' = [attempt EXCEPT ![1] = Minted(1)]
        /\ binding' = [binding EXCEPT ![1] = "BINDING"]
    BY <1>6 DEF Register
  <2>2. 1 \in Epochs /\ 0 < MaxEpoch /\ \A r \in Epochs : binding[r] \notin LiveBinding
    BY <2>1, ParticipantsAssumption DEF HostedInv, OneLiveBinding, Epochs
  <2>3. attempt'[1].runtime = 1
    BY <2>1, <2>2 DEF Minted, NoAttempt, IInv, TypeOK
  <2> QED
    BY <2>1, <2>2, <2>3, CurrentFact DEF HostStep, SlotPasses
<1>7. CASE \/ \E c \in {"same", "new"} : RequestReplacement(c)
           \/ Deliver \/ Crash \/ Boot \/ UNCHANGED vars
  BY <1>7, StayFact DEF RequestReplacement, Deliver, Crash, Boot, vars, rows
<1> QED
  BY <1>1, <1>2, <1>3, <1>4, <1>5, <1>6, <1>7, CommitIsHostStep DEF Next, DriveStep

LEMMA HostStepKeeps ==
    ASSUME IInv, HostedInv, HostStep, AllKept(attempt')
    PROVE  HostedInv' /\ \A r \in Epochs : MovesOn(binding[r], binding'[r])
<1>1. latest # 0 => attempt'[latest].runtime = attempt[latest].runtime
  BY CurrentFact DEF AllKept, Kept
<1>2. CASE BindingsStay /\ latest' = latest
  BY <1>1, <1>2 DEF HostedInv, OneLiveBinding, BindingsStay
<1>3. CASE /\ BindingsStay /\ latest # 0 /\ latest' = latest + 1
           /\ attempt'[latest + 1].runtime = attempt[latest].runtime
  <2>1. latest' # 0 /\ \A r \in Epochs : r > latest' => r > latest
    BY <1>3, CurrentFact
  <2> QED
    BY <1>3, <2>1 DEF HostedInv, OneLiveBinding, BindingsStay
<1>4. CASE SlotPasses
  <2>1. /\ latest' # 0 /\ latest + 1 \in Epochs /\ binding[latest + 1] = "NONE"
        /\ attempt'[latest'].runtime = latest + 1
        /\ \A r \in Epochs : r > latest' => r > latest /\ r # latest + 1
    BY <1>4, CurrentFact DEF SlotPasses, HostedInv
  <2>2. \A r \in Epochs : binding'[r] = IF r = latest + 1 THEN "BINDING"
                            ELSE IF binding[r] \in LiveBinding THEN "RETIRED" ELSE binding[r]
    BY <1>4 DEF SlotPasses
  <2>3. OneLiveBinding'
    BY <2>1, <2>2 DEF OneLiveBinding, LiveBinding
  <2>4. \A r \in Epochs : r > latest' => binding'[r] = "NONE"
    BY <2>1, <2>2 DEF HostedInv, LiveBinding
  <2>5. \A r \in Epochs : MovesOn(binding[r], binding'[r])
    BY <2>1, <2>2 DEF MovesOn, LiveBinding
  <2> QED
    BY <2>3, <2>4, <2>5 DEF HostedInv
<1> QED
  BY <1>2, <1>3, <1>4 DEF HostStep

LEMMA HostedHolds == Spec => [](IInv /\ HostedInv)
<1>1. Init => IInv /\ HostedInv
  BY InitOK DEF Init, HostedInv, OneLiveBinding, LiveBinding
<1>2. IInv /\ HostedInv /\ [Next]_vars => (IInv /\ HostedInv)'
  BY NextKeeps, NextIsHostStep, NextKept, HostStepKeeps
<1> QED
  BY <1>1, <1>2, PTL DEF Spec

\* commitSuccessorAllocation frees the slot it takes, whatever attach, disposal or crash came
\* between: idx_participant_binding_live_address never has a second binding to refuse.
THEOREM AddressHasOneHost == Spec => []OneLiveBinding
<1>1. IInv /\ HostedInv => OneLiveBinding
  BY DEF HostedInv
<1> QED
  BY <1>1, HostedHolds, PTL

\* transitionBinding never meets a move that bindingTransitions refuses.
THEOREM RetiredBindingsStayRetired == Spec => BindingsMoveOn
<1>1. IInv /\ HostedInv /\ [Next]_vars =>
        [\A r \in Epochs :
           binding'[r] # binding[r] =>
             <<binding[r], binding'[r]>> \in
               {<<"NONE", "BINDING">>, <<"BINDING", "BOUND">>, <<"BINDING", "RETIRED">>,
                <<"BOUND", "RETIRING">>, <<"BOUND", "RETIRED">>, <<"RETIRING", "RETIRED">>}]_vars
  BY NextIsHostStep, NextKept, HostStepKeeps DEF MovesOn
<1> QED
  BY <1>1, HostedHolds, PTL DEF Spec, BindingsMoveOn
=============================================================================
