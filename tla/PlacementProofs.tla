---------------------------- MODULE PlacementProofs ----------------------------
(* For any nodes, calls and faults: a node that thinks it has the authority is *)
(* the home, a retired node is fenced before its binding is released, and the  *)
(* placement of a scope implements SingleHome.                                 *)
EXTENDS Placement, TLAPS

-------------------------------------------------------------------------------
(* Typing                                                                     *)

\* Call c waits for something else than the lock, or for nothing.
MovesTo(c, v) == /\ v \in Ops /\ v.at # "queued"
                 /\ op' = [op EXCEPT ![c] = v]

SeatsTyped == runtime \in [Nodes -> BOOLEAN] /\ pass \in [Nodes -> Passes]

LEMMA GoesMoves ==
  ASSUME TypeOK, NEW c \in Calls, NEW kind \in {"heal"} \cup Kinds,
         NEW at \in Waits \ {"queued"}, NEW dec \in {"none", "enforce", "supersede"},
         Goes(c, kind, at, dec)
  PROVE  MovesTo(c, [kind |-> kind, at |-> at, dec |-> dec, ans |-> Pending])
BY DEF Goes, MovesTo, Ops, Answers

LEMMA EndsMoves ==
  ASSUME TypeOK, NEW c \in Calls, Ends(c)
  PROVE  MovesTo(c, Idle)
BY DEF Ends, MovesTo, Ops, Idle, Waits, Answers

LEMMA NodeTyped == ASSUME NEW c \in Calls PROVE NodeOf[c] \in Nodes
BY PlacementAssumption

LEMMA GoneTyped ==
  ASSUME TypeOK, NEW n \in Nodes, RuntimeGone(n)
  PROVE  SeatsTyped'
<1>1. runtime' \in [Nodes -> BOOLEAN]
  BY DEF TypeOK, RuntimeGone
<1>2. pass' \in [Nodes -> Passes]
  BY DEF TypeOK, RuntimeGone, Passes
<1> QED BY <1>1, <1>2 DEF SeatsTyped

LEMMA RefusesTyped ==
  ASSUME TypeOK, NEW c \in Calls, NEW kind, Refuses(c, kind)
  PROVE  MovesTo(c, Idle) /\ SeatsTyped'
<1>1. MovesTo(c, Idle)
  BY EndsMoves DEF Refuses
<1>2. SeatsTyped'
  <2>1. CASE RuntimeGone(NodeOf[c])
    BY <2>1, GoneTyped, NodeTyped
  <2>2. CASE UNCHANGED <<runtime, pass>>
    BY <2>2 DEF TypeOK, SeatsTyped
  <2> QED BY <2>1, <2>2 DEF Refuses
<1> QED BY <1>1, <1>2

\* What the gate decides from the local ledger: to refuse, to act on an active
\* row, or to ask.
LEMMA DecidesMoves ==
  ASSUME TypeOK, NEW c \in Calls, NEW kind \in {"heal"} \cup Kinds, Decides(c, kind)
  PROVE  /\ SeatsTyped'
         /\ \E v : /\ MovesTo(c, v)
                   /\ v.ans = Pending /\ v.at # "delete"
                   /\ v.at = "local" => ledger[NodeOf[c]] = "active"
<1>1. CASE Refuses(c, kind)
  BY <1>1, RefusesTyped DEF Idle
<1>2. CASE ledger[NodeOf[c]] = "active" /\ Goes(c, kind, "local", "none") /\ UNCHANGED <<runtime, pass>>
  <2>1. MovesTo(c, [kind |-> kind, at |-> "local", dec |-> "none", ans |-> Pending])
    BY <1>2, GoesMoves DEF Waits
  <2>2. SeatsTyped'
    BY <1>2 DEF TypeOK, SeatsTyped
  <2> QED BY <1>2, <2>1, <2>2
<1>3. CASE Goes(c, kind, "consult", "none") /\ UNCHANGED <<runtime, pass>>
  <2>1. MovesTo(c, [kind |-> kind, at |-> "consult", dec |-> "none", ans |-> Pending])
    BY <1>3, GoesMoves DEF Waits
  <2>2. SeatsTyped'
    BY <1>3 DEF TypeOK, SeatsTyped
  <2> QED BY <2>1, <2>2
<1> QED BY <1>1, <1>2, <1>3 DEF Decides

QueuesTyped == queue \in [Nodes -> Seq(Calls)] /\ \A n \in Nodes : QueueOK(n)

\* The queue of a node is in order when what it holds waits, and nothing else does.
LEMMA QueueKept ==
  ASSUME NEW n \in Nodes, queue[n] \in Seq(Calls), QueueOK(n), queue'[n] = queue[n],
         \A d \in Calls : NodeOf[d] = n => (op'[d].at = "queued" <=> op[d].at = "queued")
  PROVE  QueueOK(n)'
<1> DEFINE q == queue[n]
<1>1. \A i \in 1 .. Len(q) : q[i] \in Calls
  OBVIOUS
<1>2. \A i \in 1 .. Len(q) : NodeOf[q[i]] = n /\ op'[q[i]].at = "queued"
  BY <1>1 DEF QueueOK
<1>3. \A i, j \in 1 .. Len(q) : q[i] = q[j] => i = j
  BY DEF QueueOK
<1>4. \A d \in Calls : NodeOf[d] = n /\ op'[d].at = "queued" => \E i \in 1 .. Len(q) : q[i] = d
  BY DEF QueueOK
<1> QED BY <1>2, <1>3, <1>4 DEF QueueOK

\* A call off the queue moves, and the queues stay.
LEMMA MovesTyped ==
  ASSUME TypeOK, NEW c \in Calls, NEW v, MovesTo(c, v),
         op[c].at # "queued", queue' = queue
  PROVE  op' \in [Calls -> Ops] /\ QueuesTyped'
<1>1. op' \in [Calls -> Ops]
  BY DEF TypeOK, MovesTo
<1>2. \A d \in Calls : op'[d].at = "queued" <=> op[d].at = "queued"
  BY DEF TypeOK, MovesTo
<1>3. \A n \in Nodes : queue[n] \in Seq(Calls) /\ QueueOK(n) /\ queue'[n] = queue[n]
  BY DEF TypeOK
<1>4. \A n \in Nodes : QueueOK(n)'
  BY <1>2, <1>3, QueueKept
<1> QED BY <1>1, <1>4 DEF TypeOK, QueuesTyped

\* The first waiter gets the lock and leaves the queue.
LEMMA EntersTyped ==
  ASSUME TypeOK, NEW c \in Calls, NEW v, MovesTo(c, v), op[c].at = "queued", Granted(c)
  PROVE  op' \in [Calls -> Ops] /\ QueuesTyped'
<1> DEFINE m == NodeOf[c]
           q == queue[m]
           t == queue'[m]
<1>1. m \in Nodes /\ q \in Seq(Calls) /\ q # <<>> /\ Head(q) = c
  BY NodeTyped DEF TypeOK, Granted, First
<1>2. op' \in [Calls -> Ops]
  BY DEF TypeOK, MovesTo
<1>3. /\ op'[c].at # "queued"
      /\ \A d \in Calls : d # c => op'[d] = op[d]
  BY DEF TypeOK, MovesTo
<1>4. queue' \in [Nodes -> Seq(Calls)] /\ t = Tail(q)
  BY <1>1 DEF Granted, TypeOK
<1>5. ASSUME NEW n \in Nodes, n # m PROVE QueueOK(n)'
  <2>1. queue'[n] = queue[n] /\ queue[n] \in Seq(Calls) /\ QueueOK(n)
    BY <1>5 DEF Granted, TypeOK
  <2>2. \A d \in Calls : NodeOf[d] = n => (op'[d].at = "queued" <=> op[d].at = "queued")
    BY <1>3, <1>5
  <2> QED BY <2>1, <2>2, QueueKept
<1>6. QueueOK(m)'
  <2>1. Len(q) \in Nat /\ Len(q) > 0 /\ Len(t) = Len(q) - 1 /\ q[1] = c
    BY <1>1, <1>4
  <2>2. \A i \in 1 .. Len(t) : t[i] = q[i + 1] /\ i + 1 \in 1 .. Len(q) /\ i + 1 # 1
    BY <1>1, <1>4, <2>1
  <2>3. \A i \in 1 .. Len(q) : q[i] \in Calls
    BY <1>1
  <2>4. QueueOK(m)
    BY <1>1 DEF TypeOK
  <2>5. \A i \in 1 .. Len(q) : NodeOf[q[i]] = m /\ op[q[i]].at = "queued"
    BY <2>4 DEF QueueOK
  <2>6. \A i, j \in 1 .. Len(q) : q[i] = q[j] => i = j
    BY <2>4 DEF QueueOK
  <2>7. \A d \in Calls : NodeOf[d] = m /\ op[d].at = "queued" => \E i \in 1 .. Len(q) : q[i] = d
    BY <2>4 DEF QueueOK
  <2>8. QueueOK(m)' <=> /\ \A i \in 1 .. Len(t) : NodeOf[t[i]] = m /\ op'[t[i]].at = "queued"
                        /\ \A i, j \in 1 .. Len(t) : t[i] = t[j] => i = j
                        /\ \A d \in Calls : NodeOf[d] = m /\ op'[d].at = "queued"
                                               => \E i \in 1 .. Len(t) : t[i] = d
    BY DEF QueueOK
  <2> HIDE DEF t, q, m
  <2>9. ASSUME NEW i \in 1 .. Len(t) PROVE NodeOf[t[i]] = m /\ op'[t[i]].at = "queued"
    <3>1. t[i] = q[i + 1] /\ i + 1 \in 1 .. Len(q) /\ i + 1 # 1 /\ 1 \in 1 .. Len(q)
      BY <2>1, <2>2
    <3>2. t[i] # c
      BY <3>1, <2>1, <2>6
    <3> QED BY <3>1, <3>2, <2>3, <2>5, <1>3
  <2>10. ASSUME NEW i \in 1 .. Len(t), NEW j \in 1 .. Len(t), t[i] = t[j] PROVE i = j
    <3>1. i + 1 = j + 1
      BY <2>2, <2>6, <2>10
    <3> QED BY <3>1, <2>1
  <2>11. ASSUME NEW d \in Calls, NodeOf[d] = m, op'[d].at = "queued"
         PROVE  \E i \in 1 .. Len(t) : t[i] = d
    <3>1. d # c /\ op[d].at = "queued"
      BY <2>11, <1>3
    <3>2. PICK i \in 1 .. Len(q) : q[i] = d
      BY <2>11, <3>1, <2>7
    <3>3. i - 1 \in 1 .. Len(t) /\ (i - 1) + 1 = i
      BY <3>1, <3>2, <2>1
    <3>4. t[i - 1] = d
      BY <3>2, <3>3, <2>2
    <3> QED BY <3>3, <3>4
  <2>12. \A i, j \in 1 .. Len(t) : t[i] = t[j] => i = j
    BY <2>10
  <2> QED BY <2>8, <2>9, <2>11, <2>12
<1>7. \A n \in Nodes : QueueOK(n)'
  BY <1>5, <1>6
<1> QED BY <1>2, <1>4, <1>7 DEF QueuesTyped

\* What a request that reached the registry did to the binding.
LEMMA AppliedFacts ==
  ASSUME TypeOK, NEW r \in Writes, NEW ans \in Answers, Applied(r, ans)
  PROVE  /\ registry' \in Nodes \cup {None} /\ designation' \in Nodes \cup {None}
         /\ \/ registry' = registry
            \/ registry = None /\ registry' = r.node
            \/ r.at = "delete" /\ registry = r.node /\ registry' = None
         /\ r.at = "establish" /\ ans = r.node => registry' = r.node
<1>0. registry \in Nodes \cup {None} /\ designation \in Nodes \cup {None} /\ r.node \in Nodes
      /\ r.node # None /\ r.node # Refused
  BY PlacementAssumption DEF TypeOK, Writes
<1>1. CASE r.at = "designate" /\ Designates(ans)
  BY <1>0, <1>1 DEF Designates
<1>2. CASE r.at = "establish" /\ Establishes(r.node, r.dec, ans)
  BY <1>0, <1>2 DEF Establishes, registryVars
<1>3. CASE r.at = "delete" /\ Deletes(r.node, ans)
  BY <1>0, <1>3 DEF Deletes, registryVars
<1> QED BY <1>1, <1>2, <1>3 DEF Applied

LEMMA RequestTyped ==
  ASSUME TypeOK, NEW c \in Calls, op[c].at \in {"designate", "establish", "delete"}
  PROVE  RequestOf(c) \in Writes
<1>1. op[c].dec \in {"none", "enforce", "supersede"} /\ NodeOf[c] \in Nodes
  BY NodeTyped DEF TypeOK, Ops
<1> QED BY <1>1 DEF RequestOf, Writes

LEMMA UnservedTyped ==
  ASSUME TypeOK, NEW c \in Calls
  PROVE  Unserved(c) \subseteq Writes
BY RequestTyped DEF Unserved

LEMMA RestartedTyped ==
  ASSUME TypeOK, NEW n \in Nodes, Restarted(n)
  PROVE  /\ op' \in [Calls -> Ops] /\ QueuesTyped' /\ late' \subseteq Writes
         /\ starting' \subseteq Nodes /\ rotating' \subseteq Nodes
         /\ memo' \in [Nodes -> Nodes \cup {None}] /\ pass' \in [Nodes -> Passes]
<1>1. Idle \in Ops /\ Repairing \in Ops
  BY DEF Idle, Repairing, Ops, Kinds, Waits, Answers
<1>2. /\ op' \in [Calls -> Ops]
      /\ \A c \in Calls : NodeOf[c] # n => op'[c] = op[c]
      /\ \A c \in Calls : NodeOf[c] = n => op'[c].at # "queued"
  <2>1. \A c \in Calls : op'[c] = IF NodeOf[c] # n THEN op[c]
              ELSE IF "repair" \in KindsOf[c] /\ runtime[n] /\ ledger'[n] # "active"
                     THEN Repairing ELSE Idle
    BY DEF Restarted
  <2>2. DOMAIN op' = Calls /\ op' = [c \in Calls |-> op'[c]]
    BY DEF Restarted
  <2>3. \A c \in Calls : op'[c] \in Ops
    BY <1>1, <2>1 DEF TypeOK
  <2>4. \A c \in Calls : NodeOf[c] = n => op'[c].at # "queued"
    BY <2>1 DEF Idle, Repairing
  <2> QED BY <2>1, <2>2, <2>3, <2>4
<1>3. queue' \in [Nodes -> Seq(Calls)] /\ queue'[n] = <<>>
  BY DEF TypeOK, Restarted
<1>4. QueueOK(n)'
  BY <1>2, <1>3 DEF QueueOK
<1>5. ASSUME NEW m \in Nodes, m # n PROVE QueueOK(m)'
  <2>1. queue'[m] = queue[m] /\ queue[m] \in Seq(Calls) /\ QueueOK(m)
    BY <1>5 DEF TypeOK, Restarted
  <2> QED BY <2>1, <1>2, <1>5, QueueKept
<1>6. QueuesTyped'
  BY <1>3, <1>4, <1>5 DEF QueuesTyped
<1>7. late' \subseteq Writes
  <2>1. UNION {Unserved(c) : c \in {d \in Calls : NodeOf[d] = n}} \subseteq Writes
    BY UnservedTyped
  <2> QED BY <2>1 DEF Restarted, Abandoned, TypeOK
<1>8. starting' \subseteq Nodes /\ rotating' \subseteq Nodes /\ memo' \in [Nodes -> Nodes \cup {None}]
  BY DEF TypeOK, Restarted
<1>9. pass' \in [Nodes -> Passes]
  BY DEF TypeOK, Restarted, IdlePass, Passes
<1> QED BY <1>2, <1>6, <1>7, <1>8, <1>9

LEMMA FaultTyped == ASSUME TypeOK, NEW h, Fault(h) PROVE faults' \in 0 .. MaxFaults
BY PlacementAssumption DEF Fault, TypeOK

LEMMA MintsTyped ==
  ASSUME TypeOK, NEW c \in Calls, Mints(c)
  PROVE  selection' \in [Nodes -> BOOLEAN]
<1>1. PICK s \in BOOLEAN : selection' = [selection EXCEPT ![NodeOf[c]] = s]
  BY NodeTyped DEF Mints, TypeOK
<1> QED BY <1>1 DEF TypeOK

\* Every step of a call keeps the types.
LEMMA AdvancesTyped ==
  ASSUME TypeOK, NEW c \in Calls, Advances(c)
  PROVE  TypeOK'
<1> USE DEF registryVars, seatVars, fenceVars
<1>0. NodeOf[c] \in Nodes
  BY NodeTyped
<1>1. CASE SummonEnters(c)
  <2>1. PICK v : MovesTo(c, v)
    BY <1>1, DecidesMoves DEF SummonEnters, Kinds
  <2>2. op' \in [Calls -> Ops] /\ QueuesTyped'
    BY <1>1, <2>1, EntersTyped DEF SummonEnters
  <2>3. SeatsTyped'
    BY <1>1, DecidesMoves DEF SummonEnters, Kinds
  <2> QED BY <1>1, <2>2, <2>3 DEF SummonEnters, TypeOK, QueuesTyped, SeatsTyped
<1>2. CASE RetireRefused(c)
  <2>1. op' \in [Calls -> Ops] /\ QueuesTyped'
    BY <1>2, EndsMoves, EntersTyped DEF RetireRefused
  <2> QED BY <1>2, <2>1 DEF RetireRefused, TypeOK, QueuesTyped
<1>3. CASE RetireEnters(c)
  <2>1. PICK v : MovesTo(c, v)
    BY <1>3, GoesMoves DEF RetireEnters, Kinds, Waits
  <2>2. op' \in [Calls -> Ops] /\ QueuesTyped'
    BY <1>3, <2>1, EntersTyped DEF RetireEnters
  <2>3. /\ ledger' \in [Nodes -> {"none", "active", "retired"}]
        /\ selection' \in [Nodes -> BOOLEAN] /\ outrun' \subseteq Nodes
    BY <1>3 DEF RetireEnters, Fenced, TypeOK
  <2> QED BY <1>3, <2>2, <2>3 DEF RetireEnters, TypeOK, QueuesTyped
<1>4. CASE Serve(c)
  <2>1. PICK ans \in Answers :
           /\ \/ op[c].at = "consult" /\ ans = registry /\ UNCHANGED registryVars
              \/ Applied(RequestOf(c), ans)
           /\ op' = [op EXCEPT ![c].ans = ans]
    BY <1>4 DEF Serve
  <2>2. op[c].at \in {"consult", "designate", "establish", "delete"}
    BY <2>1 DEF Applied, RequestOf
  <2>3. registry' \in Nodes \cup {None} /\ designation' \in Nodes \cup {None}
    <3>1. CASE op[c].at = "consult"
      <4>1. UNCHANGED registryVars
        BY <2>1, <3>1 DEF Applied, RequestOf
      <4> QED BY <4>1 DEF TypeOK
    <3>2. CASE op[c].at # "consult"
      BY <2>1, <2>2, <3>2, RequestTyped, AppliedFacts
    <3> QED BY <3>1, <3>2
  <2>4. op' = [op EXCEPT ![c] = [op[c] EXCEPT !.ans = ans]]
    BY <2>1 DEF TypeOK
  <2>5. MovesTo(c, [op[c] EXCEPT !.ans = ans])
    BY <2>2, <2>4 DEF MovesTo, TypeOK, Ops
  <2>6. op' \in [Calls -> Ops] /\ QueuesTyped'
    BY <1>4, <2>2, <2>5, MovesTyped DEF Serve
  <2> QED BY <1>4, <2>3, <2>6 DEF Serve, TypeOK, QueuesTyped
<1>5. CASE UseLocal(c)
  <2>1. op' \in [Calls -> Ops] /\ QueuesTyped'
    BY <1>5, EndsMoves, MovesTyped DEF UseLocal
  <2>2. SeatsTyped'
    BY <1>0, <1>5, GoneTyped DEF UseLocal, TypeOK, SeatsTyped
  <2>3. selection' \in [Nodes -> BOOLEAN]
    BY <1>5, MintsTyped DEF UseLocal
  <2> QED BY <1>5, <2>1, <2>2, <2>3 DEF UseLocal, TypeOK, QueuesTyped, SeatsTyped
<1>6. CASE UseOwn(c)
  <2>1. op' \in [Calls -> Ops] /\ QueuesTyped'
    BY <1>6, EndsMoves, MovesTyped DEF UseOwn, Own, Refuses
  <2>2. SeatsTyped'
    BY <1>6, RefusesTyped DEF UseOwn, TypeOK, SeatsTyped
  <2>3. selection' \in [Nodes -> BOOLEAN]
    BY <1>6, MintsTyped DEF UseOwn, TypeOK
  <2>4. ledger' \in [Nodes -> {"none", "active", "retired"}]
    BY <1>6 DEF UseOwn, TypeOK
  <2> QED BY <1>6, <2>1, <2>2, <2>3, <2>4 DEF UseOwn, TypeOK, QueuesTyped, SeatsTyped
<1>7. CASE UseUnbound(c) \/ UseDesignation(c)
  <2>1. PICK v : MovesTo(c, v)
    <3>1. op[c].kind \in {"none", "heal"} \cup Kinds
      BY DEF TypeOK, Ops
    <3>2. CASE UseUnbound(c)
      BY <3>1, <3>2, GoesMoves DEF UseUnbound, Kinds, Waits, Summons
    <3>3. CASE UseDesignation(c) /\ op[c].kind # "none"
      BY <3>1, <3>3, GoesMoves DEF UseDesignation, Waits
    <3>4. CASE UseDesignation(c) /\ op[c].kind = "none"
      <4>1. PICK dec \in {"none", "enforce"} : Goes(c, "none", "establish", dec)
        BY <3>4 DEF UseDesignation
      <4>2. MovesTo(c, [kind |-> "none", at |-> "establish", dec |-> dec, ans |-> Pending])
        BY <4>1 DEF Goes, MovesTo, Ops, Waits
      <4> QED BY <4>2
    <3> QED BY <1>7, <3>2, <3>3, <3>4
  <2>2. op' \in [Calls -> Ops] /\ QueuesTyped'
    BY <1>7, <2>1, MovesTyped DEF UseUnbound, UseDesignation
  <2> QED BY <1>7, <2>2 DEF UseUnbound, UseDesignation, TypeOK, QueuesTyped
<1>8. CASE UseForeign(c)
  <2>1. MovesTo(c, Idle) /\ SeatsTyped'
    BY <1>8, RefusesTyped DEF UseForeign
  <2>2. op' \in [Calls -> Ops] /\ QueuesTyped'
    BY <1>8, <2>1, MovesTyped DEF UseForeign
  <2> QED BY <1>8, <2>1, <2>2 DEF UseForeign, TypeOK, QueuesTyped, SeatsTyped
<1>9. CASE UseRepair(c)
  <2>1. PICK v : MovesTo(c, v)
    BY <1>9, DecidesMoves DEF UseRepair
  <2>2. op' \in [Calls -> Ops] /\ QueuesTyped'
    BY <1>9, <2>1, MovesTyped DEF UseRepair
  <2>3. SeatsTyped'
    BY <1>9, DecidesMoves DEF UseRepair
  <2> QED BY <1>9, <2>2, <2>3 DEF UseRepair, TypeOK, QueuesTyped, SeatsTyped
<1>10. CASE UseDelete(c)
  <2>1. op' \in [Calls -> Ops] /\ QueuesTyped'
    BY <1>10, EndsMoves, MovesTyped DEF UseDelete
  <2> QED BY <1>10, <2>1 DEF UseDelete, TypeOK, QueuesTyped
<1> QED BY <1>1, <1>2, <1>3, <1>4, <1>5, <1>6, <1>7, <1>8, <1>9, <1>10 DEF Advances, Enter, Uses

LEMMA RequestsTyped ==
  ASSUME TypeOK, NEW c \in Calls, NEW kind \in Kinds, Request(c, kind)
  PROVE  TypeOK'
<1> DEFINE m == NodeOf[c]
           q == queue[m]
           t == queue'[m]
<1>1. m \in Nodes /\ q \in Seq(Calls)
  BY NodeTyped DEF TypeOK
<1>2. /\ op' \in [Calls -> Ops]
      /\ op'[c].at = "queued" /\ op[c].at = "idle"
      /\ \A d \in Calls : d # c => op'[d] = op[d]
  BY DEF TypeOK, Request, Ops, Waits
<1>3. queue' \in [Nodes -> Seq(Calls)] /\ t = Append(q, c)
  BY <1>1 DEF Request, TypeOK
<1>4. ASSUME NEW n \in Nodes, n # m PROVE QueueOK(n)'
  <2>1. queue'[n] = queue[n] /\ queue[n] \in Seq(Calls) /\ QueueOK(n)
    BY <1>4 DEF Request, TypeOK
  <2>2. \A d \in Calls : NodeOf[d] = n => (op'[d].at = "queued" <=> op[d].at = "queued")
    BY <1>2, <1>4
  <2> QED BY <2>1, <2>2, QueueKept
<1>5. QueueOK(m)'
  <2>1. Len(q) \in Nat /\ Len(t) = Len(q) + 1 /\ t[Len(t)] = c
    BY <1>1, <1>3
  <2>2. \A i \in 1 .. Len(q) : t[i] = q[i] /\ q[i] \in Calls
    BY <1>1, <1>3
  <2>4. QueueOK(m)
    BY <1>1 DEF TypeOK
  <2>5. \A i \in 1 .. Len(q) : NodeOf[q[i]] = m /\ op[q[i]].at = "queued"
    BY <2>4 DEF QueueOK
  <2>6. \A i, j \in 1 .. Len(q) : q[i] = q[j] => i = j
    BY <2>4 DEF QueueOK
  <2>7. \A d \in Calls : NodeOf[d] = m /\ op[d].at = "queued" => \E i \in 1 .. Len(q) : q[i] = d
    BY <2>4 DEF QueueOK
  <2>8. QueueOK(m)' <=> /\ \A i \in 1 .. Len(t) : NodeOf[t[i]] = m /\ op'[t[i]].at = "queued"
                        /\ \A i, j \in 1 .. Len(t) : t[i] = t[j] => i = j
                        /\ \A d \in Calls : NodeOf[d] = m /\ op'[d].at = "queued"
                                               => \E i \in 1 .. Len(t) : t[i] = d
    BY DEF QueueOK
  <2>c. NodeOf[c] = m
    OBVIOUS
  <2> HIDE DEF t, q, m
  <2>9. ASSUME NEW i \in 1 .. Len(q) PROVE q[i] # c
    BY <2>2, <2>5, <1>2
  <2>10. ASSUME NEW i \in 1 .. Len(t) PROVE NodeOf[t[i]] = m /\ op'[t[i]].at = "queued"
    <3>1. CASE i = Len(t)
      BY <3>1, <2>1, <2>c, <1>2
    <3>2. CASE i # Len(t)
      <4>1. i \in 1 .. Len(q)
        BY <3>2, <2>1
      <4> QED BY <4>1, <2>2, <2>5, <2>9, <1>2
    <3> QED BY <3>1, <3>2
  <2>11. ASSUME NEW i \in 1 .. Len(t), NEW j \in 1 .. Len(t), t[i] = t[j] PROVE i = j
    <3>1. i # Len(t) => i \in 1 .. Len(q)
      BY <2>1
    <3>2. j # Len(t) => j \in 1 .. Len(q)
      BY <2>1
    <3> QED BY <3>1, <3>2, <2>1, <2>2, <2>6, <2>9, <2>11
  <2>12. ASSUME NEW d \in Calls, NodeOf[d] = m, op'[d].at = "queued"
         PROVE  \E i \in 1 .. Len(t) : t[i] = d
    <3>1. CASE d = c
      BY <3>1, <2>1
    <3>2. CASE d # c
      <4>1. PICK i \in 1 .. Len(q) : q[i] = d
        BY <2>12, <3>2, <2>7, <1>2
      <4>2. i \in 1 .. Len(t)
        BY <2>1
      <4> QED BY <4>1, <4>2, <2>2
    <3> QED BY <3>1, <3>2
  <2>13. \A i, j \in 1 .. Len(t) : t[i] = t[j] => i = j
    BY <2>11
  <2> QED BY <2>8, <2>10, <2>12, <2>13
<1>6. \A n \in Nodes : QueueOK(n)'
  BY <1>4, <1>5
<1> QED BY <1>2, <1>3, <1>6 DEF Request, registryVars, seatVars, TypeOK

LEMMA CallStepTyped ==
  ASSUME TypeOK, NEW c \in Calls, CallStep(c)
  PROVE  TypeOK'
<1>0. NodeOf[c] \in Nodes
  BY NodeTyped
<1>1. CASE GivesUp(c)
  <2>1. MovesTo(c, Idle) /\ SeatsTyped'
    BY <1>1, RefusesTyped DEF GivesUp
  <2>2. op' \in [Calls -> Ops] /\ QueuesTyped'
    BY <1>1, <2>1, MovesTyped DEF GivesUp
  <2>3. late' \subseteq Writes
    BY <1>1, UnservedTyped DEF GivesUp, Abandoned, TypeOK
  <2>4. faults' \in 0 .. MaxFaults
    BY <1>1, FaultTyped DEF GivesUp
  <2> QED BY <1>1, <2>1, <2>2, <2>3, <2>4 DEF GivesUp, registryVars, fenceVars, TypeOK, QueuesTyped, SeatsTyped
<1>2. CASE DiesUnfenced(c)
  <2>1. Restarted(NodeOf[c]) /\ Fault("crash")
    BY <1>2 DEF DiesUnfenced
  <2>2. ledger' \in [Nodes -> {"none", "active", "retired"}]
    BY <1>2 DEF DiesUnfenced, TypeOK
  <2> QED BY <1>0, <1>2, <2>1, <2>2, FaultTyped, RestartedTyped
          DEF DiesUnfenced, registryVars, fenceVars, TypeOK, QueuesTyped
<1> QED BY <1>1, <1>2, RequestsTyped, AdvancesTyped DEF CallStep

LEMMA NodeStepTyped ==
  ASSUME TypeOK, NEW n \in Nodes, NodeStep(n)
  PROVE  TypeOK'
<1> USE DEF registryVars, seatVars, fenceVars
<1>q. ASSUME op' = op, queue' = queue PROVE QueuesTyped'
  BY <1>q, QueueKept DEF TypeOK, QueuesTyped
<1>1. CASE StartBegins(n)
  BY <1>1, <1>q DEF StartBegins, TypeOK, QueuesTyped
<1>2. CASE StartEnds(n)
  BY <1>2, <1>q DEF StartEnds, TypeOK, QueuesTyped
<1>3. CASE RuntimeEnds(n)
  BY <1>3, <1>q, GoneTyped DEF RuntimeEnds, TypeOK, QueuesTyped, SeatsTyped
<1>4. CASE PassBegins(n)
  <2>1. SeatsTyped'
    <3>1. CASE RuntimeGone(n)
      BY <3>1, GoneTyped
    <3>2. CASE UNCHANGED <<runtime, pass>>
      BY <3>2 DEF TypeOK, SeatsTyped
    <3>3. CASE UNCHANGED runtime /\ pass' = [pass EXCEPT ![n] = [at |-> "asked", ans |-> Pending, seat |-> TRUE]]
      <4>1. [at |-> "asked", ans |-> Pending, seat |-> TRUE] \in Passes
        BY DEF Passes
      <4> QED BY <3>3, <4>1 DEF TypeOK, SeatsTyped
    <3> QED BY <1>4, <3>1, <3>2, <3>3 DEF PassBegins
  <2>2. memo' \in [Nodes -> Nodes \cup {None}]
    BY <1>4 DEF PassBegins, TypeOK
  <2> QED BY <1>4, <1>q, <2>1, <2>2 DEF PassBegins, TypeOK, QueuesTyped, SeatsTyped
<1>5. CASE PassAnswered(n)
  <2>1. \/ pass' = [pass EXCEPT ![n] = IdlePass]
        \/ /\ registry \in Nodes
           /\ pass' = [pass EXCEPT ![n] = [pass[n] EXCEPT !.at = "answered", !.ans = registry]]
    BY <1>5 DEF PassAnswered, TypeOK
  <2>2. pass[n] \in Passes /\ IdlePass \in Passes
    BY DEF TypeOK, IdlePass, Passes
  <2>3. registry \in Nodes => [pass[n] EXCEPT !.at = "answered", !.ans = registry] \in Passes
    BY <2>2 DEF Passes
  <2>4. pass' \in [Nodes -> Passes]
    BY <2>1, <2>2, <2>3 DEF TypeOK
  <2> QED BY <1>5, <1>q, <2>4 DEF PassAnswered, TypeOK, QueuesTyped
<1>6. CASE PassEnds(n)
  <2>1. pass' \in [Nodes -> Passes]
    BY <1>6 DEF PassEnds, TypeOK, IdlePass, Passes
  <2>2. memo' \in [Nodes -> Nodes \cup {None}] /\ runtime' \in [Nodes -> BOOLEAN]
    BY <1>6 DEF PassEnds, TypeOK, Passes
  <2> QED BY <1>6, <1>q, <2>1, <2>2 DEF PassEnds, TypeOK, QueuesTyped
<1>7. CASE PassGivesUp(n)
  <2>1. pass' \in [Nodes -> Passes]
    BY <1>7 DEF PassGivesUp, TypeOK, IdlePass, Passes
  <2> QED BY <1>7, <1>q, <2>1, FaultTyped DEF PassGivesUp, TypeOK, QueuesTyped
<1>8. CASE TeardownFails(n)
  <2>1. pass' \in [Nodes -> Passes]
    BY <1>8 DEF TeardownFails, TypeOK, IdlePass, Passes
  <2>2. memo' \in [Nodes -> Nodes \cup {None}]
    BY <1>8 DEF TeardownFails, TypeOK, Passes
  <2> QED BY <1>8, <1>q, <2>1, <2>2, FaultTyped DEF TeardownFails, TypeOK, QueuesTyped
<1>9. CASE Restart(n)
  BY <1>9, RestartedTyped, FaultTyped DEF Restart, TypeOK, QueuesTyped
<1>10. CASE RotationBegins(n)
  BY <1>10, <1>q, GoneTyped DEF RotationBegins, TypeOK, QueuesTyped, SeatsTyped
<1>11. CASE RotationEnds(n)
  <2>1. selection' \in [Nodes -> BOOLEAN] /\ rotating' \subseteq Nodes /\ outrun' \subseteq Nodes
    BY <1>11 DEF RotationEnds, TypeOK
  <2> QED BY <1>11, <1>q, <2>1 DEF RotationEnds, TypeOK, QueuesTyped
<1> QED BY <1>1, <1>2, <1>3, <1>4, <1>5, <1>6, <1>7, <1>8, <1>9, <1>10, <1>11
        DEF NodeStep, Teardown, Rotates

LEMMA LateTyped == ASSUME TypeOK, LateRequest PROVE TypeOK'
<1>1. PICK r \in late, ans \in Answers : Applied(r, ans)
  BY DEF LateRequest
<1>2. registry' \in Nodes \cup {None} /\ designation' \in Nodes \cup {None}
  BY <1>1, AppliedFacts DEF TypeOK
<1>3. QueuesTyped'
  BY QueueKept DEF LateRequest, TypeOK, QueuesTyped
<1>4. late' \subseteq Writes
  BY DEF LateRequest, TypeOK
<1> QED BY <1>2, <1>3, <1>4 DEF LateRequest, seatVars, TypeOK, QueuesTyped

LEMMA StepTyped == TypeOK /\ [Next]_vars => TypeOK'
<1> SUFFICES ASSUME TypeOK, [Next]_vars PROVE TypeOK'
  OBVIOUS
<1>1. CASE UNCHANGED vars
  <2>1. QueuesTyped'
    BY <1>1, QueueKept DEF vars, TypeOK, QueuesTyped
  <2> QED BY <1>1, <2>1 DEF vars, TypeOK, QueuesTyped
<1>2. CASE Next
  BY <1>2, CallStepTyped, NodeStepTyped, LateTyped DEF Next
<1> QED BY <1>1, <1>2

LEMMA InitTyped == Init => TypeOK
<1> SUFFICES ASSUME Init PROVE TypeOK
  OBVIOUS
<1>1. Idle \in Ops /\ IdlePass \in Passes
  BY DEF Idle, IdlePass, Ops, Passes, Waits, Answers
<1>2. \A n \in Nodes : QueueOK(n)
  <2>1. \A n \in Nodes : queue[n] = <<>> /\ Len(queue[n]) = 0
    BY DEF Init
  <2>2. \A c \in Calls : op[c].at = "idle"
    BY DEF Init, Idle
  <2>0. 1 .. 0 = {}
    OBVIOUS
  <2>3. \A n \in Nodes : 1 .. Len(queue[n]) = {}
    BY <2>0, <2>1, Zenon
  <2>4. \A c \in Calls : op[c].at # "queued"
    BY <2>2
  <2> QED BY <2>3, <2>4, Zenon DEF QueueOK
<1>3. faults \in 0 .. MaxFaults
  BY PlacementAssumption DEF Init
<1> QED BY <1>1, <1>2, <1>3 DEF Init, TypeOK

\* The rows and the calls keep their shape, and a node's queue holds exactly the
\* calls that wait for its lock (authority-lock.ts).
THEOREM Typing == Spec => []TypeOK
BY InitTyped, StepTyped, PTL DEF Spec

-------------------------------------------------------------------------------
(* The inductive invariant                                                    *)

\* A node learnt from the registry that it is the home: it still is, or it gave
\* the scope up meanwhile.
OwnAnswersHold ==
  \A c \in Calls :
    op[c].at \in {"consult", "establish"} /\ op[c].ans = NodeOf[c]
      => registry = NodeOf[c] \/ ledger[NodeOf[c]] = "retired"

Deleting(n) == \/ \E c \in Calls : NodeOf[c] = n /\ op[c].at = "delete"
               \/ \E r \in late : r.at = "delete" /\ r.node = n

\* No session is selected here, or a rotation has selected one since the fence fell.
FencedOrOutrun(n) == selection[n] => n \in outrun

\* A delete on its way, also a late one, comes from a node that is fenced.
DeletersAreFenced ==
  \A n \in Nodes : Deleting(n) => ledger[n] = "retired" /\ FencedOrOutrun(n)

\* A summon that acts on an active row holds the lock: no retirement passed it.
LocalSummonsHold ==
  \A c \in Calls : op[c].at = "local" /\ op[c].kind \in Summons => ledger[NodeOf[c]] = "active"

Safe == /\ ActiveIsHome /\ FencedBeforeReleased
        /\ OwnAnswersHold /\ DeletersAreFenced /\ LocalSummonsHold

IInv == TypeOK /\ Safe

\* What a call becomes that neither learns anything nor starts to delete.
Harmless(c) == /\ op'[c].ans = Pending /\ op'[c].at # "delete"
               /\ op'[c].at = "local" /\ op'[c].kind \in Summons => ledger[NodeOf[c]] = "active"

\* A step that leaves the rows and the fence alone.
LEMMA QuietStep ==
  ASSUME IInv, UNCHANGED <<registry, ledger, selection, outrun>>,
         \A c \in Calls : op'[c] = op[c] \/ Harmless(c),
         \A r \in late' : r.at = "delete" => Deleting(r.node)
  PROVE  Safe'
<1>1. ActiveIsHome' /\ FencedBeforeReleased'
  BY DEF IInv, Safe, ActiveIsHome, FencedBeforeReleased
<1>2. OwnAnswersHold'
  <2>1. ASSUME NEW c \in Calls, op'[c].at \in {"consult", "establish"}, op'[c].ans = NodeOf[c]
        PROVE  registry = NodeOf[c] \/ ledger[NodeOf[c]] = "retired"
    <3>1. NodeOf[c] # Pending
      BY NodeTyped, PlacementAssumption
    <3>2. op'[c] = op[c]
      BY <2>1, <3>1 DEF Harmless
    <3> QED BY <2>1, <3>2 DEF IInv, Safe, OwnAnswersHold
  <2> QED BY <2>1 DEF OwnAnswersHold
<1>3. DeletersAreFenced'
  <2>1. ASSUME NEW n \in Nodes, Deleting(n)' PROVE Deleting(n)
    <3>1. CASE \E c \in Calls : NodeOf[c] = n /\ op'[c].at = "delete"
      BY <3>1 DEF Harmless, Deleting
    <3>2. CASE \E r \in late' : r.at = "delete" /\ r.node = n
      BY <3>2
    <3> QED BY <2>1, <3>1, <3>2 DEF Deleting
  <2> QED BY <2>1 DEF IInv, Safe, DeletersAreFenced, FencedOrOutrun
<1>4. LocalSummonsHold'
  BY DEF IInv, Safe, LocalSummonsHold, Harmless
<1> QED BY <1>1, <1>2, <1>3, <1>4 DEF Safe

\* One call moves, off the delete and without an answer.
LEMMA QuietMove ==
  ASSUME IInv, UNCHANGED <<registry, ledger, selection, outrun, late>>,
         NEW c \in Calls, NEW v, MovesTo(c, v), v.ans = Pending, v.at # "delete",
         v.at = "local" => ledger[NodeOf[c]] = "active"
  PROVE  Safe'
<1>1. \A d \in Calls : op'[d] = op[d] \/ Harmless(d)
  BY DEF MovesTo, Harmless, IInv, TypeOK
<1>2. \A r \in late' : r.at = "delete" => Deleting(r.node)
  BY DEF Deleting
<1> QED BY <1>1, <1>2, QuietStep

LEMMA UnservedDeletes ==
  ASSUME IInv, NEW c \in Calls
  PROVE  \A r \in Unserved(c) : r.at = "delete" => Deleting(r.node)
BY DEF Unserved, RequestOf, Deleting

\* What the registry may do to the binding while the invariant holds.
LEMMA AppliedSafe ==
  ASSUME IInv, NEW r \in Writes, NEW ans \in Answers, Applied(r, ans),
         r.at = "delete" => Deleting(r.node),
         UNCHANGED <<ledger, selection, outrun>>
  PROVE  /\ ActiveIsHome' /\ FencedBeforeReleased'
         /\ \A n \in Nodes : registry = n => registry' = n \/ ledger[n] = "retired"
<1>1. \/ registry' = registry
      \/ registry = None /\ registry' = r.node
      \/ r.at = "delete" /\ registry = r.node /\ registry' = None
  BY AppliedFacts DEF IInv
<1>2. r.node \in Nodes /\ \A n \in Nodes : n # None
  BY PlacementAssumption DEF Writes
<1>3. CASE registry' = registry
  BY <1>3 DEF IInv, Safe, ActiveIsHome, FencedBeforeReleased
<1>4. CASE registry = None /\ registry' = r.node
  <2>1. \A n \in Nodes : ledger[n] # "active"
    BY <1>2, <1>4 DEF IInv, Safe, ActiveIsHome
  <2>2. \A n \in Nodes : ledger[n] = "retired" => FencedOrOutrun(n)
    BY <1>2, <1>4 DEF IInv, Safe, FencedBeforeReleased, FencedOrOutrun
  <2> QED BY <1>2, <1>4, <2>1, <2>2 DEF ActiveIsHome, FencedBeforeReleased, FencedOrOutrun
<1>5. CASE r.at = "delete" /\ registry = r.node /\ registry' = None
  <2>1. ledger[r.node] = "retired" /\ FencedOrOutrun(r.node)
    BY <1>2, <1>5 DEF IInv, Safe, DeletersAreFenced, FencedOrOutrun
  <2>2. ActiveIsHome'
    BY <1>2, <1>5, <2>1 DEF IInv, Safe, ActiveIsHome
  <2>3. FencedBeforeReleased'
    BY <1>2, <1>5, <2>1 DEF IInv, Safe, FencedBeforeReleased, FencedOrOutrun
  <2> QED BY <1>5, <2>1, <2>2, <2>3
<1> QED BY <1>1, <1>3, <1>4, <1>5

LEMMA ServeSafe == ASSUME IInv, NEW c \in Calls, Serve(c) PROVE Safe'
<1>1. PICK ans \in Answers :
         /\ \/ op[c].at = "consult" /\ ans = registry /\ UNCHANGED registryVars
            \/ Applied(RequestOf(c), ans)
         /\ op' = [op EXCEPT ![c].ans = ans]
  BY DEF Serve
<1>2. UNCHANGED <<ledger, selection, outrun, late>>
  BY DEF Serve, seatVars
<1>3. /\ \A d \in Calls : d # c => op'[d] = op[d]
      /\ op'[c] = [op[c] EXCEPT !.ans = ans]
      /\ op'[c].at = op[c].at /\ op'[c].kind = op[c].kind /\ op'[c].ans = ans
  BY <1>1 DEF IInv, TypeOK, Ops
<1>4. /\ ActiveIsHome' /\ FencedBeforeReleased'
      /\ \A n \in Nodes : registry = n => registry' = n \/ ledger[n] = "retired"
      /\ op[c].at \in {"consult", "establish"} /\ ans = NodeOf[c] => registry' = NodeOf[c]
  <2>1. CASE op[c].at = "consult" /\ ans = registry /\ UNCHANGED registryVars
    BY <1>2, <2>1 DEF registryVars, IInv, Safe, ActiveIsHome, FencedBeforeReleased
  <2>2. CASE Applied(RequestOf(c), ans)
    <3>1. op[c].at \in {"designate", "establish", "delete"}
      BY <2>2 DEF Applied, RequestOf
    <3>2. RequestOf(c) \in Writes /\ RequestOf(c).at = op[c].at /\ RequestOf(c).node = NodeOf[c]
      BY <3>1, RequestTyped DEF IInv, RequestOf
    <3>3. RequestOf(c).at = "delete" => Deleting(RequestOf(c).node)
      BY <3>2 DEF Deleting
    <3>4. /\ ActiveIsHome' /\ FencedBeforeReleased'
          /\ \A n \in Nodes : registry = n => registry' = n \/ ledger[n] = "retired"
      BY <1>2, <2>2, <3>2, <3>3, AppliedSafe
    <3>5. op[c].at = "establish" /\ ans = NodeOf[c] => registry' = NodeOf[c]
      BY <2>2, <3>2, AppliedFacts DEF IInv
    <3> QED BY <3>1, <3>4, <3>5
  <2> QED BY <1>1, <2>1, <2>2
<1>5. OwnAnswersHold'
  <2>1. \A d \in Calls : NodeOf[d] \in Nodes
    BY NodeTyped
  <2> QED BY <1>2, <1>3, <1>4, <2>1 DEF IInv, Safe, OwnAnswersHold
<1>6. DeletersAreFenced'
  <2>1. \A n \in Nodes : Deleting(n)' => Deleting(n)
    BY <1>2, <1>3 DEF Deleting
  <2> QED BY <1>2, <2>1 DEF IInv, Safe, DeletersAreFenced, FencedOrOutrun
<1>7. LocalSummonsHold'
  BY <1>2, <1>3 DEF IInv, Safe, LocalSummonsHold
<1> QED BY <1>4, <1>5, <1>6, <1>7 DEF Safe

LEMMA LateSafe == ASSUME IInv, LateRequest PROVE Safe'
<1>1. PICK r \in late : (\E ans \in Answers : Applied(r, ans)) /\ late' = late \ {r}
  BY DEF LateRequest
<1>2. UNCHANGED <<ledger, selection, outrun, op>> /\ r \in Writes
  BY DEF LateRequest, seatVars, IInv, TypeOK
<1>3. r.at = "delete" => Deleting(r.node)
  BY DEF Deleting
<1>4. /\ ActiveIsHome' /\ FencedBeforeReleased'
      /\ \A n \in Nodes : registry = n => registry' = n \/ ledger[n] = "retired"
  BY <1>1, <1>2, <1>3, AppliedSafe
<1>5. OwnAnswersHold'
  BY <1>2, <1>4, NodeTyped DEF IInv, Safe, OwnAnswersHold
<1>6. DeletersAreFenced'
  BY <1>1, <1>2 DEF IInv, Safe, DeletersAreFenced, FencedOrOutrun, Deleting
<1>7. LocalSummonsHold'
  BY <1>2 DEF IInv, Safe, LocalSummonsHold
<1> QED BY <1>4, <1>5, <1>6, <1>7 DEF Safe

LEMMA EnterSafe == ASSUME IInv, NEW c \in Calls, Enter(c) PROVE Safe'
<1> USE DEF registryVars, seatVars, fenceVars
<1>1. CASE SummonEnters(c)
  <2>1. PICK v : MovesTo(c, v) /\ v.ans = Pending /\ v.at # "delete"
                 /\ (v.at = "local" => ledger[NodeOf[c]] = "active")
    BY <1>1, DecidesMoves DEF SummonEnters, Kinds, IInv
  <2> QED BY <1>1, <2>1, QuietMove DEF SummonEnters
<1>2. CASE RetireRefused(c)
  BY <1>2, EndsMoves, QuietMove DEF RetireRefused, Idle, IInv
<1>3. CASE RetireEnters(c)
  <2> DEFINE m == NodeOf[c]
  <2>1. /\ m \in Nodes
        /\ ledger' = [ledger EXCEPT ![m] = "retired"]
        /\ selection' = [selection EXCEPT ![m] = FALSE]
        /\ outrun' = outrun \ {m}
        /\ UNCHANGED <<registry, late>>
        /\ Holders(m) = {}
    BY <1>3, NodeTyped DEF RetireEnters, Fenced, Granted, Compatible
  <2>2. /\ ledger'[m] = "retired" /\ selection'[m] = FALSE
        /\ \A n \in Nodes \ {m} : /\ ledger'[n] = ledger[n] /\ selection'[n] = selection[n]
                                  /\ n \in outrun' <=> n \in outrun
    BY <2>1 DEF IInv, TypeOK
  <2>3. /\ \A d \in Calls : d # c => op'[d] = op[d]
        /\ op'[c].at = "delete"
    BY <1>3 DEF RetireEnters, Goes, IInv, TypeOK
  <2> HIDE DEF m
  <2>4. ActiveIsHome' /\ FencedBeforeReleased'
    BY <2>1, <2>2 DEF IInv, Safe, ActiveIsHome, FencedBeforeReleased
  <2>5. OwnAnswersHold'
    BY <2>1, <2>2, <2>3, NodeTyped DEF IInv, Safe, OwnAnswersHold
  <2>6. DeletersAreFenced'
    <3>1. ASSUME NEW n \in Nodes \ {m}, Deleting(n)' PROVE Deleting(n)
      <4>1. CASE \E d \in Calls : NodeOf[d] = n /\ op'[d].at = "delete"
        BY <4>1, <2>3 DEF m, Deleting
      <4>2. CASE \E r \in late' : r.at = "delete" /\ r.node = n
        BY <4>2, <2>1 DEF Deleting
      <4> QED BY <3>1, <4>1, <4>2 DEF Deleting
    <3>2. ledger'[m] = "retired" /\ ~selection'[m]
      BY <2>2
    <3>3. ASSUME NEW n \in Nodes, Deleting(n)' PROVE ledger'[n] = "retired" /\ FencedOrOutrun(n)'
      <4>1. CASE n = m
        BY <3>2, <4>1 DEF FencedOrOutrun
      <4>2. CASE n # m
        <5>1. Deleting(n)
          BY <3>1, <3>3, <4>2
        <5>2. ledger[n] = "retired" /\ FencedOrOutrun(n)
          BY <5>1 DEF IInv, Safe, DeletersAreFenced
        <5> QED BY <2>2, <4>2, <5>2 DEF FencedOrOutrun
      <4> QED BY <4>1, <4>2
    <3> QED BY <3>3 DEF DeletersAreFenced
  <2>7. LocalSummonsHold'
    <3>0. \A n \in Nodes \ {m} : ledger'[n] = ledger[n]
      BY <2>2
    <3>1. ASSUME NEW d \in Calls, op'[d].at = "local", op'[d].kind \in Summons
          PROVE  ledger'[NodeOf[d]] = "active"
      <4>1. op'[d] = op[d]
        BY <2>3, <3>1
      <4>2. NodeOf[d] # m
        BY <2>1, <3>1, <4>1 DEF Holders
      <4> QED BY <3>0, <3>1, <4>1, <4>2, NodeTyped DEF IInv, Safe, LocalSummonsHold
    <3> QED BY <3>1 DEF LocalSummonsHold
  <2> QED BY <2>4, <2>5, <2>6, <2>7 DEF Safe
<1> QED BY <1>1, <1>2, <1>3 DEF Enter

\* A mint selects a session only where the scope is not retired.
LEMMA MintSafe ==
  ASSUME IInv, NEW c \in Calls, Ends(c), Mints(c),
         ledger[NodeOf[c]] # "retired" \/ UNCHANGED selection,
         UNCHANGED <<registry, outrun, late>>,
         \/ UNCHANGED ledger
         \/ /\ ledger[NodeOf[c]] # "retired" /\ registry = NodeOf[c]
            /\ ledger' = [ledger EXCEPT ![NodeOf[c]] = "active"]
  PROVE  Safe'
<1> DEFINE m == NodeOf[c]
<1>1. m \in Nodes
  BY NodeTyped
<1>2. \A n \in Nodes \ {m} : ledger'[n] = ledger[n] /\ selection'[n] = selection[n]
  BY DEF Mints, IInv, TypeOK
<1>3. \/ ledger'[m] = ledger[m] /\ (ledger[m] # "retired" \/ selection'[m] = selection[m])
      \/ ledger[m] # "retired" /\ ledger'[m] = "active" /\ registry = m
  BY <1>1 DEF IInv, TypeOK
<1>4. /\ \A d \in Calls : d # c => op'[d] = op[d]
      /\ op'[c].at = "idle"
  BY DEF Ends, Idle, IInv, TypeOK
<1> HIDE DEF m
<1>5. ActiveIsHome' /\ FencedBeforeReleased'
  BY <1>1, <1>2, <1>3 DEF IInv, Safe, ActiveIsHome, FencedBeforeReleased
<1>6. OwnAnswersHold'
  BY <1>2, <1>3, <1>4, NodeTyped DEF IInv, Safe, OwnAnswersHold
<1>7. DeletersAreFenced'
  <2>1. ASSUME NEW n \in Nodes, Deleting(n)' PROVE ledger[n] = "retired" /\ FencedOrOutrun(n)
    <3>1. Deleting(n)
      BY <2>1, <1>4 DEF Deleting
    <3> QED BY <3>1 DEF IInv, Safe, DeletersAreFenced
  <2> QED BY <2>1, <1>2, <1>3 DEF DeletersAreFenced, FencedOrOutrun
<1>8. LocalSummonsHold'
  BY <1>2, <1>3, <1>4, NodeTyped DEF IInv, Safe, LocalSummonsHold
<1> QED BY <1>5, <1>6, <1>7, <1>8 DEF Safe

LEMMA UsesSafe == ASSUME IInv, NEW c \in Calls, Uses(c) PROVE Safe'
<1> USE DEF registryVars, seatVars, fenceVars
<1>0. op[c].kind \in {"none", "heal"} \cup Kinds /\ NodeOf[c] \in Nodes
  BY NodeTyped DEF IInv, TypeOK, Ops
<1>1. CASE UseLocal(c)
  <2>1. Ends(c) /\ Mints(c) /\ UNCHANGED <<registry, ledger, outrun, late>>
    BY <1>1 DEF UseLocal
  <2>2. CASE op[c].kind \in Summons
    <3>1. ledger[NodeOf[c]] # "retired"
      BY <1>1, <2>2 DEF UseLocal, IInv, Safe, LocalSummonsHold
    <3> QED BY <2>1, <3>1, MintSafe
  <2>3. CASE op[c].kind \notin Summons
    <3>1. UNCHANGED selection
      BY <1>0, <2>1, <2>3 DEF Mints, Summons, IInv, TypeOK
    <3> QED BY <2>1, <3>1, MintSafe
  <2> QED BY <2>2, <2>3
<1>2. CASE UseOwn(c)
  <2>1. CASE Installable(c)
    <3>1. ledger[NodeOf[c]] # "retired" /\ registry = NodeOf[c]
      BY <1>2, <2>1 DEF UseOwn, Own, Installable, IInv, Safe, OwnAnswersHold
    <3> QED BY <1>2, <2>1, <3>1, MintSafe DEF UseOwn
  <2>2. CASE ~Installable(c)
    <3>1. MovesTo(c, Idle)
      BY <1>2, <2>2, RefusesTyped DEF UseOwn, IInv
    <3> QED BY <1>2, <2>2, <3>1, QuietMove DEF UseOwn, Idle
  <2> QED BY <2>1, <2>2
<1>3. CASE UseUnbound(c) \/ UseDesignation(c)
  <2>1. PICK at \in {"designate", "establish"}, dec \in {"none", "enforce", "supersede"} :
           Goes(c, op[c].kind, at, dec)
    BY <1>3 DEF UseUnbound, UseDesignation
  <2> DEFINE v == [kind |-> op[c].kind, at |-> at, dec |-> dec, ans |-> Pending]
  <2>2. MovesTo(c, v)
    BY <1>0, <2>1 DEF Goes, MovesTo, Ops, Waits
  <2> QED BY <1>3, <2>2, QuietMove DEF UseUnbound, UseDesignation
<1>4. CASE UseForeign(c)
  <2>1. MovesTo(c, Idle)
    BY <1>4, RefusesTyped DEF UseForeign, IInv
  <2> QED BY <1>4, <2>1, QuietMove DEF UseForeign, Idle
<1>5. CASE UseRepair(c)
  <2>1. PICK v : MovesTo(c, v) /\ v.ans = Pending /\ v.at # "delete"
                 /\ (v.at = "local" => ledger[NodeOf[c]] = "active")
    BY <1>5, DecidesMoves DEF UseRepair, IInv
  <2> QED BY <1>5, <2>1, QuietMove DEF UseRepair
<1>6. CASE UseDelete(c)
  BY <1>6, EndsMoves, QuietMove DEF UseDelete, Idle, IInv
<1> QED BY <1>1, <1>2, <1>3, <1>4, <1>5, <1>6 DEF Uses

\* A restart forgets the calls of its node; what they sent may still arrive.
LEMMA RestartedQuiet ==
  ASSUME IInv, NEW n \in Nodes, Restarted(n)
  PROVE  /\ \A c \in Calls : NodeOf[c] = n => op'[c].ans = Pending /\ op'[c].at \in {"idle", "consult"}
         /\ \A c \in Calls : NodeOf[c] # n => op'[c] = op[c]
         /\ \A r \in late' : r.at = "delete" => Deleting(r.node)
<1>1. \A c \in Calls : op'[c] = IF NodeOf[c] # n THEN op[c]
            ELSE IF "repair" \in KindsOf[c] /\ runtime[n] /\ ledger'[n] # "active"
                   THEN Repairing ELSE Idle
  BY DEF Restarted
<1>2. \A r \in late' : r \in late \/ \E c \in Calls : r \in Unserved(c)
  BY DEF Restarted, Abandoned
<1>3. \A r \in late' : r.at = "delete" => Deleting(r.node)
  BY <1>2, UnservedDeletes DEF Deleting
<1> QED BY <1>1, <1>3 DEF Idle, Repairing

LEMMA FaultSafe ==
  ASSUME IInv, \/ \E c \in Calls : GivesUp(c) \/ DiesUnfenced(c)
               \/ \E n \in Nodes : Restart(n)
  PROVE  Safe'
<1> USE DEF registryVars, fenceVars
<1>1. ASSUME NEW c \in Calls, GivesUp(c) PROVE Safe'
  <2>1. MovesTo(c, Idle)
    BY <1>1, RefusesTyped DEF GivesUp, IInv
  <2>2. \A d \in Calls : op'[d] = op[d] \/ Harmless(d)
    BY <2>1 DEF MovesTo, Harmless, Idle, IInv, TypeOK
  <2>3. \A r \in late' : r.at = "delete" => Deleting(r.node)
    <3>1. \A r \in late' : r \in late \/ r \in Unserved(c)
      BY <1>1 DEF GivesUp, Abandoned
    <3> QED BY <3>1, UnservedDeletes DEF Deleting
  <2> QED BY <1>1, <2>2, <2>3, QuietStep DEF GivesUp
<1>2. ASSUME NEW n \in Nodes, Restart(n) PROVE Safe'
  <2>1. Restarted(n)
    BY <1>2 DEF Restart
  <2>2. \A d \in Calls : op'[d] = op[d] \/ Harmless(d)
    BY <2>1, RestartedQuiet DEF Harmless
  <2> QED BY <1>2, <2>1, <2>2, RestartedQuiet, QuietStep DEF Restart
<1>3. ASSUME NEW c \in Calls, DiesUnfenced(c) PROVE Safe'
  <2> DEFINE m == NodeOf[c]
  <2>1. /\ m \in Nodes /\ Restarted(m)
        /\ ledger' = [ledger EXCEPT ![m] = "retired"]
        /\ UNCHANGED <<registry, selection, outrun>>
        /\ ledger[m] \in {"active", "retired"}
    BY <1>3, NodeTyped DEF DiesUnfenced, MayRetire
  <2>2. ledger'[m] = "retired" /\ \A n \in Nodes \ {m} : ledger'[n] = ledger[n]
    BY <2>1 DEF IInv, TypeOK
  <2> HIDE DEF m
  <2>3. /\ \A d \in Calls : NodeOf[d] = m => op'[d].ans = Pending /\ op'[d].at \in {"idle", "consult"}
        /\ \A d \in Calls : NodeOf[d] # m => op'[d] = op[d]
        /\ \A r \in late' : r.at = "delete" => Deleting(r.node)
    BY <2>1, RestartedQuiet
  <2>4. ActiveIsHome' /\ FencedBeforeReleased'
    BY <2>1, <2>2 DEF IInv, Safe, ActiveIsHome, FencedBeforeReleased
  <2>5. OwnAnswersHold'
    <3>1. \A d \in Calls : NodeOf[d] \in Nodes /\ NodeOf[d] # Pending
      BY NodeTyped, PlacementAssumption
    <3> QED BY <3>1, <2>1, <2>2, <2>3 DEF IInv, Safe, OwnAnswersHold
  <2>6. DeletersAreFenced'
    <3>1. ASSUME NEW n \in Nodes, Deleting(n)' PROVE Deleting(n)
      <4>1. CASE \E d \in Calls : NodeOf[d] = n /\ op'[d].at = "delete"
        BY <4>1, <2>3 DEF Deleting
      <4>2. CASE \E r \in late' : r.at = "delete" /\ r.node = n
        BY <4>2, <2>3
      <4> QED BY <3>1, <4>1, <4>2 DEF Deleting
    <3> QED BY <2>1, <2>2, <3>1 DEF IInv, Safe, DeletersAreFenced, FencedOrOutrun
  <2>7. LocalSummonsHold'
    BY <2>2, <2>3, NodeTyped DEF IInv, Safe, LocalSummonsHold
  <2> QED BY <2>4, <2>5, <2>6, <2>7 DEF Safe
<1> QED BY <1>1, <1>2, <1>3

\* The seat, a request and a waiting teardown touch none of it.
LEMMA SeatSafe ==
  ASSUME IInv, \/ \E c \in Calls, kind \in Kinds : Request(c, kind)
               \/ \E n \in Nodes : StartBegins(n) \/ StartEnds(n) \/ RuntimeEnds(n)
                                   \/ RotationBegins(n) \/ Teardown(n) \/ TeardownFails(n)
                                   \/ PassGivesUp(n)
               \/ UNCHANGED vars
  PROVE  Safe'
<1> USE DEF registryVars, seatVars, fenceVars
<1>1. ASSUME UNCHANGED <<registry, ledger, selection, outrun, op, late>> PROVE Safe'
  <2>1. \A r \in late' : r.at = "delete" => Deleting(r.node)
    BY <1>1 DEF Deleting
  <2> QED BY <1>1, <2>1, QuietStep
<1>2. ASSUME NEW c \in Calls, NEW kind \in Kinds, Request(c, kind) PROVE Safe'
  <2>1. \A d \in Calls : \/ op'[d] = op[d]
                         \/ /\ op'[d].at = "queued" /\ d = c
    BY <1>2 DEF Request, IInv, TypeOK, Ops
  <2>2. UNCHANGED <<registry, ledger, selection, outrun, late>>
    BY <1>2 DEF Request
  <2>3. ActiveIsHome' /\ FencedBeforeReleased'
    BY <2>2 DEF IInv, Safe, ActiveIsHome, FencedBeforeReleased
  <2>4. OwnAnswersHold' /\ LocalSummonsHold'
    BY <2>1, <2>2 DEF IInv, Safe, OwnAnswersHold, LocalSummonsHold
  <2>5. \A n \in Nodes : Deleting(n)' => Deleting(n)
    BY <2>1, <2>2 DEF Deleting
  <2>6. DeletersAreFenced'
    BY <2>2, <2>5 DEF IInv, Safe, DeletersAreFenced, FencedOrOutrun
  <2> QED BY <2>3, <2>4, <2>6 DEF Safe
<1>3. ASSUME NEW n \in Nodes,
             \/ StartBegins(n) \/ StartEnds(n) \/ RuntimeEnds(n) \/ RotationBegins(n)
             \/ Teardown(n) \/ TeardownFails(n) \/ PassGivesUp(n)
      PROVE Safe'
  BY <1>1, <1>3 DEF StartBegins, StartEnds, RuntimeEnds, RotationBegins, Teardown, PassBegins,
                    PassAnswered, PassEnds, TeardownFails, PassGivesUp
<1>4. CASE UNCHANGED vars
  BY <1>1, <1>4 DEF vars
<1> QED BY <1>2, <1>3, <1>4

\* A successor selected on a retired scope is on record.
LEMMA RotationSafe == ASSUME IInv, NEW n \in Nodes, RotationEnds(n) PROVE Safe'
<1> USE DEF registryVars
<1>1. /\ UNCHANGED <<registry, ledger, op, late>>
      /\ \A m \in Nodes \ {n} : selection'[m] = selection[m]
      /\ \A m \in Nodes : m \in outrun => m \in outrun'
      /\ ledger[n] = "retired" => n \in outrun'
  BY DEF RotationEnds, IInv, TypeOK
<1>2. ActiveIsHome' /\ OwnAnswersHold' /\ LocalSummonsHold'
  BY <1>1 DEF IInv, Safe, ActiveIsHome, OwnAnswersHold, LocalSummonsHold
<1>3. FencedBeforeReleased'
  BY <1>1 DEF IInv, Safe, FencedBeforeReleased
<1>4. \A m \in Nodes : Deleting(m)' => Deleting(m)
  BY <1>1 DEF Deleting
<1>5. DeletersAreFenced'
  BY <1>1, <1>4 DEF IInv, Safe, DeletersAreFenced, FencedOrOutrun
<1> QED BY <1>2, <1>3, <1>5 DEF Safe

LEMMA Inductive == IInv /\ [Next]_vars => IInv'
<1> SUFFICES ASSUME IInv, [Next]_vars PROVE IInv'
  OBVIOUS
<1>1. TypeOK'
  BY StepTyped DEF IInv
<1>2. Safe'
  BY EnterSafe, ServeSafe, UsesSafe, FaultSafe, SeatSafe, RotationSafe, LateSafe
     DEF Next, CallStep, Advances, NodeStep, Rotates
<1> QED BY <1>1, <1>2 DEF IInv

LEMMA InitSafe == Init => IInv
<1> SUFFICES ASSUME Init PROVE IInv
  OBVIOUS
<1>1. TypeOK
  BY InitTyped
<1>2. /\ \A n \in Nodes : ledger[n] = "none"
      /\ \A c \in Calls : op[c].at = "idle"
      /\ late = {}
  BY DEF Init, Idle
<1>3. \A n \in Nodes : ~Deleting(n)
  BY <1>2 DEF Deleting
<1>4. Safe
  BY <1>2, <1>3 DEF Safe, ActiveIsHome, FencedBeforeReleased, OwnAnswersHold, DeletersAreFenced, LocalSummonsHold
<1> QED BY <1>1, <1>4 DEF IInv

LEMMA Invariance == Spec => []IInv
BY InitSafe, Inductive, PTL DEF Spec

-------------------------------------------------------------------------------
(* What it means                                                              *)

\* The registry is written first at a birth and last at a retirement, so a node
\* whose ledger row is active is the home (establishment.ts, retirement.ts).
THEOREM ActiveNodeIsHome == Spec => []ActiveIsHome
<1>1. IInv => ActiveIsHome
  BY DEF IInv, Safe
<1> QED BY <1>1, Invariance, PTL

\* Whoever is born after a retirement finds the old home fenced (retirement.ts), but for
\* a session selected by a rotation the retirement overtook (session-rotation.ts).
THEOREM RetirementFencesFirst == Spec => []FencedBeforeReleased
<1>1. IInv => FencedBeforeReleased
  BY DEF IInv, Safe
<1> QED BY <1>1, Invariance, PTL

-------------------------------------------------------------------------------
(* The single home                                                            *)

\* What the promise of a single home rests on is less than IInv: it needs no fence,
\* and no rotation can break it.
DeletersRetired == \A n \in Nodes : Deleting(n) => ledger[n] = "retired"

HomeInv == TypeOK /\ ActiveIsHome /\ OwnAnswersHold /\ DeletersRetired

\* A step binds the scope, releases what a retired node held, grants authority to
\* the home, or retires a node; or it leaves the rows alone.
Binds(n) == registry = None /\ registry' = n /\ UNCHANGED ledger
Releases(n) == registry = n /\ ledger[n] = "retired" /\ registry' = None /\ UNCHANGED ledger
Grants(n) == /\ registry = n /\ ledger[n] # "retired" /\ UNCHANGED registry
             /\ ledger' = [ledger EXCEPT ![n] = "active"]
Retires(n) == /\ ledger[n] \in {"active", "retired"} /\ UNCHANGED registry
              /\ ledger' = [ledger EXCEPT ![n] = "retired"]

RowsMove == \/ UNCHANGED <<registry, ledger>>
            \/ \E n \in Nodes : Binds(n) \/ Releases(n) \/ Grants(n) \/ Retires(n)

\* Only the registry tells a call that its node is the home.
AnswersMove ==
  \A c \in Calls : op'[c].at \in {"consult", "establish"} /\ op'[c].ans = NodeOf[c]
    => op'[c] = op[c] \/ registry' = NodeOf[c]

\* Only a node that has retired begins to delete.
DeletesMove == \A n \in Nodes : Deleting(n)' => Deleting(n) \/ ledger'[n] = "retired"

HomeStep == RowsMove /\ AnswersMove /\ DeletesMove

\* What a call becomes that learns nothing and deletes nothing.
Unlearned(c) == /\ op'[c].at # "delete"
                /\ op'[c].ans = Pending \/ op'[c].at \notin {"consult", "establish"}

LEMMA UnlearnedMove ==
  ASSUME TypeOK, NEW c \in Calls, NEW v, MovesTo(c, v), v.at # "delete",
         v.ans = Pending \/ v.at \notin {"consult", "establish"}
  PROVE  \A d \in Calls : op'[d] = op[d] \/ Unlearned(d)
BY DEF MovesTo, Unlearned, TypeOK

LEMMA CallsUnlearned ==
  ASSUME \A c \in Calls : op'[c] = op[c] \/ Unlearned(c),
         \A r \in late' : r.at = "delete" => Deleting(r.node)
  PROVE  AnswersMove /\ DeletesMove
<1>1. AnswersMove
  <2>1. \A c \in Calls : NodeOf[c] # Pending
    BY NodeTyped, PlacementAssumption
  <2> QED BY <2>1 DEF AnswersMove, Unlearned
<1>2. DeletesMove
  BY DEF DeletesMove, Deleting, Unlearned
<1> QED BY <1>1, <1>2

LEMMA LateStays == \A r \in late : r.at = "delete" => Deleting(r.node)
BY DEF Deleting

\* A restart forgets what its calls learnt, and leaves what they sent.
LEMMA RestartedMoves ==
  ASSUME NEW n \in Nodes, Restarted(n)
  PROVE  AnswersMove /\ DeletesMove
<1>1. \A c \in Calls : op'[c] = IF NodeOf[c] # n THEN op[c]
            ELSE IF "repair" \in KindsOf[c] /\ runtime[n] /\ ledger'[n] # "active"
                   THEN Repairing ELSE Idle
  BY DEF Restarted
<1>2. \A c \in Calls : op'[c] = op[c] \/ Unlearned(c)
  BY <1>1 DEF Unlearned, Idle, Repairing
<1>3. \A r \in late' : r.at = "delete" => Deleting(r.node)
  BY DEF Restarted, Abandoned, Unserved, RequestOf, Deleting
<1> QED BY <1>2, <1>3, CallsUnlearned

\* What the registry may do to the rows.
LEMMA AppliedMoves ==
  ASSUME HomeInv, NEW r \in Writes, NEW ans \in Answers, Applied(r, ans),
         r.at = "delete" => Deleting(r.node), UNCHANGED ledger
  PROVE  RowsMove
<1>1. \/ registry' = registry
      \/ registry = None /\ registry' = r.node
      \/ r.at = "delete" /\ registry = r.node /\ registry' = None
  BY AppliedFacts DEF HomeInv
<1>2. r.node \in Nodes
  BY DEF Writes
<1>3. r.at = "delete" => ledger[r.node] = "retired"
  BY <1>2 DEF HomeInv, DeletersRetired
<1> QED BY <1>1, <1>2, <1>3 DEF RowsMove, Binds, Releases

LEMMA ServeMoves == ASSUME HomeInv, NEW c \in Calls, Serve(c) PROVE HomeStep
<1>1. PICK ans \in Answers :
         /\ \/ op[c].at = "consult" /\ ans = registry /\ UNCHANGED registryVars
            \/ Applied(RequestOf(c), ans)
         /\ op' = [op EXCEPT ![c].ans = ans]
  BY DEF Serve
<1>2. UNCHANGED <<ledger, late>>
  BY DEF Serve
<1>3. /\ \A d \in Calls : d # c => op'[d] = op[d]
      /\ op'[c].at = op[c].at /\ op'[c].ans = ans
  BY <1>1 DEF HomeInv, TypeOK, Ops
<1>4. RowsMove /\ (op[c].at \in {"consult", "establish"} /\ ans = NodeOf[c] => registry' = NodeOf[c])
  <2>1. CASE op[c].at = "consult" /\ ans = registry /\ UNCHANGED registryVars
    BY <1>2, <2>1 DEF registryVars, RowsMove
  <2>2. CASE Applied(RequestOf(c), ans)
    <3>1. op[c].at \in {"designate", "establish", "delete"}
      BY <2>2 DEF Applied, RequestOf
    <3>2. RequestOf(c) \in Writes /\ RequestOf(c).at = op[c].at /\ RequestOf(c).node = NodeOf[c]
      BY <3>1, RequestTyped DEF HomeInv, RequestOf
    <3>3. RequestOf(c).at = "delete" => Deleting(RequestOf(c).node)
      BY <3>2 DEF Deleting
    <3>4. RowsMove
      BY <1>2, <2>2, <3>2, <3>3, AppliedMoves
    <3>5. op[c].at = "establish" /\ ans = NodeOf[c] => registry' = NodeOf[c]
      BY <2>2, <3>2, AppliedFacts DEF HomeInv
    <3> QED BY <3>1, <3>4, <3>5
  <2> QED BY <1>1, <2>1, <2>2
<1>5. AnswersMove
  BY <1>3, <1>4 DEF AnswersMove
<1>6. DeletesMove
  BY <1>2, <1>3 DEF DeletesMove, Deleting
<1> QED BY <1>4, <1>5, <1>6 DEF HomeStep

LEMMA CallMoves == ASSUME HomeInv, NEW c \in Calls, CallStep(c) PROVE HomeStep
<1> USE DEF registryVars, seatVars, fenceVars
<1>0. NodeOf[c] \in Nodes /\ TypeOK /\ op[c].kind \in {"none", "heal"} \cup Kinds
  BY NodeTyped DEF HomeInv, TypeOK, Ops
<1>1. ASSUME NEW v, MovesTo(c, v), v.at # "delete",
             v.ans = Pending \/ v.at \notin {"consult", "establish"}, UNCHANGED late, RowsMove
      PROVE  HomeStep
  BY <1>0, <1>1, UnlearnedMove, CallsUnlearned, LateStays DEF HomeStep
<1>2. CASE \E kind \in Kinds : Request(c, kind)
  <2>1. \A d \in Calls : op'[d] = op[d] \/ Unlearned(d)
    BY <1>0, <1>2 DEF Request, Unlearned, TypeOK, Ops
  <2> QED BY <1>2, <2>1, CallsUnlearned, LateStays DEF Request, HomeStep, RowsMove
<1>3. CASE SummonEnters(c) \/ UseRepair(c)
  <2>1. PICK v : MovesTo(c, v) /\ v.ans = Pending /\ v.at # "delete"
    BY <1>0, <1>3, DecidesMoves DEF SummonEnters, UseRepair, Kinds
  <2> QED BY <1>1, <1>3, <2>1 DEF SummonEnters, UseRepair, RowsMove
<1>4. CASE RetireRefused(c) \/ UseLocal(c) \/ UseDelete(c)
  <2>1. MovesTo(c, Idle)
    BY <1>0, <1>4, EndsMoves DEF RetireRefused, UseLocal, UseDelete
  <2> QED BY <1>1, <1>4, <2>1 DEF RetireRefused, UseLocal, UseDelete, Idle, RowsMove
<1>5. CASE UseForeign(c)
  <2>1. MovesTo(c, Idle)
    BY <1>0, <1>5, RefusesTyped DEF UseForeign
  <2> QED BY <1>1, <1>5, <2>1 DEF UseForeign, Idle, RowsMove
<1>6. CASE UseUnbound(c) \/ UseDesignation(c)
  <2>1. PICK at \in {"designate", "establish"}, dec \in {"none", "enforce", "supersede"} :
           Goes(c, op[c].kind, at, dec)
    BY <1>6 DEF UseUnbound, UseDesignation
  <2> DEFINE v == [kind |-> op[c].kind, at |-> at, dec |-> dec, ans |-> Pending]
  <2>2. MovesTo(c, v)
    BY <1>0, <2>1 DEF Goes, MovesTo, Ops, Waits
  <2> QED BY <1>1, <1>6, <2>2 DEF UseUnbound, UseDesignation, RowsMove
<1>7. CASE UseOwn(c)
  <2>1. MovesTo(c, Idle)
    BY <1>0, <1>7, EndsMoves, RefusesTyped DEF UseOwn
  <2>2. CASE Installable(c)
    <3>1. registry = NodeOf[c] /\ ledger[NodeOf[c]] # "retired"
      BY <1>7, <2>2 DEF UseOwn, Own, Installable, HomeInv, OwnAnswersHold
    <3>2. Grants(NodeOf[c])
      BY <1>7, <2>2, <3>1 DEF UseOwn, Grants
    <3> QED BY <1>0, <1>1, <1>7, <2>1, <3>2 DEF UseOwn, Idle, RowsMove
  <2>3. CASE ~Installable(c)
    BY <1>1, <1>7, <2>1, <2>3 DEF UseOwn, Idle, RowsMove
  <2> QED BY <2>2, <2>3
<1>8. CASE RetireEnters(c)
  <2>1. Retires(NodeOf[c]) /\ UNCHANGED late
    BY <1>8 DEF RetireEnters, MayRetire, Retires
  <2>2. /\ \A d \in Calls : d # c => op'[d] = op[d]
        /\ op'[c].at = "delete" /\ ledger'[NodeOf[c]] = "retired"
    BY <1>0, <1>8 DEF RetireEnters, Goes, TypeOK
  <2>3. AnswersMove
    BY <2>2 DEF AnswersMove
  <2>4. DeletesMove
    BY <2>1, <2>2 DEF DeletesMove, Deleting
  <2> QED BY <1>0, <2>1, <2>3, <2>4 DEF HomeStep, RowsMove
<1>9. CASE GivesUp(c)
  <2>1. MovesTo(c, Idle)
    BY <1>0, <1>9, RefusesTyped DEF GivesUp
  <2>2. \A r \in late' : r.at = "delete" => Deleting(r.node)
    BY <1>9 DEF GivesUp, Abandoned, Unserved, RequestOf, Deleting
  <2> QED BY <1>0, <1>9, <2>1, <2>2, UnlearnedMove, CallsUnlearned DEF GivesUp, Idle, HomeStep, RowsMove
<1>10. CASE DiesUnfenced(c)
  <2>1. Retires(NodeOf[c]) /\ Restarted(NodeOf[c])
    BY <1>10 DEF DiesUnfenced, MayRetire, Retires
  <2> QED BY <1>0, <2>1, RestartedMoves DEF HomeStep, RowsMove
<1> QED BY <1>2, <1>3, <1>4, <1>5, <1>6, <1>7, <1>8, <1>9, <1>10, ServeMoves
        DEF CallStep, Advances, Enter, Uses

LEMMA NodeMoves ==
  ASSUME HomeInv, NEW n \in Nodes, NodeStep(n)
  PROVE  HomeStep
<1> USE DEF registryVars, fenceVars
<1>1. CASE Restart(n)
  BY <1>1, RestartedMoves DEF Restart, HomeStep, RowsMove
<1>2. CASE ~Restart(n)
  BY <1>2, CallsUnlearned, LateStays
     DEF NodeStep, StartBegins, StartEnds, RuntimeEnds, Teardown, PassBegins, PassAnswered, PassEnds,
         TeardownFails, PassGivesUp, Rotates, RotationBegins, RotationEnds, HomeStep, RowsMove
<1> QED BY <1>1, <1>2

LEMMA LateMoves == ASSUME HomeInv, LateRequest PROVE HomeStep
<1>1. PICK r \in late : (\E ans \in Answers : Applied(r, ans)) /\ late' = late \ {r}
  BY DEF LateRequest
<1>2. UNCHANGED <<ledger, op>> /\ r \in Writes /\ (r.at = "delete" => Deleting(r.node))
  BY DEF LateRequest, HomeInv, TypeOK, Deleting
<1> QED BY <1>1, <1>2, AppliedMoves, CallsUnlearned, LateStays DEF HomeStep

LEMMA EveryHomeStep == ASSUME HomeInv, [Next]_vars PROVE HomeStep
<1>1. CASE UNCHANGED vars
  BY <1>1, CallsUnlearned, LateStays DEF vars, HomeStep, RowsMove
<1> QED BY <1>1, CallMoves, NodeMoves, LateMoves DEF Next, Next

LEMMA HomeKept == ASSUME HomeInv, HomeStep PROVE (ActiveIsHome /\ OwnAnswersHold /\ DeletersRetired)'
<1>0. /\ None \notin Nodes /\ \A c \in Calls : NodeOf[c] \in Nodes
      /\ ledger \in [Nodes -> {"none", "active", "retired"}]
  BY NodeTyped, PlacementAssumption DEF HomeInv, TypeOK
<1>1. ActiveIsHome'
  BY <1>0 DEF HomeInv, ActiveIsHome, HomeStep, RowsMove, Binds, Releases, Grants, Retires
<1>2. \A n \in Nodes : ledger[n] = "retired" => ledger'[n] = "retired"
  BY <1>0 DEF HomeStep, RowsMove, Binds, Releases, Grants, Retires
<1>3. \A n \in Nodes : registry = n => registry' = n \/ ledger'[n] = "retired"
  BY <1>0 DEF HomeStep, RowsMove, Binds, Releases, Grants, Retires
<1>4. OwnAnswersHold'
  <2>1. ASSUME NEW c \in Calls, op'[c].at \in {"consult", "establish"}, op'[c].ans = NodeOf[c]
        PROVE  registry' = NodeOf[c] \/ ledger'[NodeOf[c]] = "retired"
    <3>1. op'[c] = op[c] \/ registry' = NodeOf[c]
      BY <2>1 DEF HomeStep, AnswersMove
    <3>2. op'[c] = op[c] => registry = NodeOf[c] \/ ledger[NodeOf[c]] = "retired"
      BY <2>1 DEF HomeInv, OwnAnswersHold
    <3> QED BY <1>0, <1>2, <1>3, <3>1, <3>2
  <2> QED BY <2>1 DEF OwnAnswersHold
<1>5. DeletersRetired'
  BY <1>2 DEF HomeInv, DeletersRetired, HomeStep, DeletesMove
<1> QED BY <1>1, <1>4, <1>5

LEMMA HomeInductive == HomeInv /\ [Next]_vars => HomeInv'
<1> SUFFICES ASSUME HomeInv, [Next]_vars PROVE HomeInv'
  OBVIOUS
<1>1. TypeOK'
  BY StepTyped DEF HomeInv
<1>2. (ActiveIsHome /\ OwnAnswersHold /\ DeletersRetired)'
  BY EveryHomeStep, HomeKept
<1> QED BY <1>1, <1>2 DEF HomeInv

LEMMA HomeInvariance == Spec => []HomeInv
<1>1. Init => HomeInv
  BY InitSafe DEF IInv, Safe, HomeInv, DeletersAreFenced, DeletersRetired
<1> QED BY <1>1, HomeInductive, PTL DEF Spec

\* The rows of registry and ledgers move as the promise of a single home allows.
LEMMA StepRefines == HomeInv /\ [Next]_vars => [Home!Next]_(Home!homeVars)
<1> SUFFICES ASSUME HomeInv, [Next]_vars PROVE [Home!Next]_(Home!homeVars)
  OBVIOUS
<1> DEFINE Authority == {n \in Nodes : ledger[n] = "active"}
           Retired == {n \in Nodes : ledger[n] = "retired"}
<1>0. ledger \in [Nodes -> {"none", "active", "retired"}]
  BY DEF HomeInv, TypeOK
<1>1. CASE UNCHANGED <<registry, ledger>>
  BY <1>1 DEF Home!homeVars
<1>2. ASSUME NEW n \in Nodes, Binds(n) PROVE Home!Next
  BY <1>2 DEF Binds, Home!Next, Home!Bind
<1>3. ASSUME NEW n \in Nodes, Releases(n) PROVE Home!Next
  BY <1>3 DEF Releases, Home!Next, Home!Release
<1>4. ASSUME NEW n \in Nodes, Grants(n) PROVE Home!Next
  <2>1. Authority' = Authority \cup {n} /\ Retired' = Retired /\ n \notin Retired
    BY <1>0, <1>4 DEF Grants
  <2> QED BY <1>4, <2>1 DEF Grants, Home!Next, Home!Grant
<1>5. ASSUME NEW n \in Nodes, Retires(n) PROVE [Home!Next]_(Home!homeVars)
  <2>1. CASE ledger[n] = "active"
    <3>1. Authority' = Authority \ {n} /\ Retired' = Retired \cup {n} /\ n \in Authority
      BY <1>0, <1>5, <2>1 DEF Retires
    <3> QED BY <1>5, <3>1 DEF Retires, Home!Next, Home!Retire
  <2>2. CASE ledger[n] = "retired"
    <3>1. ledger' = ledger
      BY <1>0, <1>5, <2>2 DEF Retires
    <3> QED BY <1>5, <3>1 DEF Retires, Home!homeVars
  <2> QED BY <1>5, <2>1, <2>2 DEF Retires
<1> QED BY <1>1, <1>2, <1>3, <1>4, <1>5, EveryHomeStep DEF HomeStep, RowsMove

\* Registry, ledgers and requests together keep the promise of a single home:
\* only the home is granted authority, never after it retired, and it is
\* released only when it gave the scope up.
THEOREM Refinement == Spec => ImplementsSingleHome
<1>1. Init => Home!Init
  BY DEF Init, Home!Init
<1> QED BY <1>1, StepRefines, HomeInvariance, PTL DEF Spec, ImplementsSingleHome, Home!Spec

-------------------------------------------------------------------------------
(* The scope lock                                                             *)

Holds(c) == op[c].kind \in Summons \cup {"retire"} /\ op[c].at \notin {"idle", "queued"}

\* A call keeps the lock, or loses it; only a call that enters gets it.
KeepsLock(c) == Holds(c)' => Holds(c) /\ op'[c].kind = op[c].kind

LEMMA HoldersHold == \A n \in Nodes : \A c : c \in Holders(n) <=> c \in Calls /\ NodeOf[c] = n /\ Holds(c)
BY DEF Holders, Holds

LEMMA DecidesKeepsKind ==
  ASSUME TypeOK, NEW c \in Calls, NEW kind, Decides(c, kind)
  PROVE  /\ \A d \in Calls : d # c => op'[d] = op[d]
         /\ op'[c].at = "idle" \/ op'[c].kind = kind
BY DEF Decides, Refuses, Ends, Idle, Goes, TypeOK

\* Nobody but the call that enters gets the lock.
LEMMA LocksMove ==
  ASSUME TypeOK, [Next]_vars
  PROVE  \/ \A d \in Calls : KeepsLock(d)
         \/ \E c \in Calls :
              /\ Compatible(c)
              /\ op'[c].at = "idle" \/ op'[c].kind = op[c].kind
              /\ \A d \in Calls \ {c} : KeepsLock(d)
<1> USE DEF registryVars, seatVars, fenceVars, KeepsLock, Holds
<1>0. op \in [Calls -> Ops]
  BY DEF TypeOK
<1>1. ASSUME NEW c \in Calls, CallStep(c), ~Enter(c) PROVE \A d \in Calls : KeepsLock(d)
  <2>1. CASE \E kind \in Kinds : Request(c, kind)
    BY <1>0, <2>1 DEF Request, Ops
  <2>2. CASE Serve(c)
    BY <1>0, <2>2 DEF Serve, Ops
  <2>3. CASE UseLocal(c) \/ UseDelete(c) \/ UseOwn(c) \/ UseForeign(c) \/ GivesUp(c)
    <3>1. Ends(c)
      BY <2>3 DEF UseLocal, UseDelete, UseOwn, UseForeign, GivesUp, Refuses
    <3> QED BY <1>0, <3>1 DEF Ends, Idle
  <2>4. CASE UseUnbound(c) \/ UseDesignation(c)
    <3>1. \E at, dec : Goes(c, op[c].kind, at, dec)
      BY <2>4 DEF UseUnbound, UseDesignation
    <3>2. op[c].at \notin {"idle", "queued"}
      BY <2>4 DEF UseUnbound, UseDesignation
    <3> QED BY <1>0, <3>1, <3>2 DEF Goes
  <2>5. CASE UseRepair(c)
    BY <2>5, DecidesKeepsKind DEF UseRepair, Summons
  <2>6. CASE DiesUnfenced(c)
    <3>1. Restarted(NodeOf[c])
      BY <2>6 DEF DiesUnfenced
    <3> QED BY <3>1 DEF Restarted, Idle, Repairing, Summons
  <2> QED BY <1>1, <2>1, <2>2, <2>3, <2>4, <2>5, <2>6 DEF CallStep, Advances, Uses
<1>2. ASSUME NEW c \in Calls, Enter(c)
      PROVE  /\ Compatible(c)
             /\ op'[c].at = "idle" \/ op'[c].kind = op[c].kind
             /\ \A d \in Calls \ {c} : KeepsLock(d)
  <2>1. CASE SummonEnters(c)
    BY <2>1, DecidesKeepsKind DEF SummonEnters, Granted
  <2>2. CASE RetireRefused(c)
    BY <1>0, <2>2 DEF RetireRefused, Granted, Ends, Idle
  <2>3. CASE RetireEnters(c)
    BY <1>0, <2>3 DEF RetireEnters, Granted, Goes
  <2> QED BY <1>2, <2>1, <2>2, <2>3 DEF Enter
<1>3. ASSUME NEW n \in Nodes, NodeStep(n) PROVE \A d \in Calls : KeepsLock(d)
  <2>1. CASE Restart(n)
    <3>1. Restarted(n)
      BY <2>1 DEF Restart
    <3> QED BY <3>1 DEF Restarted, Idle, Repairing, Summons
  <2>2. CASE op' = op
    BY <2>2
  <2> QED BY <1>3, <2>1, <2>2 DEF NodeStep, StartBegins, StartEnds, RuntimeEnds, Teardown, PassBegins,
                                  PassAnswered, PassEnds, TeardownFails, PassGivesUp, Rotates,
                                  RotationBegins, RotationEnds
<1>4. CASE LateRequest \/ UNCHANGED vars
  BY <1>4 DEF LateRequest, vars
<1> QED BY <1>1, <1>2, <1>3, <1>4 DEF Next

LEMMA LockKept == ASSUME TypeOK, RetirementIsAlone, [Next]_vars PROVE RetirementIsAlone'
<1> SUFFICES ASSUME NEW n \in Nodes, NEW c \in Calls, NEW d \in Calls, NodeOf[c] = n, NodeOf[d] = n,
                    Holds(c)', Holds(d)', op'[c].kind = "retire", c # d
             PROVE  FALSE
  BY DEF RetirementIsAlone, Holders, Holds
<1>1. ASSUME NEW x \in Calls, NEW y \in Calls, NodeOf[x] = n, NodeOf[y] = n, x # y,
             Holds(x), Holds(y)
      PROVE  op[x].kind # "retire"
  BY <1>1, HoldersHold DEF RetirementIsAlone
<1>2. CASE \A x \in Calls : KeepsLock(x)
  BY <1>1, <1>2 DEF KeepsLock
<1>3. ASSUME NEW e \in Calls, Compatible(e), op'[e].at = "idle" \/ op'[e].kind = op[e].kind,
             \A x \in Calls \ {e} : KeepsLock(x)
      PROVE  FALSE
  <2>1. CASE e = c
    BY <1>3, <2>1, HoldersHold DEF Compatible, KeepsLock, Holds
  <2>2. CASE e = d
    <3>1. Holds(c) /\ op[c].kind = "retire" /\ c \in Holders(n)
      BY <1>3, <2>2, HoldersHold DEF KeepsLock
    <3> QED BY <1>3, <2>2, <3>1 DEF Compatible
  <2>3. CASE e # c /\ e # d
    BY <1>1, <1>3, <2>3 DEF KeepsLock
  <2> QED BY <2>1, <2>2, <2>3
<1> QED BY <1>2, <1>3, LocksMove

\* While a retirement acts, no summon of its node does: what the summon read of the
\* ledger is what it acts on (authority-lock.ts).
THEOREM LockExcludes == Spec => []RetirementIsAlone
<1>1. Init => RetirementIsAlone
  BY DEF Init, Idle, RetirementIsAlone, Holders
<1>2. TypeOK /\ RetirementIsAlone /\ [Next]_vars => RetirementIsAlone'
  BY LockKept
<1> QED BY <1>1, <1>2, Typing, PTL DEF Spec

\* A queue grows at its end, loses its head, or is forgotten with its process.
LEMMA QueuesMove ==
  ASSUME TypeOK, [Next]_vars, NEW n \in Nodes
  PROVE  \/ queue'[n] \in {queue[n], <<>>}
         \/ queue[n] # <<>> /\ queue'[n] = Tail(queue[n])
         \/ \E c \in Calls : queue'[n] = Append(queue[n], c) /\ Place(queue[n], c) = {}
<1> USE DEF registryVars, seatVars, fenceVars
<1>1. ASSUME NEW c \in Calls, NEW kind \in Kinds, Request(c, kind)
      PROVE  \/ queue'[n] = queue[n]
             \/ queue'[n] = Append(queue[n], c) /\ Place(queue[n], c) = {}
  <2>1. \A i \in 1 .. Len(queue[n]) : queue[n][i] # c
    BY <1>1 DEF Request, TypeOK, QueueOK
  <2> QED BY <1>1, <2>1 DEF Request, TypeOK, Place
<1>2. ASSUME NEW c \in Calls, Enter(c)
      PROVE  queue'[n] = queue[n] \/ (queue[n] # <<>> /\ queue'[n] = Tail(queue[n]))
  <2>1. Granted(c) /\ NodeOf[c] \in Nodes /\ queue \in [Nodes -> Seq(Calls)]
    BY <1>2, NodeTyped DEF Enter, SummonEnters, RetireRefused, RetireEnters, TypeOK
  <2> QED BY <2>1 DEF Granted, First
<1>3. ASSUME NEW m \in Nodes, Restarted(m) PROVE queue'[n] \in {queue[n], <<>>}
  BY <1>3 DEF Restarted, TypeOK
<1>4. ASSUME NEW c \in Calls, Serve(c) \/ Uses(c) \/ GivesUp(c) PROVE queue' = queue
  BY <1>4 DEF Serve, Uses, UseLocal, UseOwn, UseUnbound, UseDesignation, UseForeign, UseRepair,
              UseDelete, GivesUp
<1>5. ASSUME NEW c \in Calls, DiesUnfenced(c) PROVE queue'[n] \in {queue[n], <<>>}
  BY <1>3, <1>5, NodeTyped DEF DiesUnfenced
<1>6. ASSUME NEW m \in Nodes, NodeStep(m) PROVE queue'[n] \in {queue[n], <<>>}
  <2>1. CASE Restart(m)
    BY <1>3, <2>1 DEF Restart
  <2>2. CASE ~Restart(m)
    BY <1>6, <2>2 DEF NodeStep, StartBegins, StartEnds, RuntimeEnds, Teardown, PassBegins,
                      PassAnswered, PassEnds, TeardownFails, PassGivesUp, Rotates,
                                  RotationBegins, RotationEnds
  <2> QED BY <2>1, <2>2
<1>7. CASE LateRequest \/ UNCHANGED vars
  BY <1>7 DEF LateRequest, vars
<1> QED BY <1>1, <1>2, <1>4, <1>5, <1>6, <1>7 DEF Next, CallStep, Advances

\* Who is ahead of a call in the rest of a queue was ahead of it in the queue.
LEMMA AheadInTail ==
  ASSUME NEW q \in Seq(Calls), q # <<>>, NEW c \in Calls
  PROVE  Ahead(Tail(q), c) \subseteq Ahead(q, c)
<1> DEFINE t == Tail(q)
<1>1. /\ Len(q) \in Nat /\ Len(t) = Len(q) - 1
      /\ \A i \in 1 .. Len(t) : i \in Nat /\ i + 1 \in 1 .. Len(q) /\ t[i] = q[i + 1]
  OBVIOUS
<1> HIDE DEF t
<1>2. ASSUME NEW j \in 1 .. Len(t), NEW k \in 1 .. Len(t), t[k] = c, j < k
      PROVE  t[j] \in Ahead(q, c)
  <2>1. j + 1 \in 1 .. Len(q) /\ k + 1 \in Place(q, c) /\ j + 1 < k + 1 /\ t[j] = q[j + 1]
    BY <1>1, <1>2 DEF Place
  <2> QED BY <2>1 DEF Ahead
<1>3. Ahead(t, c) \subseteq Ahead(q, c)
  BY <1>2 DEF Ahead, Place
<1> QED BY <1>3 DEF t

\* Nor does anybody get ahead of it at the end of the queue.
LEMMA AheadOfNew ==
  ASSUME NEW q \in Seq(Calls), NEW c \in Calls, NEW d \in Calls, d # c
  PROVE  Ahead(Append(q, d), c) \subseteq Ahead(q, c)
<1> DEFINE t == Append(q, d)
<1>1. /\ Len(q) \in Nat /\ Len(t) = Len(q) + 1 /\ t[Len(q) + 1] = d
      /\ \A i \in 1 .. Len(q) : t[i] = q[i]
      /\ \A i \in 1 .. Len(t) : i \in Nat /\ (i \in 1 .. Len(q) \/ i = Len(q) + 1)
  OBVIOUS
<1> HIDE DEF t
<1>2. ASSUME NEW j \in 1 .. Len(t), NEW k \in 1 .. Len(t), t[k] = c, j < k
      PROVE  t[j] \in Ahead(q, c)
  <2>1. k \in 1 .. Len(q)
    BY <1>1, <1>2
  <2>2. j \in 1 .. Len(q)
    BY <1>1, <1>2, <2>1
  <2>3. k \in Place(q, c) /\ t[j] = q[j]
    BY <1>1, <1>2, <2>1, <2>2 DEF Place
  <2> QED BY <1>2, <2>2, <2>3 DEF Ahead
<1>3. Ahead(t, c) \subseteq Ahead(q, c)
  BY <1>2 DEF Ahead, Place
<1> QED BY <1>3 DEF t

\* Who is in the queue and not in the rest of it was first.
LEMMA FirstLeaves ==
  ASSUME NEW q \in Seq(Calls), q # <<>>, NEW c \in Calls, Place(Tail(q), c) = {}
  PROVE  Ahead(q, c) = {}
<1> DEFINE t == Tail(q)
<1>1. /\ Len(q) \in Nat /\ Len(t) = Len(q) - 1
      /\ \A i \in 2 .. Len(q) : i - 1 \in 1 .. Len(t) /\ t[i - 1] = q[i]
  OBVIOUS
<1> HIDE DEF t
<1>2. ASSUME NEW k \in Place(q, c) PROVE k = 1
  <2>1. k \in 1 .. Len(q) /\ q[k] = c
    BY <1>2 DEF Place
  <2>2. \A i \in 1 .. Len(t) : t[i] # c
    BY DEF Place, t
  <2> QED BY <1>1, <2>1, <2>2
<1>3. \A j \in 1 .. Len(q) : ~(j < 1)
  BY <1>1
<1> QED BY <1>2, <1>3 DEF Ahead

\* Nobody leaves a queue that only grows.
LEMMA NewLeavesAll ==
  ASSUME NEW q \in Seq(Calls), NEW c \in Calls, NEW d \in Calls, Place(q, c) # {}
  PROVE  Place(Append(q, d), c) # {}
<1>1. PICK i \in 1 .. Len(q) : q[i] = c
  BY DEF Place
<1>2. i \in 1 .. Len(Append(q, d)) /\ Append(q, d)[i] = c
  BY <1>1
<1> QED BY <1>2 DEF Place

\* The lock is first come, first served: the safety half of NobodyWaitsForever.
THEOREM QueueIsFair == Spec => NobodyIsOvertaken
<1>1. ASSUME TypeOK, [Next]_vars, NEW n \in Nodes, NEW c \in Calls, Place(queue[n], c) # {}
      PROVE  /\ Ahead(queue'[n], c) \subseteq Ahead(queue[n], c)
             /\ Place(queue'[n], c) = {} => Ahead(queue[n], c) = {} \/ queue'[n] = <<>>
  <2>1. queue[n] \in Seq(Calls)
    BY <1>1 DEF TypeOK
  <2>2. Ahead(<<>>, c) = {}
    BY DEF Ahead
  <2>3. CASE queue'[n] \in {queue[n], <<>>}
    BY <1>1, <2>2, <2>3
  <2>4. CASE queue[n] # <<>> /\ queue'[n] = Tail(queue[n])
    BY <2>1, <2>4, AheadInTail, FirstLeaves
  <2>5. ASSUME NEW d \in Calls, queue'[n] = Append(queue[n], d), Place(queue[n], d) = {}
        PROVE  /\ Ahead(queue'[n], c) \subseteq Ahead(queue[n], c)
               /\ Place(queue'[n], c) # {}
    BY <1>1, <2>1, <2>5, AheadOfNew, NewLeavesAll
  <2> QED BY <1>1, <2>3, <2>4, <2>5, QueuesMove
<1>2. TypeOK /\ [Next]_vars =>
        [\A n \in Nodes, c \in Calls :
           Place(queue[n], c) # {} =>
             /\ Ahead(queue'[n], c) \subseteq Ahead(queue[n], c)
             /\ Place(queue'[n], c) = {} => Ahead(queue[n], c) = {} \/ queue'[n] = <<>>]_vars
  BY <1>1
<1> QED BY <1>2, Typing, PTL DEF Spec, NobodyIsOvertaken

-------------------------------------------------------------------------------
(* The teardown of shadows, while nobody retires the scope                    *)

\* What MCPlacementTeardown uses is excluded: a home that gives the scope up.
NoRetirement == \A c \in Calls : "retire" \notin KindsOf[c]

NobodyRetires == /\ \A n \in Nodes : ledger[n] # "retired"
                 /\ \A c \in Calls : op[c].kind # "retire"

\* The foreign home that a teardown was told of is the home when it acts.
PassAnswersHold ==
  \A n \in Nodes : pass[n].at = "answered" => pass[n].ans \in Nodes \ {n} /\ registry = pass[n].ans

LEMMA RetirementsStayAway ==
  ASSUME NoRetirement, TypeOK, NobodyRetires, [Next]_vars
  PROVE  NobodyRetires'
<1> USE DEF registryVars, seatVars, fenceVars, NobodyRetires
<1>0. op \in [Calls -> Ops] /\ ledger \in [Nodes -> {"none", "active", "retired"}]
  BY DEF TypeOK
<1>1. ASSUME NEW c \in Calls, CallStep(c) PROVE NobodyRetires'
  <2>1. CASE \E kind \in Kinds : Request(c, kind)
    BY <1>0, <2>1 DEF Request, NoRetirement, Ops
  <2>2. CASE Serve(c)
    BY <1>0, <2>2 DEF Serve, Ops
  <2>3. CASE UseLocal(c) \/ UseDelete(c) \/ UseForeign(c) \/ GivesUp(c) \/ RetireRefused(c)
    <3>1. Ends(c) /\ UNCHANGED ledger
      BY <2>3 DEF UseLocal, UseDelete, UseForeign, GivesUp, Refuses, RetireRefused
    <3> QED BY <1>0, <3>1 DEF Ends, Idle
  <2>4. CASE UseOwn(c)
    <3>1. Ends(c) /\ (UNCHANGED ledger \/ ledger' = [ledger EXCEPT ![NodeOf[c]] = "active"])
      BY <2>4 DEF UseOwn, Refuses
    <3> QED BY <1>0, <3>1 DEF Ends, Idle
  <2>5. CASE UseUnbound(c) \/ UseDesignation(c)
    <3>1. (\E at, dec : Goes(c, op[c].kind, at, dec)) /\ UNCHANGED ledger
      BY <2>5 DEF UseUnbound, UseDesignation
    <3> QED BY <1>0, <3>1 DEF Goes
  <2>6. CASE UseRepair(c) \/ SummonEnters(c)
    <3>1. \E kind \in {"heal"} \cup Summons : Decides(c, kind)
      BY <2>6 DEF UseRepair, SummonEnters
    <3>2. UNCHANGED ledger
      BY <2>6 DEF UseRepair, SummonEnters
    <3>3. op'[c].kind # "retire" /\ \A d \in Calls : d # c => op'[d] = op[d]
      BY <1>0, <3>1 DEF Decides, Refuses, Ends, Idle, Goes, Summons
    <3> QED BY <3>2, <3>3
  <2>7. ~RetireEnters(c) /\ ~DiesUnfenced(c)
    BY DEF RetireEnters, DiesUnfenced
  <2> QED BY <1>1, <2>1, <2>2, <2>3, <2>4, <2>5, <2>6, <2>7 DEF CallStep, Advances, Enter, Uses
<1>2. ASSUME NEW n \in Nodes, NodeStep(n) PROVE NobodyRetires'
  <2>1. CASE Restart(n)
    <3>1. Restarted(n) /\ UNCHANGED ledger
      BY <2>1 DEF Restart
    <3> QED BY <3>1 DEF Restarted, Idle, Repairing
  <2>2. CASE ~Restart(n)
    BY <1>2, <2>2 DEF NodeStep, StartBegins, StartEnds, RuntimeEnds, Teardown, PassBegins, PassAnswered,
                      PassEnds, TeardownFails, PassGivesUp, Rotates, RotationBegins, RotationEnds
  <2> QED BY <2>1, <2>2
<1>3. CASE LateRequest \/ UNCHANGED vars
  BY <1>3 DEF LateRequest, vars
<1> QED BY <1>1, <1>2, <1>3 DEF Next

\* A teardown learns the home from the registry and from nobody else.
PassMoves(n) ==
  pass'[n].at = "answered" =>
    \/ pass[n].at = "answered" /\ pass'[n].ans = pass[n].ans
    \/ pass'[n].ans = registry /\ registry' = registry /\ registry \in Nodes \ {n}

LEMMA EveryPassMoves ==
  ASSUME TypeOK, [Next]_vars, NEW n \in Nodes
  PROVE  PassMoves(n)
<1> USE DEF registryVars, seatVars, fenceVars, PassMoves
<1>0. pass \in [Nodes -> Passes]
  BY DEF TypeOK
<1>1. ASSUME NEW m, RuntimeGone(m) PROVE PassMoves(n)
  BY <1>0, <1>1 DEF RuntimeGone, Passes
<1>2. ASSUME pass'[n] = pass[n] PROVE PassMoves(n)
  BY <1>2
<1>3. ASSUME NEW m \in Nodes, Restarted(m) PROVE PassMoves(n)
  BY <1>0, <1>3 DEF Restarted, IdlePass
<1>4. ASSUME NEW c \in Calls, CallStep(c) PROVE PassMoves(n)
  <2>1. CASE DiesUnfenced(c)
    BY <1>3, <2>1, NodeTyped DEF DiesUnfenced
  <2>2. CASE ~DiesUnfenced(c)
    <3>1. UNCHANGED pass \/ \E m : RuntimeGone(m)
      BY <1>4, <2>2 DEF CallStep, Advances, Enter, Uses, Request, Serve, SummonEnters, RetireRefused,
                        RetireEnters, UseLocal, UseOwn, UseUnbound, UseDesignation, UseForeign,
                        UseRepair, UseDelete, GivesUp, Decides, Refuses
    <3> QED BY <1>1, <1>2, <3>1
  <2> QED BY <2>1, <2>2
<1>5. ASSUME NEW m \in Nodes, NodeStep(m) PROVE PassMoves(n)
  <2>1. CASE Restart(m)
    BY <1>3, <2>1 DEF Restart
  <2>2. CASE RuntimeEnds(m)
    BY <1>1, <2>2 DEF RuntimeEnds
  <2>3. CASE StartBegins(m) \/ StartEnds(m)
    BY <2>3 DEF StartBegins, StartEnds
  <2>4. CASE PassBegins(m)
    BY <1>0, <1>1, <1>2, <2>4 DEF PassBegins, Passes
  <2>5. CASE PassAnswered(m)
    BY <1>0, <2>5 DEF PassAnswered, IdlePass, Passes, TypeOK
  <2>6. CASE PassEnds(m) \/ TeardownFails(m) \/ PassGivesUp(m)
    BY <1>0, <2>6 DEF PassEnds, TeardownFails, PassGivesUp, IdlePass, Passes
  <2>7. CASE RotationBegins(m)
    BY <1>1, <2>7 DEF RotationBegins
  <2>8. CASE RotationEnds(m)
    BY <1>2, <2>8 DEF RotationEnds
  <2> QED BY <1>5, <2>1, <2>2, <2>3, <2>4, <2>5, <2>6, <2>7, <2>8 DEF NodeStep, Teardown, Rotates
<1>6. CASE LateRequest \/ UNCHANGED vars
  BY <1>6 DEF LateRequest, vars
<1> QED BY <1>4, <1>5, <1>6 DEF Next

SettledInv == HomeInv /\ NobodyRetires /\ PassAnswersHold

LEMMA SettledInductive == NoRetirement /\ SettledInv /\ [Next]_vars => SettledInv'
<1> SUFFICES ASSUME NoRetirement, SettledInv, [Next]_vars PROVE SettledInv'
  OBVIOUS
<1>1. HomeInv'
  BY HomeInductive DEF SettledInv
<1>2. NobodyRetires'
  BY RetirementsStayAway DEF SettledInv, HomeInv
<1>3. registry' = registry \/ registry = None
  BY EveryHomeStep DEF SettledInv, NobodyRetires, HomeStep, RowsMove, Binds, Releases, Grants, Retires
<1>4. ASSUME NEW n \in Nodes, pass'[n].at = "answered"
      PROVE  pass'[n].ans \in Nodes \ {n} /\ registry' = pass'[n].ans
  <2>1. None \notin Nodes
    BY PlacementAssumption
  <2>2. PassMoves(n)
    BY EveryPassMoves DEF SettledInv, HomeInv
  <2> QED BY <1>3, <1>4, <2>1, <2>2 DEF PassMoves, SettledInv, PassAnswersHold
<1>5. PassAnswersHold'
  BY <1>4 DEF PassAnswersHold
<1> QED BY <1>1, <1>2, <1>5 DEF SettledInv

\* A teardown acts on an answer that it awaited. As long as no home gives the scope up, that
\* answer still holds, and the seat it ends is not that of the home (shadow-teardown-handlers.ts).
THEOREM UnretiredHomeIsSpared ==
  ASSUME NoRetirement
  PROVE  Spec => TeardownSparesTheHome
<1>1. Init => SettledInv
  <2>1. Init => HomeInv
    BY InitSafe DEF IInv, Safe, HomeInv, DeletersAreFenced, DeletersRetired
  <2>2. Init => NobodyRetires /\ PassAnswersHold
    BY DEF Init, Idle, IdlePass, NobodyRetires, PassAnswersHold
  <2> QED BY <2>1, <2>2 DEF SettledInv
<1>2. ASSUME SettledInv, NEW n \in Nodes, Teardown(n), ledger[n] = "active"
      PROVE  runtime'[n] = runtime[n]
  <2>1. registry = n /\ runtime \in [Nodes -> BOOLEAN]
    BY <1>2 DEF SettledInv, HomeInv, ActiveIsHome, TypeOK
  <2>2. CASE PassBegins(n)
    BY <1>2, <2>2 DEF PassBegins, LocallySettled
  <2>3. CASE PassAnswered(n)
    BY <2>3 DEF PassAnswered
  <2>4. CASE PassEnds(n)
    BY <1>2, <2>1, <2>4 DEF PassEnds, SettledInv, PassAnswersHold
  <2> QED BY <1>2, <2>2, <2>3, <2>4 DEF Teardown
<1>3. SettledInv /\ [Next]_vars =>
        [\A n \in Nodes : Teardown(n) /\ ledger[n] = "active" => runtime'[n] = runtime[n]]_vars
  BY <1>2
<1>4. SettledInv /\ [Next]_vars => SettledInv'
  BY SettledInductive
<1> QED BY <1>1, <1>3, <1>4, PTL DEF Spec, TeardownSparesTheHome
================================================================================
