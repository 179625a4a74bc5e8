------------------------------- MODULE Placement -------------------------------
(* Federated placement of one scope: which node may seat it.                  *)
(*                                                                            *)
(* The registry is one database on one host; it serializes establish,         *)
(* designate and delete, and every node reaches it by requests that may be    *)
(* lost, or applied after their sender gave up.  Each node keeps a durable    *)
(* ledger row for the scope (its own authority, or the mark that it retired   *)
(* the scope), the continuity selection that lets a delivery skip the summon  *)
(* gate, and the runtime that serves it.  On a node, summons share a lock     *)
(* with one another and exclude retirement; the placement repair of a boot,   *)
(* the start of a runtime, the rotation of a session and the shadow teardown  *)
(* take no lock.                                                              *)
(*                                                                            *)
(* A call is one request handler in flight; between two of its awaits it is a *)
(* record of what it waits for.                                               *)
EXTENDS Naturals, Sequences

CONSTANTS
  Nodes, Calls,
  NodeOf,     \* the node a call runs on
  KindsOf,    \* what it may be asked to do
  Seats,      \* nodes that start runtimes for the scope
  Legacy,     \* nodes that seated the scope before it was placed anywhere
  Declared,   \* nodes whose own placement policy names them the home
  Hazards,    \* the faults that may occur: "crash", "lost", "late"
  MaxFaults,  \* how many faults
  None, Pending, Refused

Summons == {"implicit", "declared"}
Kinds == Summons \cup {"retire", "repair"}
Waits == {"idle", "queued", "local", "consult", "designate", "establish", "delete"}
Answers == Nodes \cup {None, Refused}

ASSUME PlacementAssumption ==
  /\ NodeOf \in [Calls -> Nodes]
  /\ KindsOf \in [Calls -> SUBSET Kinds]
  /\ Seats \subseteq Nodes /\ Legacy \subseteq Nodes /\ Declared \subseteq Nodes
  /\ MaxFaults \in Nat
  /\ None \notin Nodes /\ Pending \notin Nodes /\ Refused \notin Nodes
  /\ None # Pending /\ None # Refused /\ Pending # Refused

VARIABLES
  registry,     \* the home the scope is bound to, or None
  designation,  \* the node it is designated to be born on, or None
  ledger,       \* per node: "none", "active" or "retired"
  selection,    \* per node: a session is selected for the scope
  runtime,      \* per node: a runtime serves it
  starting,     \* nodes that start a runtime whose row is not written yet
  rotating,     \* nodes that rotate the session and await its teardown
  outrun,       \* history: nodes whose fence a rotation has outrun since it fell
  op,           \* per call: what it does and what it waits for
  queue,        \* per node: the calls that wait for the scope lock, in order
  late,         \* requests whose sender gave up and that are still on the wire
  memo,         \* per node: the foreign home it remembers, or None
  pass,         \* per node: the shadow teardown in flight
  faults

registryVars == <<registry, designation>>
seatVars == <<runtime, starting, rotating, outrun, pass>>
fenceVars == <<rotating, outrun>>
vars == <<registry, designation, ledger, selection, runtime, starting, rotating,
          outrun, op, queue, late, memo, pass, faults>>

Idle == [kind |-> "none", at |-> "idle", dec |-> "none", ans |-> Pending]
IdlePass == [at |-> "idle", ans |-> Pending, seat |-> FALSE]

Init ==
  /\ registry = None /\ designation = None
  /\ ledger = [n \in Nodes |-> "none"]
  /\ selection = [n \in Nodes |-> n \in Legacy]
  /\ runtime = [n \in Nodes |-> n \in Legacy]
  /\ starting = {} /\ rotating = {} /\ outrun = {}
  /\ op = [c \in Calls |-> Idle]
  /\ queue = [n \in Nodes |-> <<>>]
  /\ late = {}
  /\ memo = [n \in Nodes |-> None]
  /\ pass = [n \in Nodes |-> IdlePass]
  /\ faults = 0

Fault(h) ==
  /\ h \in Hazards /\ faults < MaxFaults
  /\ faults' = faults + 1

-------------------------------------------------------------------------------
(* The registry host.  `ans` is what it replies.                             *)

\* A live designation is every node's answer; without one the host follows the
\* home of the scope that sent the birth envelope, if it has one.
Designates(ans) ==
  /\ IF designation = None THEN ans \in Nodes \cup {None} ELSE ans = designation
  /\ designation' = ans
  /\ UNCHANGED registry

\* Mutant of Mismatch: any designation refuses a birth that rests on one.
MismatchAny(n, dec) == dec = "enforce" /\ designation # None

\* Only a birth that rests on a designation is refused by another one.
Mismatch(n, dec) == dec = "enforce" /\ designation \notin {None, n}

Establishes(n, dec, ans) ==
  \/ /\ registry # None
     /\ ans = registry
     /\ UNCHANGED registryVars
  \/ /\ registry = None /\ Mismatch(n, dec)
     /\ ans = Refused
     /\ UNCHANGED registryVars
  \/ /\ registry = None /\ ~Mismatch(n, dec)
     /\ ans = n
     /\ registry' = n
     /\ designation' = IF dec = "supersede" THEN None ELSE designation

\* Mutant of Deletes: the node that asks is not compared with the row.
DeletesAny(n, ans) == ans = registry /\ registry' = None /\ designation' = None

\* The row goes only if it still names the node that retires.
Deletes(n, ans) ==
  /\ ans = registry
  /\ IF registry = n THEN registry' = None /\ designation' = None
                     ELSE UNCHANGED registryVars

\* A request that writes: what of it the registry needs to know.
Writes == [node : Nodes, at : {"designate", "establish", "delete"},
           dec : {"none", "enforce", "supersede"}]

Applied(r, ans) ==
  \/ r.at = "designate" /\ Designates(ans)
  \/ r.at = "establish" /\ Establishes(r.node, r.dec, ans)
  \/ r.at = "delete" /\ Deletes(r.node, ans)

RequestOf(c) == [node |-> NodeOf[c], at |-> op[c].at, dec |-> op[c].dec]

\* The registry takes the request a call waits for; the answer is on its way.
Serve(c) ==
  /\ op[c].ans = Pending
  /\ \E ans \in Answers :
       /\ \/ /\ op[c].at = "consult" /\ ans = registry
             /\ UNCHANGED registryVars
          \/ Applied(RequestOf(c), ans)
       /\ op' = [op EXCEPT ![c].ans = ans]
  /\ UNCHANGED <<ledger, selection, seatVars, queue, late, memo, faults>>

\* A request outlives its sender, or the connection that carried it.
LateRequest ==
  /\ \E r \in late :
       /\ \E ans \in Answers : Applied(r, ans)
       /\ late' = late \ {r}
  /\ UNCHANGED <<ledger, selection, seatVars, op, queue, memo, faults>>

-------------------------------------------------------------------------------
(* The scope lock of a node.                                                 *)

Request(c, kind) ==
  /\ op[c].at = "idle" /\ kind \in KindsOf[c] \ {"repair"}
  /\ op' = [op EXCEPT ![c].kind = kind, ![c].at = "queued"]
  /\ queue' = [queue EXCEPT ![NodeOf[c]] = Append(@, c)]
  /\ UNCHANGED <<registryVars, ledger, selection, seatVars, late, memo, faults>>

Holders(n) == {c \in Calls : /\ NodeOf[c] = n
                             /\ op[c].kind \in Summons \cup {"retire"}
                             /\ op[c].at \notin {"idle", "queued"}}

\* Summons enter beside summons, a retirement alone.
Compatible(c) ==
  IF op[c].kind = "retire" THEN Holders(NodeOf[c]) = {}
                           ELSE \A d \in Holders(NodeOf[c]) : op[d].kind # "retire"

First(c) == queue[NodeOf[c]] # <<>> /\ Head(queue[NodeOf[c]]) = c

\* Mutants of Granted: the waiter is not shifted off the queue; a retirement takes
\* the lock whenever it is free.
GrantedUnshifted(c) == First(c) /\ Compatible(c) /\ UNCHANGED queue
GrantedBarging(c) ==
  /\ First(c) \/ op[c].kind = "retire"
  /\ Compatible(c)
  /\ queue' = [queue EXCEPT ![NodeOf[c]] = SelectSeq(@, LAMBDA d : d # c)]

\* First come, first served.  A lock that is free is a queue passed at once.
Granted(c) ==
  /\ First(c) /\ Compatible(c)
  /\ queue' = [queue EXCEPT ![NodeOf[c]] = Tail(@)]

-------------------------------------------------------------------------------
(* Steps of a call.                                                          *)

Goes(c, kind, at, dec) ==
  op' = [op EXCEPT ![c] = [kind |-> kind, at |-> at, dec |-> dec, ans |-> Pending]]

Ends(c) == op' = [op EXCEPT ![c] = Idle]

RuntimeGone(n) ==
  /\ runtime' = [runtime EXCEPT ![n] = FALSE]
  /\ pass' = [pass EXCEPT ![n].seat = FALSE]

\* A refused summon changes nothing; a refused repair marks the runtimes stale.
Refuses(c, kind) ==
  /\ Ends(c)
  /\ IF kind \in {"repair", "heal"} THEN RuntimeGone(NodeOf[c])
                                    ELSE UNCHANGED <<runtime, pass>>

\* The gate reads the local ledger first: a retired scope is refused for good,
\* an active row is authority, and no row is a question for the registry.
Decides(c, kind) ==
  LET row == ledger[NodeOf[c]] IN
  \/ row = "retired" /\ Refuses(c, kind)
  \/ row = "active" /\ Goes(c, kind, "local", "none") /\ UNCHANGED <<runtime, pass>>
  \/ row = "none" /\ Goes(c, kind, "consult", "none") /\ UNCHANGED <<runtime, pass>>

SummonEnters(c) ==
  /\ op[c].at = "queued" /\ op[c].kind \in Summons
  /\ Granted(c)
  /\ Decides(c, op[c].kind)
  /\ UNCHANGED <<registryVars, ledger, selection, starting, fenceVars, late, memo, faults>>

\* An implicit summon mints the session; a declared one may stop at authority,
\* which is what a peer asks for when it establishes on this node.
Mints(c) ==
  LET n == NodeOf[c] IN
  \E s \in IF op[c].kind = "implicit" THEN {TRUE}
           ELSE IF op[c].kind = "declared" THEN {selection[n], TRUE} ELSE {selection[n]} :
    selection' = [selection EXCEPT ![n] = s]

\* The capability of the node has been observed.
UseLocal(c) ==
  LET n == NodeOf[c] IN
  /\ op[c].at = "local"
  /\ Mints(c) /\ Ends(c)
  /\ IF op[c].kind = "heal" /\ ledger[n] # "active"
       THEN RuntimeGone(n) ELSE UNCHANGED <<runtime, pass>>
  /\ UNCHANGED <<registryVars, ledger, starting, fenceVars, queue, late, memo, faults>>

Answered(c) == op[c].ans # Pending
Own(c) == /\ op[c].ans = NodeOf[c]
          /\ op[c].at \in {"consult", "establish"}

\* Mutant of Installable: the row is installed over a retirement.
InstallableAnyway(c) == TRUE

\* The binding names this node: install it, unless the node retired meanwhile.
Installable(c) == ledger[NodeOf[c]] # "retired"

UseOwn(c) ==
  /\ Own(c)
  /\ IF Installable(c)
       THEN /\ ledger' = [ledger EXCEPT ![NodeOf[c]] = "active"]
            /\ Mints(c) /\ Ends(c)
            /\ UNCHANGED <<runtime, pass>>
       ELSE /\ Refuses(c, op[c].kind)
            /\ UNCHANGED <<ledger, selection>>
  /\ UNCHANGED <<registryVars, starting, fenceVars, queue, late, memo, faults>>

\* Unbound: placement policy chooses.  A home that is declared, or an explicit start
\* where none is, supersedes any designation; an implicit summon that no declaration
\* reaches is designated by the registry host.
UseUnbound(c) ==
  /\ op[c].at = "consult" /\ op[c].ans = None
  /\ \/ op[c].kind = "declared" /\ Goes(c, "declared", "establish", "supersede")
     \/ /\ op[c].kind \in {"implicit", "heal"}
        /\ IF NodeOf[c] \in Declared THEN Goes(c, op[c].kind, "establish", "supersede")
                                     ELSE Goes(c, op[c].kind, "designate", "none")
  /\ UNCHANGED <<registryVars, ledger, selection, seatVars, queue, late, memo, faults>>

UseDesignation(c) ==
  /\ op[c].at = "designate"
  /\ \/ op[c].ans = None /\ Goes(c, op[c].kind, "establish", "none")
     \/ op[c].ans = NodeOf[c] /\ Goes(c, op[c].kind, "establish", "enforce")
  /\ UNCHANGED <<registryVars, ledger, selection, seatVars, queue, late, memo, faults>>

\* Bound or designated elsewhere.
UseForeign(c) ==
  /\ op[c].at \in {"consult", "designate", "establish"} /\ op[c].kind # "repair"
  /\ Answered(c) /\ op[c].ans # NodeOf[c]
  /\ op[c].at # "establish" => op[c].ans # None
  /\ Refuses(c, op[c].kind)
  /\ UNCHANGED <<registryVars, ledger, selection, starting, fenceVars, queue, late, memo, faults>>

\* The repair of a boot found no binding of this node: the full gate decides.
UseRepair(c) ==
  /\ op[c].kind = "repair" /\ op[c].at = "consult"
  /\ Answered(c) /\ op[c].ans # NodeOf[c]
  /\ Decides(c, "heal")
  /\ UNCHANGED <<registryVars, ledger, selection, starting, fenceVars, queue, late, memo, faults>>

UseDelete(c) ==
  /\ op[c].at = "delete" /\ Answered(c)
  /\ Ends(c)
  /\ UNCHANGED <<registryVars, ledger, selection, seatVars, queue, late, memo, faults>>

Uses(c) == \/ UseLocal(c) \/ UseOwn(c) \/ UseUnbound(c) \/ UseDesignation(c)
           \/ UseForeign(c) \/ UseRepair(c) \/ UseDelete(c)

-------------------------------------------------------------------------------
(* Retirement: fence this node for good, then give the binding back.         *)

MayRetire(n) == ledger[n] = "retired" \/ (ledger[n] = "active" /\ ~runtime[n])

RetireRefused(c) ==
  /\ op[c].at = "queued" /\ op[c].kind = "retire" /\ ~MayRetire(NodeOf[c])
  /\ Granted(c)
  /\ Ends(c)
  /\ UNCHANGED <<registryVars, ledger, selection, seatVars, late, memo, faults>>

\* Mutant of Fenced: only the call that retires the row fences.
FencedOnce(n) == [selection EXCEPT ![n] = @ /\ ledger[n] # "active"]

\* Repeated on a retired scope it fences again: the first may have died between.
Fenced(n) == [selection EXCEPT ![n] = FALSE]

RetireEnters(c) ==
  LET n == NodeOf[c] IN
  /\ op[c].at = "queued" /\ op[c].kind = "retire" /\ MayRetire(n)
  /\ Granted(c)
  /\ ledger' = [ledger EXCEPT ![n] = "retired"]
  /\ selection' = Fenced(n)
  /\ outrun' = outrun \ {n}
  /\ Goes(c, "retire", "delete", "none")
  /\ UNCHANGED <<registryVars, runtime, starting, rotating, pass, late, memo, faults>>

Enter(c) == SummonEnters(c) \/ RetireRefused(c) \/ RetireEnters(c)

-------------------------------------------------------------------------------
(* The seat: starts, rotation and the teardown of shadows.                   *)

\* Every door asks only whether this node retired the scope.
StartBegins(n) ==
  /\ n \in Seats /\ selection[n] /\ ledger[n] # "retired"
  /\ ~runtime[n] /\ n \notin starting
  /\ starting' = starting \cup {n}
  /\ UNCHANGED <<registryVars, ledger, selection, runtime, fenceVars, op, queue, late, memo, pass, faults>>

StartEnds(n) ==
  /\ n \in starting
  /\ starting' = starting \ {n}
  /\ \E live \in BOOLEAN : runtime' = [runtime EXCEPT ![n] = live]
  /\ UNCHANGED <<registryVars, ledger, selection, fenceVars, op, queue, late, memo, pass, faults>>

RuntimeEnds(n) ==
  /\ runtime[n] /\ RuntimeGone(n)
  /\ UNCHANGED <<registryVars, ledger, selection, starting, fenceVars, op, queue, late, memo, faults>>

\* A session is rotated without the lock, by doors that ask what a start asks.  The
\* runtime of the old session ends while its teardown is still awaited.
RotationBegins(n) ==
  /\ n \in Seats /\ selection[n] /\ ledger[n] # "retired"
  /\ runtime[n] /\ n \notin rotating
  /\ rotating' = rotating \cup {n}
  /\ RuntimeGone(n)
  /\ UNCHANGED <<registryVars, ledger, selection, starting, outrun, op, queue, late, memo, faults>>

\* The successor is selected whatever became of the scope during the teardown.
RotationEnds(n) ==
  /\ n \in rotating
  /\ rotating' = rotating \ {n}
  /\ outrun' = IF ledger[n] = "retired" THEN outrun \cup {n} ELSE outrun
  /\ selection' = [selection EXCEPT ![n] = TRUE]
  /\ UNCHANGED <<registryVars, ledger, runtime, starting, pass, op, queue, late, memo, faults>>

Rotates(n) == RotationBegins(n) \/ RotationEnds(n)

\* Mutant of LocallySettled: a retired row answers for the home, too.
SettledByAnyRow(n) == ledger[n] # "none"

\* Only an active row says where the scope lives: a retirement fences this node
\* and says nothing of the new home.
LocallySettled(n) == ledger[n] = "active"

\* A pass looks at a live seat.  Local authority clears what it remembers, a
\* remembered foreign home is enough to end the seat, else the registry is asked.
PassBegins(n) ==
  /\ pass[n].at = "idle" /\ runtime[n]
  /\ \/ /\ LocallySettled(n)
        /\ memo' = [memo EXCEPT ![n] = None]
        /\ UNCHANGED <<runtime, pass>>
     \/ /\ ~LocallySettled(n) /\ memo[n] # None
        /\ RuntimeGone(n)
        /\ UNCHANGED memo
     \/ /\ ~LocallySettled(n) /\ memo[n] = None
        /\ pass' = [pass EXCEPT ![n] = [at |-> "asked", ans |-> Pending, seat |-> TRUE]]
        /\ UNCHANGED <<runtime, memo>>
  /\ UNCHANGED <<registryVars, ledger, selection, starting, fenceVars, op, queue, late, faults>>

\* Only a positive foreign home ends a seat: with any other answer the pass is over.
PassAnswered(n) ==
  /\ pass[n].at = "asked"
  /\ pass' = [pass EXCEPT ![n] = IF registry \in {None, n} THEN IdlePass
                                ELSE [@ EXCEPT !.at = "answered", !.ans = registry]]
  /\ UNCHANGED <<registryVars, ledger, selection, runtime, starting, fenceVars, op, queue, late, memo, faults>>

\* The seat that ends is the one the pass saw.
PassEnds(n) ==
  /\ pass[n].at = "answered"
  /\ memo' = [memo EXCEPT ![n] = pass[n].ans]
  /\ runtime' = [runtime EXCEPT ![n] = @ /\ ~pass[n].seat]
  /\ pass' = [pass EXCEPT ![n] = IdlePass]
  /\ UNCHANGED <<registryVars, ledger, selection, starting, fenceVars, op, queue, late, faults>>

Teardown(n) == PassBegins(n) \/ PassAnswered(n) \/ PassEnds(n)

-------------------------------------------------------------------------------
(* Faults.                                                                   *)

Unserved(c) ==
  IF op[c].at \in {"designate", "establish", "delete"} /\ op[c].ans = Pending
    THEN {RequestOf(c)} ELSE {}

Abandoned(requests) ==
  \E left \in SUBSET (IF "late" \in Hazards THEN requests ELSE {}) : late' = late \cup left

\* The registry refuses or cannot be reached, or the node proves incapable.
GivesUp(c) ==
  /\ op[c].at \notin {"idle", "queued"}
  /\ Fault("lost")
  /\ Refuses(c, op[c].kind)
  /\ Abandoned(Unserved(c))
  /\ UNCHANGED <<registryVars, ledger, selection, starting, fenceVars, queue, memo>>

PassGivesUp(n) ==
  /\ pass[n].at # "idle"
  /\ Fault("lost")
  /\ pass' = [pass EXCEPT ![n] = IdlePass]
  /\ UNCHANGED <<registryVars, ledger, selection, runtime, starting, fenceVars, op, queue, late, memo>>

\* The termination of the seat fails: what the pass learnt is kept for the next.
TeardownFails(n) ==
  /\ pass[n].at = "answered"
  /\ Fault("lost")
  /\ memo' = [memo EXCEPT ![n] = pass[n].ans]
  /\ pass' = [pass EXCEPT ![n] = IdlePass]
  /\ UNCHANGED <<registryVars, ledger, selection, runtime, starting, fenceVars, op, queue, late>>

\* What is in memory is gone; the boot repairs the placement of a runtime that
\* was live when the database was opened.
Repairing == [kind |-> "repair", at |-> "consult", dec |-> "none", ans |-> Pending]

Restarted(n) ==
  /\ op' = [c \in Calls |->
              IF NodeOf[c] # n THEN op[c]
              ELSE IF "repair" \in KindsOf[c] /\ runtime[n] /\ ledger'[n] # "active"
                     THEN Repairing ELSE Idle]
  /\ Abandoned(UNION {Unserved(c) : c \in {d \in Calls : NodeOf[d] = n}})
  /\ queue' = [queue EXCEPT ![n] = <<>>]
  /\ starting' = starting \ {n}
  /\ rotating' = rotating \ {n}
  /\ memo' = [memo EXCEPT ![n] = None]
  /\ pass' = [pass EXCEPT ![n] = IdlePass]

Restart(n) ==
  /\ Fault("crash")
  /\ UNCHANGED <<registryVars, ledger, selection, runtime, outrun>>
  /\ Restarted(n)

\* The node dies after the retirement mark and before the fence.
DiesUnfenced(c) ==
  LET n == NodeOf[c] IN
  /\ op[c].at = "queued" /\ op[c].kind = "retire" /\ MayRetire(n)
  /\ First(c) /\ Compatible(c)
  /\ Fault("crash")
  /\ ledger' = [ledger EXCEPT ![n] = "retired"]
  /\ UNCHANGED <<registryVars, selection, runtime, outrun>>
  /\ Restarted(n)

-------------------------------------------------------------------------------
\* A call takes its next step; it has only one.
Advances(c) == Enter(c) \/ Serve(c) \/ Uses(c)

CallStep(c) == \/ \E kind \in Kinds : Request(c, kind)
               \/ Advances(c) \/ GivesUp(c) \/ DiesUnfenced(c)

NodeStep(n) == \/ StartBegins(n) \/ StartEnds(n) \/ RuntimeEnds(n) \/ Rotates(n)
               \/ Teardown(n) \/ TeardownFails(n) \/ PassGivesUp(n) \/ Restart(n)

Next == \/ \E c \in Calls : CallStep(c)
        \/ \E n \in Nodes : NodeStep(n)
        \/ LateRequest

Spec == Init /\ [][Next]_vars

\* The kicker of a node sweeps its virgin births periodically; requests are
\* bounded by timeouts, locks are queues, and the teardown runs on a timer.
Kickers == {c \in Calls : KindsOf[c] = {"implicit"}}

Fairness ==
  /\ \A c \in Calls : WF_vars(Advances(c))
  /\ \A c \in Kickers : WF_vars(Request(c, "implicit"))
  /\ \A n \in Seats \cup Legacy : WF_vars(Teardown(n))

FairSpec == Spec /\ Fairness

-------------------------------------------------------------------------------
(* Properties.                                                                *)

Ops == [kind : {"none", "heal"} \cup Kinds, at : Waits,
        dec : {"none", "enforce", "supersede"}, ans : Answers \cup {Pending}]
Passes == [at : {"idle", "asked"}, ans : {Pending}, seat : BOOLEAN]
            \cup [at : {"answered"}, ans : Nodes, seat : BOOLEAN]

\* A call waits in the queue of its own node once if it waits for the lock, and
\* not at all if it does not (authority-lock.ts).
QueueOK(n) ==
  /\ \A i \in 1 .. Len(queue[n]) : /\ NodeOf[queue[n][i]] = n
                                  /\ op[queue[n][i]].at = "queued"
  /\ \A i, j \in 1 .. Len(queue[n]) : queue[n][i] = queue[n][j] => i = j
  /\ \A c \in Calls : NodeOf[c] = n /\ op[c].at = "queued"
                        => \E i \in 1 .. Len(queue[n]) : queue[n][i] = c

\* The shape of the rows of the registry and of the ledgers, and of the calls.
TypeOK ==
  /\ registry \in Nodes \cup {None} /\ designation \in Nodes \cup {None}
  /\ ledger \in [Nodes -> {"none", "active", "retired"}]
  /\ selection \in [Nodes -> BOOLEAN] /\ runtime \in [Nodes -> BOOLEAN]
  /\ starting \subseteq Nodes /\ rotating \subseteq Nodes /\ outrun \subseteq Nodes
  /\ op \in [Calls -> Ops]
  /\ queue \in [Nodes -> Seq(Calls)]
  /\ late \subseteq Writes
  /\ memo \in [Nodes -> Nodes \cup {None}]
  /\ pass \in [Nodes -> Passes]
  /\ faults \in 0 .. MaxFaults
  /\ \A n \in Nodes : QueueOK(n)

\* A node whose ledger says it has the authority is the home of the registry,
\* whatever was delayed, retried, repaired or retired meanwhile: the registry is
\* written first at a birth and last at a retirement.
ActiveIsHome == \A n \in Nodes : ledger[n] = "active" => registry = n

\* Once another node may be born, the old home has no selected session that lets a
\* delivery skip the gate: the retirement fences before it gives the binding back,
\* also when it died between the mark and the fence (retirement.ts).  Only a rotation
\* that the retirement overtook may have selected one since (session-rotation.ts).
FencedBeforeReleased ==
  \A n \in Nodes : ledger[n] = "retired" /\ registry # n /\ selection[n] => n \in outrun

\* The scope lock: a retirement holds it alone (authority-lock.ts).
RetirementIsAlone ==
  \A n \in Nodes : \A c, d \in Holders(n) : op[c].kind = "retire" => c = d

Place(q, c) == {i \in 1 .. Len(q) : q[i] = c}
Ahead(q, c) == {q[i] : i \in {j \in 1 .. Len(q) : \E k \in Place(q, c) : j < k}}

\* Nobody is overtaken in the queue of the lock: of the calls ahead of a waiter none is new,
\* and who leaves the queue was first in it, or the process ended (authority-lock.ts).
NobodyIsOvertaken ==
  [][\A n \in Nodes, c \in Calls :
       Place(queue[n], c) # {} =>
         /\ Ahead(queue'[n], c) \subseteq Ahead(queue[n], c)
         /\ Place(queue'[n], c) = {} => Ahead(queue[n], c) = {} \/ queue'[n] = <<>>]_vars

\* All of it together implements the promise of a single home.
Home == INSTANCE SingleHome WITH
  home <- registry,
  authority <- {n \in Nodes : ledger[n] = "active"},
  retired <- {n \in Nodes : ledger[n] = "retired"}

ImplementsSingleHome == Home!Spec

\* Whoever waits for the scope lock gets it: neither a flow of summons starves a
\* retirement, nor retirements the summons (authority-lock.ts).
NobodyWaitsForever == \A c \in Calls : []<>(op[c].at # "queued")

Virgin(n) == designation = n /\ registry = None

\* A scope designated to a node that may still seat it is born, on it or, by a
\* start that supersedes the designation, elsewhere.
DesignatedIsBorn ==
  \A n \in {NodeOf[c] : c \in Kickers} :
    []<>(Virgin(n) => ledger[n] = "retired")

\* A seat on a node that is not the home ends, however it came to be there: the
\* seat of a node that once could home the scope, or a start that was in flight
\* when its node retired (shadow-teardown-handlers.ts).
ShadowsEnd ==
  \A n, m \in Nodes : n # m => []<>(runtime[n] => registry # m)

-------------------------------------------------------------------------------
(* What the code does not guarantee; see the README.                          *)

\* "This node takes no part in the birth; the designated node births it": not
\* when the designated node has retired the scope, and refuses it for good.
EveryDesignationIsBorn ==
  \A n \in {NodeOf[c] : c \in Kickers} : []<>~Virgin(n)

\* No selection is left that could "let a stale delivery skip fresh-establishment
\* authority": the successor that a rotation selects after the fence is one.
NoDeliverySkipsTheGate ==
  \A n \in Nodes : ledger[n] = "retired" /\ registry # n => ~selection[n]

\* "old-home runtimes must terminate before retirement": a start in flight is
\* no runtime yet.
RetiredHasNoRuntime ==
  [][\A n \in Nodes : ledger[n] = "retired" /\ runtime'[n] => runtime[n]]_vars

\* The seat that a teardown ends is never that of the home: the answer it acts
\* on may be older than the birth on its own node.
TeardownSparesTheHome ==
  [][\A n \in Nodes : Teardown(n) /\ ledger[n] = "active" => runtime'[n] = runtime[n]]_vars

=============================================================================
