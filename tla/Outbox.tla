-------------------------------- MODULE Outbox --------------------------------
(***************************************************************************)
(* What forwarding a ledger promises, without cursors, batches, retries    *)
(* and crashes: the rows of each feed arrive in the order of the ledger,   *)
(* none is taken back, and only a row that can never be delivered, or that *)
(* was removed from the ledger, is left out.                               *)
(***************************************************************************)
EXTENDS Integers

CONSTANTS
  Rows,           \* <<feed, sequence>>
  Undeliverable   \* rows the receiver can never take

VARIABLES
  log,        \* rows the ledger ever held
  removed,    \* rows that were removed from it
  delivered   \* rows that arrived

vars == <<log, removed, delivered>>

\* q comes before r in the same feed.
Precedes(q, r) == q[1] = r[1] /\ q[2] < r[2]

Init == log = {} /\ removed = {} /\ delivered = {}

Append ==
  /\ \E r \in Rows \ log :
       /\ \A q \in log : ~Precedes(r, q)
       /\ log' = log \cup {r}
  /\ UNCHANGED <<removed, delivered>>

Remove ==
  /\ removed' \in SUBSET log /\ removed \subseteq removed'
  /\ UNCHANGED <<log, delivered>>

\* Rows arrive after everything before them that is still there and can be delivered.
Deliver ==
  /\ delivered' \in SUBSET log /\ delivered \subseteq delivered'
  /\ \A r \in delivered' \ delivered : \A q \in log \ (removed \cup Undeliverable) :
       Precedes(q, r) => q \in delivered'
  /\ UNCHANGED <<log, removed>>

Next == Append \/ Remove \/ Deliver

Spec == Init /\ [][Next]_vars
=============================================================================
