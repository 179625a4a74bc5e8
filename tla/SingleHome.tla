------------------------------ MODULE SingleHome ------------------------------
(* What federation promises of one scope: it has at most one home, a node    *)
(* acts for it only while it is that home, and a node that retired the scope *)
(* never acts for it again.  How the registry, the ledgers and the requests  *)
(* between them keep the promise is the business of Placement.               *)
CONSTANTS Nodes, None

VARIABLES home,        \* the node the scope is bound to, or None
          authority,   \* the nodes that may act for the scope
          retired      \* the nodes that gave it up for good

homeVars == <<home, authority, retired>>

Init == /\ home = None
        /\ authority = {}
        /\ retired = {}

Bind(n) == /\ home = None
           /\ home' = n
           /\ UNCHANGED <<authority, retired>>

\* Only the home is granted authority, and never after it retired.
Grant(n) == /\ home = n
            /\ n \notin retired
            /\ authority' = authority \cup {n}
            /\ UNCHANGED <<home, retired>>

Retire(n) == /\ n \in authority
             /\ authority' = authority \ {n}
             /\ retired' = retired \cup {n}
             /\ UNCHANGED home

\* The home is released only after it gave the scope up.
Release(n) == /\ home = n
              /\ n \in retired
              /\ home' = None
              /\ UNCHANGED <<authority, retired>>

Next == \E n \in Nodes : Bind(n) \/ Grant(n) \/ Retire(n) \/ Release(n)

Spec == Init /\ [][Next]_homeVars
===============================================================================
