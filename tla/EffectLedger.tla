------------------------------ MODULE EffectLedger ------------------------------
(***************************************************************************)
(* What carrying a ledger into a store promises, without streams, replays, *)
(* retries and crashes: the effects of an entry are committed at most once *)
(* or waived for good, in a transaction that deals with one entry; a prefix*)
(* is sealed only when all of it is dealt with, and nothing under the seal *)
(* is touched again; and the source is told only of what was sealed before.*)
(***************************************************************************)
EXTENDS Integers

CONSTANTS
  Last,     \* the entries are 1..Last
  Silent    \* entries without effects

VARIABLES
  effects,   \* how often the effects of each entry were committed
  waived,    \* entries whose effects will never be wanted
  sealed,    \* everything up to here is dealt with
  told       \* the source was told that everything up to here is dealt with

ledgerVars == <<effects, waived, sealed, told>>

Done(s) == s \in Silent \/ effects[s] = 1 \/ s \in waived

\* A store may inherit entries that were dealt with before.
Init ==
  /\ effects \in [1..Last -> {0, 1}]
  /\ waived = {}
  /\ sealed \in 0..Last /\ \A s \in 1..sealed : Done(s)
  /\ told = 0

Open(s) == s > sealed /\ s \notin Silent /\ effects[s] = 0 /\ s \notin waived

Commit(s) ==
  /\ Open(s)
  /\ effects' = [effects EXCEPT ![s] = 1]
  /\ UNCHANGED waived

Waive(s) ==
  /\ Open(s)
  /\ waived' = waived \cup {s}
  /\ UNCHANGED effects

Seal == sealed' \in sealed..Last /\ \A s \in 1..sealed' : Done(s)'

Transaction ==
  /\ (\E s \in 1..Last : Commit(s) \/ Waive(s)) \/ UNCHANGED <<effects, waived>>
  /\ Seal
  /\ UNCHANGED told

Tell ==
  /\ told' \in told..sealed
  /\ UNCHANGED <<effects, waived, sealed>>

Next == Transaction \/ Tell

Spec == Init /\ [][Next]_ledgerVars
=============================================================================
