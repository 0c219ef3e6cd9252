------------------------------ MODULE VersionLog ------------------------------
(***************************************************************************)
(* What resource_store promises of a resource, with no tables, blobs or    *)
(* concurrent handlers in it: an append-only list of versions, numbered by *)
(* their place in it, and a current version that is one of them.           *)
(***************************************************************************)
EXTENDS Naturals, Sequences

CONSTANTS
  Name,      \* resource names
  Declared   \* the names with a contract, resources/<name>.py

VARIABLES
  log,       \* of each resource: for each version, whether it met its contract
  current    \* number of each resource's current version, 0 if none

vars == <<log, current>>

Init ==
  /\ log = [n \in Name |-> <<>>]
  /\ current = [n \in Name |-> 0]

Record(n, ok) ==
  /\ n \in Declared
  /\ log' = [log EXCEPT ![n] = Append(@, ok)]
  /\ UNCHANGED current

Promote(n, k) ==
  /\ k \in DOMAIN log[n]
  /\ current' = [current EXCEPT ![n] = k]
  /\ UNCHANGED log

Next ==
  \E n \in Name :
    \/ \E ok \in BOOLEAN : Record(n, ok)
    \/ \E k \in DOMAIN log[n] : Promote(n, k)

Spec == Init /\ [][Next]_vars
=============================================================================
