------------------------------- MODULE CapSlots -------------------------------
(***************************************************************************)
(* What max_up_children promises, with none of the machinery that keeps the *)
(* promise: a pool of Limit slots.  A session takes a slot only while one   *)
(* is free and gives it back at any time.  SessionLifecycle implements this *)
(* with sqlite rows, file locks and reservations.                           *)
(***************************************************************************)
EXTENDS Naturals, FiniteSets

CONSTANTS Sessions,   \* the sessions that share one cap
          Limit       \* max_up_children

VARIABLE held         \* the sessions that hold a slot

Init == held = {}

Acquire(c) == /\ c \notin held
              /\ Cardinality(held) < Limit
              /\ held' = held \cup {c}

Release(c) == held' = held \ {c}

Next == \E c \in Sessions : Acquire(c) \/ Release(c)

Spec == Init /\ [][Next]_held
===============================================================================
