----------------------------- MODULE OrderedQueue -----------------------------
(***************************************************************************)
(* What a session's channels are promised, with none of the goroutines that *)
(* keep the promise: a queue from which every channel gets the events that   *)
(* concern it, each at least once or with its failure in the queue, and none *)
(* for the first time before those ahead of it.  EventDelivery implements it *)
(* with a log, a cursor and dispatchers that are cancelled and killed.       *)
(***************************************************************************)
EXTENDS Naturals

CONSTANT Channels  \* the receivers

VARIABLES open,    \* the session exists and its queue has begun
          next,    \* the number of the next event
          wanted,  \* the channels each event of the queue concerns
          settled, \* those that took it, or whose failure is on record
          passed   \* the events that are not looked at again

vars  == <<open, next, wanted, settled, passed>>
Empty == [k \in {} |-> {}]

Init == open = FALSE /\ next = 0 /\ wanted = Empty /\ settled = Empty /\ passed = {}

Open  == /\ ~open /\ open' = TRUE /\ next' \in Nat
         /\ UNCHANGED <<wanted, settled, passed>>

Close == /\ open /\ open' = FALSE /\ next' = 0
         /\ wanted' = Empty /\ settled' = Empty /\ passed' = {}

With(f, k, v)  == [j \in DOMAIN f \cup {k} |-> IF j = k THEN v ELSE f[j]]
Marked(f, c, k) == [f EXCEPT ![k] = @ \cup {c}]

(* Event k concerns c, and all ahead of it that do are settled.              *)
Due(c, k) == /\ k \in DOMAIN wanted /\ c \in wanted[k]
             /\ \A j \in DOMAIN wanted : j < k /\ c \in wanted[j] => c \in settled[j]

Publish(w) == /\ open /\ next' = next + 1
              /\ wanted' = With(wanted, next, w)
              /\ settled' = With(settled, next, {})
              /\ UNCHANGED <<open, passed>>

Take(c, k) == /\ open /\ Due(c, k)
              /\ settled' = Marked(settled, c, k)
              /\ UNCHANGED <<open, next, wanted, passed>>

(* A failure settles an event by becoming one.                               *)
Report(c, k, w) == /\ open /\ Due(c, k) /\ next' = next + 1
                   /\ wanted' = With(wanted, next, w)
                   /\ settled' = With(Marked(settled, c, k), next, {})
                   /\ UNCHANGED <<open, passed>>

(* What is passed is settled, and so is all ahead of it.  It may be less     *)
(* than before: then some is seen again.                                     *)
Pass(p) == /\ open /\ passed' = p
           /\ \A j \in p : /\ wanted[j] \subseteq settled[j]
                           /\ \A i \in DOMAIN wanted : i < j => i \in p
           /\ UNCHANGED <<open, next, wanted, settled>>

Next == \/ Open \/ Close
        \/ \E w \in SUBSET Channels : Publish(w)
        \/ \E c \in Channels : \E k \in DOMAIN wanted :
               Take(c, k) \/ \E w \in SUBSET Channels : Report(c, k, w)
        \/ \E p \in SUBSET DOMAIN wanted : Pass(p)

Spec == Init /\ [][Next]_vars
===============================================================================
