------------------------------ MODULE ClickLog ------------------------------
(***************************************************************************)
(* What the analytics pipeline promises of one click event: where RabbitMQ *)
(* has it, and how many documents MongoDB has of it.  The queue lets go of *)
(* an event on disk only when it has been stored, takes no event twice,    *)
(* and a second document comes only after a redelivery: at-least-once.     *)
(***************************************************************************)
EXTENDS Naturals

VARIABLES
  place,        \* "new", in the broker's "memory", on its "disk", or "gone"
  copies,       \* documents of the event
  again         \* it has been redelivered

logVars == <<place, copies, again>>

Queued == place \in {"memory", "disk"}

Accept == place = "new" /\ place' = "memory" /\ UNCHANGED <<copies, again>>

Persist == place = "memory" /\ place' = "disk" /\ UNCHANGED <<copies, again>>

\* A restart of the broker.
Lose == place = "memory" /\ place' = "gone" /\ UNCHANGED <<copies, again>>

Redeliver == Queued /\ again' = TRUE /\ UNCHANGED <<place, copies>>

\* Also by a worker whose message the queue has long settled.
Store ==
  /\ place # "new"
  /\ copies = 0 \/ again
  /\ copies' = copies + 1
  /\ UNCHANGED <<place, again>>

Settle == Queued /\ copies > 0 /\ place' = "gone" /\ UNCHANGED <<copies, again>>

Init == place = "new" /\ copies = 0 /\ again = FALSE

Next == Accept \/ Persist \/ Lose \/ Redeliver \/ Store \/ Settle

Spec == Init /\ [][Next]_logVars
=============================================================================
