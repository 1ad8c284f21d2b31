-------------------------------- MODULE Fifo --------------------------------
(***************************************************************************)
(* What a caller is promised by the queues of pMINK: a bounded first in,   *)
(* first out queue.  The producer may hold back what it accepted, so only  *)
(* the oldest `visible` entries of `queue` can be taken; whatever is taken *)
(* is the oldest entry, exactly once and unchanged.                        *)
(***************************************************************************)
EXTENDS Naturals, Sequences

CONSTANTS Items,      \* what the callers exchange
          NoItem,     \* the consumer's result before the first Get
          Capacity    \* the most entries the queue ever holds

VARIABLES queue,      \* accepted and not yet taken, oldest first
          visible,    \* how many of them the consumer may take
          got         \* the consumer's last result

vars == <<queue, visible, got>>

Init == /\ queue = << >>
        /\ visible = 0
        /\ got = NoItem

\* The producer's entry is accepted.
Put == \E item \in Items : /\ Len(queue) < Capacity
                           /\ queue' = Append(queue, item)
                           /\ UNCHANGED <<visible, got>>

\* Everything accepted so far becomes visible.
Flush == /\ visible' = Len(queue)
         /\ UNCHANGED <<queue, got>>

Get == /\ visible > 0
       /\ got' = Head(queue)
       /\ queue' = Tail(queue)
       /\ visible' = visible - 1

Next == Put \/ Flush \/ Get

Spec == Init /\ [][Next]_vars

=============================================================================
