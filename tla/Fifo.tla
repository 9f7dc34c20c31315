-------------------------------- MODULE Fifo --------------------------------
(***************************************************************************)
(* What a queue between a producer and a consumer promises: items come out *)
(* in the order in which they went in, each once; an item that comes when  *)
(* the queue is full is dropped.                                           *)
(***************************************************************************)
EXTENDS Naturals, Sequences

CONSTANTS Item, Capacity

VARIABLES
    queue, \* the items put in and not yet taken
    taken  \* the item taken last, or anything before the first

Init == queue = << >>

Put(x) ==
    /\ queue' = IF Len(queue) < Capacity THEN Append(queue, x) ELSE queue
    /\ UNCHANGED taken

Get ==
    /\ queue # << >>
    /\ taken' = Head(queue)
    /\ queue' = Tail(queue)

Next == Get \/ \E x \in Item : Put(x)

Spec == Init /\ [][Next]_<<queue, taken>>
=============================================================================
