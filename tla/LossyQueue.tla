----------------------------- MODULE LossyQueue -----------------------------
(***************************************************************************)
(* What a fixed bank of records promises to the one who drains it: the     *)
(* newest Capacity records that were put and not yet taken, in the order   *)
(* in which they were put.  Only the oldest are ever given up.             *)
(***************************************************************************)
EXTENDS Integers, Sequences

CONSTANTS Capacity, Entry

VARIABLES queue,  \* what a drain would deliver
          taken   \* what the last drain delivered, since it was last cleared

QueueInit == queue = << >> /\ taken = << >>

Newest(s) == IF Len(s) <= Capacity THEN s ELSE Tail(s)

Put == /\ queue' # << >>
       /\ LET e == queue'[Len(queue')]
          IN  e \in Entry /\ queue' = Newest(Append(queue, e))
       /\ UNCHANGED taken

Take == \E n \in 0 .. Len(queue) :
          /\ taken' = SubSeq(queue, 1, n)
          /\ queue' = SubSeq(queue, n + 1, Len(queue))

Clear == queue' = << >> /\ taken' = << >>

QueueNext == Put \/ Take \/ Clear

QueueSpec == QueueInit /\ [][QueueNext]_<<queue, taken>>
=============================================================================
