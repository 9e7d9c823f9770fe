----------------------------- MODULE FifoQueue -----------------------------
(***************************************************************************)
(* What LockFree::Queue promises (ABE/stl/Queue.h): push puts an element   *)
(* at the end, pop takes the one at the front.  clear is a run of pops.    *)
(***************************************************************************)
EXTENDS Sequences

CONSTANT Element

VARIABLES
    queue,  \* elements pushed and not popped
    out     \* elements popped, in order

Init == queue = <<>> /\ out = <<>>

Push == \E x \in Element :
    /\ queue' = Append(queue, x)
    /\ UNCHANGED out

Pop ==
    /\ queue # <<>>
    /\ out' = Append(out, Head(queue))
    /\ queue' = Tail(queue)

Next == Push \/ Pop

Spec == Init /\ [][Next]_<<queue, out>>

(* Whoever polls the queue gets what is in it. *)
FairSpec == Spec /\ WF_<<queue, out>>(Pop)
=============================================================================
