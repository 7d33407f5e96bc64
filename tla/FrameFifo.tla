----------------------------- MODULE FrameFifo -----------------------------
(***************************************************************************)
(* What packetHandler relies on: the frames the controller has accepted    *)
(* are handed over whole, in order, and each once.                         *)
(***************************************************************************)
EXTENDS Sequences

CONSTANT Contents   \* what a frame may hold

VARIABLES
    queue,      \* frames accepted and not handed over
    current     \* the frame handed over last

vars == <<queue, current>>

Init == queue = <<>> /\ current = <<>>

Accept ==
    /\ \E c \in Contents : queue' = Append(queue, c)
    /\ UNCHANGED current

Take ==
    /\ queue # <<>>
    /\ current' = Head(queue)
    /\ queue' = Tail(queue)

Next == Accept \/ Take

Spec == Init /\ [][Next]_vars

=============================================================================
