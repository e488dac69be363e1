---------------------------- MODULE ControlFifo ----------------------------
(***************************************************************************)
(* What the control socket of a connection promises to its two ends: in    *)
(* each direction the messages that were sent and not yet handled, in the  *)
(* order they were sent, and the last one handled.  DpfrComm uses the      *)
(* socket as such a queue; ControlSocket implements it.                    *)
(***************************************************************************)
EXTENDS Sequences

CONSTANTS Ends, Messages, NoMessage

VARIABLES
    queue,  \* queue[e]: the messages on their way to end e
    last    \* last[e]: the message end e handled last

Init ==
    /\ queue = [e \in Ends |-> <<>>]
    /\ last = [e \in Ends |-> NoMessage]

Send(e, m) ==
    /\ queue' = [queue EXCEPT ![e] = Append(@, m)]
    /\ UNCHANGED last

Receive(e) ==
    /\ queue[e] # <<>>
    /\ last' = [last EXCEPT ![e] = Head(queue[e])]
    /\ queue' = [queue EXCEPT ![e] = Tail(@)]

Next == \E e \in Ends : Receive(e) \/ \E m \in Messages : Send(e, m)

Spec == Init /\ [][Next]_<<queue, last>>
=============================================================================
