--------------------------- MODULE ControlSocket ---------------------------
(***************************************************************************)
(* The control socket of a connection (peer_control.cc) at the level of    *)
(* bytes.  At each end NCCL's proxy thread and the monitor threads send    *)
(* whole messages: sendMessage holds a mutex while sendAll pushes the      *)
(* bytes piece by piece into the kernel's buffer, waiting while it is      *)
(* full.  Only the proxy thread reads: it takes all that has arrived into  *)
(* rxBuffer and pops complete messages from its front, however the bytes   *)
(* were cut on the way.                                                    *)
(*                                                                         *)
(* A piece is <<message, k>>, the k-th of the MsgLen pieces of a message.  *)
(* Cap is the number of pieces the kernel holds in one direction,          *)
(* Senders[e] are the threads of end e that send, MaxSends messages each.  *)
(* What the proxy does between its reads and its sends is left open.       *)
(* Errors and closing are left out.                                        *)
(***************************************************************************)
EXTENDS Integers, Sequences

CONSTANTS Senders, MsgLen, Cap, MaxSends

VARIABLES
    wire,    \* wire[e]: pieces in the kernel, on their way to end e
    rx,      \* rx[e]: rxBuffer of end e
    last,    \* last[e]: the message end e handled last
    pos,     \* pos[e][t]: what thread t of end e is doing
    lock,    \* lock[e]: the thread that holds sendMutex_ of end e
    sent     \* sent[e][t]: messages thread t has started to send

vars == <<wire, rx, last, pos, lock, sent>>

Ends == {"A", "B"}
Peer(e) == IF e = "A" THEN "B" ELSE "A"
Proxy == "proxy"
Threads == UNION {Senders[e] : e \in Ends} \cup {Proxy}
Nobody == "nobody"
NoMessage == [from |-> Nobody, n |-> 0]
Messages == [from : Threads, n : 1 .. MaxSends]
Garbled == [from |-> Nobody, n |-> 1]

Idle == [phase |-> "idle", msg |-> NoMessage, done |-> 0]

TypeOK ==
    /\ \A e \in Ends :
          /\ \A i \in DOMAIN wire[e] : wire[e][i] \in Messages \X (1 .. MsgLen)
          /\ \A i \in DOMAIN rx[e] : rx[e][i] \in Messages \X (1 .. MsgLen)
    /\ last \in [Ends -> Messages \cup {NoMessage}]
    /\ pos \in [Ends -> [Threads -> [phase : {"idle", "lock", "send"},
                                     msg : Messages \cup {NoMessage}, done : 0 .. MsgLen]]]
    /\ lock \in [Ends -> Threads \cup {Nobody}]
    /\ sent \in [Ends -> [Threads -> 0 .. MaxSends]]

Init ==
    /\ wire = [e \in Ends |-> <<>>]
    /\ rx = [e \in Ends |-> <<>>]
    /\ last = [e \in Ends |-> NoMessage]
    /\ pos = [e \in Ends |-> [t \in Threads |-> Idle]]
    /\ lock = [e \in Ends |-> Nobody]
    /\ sent = [e \in Ends |-> [t \in Threads |-> 0]]

-----------------------------------------------------------------------------
StartSend(e, t) ==
    /\ t \in Senders[e] /\ pos[e][t].phase = "idle" /\ sent[e][t] < MaxSends
    /\ pos' = [pos EXCEPT ![e][t] =
          [phase |-> "lock", msg |-> [from |-> t, n |-> sent[e][t] + 1], done |-> 0]]
    /\ sent' = [sent EXCEPT ![e][t] = @ + 1]
    /\ UNCHANGED <<wire, rx, last, lock>>

\* Mutant: the threads of an end send without the mutex.
Acquire_mutant(e, t) ==
    /\ pos[e][t].phase = "lock"
    /\ pos' = [pos EXCEPT ![e][t].phase = "send"]
    /\ UNCHANGED <<wire, rx, last, lock, sent>>

Acquire(e, t) ==
    /\ pos[e][t].phase = "lock" /\ lock[e] = Nobody
    /\ lock' = [lock EXCEPT ![e] = t]
    /\ pos' = [pos EXCEPT ![e][t].phase = "send"]
    /\ UNCHANGED <<wire, rx, last, sent>>

Pieces(m, from, to) == [k \in 1 .. to - from + 1 |-> <<m, from + k - 1>>]

\* One send(2) of sendAll: as many bytes as the kernel has room for, or fewer.
Push(e, t) ==
    LET p == pos[e][t]
        d == Peer(e)
    IN /\ p.phase = "send"
       /\ \E k \in p.done + 1 .. MsgLen :
             /\ Len(wire[d]) + k - p.done <= Cap
             /\ wire' = [wire EXCEPT ![d] = @ \o Pieces(p.msg, p.done + 1, k)]
             /\ pos' = [pos EXCEPT ![e][t].done = k]
       /\ UNCHANGED <<rx, last, lock, sent>>

\* Mutant: the mutex is kept.
Finish_mutant(e, t) ==
    /\ pos[e][t].phase = "send" /\ pos[e][t].done = MsgLen
    /\ pos' = [pos EXCEPT ![e][t] = Idle]
    /\ UNCHANGED <<wire, rx, last, lock, sent>>

Finish(e, t) ==
    /\ pos[e][t].phase = "send" /\ pos[e][t].done = MsgLen
    /\ pos' = [pos EXCEPT ![e][t] = Idle]
    /\ lock' = [lock EXCEPT ![e] = Nobody]
    /\ UNCHANGED <<wire, rx, last, sent>>

-----------------------------------------------------------------------------
\* What memcpy makes of the first MsgLen pieces.
Frame(buffer) ==
    IF Len(buffer) >= MsgLen /\ \A k \in 1 .. MsgLen : buffer[k] = <<buffer[1][1], k>>
    THEN buffer[1][1] ELSE Garbled

Complete(buffer) == Len(buffer) >= MsgLen

\* popMessage, by the proxy thread.
Pop(e) ==
    /\ pos[e][Proxy].phase = "idle" /\ Complete(rx[e])
    /\ last' = [last EXCEPT ![e] = Frame(rx[e])]
    /\ rx' = [rx EXCEPT ![e] = SubSeq(@, MsgLen + 1, Len(@))]
    /\ UNCHANGED <<wire, pos, lock, sent>>

\* readAvailable, when popMessage found no complete message.
Read(e) ==
    /\ pos[e][Proxy].phase = "idle" /\ ~Complete(rx[e]) /\ wire[e] # <<>>
    /\ rx' = [rx EXCEPT ![e] = @ \o wire[e]]
    /\ wire' = [wire EXCEPT ![e] = <<>>]
    /\ UNCHANGED <<last, pos, lock, sent>>

SendStep(e, t) == Acquire(e, t) \/ Push(e, t) \/ Finish(e, t)

RecvStep(e) == Pop(e) \/ Read(e)

Next == \E e \in Ends :
            \/ RecvStep(e)
            \/ \E t \in Threads : StartSend(e, t) \/ SendStep(e, t)

Spec == Init /\ [][Next]_vars

\* The threads of end e get ahead: a free mutex is handed to some thread that
\* waits for it, its holder goes on when there is room.
Sending(e) == \E t \in Threads : SendStep(e, t)

\* Threads run, and the proxy thread keeps calling progress.
FairSpec == Spec /\ \A e \in Ends : WF_vars(RecvStep(e)) /\ WF_vars(Sending(e))

-----------------------------------------------------------------------------
\* The pieces that were pushed to end e and not popped there.
Stream(e) == rx[e] \o wire[e]

\* Their messages, without one of which the last piece is still to come.
QueueOf(s) == [i \in 1 .. Len(s) \div MsgLen |-> s[i * MsgLen][1]]

Queue(e) == QueueOf(Stream(e))

Fifo == INSTANCE ControlFifo WITH queue <- [e \in Ends |-> Queue(e)]

(* However the bytes of several threads are cut and buffered, the two ends *)
(* see whole messages, each once, in the order their sends completed: the  *)
(* socket is the queue of messages that DpfrComm uses.                     *)
FifoSpec == Fifo!Spec

(* All sends end, however little room there is: no thread waits for the    *)
(* mutex or for room in the kernel's buffer for ever.                      *)
SendsEnd == <>[](\A e \in Ends, t \in Threads : pos[e][t].phase = "idle")
=============================================================================
