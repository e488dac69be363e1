------------------------------ MODULE NetPipe ------------------------------
(***************************************************************************)
(* One connection of NCCL's network transport: the kernel of the sending   *)
(* GPU, the proxy that hands its data to the network plugin                *)
(* (sendProxyProgress), the proxy that receives (recvProxyProgress) and    *)
(* the kernel of the receiving GPU, for the Simple protocol and buffers    *)
(* that are not registered.  Four actors share a ring of Steps buffers at  *)
(* each end and tell one another how far they are by counters of steps     *)
(* that never go back: head gives the sender of data room, tail tells its  *)
(* receiver what is there.                                                 *)
(*                                                                         *)
(* Ops are the operations in order.  Kernels and proxies work on one at a  *)
(* time, each in its own time; an operation starts at a multiple of its    *)
(* chunk.  With Shared buffers (point-to-point) the proxy places each      *)
(* step in a pool and gives room itself.  Depth is maxDepth, the number of *)
(* steps a proxy has under way.                                            *)
(*                                                                         *)
(* The network is external: it matches sends and receives in order,        *)
(* completes them in any order, and may refuse (a NULL request).  With     *)
(* Late, received data may reach the GPU's memory after the completion of  *)
(* the receive; with Flushes, a flush completes when it has.               *)
(***************************************************************************)
EXTENDS Integers, Sequences, TLC

CONSTANTS Steps, Depth, Shared, Ops, Late, Flushes

VARIABLES
    sgpu, sproxy, rproxy, rgpu,  \* the four actors
    shead, stail, sfifo, sbuf,   \* memory of the sending rank
    rhead, rtail, roffset, rbuf, \* memory of the receiving rank
    landing,    \* landing[b]: data on its way into buffer b, or None
    sreq, rreq, \* requests of the plugin, by the slot NCCL keeps them in
    calls,      \* slices written, sends and receives posted so far
    got         \* what the receiving kernel has read, slice by slice

sender == <<sgpu, sproxy, shead, stail, sfifo, sreq>>
receiver == <<rproxy, rgpu, rhead, rtail, roffset, got>>
vars == <<sender, receiver, sbuf, rbuf, landing, rreq, calls>>

Slots == 0 .. Steps - 1
Torn == 0    \* no data, or data of which a part is missing
None == -1
Total == LET slices[k \in 0 .. Len(Ops)] ==
                 IF k = 0 THEN 0 ELSE slices[k - 1] + Ops[k].nsteps \div Ops[k].slice
         IN  slices[Len(Ops)]

NoReq == [kind |-> "none"]
Request(kind, n, where) == [kind |-> kind, n |-> n, where |-> where]

RoundUp(n, m) == m * ((n + m - 1) \div m)

\* The buffers of the slice at a step.
SliceAt(step, slice) == {(step + i) % Steps : i \in 0 .. slice - 1}

Fill(buf, where, data) == [b \in Slots |-> IF b \in where THEN data ELSE buf[b]]
Content(buf, where) ==
    LET v == buf[CHOOSE b \in where : TRUE]
    IN  IF \A b \in where : buf[b] = v THEN v ELSE Torn

\* The state of an actor at the start of operation k.
Kernel(k, step, at) ==
    [op |-> k, done |-> 0, at |-> at, where |-> {}, saw |-> Torn,
     step |-> IF k <= Len(Ops) THEN RoundUp(step, Ops[k].chunk) ELSE step]
Proxy(k, step) ==
    [op |-> k, posted |-> 0, received |-> 0, transmitted |-> 0, done |-> 0, writes |-> <<>>,
     base |-> IF k <= Len(Ops) THEN RoundUp(step, Ops[k].chunk) ELSE step]

Running(a) == a.op <= Len(Ops)
NSteps(a) == Ops[a.op].nsteps
Slice(a) == Ops[a.op].slice

Init ==
    /\ sgpu = Kernel(1, 0, "wait") /\ rgpu = Kernel(1, 0, "start")
    /\ sproxy = Proxy(1, 0) /\ rproxy = Proxy(1, 0)
    /\ shead = (IF Shared THEN -Steps ELSE 0) /\ stail = 0 /\ rhead = 0 /\ rtail = 0
    /\ sfifo = [b \in Slots |-> [full |-> FALSE, offset |-> b]]
    /\ roffset = [b \in Slots |-> b]
    /\ sbuf = [b \in Slots |-> Torn] /\ rbuf = [b \in Slots |-> Torn]
    /\ landing = [b \in Slots |-> None]
    /\ sreq = [b \in Slots |-> NoReq] /\ rreq = [b \in Slots |-> NoReq]
    /\ calls = [written |-> 0, send |-> 0, recv |-> 0]
    /\ got = <<>>

-----------------------------------------------------------------------------
\* A kernel that has posted a slice goes on to the next, or to its next
\* operation, which starts in state first.
KernelNext(g, first) ==
    IF g.done + Slice(g) = NSteps(g) THEN Kernel(g.op + 1, g.step + Slice(g), first)
    ELSE [g EXCEPT !.done = @ + Slice(g), !.step = @ + Slice(g), !.at = "wait"]

\* The sending kernel waits for room, announces the slice and writes it.
SendWait ==
    LET slot == sgpu.step % Steps
        where == IF Shared THEN {sfifo[slot].offset} ELSE SliceAt(sgpu.step, Slice(sgpu))
    IN /\ Running(sgpu) /\ sgpu.at = "wait"
       /\ shead + Steps >= sgpu.step + Slice(sgpu)
       /\ sfifo' = [sfifo EXCEPT ![slot].full = TRUE]
       /\ sbuf' = Fill(sbuf, where, Torn)
       /\ sgpu' = [sgpu EXCEPT !.at = "copy", !.where = where]
       /\ UNCHANGED <<sproxy, shead, stail, sreq, receiver, rbuf, landing, rreq, calls>>

SendPost ==
    /\ Running(sgpu) /\ sgpu.at = "copy"
    /\ sbuf' = Fill(sbuf, sgpu.where, calls.written + 1)
    /\ stail' = sgpu.step + Slice(sgpu)
    /\ calls' = [calls EXCEPT !.written = @ + 1]
    /\ sgpu' = KernelNext(sgpu, "wait")
    /\ UNCHANGED <<sproxy, shead, sfifo, sreq, receiver, rbuf, landing, rreq>>

-----------------------------------------------------------------------------
\* A proxy is done with an operation and starts the next.
ProxyNext(p) == IF p.done = NSteps(p) THEN Proxy(p.op + 1, p.base + NSteps(p)) ELSE p

\* Mutant: the depth counts from what has been transmitted.
MayPost_mutant(p) == Running(p) /\ p.posted < NSteps(p) /\ p.posted < p.transmitted + Depth

\* maxDepth counts from what is done: a buffer is not posted again before.
MayPost(p) == Running(p) /\ p.posted < NSteps(p) /\ p.posted < p.done + Depth

\* Give the kernel a buffer of the pool, if buffers are shared.
SendProxyPost ==
    LET slot == (sproxy.base + sproxy.posted) % Steps
        posted == sproxy.posted + Slice(sproxy)
    IN /\ MayPost(sproxy) /\ sproxy.writes = <<>>
       /\ IF Shared
          THEN /\ sfifo' = [sfifo EXCEPT ![slot].offset = sproxy.posted % Depth]
               /\ shead' = sproxy.base + posted - Steps
          ELSE UNCHANGED <<sfifo, shead>>
       /\ sproxy' = [sproxy EXCEPT !.posted = posted]
       /\ UNCHANGED <<sgpu, stail, sreq, receiver, sbuf, rbuf, landing, rreq, calls>>

\* Hand a slice the kernel has written to the network.
SendProxyTransmit ==
    LET step == sproxy.base + sproxy.transmitted
        slot == step % Steps
        where == IF Shared THEN {sfifo[slot].offset} ELSE SliceAt(step, Slice(sproxy))
    IN /\ Running(sproxy) /\ ~MayPost(sproxy) /\ sproxy.writes = <<>>
       /\ sproxy.transmitted < sproxy.posted
       /\ sproxy.transmitted < sproxy.done + Steps
       /\ sfifo[slot].full /\ stail > step
       /\ sreq' = [sreq EXCEPT ![slot] = Request("send", calls.send + 1, where)]
       /\ calls' = [calls EXCEPT !.send = @ + 1]
       /\ sproxy' = [sproxy EXCEPT !.transmitted = @ + Slice(sproxy)]
       /\ UNCHANGED <<sgpu, shead, stail, sfifo, receiver, sbuf, rbuf, landing, rreq>>

\* Mutant: the kernel is given room before the size of its last slice is reset.
DoneWrites_mutant == IF Shared THEN <<"size">> ELSE <<"head", "size">>

\* What the proxy writes after a send, in this order.
DoneWrites == IF Shared THEN <<"size">> ELSE <<"size", "head">>

SendProxyDone ==
    LET slot == (sproxy.base + sproxy.done) % Steps
    IN /\ Running(sproxy) /\ ~MayPost(sproxy) /\ sproxy.writes = <<>>
       /\ sproxy.done < sproxy.transmitted
       /\ sreq[slot].kind = "complete"
       /\ sreq' = [sreq EXCEPT ![slot] = NoReq]
       /\ sproxy' = [sproxy EXCEPT !.writes = DoneWrites]
       /\ UNCHANGED <<sgpu, shead, stail, sfifo, receiver, sbuf, rbuf, landing, rreq, calls>>

SendProxyWrite ==
    LET slot == (sproxy.base + sproxy.done) % Steps
        done == sproxy.done + Slice(sproxy)
        rest == Tail(sproxy.writes)
    IN /\ sproxy.writes # <<>>
       /\ IF Head(sproxy.writes) = "size"
          THEN sfifo' = [sfifo EXCEPT ![slot].full = FALSE] /\ UNCHANGED shead
          ELSE shead' = sproxy.base + done /\ UNCHANGED sfifo
       /\ sproxy' = IF rest # <<>> THEN [sproxy EXCEPT !.writes = rest]
                    ELSE ProxyNext([sproxy EXCEPT !.writes = <<>>, !.done = done])
       /\ UNCHANGED <<sgpu, stail, sreq, receiver, sbuf, rbuf, landing, rreq, calls>>

-----------------------------------------------------------------------------
\* Post a receive for the next slice.
RecvProxyPost ==
    LET step == rproxy.base + rproxy.posted
        slot == step % Steps
        where == IF Shared THEN {rproxy.posted % Depth} ELSE SliceAt(step, Slice(rproxy))
    IN /\ MayPost(rproxy)
       /\ roffset' = IF Shared THEN [roffset EXCEPT ![slot] = rproxy.posted % Depth]
                     ELSE roffset
       /\ rreq' = [rreq EXCEPT ![rproxy.posted % Steps] =
                      Request("recv", calls.recv + 1, where)]
       /\ calls' = [calls EXCEPT !.recv = @ + 1]
       /\ rproxy' = [rproxy EXCEPT !.posted = @ + Slice(rproxy)]
       /\ UNCHANGED <<sender, rgpu, rhead, rtail, got, sbuf, rbuf, landing>>

\* The oldest receive is complete, or the oldest flush.
Received ==
    rproxy.posted > rproxy.received /\ rreq[rproxy.received % Steps].kind = "complete"

Flushed ==
    /\ rproxy.received > rproxy.transmitted
    /\ rreq[rproxy.transmitted % Steps].kind \in {"none", "complete"}

\* DpfrComm::iflush returns a request that is done, and flushes nothing; as
\* the interface is documented, the request completes when the data is there.
Iflush(req) == [req EXCEPT !.kind = IF Flushes THEN "flush" ELSE "complete"]

\* A slice has been received: have it flushed.
RecvProxyReceive ==
    LET slot == rproxy.received % Steps
    IN /\ Running(rproxy) /\ Received
       /\ rreq' = [rreq EXCEPT ![slot] = IF Late THEN Iflush(@) ELSE NoReq]
       /\ rproxy' = [rproxy EXCEPT !.received = @ + Slice(rproxy)]
       /\ UNCHANGED <<sender, rgpu, rhead, rtail, roffset, got, sbuf, rbuf, landing, calls>>

\* It is in the GPU's memory: tell the kernel.  A test that found nothing to
\* receive has gone before.
RecvProxyTransmit ==
    /\ Running(rproxy) /\ ~Received /\ Flushed
    /\ rreq' = [rreq EXCEPT ![rproxy.transmitted % Steps] = NoReq]
    /\ rtail' = rproxy.base + rproxy.transmitted + Slice(rproxy)
    /\ rproxy' = [rproxy EXCEPT !.transmitted = @ + Slice(rproxy)]
    /\ UNCHANGED <<sender, rgpu, rhead, roffset, got, sbuf, rbuf, landing, calls>>

\* The kernel has read slices: their buffers can be posted again.
RecvProxyDone ==
    LET read == rhead - rproxy.base
        done == IF read < rproxy.transmitted THEN read ELSE rproxy.transmitted
    IN /\ Running(rproxy) /\ ~Received /\ ~Flushed
       /\ rproxy.transmitted > rproxy.done /\ read > rproxy.done
       /\ rproxy' = ProxyNext([rproxy EXCEPT !.done = done])
       /\ UNCHANGED <<sender, rgpu, rhead, rtail, roffset, got, sbuf, rbuf, landing, rreq, calls>>

-----------------------------------------------------------------------------
\* The receiving kernel starts: it returns the room lost to rounding.
RecvStart ==
    /\ Running(rgpu) /\ rgpu.at = "start"
    /\ rhead' = rgpu.step
    /\ rgpu' = [rgpu EXCEPT !.at = "wait"]
    /\ UNCHANGED <<sender, rproxy, rtail, roffset, got, sbuf, rbuf, landing, rreq, calls>>

RecvWait ==
    LET where == IF Shared THEN {roffset[rgpu.step % Steps]}
                 ELSE SliceAt(rgpu.step, Slice(rgpu))
    IN /\ Running(rgpu) /\ rgpu.at = "wait"
       /\ rtail >= rgpu.step + Slice(rgpu)
       /\ rgpu' = [rgpu EXCEPT !.at = "copy", !.where = where, !.saw = Content(rbuf, where)]
       /\ UNCHANGED <<sender, rproxy, rhead, rtail, roffset, got, sbuf, rbuf, landing, rreq, calls>>

\* It has read the slice, if that did not change under it, and gives room.
RecvPost ==
    LET read == Content(rbuf, rgpu.where)
    IN /\ Running(rgpu) /\ rgpu.at = "copy"
       /\ got' = Append(got, IF read = rgpu.saw THEN read ELSE Torn)
       /\ rhead' = rgpu.step + Slice(rgpu)
       /\ rgpu' = KernelNext(rgpu, "start")
       /\ UNCHANGED <<sender, rproxy, rtail, roffset, sbuf, rbuf, landing, rreq, calls>>

-----------------------------------------------------------------------------
\* The network moves a slice; send and receive are complete.
Deliver(i, j) ==
    LET data == Content(sbuf, sreq[i].where)
    IN /\ sreq[i].kind = "send" /\ rreq[j].kind = "recv" /\ sreq[i].n = rreq[j].n
       /\ sreq' = [sreq EXCEPT ![i].kind = "complete"]
       /\ rreq' = [rreq EXCEPT ![j].kind = "complete"]
       /\ IF Late THEN landing' = Fill(landing, rreq[j].where, data) /\ UNCHANGED rbuf
          ELSE rbuf' = Fill(rbuf, rreq[j].where, data) /\ UNCHANGED landing
       /\ UNCHANGED <<sgpu, sproxy, shead, stail, sfifo, receiver, sbuf, calls>>

\* Received data reaches the GPU's memory.
Land(b) ==
    /\ landing[b] # None
    /\ rbuf' = [rbuf EXCEPT ![b] = landing[b]]
    /\ landing' = [landing EXCEPT ![b] = None]
    /\ UNCHANGED <<sender, receiver, sbuf, rreq, calls>>

FlushDone(j) ==
    /\ rreq[j].kind = "flush"
    /\ \A b \in rreq[j].where : landing[b] = None
    /\ rreq' = [rreq EXCEPT ![j].kind = "complete"]
    /\ UNCHANGED <<sender, receiver, sbuf, rbuf, landing, calls>>

Network ==
    \/ \E i, j \in Slots : Deliver(i, j)
    \/ \E b \in Slots : Land(b)
    \/ \E j \in Slots : FlushDone(j)

SendKernel == SendWait \/ SendPost
SendProxy == SendProxyPost \/ SendProxyTransmit \/ SendProxyDone \/ SendProxyWrite
RecvProxy == RecvProxyPost \/ RecvProxyReceive \/ RecvProxyTransmit \/ RecvProxyDone
RecvKernel == RecvStart \/ RecvWait \/ RecvPost

Next == SendKernel \/ SendProxy \/ RecvProxy \/ RecvKernel \/ Network

Spec == Init /\ [][Next]_vars

\* Kernels run, the progress threads call both proxies again and again, and
\* the network does not refuse or delay for ever.
Fairness ==
    /\ WF_vars(SendKernel) /\ WF_vars(SendProxy)
    /\ WF_vars(RecvProxy) /\ WF_vars(RecvKernel)
    /\ WF_vars(Network)

FairSpec == Spec /\ Fairness

-----------------------------------------------------------------------------
TypeOK ==
    /\ \A b \in Slots :
          /\ sfifo[b].offset \in Slots /\ sfifo[b].full \in BOOLEAN /\ roffset[b] \in Slots
          /\ sbuf[b] \in Torn .. Total /\ rbuf[b] \in Torn .. Total
          /\ landing[b] \in None .. Total
          /\ sreq[b].kind \in {"none", "send", "complete"}
          /\ rreq[b].kind \in {"none", "recv", "flush", "complete"}
    /\ \A p \in {sproxy, rproxy} :
          /\ 0 <= p.done /\ p.done <= p.transmitted /\ p.transmitted <= p.posted
          /\ Running(p) => p.posted <= NSteps(p)

(* The receiving kernel reads the slices the sending kernel wrote, in      *)
(* order, each once and complete, although no counter says whether a       *)
(* buffer is being written or read: room and Depth keep a slice in its     *)
(* buffers at both ends until it has been sent and read.                   *)
ReadInOrder == \A i \in DOMAIN got : got[i] = i

(* All operations end at both ends: the four actors agree on where an      *)
(* operation starts and how many steps it has, and no room is lost.        *)
AllEnded ==
    /\ ~Running(sgpu) /\ ~Running(sproxy) /\ ~Running(rproxy) /\ ~Running(rgpu)
    /\ Len(got) = Total

AllOperationsEnd == <>AllEnded
=============================================================================
