------------------------------ MODULE DpfrComm ------------------------------
(***************************************************************************)
(* One NCCL connection of the dpfr_ib plugin (comm.cc): the sending        *)
(* DpfrComm "S" of one process and the receiving one "R" of another, each  *)
(* with a slot per plane, the TCP control socket between them, the monitor *)
(* threads of the two processes and the RC queue pairs of the fabric.      *)
(*                                                                         *)
(* A call of progress() holds the mutex of the comm and runs its phases in *)
(* order: control messages, completions, replay, recovery.  pc[s].ph names *)
(* the last phase that did something, so a phase that finds nothing to do  *)
(* costs no step; a message or completion that stays behind is one that    *)
(* had not arrived yet.  "idle" is the mutex being free.  isend, irecv and *)
(* test make a progress() call, release the mutex and take it again: here  *)
(* they are steps of an idle side.                                         *)
(*                                                                         *)
(* A monitor thread marks the plane table, takes the comm's mutex to       *)
(* notify it, and sends the event without it: three steps that those of    *)
(* the comm and of other threads fall between.                             *)
(*                                                                         *)
(* NCCL waits for one request of a connection before it makes the next,    *)
(* up to Window of them; the plugin keeps one request outstanding, so the  *)
(* request table is its first entry (allocRequest takes the first free or  *)
(* finished one).  The connection starts established.  A buffer's content  *)
(* is the number of the send it came from, 0 before any.                   *)
(*                                                                         *)
(* Left out: fatal completion codes and broken sockets, which end the      *)
(* connection; iflush, which needs no queue pair; the control budget of    *)
(* eight messages; the journal's limit of 4096 entries; the other comms of *)
(* a process, whose completion errors only reach the table this one reads. *)
(***************************************************************************)
EXTENDS QpSlot, Integers, Sequences, FiniteSets, SequencesExt

CONSTANTS
    NPlanes,        \* configured planes; slot index and plane id coincide
    Threads,        \* monitor threads of a process (TCP, UDP, probe)
    Monitored,      \* the sides whose monitors report transitions
    MaxEvents,      \* bound on the reports of all monitors
    MaxFaults,      \* bound on queue pairs that fail by themselves
    MaxTimeouts,    \* bound on the waits that time out
    MaxSkips,       \* bound on the calls refused for want of a usable plane
    MaxSteps,       \* messages NCCL sends
    Window,         \* operations NCCL keeps in flight on each side
    MaxQp           \* bound on the queue pairs a side has at one time

ASSUME DpfrCommAssumption ==
    /\ NPlanes \in Nat \ {0} /\ MaxQp \in Nat /\ MaxQp >= NPlanes
    /\ Monitored \subseteq {"S", "R"}
    /\ {MaxEvents, MaxFaults, MaxTimeouts, MaxSkips, MaxSteps, Window} \subseteq Nat

VARIABLES
    table,      \* table[s][p]: the plane table of s's process
    slots,      \* slots[s][p]: the slot of plane p
    qps,        \* qps[s][q]: the queue pair behind number q, with its queues
    net,        \* net[s]: the control messages on their way to s
    mon,        \* mon[s][t]: what monitor thread t is delivering
    pc,         \* pc[s]: where s is inside progress()
    req,        \* req[s]: the request
    nextSeq,    \* nextSeq[s]: the sequence number the next request takes
    journal,    \* the sequence numbers R has recorded as received
    nccl,       \* posted and done operations of NCCL, and R's buffers
    spent       \* how much of each bound is used

vars == <<table, slots, qps, net, mon, pc, req, nextSeq, journal, nccl, spent>>

Sides == {"S", "R"}

Peer(s) == IF s = "S" THEN "R" ELSE "S"

Planes == 0 .. NPlanes - 1

NoPlane == NPlanes

QpIds == 1 .. MaxQp

Steps == 1 .. MaxSteps

-----------------------------------------------------------------------------
\* Queue pairs.  A work request and its completion carry the wr_id: whether it
\* is the probe, and the generation; "step" is the buffer it points to.
WorkRequests == [probe : BOOLEAN, gen : Nat, step : 0 .. MaxSteps, sent : BOOLEAN]

Completions == [probe : BOOLEAN, gen : Nat, ok : BOOLEAN]

QpRecords == [dest : 0 .. MaxQp, sq : Seq(WorkRequests), rq : Seq(WorkRequests),
              cq : Seq(Completions), err : BOOLEAN]

NullQp == [dest |-> 0, sq |-> <<>>, rq |-> <<>>, cq |-> <<>>, err |-> FALSE]

ProbeRequest(g) == [probe |-> TRUE, gen |-> g, step |-> 0, sent |-> FALSE]

DataRequest(step, g) == [probe |-> FALSE, gen |-> g, step |-> step, sent |-> FALSE]

Completion(w, ok) == [probe |-> w.probe, gen |-> w.gen, ok |-> ok]

\* Posting to a queue pair in the error state flushes the request at once.
PostTo(qp, s, w) ==
    IF qp.err THEN [qp EXCEPT !.cq = Append(@, Completion(w, FALSE))]
    ELSE IF s = "S" THEN [qp EXCEPT !.sq = Append(@, w)]
    ELSE [qp EXCEPT !.rq = Append(@, w)]

LiveQps(sl) == UNION {QpsOf(sl[p]) : p \in Planes}

\* Numbers a new queue pair of s must not have: those of its live ones, and
\* those the peer's queue pairs and messages still name.
NamedQps(s) ==
    LET t == Peer(s)
    IN LiveQps(slots[s]) \cup {qps[t][q].dest : q \in LiveQps(slots[t])}
         \cup {m.qp : m \in {n \in ToSet(net[t]) : n.type \in {"RecoveryReq", "RecoveryResp"}}}

HasFreshQp(s) == ~(QpIds \subseteq NamedQps(s))

FreshQp(s) == CHOOSE q \in QpIds : q \notin NamedQps(s)

\* Slot p of s becomes sl while its queue pairs are as in q; what no endpoint
\* refers to any more is destroyed with its queues.
Install(s, p, sl, q) ==
    /\ slots' = [slots EXCEPT ![s][p] = sl]
    /\ qps' = [qps EXCEPT ![s] =
                 [i \in QpIds |-> IF i \in LiveQps(slots'[s]) THEN q[i] ELSE NullQp]]

-----------------------------------------------------------------------------
\* Requests.
RequestStates == {"Free", "Posted", "NeedsQuery", "NeedsReplay", "Done"}

Requests == [state : RequestStates, seq : Nat, step : 0 .. MaxSteps,
             plane : Planes \cup {NoPlane}, gen : Nat]

\* hasOutstandingLocked.
Outstanding(r) == r.state \in {"Posted", "NeedsQuery", "NeedsReplay"}

\* Mutant: an interrupted receive is failed.
Disturbed_mutant(s) == IF s = "S" THEN "NeedsQuery" ELSE "Failed"

\* The state a posted request falls back to when its queue pair is given up.
Disturbed(s) == IF s = "S" THEN "NeedsQuery" ELSE "NeedsReplay"

Disturb(s, r, p) ==
    IF r.state = "Posted" /\ r.plane = p THEN [r EXCEPT !.state = Disturbed(s)] ELSE r

\* Mutant: retired queue pairs are freed whether or not they are in use.
DropUnusedRetired_mutant(slot, p, r) == [slot EXCEPT !.retired = {}]

\* destroyRetiredIfUnused: the retired endpoints request r still refers to.
DropUnusedRetired(slot, p, r) ==
    [slot EXCEPT !.retired = {e \in @ : Outstanding(r) /\ r.plane = p /\ r.gen = e.gen}]

\* QpSelector::select: the first plane that is selectable, starting from the one
\* the sequence number picks.  At most one is selected.
SelectablePlanes(s) == {p \in Planes : Selectable(slots[s][p], table[s][p])}

Selected(s, seq) ==
    LET distance(p) == (p + NPlanes - (seq % NPlanes)) % NPlanes
    IN {p \in SelectablePlanes(s) : \A o \in SelectablePlanes(s) : distance(p) <= distance(o)}

\* postRequest, which fails when no plane is selectable.
CanPost(s) == SelectablePlanes(s) # {}

PostedAs(s, r, p) ==
    [r EXCEPT !.state = "Posted", !.plane = p, !.gen = slots[s][p].active.gen]

WithPosted(s, r, p) ==
    LET e == slots[s][p].active
    IN [qps EXCEPT ![s][e.qp] = PostTo(@, s, DataRequest(r.step, e.gen))]

PostRequest(s, r) ==
    \E p \in Selected(s, r.seq) :
        req' = [req EXCEPT ![s] = PostedAs(s, r, p)] /\ qps' = WithPosted(s, r, p)

-----------------------------------------------------------------------------
\* Control messages.
PlaneEvent(p, g, up) == [type |-> "PlaneEvent", plane |-> p, gen |-> g, up |-> up]

Query(seq) == [type |-> "Query", seq |-> seq]

QueryResp(seq, answer) == [type |-> "QueryResp", seq |-> seq, answer |-> answer]

RecoveryReq(p, g, q) == [type |-> "RecoveryReq", plane |-> p, gen |-> g, qp |-> q]

RecoveryResp(p, g, ok, q) ==
    [type |-> "RecoveryResp", plane |-> p, gen |-> g, ok |-> ok, qp |-> q]

RecoveryReady(p, g) == [type |-> "RecoveryReady", plane |-> p, gen |-> g]

RecoveryAck(p, g, ok) == [type |-> "RecoveryAck", plane |-> p, gen |-> g, ok |-> ok]

Messages ==
    [type : {"PlaneEvent"}, plane : Planes, gen : Nat, up : BOOLEAN]
    \cup [type : {"Query"}, seq : Nat]
    \cup [type : {"QueryResp"}, seq : Nat, answer : {"done", "posted", "retry"}]
    \cup [type : {"RecoveryReq"}, plane : Planes, gen : Nat, qp : QpIds]
    \cup [type : {"RecoveryResp"}, plane : Planes, gen : Nat, ok : {TRUE}, qp : QpIds]
    \cup [type : {"RecoveryResp"}, plane : Planes, gen : Nat, ok : {FALSE}, qp : {NoQp}]
    \cup [type : {"RecoveryReady"}, plane : Planes, gen : Nat]
    \cup [type : {"RecoveryAck"}, plane : Planes, gen : Nat, ok : BOOLEAN]

Arrived(s, type) == net[s] # <<>> /\ Head(net[s]).type = type

\* s takes the head of its socket; the second form also answers m.
Receive(s) == net' = [net EXCEPT ![s] = Tail(@)]

ReceiveAndSend(s, m) == net' = [net EXCEPT ![s] = Tail(@), ![Peer(s)] = Append(@, m)]

Send(s, m) == net' = [net EXCEPT ![Peer(s)] = Append(@, m)]

-----------------------------------------------------------------------------
\* Where a side is in progress().  "query", "resp", "ack" wait for the peer and
\* handle other messages meanwhile; "probe" and "rprobe" wait for the probe.
Phases == {"idle", "control", "cqs", "replayed", "recovered", "query", "resp",
           "probe", "ack", "mark", "rprobe", "rmark", "failed"}

Positions == [ph : Phases, plane : Planes, gen : Nat]

At(ph) == [ph |-> ph, plane |-> 0, gen |-> 0]

Goto(s, ph) == pc' = [pc EXCEPT ![s] = At(ph)]

GotoOn(s, ph, p, g) == pc' = [pc EXCEPT ![s] = [ph |-> ph, plane |-> p, gen |-> g]]

In(s, phs) == pc[s].ph \in phs

\* handleControl runs from progressControl and from the sender's waits.
MayHandle(s) == In(s, {"idle", "control", "query", "resp", "ack"})

AfterHandle(s) == IF In(s, {"idle"}) THEN Goto(s, "control") ELSE UNCHANGED pc

BeforeReplay(s) == In(s, {"idle", "control", "cqs"})

\* Nothing for the replay engine to do: it only looks at sends.
ReplaySettled ==
    /\ req["S"].state # "NeedsQuery"
    /\ ~(req["S"].state = "NeedsReplay" /\ CanPost("S"))

Spendings == [events : 0 .. MaxEvents, faults : 0 .. MaxFaults,
              timeouts : 0 .. MaxTimeouts, skips : 0 .. MaxSkips]

\* NCCL's operations and the receiver's buffers.
Progresses == [posted : [Sides -> 0 .. MaxSteps], done : [Sides -> 0 .. MaxSteps],
               buf : [Steps -> 0 .. MaxSteps]]

\* What a monitor thread has to deliver, and which step of it is next.
Deliveries == [stage : {"wait", "notify", "send"}, plane : Planes, gen : Nat, up : BOOLEAN]

NoDelivery == [stage |-> "wait", plane |-> 0, gen |-> 0, up |-> FALSE]

Use(what) == spent' = [spent EXCEPT ![what] = @ + 1]

Init ==
    /\ table = [s \in Sides |-> [p \in Planes |-> InitialEntry]]
    /\ slots = [s \in Sides |-> [p \in Planes |->
                  [state |-> "Active", active |-> [qp |-> p + 1, gen |-> 1, ready |-> TRUE],
                   shadow |-> NoEndpoint, retired |-> {}, probe |-> FreshProbe(0)]]]
    /\ qps = [s \in Sides |-> [q \in QpIds |->
                IF q <= NPlanes THEN [NullQp EXCEPT !.dest = q] ELSE NullQp]]
    /\ net = [s \in Sides |-> <<>>]
    /\ mon = [s \in Sides |-> [t \in Threads |-> NoDelivery]]
    /\ pc = [s \in Sides |-> At("idle")]
    /\ req = [s \in Sides |-> [state |-> "Free", seq |-> 0, step |-> 0,
                               plane |-> NoPlane, gen |-> 0]]
    /\ nextSeq = [s \in Sides |-> 1]
    /\ journal = {}
    /\ nccl = [posted |-> [s \in Sides |-> 0], done |-> [s \in Sides |-> 0],
               buf |-> [k \in Steps |-> 0]]
    /\ spent = [events |-> 0, faults |-> 0, timeouts |-> 0, skips |-> 0]

-----------------------------------------------------------------------------
\* Monitor threads (DpfrContext::applyPlaneEvent).
MonitorMark(s, t, p, up) ==
    LET entry == IF up THEN MarkRecovering(table[s][p]) ELSE MarkBroken(table[s][p])
    IN /\ s \in Monitored /\ spent.events < MaxEvents
       /\ mon[s][t].stage = "wait"
       /\ table' = [table EXCEPT ![s][p] = entry]
       /\ mon' = [mon EXCEPT ![s][t] =
                    [stage |-> "notify", plane |-> p, gen |-> entry.gen, up |-> up]]
       /\ Use("events")
       /\ UNCHANGED <<slots, qps, net, pc, req, nextSeq, journal, nccl>>

\* onPlaneBroken or onPlaneRecovering, under the comm's mutex.
MonitorNotify(s, t) ==
    LET m == mon[s][t]
        slot == slots[s][m.plane]
    IN /\ m.stage = "notify" /\ In(s, {"idle", "failed"})
       /\ Install(s, m.plane, IF m.up THEN OnRecovering(slot, m.gen)
                              ELSE OnBroken(slot, m.gen), qps[s])
       /\ req' = IF m.up THEN req ELSE [req EXCEPT ![s] = Disturb(s, @, m.plane)]
       /\ mon' = [mon EXCEPT ![s][t].stage = "send"]
       /\ UNCHANGED <<table, net, pc, nextSeq, journal, nccl, spent>>

MonitorSend(s, t) ==
    LET m == mon[s][t]
    IN /\ m.stage = "send"
       /\ Send(s, PlaneEvent(m.plane, m.gen, m.up))
       /\ mon' = [mon EXCEPT ![s][t] = NoDelivery]
       /\ UNCHANGED <<table, slots, qps, pc, req, nextSeq, journal, nccl, spent>>

-----------------------------------------------------------------------------
\* Control messages (handleControl).
RecvPlaneEvent(s) ==
    LET m == Head(net[s])
        slot == slots[s][m.plane]
        applies == RemoteEventApplies(table[s][m.plane], m.gen)
    IN /\ MayHandle(s) /\ Arrived(s, "PlaneEvent")
       /\ Receive(s)
       /\ AfterHandle(s)
       /\ table' = [table EXCEPT ![s][m.plane] =
                      ApplyRemoteEvent(@, m.gen, IF m.up THEN "Recovering" ELSE "Broken")]
       /\ IF applies
          THEN /\ Install(s, m.plane, IF m.up THEN OnRecovering(slot, m.gen)
                                      ELSE OnFailure(slot), qps[s])
               /\ req' = IF m.up THEN req ELSE [req EXCEPT ![s] = Disturb(s, @, m.plane)]
          ELSE UNCHANGED <<slots, qps, req>>
       /\ UNCHANGED <<mon, nextSeq, journal, nccl, spent>>

\* An answer the sender no longer waits for is ignored.
Awaited(s, m) ==
    \/ m.type = "QueryResp" /\ In(s, {"query"}) /\ m.seq = req[s].seq
    \/ /\ \/ m.type = "RecoveryResp" /\ In(s, {"resp"})
          \/ m.type = "RecoveryAck" /\ In(s, {"ack"})
       /\ m.plane = pc[s].plane /\ m.gen = pc[s].gen

IgnoreAnswer(s) ==
    /\ MayHandle(s) /\ net[s] # <<>>
    /\ Head(net[s]).type \in {"QueryResp", "RecoveryResp", "RecoveryAck"}
    /\ ~Awaited(s, Head(net[s]))
    /\ Receive(s)
    /\ AfterHandle(s)
    /\ UNCHANGED <<table, slots, qps, mon, req, nextSeq, journal, nccl, spent>>

\* handleQuery with repostRecvForSeq: answer from the journal, else post the
\* receive of that number once more, whatever state its request is in.
RecvQuery ==
    LET seq == Head(net["R"]).seq
        r == req["R"]
    IN /\ MayHandle("R") /\ Arrived("R", "Query")
       /\ AfterHandle("R")
       /\ \/ /\ seq \in journal
             /\ ReceiveAndSend("R", QueryResp(seq, "done"))
             /\ UNCHANGED <<qps, req>>
          \/ /\ seq \notin journal /\ r.seq = seq /\ r.state # "Done"
             /\ PostRequest("R", r)
             /\ ReceiveAndSend("R", QueryResp(seq, "posted"))
          \/ /\ seq \notin journal /\ r.seq = seq /\ r.state # "Done"
             /\ ~CanPost("R")
             /\ req' = [req EXCEPT !["R"].state = "NeedsReplay"]
             /\ ReceiveAndSend("R", QueryResp(seq, "retry"))
             /\ UNCHANGED qps
          \/ /\ seq \notin journal /\ (r.seq # seq \/ r.state = "Done")
             /\ ReceiveAndSend("R", QueryResp(seq, "retry"))
             /\ UNCHANGED <<qps, req>>
       /\ UNCHANGED <<table, slots, mon, nextSeq, journal, nccl, spent>>

-----------------------------------------------------------------------------
\* Completions (progressCqs).  The endpoints are polled slot after slot, and in
\* a slot the active one first; pc keeps the last one that had a completion.
PolledEndpoints(slot) ==
    {e \in {slot.active, slot.shadow} \cup slot.retired : e.qp # NoQp}

Rank(slot, e) == IF e = slot.active THEN 0 ELSE IF e = slot.shadow THEN 1 ELSE 2

PollAt(s, p, e) ==
    LET rank == Rank(slots[s][p], e)
    IN /\ BeforeReplay(s)
       /\ In(s, {"cqs"}) => p > pc[s].plane \/ (p = pc[s].plane /\ rank >= pc[s].gen)
       /\ GotoOn(s, "cqs", p, rank)

Popped(s, e) == [qps[s] EXCEPT ![e.qp].cq = Tail(@)]

HasCompletion(s, e, probe, ok) ==
    /\ qps[s][e.qp].cq # <<>>
    /\ Head(qps[s][e.qp].cq).probe = probe
    /\ Head(qps[s][e.qp].cq).ok = ok

ProbeKind(s) == IF s = "S" THEN "send" ELSE "recv"

PollProbe(s, p, e, ok) ==
    /\ PollAt(s, p, e) /\ HasCompletion(s, e, TRUE, ok)
    /\ Install(s, p, RecordProbe(slots[s][p], ProbeKind(s), Head(qps[s][e.qp].cq).gen, ok),
               Popped(s, e))
    /\ UNCHANGED <<table, net, mon, req, nextSeq, journal, nccl, spent>>

\* Only the generation tells whose completion it is; the plane is not compared.
PollStale(s, p, e, ok) ==
    /\ PollAt(s, p, e) /\ HasCompletion(s, e, FALSE, ok)
    /\ Head(qps[s][e.qp].cq).gen # req[s].gen
    /\ qps' = [qps EXCEPT ![s] = Popped(s, e)]
    /\ UNCHANGED <<table, slots, net, mon, req, nextSeq, journal, nccl, spent>>

PollSuccess(s, p, e) ==
    LET r == [req[s] EXCEPT !.state = "Done"]
    IN /\ PollAt(s, p, e) /\ HasCompletion(s, e, FALSE, TRUE)
       /\ Head(qps[s][e.qp].cq).gen = req[s].gen
       /\ req' = [req EXCEPT ![s] = r]
       /\ journal' = IF s = "R" THEN journal \cup {r.seq} ELSE journal
       /\ Install(s, p, DropUnusedRetired(slots[s][p], p, r), Popped(s, e))
       /\ UNCHANGED <<table, net, mon, nextSeq, nccl, spent>>

\* currentActiveQp: the error says something about the plane as it is now.
IsCurrent(s, p, e) ==
    LET slot == slots[s][p]
    IN e = slot.active /\ slot.state = "Active" /\ req[s].plane = p /\ req[s].gen = e.gen

\* An error of a queue pair no longer in use only puts a posted request back.
PollStaleError(s, p, e) ==
    LET r == IF req[s].state = "Posted" THEN [req[s] EXCEPT !.state = Disturbed(s)] ELSE req[s]
    IN /\ PollAt(s, p, e) /\ HasCompletion(s, e, FALSE, FALSE)
       /\ Head(qps[s][e.qp].cq).gen = req[s].gen /\ ~IsCurrent(s, p, e)
       /\ req' = [req EXCEPT ![s] = r]
       /\ Install(s, p, DropUnusedRetired(slots[s][p], p, r), Popped(s, e))
       /\ UNCHANGED <<table, net, mon, nextSeq, journal, nccl, spent>>

\* Mutant: the plane is marked broken without a new generation.
PollError_mutant(s, p, e) ==
    LET entry == [table[s][p] EXCEPT !.health = "Broken"]
    IN /\ PollAt(s, p, e) /\ HasCompletion(s, e, FALSE, FALSE)
       /\ Head(qps[s][e.qp].cq).gen = req[s].gen /\ IsCurrent(s, p, e)
       /\ table' = [table EXCEPT ![s][p] = entry]
       /\ Install(s, p, OnFailure(slots[s][p]), Popped(s, e))
       /\ req' = [req EXCEPT ![s] = Disturb(s, @, p)]
       /\ Send(s, PlaneEvent(p, entry.gen, FALSE))
       /\ UNCHANGED <<mon, nextSeq, journal, nccl, spent>>

\* markLocalPlaneBrokenFromCq: the table, the slot, the request, then the peer.
PollError(s, p, e) ==
    LET entry == MarkBroken(table[s][p])
    IN /\ PollAt(s, p, e) /\ HasCompletion(s, e, FALSE, FALSE)
       /\ Head(qps[s][e.qp].cq).gen = req[s].gen /\ IsCurrent(s, p, e)
       /\ table' = [table EXCEPT ![s][p] = entry]
       /\ Install(s, p, OnFailure(slots[s][p]), Popped(s, e))
       /\ req' = [req EXCEPT ![s] = Disturb(s, @, p)]
       /\ Send(s, PlaneEvent(p, entry.gen, FALSE))
       /\ UNCHANGED <<mon, nextSeq, journal, nccl, spent>>

PollCq(s) ==
    \E p \in Planes : \E e \in PolledEndpoints(slots[s][p]) :
        \/ \E ok \in BOOLEAN : PollProbe(s, p, e, ok) \/ PollStale(s, p, e, ok)
        \/ PollSuccess(s, p, e) \/ PollStaleError(s, p, e) \/ PollError(s, p, e)

-----------------------------------------------------------------------------
\* Replay (ReplayEngine::progress and queryRemote), on the sending side only.
StartQuery ==
    /\ BeforeReplay("S") /\ req["S"].state = "NeedsQuery"
    /\ Send("S", Query(req["S"].seq))
    /\ Goto("S", "query")
    /\ UNCHANGED <<table, slots, qps, mon, req, nextSeq, journal, nccl, spent>>

\* A request that is not done over there is posted anew at once if it can be.
Replay(r) ==
    IF CanPost("S") THEN PostRequest("S", r)
    ELSE req' = [req EXCEPT !["S"].state = "NeedsReplay"] /\ UNCHANGED qps

RecvQueryResp ==
    LET m == Head(net["S"])
    IN /\ In("S", {"query"}) /\ Arrived("S", "QueryResp") /\ Awaited("S", m)
       /\ Receive("S")
       /\ Goto("S", "replayed")
       /\ \/ m.answer = "done" /\ req' = [req EXCEPT !["S"].state = "Done"] /\ UNCHANGED qps
          \/ m.answer = "posted" /\ Replay(req["S"])
          \/ m.answer = "retry" /\ UNCHANGED <<req, qps>>
       /\ UNCHANGED <<table, slots, mon, nextSeq, journal, nccl, spent>>

QueryTimeout ==
    /\ In("S", {"query"}) /\ spent.timeouts < MaxTimeouts
    /\ Goto("S", "replayed") /\ Use("timeouts")
    /\ UNCHANGED <<table, slots, qps, net, mon, req, nextSeq, journal, nccl>>

\* A request whose query was answered while no plane was usable is posted when
\* one is, without another query.
ReplayLater ==
    /\ BeforeReplay("S") /\ req["S"].state = "NeedsReplay" /\ CanPost("S")
    /\ Replay(req["S"])
    /\ Goto("S", "replayed")
    /\ UNCHANGED <<table, slots, net, mon, nextSeq, journal, nccl, spent>>

-----------------------------------------------------------------------------
\* Recovery, driven by the sender (progressRecovery), slot after slot.
\* Mutant: only slots that onPlaneRecovering marked are recovered.
MayRecover_mutant(p) ==
    /\ slots["S"][p].state = "Rebuilding"
    /\ \/ BeforeReplay("S") /\ ReplaySettled
       \/ In("S", {"replayed"})
       \/ In("S", {"recovered"}) /\ p > pc["S"].plane

MayRecover(p) ==
    \/ BeforeReplay("S") /\ ReplaySettled
    \/ In("S", {"replayed"})
    \/ In("S", {"recovered"}) /\ p > pc["S"].plane

\* A port that is not ready yet (refreshPlaneDevice) leaves the slot alone: the
\* sender may go past a slot that needs recovery.
RecoverStart(p) ==
    LET g == table["S"][p].gen
        slot == EnsureShadow(slots["S"][p], g, FreshQp("S"))
    IN /\ MayRecover(p) /\ HasFreshQp("S")
       /\ AllowsQpRecovery(table["S"][p]) /\ ~SlotAtGeneration(slots["S"][p], g)
       /\ Install("S", p, slot, qps["S"])
       /\ Send("S", RecoveryReq(p, g, slot.shadow.qp))
       /\ GotoOn("S", "resp", p, g)
       /\ UNCHANGED <<table, mon, req, nextSeq, journal, nccl, spent>>

\* The slot the sender is recovering, and giving up on it.
Current == slots["S"][pc["S"].plane]

RecoverGiveUp ==
    /\ Install("S", pc["S"].plane, AbortRecovery(Current), qps["S"])
    /\ GotoOn("S", "recovered", pc["S"].plane, 0)

RecoverRefused ==
    LET m == Head(net["S"])
    IN /\ \/ Arrived("S", "RecoveryResp") \/ Arrived("S", "RecoveryAck")
       /\ Awaited("S", m) /\ ~m.ok
       /\ Receive("S")
       /\ RecoverGiveUp
       /\ UNCHANGED <<table, mon, req, nextSeq, journal, nccl, spent>>

\* The peer's queue pair is known: connect to it and send the probe.
RecoverConnect ==
    LET m == Head(net["S"])
        q == Current.shadow.qp
    IN /\ Arrived("S", "RecoveryResp") /\ Awaited("S", m) /\ m.ok /\ q # NoQp
       /\ Receive("S")
       /\ Install("S", m.plane, ConnectShadow(Current, m.gen),
                  [qps["S"] EXCEPT ![q] =
                     PostTo([@ EXCEPT !.dest = m.qp], "S", ProbeRequest(m.gen))])
       /\ GotoOn("S", "probe", m.plane, m.gen)
       /\ UNCHANGED <<table, mon, req, nextSeq, journal, nccl, spent>>

\* waitForInternalProbe polls the shadow's queue only.
ShadowCompletion(s, ok) ==
    HasCompletion(s, slots[s][pc[s].plane].shadow, TRUE, ok)

\* Mutant: Ready is sent without the wait for the probe.
ProbeOk_mutant ==
    /\ In("S", {"probe"})
    /\ Install("S", pc["S"].plane, RecordProbe(Current, "send", pc["S"].gen, TRUE), qps["S"])
    /\ Send("S", RecoveryReady(pc["S"].plane, pc["S"].gen))
    /\ GotoOn("S", "ack", pc["S"].plane, pc["S"].gen)
    /\ UNCHANGED <<table, mon, req, nextSeq, journal, nccl, spent>>

ProbeOk ==
    /\ In("S", {"probe"}) /\ ShadowCompletion("S", TRUE)
    /\ Install("S", pc["S"].plane, RecordProbe(Current, "send", pc["S"].gen, TRUE),
               Popped("S", Current.shadow))
    /\ Send("S", RecoveryReady(pc["S"].plane, pc["S"].gen))
    /\ GotoOn("S", "ack", pc["S"].plane, pc["S"].gen)
    /\ UNCHANGED <<table, mon, req, nextSeq, journal, nccl, spent>>

ProbeFailed ==
    /\ In("S", {"probe"})
    /\ \/ ShadowCompletion("S", FALSE) /\ UNCHANGED spent
       \/ spent.timeouts < MaxTimeouts /\ Use("timeouts")
    /\ RecoverGiveUp
    /\ UNCHANGED <<table, net, mon, req, nextSeq, journal, nccl>>

\* The receiver has committed.  The plane may have moved on meanwhile.
RecvAck ==
    LET m == Head(net["S"])
        entry == table["S"][m.plane]
    IN /\ Arrived("S", "RecoveryAck") /\ Awaited("S", m) /\ m.ok
       /\ Receive("S")
       /\ IF AllowsQpRecovery(entry) /\ entry.gen = m.gen
          THEN /\ CanCommit(Current, m.gen)
               /\ Install("S", m.plane,
                          DropUnusedRetired(CommitShadow(Current), m.plane, req["S"]), qps["S"])
               /\ GotoOn("S", "mark", m.plane, m.gen)
          ELSE RecoverGiveUp
       /\ UNCHANGED <<table, mon, req, nextSeq, journal, nccl, spent>>

\* Mutant: the plane is readmitted without another look at it.
MarkRecovered_mutant(s) ==
    /\ table' = [table EXCEPT ![s][pc[s].plane] = [gen |-> pc[s].gen, health |-> "Healthy"]]
    /\ UNCHANGED slots

\* markHealthyIfGeneration after a commit, on either side; the plane may have
\* moved on between the two, which takes the new queue pair out of use again.
MarkRecovered(s) ==
    LET p == pc[s].plane
        g == pc[s].gen
        ok == HealthyIfGenerationOK(table[s][p], g)
    IN /\ table' = [table EXCEPT ![s][p] = MarkHealthyIfGeneration(@, g)]
       /\ slots' = IF ok THEN slots ELSE [slots EXCEPT ![s][p] = Quarantine(@)]

MarkHealthyS ==
    /\ In("S", {"mark"})
    /\ MarkRecovered("S")
    /\ GotoOn("S", "recovered", pc["S"].plane, 0)
    /\ UNCHANGED <<qps, net, mon, req, nextSeq, journal, nccl, spent>>

\* A wait for the handshake's answers that times out is an error of progress(),
\* which ends the connection for NCCL.
HandshakeTimeout ==
    /\ In("S", {"resp", "ack"}) /\ spent.timeouts < MaxTimeouts
    /\ Goto("S", "failed") /\ Use("timeouts")
    /\ UNCHANGED <<table, slots, qps, net, mon, req, nextSeq, journal, nccl>>

-----------------------------------------------------------------------------
\* Mutant: a request is answered whatever the plane's generation is by now.
RecvRecoveryReq_mutant(portReady) ==
    LET m == Head(net["R"])
        q == FreshQp("R")
        shadow == EnsureShadow(AbortRecovery(slots["R"][m.plane]), m.gen, q)
        connected == [NullQp EXCEPT !.dest = m.qp]
    IN /\ portReady /\ MayHandle("R") /\ Arrived("R", "RecoveryReq") /\ HasFreshQp("R")
       /\ AfterHandle("R")
       /\ table' = [table EXCEPT !["R"][m.plane] = ApplyRemoteEvent(@, m.gen, "Recovering")]
       /\ ReceiveAndSend("R", RecoveryResp(m.plane, m.gen, TRUE, q))
       /\ Install("R", m.plane, ConnectShadow(shadow, m.gen),
                  [qps["R"] EXCEPT ![q] = PostTo(connected, "R", ProbeRequest(m.gen))])
       /\ UNCHANGED <<mon, req, nextSeq, journal, nccl, spent>>

\* The receiver's side of the handshake (handleRecoveryReq).
RecvRecoveryReq(portReady) ==
    LET m == Head(net["R"])
        entry == ApplyRemoteEvent(table["R"][m.plane], m.gen, "Recovering")
        old == slots["R"][m.plane]
        idle == IF old.shadow.qp # NoQp THEN AbortRecovery(old) ELSE old
        q == FreshQp("R")
        connected == [NullQp EXCEPT !.dest = m.qp]
    IN /\ MayHandle("R") /\ Arrived("R", "RecoveryReq") /\ HasFreshQp("R")
       /\ AfterHandle("R")
       /\ table' = [table EXCEPT !["R"][m.plane] = entry]
       /\ IF entry.gen # m.gen \/ ~AllowsQpRecovery(entry)
          THEN /\ ReceiveAndSend("R", RecoveryResp(m.plane, m.gen, FALSE, NoQp))
               /\ UNCHANGED <<slots, qps>>
          ELSE IF ~portReady
          THEN /\ ReceiveAndSend("R", RecoveryResp(m.plane, m.gen, FALSE, NoQp))
               /\ Install("R", m.plane, idle, qps["R"])
          ELSE /\ ReceiveAndSend("R", RecoveryResp(m.plane, m.gen, TRUE, q))
               /\ Install("R", m.plane, ConnectShadow(EnsureShadow(idle, m.gen, q), m.gen),
                          [qps["R"] EXCEPT ![q] =
                             PostTo(connected, "R", ProbeRequest(m.gen))])
       /\ UNCHANGED <<mon, req, nextSeq, journal, nccl, spent>>

\* Mutant: a stale Ready is dropped without an answer.
RecvRecoveryReady_mutant ==
    LET m == Head(net["R"])
        entry == table["R"][m.plane]
        slot == slots["R"][m.plane]
        stale == ~AllowsQpRecovery(entry) \/ entry.gen # m.gen \/ slot.shadow.gen # m.gen
        gone == slot.shadow.qp = NoQp \/ slot.probe.gen # m.gen
    IN /\ MayHandle("R") /\ Arrived("R", "RecoveryReady")
       /\ Receive("R")
       /\ IF stale \/ gone THEN AfterHandle("R") ELSE GotoOn("R", "rprobe", m.plane, m.gen)
       /\ UNCHANGED <<table, slots, qps, mon, req, nextSeq, journal, nccl, spent>>

\* handleRecoveryReady up to its wait for the probe; the wait fails at once
\* when the shadow is gone.
RecvRecoveryReady ==
    LET m == Head(net["R"])
        entry == table["R"][m.plane]
        slot == slots["R"][m.plane]
        stale == ~AllowsQpRecovery(entry) \/ entry.gen # m.gen \/ slot.shadow.gen # m.gen
        gone == slot.shadow.qp = NoQp \/ slot.probe.gen # m.gen
    IN /\ MayHandle("R") /\ Arrived("R", "RecoveryReady")
       /\ IF stale \/ gone
          THEN /\ ReceiveAndSend("R", RecoveryAck(m.plane, m.gen, FALSE))
               /\ IF stale THEN UNCHANGED <<slots, qps>>
                  ELSE Install("R", m.plane, AbortRecovery(slot), qps["R"])
               /\ AfterHandle("R")
          ELSE /\ Receive("R")
               /\ GotoOn("R", "rprobe", m.plane, m.gen)
               /\ UNCHANGED <<slots, qps>>
       /\ UNCHANGED <<table, mon, req, nextSeq, journal, nccl, spent>>

\* The receiver's wait ends: its probe has been received, now or when
\* progressCqs last looked, and the shadow is committed.
Probed == slots["R"][pc["R"].plane]

CommitR ==
    LET p == pc["R"].plane
        polled == ~Probed.probe.recvDone
        seen == IF polled THEN RecordProbe(Probed, "recv", pc["R"].gen, TRUE) ELSE Probed
    IN /\ In("R", {"rprobe"}) /\ ~Probed.probe.failed
       /\ polled => ShadowCompletion("R", TRUE)
       /\ Install("R", p, DropUnusedRetired(CommitShadow(seen), p, req["R"]),
                  IF polled THEN Popped("R", Probed.shadow) ELSE qps["R"])
       /\ GotoOn("R", "rmark", p, pc["R"].gen)
       /\ UNCHANGED <<table, net, mon, req, nextSeq, journal, nccl, spent>>

RProbeFailed ==
    LET p == pc["R"].plane
        failed == Probed.probe.failed \/ ShadowCompletion("R", FALSE)
    IN /\ In("R", {"rprobe"}) /\ (~failed => spent.timeouts < MaxTimeouts)
       /\ IF failed THEN UNCHANGED spent ELSE Use("timeouts")
       /\ Install("R", p, AbortRecovery(Probed), qps["R"])
       /\ Send("R", RecoveryAck(p, pc["R"].gen, FALSE))
       /\ Goto("R", "control")
       /\ UNCHANGED <<table, mon, req, nextSeq, journal, nccl>>

MarkHealthyR ==
    LET p == pc["R"].plane
    IN /\ In("R", {"rmark"})
       /\ MarkRecovered("R")
       /\ Send("R", RecoveryAck(p, pc["R"].gen,
                                HealthyIfGenerationOK(table["R"][p], pc["R"].gen)))
       /\ Goto("R", "control")
       /\ UNCHANGED <<qps, mon, req, nextSeq, journal, nccl, spent>>

\* progress() returns and the mutex is free.
Return(s) ==
    /\ \/ In(s, {"replayed", "recovered"})
       \/ In(s, {"control", "cqs"}) /\ (s = "S" => ReplaySettled)
    /\ Goto(s, "idle")
    /\ UNCHANGED <<table, slots, qps, net, mon, req, nextSeq, journal, nccl, spent>>

-----------------------------------------------------------------------------
\* NCCL's calls.  isend and irecv take a sequence number whether or not a plane
\* is usable; without one NCCL gets no request and calls again.
MayPost(s) ==
    /\ In(s, {"idle"}) /\ ~Outstanding(req[s])
    /\ nccl.posted[s] < MaxSteps /\ nccl.posted[s] < nccl.done[s] + Window

\* Mutant: the sender counts every message twice.
NewRequest_mutant(s) ==
    [state |-> "Free", seq |-> (IF s = "S" THEN 2 ELSE 1) * nextSeq[s],
     step |-> nccl.posted[s] + 1, plane |-> NoPlane, gen |-> 0]

NewRequest(s) ==
    [state |-> "Free", seq |-> nextSeq[s], step |-> nccl.posted[s] + 1,
     plane |-> NoPlane, gen |-> 0]

Post(s) ==
    LET r == NewRequest(s)
    IN /\ MayPost(s)
       /\ PostRequest(s, r)
       /\ nextSeq' = [nextSeq EXCEPT ![s] = @ + 1]
       /\ nccl' = [nccl EXCEPT !.posted[s] = @ + 1]
       /\ UNCHANGED <<table, slots, net, mon, pc, journal, spent>>

Backpressure(s) ==
    /\ MayPost(s) /\ ~CanPost(s) /\ spent.skips < MaxSkips
    /\ nextSeq' = [nextSeq EXCEPT ![s] = @ + 1]
    /\ req' = [req EXCEPT ![s] = NewRequest(s)]
    /\ Use("skips")
    /\ UNCHANGED <<table, slots, qps, net, mon, pc, journal, nccl>>

\* Mutant: a request is reported done as soon as it is posted.
Test_mutant(s) ==
    /\ In(s, {"idle"}) /\ nccl.done[s] < nccl.posted[s] /\ req[s].state \in {"Posted", "Done"}
    /\ req' = [req EXCEPT ![s].state = "Free"]
    /\ nccl' = [nccl EXCEPT !.done[s] = @ + 1]
    /\ UNCHANGED <<table, slots, qps, net, mon, pc, nextSeq, journal, spent>>

\* NCCL tests its oldest operation; every handle is the one request.
Test(s) ==
    /\ In(s, {"idle"}) /\ nccl.done[s] < nccl.posted[s] /\ req[s].state = "Done"
    /\ req' = [req EXCEPT ![s].state = "Free"]
    /\ nccl' = [nccl EXCEPT !.done[s] = @ + 1]
    /\ UNCHANGED <<table, slots, qps, net, mon, pc, nextSeq, journal, spent>>

-----------------------------------------------------------------------------
\* The fabric.  A send reaches the queue pair it is connected to when that one
\* exists, is connected back and has a receive posted (otherwise the sender's
\* queue pair waits: rnr_retry is infinite).
Reachable(s, q) ==
    LET d == qps[s][q].dest
        t == Peer(s)
    IN d \in LiveQps(slots[t]) /\ qps[t][d].dest = q /\ ~qps[t][d].err

\* The first request the queue pair has not sent yet.
NextUnsent(qp, i) ==
    ~qp.sq[i].sent /\ \A j \in 1 .. i - 1 : qp.sq[j].sent

Deliver(q) ==
    \E i \in DOMAIN qps["S"][q].sq :
        LET d == qps["S"][q].dest
            w == qps["S"][q].sq[i]
            v == Head(qps["R"][d].rq)
        IN /\ NextUnsent(qps["S"][q], i) /\ Reachable("S", q) /\ qps["R"][d].rq # <<>>
           /\ qps' = [qps EXCEPT !["S"][q].sq[i].sent = TRUE,
                                 !["R"][d].rq = Tail(@),
                                 !["R"][d].cq = Append(@, Completion(v, TRUE))]
           /\ nccl' = IF v.probe THEN nccl ELSE [nccl EXCEPT !.buf[v.step] = w.step]
           /\ UNCHANGED <<table, slots, net, mon, pc, req, nextSeq, journal, spent>>

Acknowledge(q) ==
    LET sq == qps["S"][q].sq
    IN /\ sq # <<>> /\ Head(sq).sent
       /\ qps' = [qps EXCEPT !["S"][q].sq = Tail(@),
                             !["S"][q].cq = Append(@, Completion(Head(sq), TRUE))]
       /\ UNCHANGED <<table, slots, net, mon, pc, req, nextSeq, journal, nccl, spent>>

Flushed(qp) ==
    LET failed(w) == Completion(w, FALSE)
        all == qp.sq \o qp.rq
    IN [qp EXCEPT !.err = TRUE, !.sq = <<>>, !.rq = <<>>,
                  !.cq = @ \o [i \in DOMAIN all |-> failed(all[i])]]

\* A queue pair with work posted fails: of a fault, or because what it sends
\* to is gone and its retries run out.
QpError(s, q) ==
    LET qp == qps[s][q]
    IN /\ ~qp.err /\ qp.sq \o qp.rq # <<>>
       /\ \/ qp.sq # <<>> /\ ~Reachable(s, q) /\ UNCHANGED spent
          \/ spent.faults < MaxFaults /\ Use("faults")
       /\ qps' = [qps EXCEPT ![s][q] = Flushed(qp)]
       /\ UNCHANGED <<table, slots, net, mon, pc, req, nextSeq, journal, nccl>>

-----------------------------------------------------------------------------
Fabric == \E q \in QpIds : Deliver(q) \/ Acknowledge(q) \/ \E s \in Sides : QpError(s, q)

Monitors ==
    \E s \in Sides, t \in Threads :
        \/ \E p \in Planes, up \in BOOLEAN : MonitorMark(s, t, p, up)
        \/ MonitorNotify(s, t) \/ MonitorSend(s, t)

Control == \E s \in Sides : RecvPlaneEvent(s) \/ IgnoreAnswer(s)

Sender ==
    \/ StartQuery \/ RecvQueryResp \/ QueryTimeout \/ ReplayLater
    \/ \E p \in Planes : RecoverStart(p)
    \/ RecoverRefused \/ RecoverConnect \/ ProbeOk \/ ProbeFailed \/ RecvAck
    \/ MarkHealthyS \/ HandshakeTimeout

Receiver ==
    \/ RecvQuery \/ \E ready \in BOOLEAN : RecvRecoveryReq(ready)
    \/ RecvRecoveryReady \/ CommitR \/ RProbeFailed \/ MarkHealthyR

Calls == \E s \in Sides : PollCq(s) \/ Return(s) \/ Post(s) \/ Backpressure(s) \/ Test(s)

Next == Fabric \/ Monitors \/ Control \/ Sender \/ Receiver \/ Calls

Spec == Init /\ [][Next]_vars

-----------------------------------------------------------------------------
\* Fairness.  A side in progress() goes on and returns (its control budget is
\* finite), NCCL keeps calling isend, irecv and test, each of which does its
\* work when the progress() before it has returned; a monitor thread gets the
\* mutex and its socket; the fabric delivers, acknowledges and gives up on
\* queue pairs that are gone; a port the sender or the receiver finds not ready
\* is ready in the end.  Nothing makes a fault, a report or a timeout happen.
Progress(s) ==
    \/ RecvPlaneEvent(s) \/ IgnoreAnswer(s) \/ PollCq(s) \/ Return(s)
    \/ s = "R" /\ (RecvQuery \/ RecvRecoveryReq(TRUE) \/ RecvRecoveryReady \/ CommitR
                   \/ (RProbeFailed /\ UNCHANGED spent) \/ MarkHealthyR)
    \/ s = "S" /\ (StartQuery \/ RecvQueryResp \/ ReplayLater \/ RecoverRefused
                   \/ RecoverConnect \/ ProbeOk \/ (ProbeFailed /\ UNCHANGED spent)
                   \/ RecvAck \/ MarkHealthyS)

Fairness ==
    /\ \A s \in Sides :
          /\ WF_vars(Progress(s)) /\ WF_vars(PollCq(s)) /\ WF_vars(Return(s))
          /\ SF_vars(Post(s) \/ Test(s))
    /\ \A s \in Monitored, t \in Threads :
          SF_vars(MonitorNotify(s, t)) /\ WF_vars(MonitorSend(s, t))
    /\ \A q \in QpIds :
          /\ WF_vars(Deliver(q)) /\ WF_vars(Acknowledge(q))
          /\ \A s \in Sides : WF_vars(QpError(s, q) /\ UNCHANGED spent)
    /\ \A p \in Planes : SF_vars(RecoverStart(p))
    /\ SF_vars(RecvRecoveryReq(TRUE))

FairSpec == Spec /\ Fairness

-----------------------------------------------------------------------------
(* The type of every variable, with every queue within its alphabet.       *)
TypeOK ==
    /\ table \in [Sides -> [Planes -> PlaneEntry]]
    /\ slots \in [Sides -> [Planes -> Slots(QpIds)]]
    /\ qps \in [Sides -> [QpIds -> QpRecords]]
    /\ net \in [Sides -> Seq(Messages)]
    /\ mon \in [Sides -> [Threads -> Deliveries]]
    /\ pc \in [Sides -> Positions]
    /\ req \in [Sides -> Requests]
    /\ nextSeq \in [Sides -> Nat]
    /\ journal \subseteq Nat
    /\ nccl \in Progresses
    /\ spent \in Spendings

(* A positive answer of the receiver finds the sender's shadow still there.*)
(* The sender handles the peer's plane events while it waits for the       *)
(* answer, and those destroy the shadow: progressRecovery would then hand  *)
(* a null queue pair to endpointToRtrRts, or commitShadow would fail the   *)
(* connection.  It holds because the peer sends an event only after its    *)
(* comm's mutex, and with it the answer, has been let go.                  *)
AnswerFindsShadow ==
    LET m == Head(net["S"])
    IN net["S"] # <<>> /\ m.type \in {"RecoveryResp", "RecoveryAck"} /\ Awaited("S", m) /\ m.ok
          => /\ Current.shadow.qp # NoQp /\ Current.shadow.gen = m.gen
             /\ (m.type = "RecoveryAck" => CanCommit(Current, m.gen))

(* The receiver never really blocks in handleRecoveryReady, which would    *)
(* hold the comm's mutex for ten seconds, and its half of the probe never  *)
(* fails: when it starts to wait the probe has been received, because the  *)
(* sender says Ready only after its own completion.                        *)
ProbeAlreadyArrived ==
    In("R", {"rprobe"}) =>
        ~Probed.probe.failed /\ (Probed.probe.recvDone \/ ShadowCompletion("R", TRUE))

\* A message about what the sender waits for is on its way to s.
Coming(s, type) ==
    \E m \in ToSet(net[s]) :
        /\ m.type = type
        /\ IF type \in {"Query", "QueryResp"} THEN m.seq = req["S"].seq
           ELSE m.plane = pc["S"].plane /\ m.gen = pc["S"].gen

(* The sender never waits in vain: as long as it waits for an answer, its  *)
(* question is before the receiver, the receiver is at work on it, or the  *)
(* answer is on its way, whatever changes at either end meanwhile.  Should *)
(* one be dropped, by a receiver that finds it stale or a sender that has  *)
(* moved on, the wait would end the connection.                            *)
WaitIsAnswered ==
    /\ In("S", {"query"}) => Coming("R", "Query") \/ Coming("S", "QueryResp")
    /\ In("S", {"resp"}) => Coming("R", "RecoveryReq") \/ Coming("S", "RecoveryResp")
    /\ In("S", {"ack"}) =>
          \/ Coming("R", "RecoveryReady") \/ Coming("S", "RecoveryAck")
          \/ In("R", {"rprobe", "rmark"}) /\ pc["R"].plane = pc["S"].plane
                                         /\ pc["R"].gen = pc["S"].gen

(* While the sender's slot is Active, its queue pair and the receiver's    *)
(* active one are connected to each other and of one generation: the       *)
(* handshake never commits two ends of different attempts, and the         *)
(* receiver never retires an end the sender still posts to.                *)
PairedActive ==
    \A p \in Planes :
        LET s == slots["S"][p].active
            r == slots["R"][p].active
        IN slots["S"][p].state = "Active" =>
              /\ qps["S"][s.qp].dest = r.qp /\ qps["R"][r.qp].dest = s.qp
              /\ s.gen = r.gen

(* "... then retires the old QP when no request still references its       *)
(* generation" (README of dpfr_ib): a request that is not finished always  *)
(* finds a queue pair of its generation on its plane.                      *)
RequestQpKept ==
    \A s \in Sides :
        Outstanding(req[s]) /\ req[s].plane # NoPlane =>
            \E e \in PolledEndpoints(slots[s][req[s].plane]) : e.gen = req[s].gen

(* A Posted request is never orphaned: a queue pair the comm still polls   *)
(* holds its work request or a completion for it.  One that loses both     *)
(* stays Posted for ever, and hasOutstanding refuses all later operations. *)
PostedIsTracked ==
    \A s \in Sides :
        req[s].state = "Posted" =>
            \E e \in PolledEndpoints(slots[s][req[s].plane]) :
                LET qp == qps[s][e.qp]
                IN \E w \in ToSet(qp.sq) \cup ToSet(qp.rq) \cup ToSet(qp.cq) :
                      ~w.probe /\ w.gen = req[s].gen

(* "A plane recovery event never re-admits an old QP directly" (README of  *)
(* dpfr_ib): a slot becomes Active again only with another queue pair,     *)
(* which the peer's end has been connected to.                             *)
ReadmitsReplacement ==
    \A s \in Sides, p \in Planes :
        slots[s][p].state # "Active" /\ slots'[s][p].state = "Active" =>
            LET q == slots'[s][p].active.qp
            IN q # slots[s][p].active.qp /\ qps'[s][q].dest # NoQp

NeverReadmitted == [][ReadmitsReplacement]_vars

(* What readmission rests on: a replacement is never the queue pair in     *)
(* use; once it is ready it is connected, the receiver's from the start;   *)
(* and the receiver does not lose the one whose probe it waits for.        *)
SoundReplacement(s, slot, q) ==
    slot.shadow.qp # NoQp =>
        /\ slot.shadow.qp # slot.active.qp
        /\ s = "R" => slot.shadow.ready
        /\ slot.shadow.ready => q[slot.shadow.qp].dest # NoQp

ReplacementsSound ==
    /\ \A s \in Sides, p \in Planes : SoundReplacement(s, slots[s][p], qps[s])
    /\ In("R", {"rprobe"}) => Probed.shadow.qp # NoQp

(* The connection implements the agreement on plane tables: every change   *)
(* of a table is a local report, something the peer has already reached,   *)
(* or a readmission the peer has taken part in.                            *)
Agreement == INSTANCE PlaneAgreement WITH
    FaultPlanes <- Planes, Gens <- Nat

AgreementSpec == Agreement!Spec

(* Messages arrive in the buffers of the receives they belong to:          *)
(* "send/receive operations should always match in the order they were     *)
(* posted" (README of plugins/net).                                        *)
DataCorrect == \A k \in Steps : k <= nccl.done["R"] => nccl.buf[k] = k

(* A plane both ends take for usable, or in recovery, is usable for the    *)
(* sender in the end: handshakes that are refused, fail or are overtaken   *)
(* by events are tried again until one succeeds.                           *)
Recoverable(p) == \A s \in Sides : AllowsQpRecovery(table[s][p])

SenderRecovers ==
    \A p \in Planes : <>[](Recoverable(p) => Selectable(slots["S"][p], table["S"][p]))

(* Every operation NCCL has started completes.                             *)
AllDelivered == <>(\A s \in Sides : nccl.done[s] = MaxSteps)

(* "A plane recovery event ... commits the replacement" (README of         *)
(* dpfr_ib), at both ends.                                                 *)
BothRecover ==
    \A p \in Planes :
        <>[](Recoverable(p) => \A s \in Sides : Selectable(slots[s][p], table[s][p]))

(* Traffic only stops while every plane is down (README of dpfr_ib: "If    *)
(* every plane is broken or recovering, isend/irecv returns request=NULL   *)
(* as backpressure"): with a plane usable at both ends, all is delivered.  *)
DeliveredIfUsable ==
    <>[](\E p \in Planes : \A s \in Sides : Selectable(slots[s][p], table[s][p]))
        => AllDelivered

(* "Send/receive operations should always match in the order they were     *)
(* posted" (README of plugins/net): while every plane is usable at both    *)
(* ends, the send and the receive of one message, each on the queue pair   *)
(* its plane has now, are on the same plane.  On different planes they can *)
(* not match.                                                              *)
OnCurrentQp(s) ==
    req[s].state = "Posted" /\ slots[s][req[s].plane].active.gen = req[s].gen

MatchedOnOnePlane ==
    /\ \A s \in Sides : OnCurrentQp(s) /\ SelectablePlanes(s) = Planes
    /\ req["S"].step = req["R"].step
    => req["S"].plane = req["R"].plane

=============================================================================
