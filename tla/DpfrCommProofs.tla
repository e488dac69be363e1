--------------------------- MODULE DpfrCommProofs ---------------------------
(***************************************************************************)
(* The first theorems about DpfrComm, and the lemmas every other proof     *)
(* about it uses.                                                          *)
(*                                                                         *)
(* Type correctness for every value of the constants: a lemma for each     *)
(* helper on slots, queue pairs, messages and positions, one for each      *)
(* group of actions of Next, and the theorem.                              *)
(*                                                                         *)
(* Readmission: NeverReadmitted and the invariant it rests on,             *)
(* ReplacementsSound.  A step either keeps the slots' queue pairs, or      *)
(* installs one slot; for Install it is enough that the new slot's own     *)
(* replacement is sound and that, if it becomes Active, it does so with a  *)
(* new and connected queue pair.  Only the two commits need the latter.    *)
(*                                                                         *)
(* Requests: no step takes from an unfinished request the queue pair it    *)
(* refers to, and a posted one is found in a queue of that queue pair.     *)
(* RequestsSound says of each end what every step preserves: retired queue *)
(* pairs stay while the request needs them, a flush leaves a completion    *)
(* for what it takes, and what a completion or a Query finds decides       *)
(* whether the request is finished, interrupted or posted again.           *)
(*                                                                         *)
(* Data: without reports and faults the connection stays as established,   *)
(* and every message arrives in the buffer of its own receive.             *)
(***************************************************************************)
EXTENDS DpfrComm, SequenceTheorems, TLAPS

\* A function on 1 .. n is a sequence.
LEMMA SequenceOfLength ==
    ASSUME NEW S, NEW n \in Nat, NEW f \in [1 .. n -> S]
    PROVE  f \in Seq(S)
  BY SeqDef

\* abortRecovery returns a slot without a replacement, and makes none Active.
LEMMA AbortRecoveryType ==
    ASSUME NEW Q, NEW slot \in Slots(Q)
    PROVE  /\ AbortRecovery(slot) \in Slots(Q)
           /\ AbortRecovery(slot).active = slot.active
           /\ AbortRecovery(slot).shadow.qp = NoQp
           /\ AbortRecovery(slot).state = "Active" => slot.state = "Active"
<1> DEFINE e == DestroyEndpoint(slot.shadow)
           p == FreshProbe(0)
           st == IF slot.state \notin {"Rebuilding", "ReadyPending"} THEN slot.state
                 ELSE IF slot.active.qp # NoQp THEN "Quarantined" ELSE "Dead"
<1>1. e \in Endpoints(Q) /\ e.qp = NoQp
  BY DEF Slots, Endpoints, DestroyEndpoint
<1>2. p \in Probes
  BY DEF Probes, FreshProbe
<1>3. st \in {slot.state, "Quarantined", "Dead"}
  OBVIOUS
<1>4. AbortRecovery(slot) = [slot EXCEPT !.probe = p, !.shadow = e, !.state = st]
  <2> HIDE DEF p
  <2> QED BY DEF AbortRecovery, ClearProbe, ResetProbe, Slots, p
<1> HIDE DEF e, p, st
<1> QED BY <1>1, <1>2, <1>3, <1>4 DEF Slots, SlotStates

\* The operations of qp_slot.cc return a slot.
LEMMA SlotOperatorsType ==
    ASSUME NEW Q, NEW slot \in Slots(Q), NEW g \in Nat
    PROVE  /\ Quarantine(slot) \in Slots(Q)
           /\ AbortRecovery(slot) \in Slots(Q)
           /\ RetireActive(slot) \in Slots(Q)
           /\ ConnectShadow(slot, g) \in Slots(Q)
           /\ CommitShadow(slot) \in Slots(Q)
           /\ OnBroken(slot, g) \in Slots(Q)
           /\ OnRecovering(slot, g) \in Slots(Q)
           /\ OnFailure(slot) \in Slots(Q)
<1>1. Quarantine(slot) \in Slots(Q)
  BY DEF Slots, SlotStates, Quarantine
<1>2. \A s \in Slots(Q) : AbortRecovery(s) \in Slots(Q)
  BY AbortRecoveryType
<1>3. RetireActive(slot) \in Slots(Q)
  BY DEF Slots, SlotStates, Endpoints, RetireActive, NoEndpoint, NoQp
<1>4. ConnectShadow(slot, g) \in Slots(Q)
  BY DEF Slots, SlotStates, Endpoints, Probes, ConnectShadow, ResetProbe, FreshProbe
<1>5. CommitShadow(slot) \in Slots(Q)
  BY <1>3 DEF Slots, SlotStates, Endpoints, Probes, CommitShadow, ClearProbe, ResetProbe,
              FreshProbe, NoEndpoint, NoQp
<1>6. OnBroken(slot, g) \in Slots(Q)
  BY <1>1, <1>2 DEF OnBroken, Quarantine, Slots, SlotStates
<1>7. OnRecovering(slot, g) \in Slots(Q)
  BY <1>2 DEF OnRecovering, Slots, SlotStates
<1>8. OnFailure(slot) \in Slots(Q)
  BY <1>2 DEF OnFailure, Quarantine, Slots, SlotStates
<1> QED BY <1>1, <1>2, <1>3, <1>4, <1>5, <1>6, <1>7, <1>8

\* ensureRecoveryShadow, given a new queue pair, returns a slot.
LEMMA EnsureShadowType ==
    ASSUME NEW Q, NEW slot \in Slots(Q), NEW g \in Nat, NEW q \in Q
    PROVE  EnsureShadow(slot, g, q) \in Slots(Q)
  BY DEF Slots, SlotStates, Endpoints, Probes, EnsureShadow, ResetProbe, FreshProbe, NewEndpoint

\* recordInternalCqe returns a slot.
LEMMA RecordProbeType ==
    ASSUME NEW Q, NEW slot \in Slots(Q), NEW kind \in {"send", "recv"}, NEW g, NEW ok \in BOOLEAN
    PROVE  RecordProbe(slot, kind, g, ok) \in Slots(Q)
  BY DEF Slots, Probes, RecordProbe

\* Posting a work request leaves a queue pair and its connection.
LEMMA PostToType ==
    ASSUME NEW qp \in QpRecords, NEW s \in Sides, NEW w \in WorkRequests
    PROVE  /\ PostTo(qp, s, w) \in QpRecords
           /\ PostTo(qp, s, w).dest = qp.dest
<1>1. Completion(w, FALSE) \in Completions
  BY DEF Completion, Completions, WorkRequests
<1>2. /\ Append(qp.sq, w) \in Seq(WorkRequests)
      /\ Append(qp.rq, w) \in Seq(WorkRequests)
      /\ Append(qp.cq, Completion(w, FALSE)) \in Seq(Completions)
  BY <1>1, AppendProperties DEF QpRecords
<1> QED BY <1>2 DEF PostTo, QpRecords

\* So does the error state, which flushes its queues.
LEMMA FlushedType ==
    ASSUME NEW qp \in QpRecords
    PROVE  Flushed(qp) \in QpRecords /\ Flushed(qp).dest = qp.dest
<1> DEFINE all == qp.sq \o qp.rq
           failures == [i \in DOMAIN all |-> Completion(all[i], FALSE)]
<1>1. all \in Seq(WorkRequests)
  BY ConcatProperties DEF QpRecords
<1>2. failures \in Seq(Completions)
  <2> HIDE DEF all
  <2>1. DOMAIN all = 1 .. Len(all) /\ Len(all) \in Nat
    BY <1>1, LenProperties
  <2>2. \A i \in 1 .. Len(all) : all[i] \in WorkRequests
    BY <1>1
  <2>3. \A i \in 1 .. Len(all) : Completion(all[i], FALSE) \in Completions
    BY <2>2 DEF Completion, Completions, WorkRequests
  <2>4. failures \in [1 .. Len(all) -> Completions]
    BY <2>1, <2>3
  <2> HIDE DEF failures
  <2> QED BY <2>1, <2>4, SequenceOfLength
<1>3. qp.cq \o failures \in Seq(Completions)
  BY <1>2, ConcatProperties DEF QpRecords
<1>4. <<>> \in Seq(WorkRequests)
  BY EmptySeq
<1>5. Flushed(qp) = [qp EXCEPT !.err = TRUE, !.sq = <<>>, !.rq = <<>>, !.cq = qp.cq \o failures]
  BY DEF Flushed
<1> HIDE DEF failures
<1> QED BY <1>3, <1>4, <1>5 DEF QpRecords

-----------------------------------------------------------------------------
\* The sets the variables are indexed by.
LEMMA SidesAndPlanes ==
    /\ \A s \in Sides : Peer(s) \in Sides /\ Peer(s) # s
    /\ "S" \in Sides /\ "R" \in Sides
    /\ 0 \in Planes /\ Planes \subseteq Nat
    /\ QpIds \subseteq Nat /\ NoQp \notin QpIds
  BY DpfrCommAssumption DEF Sides, Peer, Planes, QpIds, NoQp

\* The messages about planes and recoveries are in the alphabet.
LEMMA MessageTypes ==
    ASSUME NEW p \in Planes, NEW g \in Nat
    PROVE  /\ \A up \in BOOLEAN : PlaneEvent(p, g, up) \in Messages
           /\ \A q \in QpIds : RecoveryReq(p, g, q) \in Messages
           /\ \A q \in QpIds : RecoveryResp(p, g, TRUE, q) \in Messages
           /\ RecoveryResp(p, g, FALSE, NoQp) \in Messages
           /\ RecoveryReady(p, g) \in Messages
           /\ \A ok \in BOOLEAN : RecoveryAck(p, g, ok) \in Messages
  BY DEF Messages, PlaneEvent, RecoveryReq, RecoveryResp, RecoveryReady, RecoveryAck

\* The messages of the replay engine are in the alphabet.
LEMMA QueryTypes ==
    ASSUME NEW seq \in Nat
    PROVE  /\ Query(seq) \in Messages
           /\ \A answer \in {"done", "posted", "retry"} : QueryResp(seq, answer) \in Messages
  BY DEF Messages, Query, QueryResp

\* The fields a message of each type has.
LEMMA MessageFields ==
    ASSUME NEW m \in Messages
    PROVE  /\ m.type \notin {"Query", "QueryResp"} => m.plane \in Planes /\ m.gen \in Nat
           /\ m.type = "PlaneEvent" => m.up \in BOOLEAN
           /\ m.type \in {"Query", "QueryResp"} => m.seq \in Nat
           /\ m.type = "QueryResp" => m.answer \in {"done", "posted", "retry"}
           /\ m.type = "RecoveryReq" => m.qp \in QpIds
           /\ m.type = "RecoveryResp" => m.ok \in BOOLEAN /\ (m.ok => m.qp \in QpIds)
           /\ m.type = "RecoveryAck" => m.ok \in BOOLEAN
  BY DEF Messages

\* What Send, Receive and ReceiveAndSend leave on the sockets.
LEMMA SocketTypes ==
    ASSUME net \in [Sides -> Seq(Messages)], NEW s \in Sides
    PROVE  /\ net[s] # <<>> => Head(net[s]) \in Messages
           /\ net[s] # <<>> /\ Receive(s) => net' \in [Sides -> Seq(Messages)]
           /\ \A m \in Messages : Send(s, m) => net' \in [Sides -> Seq(Messages)]
           /\ \A m \in Messages : net[s] # <<>> /\ ReceiveAndSend(s, m)
                 => net' \in [Sides -> Seq(Messages)]
<1>1. Peer(s) \in Sides /\ Peer(s) # s
  BY SidesAndPlanes
<1>2. net[s] # <<>> => Head(net[s]) \in Messages /\ Tail(net[s]) \in Seq(Messages)
  BY HeadTailProperties
<1>3. \A m \in Messages : Append(net[Peer(s)], m) \in Seq(Messages)
  BY <1>1, AppendProperties
<1>4. net[s] # <<>> /\ Receive(s) => net' \in [Sides -> Seq(Messages)]
  BY <1>2 DEF Receive
<1>5. ASSUME NEW m \in Messages
      PROVE  /\ Send(s, m) => net' \in [Sides -> Seq(Messages)]
             /\ net[s] # <<>> /\ ReceiveAndSend(s, m) => net' \in [Sides -> Seq(Messages)]
  BY <1>1, <1>2, <1>3 DEF Send, ReceiveAndSend
<1> QED BY <1>2, <1>4, <1>5

\* The positions progress() can move to.
LEMMA GotoType ==
    ASSUME pc \in [Sides -> Positions],
           NEW s \in Sides, NEW ph \in Phases
    PROVE  /\ Goto(s, ph) => pc' \in [Sides -> Positions]
           /\ \A p \in Planes, g \in Nat :
                 GotoOn(s, ph, p, g) => pc' \in [Sides -> Positions]
           /\ AfterHandle(s) => pc' \in [Sides -> Positions]
  BY SidesAndPlanes DEF Positions, Goto, GotoOn, At, AfterHandle, Phases

\* Installing a slot, with its queue pairs or without those it lost.
LEMMA InstallType ==
    ASSUME slots \in [Sides -> [Planes -> Slots(QpIds)]],
           qps \in [Sides -> [QpIds -> QpRecords]],
           NEW s \in Sides, NEW p \in Planes, NEW sl \in Slots(QpIds),
           NEW q \in [QpIds -> QpRecords], Install(s, p, sl, q)
    PROVE  /\ slots' \in [Sides -> [Planes -> Slots(QpIds)]]
           /\ qps' \in [Sides -> [QpIds -> QpRecords]]
<1>1. NullQp \in QpRecords
  BY EmptySeq, DpfrCommAssumption DEF NullQp, QpRecords
<1>2. slots' \in [Sides -> [Planes -> Slots(QpIds)]]
  BY DEF Install
<1>3. [i \in QpIds |-> IF i \in LiveQps(slots'[s]) THEN q[i] ELSE NullQp]
        \in [QpIds -> QpRecords]
  BY <1>1
<1>4. qps' = [qps EXCEPT ![s] =
                 [i \in QpIds |-> IF i \in LiveQps(slots'[s]) THEN q[i] ELSE NullQp]]
  BY DEF Install
<1> QED BY <1>2, <1>3, <1>4

\* The operations of the plane table return an entry.
LEMMA EntryTypes ==
    ASSUME NEW e \in PlaneEntry, NEW g \in Nat, NEW h \in PlaneHealth
    PROVE  /\ MarkBroken(e) \in PlaneEntry
           /\ MarkRecovering(e) \in PlaneEntry
           /\ ApplyRemoteEvent(e, g, h) \in PlaneEntry
           /\ MarkHealthyIfGeneration(e, g) \in PlaneEntry
  BY DEF MarkBroken, MarkRecovering, MarkAs, ApplyRemoteEvent, MarkHealthyIfGeneration,
         PlaneEntry, PlaneHealth

\* A request that falls back is a request.
LEMMA DisturbType ==
    ASSUME NEW s, NEW r \in Requests, NEW p
    PROVE  Disturb(s, r, p) \in Requests
  BY DEF Disturb, Disturbed, Requests, RequestStates

\* destroyRetiredIfUnused returns a slot.
LEMMA DropUnusedRetiredType ==
    ASSUME NEW slot \in Slots(QpIds), NEW p, NEW r
    PROVE  DropUnusedRetired(slot, p, r) \in Slots(QpIds)
<1>1. {e \in slot.retired : Outstanding(r) /\ r.plane = p /\ r.gen = e.gen}
         \in SUBSET Endpoints(QpIds)
  BY DEF Slots
<1> QED BY <1>1 DEF DropUnusedRetired, Slots

\* The types of one side's state.
LEMMA StateTypes ==
    ASSUME TypeOK, NEW s \in Sides
    PROVE  /\ \A p \in Planes : table[s][p] \in PlaneEntry /\ slots[s][p] \in Slots(QpIds)
           /\ \A q \in QpIds : qps[s][q] \in QpRecords
           /\ qps[s] \in [QpIds -> QpRecords]
           /\ net[s] # <<>> => Head(net[s]) \in Messages
           /\ pc[s].ph \in Phases /\ pc[s].plane \in Planes /\ pc[s].gen \in Nat
           /\ req[s] \in Requests
           /\ nextSeq[s] \in Nat
           /\ nccl.posted[s] \in 0 .. MaxSteps /\ nccl.done[s] \in 0 .. MaxSteps
  BY SocketTypes DEF TypeOK, Positions, Progresses

\* The request NCCL's next call makes.
LEMMA NewRequestType ==
    ASSUME TypeOK, NEW s \in Sides, MayPost(s)
    PROVE  NewRequest(s) \in Requests
<1>1. nextSeq[s] \in Nat /\ nccl.posted[s] \in 0 .. MaxSteps
  BY StateTypes
<1>2. nccl.posted[s] + 1 \in 0 .. MaxSteps
  BY <1>1, DpfrCommAssumption DEF MayPost
<1>3. "Free" \in RequestStates /\ NoPlane \in Planes \cup {NoPlane} /\ 0 \in Nat
  BY DEF RequestStates
<1> QED BY <1>1, <1>2, <1>3 DEF NewRequest, Requests

\* The bounds are kept by what uses them up.
LEMMA SpentType ==
    ASSUME TypeOK
    PROVE  /\ spent.events < MaxEvents /\ Use("events") => spent' \in Spendings
           /\ spent.faults < MaxFaults /\ Use("faults") => spent' \in Spendings
           /\ spent.timeouts < MaxTimeouts /\ Use("timeouts") => spent' \in Spendings
           /\ spent.skips < MaxSkips /\ Use("skips") => spent' \in Spendings
<1>1. {MaxEvents, MaxFaults, MaxTimeouts, MaxSkips} \subseteq Nat
  BY DpfrCommAssumption
<1>2. spent \in Spendings
  BY DEF TypeOK
<1> QED BY <1>1, <1>2 DEF Use, Spendings

\* Steps of the monitor threads.
LEMMA MonitorsType ==
    ASSUME TypeOK, Monitors
    PROVE  TypeOK'
<1>1. PICK s \in Sides, t \in Threads :
          \/ \E p \in Planes, up \in BOOLEAN : MonitorMark(s, t, p, up)
          \/ MonitorNotify(s, t) \/ MonitorSend(s, t)
  BY DEF Monitors
<1>2. /\ mon[s][t].plane \in Planes /\ mon[s][t].gen \in Nat /\ mon[s][t].up \in BOOLEAN
      /\ mon[s][t] \in Deliveries
  BY DEF TypeOK, Deliveries
<1>3. ASSUME NEW p \in Planes, NEW up \in BOOLEAN, MonitorMark(s, t, p, up)
      PROVE  TypeOK'
  <2> DEFINE entry == IF up THEN MarkRecovering(table[s][p]) ELSE MarkBroken(table[s][p])
  <2>1. entry \in PlaneEntry
    BY StateTypes, EntryTypes DEF PlaneHealth
  <2>2. /\ table' = [table EXCEPT ![s][p] = entry]
        /\ mon' = [mon EXCEPT ![s][t] =
                    [stage |-> "notify", plane |-> p, gen |-> entry.gen, up |-> up]]
        /\ spent.events < MaxEvents /\ Use("events")
        /\ UNCHANGED <<slots, qps, net, pc, req, nextSeq, journal, nccl>>
    BY <1>3 DEF MonitorMark
  <2> HIDE DEF entry
  <2>3. table' \in [Sides -> [Planes -> PlaneEntry]]
    BY <2>1, <2>2 DEF TypeOK
  <2>4. [stage |-> "notify", plane |-> p, gen |-> entry.gen, up |-> up] \in
           Deliveries
    BY <2>1 DEF PlaneEntry, Deliveries
  <2>5. mon' \in [Sides -> [Threads -> Deliveries]]
    BY <2>2, <2>4 DEF TypeOK
  <2> QED BY <2>2, <2>3, <2>5, SpentType DEF TypeOK
<1>4. CASE MonitorNotify(s, t)
  <2> DEFINE p == mon[s][t].plane
             sl == IF mon[s][t].up THEN OnRecovering(slots[s][p], mon[s][t].gen)
                   ELSE OnBroken(slots[s][p], mon[s][t].gen)
  <2>1. sl \in Slots(QpIds)
    BY <1>2, StateTypes, SlotOperatorsType
  <2>2. /\ Install(s, p, sl, qps[s])
        /\ req' = IF mon[s][t].up THEN req ELSE [req EXCEPT ![s] = Disturb(s, @, p)]
        /\ mon' = [mon EXCEPT ![s][t].stage = "send"]
        /\ UNCHANGED <<table, net, pc, nextSeq, journal, nccl, spent>>
    BY <1>4 DEF MonitorNotify
  <2> HIDE DEF sl
  <2>3. slots' \in [Sides -> [Planes -> Slots(QpIds)]] /\ qps' \in [Sides -> [QpIds -> QpRecords]]
    BY <1>2, <2>1, <2>2, StateTypes, InstallType DEF TypeOK
  <2>4. req' \in [Sides -> Requests]
    BY <2>2, StateTypes, DisturbType DEF TypeOK
  <2>5. [mon[s][t] EXCEPT !.stage = "send"] \in Deliveries
    BY <1>2 DEF Deliveries
  <2>6. mon' \in [Sides -> [Threads -> Deliveries]]
    BY <2>2, <2>5 DEF TypeOK
  <2> QED BY <2>2, <2>3, <2>4, <2>6 DEF TypeOK
<1>5. CASE MonitorSend(s, t)
  <2>1. /\ Send(s, PlaneEvent(mon[s][t].plane, mon[s][t].gen, mon[s][t].up))
        /\ mon' = [mon EXCEPT ![s][t] = NoDelivery]
        /\ UNCHANGED <<table, slots, qps, pc, req, nextSeq, journal, nccl, spent>>
    BY <1>5 DEF MonitorSend
  <2>2. net' \in [Sides -> Seq(Messages)]
    BY <1>2, <2>1, MessageTypes, SocketTypes DEF TypeOK
  <2>3. mon' \in [Sides -> [Threads -> Deliveries]]
    BY <2>1, SidesAndPlanes DEF TypeOK, NoDelivery, Deliveries
  <2> QED BY <2>1, <2>2, <2>3 DEF TypeOK
<1> QED BY <1>1, <1>3, <1>4, <1>5

\* Control messages both sides handle alike.
LEMMA ControlType ==
    ASSUME TypeOK, Control
    PROVE  TypeOK'
<1>1. PICK s \in Sides : RecvPlaneEvent(s) \/ IgnoreAnswer(s)
  BY DEF Control
<1>2. CASE RecvPlaneEvent(s)
  <2> DEFINE m == Head(net[s])
             p == m.plane
             health == IF m.up THEN "Recovering" ELSE "Broken"
             sl == IF m.up THEN OnRecovering(slots[s][p], m.gen) ELSE OnFailure(slots[s][p])
  <2>1. net[s] # <<>> /\ p \in Planes /\ m.gen \in Nat /\ health \in PlaneHealth
    BY <1>2, StateTypes, MessageFields DEF RecvPlaneEvent, Arrived, PlaneHealth
  <2>2. sl \in Slots(QpIds)
    BY <2>1, StateTypes, SlotOperatorsType
  <2>3. /\ Receive(s) /\ AfterHandle(s)
        /\ table' = [table EXCEPT ![s][p] = ApplyRemoteEvent(@, m.gen, health)]
        /\ \/ /\ Install(s, p, sl, qps[s])
              /\ req' = req \/ req' = [req EXCEPT ![s] = Disturb(s, @, p)]
           \/ UNCHANGED <<slots, qps, req>>
        /\ UNCHANGED <<mon, nextSeq, journal, nccl, spent>>
    BY <1>2 DEF RecvPlaneEvent
  <2> HIDE DEF sl, health, p
  <2>4. table' \in [Sides -> [Planes -> PlaneEntry]]
    BY <2>1, <2>3, StateTypes, EntryTypes DEF TypeOK
  <2>5. slots' \in [Sides -> [Planes -> Slots(QpIds)]] /\ qps' \in [Sides -> [QpIds -> QpRecords]]
    BY <2>1, <2>2, <2>3, StateTypes, InstallType DEF TypeOK
  <2>6. req' \in [Sides -> Requests]
    <3>1. Disturb(s, req[s], p) \in Requests
      BY StateTypes, DisturbType
    <3> QED BY <2>3, <3>1 DEF TypeOK
  <2>7. net' \in [Sides -> Seq(Messages)] /\ pc' \in [Sides -> Positions]
    BY <2>1, <2>3, SocketTypes, GotoType DEF TypeOK, Phases
  <2> QED BY <2>3, <2>4, <2>5, <2>6, <2>7 DEF TypeOK
<1>3. CASE IgnoreAnswer(s)
  <2>1. net' \in [Sides -> Seq(Messages)] /\ pc' \in [Sides -> Positions]
    BY <1>3, SocketTypes, GotoType DEF TypeOK, IgnoreAnswer, Phases
  <2> QED BY <1>3, <2>1 DEF IgnoreAnswer, TypeOK
<1> QED BY <1>1, <1>2, <1>3

-----------------------------------------------------------------------------
\* postRequest.
LEMMA PostRequestType ==
    ASSUME TypeOK, NEW s \in Sides, NEW r \in Requests, PostRequest(s, r)
    PROVE  req' \in [Sides -> Requests] /\ qps' \in [Sides -> [QpIds -> QpRecords]]
<1>1. PICK p \in Planes : /\ Selectable(slots[s][p], table[s][p])
                          /\ req' = [req EXCEPT ![s] = PostedAs(s, r, p)]
                          /\ qps' = WithPosted(s, r, p)
  BY DEF PostRequest, Selected, SelectablePlanes
<1> DEFINE e == slots[s][p].active
           w == DataRequest(r.step, e.gen)
<1>2. e.qp \in QpIds /\ e.gen \in Nat
  BY <1>1, StateTypes DEF Selectable, SlotAtGeneration, Slots, Endpoints
<1>3. w \in WorkRequests
  BY <1>2 DEF DataRequest, WorkRequests, Requests
<1>4. PostTo(qps[s][e.qp], s, w) \in QpRecords
  BY <1>2, <1>3, StateTypes, PostToType
<1>5. qps' = [qps EXCEPT ![s][e.qp] = PostTo(@, s, w)]
  BY <1>1 DEF WithPosted
<1>6. PostedAs(s, r, p) \in Requests
  BY <1>2 DEF PostedAs, Requests, RequestStates
<1> HIDE DEF e, w
<1>7. qps' \in [Sides -> [QpIds -> QpRecords]]
  BY <1>2, <1>4, <1>5 DEF TypeOK
<1>8. req' \in [Sides -> Requests]
  BY <1>1, <1>6 DEF TypeOK
<1> QED BY <1>7, <1>8

\* Changing a request's state.
LEMMA RequestStateType ==
    ASSUME NEW r \in Requests, NEW state \in RequestStates
    PROVE  [r EXCEPT !.state = state] \in Requests
  BY DEF Requests

\* handleQuery.
LEMMA QueryType ==
    ASSUME TypeOK, RecvQuery
    PROVE  TypeOK'
<1> DEFINE seq == Head(net["R"]).seq
           r == req["R"]
<1>1. /\ net["R"] # <<>> /\ seq \in Nat /\ r \in Requests
  BY StateTypes, SidesAndPlanes, MessageFields DEF RecvQuery, Arrived
<1>2. /\ AfterHandle("R")
      /\ \E answer \in {"done", "posted", "retry"} : ReceiveAndSend("R", QueryResp(seq, answer))
      /\ \/ UNCHANGED <<qps, req>>
         \/ PostRequest("R", r)
         \/ req' = [req EXCEPT !["R"].state = "NeedsReplay"] /\ UNCHANGED qps
      /\ UNCHANGED <<table, slots, mon, nextSeq, journal, nccl, spent>>
  BY DEF RecvQuery
<1>3. net' \in [Sides -> Seq(Messages)] /\ pc' \in [Sides -> Positions]
  BY <1>1, <1>2, SidesAndPlanes, QueryTypes, SocketTypes, GotoType DEF TypeOK, Phases
<1>4. [r EXCEPT !.state = "NeedsReplay"] \in Requests
  BY <1>1, RequestStateType DEF RequestStates
<1>5. req' \in [Sides -> Requests] /\ qps' \in [Sides -> [QpIds -> QpRecords]]
  <2>1. CASE UNCHANGED <<qps, req>>
    BY <2>1 DEF TypeOK
  <2>2. CASE PostRequest("R", r)
    BY <1>1, <2>2, PostRequestType, SidesAndPlanes
  <2>3. CASE req' = [req EXCEPT !["R"].state = "NeedsReplay"] /\ UNCHANGED qps
    BY <1>4, <2>3, SidesAndPlanes DEF TypeOK
  <2> QED BY <1>2, <2>1, <2>2, <2>3
<1> QED BY <1>2, <1>3, <1>5 DEF TypeOK

-----------------------------------------------------------------------------
\* Polling a completion from one of a slot's queue pairs.
LEMMA PoppedType ==
    ASSUME TypeOK, NEW s \in Sides, NEW p \in Planes, NEW e \in PolledEndpoints(slots[s][p]),
           qps[s][e.qp].cq # <<>>
    PROVE  /\ Popped(s, e) \in [QpIds -> QpRecords]
           /\ \A q \in QpIds : Popped(s, e)[q].dest = qps[s][q].dest
           /\ Head(qps[s][e.qp].cq) \in Completions
<1>1. e.qp \in QpIds
  BY StateTypes DEF PolledEndpoints, Slots, Endpoints
<1>2. qps[s][e.qp].cq \in Seq(Completions)
  BY <1>1, StateTypes DEF QpRecords
<1>3. Tail(qps[s][e.qp].cq) \in Seq(Completions) /\ Head(qps[s][e.qp].cq) \in Completions
  BY <1>2, HeadTailProperties
<1>4. [qps[s][e.qp] EXCEPT !.cq = Tail(qps[s][e.qp].cq)] \in QpRecords
  BY <1>1, <1>3, StateTypes DEF QpRecords
<1>5. Popped(s, e) = [qps[s] EXCEPT ![e.qp] = [qps[s][e.qp] EXCEPT !.cq = Tail(qps[s][e.qp].cq)]]
  BY DEF Popped
<1>6. [qps[s][e.qp] EXCEPT !.cq = Tail(qps[s][e.qp].cq)].dest = qps[s][e.qp].dest
  BY <1>1, StateTypes DEF QpRecords
<1>7. qps[s] \in [QpIds -> QpRecords]
  BY StateTypes
<1> HIDE DEF Popped
<1>8. Popped(s, e) \in [QpIds -> QpRecords]
  BY <1>1, <1>4, <1>5, <1>7
<1>9. \A q \in QpIds : Popped(s, e)[q].dest = qps[s][q].dest
  BY <1>1, <1>5, <1>6, <1>7
<1> QED BY <1>3, <1>8, <1>9

\* progressCqs.
LEMMA PollCqType ==
    ASSUME TypeOK, NEW s \in Sides, PollCq(s)
    PROVE  TypeOK'
<1>0. PICK p \in Planes : \E e \in PolledEndpoints(slots[s][p]) :
        \/ \E ok \in BOOLEAN : PollProbe(s, p, e, ok) \/ PollStale(s, p, e, ok)
        \/ PollSuccess(s, p, e) \/ PollStaleError(s, p, e) \/ PollError(s, p, e)
  BY DEF PollCq
<1>1. PICK e \in PolledEndpoints(slots[s][p]) :
        \/ \E ok \in BOOLEAN : PollProbe(s, p, e, ok) \/ PollStale(s, p, e, ok)
        \/ PollSuccess(s, p, e) \/ PollStaleError(s, p, e) \/ PollError(s, p, e)
  BY <1>0
<1>2. qps[s][e.qp].cq # <<>>
  BY <1>1 DEF PollProbe, PollStale, PollSuccess, PollStaleError, PollError, HasCompletion
<1>3. Popped(s, e) \in [QpIds -> QpRecords] /\ Head(qps[s][e.qp].cq) \in Completions
  BY <1>2, PoppedType
<1>4. pc' \in [Sides -> Positions]
  <2>1. GotoOn(s, "cqs", p, Rank(slots[s][p], e))
    BY <1>1 DEF PollProbe, PollStale, PollSuccess, PollStaleError, PollError, PollAt
  <2>2. Rank(slots[s][p], e) \in Nat
    BY DEF Rank
  <2> QED BY <2>1, <2>2, GotoType DEF TypeOK, Phases
<1>5. ASSUME NEW sl \in Slots(QpIds), Install(s, p, sl, Popped(s, e))
      PROVE  /\ slots' \in [Sides -> [Planes -> Slots(QpIds)]]
             /\ qps' \in [Sides -> [QpIds -> QpRecords]]
  BY <1>3, <1>5, InstallType DEF TypeOK
<1>6. ASSUME NEW ok \in BOOLEAN, PollProbe(s, p, e, ok)
      PROVE  TypeOK'
  <2>1. ProbeKind(s) \in {"send", "recv"}
    BY DEF ProbeKind
  <2>2. RecordProbe(slots[s][p], ProbeKind(s), Head(qps[s][e.qp].cq).gen, ok) \in Slots(QpIds)
    BY <2>1, StateTypes, RecordProbeType
  <2> QED BY <1>4, <1>5, <1>6, <2>2 DEF PollProbe, TypeOK
<1>7. ASSUME NEW ok \in BOOLEAN, PollStale(s, p, e, ok)
      PROVE  TypeOK'
  <2>1. qps' \in [Sides -> [QpIds -> QpRecords]]
    BY <1>3, <1>7 DEF PollStale, TypeOK
  <2> QED BY <1>4, <1>7, <2>1 DEF PollStale, TypeOK
<1>8. CASE PollSuccess(s, p, e)
  <2> DEFINE r == [req[s] EXCEPT !.state = "Done"]
  <2>1. r \in Requests /\ r.seq \in Nat
    <3>1. r \in Requests
      BY StateTypes, RequestStateType DEF RequestStates
    <3> QED BY <3>1 DEF Requests
  <2>2. /\ req' = [req EXCEPT ![s] = r]
        /\ journal' = IF s = "R" THEN journal \cup {r.seq} ELSE journal
        /\ Install(s, p, DropUnusedRetired(slots[s][p], p, r), Popped(s, e))
        /\ UNCHANGED <<table, net, mon, nextSeq, nccl, spent>>
    BY <1>8 DEF PollSuccess
  <2> HIDE DEF r
  <2>3. DropUnusedRetired(slots[s][p], p, r) \in Slots(QpIds)
    BY StateTypes, DropUnusedRetiredType
  <2>4. req' \in [Sides -> Requests] /\ journal' \subseteq Nat
    BY <2>1, <2>2 DEF TypeOK
  <2> QED BY <1>4, <1>5, <2>2, <2>3, <2>4 DEF TypeOK
<1>9. CASE PollStaleError(s, p, e)
  <2> DEFINE r == IF req[s].state = "Posted" THEN [req[s] EXCEPT !.state = Disturbed(s)]
                  ELSE req[s]
  <2>1. r \in Requests
    BY StateTypes, RequestStateType DEF RequestStates, Disturbed
  <2>2. /\ req' = [req EXCEPT ![s] = r]
        /\ Install(s, p, DropUnusedRetired(slots[s][p], p, r), Popped(s, e))
        /\ UNCHANGED <<table, net, mon, nextSeq, journal, nccl, spent>>
    BY <1>9 DEF PollStaleError
  <2> HIDE DEF r
  <2>3. DropUnusedRetired(slots[s][p], p, r) \in Slots(QpIds)
    BY StateTypes, DropUnusedRetiredType
  <2>4. req' \in [Sides -> Requests]
    BY <2>1, <2>2 DEF TypeOK
  <2> QED BY <1>4, <1>5, <2>2, <2>3, <2>4 DEF TypeOK
<1>10. CASE PollError(s, p, e)
  <2> DEFINE entry == MarkBroken(table[s][p])
  <2>1. entry \in PlaneEntry
    BY StateTypes, EntryTypes DEF PlaneHealth
  <2>2. /\ table' = [table EXCEPT ![s][p] = entry]
        /\ Install(s, p, OnFailure(slots[s][p]), Popped(s, e))
        /\ req' = [req EXCEPT ![s] = Disturb(s, @, p)]
        /\ Send(s, PlaneEvent(p, entry.gen, FALSE))
        /\ UNCHANGED <<mon, nextSeq, journal, nccl, spent>>
    BY <1>10 DEF PollError
  <2> HIDE DEF entry
  <2>3. OnFailure(slots[s][p]) \in Slots(QpIds)
    <3>1. 0 \in Nat
      OBVIOUS
    <3> QED BY <3>1, StateTypes, SlotOperatorsType
  <2>4. Disturb(s, req[s], p) \in Requests
    BY StateTypes, DisturbType
  <2>5. req' \in [Sides -> Requests] /\ table' \in [Sides -> [Planes -> PlaneEntry]]
    BY <2>1, <2>2, <2>4 DEF TypeOK
  <2>6. PlaneEvent(p, entry.gen, FALSE) \in Messages
    BY <2>1, MessageTypes DEF PlaneEntry
  <2>7. net' \in [Sides -> Seq(Messages)]
    BY <2>2, <2>6, SocketTypes DEF TypeOK
  <2> QED BY <1>4, <1>5, <2>2, <2>3, <2>5, <2>7 DEF TypeOK
<1> QED BY <1>1, <1>6, <1>7, <1>8, <1>9, <1>10

-----------------------------------------------------------------------------
\* markHealthyIfGeneration after a commit, on either side.
LEMMA MarkRecoveredType ==
    ASSUME TypeOK, NEW s \in Sides, MarkRecovered(s)
    PROVE  /\ table' \in [Sides -> [Planes -> PlaneEntry]]
           /\ slots' \in [Sides -> [Planes -> Slots(QpIds)]]
<1> DEFINE p == pc[s].plane
           entry == MarkHealthyIfGeneration(table[s][p], pc[s].gen)
           slot == Quarantine(slots[s][p])
<1>1. p \in Planes /\ pc[s].gen \in Nat
  BY StateTypes
<1>2. entry \in PlaneEntry /\ slot \in Slots(QpIds)
  BY <1>1, StateTypes, EntryTypes, SlotOperatorsType DEF PlaneHealth
<1>3. /\ table' = [table EXCEPT ![s][p] = entry]
      /\ slots' = slots \/ slots' = [slots EXCEPT ![s][p] = slot]
  BY DEF MarkRecovered
<1> HIDE DEF p, entry, slot
<1>4. table' \in [Sides -> [Planes -> PlaneEntry]]
  BY <1>1, <1>2, <1>3 DEF TypeOK
<1>5. CASE slots' = slots
  BY <1>4, <1>5 DEF TypeOK
<1>6. CASE slots' = [slots EXCEPT ![s][p] = slot]
  <2>1. slots' \in [Sides -> [Planes -> Slots(QpIds)]]
    BY <1>2, <1>6 DEF TypeOK
  <2> QED BY <1>4, <2>1
<1> QED BY <1>3, <1>5, <1>6

\* Polling the replacement's queue in a wait for the probe.
LEMMA ShadowPoppedType ==
    ASSUME TypeOK, NEW s \in Sides, NEW p \in Planes,
           qps[s][slots[s][p].shadow.qp].cq # <<>>
    PROVE  /\ Popped(s, slots[s][p].shadow) \in [QpIds -> QpRecords]
           /\ \A q \in QpIds : Popped(s, slots[s][p].shadow)[q].dest = qps[s][q].dest
<1> DEFINE e == slots[s][p].shadow
<1>1. CASE e.qp = NoQp
  <2>1. Popped(s, e) = qps[s]
    BY <1>1, StateTypes, SidesAndPlanes DEF Popped
  <2> QED BY <2>1, StateTypes
<1>2. CASE e.qp # NoQp
  <2>1. e \in PolledEndpoints(slots[s][p])
    BY <1>2 DEF PolledEndpoints
  <2> QED BY <2>1, PoppedType
<1> QED BY <1>1, <1>2

\* The sender gives a recovery up.
LEMMA RecoverGiveUpType ==
    ASSUME TypeOK, RecoverGiveUp
    PROVE  /\ slots' \in [Sides -> [Planes -> Slots(QpIds)]]
           /\ qps' \in [Sides -> [QpIds -> QpRecords]]
           /\ pc' \in [Sides -> Positions]
<1>1. pc["S"].plane \in Planes /\ qps["S"] \in [QpIds -> QpRecords] /\ Current \in Slots(QpIds)
  BY StateTypes, SidesAndPlanes DEF Current
<1>2. AbortRecovery(Current) \in Slots(QpIds)
  <2>1. 0 \in Nat
    OBVIOUS
  <2> QED BY <1>1, <2>1, SlotOperatorsType
<1>3. Install("S", pc["S"].plane, AbortRecovery(Current), qps["S"])
  BY DEF RecoverGiveUp
<1>4. pc' \in [Sides -> Positions]
  BY <1>1, SidesAndPlanes, GotoType DEF TypeOK, RecoverGiveUp, Phases
<1> QED BY <1>1, <1>2, <1>3, <1>4, InstallType, SidesAndPlanes DEF TypeOK

\* A new queue pair has a number nothing names.
LEMMA FreshQpType ==
    ASSUME NEW s \in Sides, HasFreshQp(s)
    PROVE  FreshQp(s) \in QpIds /\ FreshQp(s) \notin NamedQps(s)
<1>1. \E q \in QpIds : q \notin NamedQps(s)
  BY DEF HasFreshQp
<1> QED BY <1>1 DEF FreshQp

\* Replay and recovery on the sending side.
LEMMA SenderType ==
    ASSUME TypeOK, Sender
    PROVE  TypeOK'
<1> DEFINE p == pc["S"].plane
           g == pc["S"].gen
           m == Head(net["S"])
<1>1. /\ p \in Planes /\ g \in Nat /\ req["S"] \in Requests /\ Current \in Slots(QpIds)
      /\ qps["S"] \in [QpIds -> QpRecords] /\ table["S"][p] \in PlaneEntry
  BY StateTypes, SidesAndPlanes DEF Current
<1>2. net["S"] # <<>> => m \in Messages
  BY StateTypes, SidesAndPlanes
<1>3. CASE StartQuery
  <2>1. Query(req["S"].seq) \in Messages
    BY <1>1, QueryTypes DEF Requests
  <2>2. net' \in [Sides -> Seq(Messages)] /\ pc' \in [Sides -> Positions]
    BY <1>3, <2>1, SocketTypes, GotoType, SidesAndPlanes DEF TypeOK, StartQuery, Phases
  <2> QED BY <1>3, <2>2 DEF StartQuery, TypeOK
<1>4. ASSUME Replay(req["S"])
      PROVE  req' \in [Sides -> Requests] /\ qps' \in [Sides -> [QpIds -> QpRecords]]
  <2>1. CASE PostRequest("S", req["S"])
    BY <1>1, <2>1, PostRequestType, SidesAndPlanes
  <2>2. CASE req' = [req EXCEPT !["S"].state = "NeedsReplay"] /\ UNCHANGED qps
    <3>1. [req["S"] EXCEPT !.state = "NeedsReplay"] \in Requests
      BY <1>1, RequestStateType DEF RequestStates
    <3> QED BY <2>2, <3>1 DEF TypeOK
  <2> QED BY <1>4, <2>1, <2>2 DEF Replay
<1>5. CASE RecvQueryResp
  <2>1. net["S"] # <<>> /\ Receive("S") /\ Goto("S", "replayed")
    BY <1>5 DEF RecvQueryResp, Arrived
  <2>2. net' \in [Sides -> Seq(Messages)] /\ pc' \in [Sides -> Positions]
    BY <2>1, SocketTypes, GotoType, SidesAndPlanes DEF TypeOK, Phases
  <2>3. [req["S"] EXCEPT !.state = "Done"] \in Requests
    BY <1>1, RequestStateType DEF RequestStates
  <2>4. \/ req' = [req EXCEPT !["S"].state = "Done"] /\ UNCHANGED qps
        \/ Replay(req["S"])
        \/ UNCHANGED <<req, qps>>
    BY <1>5 DEF RecvQueryResp
  <2>5. req' \in [Sides -> Requests] /\ qps' \in [Sides -> [QpIds -> QpRecords]]
    <3>1. CASE req' = [req EXCEPT !["S"].state = "Done"] /\ UNCHANGED qps
      BY <2>3, <3>1 DEF TypeOK
    <3>2. CASE UNCHANGED <<req, qps>>
      BY <3>2 DEF TypeOK
    <3> QED BY <1>4, <2>4, <3>1, <3>2
  <2> QED BY <1>5, <2>2, <2>5 DEF RecvQueryResp, TypeOK
<1>6. CASE QueryTimeout
  <2>1. pc' \in [Sides -> Positions] /\ spent' \in Spendings
    BY <1>6, GotoType, SpentType, SidesAndPlanes DEF QueryTimeout, TypeOK, Phases
  <2> QED BY <1>6, <2>1 DEF QueryTimeout, TypeOK
<1>7. CASE ReplayLater
  <2>1. pc' \in [Sides -> Positions]
    BY <1>7, GotoType, SidesAndPlanes DEF ReplayLater, TypeOK, Phases
  <2> QED BY <1>4, <1>7, <2>1 DEF ReplayLater, TypeOK
<1>8. ASSUME NEW o \in Planes, RecoverStart(o)
      PROVE  TypeOK'
  <2> DEFINE gen == table["S"][o].gen
             slot == EnsureShadow(slots["S"][o], gen, FreshQp("S"))
  <2>1. gen \in Nat /\ slot \in Slots(QpIds)
    BY <1>8, StateTypes, SidesAndPlanes, FreshQpType, EnsureShadowType
       DEF RecoverStart, PlaneEntry
  <2>2. slot.shadow.qp \in QpIds
    BY <1>8, <2>1, FreshQpType, SidesAndPlanes
       DEF RecoverStart, EnsureShadow, NewEndpoint, ResetProbe, Slots, Endpoints
  <2>3. /\ Install("S", o, slot, qps["S"])
        /\ Send("S", RecoveryReq(o, gen, slot.shadow.qp))
        /\ GotoOn("S", "resp", o, gen)
        /\ UNCHANGED <<table, mon, req, nextSeq, journal, nccl, spent>>
    BY <1>8 DEF RecoverStart
  <2> HIDE DEF slot, gen
  <2>4. net' \in [Sides -> Seq(Messages)] /\ pc' \in [Sides -> Positions]
    BY <2>1, <2>2, <2>3, MessageTypes, SocketTypes, GotoType, SidesAndPlanes
       DEF TypeOK, Phases
  <2>5. slots' \in [Sides -> [Planes -> Slots(QpIds)]] /\ qps' \in [Sides -> [QpIds -> QpRecords]]
    BY <1>1, <2>1, <2>3, InstallType, SidesAndPlanes DEF TypeOK
  <2> QED BY <2>3, <2>4, <2>5 DEF TypeOK
<1>9. CASE RecoverRefused
  <2>1. net["S"] # <<>> /\ Receive("S") /\ RecoverGiveUp
    BY <1>9 DEF RecoverRefused, Arrived
  <2>2. net' \in [Sides -> Seq(Messages)]
    BY <2>1, SocketTypes, SidesAndPlanes DEF TypeOK
  <2> QED BY <1>9, <2>1, <2>2, RecoverGiveUpType DEF RecoverRefused, TypeOK
<1>10. CASE RecoverConnect
  <2> DEFINE q == Current.shadow.qp
             connected == [qps["S"][q] EXCEPT !.dest = m.qp]
             probing == PostTo(connected, "S", ProbeRequest(m.gen))
  <2>1. net["S"] # <<>> /\ m.plane = p /\ m.gen = g /\ m.qp \in QpIds /\ q \in QpIds
    BY <1>1, <1>2, <1>10, MessageFields
       DEF RecoverConnect, Arrived, Awaited, Slots, Endpoints
  <2>2. connected \in QpRecords
    <3>1. m.qp \in 0 .. MaxQp
      BY <2>1, DpfrCommAssumption DEF QpIds
    <3>2. qps["S"][q] \in QpRecords
      BY <1>1, <2>1
    <3> HIDE DEF m, q
    <3> QED BY <3>1, <3>2 DEF QpRecords
  <2>3. ProbeRequest(m.gen) \in WorkRequests
    BY <1>1, <2>1, DpfrCommAssumption DEF ProbeRequest, WorkRequests
  <2>4. probing \in QpRecords
    BY <2>2, <2>3, PostToType, SidesAndPlanes
  <2>5. ConnectShadow(Current, m.gen) \in Slots(QpIds)
    BY <1>1, <2>1, SlotOperatorsType
  <2>6. /\ Receive("S")
        /\ Install("S", p, ConnectShadow(Current, m.gen), [qps["S"] EXCEPT ![q] = probing])
        /\ GotoOn("S", "probe", p, m.gen)
        /\ UNCHANGED <<table, mon, req, nextSeq, journal, nccl, spent>>
    BY <1>10, <2>1 DEF RecoverConnect
  <2> HIDE DEF probing, q
  <2>7. [qps["S"] EXCEPT ![q] = probing] \in [QpIds -> QpRecords]
    BY <1>1, <2>4
  <2>8. slots' \in [Sides -> [Planes -> Slots(QpIds)]] /\ qps' \in [Sides -> [QpIds -> QpRecords]]
    BY <1>1, <2>5, <2>6, <2>7, InstallType, SidesAndPlanes DEF TypeOK
  <2>9. net' \in [Sides -> Seq(Messages)] /\ pc' \in [Sides -> Positions]
    BY <1>1, <2>1, <2>6, SocketTypes, GotoType, SidesAndPlanes DEF TypeOK, Phases
  <2> QED BY <2>6, <2>8, <2>9 DEF TypeOK
<1>11. CASE ProbeOk
  <2>1. Popped("S", Current.shadow) \in [QpIds -> QpRecords]
    BY <1>1, <1>11, ShadowPoppedType, SidesAndPlanes
       DEF ProbeOk, ShadowCompletion, HasCompletion, Current
  <2>2. RecordProbe(Current, "send", g, TRUE) \in Slots(QpIds)
    BY <1>1, RecordProbeType
  <2>3. /\ Install("S", p, RecordProbe(Current, "send", g, TRUE), Popped("S", Current.shadow))
        /\ Send("S", RecoveryReady(p, g))
        /\ GotoOn("S", "ack", p, g)
        /\ UNCHANGED <<table, mon, req, nextSeq, journal, nccl, spent>>
    BY <1>11 DEF ProbeOk
  <2>4. slots' \in [Sides -> [Planes -> Slots(QpIds)]] /\ qps' \in [Sides -> [QpIds -> QpRecords]]
    BY <1>1, <2>1, <2>2, <2>3, InstallType, SidesAndPlanes DEF TypeOK
  <2>5. net' \in [Sides -> Seq(Messages)] /\ pc' \in [Sides -> Positions]
    BY <1>1, <2>3, MessageTypes, SocketTypes, GotoType, SidesAndPlanes DEF TypeOK, Phases
  <2> QED BY <2>3, <2>4, <2>5 DEF TypeOK
<1>12. CASE ProbeFailed
  <2>1. spent' \in Spendings
    BY <1>12, SpentType DEF ProbeFailed, TypeOK
  <2> QED BY <1>12, <2>1, RecoverGiveUpType DEF ProbeFailed, TypeOK
<1>13. CASE RecvAck
  <2> DEFINE sl == DropUnusedRetired(CommitShadow(Current), p, req["S"])
  <2>1. net["S"] # <<>> /\ m.plane = p /\ m.gen = g
    BY <1>13 DEF RecvAck, Arrived, Awaited
  <2>2. sl \in Slots(QpIds)
    <3>1. 0 \in Nat
      OBVIOUS
    <3>2. CommitShadow(Current) \in Slots(QpIds)
      BY <1>1, <3>1, SlotOperatorsType
    <3> QED BY <3>2, DropUnusedRetiredType
  <2>3. /\ Receive("S")
        /\ \/ Install("S", p, sl, qps["S"]) /\ GotoOn("S", "mark", p, g)
           \/ RecoverGiveUp
        /\ UNCHANGED <<table, mon, req, nextSeq, journal, nccl, spent>>
    BY <1>13, <2>1 DEF RecvAck
  <2> HIDE DEF sl
  <2>4. /\ slots' \in [Sides -> [Planes -> Slots(QpIds)]]
        /\ qps' \in [Sides -> [QpIds -> QpRecords]]
        /\ pc' \in [Sides -> Positions]
    <3>1. CASE RecoverGiveUp
      BY <3>1, RecoverGiveUpType
    <3>2. CASE Install("S", p, sl, qps["S"]) /\ GotoOn("S", "mark", p, g)
      BY <1>1, <2>2, <3>2, InstallType, GotoType, SidesAndPlanes DEF TypeOK, Phases
    <3> QED BY <2>3, <3>1, <3>2
  <2>5. net' \in [Sides -> Seq(Messages)]
    BY <2>1, <2>3, SocketTypes, SidesAndPlanes DEF TypeOK
  <2> QED BY <2>3, <2>4, <2>5 DEF TypeOK
<1>14. CASE MarkHealthyS
  <2>1. /\ table' \in [Sides -> [Planes -> PlaneEntry]]
        /\ slots' \in [Sides -> [Planes -> Slots(QpIds)]]
    BY <1>14, MarkRecoveredType, SidesAndPlanes DEF MarkHealthyS
  <2>2. pc' \in [Sides -> Positions]
    BY <1>1, <1>14, GotoType, SidesAndPlanes DEF MarkHealthyS, TypeOK, Phases
  <2> QED BY <1>14, <2>1, <2>2 DEF MarkHealthyS, TypeOK
<1>15. CASE HandshakeTimeout
  <2>1. pc' \in [Sides -> Positions] /\ spent' \in Spendings
    BY <1>15, GotoType, SpentType, SidesAndPlanes DEF HandshakeTimeout, TypeOK, Phases
  <2> QED BY <1>15, <2>1 DEF HandshakeTimeout, TypeOK
<1> QED BY <1>3, <1>5, <1>6, <1>7, <1>8, <1>9, <1>10, <1>11, <1>12, <1>13, <1>14, <1>15
        DEF Sender

\* handleRecoveryReq.
LEMMA RecoveryReqType ==
    ASSUME TypeOK, NEW ready \in BOOLEAN, RecvRecoveryReq(ready)
    PROVE  TypeOK'
<1> DEFINE m == Head(net["R"])
           p == m.plane
           q == FreshQp("R")
           entry == ApplyRemoteEvent(table["R"][p], m.gen, "Recovering")
           old == slots["R"][p]
           idle == IF old.shadow.qp # NoQp THEN AbortRecovery(old) ELSE old
           shadow == ConnectShadow(EnsureShadow(idle, m.gen, q), m.gen)
           probing == PostTo([NullQp EXCEPT !.dest = m.qp], "R", ProbeRequest(m.gen))
<1>1. /\ net["R"] # <<>> /\ m \in Messages /\ p \in Planes /\ m.gen \in Nat
      /\ m.qp \in QpIds /\ q \in QpIds
  BY StateTypes, SidesAndPlanes, MessageFields, FreshQpType DEF RecvRecoveryReq, Arrived
<1>2. entry \in PlaneEntry
  BY <1>1, StateTypes, SidesAndPlanes, EntryTypes DEF PlaneHealth
<1>3. idle \in Slots(QpIds)
  BY <1>1, StateTypes, SidesAndPlanes, SlotOperatorsType
<1>4. shadow \in Slots(QpIds)
  <2> HIDE DEF idle, m, q
  <2>1. EnsureShadow(idle, m.gen, q) \in Slots(QpIds)
    BY <1>1, <1>3, EnsureShadowType
  <2> QED BY <1>1, <2>1, SlotOperatorsType
<1>5. probing \in QpRecords
  <2>1. m.qp \in 0 .. MaxQp
    BY <1>1, DpfrCommAssumption DEF QpIds
  <2>2. [NullQp EXCEPT !.dest = m.qp] \in QpRecords
    BY <2>1, EmptySeq DEF NullQp, QpRecords
  <2>3. ProbeRequest(m.gen) \in WorkRequests
    BY <1>1, DpfrCommAssumption DEF ProbeRequest, WorkRequests
  <2> QED BY <2>2, <2>3, PostToType, SidesAndPlanes
<1>6. /\ AfterHandle("R")
      /\ table' = [table EXCEPT !["R"][p] = entry]
      /\ \/ /\ ReceiveAndSend("R", RecoveryResp(p, m.gen, FALSE, NoQp))
            /\ UNCHANGED <<slots, qps>>
         \/ /\ ReceiveAndSend("R", RecoveryResp(p, m.gen, FALSE, NoQp))
            /\ Install("R", p, idle, qps["R"])
         \/ /\ ReceiveAndSend("R", RecoveryResp(p, m.gen, TRUE, q))
            /\ Install("R", p, shadow, [qps["R"] EXCEPT ![q] = probing])
      /\ UNCHANGED <<mon, req, nextSeq, journal, nccl, spent>>
  BY DEF RecvRecoveryReq
<1>7. [qps["R"] EXCEPT ![q] = probing] \in [QpIds -> QpRecords] /\ qps["R"] \in [QpIds -> QpRecords]
  BY <1>1, <1>5, StateTypes, SidesAndPlanes
<1> HIDE DEF entry, idle, shadow, probing, p, q
<1>8. table' \in [Sides -> [Planes -> PlaneEntry]]
  BY <1>1, <1>2, <1>6 DEF TypeOK
<1>9. slots' \in [Sides -> [Planes -> Slots(QpIds)]] /\ qps' \in [Sides -> [QpIds -> QpRecords]]
  <2>1. CASE UNCHANGED <<slots, qps>>
    BY <2>1 DEF TypeOK
  <2>2. CASE Install("R", p, idle, qps["R"])
    BY <1>1, <1>3, <1>7, <2>2, InstallType, SidesAndPlanes DEF TypeOK
  <2>3. CASE Install("R", p, shadow, [qps["R"] EXCEPT ![q] = probing])
    BY <1>1, <1>4, <1>7, <2>3, InstallType, SidesAndPlanes DEF TypeOK
  <2> QED BY <1>6, <2>1, <2>2, <2>3
<1>10. net' \in [Sides -> Seq(Messages)]
  <2>1. /\ RecoveryResp(p, m.gen, FALSE, NoQp) \in Messages
        /\ RecoveryResp(p, m.gen, TRUE, q) \in Messages
    BY <1>1, MessageTypes
  <2> QED BY <1>1, <1>6, <2>1, SocketTypes, SidesAndPlanes DEF TypeOK
<1>11. pc' \in [Sides -> Positions]
  BY <1>6, GotoType, SidesAndPlanes DEF TypeOK, Phases
<1> QED BY <1>6, <1>8, <1>9, <1>10, <1>11 DEF TypeOK

\* handleRecoveryReady, up to its wait for the probe.
LEMMA RecoveryReadyType ==
    ASSUME TypeOK, RecvRecoveryReady
    PROVE  TypeOK'
<1> DEFINE m == Head(net["R"])
           p == m.plane
           slot == slots["R"][p]
<1>1. net["R"] # <<>> /\ m \in Messages /\ p \in Planes /\ m.gen \in Nat
  BY StateTypes, SidesAndPlanes, MessageFields DEF RecvRecoveryReady, Arrived
<1>2. AbortRecovery(slot) \in Slots(QpIds) /\ qps["R"] \in [QpIds -> QpRecords]
  BY <1>1, StateTypes, SidesAndPlanes, SlotOperatorsType
<1>3. /\ \/ ReceiveAndSend("R", RecoveryAck(p, m.gen, FALSE)) \/ Receive("R")
      /\ \/ UNCHANGED <<slots, qps>> \/ Install("R", p, AbortRecovery(slot), qps["R"])
      /\ \/ AfterHandle("R") \/ GotoOn("R", "rprobe", p, m.gen)
      /\ UNCHANGED <<table, mon, req, nextSeq, journal, nccl, spent>>
  BY DEF RecvRecoveryReady
<1>4. net' \in [Sides -> Seq(Messages)]
  BY <1>1, <1>3, MessageTypes, SocketTypes, SidesAndPlanes DEF TypeOK
<1>5. pc' \in [Sides -> Positions]
  BY <1>1, <1>3, GotoType, SidesAndPlanes DEF TypeOK, Phases
<1>6. slots' \in [Sides -> [Planes -> Slots(QpIds)]] /\ qps' \in [Sides -> [QpIds -> QpRecords]]
  <2>1. CASE UNCHANGED <<slots, qps>>
    BY <2>1 DEF TypeOK
  <2>2. CASE Install("R", p, AbortRecovery(slot), qps["R"])
    BY <1>1, <1>2, <2>2, InstallType, SidesAndPlanes DEF TypeOK
  <2> QED BY <1>3, <2>1, <2>2
<1> QED BY <1>3, <1>4, <1>5, <1>6 DEF TypeOK

\* The receiver's side of replay and recovery.
LEMMA ReceiverType ==
    ASSUME TypeOK, Receiver
    PROVE  TypeOK'
<1> DEFINE p == pc["R"].plane
           g == pc["R"].gen
<1>1. /\ p \in Planes /\ g \in Nat /\ Probed \in Slots(QpIds)
      /\ qps["R"] \in [QpIds -> QpRecords]
  BY StateTypes, SidesAndPlanes DEF Probed
<1>2. CASE CommitR
  <2> DEFINE polled == ~Probed.probe.recvDone
             seen == IF polled THEN RecordProbe(Probed, "recv", g, TRUE) ELSE Probed
             sl == DropUnusedRetired(CommitShadow(seen), p, req["R"])
             popped == IF polled THEN Popped("R", Probed.shadow) ELSE qps["R"]
  <2>1. sl \in Slots(QpIds)
    <3>1. seen \in Slots(QpIds)
      BY <1>1, RecordProbeType
    <3>2. CommitShadow(seen) \in Slots(QpIds)
      <4>1. 0 \in Nat
        OBVIOUS
      <4> HIDE DEF seen
      <4> QED BY <3>1, <4>1, SlotOperatorsType
    <3> QED BY <3>2, DropUnusedRetiredType
  <2>2. popped \in [QpIds -> QpRecords]
    BY <1>1, <1>2, ShadowPoppedType, SidesAndPlanes
       DEF CommitR, ShadowCompletion, HasCompletion, Probed
  <2>3. /\ Install("R", p, sl, popped) /\ GotoOn("R", "rmark", p, g)
        /\ UNCHANGED <<table, net, mon, req, nextSeq, journal, nccl, spent>>
    BY <1>2 DEF CommitR
  <2> HIDE DEF sl, popped
  <2>4. slots' \in [Sides -> [Planes -> Slots(QpIds)]] /\ qps' \in [Sides -> [QpIds -> QpRecords]]
    BY <1>1, <2>1, <2>2, <2>3, InstallType, SidesAndPlanes DEF TypeOK
  <2>5. pc' \in [Sides -> Positions]
    BY <1>1, <2>3, GotoType, SidesAndPlanes DEF TypeOK, Phases
  <2> QED BY <2>3, <2>4, <2>5 DEF TypeOK
<1>3. CASE RProbeFailed
  <2>1. AbortRecovery(Probed) \in Slots(QpIds)
    <3>1. 0 \in Nat
      OBVIOUS
    <3> QED BY <1>1, <3>1, SlotOperatorsType
  <2>2. /\ Install("R", p, AbortRecovery(Probed), qps["R"])
        /\ Send("R", RecoveryAck(p, g, FALSE)) /\ Goto("R", "control")
        /\ UNCHANGED <<table, mon, req, nextSeq, journal, nccl>>
        /\ UNCHANGED spent \/ (spent.timeouts < MaxTimeouts /\ Use("timeouts"))
    BY <1>3 DEF RProbeFailed
  <2>3. slots' \in [Sides -> [Planes -> Slots(QpIds)]] /\ qps' \in [Sides -> [QpIds -> QpRecords]]
    BY <1>1, <2>1, <2>2, InstallType, SidesAndPlanes DEF TypeOK
  <2>4. net' \in [Sides -> Seq(Messages)] /\ pc' \in [Sides -> Positions]
    BY <1>1, <2>2, MessageTypes, SocketTypes, GotoType, SidesAndPlanes DEF TypeOK, Phases
  <2>5. spent' \in Spendings
    BY <2>2, SpentType DEF TypeOK
  <2> QED BY <2>2, <2>3, <2>4, <2>5 DEF TypeOK
<1>4. CASE MarkHealthyR
  <2>1. /\ table' \in [Sides -> [Planes -> PlaneEntry]]
        /\ slots' \in [Sides -> [Planes -> Slots(QpIds)]]
    BY <1>4, MarkRecoveredType, SidesAndPlanes DEF MarkHealthyR
  <2>2. HealthyIfGenerationOK(table["R"][p], g) \in BOOLEAN
    BY DEF HealthyIfGenerationOK
  <2>3. net' \in [Sides -> Seq(Messages)] /\ pc' \in [Sides -> Positions]
    BY <1>1, <1>4, <2>2, MessageTypes, SocketTypes, GotoType, SidesAndPlanes
       DEF MarkHealthyR, TypeOK, Phases
  <2> QED BY <1>4, <2>1, <2>3 DEF MarkHealthyR, TypeOK
<1> QED BY <1>2, <1>3, <1>4, QueryType, RecoveryReqType, RecoveryReadyType DEF Receiver

-----------------------------------------------------------------------------
\* NCCL's calls and the completions they poll.
LEMMA CallsType ==
    ASSUME TypeOK, Calls
    PROVE  TypeOK'
<1>1. PICK s \in Sides : PollCq(s) \/ Return(s) \/ Post(s) \/ Backpressure(s) \/ Test(s)
  BY DEF Calls
<1>2. CASE Return(s)
  <2>1. pc' \in [Sides -> Positions]
    BY <1>2, GotoType DEF Return, TypeOK, Phases
  <2> QED BY <1>2, <2>1 DEF Return, TypeOK
<1>3. MayPost(s) => NewRequest(s) \in Requests
  BY NewRequestType
<1>4. nextSeq' = [nextSeq EXCEPT ![s] = @ + 1] => nextSeq' \in [Sides -> Nat]
  BY DEF TypeOK
<1>5. nccl.posted[s] < MaxSteps => [nccl EXCEPT !.posted[s] = @ + 1] \in Progresses
  <2>1. nccl \in Progresses
    BY DEF TypeOK
  <2>2. nccl.posted[s] < MaxSteps => nccl.posted[s] + 1 \in 0 .. MaxSteps
    BY <2>1, DpfrCommAssumption DEF Progresses
  <2> QED BY <2>1, <2>2 DEF Progresses
<1>6. nccl.done[s] < nccl.posted[s] => [nccl EXCEPT !.done[s] = @ + 1] \in Progresses
  <2>1. nccl \in Progresses
    BY DEF TypeOK
  <2>2. nccl.done[s] < nccl.posted[s] => nccl.done[s] + 1 \in 0 .. MaxSteps
    BY <2>1, DpfrCommAssumption DEF Progresses
  <2> QED BY <2>1, <2>2 DEF Progresses
<1>7. CASE Post(s)
  <2>1. req' \in [Sides -> Requests] /\ qps' \in [Sides -> [QpIds -> QpRecords]]
    BY <1>3, <1>7, PostRequestType DEF Post
  <2>2. nccl.posted[s] < MaxSteps /\ nccl' = [nccl EXCEPT !.posted[s] = @ + 1]
    BY <1>7 DEF Post, MayPost
  <2>3. nccl' \in Progresses
    BY <1>5, <2>2
  <2> QED BY <1>4, <1>7, <2>1, <2>3 DEF Post, TypeOK
<1>8. CASE Backpressure(s)
  <2>1. req' \in [Sides -> Requests]
    BY <1>3, <1>8 DEF Backpressure, TypeOK
  <2>2. spent' \in Spendings
    BY <1>8, SpentType DEF Backpressure
  <2> QED BY <1>4, <1>8, <2>1, <2>2 DEF Backpressure, TypeOK
<1>9. CASE Test(s)
  <2>1. [req[s] EXCEPT !.state = "Free"] \in Requests
    BY StateTypes, RequestStateType DEF RequestStates
  <2>2. req' \in [Sides -> Requests]
    BY <1>9, <2>1 DEF Test, TypeOK
  <2>3. nccl.done[s] < nccl.posted[s] /\ nccl' = [nccl EXCEPT !.done[s] = @ + 1]
    BY <1>9 DEF Test
  <2>4. nccl' \in Progresses
    BY <1>6, <2>3
  <2> QED BY <1>9, <2>2, <2>4 DEF Test, TypeOK
<1> QED BY <1>1, <1>2, <1>7, <1>8, <1>9, PollCqType

\* Deliveries, acknowledgements and failing queue pairs.
LEMMA FabricType ==
    ASSUME TypeOK, Fabric
    PROVE  TypeOK'
<1>1. PICK q \in QpIds : Deliver(q) \/ Acknowledge(q) \/ \E s \in Sides : QpError(s, q)
  BY DEF Fabric
<1>2. CASE Deliver(q)
  <2> DEFINE d == qps["S"][q].dest
             v == Head(qps["R"][d].rq)
  <2>1. PICK i \in DOMAIN qps["S"][q].sq :
          /\ Reachable("S", q) /\ qps["R"][d].rq # <<>>
          /\ qps' = [qps EXCEPT !["S"][q].sq[i].sent = TRUE,
                                 !["R"][d].rq = Tail(@),
                                 !["R"][d].cq = Append(@, Completion(v, TRUE))]
          /\ nccl' = IF v.probe THEN nccl ELSE [nccl EXCEPT !.buf[v.step] = qps["S"][q].sq[i].step]
          /\ UNCHANGED <<table, slots, net, mon, pc, req, nextSeq, journal, spent>>
    BY <1>2 DEF Deliver
  <2> DEFINE w == qps["S"][q].sq[i]
             sent == [qps["S"][q] EXCEPT !.sq[i].sent = TRUE]
             filled == [qps["R"][d] EXCEPT !.rq = Tail(@), !.cq = Append(@, Completion(v, TRUE))]
  <2>2. d \in QpIds
    <3>1. d \in LiveQps(slots["R"])
      BY <2>1 DEF Reachable, Peer
    <3>2. PICK p \in Planes : d \in QpsOf(slots["R"][p])
      BY <3>1 DEF LiveQps
    <3>3. slots["R"][p] \in Slots(QpIds)
      BY StateTypes, SidesAndPlanes
    <3> QED BY <3>2, <3>3 DEF QpsOf, Slots, Endpoints
  <2>3. qps["S"][q] \in QpRecords /\ qps["R"][d] \in QpRecords
    BY <2>2, StateTypes, SidesAndPlanes
  <2>4. v \in WorkRequests /\ Tail(qps["R"][d].rq) \in Seq(WorkRequests)
    BY <2>1, <2>3, HeadTailProperties DEF QpRecords
  <2>5. w \in WorkRequests
    <3>1. qps["S"][q].sq \in Seq(WorkRequests)
      BY <2>3 DEF QpRecords
    <3> QED BY <3>1
  <2>6. sent \in QpRecords
    <3>1. [w EXCEPT !.sent = TRUE] \in WorkRequests
      BY <2>5 DEF WorkRequests
    <3>2. [qps["S"][q].sq EXCEPT ![i] = [w EXCEPT !.sent = TRUE]] \in Seq(WorkRequests)
      <4>1. qps["S"][q].sq \in Seq(WorkRequests)
        BY <2>3 DEF QpRecords
      <4>2. i \in 1 .. Len(qps["S"][q].sq)
        BY <4>1
      <4> HIDE DEF w
      <4> QED BY <3>1, <4>1, <4>2, ExceptSeq
    <3>3. sent = [qps["S"][q] EXCEPT !.sq = [qps["S"][q].sq EXCEPT ![i] = [w EXCEPT !.sent = TRUE]]]
      BY <2>3 DEF QpRecords
    <3> HIDE DEF sent, w
    <3> QED BY <2>3, <3>2, <3>3 DEF QpRecords
  <2>7. filled \in QpRecords
    <3>1. Completion(v, TRUE) \in Completions
      BY <2>4 DEF Completion, Completions, WorkRequests
    <3>2. Append(qps["R"][d].cq, Completion(v, TRUE)) \in Seq(Completions)
      BY <2>3, <3>1, AppendProperties DEF QpRecords
    <3> HIDE DEF v, d
    <3> QED BY <2>3, <2>4, <3>2 DEF QpRecords
  <2>8. qps' = [qps EXCEPT !["S"][q] = sent, !["R"][d] = filled]
    BY <2>1, <2>2, <2>3, SidesAndPlanes DEF TypeOK
  <2>9. nccl' \in Progresses
    BY <2>1, <2>4, <2>5 DEF TypeOK, Progresses, WorkRequests
  <2> HIDE DEF sent, filled, d
  <2>10. qps' \in [Sides -> [QpIds -> QpRecords]]
    BY <2>2, <2>6, <2>7, <2>8, SidesAndPlanes DEF TypeOK
  <2> QED BY <2>1, <2>9, <2>10 DEF TypeOK
<1>3. CASE Acknowledge(q)
  <2> DEFINE qp == qps["S"][q]
             acked == [qp EXCEPT !.sq = Tail(qp.sq),
                                 !.cq = Append(qp.cq, Completion(Head(qp.sq), TRUE))]
  <2>1. qp \in QpRecords /\ qp.sq # <<>>
    BY <1>3, StateTypes, SidesAndPlanes DEF Acknowledge
  <2>2. Head(qp.sq) \in WorkRequests /\ Tail(qp.sq) \in Seq(WorkRequests)
    BY <2>1, HeadTailProperties DEF QpRecords
  <2>3. Completion(Head(qp.sq), TRUE) \in Completions
    BY <2>2 DEF Completion, Completions, WorkRequests
  <2>4. Append(qp.cq, Completion(Head(qp.sq), TRUE)) \in Seq(Completions)
    BY <2>1, <2>3, AppendProperties DEF QpRecords
  <2>5. qps' = [qps EXCEPT !["S"][q] = acked]
    BY <1>3, <2>1, SidesAndPlanes DEF Acknowledge, TypeOK, QpRecords
  <2> HIDE DEF qp
  <2>6. acked \in QpRecords
    BY <2>1, <2>2, <2>4 DEF QpRecords
  <2> HIDE DEF acked
  <2>7. qps' \in [Sides -> [QpIds -> QpRecords]]
    BY <2>5, <2>6, SidesAndPlanes DEF TypeOK
  <2> QED BY <1>3, <2>7 DEF Acknowledge, TypeOK
<1>4. ASSUME NEW s \in Sides, QpError(s, q)
      PROVE  TypeOK'
  <2>1. Flushed(qps[s][q]) \in QpRecords
    BY StateTypes, FlushedType
  <2>2. qps' \in [Sides -> [QpIds -> QpRecords]]
    BY <1>4, <2>1 DEF QpError, TypeOK
  <2>3. spent' \in Spendings
    BY <1>4, SpentType DEF QpError, TypeOK
  <2> QED BY <1>4, <2>2, <2>3 DEF QpError, TypeOK
<1> QED BY <1>1, <1>2, <1>3, <1>4

\* The established connection.
LEMMA InitType == Init => TypeOK
<1> SUFFICES ASSUME Init PROVE TypeOK
  OBVIOUS
<1>1. table \in [Sides -> [Planes -> PlaneEntry]]
  BY DEF Init, InitialEntry, PlaneEntry, PlaneHealth
<1>2. slots \in [Sides -> [Planes -> Slots(QpIds)]]
  BY DpfrCommAssumption DEF Init, Planes, QpIds, Slots, SlotStates, Endpoints, NoEndpoint,
     NoQp, Probes, FreshProbe
<1>3. qps \in [Sides -> [QpIds -> QpRecords]]
  <2>1. NullQp \in QpRecords
    BY DpfrCommAssumption, EmptySeq DEF QpRecords, NullQp
  <2>2. ASSUME NEW q \in QpIds PROVE [NullQp EXCEPT !.dest = q] \in QpRecords
    <3>1. q \in 0 .. MaxQp
      BY DpfrCommAssumption DEF QpIds
    <3> QED BY <2>1, <3>1 DEF QpRecords
  <2> QED BY <2>1, <2>2 DEF Init
<1>4. net \in [Sides -> Seq(Messages)]
  BY EmptySeq DEF Init
<1>5. mon \in [Sides -> [Threads -> Deliveries]] /\ pc \in [Sides -> Positions]
  BY SidesAndPlanes DEF Init, NoDelivery, Deliveries, At, Positions, Phases
<1>6. req \in [Sides -> Requests] /\ nextSeq \in [Sides -> Nat] /\ journal \subseteq Nat
  BY DpfrCommAssumption DEF Init, Requests, RequestStates
<1>7. nccl \in Progresses /\ spent \in Spendings
  BY DpfrCommAssumption DEF Init, Progresses, Spendings
<1> QED BY <1>1, <1>2, <1>3, <1>4, <1>5, <1>6, <1>7 DEF TypeOK

(* Every variable of a connection keeps its type: no handler of comm.cc    *)
(* leaves a queue, a slot, a message or a counter outside its alphabet,    *)
(* for any number of planes, monitor threads, messages and faults.         *)
THEOREM ConnectionTypes == Spec => []TypeOK
<1>1. TypeOK /\ [Next]_vars => TypeOK'
  <2>1. TypeOK /\ Next => TypeOK'
    BY FabricType, MonitorsType, ControlType, SenderType, ReceiverType, CallsType DEF Next
  <2>2. TypeOK /\ UNCHANGED vars => TypeOK'
    BY DEF TypeOK, vars
  <2> QED BY <2>1, <2>2
<1> QED BY InitType, <1>1, PTL DEF Spec

-----------------------------------------------------------------------------
\* sl has the queue pair in use of slot, no other replacement, and does not
\* become Active.
Keeps(slot, sl) ==
    /\ sl.active = slot.active
    /\ sl.state = "Active" => slot.state = "Active"
    /\ sl.shadow.qp # NoQp => sl.shadow = slot.shadow

\* The operations that take a slot out of use, or out of recovery, keep it.
LEMMA SlotOperatorsKeep ==
    ASSUME NEW Q, NEW slot \in Slots(Q), NEW g \in Nat
    PROVE  /\ Keeps(slot, Quarantine(slot))
           /\ Keeps(slot, AbortRecovery(slot))
           /\ Keeps(slot, OnBroken(slot, g))
           /\ Keeps(slot, OnRecovering(slot, g))
           /\ Keeps(slot, OnFailure(slot))
<1>1. \A s \in Slots(Q) : Keeps(s, Quarantine(s)) /\ Quarantine(s) \in Slots(Q)
  BY DEF Keeps, Quarantine, Slots, SlotStates
<1>2. \A s \in Slots(Q) : Keeps(s, AbortRecovery(s)) /\ AbortRecovery(s) \in Slots(Q)
  BY AbortRecoveryType DEF Keeps
<1>3. Keeps(slot, OnRecovering(slot, g))
  BY <1>2 DEF Keeps, OnRecovering, Slots, SlotStates
<1>4. Keeps(slot, OnBroken(slot, g))
  BY <1>1, <1>2 DEF Keeps, OnBroken
<1>5. Keeps(slot, OnFailure(slot))
  BY <1>1, <1>2 DEF Keeps, OnFailure
<1> QED BY <1>1, <1>2, <1>3, <1>4, <1>5

\* Recording a probe and freeing retired queue pairs keep a slot.
LEMMA BookkeepingKeeps ==
    ASSUME NEW slot \in Slots(QpIds), NEW kind \in {"send", "recv"}, NEW g, NEW ok \in BOOLEAN,
           NEW p, NEW r
    PROVE  /\ Keeps(slot, RecordProbe(slot, kind, g, ok))
           /\ Keeps(slot, DropUnusedRetired(slot, p, r))
  BY DEF Keeps, RecordProbe, DropUnusedRetired, Slots

\* Steps that leave the slots as they are and disconnect no queue pair.
LEMMA ConnectedStep ==
    ASSUME TypeOK, ReplacementsSound, UNCHANGED slots,
           \A s \in Sides, q \in QpIds : qps'[s][q].dest = qps[s][q].dest
    PROVE  /\ \A s \in Sides, p \in Planes : SoundReplacement(s, slots[s][p], qps[s])'
           /\ ReadmitsReplacement
<1>1. \A s \in Sides, p \in Planes : slots[s][p].shadow.qp # NoQp => slots[s][p].shadow.qp \in QpIds
  BY DEF TypeOK, Slots, Endpoints
<1> QED BY <1>1 DEF ReplacementsSound, SoundReplacement, ReadmitsReplacement

\* What a slot has to be like for Install to keep the invariant.
Admits(s, slot, sl, q) ==
    slot.state # "Active" /\ sl.state = "Active" =>
        sl.active.qp \in QpIds /\ sl.active.qp # slot.active.qp /\ q[sl.active.qp].dest # NoQp

\* Installing a slot that satisfies both conditions.
LEMMA InstallStep ==
    ASSUME TypeOK, ReplacementsSound, NEW s \in Sides, NEW p \in Planes,
           NEW sl \in Slots(QpIds), NEW q \in [QpIds -> QpRecords], Install(s, p, sl, q),
           \A i \in QpIds : qps[s][i].dest # NoQp => q[i].dest # NoQp,
           SoundReplacement(s, sl, q), Admits(s, slots[s][p], sl, q)
    PROVE  /\ \A t \in Sides, o \in Planes : SoundReplacement(t, slots[t][o], qps[t])'
           /\ ReadmitsReplacement
           /\ slots'[Peer(s)] = slots[Peer(s)]
<1>1. /\ slots' = [slots EXCEPT ![s][p] = sl]
      /\ slots' \in [Sides -> [Planes -> Slots(QpIds)]]
      /\ slots'[s][p] = sl
      /\ \A o \in Planes \ {p} : slots'[s][o] = slots[s][o]
      /\ \A t \in Sides \ {s} : slots'[t] = slots[t]
  BY DEF Install, TypeOK
<1>2. /\ \A i \in QpIds : i \in LiveQps(slots'[s]) => qps'[s][i] = q[i]
      /\ \A t \in Sides \ {s} : qps'[t] = qps[t]
  BY DEF Install, TypeOK
<1>3. ASSUME NEW o \in Planes
      PROVE  /\ slots'[s][o].shadow.qp # NoQp =>
                  /\ slots'[s][o].shadow.qp \in QpIds
                  /\ slots'[s][o].shadow.qp \in LiveQps(slots'[s])
             /\ slots'[s][o].active.qp \in QpIds => slots'[s][o].active.qp \in LiveQps(slots'[s])
  <2>1. slots'[s][o] \in Slots(QpIds)
    BY <1>1
  <2>2. QpsOf(slots'[s][o]) \subseteq LiveQps(slots'[s])
    BY DEF LiveQps
  <2> QED BY <2>1, <2>2, SidesAndPlanes DEF QpsOf, Slots, Endpoints
<1>4. ASSUME NEW t \in Sides, NEW o \in Planes
      PROVE  SoundReplacement(t, slots[t][o], qps[t])'
  <2>1. CASE t # s
    <3>1. slots'[t] = slots[t] /\ qps'[t] = qps[t]
      BY <1>1, <1>2, <2>1
    <3>2. SoundReplacement(t, slots[t][o], qps[t])
      BY DEF ReplacementsSound
    <3> QED BY <3>1, <3>2 DEF SoundReplacement
  <2>2. CASE t = s /\ o = p
    BY <1>1, <1>2, <1>3, <2>2 DEF SoundReplacement
  <2>3. CASE t = s /\ o # p
    <3> DEFINE x == slots[s][o].shadow.qp
    <3>1. slots'[s][o] = slots[s][o] /\ SoundReplacement(s, slots[s][o], qps[s])
      BY <1>1, <2>3 DEF ReplacementsSound
    <3>2. x # NoQp => x \in QpIds /\ qps'[s][x] = q[x]
      BY <1>2, <1>3, <3>1
    <3>3. x # NoQp /\ qps[s][x].dest # NoQp => qps'[s][x].dest # NoQp
      BY <3>2
    <3> QED BY <2>3, <3>1, <3>3 DEF SoundReplacement
  <2> QED BY <2>1, <2>2, <2>3
<1>5. ReadmitsReplacement
  <2> SUFFICES ASSUME NEW t \in Sides, NEW o \in Planes,
                      slots[t][o].state # "Active", slots'[t][o].state = "Active"
               PROVE  /\ slots'[t][o].active.qp # slots[t][o].active.qp
                      /\ qps'[t][slots'[t][o].active.qp].dest # NoQp
    BY DEF ReadmitsReplacement
  <2>1. t = s /\ o = p
    BY <1>1
  <2> QED BY <1>1, <1>2, <1>3, <2>1 DEF Admits
<1> QED BY <1>1, <1>4, <1>5, SidesAndPlanes

\* Installing a slot that keeps what it has.
LEMMA KeepingStep ==
    ASSUME TypeOK, ReplacementsSound, NEW s \in Sides, NEW p \in Planes,
           NEW sl \in Slots(QpIds), NEW q \in [QpIds -> QpRecords], Install(s, p, sl, q),
           \A i \in QpIds : q[i].dest = qps[s][i].dest,
           Keeps(slots[s][p], sl)
    PROVE  /\ \A t \in Sides, o \in Planes : SoundReplacement(t, slots[t][o], qps[t])'
           /\ ReadmitsReplacement
           /\ slots'[Peer(s)] = slots[Peer(s)]
<1>1. slots[s][p] \in Slots(QpIds)
  BY StateTypes
<1>2. SoundReplacement(s, sl, q)
  BY <1>1 DEF ReplacementsSound, SoundReplacement, Keeps, Slots, Endpoints
<1>3. Admits(s, slots[s][p], sl, q)
  BY DEF Admits, Keeps
<1> QED BY <1>2, <1>3, InstallStep

\* The receiver waits for no probe, or its position and slots are as before.
LEMMA WaitKept ==
    ASSUME ReplacementsSound,
           \/ ~In("R", {"rprobe"})'
           \/ pc'["R"] = pc["R"] /\ slots'["R"] = slots["R"]
    PROVE  (In("R", {"rprobe"}) => Probed.shadow.qp # NoQp)'
  BY DEF ReplacementsSound, In, Probed

\* The fabric changes no slot and no connection.
LEMMA FabricSound ==
    ASSUME TypeOK, ReplacementsSound, Fabric
    PROVE  ReplacementsSound' /\ ReadmitsReplacement
<1>1. PICK q \in QpIds : Deliver(q) \/ Acknowledge(q) \/ \E s \in Sides : QpError(s, q)
  BY DEF Fabric
<1>2. UNCHANGED <<slots, pc>>
  BY <1>1 DEF Deliver, Acknowledge, QpError
<1>3. \A s \in Sides, i \in QpIds : qps'[s][i].dest = qps[s][i].dest
  <2>1. CASE Deliver(q)
    <3> DEFINE d == qps["S"][q].dest
               c == Completion(Head(qps["R"][d].rq), TRUE)
    <3>1. PICK i : qps' = [qps EXCEPT !["S"][q].sq[i].sent = TRUE,
                                      !["R"][d].rq = Tail(@), !["R"][d].cq = Append(@, c)]
      BY <2>1 DEF Deliver
    <3> DEFINE sq == [qps["S"][q].sq EXCEPT ![i].sent = TRUE]
               rq == Tail(qps["R"][d].rq)
               cq == Append(qps["R"][d].cq, c)
    <3>2. /\ qps'["S"] = [qps["S"] EXCEPT ![q].sq = sq]
          /\ qps'["R"] = [qps["R"] EXCEPT ![d].rq = rq, ![d].cq = cq]
      BY <3>1, SidesAndPlanes DEF TypeOK
    <3>3. /\ qps["S"] \in [QpIds -> QpRecords]
          /\ qps["R"] \in [QpIds -> QpRecords]
      BY StateTypes, SidesAndPlanes
    <3> HIDE DEF sq, rq, cq, d
    <3>4. \A j \in QpIds : qps'["S"][j].dest = qps["S"][j].dest
      BY <3>2, <3>3 DEF QpRecords
    <3>5. \A j \in QpIds : qps'["R"][j].dest = qps["R"][j].dest
      BY <3>2, <3>3 DEF QpRecords
    <3> QED BY <3>4, <3>5 DEF Sides
  <2>2. CASE Acknowledge(q)
    BY <2>2 DEF Acknowledge, TypeOK, QpRecords
  <2>3. ASSUME NEW s \in Sides, QpError(s, q)
        PROVE  \A t \in Sides, i \in QpIds : qps'[t][i].dest = qps[t][i].dest
    <3>1. Flushed(qps[s][q]).dest = qps[s][q].dest
      BY StateTypes, FlushedType
    <3>2. qps' = [qps EXCEPT ![s][q] = Flushed(qps[s][q])]
      BY <2>3 DEF QpError
    <3> QED BY <3>1, <3>2 DEF TypeOK
  <2> QED BY <1>1, <2>1, <2>2, <2>3
<1>4. /\ \A s \in Sides, p \in Planes : SoundReplacement(s, slots[s][p], qps[s])'
      /\ ReadmitsReplacement
  BY <1>2, <1>3, ConnectedStep
<1> QED BY <1>2, <1>4, WaitKept DEF ReplacementsSound

\* onPlaneBroken and onPlaneRecovering find no probe being waited for.
LEMMA MonitorsSound ==
    ASSUME TypeOK, ReplacementsSound, Monitors
    PROVE  ReplacementsSound' /\ ReadmitsReplacement
<1>1. PICK s \in Sides, t \in Threads :
          \/ \E p \in Planes, up \in BOOLEAN : MonitorMark(s, t, p, up)
          \/ MonitorNotify(s, t) \/ MonitorSend(s, t)
  BY DEF Monitors
<1>2. CASE UNCHANGED <<slots, qps, pc>>
  <2>1. /\ \A o \in Sides, p \in Planes : SoundReplacement(o, slots[o][p], qps[o])'
        /\ ReadmitsReplacement
    BY <1>2, ConnectedStep
  <2> QED BY <1>2, <2>1, WaitKept DEF ReplacementsSound
<1>3. CASE MonitorNotify(s, t)
  <2> DEFINE m == mon[s][t]
             p == m.plane
             sl == IF m.up THEN OnRecovering(slots[s][p], m.gen) ELSE OnBroken(slots[s][p], m.gen)
  <2>1. p \in Planes /\ m.gen \in Nat
    BY DEF TypeOK, Deliveries
  <2>2. slots[s][p] \in Slots(QpIds) /\ qps[s] \in [QpIds -> QpRecords]
    BY <2>1, StateTypes
  <2>3. sl \in Slots(QpIds) /\ Keeps(slots[s][p], sl)
    BY <2>1, <2>2, SlotOperatorsType, SlotOperatorsKeep
  <2>4. Install(s, p, sl, qps[s]) /\ In(s, {"idle", "failed"}) /\ pc' = pc
    BY <1>3 DEF MonitorNotify
  <2> HIDE DEF sl, p, m
  <2>5. /\ \A o \in Sides, r \in Planes : SoundReplacement(o, slots[o][r], qps[o])'
        /\ ReadmitsReplacement
        /\ slots'[Peer(s)] = slots[Peer(s)]
    BY <2>1, <2>2, <2>3, <2>4, KeepingStep
  <2>6. \/ ~In("R", {"rprobe"})'
        \/ pc'["R"] = pc["R"] /\ slots'["R"] = slots["R"]
    BY <2>4, <2>5 DEF In, Sides, Peer
  <2> QED BY <2>5, <2>6, WaitKept DEF ReplacementsSound
<1> QED BY <1>1, <1>2, <1>3 DEF MonitorMark, MonitorSend

\* Neither do the peer's plane events.
LEMMA ControlSound ==
    ASSUME TypeOK, ReplacementsSound, Control
    PROVE  ReplacementsSound' /\ ReadmitsReplacement
<1>1. PICK s \in Sides : RecvPlaneEvent(s) \/ IgnoreAnswer(s)
  BY DEF Control
<1>2. MayHandle(s) /\ AfterHandle(s)
  BY <1>1 DEF RecvPlaneEvent, IgnoreAnswer
<1>3. s = "R" => ~In("R", {"rprobe"})'
  BY <1>2 DEF MayHandle, AfterHandle, Goto, At, In, TypeOK
<1>4. s # "R" => pc'["R"] = pc["R"]
  BY <1>2, SidesAndPlanes DEF AfterHandle, Goto, TypeOK
<1>5. CASE UNCHANGED <<slots, qps>>
  <2>1. /\ \A o \in Sides, p \in Planes : SoundReplacement(o, slots[o][p], qps[o])'
        /\ ReadmitsReplacement
    BY <1>5, ConnectedStep
  <2> QED BY <1>3, <1>4, <1>5, <2>1, WaitKept DEF ReplacementsSound
<1>6. CASE RecvPlaneEvent(s) /\ ~UNCHANGED <<slots, qps>>
  <2> DEFINE m == Head(net[s])
             p == m.plane
             sl == IF m.up THEN OnRecovering(slots[s][p], m.gen) ELSE OnFailure(slots[s][p])
  <2>1. p \in Planes /\ m.gen \in Nat
    BY <1>6, StateTypes, MessageFields DEF RecvPlaneEvent, Arrived
  <2>2. slots[s][p] \in Slots(QpIds) /\ qps[s] \in [QpIds -> QpRecords]
    BY <2>1, StateTypes
  <2>3. sl \in Slots(QpIds) /\ Keeps(slots[s][p], sl)
    BY <2>1, <2>2, SlotOperatorsType, SlotOperatorsKeep
  <2>4. Install(s, p, sl, qps[s])
    BY <1>6 DEF RecvPlaneEvent
  <2> HIDE DEF sl, p, m
  <2>5. /\ \A o \in Sides, r \in Planes : SoundReplacement(o, slots[o][r], qps[o])'
        /\ ReadmitsReplacement
        /\ slots'[Peer(s)] = slots[Peer(s)]
    BY <2>1, <2>2, <2>3, <2>4, KeepingStep
  <2>6. \/ ~In("R", {"rprobe"})'
        \/ pc'["R"] = pc["R"] /\ slots'["R"] = slots["R"]
    BY <1>3, <1>4, <2>5 DEF Sides, Peer
  <2> QED BY <2>5, <2>6, WaitKept DEF ReplacementsSound
<1> QED BY <1>1, <1>5, <1>6 DEF IgnoreAnswer

\* A posted request leaves the queue pairs connected.
LEMMA PostKeepsConnected ==
    ASSUME TypeOK, NEW s \in Sides, NEW r \in Requests, PostRequest(s, r)
    PROVE  \A t \in Sides, i \in QpIds : qps'[t][i].dest = qps[t][i].dest
<1>1. PICK p \in Planes : /\ Selectable(slots[s][p], table[s][p])
                          /\ qps' = WithPosted(s, r, p)
  BY DEF PostRequest, Selected, SelectablePlanes
<1> DEFINE e == slots[s][p].active
           w == DataRequest(r.step, e.gen)
<1>2. e.qp \in QpIds /\ e.gen \in Nat
  BY <1>1, StateTypes DEF Selectable, SlotAtGeneration, Slots, Endpoints
<1>3. w \in WorkRequests
  BY <1>2 DEF DataRequest, WorkRequests, Requests
<1>4. PostTo(qps[s][e.qp], s, w).dest = qps[s][e.qp].dest
  BY <1>2, <1>3, StateTypes, PostToType
<1>5. qps' = [qps EXCEPT ![s][e.qp] = PostTo(@, s, w)]
  BY <1>1 DEF WithPosted
<1> HIDE DEF e, w
<1> QED BY <1>2, <1>4, <1>5 DEF TypeOK

\* Completions change a slot but keep its queue pairs.
LEMMA CallsSound ==
    ASSUME TypeOK, ReplacementsSound, Calls
    PROVE  ReplacementsSound' /\ ReadmitsReplacement
<1>1. PICK s \in Sides : PollCq(s) \/ Return(s) \/ Post(s) \/ Backpressure(s) \/ Test(s)
  BY DEF Calls
<1>2. CASE Return(s) \/ Post(s) \/ Backpressure(s) \/ Test(s)
  <2>1. \A t \in Sides, i \in QpIds : qps'[t][i].dest = qps[t][i].dest
    <3>1. CASE Post(s)
      <4>1. NewRequest(s) \in Requests
        BY <3>1, NewRequestType DEF Post
      <4> QED BY <3>1, <4>1, PostKeepsConnected DEF Post
    <3> QED BY <1>2, <3>1 DEF Return, Backpressure, Test
  <2>2. UNCHANGED slots
    BY <1>2 DEF Return, Post, Backpressure, Test
  <2>3. /\ \A t \in Sides, p \in Planes : SoundReplacement(t, slots[t][p], qps[t])'
        /\ ReadmitsReplacement
    BY <2>1, <2>2, ConnectedStep
  <2>4. pc'["R"] = pc["R"] \/ ~In("R", {"rprobe"})'
    <3>1. UNCHANGED pc \/ Goto(s, "idle")
      BY <1>2 DEF Return, Post, Backpressure, Test
    <3> QED BY <3>1, SidesAndPlanes DEF Goto, At, In, TypeOK
  <2> QED BY <2>2, <2>3, <2>4, WaitKept DEF ReplacementsSound
<1>3. CASE PollCq(s)
  <2>0. PICK p \in Planes : \E e \in PolledEndpoints(slots[s][p]) :
          \/ \E ok \in BOOLEAN : PollProbe(s, p, e, ok) \/ PollStale(s, p, e, ok)
          \/ PollSuccess(s, p, e) \/ PollStaleError(s, p, e) \/ PollError(s, p, e)
    BY <1>3 DEF PollCq
  <2>1. PICK e \in PolledEndpoints(slots[s][p]) :
          \/ \E ok \in BOOLEAN : PollProbe(s, p, e, ok) \/ PollStale(s, p, e, ok)
          \/ PollSuccess(s, p, e) \/ PollStaleError(s, p, e) \/ PollError(s, p, e)
    BY <2>0
  <2>2. qps[s][e.qp].cq # <<>> /\ PollAt(s, p, e)
    BY <2>1 DEF PollProbe, PollStale, PollSuccess, PollStaleError, PollError, HasCompletion
  <2>3. /\ Popped(s, e) \in [QpIds -> QpRecords]
        /\ \A i \in QpIds : Popped(s, e)[i].dest = qps[s][i].dest
    BY <2>2, PoppedType
  <2>4. \/ s = "R" /\ ~In("R", {"rprobe"})'
        \/ s # "R" /\ pc'["R"] = pc["R"]
    BY <2>2 DEF PollAt, GotoOn, In, TypeOK, Sides
  <2>5. CASE \E ok \in BOOLEAN : PollStale(s, p, e, ok)
    <3>1. slots' = slots /\ qps' = [qps EXCEPT ![s] = Popped(s, e)]
      BY <2>5 DEF PollStale
    <3>2. \A t \in Sides, i \in QpIds : qps'[t][i].dest = qps[t][i].dest
      BY <2>3, <3>1 DEF TypeOK
    <3>3. /\ \A t \in Sides, o \in Planes : SoundReplacement(t, slots[t][o], qps[t])'
          /\ ReadmitsReplacement
      BY <3>1, <3>2, ConnectedStep
    <3> QED BY <2>4, <3>1, <3>3, WaitKept DEF ReplacementsSound
  <2>6. CASE \E sl \in Slots(QpIds) : Keeps(slots[s][p], sl) /\ Install(s, p, sl, Popped(s, e))
    <3>1. PICK sl \in Slots(QpIds) : Keeps(slots[s][p], sl) /\ Install(s, p, sl, Popped(s, e))
      BY <2>6
    <3>2. /\ \A t \in Sides, o \in Planes : SoundReplacement(t, slots[t][o], qps[t])'
          /\ ReadmitsReplacement
          /\ slots'[Peer(s)] = slots[Peer(s)]
      BY <2>3, <3>1, KeepingStep
    <3>3. \/ ~In("R", {"rprobe"})'
          \/ pc'["R"] = pc["R"] /\ slots'["R"] = slots["R"]
      BY <2>4, <3>2 DEF Sides, Peer
    <3> QED BY <3>2, <3>3, WaitKept DEF ReplacementsSound
  <2>7. slots[s][p] \in Slots(QpIds) /\ ProbeKind(s) \in {"send", "recv"}
    BY StateTypes DEF ProbeKind
  <2>8. ASSUME NEW ok \in BOOLEAN, PollProbe(s, p, e, ok)
        PROVE  ReplacementsSound' /\ ReadmitsReplacement
    BY <2>6, <2>7, <2>8, RecordProbeType, BookkeepingKeeps DEF PollProbe
  <2>9. CASE PollSuccess(s, p, e) \/ PollStaleError(s, p, e)
    BY <2>6, <2>7, <2>9, DropUnusedRetiredType, BookkeepingKeeps
       DEF PollSuccess, PollStaleError
  <2>10. CASE PollError(s, p, e)
    <3>1. 0 \in Nat
      OBVIOUS
    <3>2. OnFailure(slots[s][p]) \in Slots(QpIds) /\ Keeps(slots[s][p], OnFailure(slots[s][p]))
      BY <2>7, <3>1, SlotOperatorsType, SlotOperatorsKeep
    <3> QED BY <2>6, <2>10, <3>2 DEF PollError
  <2> QED BY <2>1, <2>5, <2>8, <2>9, <2>10
<1> QED BY <1>1, <1>2, <1>3

\* The sender does not move the receiver.
LEMMA SenderKeepsWait ==
    ASSUME TypeOK, Sender
    PROVE  pc'["R"] = pc["R"]
<1>1. \E ph : Goto("S", ph) \/ \E p, g : GotoOn("S", ph, p, g)
  BY DEF Sender, StartQuery, RecvQueryResp, QueryTimeout, ReplayLater, RecoverStart,
         RecoverRefused, RecoverConnect, ProbeOk, ProbeFailed, RecvAck, MarkHealthyS,
         HandshakeTimeout, RecoverGiveUp
<1> QED BY <1>1, SidesAndPlanes DEF Goto, GotoOn, TypeOK

\* Giving a recovery up destroys the replacement only.
LEMMA GiveUpSound ==
    ASSUME TypeOK, ReplacementsSound, RecoverGiveUp
    PROVE  /\ \A t \in Sides, o \in Planes : SoundReplacement(t, slots[t][o], qps[t])'
           /\ ReadmitsReplacement
           /\ slots'["R"] = slots["R"]
<1> DEFINE p == pc["S"].plane
<1>1. p \in Planes /\ qps["S"] \in [QpIds -> QpRecords] /\ Current \in Slots(QpIds)
  BY StateTypes, SidesAndPlanes DEF Current
<1>2. 0 \in Nat
  OBVIOUS
<1>3. AbortRecovery(Current) \in Slots(QpIds) /\ Keeps(Current, AbortRecovery(Current))
  BY <1>1, <1>2, SlotOperatorsType, SlotOperatorsKeep
<1>4. Install("S", p, AbortRecovery(Current), qps["S"]) /\ Current = slots["S"][p]
  BY DEF RecoverGiveUp, Current
<1> HIDE DEF p
<1> QED BY <1>1, <1>3, <1>4, KeepingStep, SidesAndPlanes DEF Peer

\* A failed readmission only takes a slot out of use.
LEMMA QuarantineSound ==
    ASSUME TypeOK, ReplacementsSound, UNCHANGED qps, NEW s \in Sides, NEW p \in Planes,
           slots' = slots \/ slots' = [slots EXCEPT ![s][p] = Quarantine(@)]
    PROVE  /\ \A t \in Sides, o \in Planes : SoundReplacement(t, slots[t][o], qps[t])'
           /\ ReadmitsReplacement
           /\ slots'[Peer(s)] = slots[Peer(s)]
<1>1. /\ Keeps(slots[s][p], Quarantine(slots[s][p]))
      /\ Quarantine(slots[s][p]).shadow = slots[s][p].shadow
  BY StateTypes DEF Keeps, Quarantine, Slots
<1>2. \A t \in Sides, o \in Planes :
        /\ Keeps(slots[t][o], slots'[t][o])
        /\ slots'[t][o].shadow = slots[t][o].shadow
  <2> SUFFICES ASSUME NEW t \in Sides, NEW o \in Planes
               PROVE  /\ Keeps(slots[t][o], slots'[t][o])
                      /\ slots'[t][o].shadow = slots[t][o].shadow
    OBVIOUS
  <2>1. slots'[t][o] = slots[t][o]
          \/ (t = s /\ o = p /\ slots'[t][o] = Quarantine(slots[s][p]))
    BY DEF TypeOK
  <2>2. CASE slots'[t][o] = slots[t][o]
    BY <2>2 DEF Keeps
  <2>3. CASE t = s /\ o = p /\ slots'[t][o] = Quarantine(slots[s][p])
    BY <1>1, <2>3
  <2> QED BY <2>1, <2>2, <2>3
<1>3. \A t \in Sides, o \in Planes : SoundReplacement(t, slots[t][o], qps[t])'
  BY <1>2 DEF ReplacementsSound, SoundReplacement, Keeps
<1>4. ReadmitsReplacement
  BY <1>2 DEF ReadmitsReplacement, Keeps
<1> QED BY <1>3, <1>4, SidesAndPlanes DEF TypeOK

\* The sender creates, connects, probes and commits its replacement.
LEMMA SenderSound ==
    ASSUME TypeOK, ReplacementsSound, Sender
    PROVE  ReplacementsSound' /\ ReadmitsReplacement
<1> DEFINE p == pc["S"].plane
           g == pc["S"].gen
           m == Head(net["S"])
           Goal == /\ \A t \in Sides, o \in Planes : SoundReplacement(t, slots[t][o], qps[t])'
                   /\ ReadmitsReplacement
                   /\ slots'["R"] = slots["R"]
<1>1. /\ p \in Planes /\ g \in Nat /\ req["S"] \in Requests /\ Current \in Slots(QpIds)
      /\ qps["S"] \in [QpIds -> QpRecords] /\ Current = slots["S"][p]
  BY StateTypes, SidesAndPlanes DEF Current
<1>2. SUFFICES Goal
  <2>1. pc'["R"] = pc["R"]
    BY SenderKeepsWait
  <2> QED BY <2>1, WaitKept DEF ReplacementsSound
<1>3. CASE StartQuery \/ QueryTimeout \/ HandshakeTimeout
  <2>1. UNCHANGED <<slots, qps>>
    BY <1>3 DEF StartQuery, QueryTimeout, HandshakeTimeout
  <2> QED BY <2>1, ConnectedStep
<1>4. ASSUME Replay(req["S"])
      PROVE  \A t \in Sides, i \in QpIds : qps'[t][i].dest = qps[t][i].dest
  BY <1>1, <1>4, PostKeepsConnected, SidesAndPlanes DEF Replay
<1>5. CASE RecvQueryResp \/ ReplayLater
  <2>1. slots' = slots /\ (UNCHANGED qps \/ Replay(req["S"]))
    BY <1>5 DEF RecvQueryResp, ReplayLater
  <2>2. \A t \in Sides, i \in QpIds : qps'[t][i].dest = qps[t][i].dest
    BY <1>4, <2>1
  <2> QED BY <2>1, <2>2, ConnectedStep
<1>6. ASSUME NEW o \in Planes, RecoverStart(o)
      PROVE  Goal
  <2> DEFINE slot == slots["S"][o]
             gen == table["S"][o].gen
             new == FreshQp("S")
             sl == EnsureShadow(slot, gen, new)
  <2>1. slot \in Slots(QpIds) /\ gen \in Nat /\ new \in QpIds /\ new \notin NamedQps("S")
    BY <1>6, StateTypes, SidesAndPlanes, FreshQpType DEF RecoverStart, PlaneEntry
  <2>2. sl \in Slots(QpIds)
    BY <2>1, EnsureShadowType
  <2>3. new # slot.active.qp
    BY <2>1, SidesAndPlanes DEF NamedQps, LiveQps, QpsOf
  <2>4. SoundReplacement("S", slot, qps["S"])
    BY SidesAndPlanes DEF ReplacementsSound
  <2>5. SoundReplacement("S", sl, qps["S"]) /\ Admits("S", slot, sl, qps["S"])
    <3> HIDE DEF new, gen, slot
    <3> QED BY <2>1, <2>3, <2>4
            DEF SoundReplacement, Admits, EnsureShadow, NewEndpoint, ResetProbe, Slots, Endpoints
  <2>6. Install("S", o, sl, qps["S"])
    BY <1>6 DEF RecoverStart
  <2> HIDE DEF sl
  <2> QED BY <1>1, <2>2, <2>5, <2>6, InstallStep, SidesAndPlanes DEF Peer
<1>7. CASE RecoverRefused \/ ProbeFailed
  BY <1>7, GiveUpSound DEF RecoverRefused, ProbeFailed
<1>8. CASE RecoverConnect
  <2> DEFINE q == Current.shadow.qp
             connected == [qps["S"][q] EXCEPT !.dest = m.qp]
             probing == PostTo(connected, "S", ProbeRequest(m.gen))
             others == [qps["S"] EXCEPT ![q] = probing]
             sl == ConnectShadow(Current, m.gen)
  <2>1. m \in Messages /\ m.plane = p /\ m.gen = g /\ m.qp \in QpIds /\ q \in QpIds
    BY <1>1, <1>8, StateTypes, SidesAndPlanes, MessageFields
       DEF RecoverConnect, Arrived, Awaited, Slots, Endpoints
  <2>2. connected \in QpRecords /\ connected.dest = m.qp
    <3>1. m.qp \in 0 .. MaxQp
      BY <2>1, DpfrCommAssumption DEF QpIds
    <3>2. qps["S"][q] \in QpRecords
      BY <1>1, <2>1
    <3> HIDE DEF m, q
    <3> QED BY <3>1, <3>2 DEF QpRecords
  <2>3. ProbeRequest(m.gen) \in WorkRequests
    BY <1>1, <2>1, DpfrCommAssumption DEF ProbeRequest, WorkRequests
  <2>4. probing \in QpRecords /\ probing.dest = m.qp /\ m.qp # NoQp
    BY <2>1, <2>2, <2>3, PostToType, SidesAndPlanes
  <2>5. sl \in Slots(QpIds)
    BY <1>1, <2>1, SlotOperatorsType
  <2>6. Install("S", p, sl, others)
    BY <1>8, <2>1 DEF RecoverConnect
  <2>7. SoundReplacement("S", Current, qps["S"])
    BY <1>1, SidesAndPlanes DEF ReplacementsSound
  <2>8. sl.shadow.qp = q /\ sl.active = Current.active /\ sl.state # "Active"
    BY <1>1 DEF ConnectShadow, ResetProbe, Slots, Endpoints
  <2> HIDE DEF sl, probing, q
  <2>9. /\ others \in [QpIds -> QpRecords] /\ others[q].dest # NoQp
        /\ \A i \in QpIds : qps["S"][i].dest # NoQp => others[i].dest # NoQp
    BY <1>1, <2>1, <2>4
  <2>10. q # Current.active.qp
    BY <2>1, <2>7, SidesAndPlanes DEF SoundReplacement, q
  <2> HIDE DEF others
  <2>11. SoundReplacement("S", sl, others) /\ Admits("S", Current, sl, others)
    BY <2>8, <2>9, <2>10 DEF SoundReplacement, Admits
  <2> QED BY <1>1, <2>5, <2>6, <2>9, <2>11, InstallStep, SidesAndPlanes DEF Peer
<1>9. CASE ProbeOk
  <2> DEFINE sl == RecordProbe(Current, "send", g, TRUE)
             popped == Popped("S", Current.shadow)
  <2>1. /\ popped \in [QpIds -> QpRecords]
        /\ \A i \in QpIds : popped[i].dest = qps["S"][i].dest
    BY <1>1, <1>9, ShadowPoppedType, SidesAndPlanes
       DEF ProbeOk, ShadowCompletion, HasCompletion, Current
  <2>2. sl \in Slots(QpIds) /\ Keeps(Current, sl)
    BY <1>1, RecordProbeType, BookkeepingKeeps
  <2>3. Install("S", p, sl, popped)
    BY <1>9 DEF ProbeOk
  <2> HIDE DEF sl, popped
  <2> QED BY <1>1, <2>1, <2>2, <2>3, KeepingStep, SidesAndPlanes DEF Peer
<1>10. CASE RecvAck
  <2> DEFINE committed == CommitShadow(Current)
             sl == DropUnusedRetired(committed, p, req["S"])
  <2>1. CASE RecoverGiveUp
    BY <2>1, GiveUpSound
  <2>2. CASE CanCommit(Current, m.gen) /\ Install("S", p, sl, qps["S"])
    <3>1. 0 \in Nat
      OBVIOUS
    <3>2. committed \in Slots(QpIds)
      BY <1>1, <3>1, SlotOperatorsType
    <3>3. sl \in Slots(QpIds) /\ Keeps(committed, sl)
      BY <3>2, DropUnusedRetiredType, BookkeepingKeeps
    <3>4. SoundReplacement("S", Current, qps["S"])
      BY <1>1, SidesAndPlanes DEF ReplacementsSound
    <3>5. committed.active = Current.shadow /\ committed.shadow.qp = NoQp
      BY <1>1 DEF CommitShadow, RetireActive, ClearProbe, ResetProbe, NoEndpoint, Slots
    <3>6. sl.active = Current.shadow /\ sl.shadow.qp = NoQp
      <4> HIDE DEF committed, sl
      <4> QED BY <3>2, <3>3, <3>5 DEF Keeps, Slots, Endpoints
    <3>7. SoundReplacement("S", sl, qps["S"]) /\ Admits("S", Current, sl, qps["S"])
      BY <1>1, <2>2, <3>4, <3>6 DEF SoundReplacement, Admits, CanCommit, Slots, Endpoints
    <3> HIDE DEF sl
    <3> QED BY <1>1, <2>2, <3>3, <3>7, InstallStep, SidesAndPlanes DEF Peer
  <2>3. RecoverGiveUp \/ (CanCommit(Current, m.gen) /\ Install("S", p, sl, qps["S"]))
    BY <1>10 DEF RecvAck, Arrived, Awaited
  <2> QED BY <2>1, <2>2, <2>3
<1>11. CASE MarkHealthyS
  <2>1. /\ slots' = slots \/ slots' = [slots EXCEPT !["S"][p] = Quarantine(@)]
        /\ UNCHANGED qps
    BY <1>11 DEF MarkHealthyS, MarkRecovered
  <2> QED BY <1>1, <2>1, QuarantineSound, SidesAndPlanes DEF Peer
<1> HIDE DEF Goal
<1> QED BY <1>3, <1>5, <1>6, <1>7, <1>8, <1>9, <1>10, <1>11 DEF Sender

\* The receiver's replacement is new, and connected when it is made.
LEMMA RecoveryReqSound ==
    ASSUME TypeOK, ReplacementsSound, NEW ready \in BOOLEAN, RecvRecoveryReq(ready)
    PROVE  /\ \A t \in Sides, o \in Planes : SoundReplacement(t, slots[t][o], qps[t])'
           /\ ReadmitsReplacement
<1> DEFINE m == Head(net["R"])
           p == m.plane
           q == FreshQp("R")
           old == slots["R"][p]
           idle == IF old.shadow.qp # NoQp THEN AbortRecovery(old) ELSE old
           sl == ConnectShadow(EnsureShadow(idle, m.gen, q), m.gen)
           connected == [NullQp EXCEPT !.dest = m.qp]
           probing == PostTo(connected, "R", ProbeRequest(m.gen))
           others == [qps["R"] EXCEPT ![q] = probing]
<1>1. /\ m \in Messages /\ p \in Planes /\ m.gen \in Nat /\ m.qp \in QpIds
      /\ q \in QpIds /\ q \notin NamedQps("R")
  BY StateTypes, SidesAndPlanes, MessageFields, FreshQpType DEF RecvRecoveryReq, Arrived
<1>2. old \in Slots(QpIds) /\ qps["R"] \in [QpIds -> QpRecords]
  BY <1>1, StateTypes, SidesAndPlanes
<1>3. idle \in Slots(QpIds) /\ Keeps(old, idle) /\ idle.shadow.qp = NoQp
  <2>1. AbortRecovery(old) \in Slots(QpIds) /\ Keeps(old, AbortRecovery(old))
    BY <1>1, <1>2, SlotOperatorsType, SlotOperatorsKeep
  <2>2. AbortRecovery(old).shadow.qp = NoQp
    BY <1>2 DEF AbortRecovery, ClearProbe, ResetProbe, DestroyEndpoint, Slots, Endpoints
  <2> QED BY <1>2, <2>1, <2>2 DEF Keeps
<1>4. \/ UNCHANGED <<slots, qps>>
      \/ Install("R", p, idle, qps["R"])
      \/ Install("R", p, sl, others)
  BY DEF RecvRecoveryReq
<1>5. CASE UNCHANGED <<slots, qps>>
  BY <1>5, ConnectedStep
<1>6. CASE Install("R", p, idle, qps["R"])
  <2> HIDE DEF idle, p
  <2> QED BY <1>1, <1>2, <1>3, <1>6, KeepingStep, SidesAndPlanes
<1>7. CASE Install("R", p, sl, others)
  <2>1. q # old.active.qp
    <3>1. \A o \in Planes : QpsOf(slots["R"][o]) \subseteq NamedQps("R")
      BY DEF NamedQps, LiveQps
    <3>2. q \notin QpsOf(old)
      BY <1>1, <3>1
    <3> HIDE DEF q, old
    <3> QED BY <1>1, <3>2, SidesAndPlanes DEF QpsOf
  <2>2. sl \in Slots(QpIds)
    <3> HIDE DEF idle, m, q
    <3>1. EnsureShadow(idle, m.gen, q) \in Slots(QpIds)
      BY <1>1, <1>3, EnsureShadowType
    <3> QED BY <1>1, <3>1, SlotOperatorsType
  <2>3. /\ sl.shadow.qp = q /\ sl.shadow.ready /\ sl.active = old.active
        /\ sl.state # "Active"
    <3> HIDE DEF idle, m, q, old
    <3> QED BY <1>1, <1>3
            DEF Keeps, EnsureShadow, ConnectShadow, NewEndpoint, ResetProbe, Slots, Endpoints
  <2>4. probing \in QpRecords /\ probing.dest = m.qp
    <3>1. m.qp \in 0 .. MaxQp
      BY <1>1, DpfrCommAssumption DEF QpIds
    <3>2. connected \in QpRecords /\ connected.dest = m.qp
      BY <3>1, EmptySeq DEF NullQp, QpRecords
    <3>3. ProbeRequest(m.gen) \in WorkRequests
      BY <1>1, DpfrCommAssumption DEF ProbeRequest, WorkRequests
    <3> QED BY <3>2, <3>3, PostToType, SidesAndPlanes
  <2> HIDE DEF probing, q, m
  <2>5. /\ others \in [QpIds -> QpRecords] /\ others[q].dest # NoQp
        /\ \A i \in QpIds : qps["R"][i].dest # NoQp => others[i].dest # NoQp
    BY <1>1, <1>2, <2>4, SidesAndPlanes
  <2> HIDE DEF others, sl, old
  <2>6. SoundReplacement("R", sl, others) /\ Admits("R", old, sl, others)
    BY <2>1, <2>3, <2>5 DEF SoundReplacement, Admits
  <2> QED BY <1>1, <1>2, <1>7, <2>2, <2>5, <2>6, InstallStep, SidesAndPlanes DEF old
<1> QED BY <1>4, <1>5, <1>6, <1>7

\* The receiver's side of the handshake.
LEMMA ReceiverSound ==
    ASSUME TypeOK, ReplacementsSound, Receiver
    PROVE  ReplacementsSound' /\ ReadmitsReplacement
<1> DEFINE p == pc["R"].plane
           g == pc["R"].gen
           m == Head(net["R"])
           Goal == /\ \A t \in Sides, o \in Planes : SoundReplacement(t, slots[t][o], qps[t])'
                   /\ ReadmitsReplacement
<1>1. /\ p \in Planes /\ g \in Nat /\ Probed \in Slots(QpIds)
      /\ qps["R"] \in [QpIds -> QpRecords] /\ Probed = slots["R"][p]
  BY StateTypes, SidesAndPlanes DEF Probed
<1>2. AfterHandle("R") /\ MayHandle("R") => ~In("R", {"rprobe"})'
  BY SidesAndPlanes DEF MayHandle, AfterHandle, Goto, At, In, TypeOK
<1>3. ASSUME Goal, ~In("R", {"rprobe"})'
      PROVE  ReplacementsSound' /\ ReadmitsReplacement
  BY <1>3, WaitKept DEF ReplacementsSound
<1>4. CASE RecvQuery
  <2>1. slots' = slots /\ (UNCHANGED qps \/ PostRequest("R", req["R"]))
    BY <1>4 DEF RecvQuery
  <2>2. \A t \in Sides, i \in QpIds : qps'[t][i].dest = qps[t][i].dest
    BY <2>1, StateTypes, PostKeepsConnected, SidesAndPlanes
  <2>3. Goal
    BY <2>1, <2>2, ConnectedStep
  <2> QED BY <1>2, <1>3, <1>4, <2>3 DEF RecvQuery
<1>5. ASSUME NEW ready \in BOOLEAN, RecvRecoveryReq(ready)
      PROVE  ReplacementsSound' /\ ReadmitsReplacement
  <2>1. Goal
    BY <1>5, RecoveryReqSound
  <2> QED BY <1>2, <1>3, <1>5, <2>1 DEF RecvRecoveryReq
<1>6. CASE RecvRecoveryReady
  <2> DEFINE o == m.plane
             slot == slots["R"][o]
  <2>1. o \in Planes /\ m.gen \in Nat
    BY <1>6, StateTypes, SidesAndPlanes, MessageFields DEF RecvRecoveryReady, Arrived
  <2>2. slot \in Slots(QpIds)
    BY <2>1, StateTypes, SidesAndPlanes
  <2>3. /\ MayHandle("R")
        /\ \/ UNCHANGED <<slots, qps>> /\ AfterHandle("R")
           \/ Install("R", o, AbortRecovery(slot), qps["R"]) /\ AfterHandle("R")
           \/ UNCHANGED <<slots, qps>> /\ GotoOn("R", "rprobe", o, m.gen) /\ slot.shadow.qp # NoQp
    BY <1>6 DEF RecvRecoveryReady
  <2>4. Goal
    <3>1. CASE UNCHANGED <<slots, qps>>
      BY <3>1, ConnectedStep
    <3>2. CASE Install("R", o, AbortRecovery(slot), qps["R"])
      <4>1. AbortRecovery(slot) \in Slots(QpIds) /\ Keeps(slot, AbortRecovery(slot))
        BY <2>1, <2>2, SlotOperatorsType, SlotOperatorsKeep
      <4> HIDE DEF o
      <4> QED BY <1>1, <2>1, <3>2, <4>1, KeepingStep, SidesAndPlanes
    <3> QED BY <2>3, <3>1, <3>2
  <2>5. CASE AfterHandle("R")
    BY <1>2, <1>3, <2>3, <2>4, <2>5
  <2>6. CASE UNCHANGED slots /\ GotoOn("R", "rprobe", o, m.gen) /\ slot.shadow.qp # NoQp
    <3>1. pc'["R"].plane = o
      BY <2>6, SidesAndPlanes DEF GotoOn, TypeOK
    <3>2. (Probed.shadow.qp # NoQp)'
      BY <2>6, <3>1 DEF Probed
    <3> HIDE DEF o
    <3> QED BY <2>4, <3>2 DEF ReplacementsSound
  <2> QED BY <2>3, <2>5, <2>6
<1>7. CASE CommitR
  <2> DEFINE polled == ~Probed.probe.recvDone
             seen == IF polled THEN RecordProbe(Probed, "recv", g, TRUE) ELSE Probed
             committed == CommitShadow(seen)
             sl == DropUnusedRetired(committed, p, req["R"])
             popped == IF polled THEN Popped("R", Probed.shadow) ELSE qps["R"]
  <2>1. seen \in Slots(QpIds) /\ seen.shadow = Probed.shadow /\ seen.active = Probed.active
    <3>1. LET recorded == RecordProbe(Probed, "recv", g, TRUE)
          IN  /\ recorded \in Slots(QpIds)
              /\ recorded.shadow = Probed.shadow /\ recorded.active = Probed.active
      <4>1. RecordProbe(Probed, "recv", g, TRUE) \in Slots(QpIds)
        BY <1>1, RecordProbeType
      <4> QED BY <1>1, <4>1 DEF RecordProbe, Slots
    <3> QED BY <1>1, <3>1
  <2>2. committed \in Slots(QpIds)
    <3>1. 0 \in Nat
      OBVIOUS
    <3> HIDE DEF seen
    <3> QED BY <2>1, <3>1, SlotOperatorsType
  <2>3. sl \in Slots(QpIds) /\ Keeps(committed, sl)
    BY <2>2, DropUnusedRetiredType, BookkeepingKeeps
  <2>4. committed.active = seen.shadow /\ committed.shadow.qp = NoQp
    <3> HIDE DEF seen
    <3> QED BY <2>1 DEF CommitShadow, RetireActive, ClearProbe, ResetProbe, NoEndpoint, Slots
  <2>5. /\ popped \in [QpIds -> QpRecords]
        /\ \A i \in QpIds : popped[i].dest = qps["R"][i].dest
    <3>1. polled => qps["R"][slots["R"][p].shadow.qp].cq # <<>>
      BY <1>1, <1>7 DEF CommitR, ShadowCompletion, HasCompletion
    <3>2. polled => /\ Popped("R", Probed.shadow) \in [QpIds -> QpRecords]
                    /\ \A i \in QpIds : Popped("R", Probed.shadow)[i].dest = qps["R"][i].dest
      <4> HIDE DEF p, polled
      <4>1. polled => qps["R"][slots["R"][p].shadow.qp].cq # <<>> /\ Probed.shadow = slots["R"][p].shadow
        BY <1>1, <3>1
      <4>2. ASSUME polled
            PROVE  /\ Popped("R", slots["R"][p].shadow) \in [QpIds -> QpRecords]
                   /\ \A i \in QpIds :
                          Popped("R", slots["R"][p].shadow)[i].dest = qps["R"][i].dest
        <5>1. "R" \in Sides /\ p \in Planes
          BY <1>1, SidesAndPlanes
        <5> QED BY <4>1, <4>2, <5>1, ShadowPoppedType
      <4> QED BY <4>1, <4>2
    <3> QED BY <1>1, <3>2
  <2>6. Install("R", p, sl, popped) /\ GotoOn("R", "rmark", p, g) /\ In("R", {"rprobe"})
    BY <1>7 DEF CommitR
  <2>7. Probed.shadow.qp # NoQp /\ SoundReplacement("R", Probed, qps["R"])
    BY <1>1, <2>6, SidesAndPlanes DEF ReplacementsSound
  <2> HIDE DEF seen, committed, sl, popped
  <2>8. sl.active = Probed.shadow /\ sl.shadow.qp = NoQp
    BY <2>1, <2>2, <2>3, <2>4 DEF Keeps, Slots, Endpoints
  <2>9. SoundReplacement("R", sl, popped) /\ Admits("R", Probed, sl, popped)
    <3>1. Probed.shadow.qp \in QpIds
      BY <1>1, <2>7 DEF Slots, Endpoints
    <3>2. /\ Probed.shadow.qp # Probed.active.qp
          /\ popped[Probed.shadow.qp].dest # NoQp
      BY <2>5, <2>7, <3>1 DEF SoundReplacement
    <3> QED BY <2>8, <3>1, <3>2 DEF SoundReplacement, Admits
  <2>10. Goal
    <3>1. \A i \in QpIds : qps["R"][i].dest # NoQp => popped[i].dest # NoQp
      BY <2>5
    <3>2. "R" \in Sides /\ p \in Planes /\ Probed = slots["R"][p]
      BY <1>1, SidesAndPlanes
    <3> HIDE DEF p, g
    <3> QED BY <2>3, <2>5, <2>6, <2>9, <3>1, <3>2, InstallStep
  <2>11. ~In("R", {"rprobe"})'
    BY <2>6, SidesAndPlanes DEF GotoOn, In, TypeOK
  <2> QED BY <1>3, <2>10, <2>11
<1>8. CASE RProbeFailed
  <2>1. 0 \in Nat
    OBVIOUS
  <2>2. AbortRecovery(Probed) \in Slots(QpIds) /\ Keeps(Probed, AbortRecovery(Probed))
    BY <1>1, <2>1, SlotOperatorsType, SlotOperatorsKeep
  <2>3. Install("R", p, AbortRecovery(Probed), qps["R"]) /\ Goto("R", "control")
    BY <1>8 DEF RProbeFailed
  <2>4. Goal
    BY <1>1, <2>2, <2>3, KeepingStep, SidesAndPlanes
  <2>5. ~In("R", {"rprobe"})'
    BY <2>3, SidesAndPlanes DEF Goto, At, In, TypeOK
  <2> QED BY <1>3, <2>4, <2>5
<1>9. CASE MarkHealthyR
  <2>1. /\ slots' = slots \/ slots' = [slots EXCEPT !["R"][p] = Quarantine(@)]
        /\ UNCHANGED qps /\ Goto("R", "control")
    BY <1>9 DEF MarkHealthyR, MarkRecovered
  <2>2. Goal
    BY <1>1, <2>1, QuarantineSound, SidesAndPlanes
  <2>3. ~In("R", {"rprobe"})'
    BY <2>1, SidesAndPlanes DEF Goto, At, In, TypeOK
  <2> QED BY <1>3, <2>2, <2>3
<1> HIDE DEF Goal
<1> QED BY <1>4, <1>5, <1>6, <1>7, <1>8, <1>9 DEF Receiver

-----------------------------------------------------------------------------
\* The established connection has no replacements.
LEMMA InitSound == Init => ReplacementsSound
  BY SidesAndPlanes DEF Init, ReplacementsSound, SoundReplacement, NoEndpoint, In, At

(* A replacement queue pair is never the one in use, is connected once it  *)
(* is ready, and is there while the receiver waits for its probe: what     *)
(* ensureRecoveryShadow, handleRecoveryReq and handleRecoveryReady set up  *)
(* survives plane events, completions and faults between their steps.      *)
THEOREM ReplacementStaysSound == Spec => []ReplacementsSound
<1>1. TypeOK /\ ReplacementsSound /\ [Next]_vars => ReplacementsSound'
  <2>1. TypeOK /\ ReplacementsSound /\ Next => ReplacementsSound'
    BY FabricSound, MonitorsSound, ControlSound, SenderSound, ReceiverSound, CallsSound DEF Next
  <2>2. ReplacementsSound /\ UNCHANGED vars => ReplacementsSound'
    BY DEF ReplacementsSound, vars, SoundReplacement, In, Probed
  <2> QED BY <2>1, <2>2
<1> QED BY ConnectionTypes, InitSound, <1>1, PTL DEF Spec

(* A slot becomes Active again only with another queue pair, which has     *)
(* been connected to a peer's: whatever monitors, control messages and     *)
(* completions interleave, commitShadow is the only way back into use.     *)
THEOREM OldQpNeverReadmitted == Spec => NeverReadmitted
<1>1. TypeOK /\ ReplacementsSound /\ [Next]_vars => [ReadmitsReplacement]_vars
  BY FabricSound, MonitorsSound, ControlSound, SenderSound, ReceiverSound, CallsSound DEF Next
<1> QED BY ConnectionTypes, ReplacementStaysSound, <1>1, PTL DEF Spec, NeverReadmitted

-----------------------------------------------------------------------------
\* A queue holds a data work request of generation g, or a completion for one;
\* so does a queue pair that has one in any of its queues.
Holds(seq, g) == \E i \in 1 .. Len(seq) : ~seq[i].probe /\ seq[i].gen = g

Carries(qp, g) == Holds(qp.sq, g) \/ Holds(qp.rq, g) \/ Holds(qp.cq, g)

\* The endpoints of a slot that requests may refer to.
InUse(slot) == {slot.active} \cup slot.retired

\* A request r that was posted and is not finished finds a queue pair of its
\* generation on its plane, which carries it as long as nothing has put it back.
Tracked(r, sl, q) ==
    Outstanding(r) /\ r.plane # NoPlane =>
        \E e \in InUse(sl[r.plane]) :
            /\ e.qp # NoQp /\ e.gen = r.gen
            /\ r.state = "Posted" => Carries(q[e.qp], r.gen)

RequestOK(r, sl, q) == Tracked(r, sl, q) /\ (r.state = "Posted" => r.plane # NoPlane)

\* The answer to a query finds the request it is about still interrupted.
QueryOK == In("S", {"query"}) => req["S"].state = "NeedsQuery"

\* A receive that is finished is in the journal, so no query puts it back.
JournalOK == req["R"].plane # NoPlane /\ ~Outstanding(req["R"]) => req["R"].seq \in journal

RequestsSound ==
    /\ \A s \in Sides : RequestOK(req[s], slots[s], qps[s])
    /\ QueryOK /\ JournalOK

-----------------------------------------------------------------------------
\* Queues.
LEMMA HoldsAppend ==
    ASSUME NEW X, NEW seq \in Seq(X), NEW w, NEW g
    PROVE  /\ Holds(seq, g) => Holds(Append(seq, w), g)
           /\ ~w.probe /\ w.gen = g => Holds(Append(seq, w), g)
<1>1. /\ Len(Append(seq, w)) = Len(seq) + 1 /\ Len(seq) \in Nat
      /\ \A i \in 1 .. Len(seq) : Append(seq, w)[i] = seq[i]
      /\ Append(seq, w)[Len(seq) + 1] = w
  OBVIOUS
<1> QED BY <1>1 DEF Holds

LEMMA HoldsTail ==
    ASSUME NEW X, NEW seq \in Seq(X), seq # <<>>, NEW g, Holds(seq, g)
    PROVE  Holds(Tail(seq), g) \/ (~Head(seq).probe /\ Head(seq).gen = g)
<1>1. PICK i \in 1 .. Len(seq) : ~seq[i].probe /\ seq[i].gen = g
  BY DEF Holds
<1>2. CASE i = 1
  BY <1>1, <1>2
<1>3. CASE i # 1
  <2>1. i - 1 \in 1 .. Len(Tail(seq)) /\ Tail(seq)[i - 1] = seq[i]
    BY <1>3
  <2> QED BY <1>1, <2>1 DEF Holds
<1> QED BY <1>2, <1>3

\* Posting keeps what a queue pair carries and adds to it.
LEMMA CarriesPost ==
    ASSUME NEW qp \in QpRecords, NEW s, NEW w \in WorkRequests, NEW g
    PROVE  /\ Carries(qp, g) => Carries(PostTo(qp, s, w), g)
           /\ ~w.probe /\ w.gen = g => Carries(PostTo(qp, s, w), g)
<1> DEFINE c == Completion(w, FALSE)
<1>1. qp.sq \in Seq(WorkRequests) /\ qp.rq \in Seq(WorkRequests) /\ qp.cq \in Seq(Completions)
  BY DEF QpRecords
<1>2. c.probe = w.probe /\ c.gen = w.gen
  BY DEF Completion
<1> HIDE DEF c
<1>3. /\ Holds(qp.sq, g) => Holds(Append(qp.sq, w), g)
      /\ ~w.probe /\ w.gen = g => Holds(Append(qp.sq, w), g)
  BY <1>1, HoldsAppend
<1>4. /\ Holds(qp.rq, g) => Holds(Append(qp.rq, w), g)
      /\ ~w.probe /\ w.gen = g => Holds(Append(qp.rq, w), g)
  BY <1>1, HoldsAppend
<1>5. /\ Holds(qp.cq, g) => Holds(Append(qp.cq, c), g)
      /\ ~w.probe /\ w.gen = g => Holds(Append(qp.cq, c), g)
  BY <1>1, <1>2, HoldsAppend
<1>6. PostTo(qp, s, w) = IF qp.err THEN [qp EXCEPT !.cq = Append(@, c)]
                         ELSE IF s = "S" THEN [qp EXCEPT !.sq = Append(@, w)]
                         ELSE [qp EXCEPT !.rq = Append(@, w)]
  BY DEF PostTo, c
<1> QED BY <1>3, <1>4, <1>5, <1>6 DEF Carries, QpRecords

\* Taking a completion of another request off keeps it as well.
LEMMA CarriesPop ==
    ASSUME NEW qp \in QpRecords, qp.cq # <<>>, NEW g,
           Head(qp.cq).probe \/ Head(qp.cq).gen # g, Carries(qp, g)
    PROVE  Carries([qp EXCEPT !.cq = Tail(@)], g)
<1>1. qp.cq \in Seq(Completions)
  BY DEF QpRecords
<1>2. Holds(qp.cq, g) => Holds(Tail(qp.cq), g)
  BY <1>1, HoldsTail
<1> QED BY <1>2 DEF Carries, QpRecords

LEMMA HoldsConcat ==
    ASSUME NEW X, NEW a \in Seq(X), NEW b \in Seq(X), NEW g
    PROVE  Holds(a \o b, g) <=> Holds(a, g) \/ Holds(b, g)
<1> DEFINE c == a \o b
<1>1. /\ Len(c) = Len(a) + Len(b) /\ Len(a) \in Nat /\ Len(b) \in Nat
      /\ \A i \in 1 .. Len(a) + Len(b) : c[i] = IF i <= Len(a) THEN a[i] ELSE b[i - Len(a)]
  BY ConcatProperties, LenProperties
<1> HIDE DEF c
<1>2. \A i \in 1 .. Len(a) : i \in 1 .. Len(c) /\ c[i] = a[i]
  BY <1>1
<1>3. \A i \in 1 .. Len(b) : Len(a) + i \in 1 .. Len(c) /\ c[Len(a) + i] = b[i]
  <2> TAKE i \in 1 .. Len(b)
  <2> DEFINE k == Len(a) + i
  <2>1. /\ k \in 1 .. Len(c) /\ k \in 1 .. Len(a) + Len(b)
        /\ ~(k <= Len(a)) /\ k - Len(a) = i
    BY <1>1
  <2> HIDE DEF k
  <2>2. c[k] = b[k - Len(a)]
    BY <1>1, <2>1
  <2> QED BY <2>1, <2>2 DEF k
<1>4. Holds(a, g) => Holds(c, g)
  BY <1>2 DEF Holds
<1>5. Holds(b, g) => Holds(c, g)
  BY <1>3 DEF Holds
<1>6. Holds(c, g) => Holds(a, g) \/ Holds(b, g)
  <2> SUFFICES ASSUME NEW i \in 1 .. Len(c), ~c[i].probe, c[i].gen = g
               PROVE  Holds(a, g) \/ Holds(b, g)
    BY DEF Holds
  <2>1. CASE i <= Len(a)
    <3>1. i \in 1 .. Len(a) /\ c[i] = a[i]
      BY <1>1, <2>1
    <3> QED BY <3>1 DEF Holds
  <2>2. CASE ~(i <= Len(a))
    <3>1. i - Len(a) \in 1 .. Len(b) /\ c[i] = b[i - Len(a)]
      BY <1>1, <2>2
    <3> QED BY <3>1 DEF Holds
  <2> QED BY <2>1, <2>2
<1> QED BY <1>4, <1>5, <1>6 DEF c

\* Flushing completes what has been posted.
LEMMA CarriesFlushed ==
    ASSUME NEW qp \in QpRecords, NEW g, Carries(qp, g)
    PROVE  Carries(Flushed(qp), g)
<1> DEFINE all == qp.sq \o qp.rq
           failures == [i \in DOMAIN all |-> Completion(all[i], FALSE)]
           cq == qp.cq \o failures
<1>1. qp.sq \in Seq(WorkRequests) /\ qp.rq \in Seq(WorkRequests) /\ qp.cq \in Seq(Completions)
  BY DEF QpRecords
<1>2. all \in Seq(WorkRequests) /\ (Holds(all, g) <=> Holds(qp.sq, g) \/ Holds(qp.rq, g))
  BY <1>1, HoldsConcat, ConcatProperties
<1>3. Flushed(qp).cq = cq
  BY DEF Flushed, QpRecords
<1> HIDE DEF all
<1>4. DOMAIN all = 1 .. Len(all) /\ Len(all) \in Nat /\ \A i \in 1 .. Len(all) : all[i] \in WorkRequests
  BY <1>2, LenProperties
<1>5. failures \in Seq(Completions) /\ Len(failures) = Len(all)
  <2>1. \A i \in 1 .. Len(all) : Completion(all[i], FALSE) \in Completions
    BY <1>4 DEF Completion, Completions, WorkRequests
  <2>2. failures \in [1 .. Len(all) -> Completions]
    BY <1>4, <2>1
  <2> HIDE DEF failures
  <2> QED BY <1>4, <2>2, SequenceOfLength
<1>6. \A i \in 1 .. Len(all) : failures[i].probe = all[i].probe /\ failures[i].gen = all[i].gen
  BY <1>4 DEF Completion
<1> HIDE DEF failures
<1>7. Holds(all, g) => Holds(failures, g)
  BY <1>5, <1>6 DEF Holds
<1>8. Holds(qp.cq, g) \/ Holds(failures, g) => Holds(cq, g)
  BY <1>1, <1>5, HoldsConcat
<1> QED BY <1>2, <1>3, <1>7, <1>8 DEF Carries

-----------------------------------------------------------------------------
\* A request stays itself, or is put back, or is finished.
Follows(r, f) ==
    Outstanding(f) => /\ Outstanding(r) /\ f.plane = r.plane /\ f.gen = r.gen
                      /\ f.state = "Posted" => r.state = "Posted"

\* Request f refers to endpoint e of plane p.
Needs(f, p, e) == e.qp # NoQp /\ Outstanding(f) /\ f.plane = p /\ f.gen = e.gen

\* A request that follows another one is sound when its endpoints stay in use
\* and lose none of its work.
LEMMA FollowedOK ==
    ASSUME NEW r \in Requests, NEW f \in Requests, NEW sl, NEW tl, NEW q, NEW v,
           RequestOK(r, sl, q), Follows(r, f),
           \A p \in Planes : \A e \in InUse(sl[p]) :
               Needs(f, p, e) => /\ e \in InUse(tl[p])
                                 /\ f.state = "Posted" /\ Carries(q[e.qp], f.gen) => Carries(v[e.qp], f.gen)
    PROVE  RequestOK(f, tl, v)
<1>1. f.state = "Posted" => Outstanding(f) /\ r.state = "Posted" /\ r.plane = f.plane
  BY DEF Follows, Outstanding
<1>2. ASSUME Outstanding(f), f.plane # NoPlane
      PROVE  \E e \in InUse(tl[f.plane]) :
                 /\ e.qp # NoQp /\ e.gen = f.gen
                 /\ f.state = "Posted" => Carries(v[e.qp], f.gen)
  <2>1. /\ Outstanding(r) /\ r.plane = f.plane /\ r.gen = f.gen /\ f.plane \in Planes
        /\ f.state = "Posted" => r.state = "Posted"
    BY <1>2 DEF Follows, Requests
  <2>2. PICK e \in InUse(sl[r.plane]) :
            /\ e.qp # NoQp /\ e.gen = r.gen
            /\ r.state = "Posted" => Carries(q[e.qp], r.gen)
    BY <1>2, <2>1 DEF RequestOK, Tracked
  <2>3. Needs(f, f.plane, e) /\ e \in InUse(sl[f.plane])
    BY <1>2, <2>1, <2>2 DEF Needs
  <2> QED BY <2>1, <2>2, <2>3
<1> QED BY <1>1, <1>2 DEF RequestOK, Tracked

LEMMA DisturbFollows ==
    ASSUME NEW s \in Sides, NEW r \in Requests, NEW p
    PROVE  /\ Disturb(s, r, p) \in Requests /\ Follows(r, Disturb(s, r, p))
           /\ Disturb(s, r, p).seq = r.seq /\ Disturb(s, r, p).plane = r.plane
           /\ Outstanding(r) => Outstanding(Disturb(s, r, p))
           /\ r.state = "NeedsQuery" => Disturb(s, r, p) = r
  BY DEF Disturb, Disturbed, Follows, Outstanding, Requests, RequestStates, Sides

\* What Install leaves of the endpoints in use and their work.
LEMMA InstallOK ==
    ASSUME TypeOK, NEW s \in Sides, NEW p \in Planes, NEW tl \in Slots(QpIds),
           NEW v \in [QpIds -> QpRecords], Install(s, p, tl, v),
           NEW f \in Requests, Follows(req[s], f), RequestOK(req[s], slots[s], qps[s]),
           \A e \in InUse(slots[s][p]) : Needs(f, p, e) => e \in InUse(tl),
           f.state = "Posted" =>
               \A i \in LiveQps(slots[s]) : Carries(qps[s][i], f.gen) => Carries(v[i], f.gen)
    PROVE  /\ RequestOK(f, slots'[s], qps'[s])
           /\ \A t \in Sides : t # s => slots'[t] = slots[t] /\ qps'[t] = qps[t]
<1>1. /\ slots \in [Sides -> [Planes -> Slots(QpIds)]] /\ qps \in [Sides -> [QpIds -> QpRecords]]
      /\ req[s] \in Requests
  BY StateTypes DEF TypeOK
<1>2. /\ slots' = [slots EXCEPT ![s][p] = tl]
      /\ qps' = [qps EXCEPT ![s] = [i \in QpIds |-> IF i \in LiveQps(slots'[s]) THEN v[i] ELSE NullQp]]
  BY DEF Install
<1>3. /\ \A t \in Sides : t # s => slots'[t] = slots[t] /\ qps'[t] = qps[t]
      /\ slots'[s][p] = tl /\ \A o \in Planes : o # p => slots'[s][o] = slots[s][o]
      /\ qps'[s] = [i \in QpIds |-> IF i \in LiveQps(slots'[s]) THEN v[i] ELSE NullQp]
  BY <1>1, <1>2
<1>4. ASSUME NEW o \in Planes, NEW e \in InUse(slots[s][o]), Needs(f, o, e)
      PROVE  /\ e \in InUse(slots'[s][o])
             /\ f.state = "Posted" /\ Carries(qps[s][e.qp], f.gen) => Carries(qps'[s][e.qp], f.gen)
  <2>1. e \in InUse(slots'[s][o])
    BY <1>3, <1>4
  <2>2. e.qp \in LiveQps(slots[s]) /\ e.qp \in LiveQps(slots'[s])
    BY <1>4, <2>1 DEF LiveQps, QpsOf, InUse, Needs
  <2>3. e.qp \in QpIds
    BY <1>1, <1>4 DEF InUse, Needs, Slots, Endpoints
  <2>4. qps'[s][e.qp] = v[e.qp]
    BY <1>3, <2>2, <2>3
  <2> QED BY <2>1, <2>2, <2>4
<1>5. RequestOK(f, slots'[s], qps'[s])
  BY <1>1, <1>4, FollowedOK
<1> QED BY <1>3, <1>5

\* Posting a request makes it sound.
LEMMA PostOK ==
    ASSUME TypeOK, NEW s \in Sides, NEW r \in Requests, PostRequest(s, r), UNCHANGED slots
    PROVE  /\ RequestOK(req'[s], slots'[s], qps'[s])
           /\ req'[s].seq = r.seq /\ req'[s].state = "Posted"
           /\ \A t \in Sides : t # s => req'[t] = req[t] /\ qps'[t] = qps[t]
<1>1. PICK p \in Planes : /\ Selectable(slots[s][p], table[s][p])
                          /\ req' = [req EXCEPT ![s] = PostedAs(s, r, p)]
                          /\ qps' = WithPosted(s, r, p)
  BY DEF PostRequest, Selected, SelectablePlanes
<1> DEFINE e == slots[s][p].active
           w == DataRequest(r.step, e.gen)
<1>2. e.qp \in QpIds /\ e.qp # NoQp /\ e.gen \in Nat /\ e \in InUse(slots[s][p])
  BY <1>1, StateTypes DEF Selectable, SlotAtGeneration, Slots, Endpoints, InUse
<1>3. w \in WorkRequests /\ ~w.probe /\ w.gen = e.gen
  BY <1>2 DEF DataRequest, WorkRequests, Requests
<1>4. qps[s][e.qp] \in QpRecords
  BY <1>2, StateTypes
<1>5. /\ qps'[s][e.qp] = PostTo(qps[s][e.qp], s, w)
      /\ \A t \in Sides : t # s => qps'[t] = qps[t]
  BY <1>1, <1>2 DEF WithPosted, TypeOK
<1> HIDE DEF w
<1>6. Carries(qps'[s][e.qp], e.gen)
  BY <1>3, <1>4, <1>5, CarriesPost
<1>7. /\ req'[s] = PostedAs(s, r, p)
      /\ \A t \in Sides : t # s => req'[t] = req[t]
  BY <1>1 DEF TypeOK
<1>8. /\ req'[s].state = "Posted" /\ req'[s].plane = p /\ req'[s].gen = e.gen
      /\ req'[s].seq = r.seq
  BY <1>7 DEF PostedAs, Requests
<1>9. p # NoPlane
  BY DpfrCommAssumption DEF Planes, NoPlane
<1> HIDE DEF e
<1>10. RequestOK(req'[s], slots'[s], qps'[s])
  BY <1>2, <1>6, <1>8, <1>9 DEF RequestOK, Tracked
<1> QED BY <1>5, <1>7, <1>8, <1>10

\* The steps of one side leave the other one's requests alone.
LEMMA OneSide ==
    ASSUME RequestsSound, NEW s \in Sides, RequestOK(req'[s], slots'[s], qps'[s]),
           \A t \in Sides : t # s => req'[t] = req[t] /\ slots'[t] = slots[t] /\ qps'[t] = qps[t]
    PROVE  \A t \in Sides : RequestOK(req'[t], slots'[t], qps'[t])
<1> SUFFICES ASSUME NEW t \in Sides
             PROVE  RequestOK(req'[t], slots'[t], qps'[t])
  OBVIOUS
<1>1. RequestOK(req[t], slots[t], qps[t])
  BY DEF RequestsSound
<1> QED BY <1>1

\* The methods of a slot that take no endpoint out of use.
LEMMA OperatorsInUse ==
    ASSUME NEW slot \in Slots(QpIds), NEW g \in Nat
    PROVE  /\ InUse(Quarantine(slot)) = InUse(slot)
           /\ InUse(AbortRecovery(slot)) = InUse(slot)
           /\ InUse(OnBroken(slot, g)) = InUse(slot)
           /\ InUse(OnRecovering(slot, g)) = InUse(slot)
           /\ InUse(OnFailure(slot)) = InUse(slot)
           /\ InUse(ConnectShadow(slot, g)) = InUse(slot)
           /\ \A q : InUse(EnsureShadow(slot, g, q)) = InUse(slot)
<1>1. \A s \in Slots(QpIds) : InUse(Quarantine(s)) = InUse(s)
  BY DEF InUse, Quarantine, Slots
<1>2. \A s \in Slots(QpIds) : InUse(AbortRecovery(s)) = InUse(s) /\ AbortRecovery(s) \in Slots(QpIds)
  BY AbortRecoveryType DEF InUse, AbortRecovery, ClearProbe, ResetProbe, Slots
<1>3. InUse(OnBroken(slot, g)) = InUse(slot) /\ InUse(OnFailure(slot)) = InUse(slot)
  BY <1>1, <1>2 DEF OnBroken, OnFailure
<1>4. \A s \in Slots(QpIds) : InUse([s EXCEPT !.state = "Rebuilding"]) = InUse(s)
  BY DEF InUse, Slots
<1>5. InUse(OnRecovering(slot, g)) = InUse(slot)
  BY <1>2, <1>4 DEF OnRecovering
<1>6. InUse(ConnectShadow(slot, g)) = InUse(slot)
  BY DEF InUse, ConnectShadow, ResetProbe, Slots
<1>7. \A q : InUse(EnsureShadow(slot, g, q)) = InUse(slot)
  BY DEF InUse, EnsureShadow, ResetProbe, Slots
<1> QED BY <1>1, <1>2, <1>3, <1>5, <1>6, <1>7

\* So does the record of a probe, whatever it says.
LEMMA RecordProbeInUse ==
    ASSUME NEW slot \in Slots(QpIds), NEW kind \in {"send", "recv"}, NEW g, NEW ok \in BOOLEAN
    PROVE  InUse(RecordProbe(slot, kind, g, ok)) = InUse(slot)
  BY DEF InUse, RecordProbe, Slots

\* destroyRetiredIfUnused spares what the request refers to, and a commit
\* retires what was active.
LEMMA RetiredInUse ==
    ASSUME NEW slot \in Slots(QpIds), NEW f, NEW p, NEW e \in InUse(slot), Needs(f, p, e)
    PROVE  /\ e \in InUse(DropUnusedRetired(slot, p, f))
           /\ e \in InUse(CommitShadow(slot))
<1>1. e \in InUse(DropUnusedRetired(slot, p, f))
  BY DEF InUse, DropUnusedRetired, Needs, Slots
<1>2. e \in InUse(CommitShadow(slot))
  BY DEF InUse, CommitShadow, RetireActive, ClearProbe, ResetProbe, Needs, Slots
<1> QED BY <1>1, <1>2

-----------------------------------------------------------------------------
\* Work moves from queue to queue; none is lost.
LEMMA FabricKeepsWork ==
    ASSUME TypeOK, Fabric, NEW g
    PROVE  \A t \in Sides, i \in QpIds : Carries(qps[t][i], g) => Carries(qps'[t][i], g)
<1>1. PICK q \in QpIds : Deliver(q) \/ Acknowledge(q) \/ \E s \in Sides : QpError(s, q)
  BY DEF Fabric
<1>2. CASE Deliver(q)
  <2> DEFINE d == qps["S"][q].dest
             v == Head(qps["R"][d].rq)
             c == Completion(v, TRUE)
  <2>1. PICK i \in DOMAIN qps["S"][q].sq :
            /\ qps' = [qps EXCEPT !["S"][q].sq[i].sent = TRUE,
                                  !["R"][d].rq = Tail(@), !["R"][d].cq = Append(@, c)]
            /\ d \in LiveQps(slots["R"]) /\ qps["R"][d].rq # <<>>
    BY <1>2 DEF Deliver, Reachable, Peer
  <2> DEFINE sq == [qps["S"][q].sq EXCEPT ![i].sent = TRUE]
             rq == Tail(qps["R"][d].rq)
             cq == Append(qps["R"][d].cq, c)
  <2>2. /\ qps'["S"] = [qps["S"] EXCEPT ![q].sq = sq]
        /\ qps'["R"] = [qps["R"] EXCEPT ![d].rq = rq, ![d].cq = cq]
    BY <2>1, SidesAndPlanes DEF TypeOK
  <2>3. /\ qps["S"] \in [QpIds -> QpRecords] /\ qps["R"] \in [QpIds -> QpRecords]
        /\ \A p \in Planes : slots["R"][p] \in Slots(QpIds)
    BY StateTypes, SidesAndPlanes
  <2>4. d \in QpIds
    <3>1. PICK p \in Planes : d \in QpsOf(slots["R"][p])
      BY <2>1 DEF LiveQps
    <3>2. slots["R"][p] \in Slots(QpIds)
      BY <2>3
    <3> QED BY <3>1, <3>2 DEF QpsOf, Slots, Endpoints
  <2>5. /\ qps["S"][q].sq \in Seq(WorkRequests)
        /\ qps["R"][d].rq \in Seq(WorkRequests) /\ qps["R"][d].cq \in Seq(Completions)
    BY <2>3, <2>4 DEF QpRecords
  <2>6. Holds(qps["S"][q].sq, g) => Holds(sq, g)
    <3> DEFINE old == qps["S"][q].sq
    <3>1. old \in Seq(WorkRequests)
      BY <2>5
    <3>2. sq = [old EXCEPT ![i].sent = TRUE]
      OBVIOUS
    <3> HIDE DEF old, sq
    <3>3. /\ Len(sq) = Len(old)
          /\ \A j \in 1 .. Len(sq) : sq[j].probe = old[j].probe /\ sq[j].gen = old[j].gen
      BY <3>1, <3>2 DEF WorkRequests
    <3> QED BY <3>3 DEF Holds, old
  <2>7. c.probe = v.probe /\ c.gen = v.gen
    BY DEF Completion
  <2>8. Holds(qps["R"][d].rq, g) => Holds(rq, g) \/ Holds(cq, g)
    <3> HIDE DEF d, c
    <3> QED BY <2>1, <2>5, <2>7, HoldsTail, HoldsAppend
  <2>9. Holds(qps["R"][d].cq, g) => Holds(cq, g)
    <3> HIDE DEF d, c
    <3> QED BY <2>5, HoldsAppend
  <2> HIDE DEF sq, rq, cq, d
  <2>10. \A j \in QpIds : Carries(qps["S"][j], g) => Carries(qps'["S"][j], g)
    <3>1. \A j \in QpIds : j # q => qps'["S"][j] = qps["S"][j]
      BY <2>2, <2>3
    <3>2. /\ qps'["S"][q].sq = sq
          /\ qps'["S"][q].rq = qps["S"][q].rq /\ qps'["S"][q].cq = qps["S"][q].cq
      BY <2>2, <2>3 DEF QpRecords
    <3>3. Carries(qps["S"][q], g) => Carries(qps'["S"][q], g)
      BY <3>2, <2>6 DEF Carries
    <3> QED BY <3>1, <3>3
  <2>11. \A j \in QpIds : Carries(qps["R"][j], g) => Carries(qps'["R"][j], g)
    <3>1. \A j \in QpIds : j # d => qps'["R"][j] = qps["R"][j]
      BY <2>2, <2>3
    <3>2. /\ qps'["R"][d].sq = qps["R"][d].sq
          /\ qps'["R"][d].rq = rq /\ qps'["R"][d].cq = cq
      BY <2>2, <2>3, <2>4 DEF QpRecords
    <3>3. Carries(qps["R"][d], g) => Carries(qps'["R"][d], g)
      BY <2>8, <2>9, <3>2 DEF Carries
    <3> QED BY <3>1, <3>3
  <2> QED BY <2>10, <2>11 DEF Sides
<1>3. CASE Acknowledge(q)
  <2> DEFINE qp == qps["S"][q]
             c == Completion(Head(qp.sq), TRUE)
             acked == [qp EXCEPT !.sq = Tail(qp.sq), !.cq = Append(qp.cq, c)]
  <2>1. qp \in QpRecords /\ qp.sq # <<>>
    BY <1>3, StateTypes, SidesAndPlanes DEF Acknowledge
  <2>2. qps' = [qps EXCEPT !["S"][q] = acked]
    BY <1>3, <2>1, SidesAndPlanes DEF Acknowledge, TypeOK, QpRecords
  <2>3. c.probe = Head(qp.sq).probe /\ c.gen = Head(qp.sq).gen
    BY DEF Completion
  <2> HIDE DEF qp, c
  <2>4. qp.sq \in Seq(WorkRequests) /\ qp.cq \in Seq(Completions)
    BY <2>1 DEF QpRecords
  <2>5. /\ Holds(qp.sq, g) => Holds(Tail(qp.sq), g) \/ Holds(Append(qp.cq, c), g)
        /\ Holds(qp.cq, g) => Holds(Append(qp.cq, c), g)
    BY <2>1, <2>3, <2>4, HoldsTail, HoldsAppend
  <2>6. Carries(qp, g) => Carries(acked, g)
    BY <2>1, <2>5 DEF Carries, QpRecords
  <2> HIDE DEF acked
  <2> QED BY <2>2, <2>6, SidesAndPlanes DEF TypeOK, qp
<1>4. ASSUME NEW s \in Sides, QpError(s, q)
      PROVE  \A t \in Sides, i \in QpIds : Carries(qps[t][i], g) => Carries(qps'[t][i], g)
  <2>1. Carries(qps[s][q], g) => Carries(Flushed(qps[s][q]), g)
    BY StateTypes, CarriesFlushed
  <2>2. qps' = [qps EXCEPT ![s][q] = Flushed(qps[s][q])]
    BY <1>4 DEF QpError
  <2> QED BY <2>1, <2>2 DEF TypeOK
<1> QED BY <1>1, <1>2, <1>3, <1>4

LEMMA FabricRequests ==
    ASSUME TypeOK, RequestsSound, Fabric
    PROVE  RequestsSound'
<1>1. UNCHANGED <<slots, pc, req, journal>>
  <2>1. ASSUME NEW q \in QpIds, Deliver(q) PROVE UNCHANGED <<slots, pc, req, journal>>
    BY <2>1 DEF Deliver
  <2>2. ASSUME NEW q \in QpIds, Acknowledge(q) PROVE UNCHANGED <<slots, pc, req, journal>>
    BY <2>2 DEF Acknowledge
  <2>3. ASSUME NEW q \in QpIds, NEW s \in Sides, QpError(s, q)
        PROVE  UNCHANGED <<slots, pc, req, journal>>
    BY <2>3 DEF QpError
  <2> QED BY <2>1, <2>2, <2>3 DEF Fabric
<1>2. ASSUME NEW t \in Sides
      PROVE  RequestOK(req'[t], slots'[t], qps'[t])
  <2>1. req[t] \in Requests /\ Follows(req[t], req[t]) /\ RequestOK(req[t], slots[t], qps[t])
    BY StateTypes DEF Follows, RequestsSound
  <2>2. \A p \in Planes : \A e \in InUse(slots[t][p]) : Needs(req[t], p, e) => e.qp \in QpIds
    BY StateTypes DEF InUse, Needs, Slots, Endpoints
  <2>3. \A i \in QpIds : Carries(qps[t][i], req[t].gen) => Carries(qps'[t][i], req[t].gen)
    BY FabricKeepsWork
  <2>4. RequestOK(req[t], slots[t], qps'[t])
    BY <2>1, <2>2, <2>3, FollowedOK
  <2> QED BY <1>1, <2>4
<1>3. QueryOK' /\ JournalOK'
  BY <1>1 DEF RequestsSound, QueryOK, JournalOK, In
<1> QED BY <1>2, <1>3 DEF RequestsSound

\* One slot of s changes.
LEMMA SlotStep ==
    ASSUME TypeOK, TypeOK', RequestsSound, NEW s \in Sides, NEW p \in Planes,
           NEW tl \in Slots(QpIds), NEW v \in [QpIds -> QpRecords], Install(s, p, tl, v),
           Follows(req[s], req'[s]), \A t \in Sides : t # s => req'[t] = req[t],
           \A e \in InUse(slots[s][p]) : Needs(req'[s], p, e) => e \in InUse(tl),
           req'[s].state = "Posted" =>
               \A i \in LiveQps(slots[s]) :
                   Carries(qps[s][i], req'[s].gen) => Carries(v[i], req'[s].gen)
    PROVE  \A t \in Sides : RequestOK(req'[t], slots'[t], qps'[t])
<1>1. RequestOK(req[s], slots[s], qps[s]) /\ req'[s] \in Requests
  BY DEF RequestsSound, TypeOK
<1>2. /\ RequestOK(req'[s], slots'[s], qps'[s])
      /\ \A t \in Sides : t # s => slots'[t] = slots[t] /\ qps'[t] = qps[t]
  BY <1>1, InstallOK
<1> QED BY <1>2, OneSide

\* No slot and no queue changes.
LEMMA RequestStep ==
    ASSUME TypeOK, TypeOK', RequestsSound, NEW s \in Sides, UNCHANGED <<slots, qps>>,
           Follows(req[s], req'[s]), \A t \in Sides : t # s => req'[t] = req[t]
    PROVE  \A t \in Sides : RequestOK(req'[t], slots'[t], qps'[t])
<1>1. /\ RequestOK(req[s], slots[s], qps[s]) /\ req[s] \in Requests /\ req'[s] \in Requests
  BY DEF RequestsSound, TypeOK
<1>2. RequestOK(req'[s], slots[s], qps[s])
  BY <1>1, FollowedOK
<1> QED BY <1>2, OneSide

LEMMA FollowsItself ==
    ASSUME NEW r
    PROVE  Follows(r, r)
  BY DEF Follows

\* What is seen of the peer's message, or of a monitor's report, on the slot.
\* A request is put back if it was posted on the plane.
LEMMA MonitorsRequests ==
    ASSUME TypeOK, TypeOK', RequestsSound, Monitors
    PROVE  RequestsSound'
<1>1. PICK s \in Sides, t \in Threads :
          \/ \E p \in Planes, up \in BOOLEAN : MonitorMark(s, t, p, up)
          \/ MonitorNotify(s, t) \/ MonitorSend(s, t)
  BY DEF Monitors
<1>2. CASE UNCHANGED <<slots, qps, pc, req, journal>>
  <2>1. \A o \in Sides : RequestOK(req'[o], slots'[o], qps'[o])
    BY <1>2, FollowsItself, RequestStep
  <2> QED BY <1>2, <2>1 DEF RequestsSound, QueryOK, JournalOK, In
<1>3. CASE MonitorNotify(s, t)
  <2> DEFINE m == mon[s][t]
             p == m.plane
             sl == IF m.up THEN OnRecovering(slots[s][p], m.gen) ELSE OnBroken(slots[s][p], m.gen)
  <2>1. /\ p \in Planes /\ m.gen \in Nat /\ req[s] \in Requests
        /\ slots[s][p] \in Slots(QpIds) /\ qps[s] \in [QpIds -> QpRecords]
    BY StateTypes DEF TypeOK, Deliveries
  <2>2. sl \in Slots(QpIds) /\ InUse(sl) = InUse(slots[s][p])
    BY <2>1, SlotOperatorsType, OperatorsInUse
  <2>3. /\ Install(s, p, sl, qps[s]) /\ In(s, {"idle", "failed"}) /\ UNCHANGED <<pc, journal>>
        /\ req' = req \/ req' = [req EXCEPT ![s] = Disturb(s, @, p)]
    BY <1>3 DEF MonitorNotify
  <2> HIDE DEF sl, p, m
  <2>4. /\ req'[s] = req[s] \/ req'[s] = Disturb(s, req[s], p)
        /\ \A o \in Sides : o # s => req'[o] = req[o]
    BY <2>3 DEF TypeOK
  <2>5. Follows(req[s], req'[s])
    BY <2>1, <2>4, FollowsItself, DisturbFollows
  <2>6. \A o \in Sides : RequestOK(req'[o], slots'[o], qps'[o])
    BY <2>1, <2>2, <2>3, <2>4, <2>5, SlotStep
  <2>7. QueryOK'
    <3>1. req["S"].state = "NeedsQuery" => req'["S"] = req["S"]
      BY <2>1, <2>4, DisturbFollows, SidesAndPlanes
    <3> QED BY <2>3, <3>1 DEF RequestsSound, QueryOK, In
  <2>8. JournalOK'
    <3>1. \/ req'["R"] = req["R"]
          \/ req["R"] \in Requests /\ req'["R"] = Disturb("R", req["R"], p)
      BY <2>1, <2>4, SidesAndPlanes
    <3> QED BY <2>3, <3>1, DisturbFollows, SidesAndPlanes DEF RequestsSound, JournalOK
  <2> QED BY <2>6, <2>7, <2>8 DEF RequestsSound
<1> QED BY <1>1, <1>2, <1>3 DEF MonitorMark, MonitorSend

LEMMA ControlRequests ==
    ASSUME TypeOK, TypeOK', RequestsSound, Control
    PROVE  RequestsSound'
<1>1. PICK s \in Sides : RecvPlaneEvent(s) \/ IgnoreAnswer(s)
  BY DEF Control
<1>2. AfterHandle(s) /\ UNCHANGED journal
  BY <1>1 DEF RecvPlaneEvent, IgnoreAnswer
<1>3. pc'["S"].ph = "query" => pc["S"].ph = "query"
  <2>1. pc \in [Sides -> Positions]
    BY DEF TypeOK
  <2>2. UNCHANGED pc \/ Goto(s, "control")
    BY <1>2 DEF AfterHandle
  <2>3. CASE Goto(s, "control")
    <3>1. pc'["S"] = pc["S"] \/ pc'["S"].ph = "control"
      BY <2>1, <2>3, SidesAndPlanes DEF Goto, At
    <3> QED BY <3>1
  <2> QED BY <2>2, <2>3
<1>4. CASE UNCHANGED <<slots, qps, req>>
  <2>1. \A o \in Sides : RequestOK(req'[o], slots'[o], qps'[o])
    BY <1>4, FollowsItself, RequestStep
  <2> QED BY <1>2, <1>3, <1>4, <2>1 DEF RequestsSound, QueryOK, JournalOK, In
<1>5. CASE RecvPlaneEvent(s) /\ ~UNCHANGED <<slots, qps, req>>
  <2> DEFINE m == Head(net[s])
             p == m.plane
             sl == IF m.up THEN OnRecovering(slots[s][p], m.gen) ELSE OnFailure(slots[s][p])
  <2>1. /\ p \in Planes /\ m.gen \in Nat /\ req[s] \in Requests
        /\ slots[s][p] \in Slots(QpIds) /\ qps[s] \in [QpIds -> QpRecords]
    BY <1>5, StateTypes, MessageFields DEF RecvPlaneEvent, Arrived
  <2>2. sl \in Slots(QpIds) /\ InUse(sl) = InUse(slots[s][p])
    BY <2>1, SlotOperatorsType, OperatorsInUse
  <2>3. /\ Install(s, p, sl, qps[s])
        /\ req' = req \/ req' = [req EXCEPT ![s] = Disturb(s, @, p)]
    BY <1>5 DEF RecvPlaneEvent
  <2> HIDE DEF sl, p, m
  <2>4. /\ req'[s] = req[s] \/ req'[s] = Disturb(s, req[s], p)
        /\ \A o \in Sides : o # s => req'[o] = req[o]
    BY <2>3 DEF TypeOK
  <2>5. Follows(req[s], req'[s])
    BY <2>1, <2>4, FollowsItself, DisturbFollows
  <2>6. \A o \in Sides : RequestOK(req'[o], slots'[o], qps'[o])
    BY <2>1, <2>2, <2>3, <2>4, <2>5, SlotStep
  <2>7. QueryOK'
    <3>1. req["S"].state = "NeedsQuery" => req'["S"] = req["S"]
      BY <2>1, <2>4, DisturbFollows, SidesAndPlanes
    <3> QED BY <1>3, <3>1 DEF RequestsSound, QueryOK, In
  <2>8. JournalOK'
    <3>1. \/ req'["R"] = req["R"]
          \/ req["R"] \in Requests /\ req'["R"] = Disturb("R", req["R"], p)
      BY <2>1, <2>4, SidesAndPlanes
    <3> QED BY <1>2, <3>1, DisturbFollows, SidesAndPlanes DEF RequestsSound, JournalOK
  <2> QED BY <2>6, <2>7, <2>8 DEF RequestsSound
<1> QED BY <1>1, <1>4, <1>5 DEF IgnoreAnswer

\* Taking another request's completion off a queue.
LEMMA PoppedKeepsWork ==
    ASSUME TypeOK, NEW s \in Sides, NEW e, NEW g, qps[s][e.qp].cq # <<>>,
           Head(qps[s][e.qp].cq).probe \/ Head(qps[s][e.qp].cq).gen # g
    PROVE  \A i \in QpIds : Carries(qps[s][i], g) => Carries(Popped(s, e)[i], g)
<1>1. /\ qps[s] \in [QpIds -> QpRecords]
      /\ \A i \in QpIds : qps[s][i] \in QpRecords
  BY StateTypes
<1>2. \A i \in QpIds : i # e.qp => Popped(s, e)[i] = qps[s][i]
  BY <1>1 DEF Popped
<1>3. e.qp \in QpIds => Popped(s, e)[e.qp] = [qps[s][e.qp] EXCEPT !.cq = Tail(@)]
  BY <1>1 DEF Popped
<1>4. e.qp \in QpIds => (Carries(qps[s][e.qp], g) => Carries(Popped(s, e)[e.qp], g))
  BY <1>1, <1>3, CarriesPop
<1> QED BY <1>2, <1>4

\* The queue pairs of a side's slots are queue pairs.
LEMMA LiveAreQps ==
    ASSUME TypeOK, NEW s \in Sides
    PROVE  LiveQps(slots[s]) \subseteq QpIds
<1> SUFFICES ASSUME NEW p \in Planes
             PROVE  QpsOf(slots[s][p]) \subseteq QpIds
  BY DEF LiveQps
<1>1. slots[s][p] \in Slots(QpIds)
  BY StateTypes
<1> QED BY <1>1 DEF QpsOf, Slots, Endpoints

\* A completion is the request's own, which it finishes or puts back, or it is
\* another one's and taking it off loses nothing of the request.
LEMMA PollRequests ==
    ASSUME TypeOK, TypeOK', RequestsSound, NEW s \in Sides, PollCq(s)
    PROVE  RequestsSound'
<1>0. PICK p \in Planes : \E e \in PolledEndpoints(slots[s][p]) :
          \/ \E ok \in BOOLEAN : PollProbe(s, p, e, ok) \/ PollStale(s, p, e, ok)
          \/ PollSuccess(s, p, e) \/ PollStaleError(s, p, e) \/ PollError(s, p, e)
  BY DEF PollCq
<1>1. PICK e \in PolledEndpoints(slots[s][p]) :
          \/ \E ok \in BOOLEAN : PollProbe(s, p, e, ok) \/ PollStale(s, p, e, ok)
          \/ PollSuccess(s, p, e) \/ PollStaleError(s, p, e) \/ PollError(s, p, e)
  BY <1>0
<1> DEFINE c == Head(qps[s][e.qp].cq)
           r == req[s]
           slot == slots[s][p]
           Others == \A t \in Sides : t # s => req'[t] = req[t]
<1>2. /\ qps[s][e.qp].cq # <<>> /\ PollAt(s, p, e)
      /\ r \in Requests /\ slot \in Slots(QpIds) /\ 0 \in Nat
      /\ Popped(s, e) \in [QpIds -> QpRecords]
  <2>1. qps[s][e.qp].cq # <<>> /\ PollAt(s, p, e)
    BY <1>1 DEF PollProbe, PollStale, PollSuccess, PollStaleError, PollError, HasCompletion
  <2> QED BY <2>1, StateTypes, PoppedType
<1>3. pc'["S"].ph = "query" => pc["S"].ph = "query" /\ s # "S"
  <2>1. pc \in [Sides -> Positions]
    BY DEF TypeOK
  <2>2. \E n : GotoOn(s, "cqs", p, n)
    BY <1>2 DEF PollAt
  <2>3. (s = "S" => pc'["S"].ph = "cqs") /\ (s # "S" => pc'["S"] = pc["S"])
    BY <2>1, <2>2, SidesAndPlanes DEF GotoOn
  <2> QED BY <2>3
<1>4. ASSUME Others,
             \A t \in Sides : RequestOK(req'[t], slots'[t], qps'[t]),
             \/ req'["R"] = req["R"] /\ journal \subseteq journal'
             \/ Outstanding(req["R"]) /\ Outstanding(req'["R"])
             \/ req'["R"].seq \in journal'
      PROVE  RequestsSound'
  <2>1. QueryOK'
    BY <1>3, <1>4, SidesAndPlanes DEF RequestsSound, QueryOK, In
  <2>2. JournalOK'
    BY <1>4 DEF RequestsSound, JournalOK
  <2> QED BY <1>4, <2>1, <2>2 DEF RequestsSound
<1>5. ASSUME NEW ok \in BOOLEAN, PollProbe(s, p, e, ok)
      PROVE  RequestsSound'
  <2> DEFINE sl == RecordProbe(slot, ProbeKind(s), c.gen, ok)
  <2>1. c.probe /\ UNCHANGED <<req, journal>> /\ Install(s, p, sl, Popped(s, e))
    BY <1>5 DEF PollProbe, HasCompletion
  <2>2. ProbeKind(s) \in {"send", "recv"}
    BY DEF ProbeKind
  <2>3. sl \in Slots(QpIds) /\ InUse(sl) = InUse(slot)
    <3>1. sl \in Slots(QpIds)
      BY <1>2, <2>2, RecordProbeType
    <3>2. InUse(sl) = InUse(slot)
      BY <1>2, <2>2, RecordProbeInUse
    <3> QED BY <3>1, <3>2
  <2>4. \A i \in LiveQps(slots[s]) : Carries(qps[s][i], r.gen) => Carries(Popped(s, e)[i], r.gen)
    BY <1>2, <2>1, PoppedKeepsWork, LiveAreQps
  <2> HIDE DEF sl
  <2>5. \A t \in Sides : RequestOK(req'[t], slots'[t], qps'[t])
    BY <1>2, <2>1, <2>3, <2>4, FollowsItself, SlotStep
  <2> QED BY <1>4, <2>1, <2>5
<1>6. ASSUME NEW ok \in BOOLEAN, PollStale(s, p, e, ok)
      PROVE  RequestsSound'
  <2>1. /\ c.gen # r.gen /\ UNCHANGED <<slots, req, journal>>
        /\ qps' = [qps EXCEPT ![s] = Popped(s, e)]
    BY <1>6 DEF PollStale
  <2>2. \A i \in QpIds : Carries(qps[s][i], r.gen) => Carries(Popped(s, e)[i], r.gen)
    BY <1>2, <2>1, PoppedKeepsWork
  <2>3. /\ qps'[s] = Popped(s, e) /\ \A t \in Sides : t # s => qps'[t] = qps[t]
    BY <2>1 DEF TypeOK
  <2>4. \A o \in Planes : \A x \in InUse(slots[s][o]) : Needs(r, o, x) => x.qp \in QpIds
    BY StateTypes DEF InUse, Needs, Slots, Endpoints
  <2>5. RequestOK(r, slots[s], qps[s]) /\ Follows(r, r)
    BY FollowsItself DEF RequestsSound
  <2>6. RequestOK(r, slots[s], Popped(s, e))
    BY <1>2, <2>2, <2>4, <2>5, FollowedOK
  <2>7. \A t \in Sides : RequestOK(req'[t], slots'[t], qps'[t])
    BY <2>1, <2>3, <2>6, OneSide
  <2> QED BY <1>4, <2>1, <2>7
<1>7. ASSUME NEW f \in Requests, req' = [req EXCEPT ![s] = f], Follows(r, f), f.state # "Posted",
             Install(s, p, DropUnusedRetired(slot, p, f), Popped(s, e))
      PROVE  Others /\ \A t \in Sides : RequestOK(req'[t], slots'[t], qps'[t])
  <2>1. req'[s] = f /\ Others
    BY <1>7 DEF TypeOK
  <2>2. DropUnusedRetired(slot, p, f) \in Slots(QpIds)
    BY <1>2, DropUnusedRetiredType
  <2>3. \A x \in InUse(slot) : Needs(f, p, x) => x \in InUse(DropUnusedRetired(slot, p, f))
    BY <1>2, RetiredInUse
  <2> QED BY <1>2, <1>7, <2>1, <2>2, <2>3, SlotStep
<1>8. CASE PollSuccess(s, p, e)
  <2> DEFINE f == [r EXCEPT !.state = "Done"]
  <2>1. /\ req' = [req EXCEPT ![s] = f]
        /\ journal' = IF s = "R" THEN journal \cup {f.seq} ELSE journal
        /\ Install(s, p, DropUnusedRetired(slot, p, f), Popped(s, e))
    BY <1>8 DEF PollSuccess
  <2>2. f \in Requests /\ Follows(r, f) /\ f.state # "Posted"
    BY <1>2 DEF Requests, RequestStates, Follows, Outstanding
  <2> HIDE DEF f
  <2>3. Others /\ \A t \in Sides : RequestOK(req'[t], slots'[t], qps'[t])
    BY <1>7, <2>1, <2>2
  <2>4. \/ req'["R"] = req["R"] /\ journal \subseteq journal'
        \/ req'["R"].seq \in journal'
    BY <2>1, <2>3, SidesAndPlanes DEF TypeOK
  <2> QED BY <1>4, <2>3, <2>4
<1>9. CASE PollStaleError(s, p, e)
  <2> DEFINE f == IF r.state = "Posted" THEN [r EXCEPT !.state = Disturbed(s)] ELSE r
  <2>1. /\ req' = [req EXCEPT ![s] = f] /\ UNCHANGED journal
        /\ Install(s, p, DropUnusedRetired(slot, p, f), Popped(s, e))
    BY <1>9 DEF PollStaleError
  <2>2. /\ f \in Requests /\ Follows(r, f) /\ f.state # "Posted"
        /\ f = r \/ (Outstanding(r) /\ Outstanding(f))
    BY <1>2 DEF Requests, RequestStates, Follows, Outstanding, Disturbed
  <2> HIDE DEF f
  <2>3. Others /\ \A t \in Sides : RequestOK(req'[t], slots'[t], qps'[t])
    BY <1>7, <2>1, <2>2
  <2>4. \/ req'["R"] = req["R"]
        \/ Outstanding(req["R"]) /\ Outstanding(req'["R"])
    BY <2>1, <2>2, <2>3, SidesAndPlanes DEF TypeOK
  <2> QED BY <1>4, <2>1, <2>3, <2>4
<1>10. CASE PollError(s, p, e)
  <2> DEFINE f == Disturb(s, r, p)
  <2>1. /\ req' = [req EXCEPT ![s] = f] /\ UNCHANGED journal
        /\ Install(s, p, OnFailure(slot), Popped(s, e)) /\ r.plane = p
    BY <1>10 DEF PollError, IsCurrent
  <2>2. /\ f \in Requests /\ Follows(r, f) /\ f.state # "Posted"
        /\ f = r \/ (Outstanding(r) /\ Outstanding(f))
    BY <1>2, <2>1 DEF Disturb, Disturbed, Requests, RequestStates, Follows, Outstanding
  <2>3. OnFailure(slot) \in Slots(QpIds) /\ InUse(OnFailure(slot)) = InUse(slot)
    BY <1>2, SlotOperatorsType, OperatorsInUse
  <2> HIDE DEF f, slot
  <2>4. req'[s] = f /\ Others
    BY <2>1 DEF TypeOK
  <2>5. \A t \in Sides : RequestOK(req'[t], slots'[t], qps'[t])
    BY <1>2, <2>1, <2>2, <2>3, <2>4, SlotStep DEF slot
  <2>6. \/ req'["R"] = req["R"]
        \/ Outstanding(req["R"]) /\ Outstanding(req'["R"])
    BY <2>2, <2>4, SidesAndPlanes
  <2> QED BY <1>4, <2>1, <2>4, <2>5, <2>6
<1> QED BY <1>1, <1>5, <1>6, <1>8, <1>9, <1>10

\* NCCL's calls come between two progress() calls.
LEMMA CallsRequests ==
    ASSUME TypeOK, TypeOK', RequestsSound, Calls
    PROVE  RequestsSound'
<1>1. PICK s \in Sides : PollCq(s) \/ Return(s) \/ Post(s) \/ Backpressure(s) \/ Test(s)
  BY DEF Calls
<1>2. CASE PollCq(s)
  BY <1>2, PollRequests
<1>3. CASE Return(s)
  <2>1. UNCHANGED <<slots, qps, req, journal>> /\ Goto(s, "idle")
    BY <1>3 DEF Return
  <2>2. \A t \in Sides : RequestOK(req'[t], slots'[t], qps'[t])
    BY <2>1, FollowsItself, RequestStep
  <2>3. pc'["S"].ph = "query" => pc["S"].ph = "query"
    <3>1. pc \in [Sides -> Positions]
      BY DEF TypeOK
    <3>2. pc'["S"] = pc["S"] \/ pc'["S"].ph = "idle"
      BY <2>1, <3>1, SidesAndPlanes DEF Goto, At
    <3> QED BY <3>2
  <2> QED BY <2>1, <2>2, <2>3 DEF RequestsSound, QueryOK, JournalOK, In
<1>4. ASSUME In(s, {"idle"}), UNCHANGED <<slots, pc, journal>>,
             \A t \in Sides : t # s => req'[t] = req[t] /\ qps'[t] = qps[t],
             RequestOK(req'[s], slots'[s], qps'[s]),
             \/ Outstanding(req'[s]) \/ req'[s].plane = NoPlane
             \/ ~Outstanding(req[s]) /\ req'[s].seq = req[s].seq /\ req'[s].plane = req[s].plane
      PROVE  RequestsSound'
  <2>1. \A t \in Sides : RequestOK(req'[t], slots'[t], qps'[t])
    BY <1>4, OneSide
  <2>2. QueryOK'
    <3>1. s = "S" => pc'["S"].ph # "query"
      BY <1>4 DEF In
    <3> QED BY <1>4, <3>1, SidesAndPlanes DEF RequestsSound, QueryOK, In
  <2>3. JournalOK'
    BY <1>4, SidesAndPlanes DEF RequestsSound, JournalOK
  <2> QED BY <2>1, <2>2, <2>3 DEF RequestsSound
<1>5. CASE Post(s)
  <2>1. /\ PostRequest(s, NewRequest(s)) /\ UNCHANGED <<slots, pc, journal>>
        /\ In(s, {"idle"})
    BY <1>5 DEF Post, MayPost
  <2>2. NewRequest(s) \in Requests
    BY <1>5, NewRequestType DEF Post
  <2>3. /\ RequestOK(req'[s], slots'[s], qps'[s]) /\ req'[s].state = "Posted"
        /\ \A t \in Sides : t # s => req'[t] = req[t] /\ qps'[t] = qps[t]
    BY <2>1, <2>2, PostOK
  <2> QED BY <1>4, <2>1, <2>3 DEF Outstanding
<1>6. CASE Backpressure(s)
  <2>1. /\ req' = [req EXCEPT ![s] = NewRequest(s)] /\ UNCHANGED <<slots, qps, pc, journal>>
        /\ In(s, {"idle"})
    BY <1>6 DEF Backpressure, MayPost
  <2>2. req'[s] = NewRequest(s) /\ \A t \in Sides : t # s => req'[t] = req[t]
    BY <2>1 DEF TypeOK
  <2>3. req'[s].plane = NoPlane /\ req'[s].state = "Free"
    BY <2>2 DEF NewRequest
  <2> QED BY <1>4, <2>1, <2>2, <2>3 DEF RequestOK, Tracked
<1>7. CASE Test(s)
  <2>1. /\ req' = [req EXCEPT ![s].state = "Free"] /\ UNCHANGED <<slots, qps, pc, journal>>
        /\ In(s, {"idle"}) /\ req[s].state = "Done"
    BY <1>7 DEF Test
  <2>2. /\ req'[s] = [req[s] EXCEPT !.state = "Free"]
        /\ \A t \in Sides : t # s => req'[t] = req[t]
    BY <2>1 DEF TypeOK
  <2>3. /\ req'[s].state = "Free" /\ req'[s].seq = req[s].seq /\ req'[s].plane = req[s].plane
        /\ ~Outstanding(req[s])
    BY <2>1, <2>2, StateTypes DEF Requests, Outstanding
  <2> QED BY <1>4, <2>1, <2>2, <2>3 DEF RequestOK, Tracked, Outstanding
<1> QED BY <1>1, <1>2, <1>3, <1>5, <1>6, <1>7

\* Giving a recovery up leaves every endpoint in use.
LEMMA GiveUpRequests ==
    ASSUME TypeOK, TypeOK', RequestsSound, RecoverGiveUp, UNCHANGED req
    PROVE  \A t \in Sides : RequestOK(req'[t], slots'[t], qps'[t])
<1> DEFINE p == pc["S"].plane
           sl == AbortRecovery(Current)
<1>1. /\ p \in Planes /\ "S" \in Sides /\ qps["S"] \in [QpIds -> QpRecords]
      /\ Current \in Slots(QpIds) /\ Current = slots["S"][p] /\ 0 \in Nat
  BY StateTypes, SidesAndPlanes DEF Current
<1>2. sl \in Slots(QpIds) /\ InUse(sl) = InUse(Current)
  BY <1>1, SlotOperatorsType, OperatorsInUse
<1>3. Install("S", p, sl, qps["S"])
  BY DEF RecoverGiveUp
<1> HIDE DEF sl, p
<1> QED BY <1>1, <1>2, <1>3, FollowsItself, SlotStep

\* Replaying posts the request anew or leaves it for later.
LEMMA ReplayRequests ==
    ASSUME TypeOK, TypeOK', RequestsSound, Replay(req["S"]), UNCHANGED slots,
           Outstanding(req["S"])
    PROVE  \A t \in Sides : RequestOK(req'[t], slots'[t], qps'[t]) /\ (t # "S" => req'[t] = req[t])
<1>1. "S" \in Sides /\ req["S"] \in Requests
  BY SidesAndPlanes, StateTypes
<1>2. CASE PostRequest("S", req["S"])
  <2>1. /\ RequestOK(req'["S"], slots'["S"], qps'["S"])
        /\ \A t \in Sides : t # "S" => req'[t] = req[t] /\ qps'[t] = qps[t]
    BY <1>1, <1>2, PostOK
  <2> QED BY <1>1, <2>1, OneSide
<1>3. CASE req' = [req EXCEPT !["S"].state = "NeedsReplay"] /\ UNCHANGED qps
  <2>1. /\ req'["S"] = [req["S"] EXCEPT !.state = "NeedsReplay"]
        /\ \A t \in Sides : t # "S" => req'[t] = req[t]
    BY <1>1, <1>3 DEF TypeOK
  <2>2. Follows(req["S"], req'["S"])
    BY <1>1, <2>1 DEF Follows, Outstanding, Requests
  <2> QED BY <1>1, <1>3, <2>1, <2>2, RequestStep
<1> QED BY <1>2, <1>3 DEF Replay

LEMMA SenderRequests ==
    ASSUME TypeOK, TypeOK', RequestsSound, Sender
    PROVE  RequestsSound'
<1> DEFINE p == pc["S"].plane
           g == pc["S"].gen
           m == Head(net["S"])
           r == req["S"]
           Goal == \A t \in Sides : RequestOK(req'[t], slots'[t], qps'[t])
<1>1. /\ p \in Planes /\ g \in Nat /\ r \in Requests /\ Current \in Slots(QpIds) /\ 0 \in Nat
      /\ qps["S"] \in [QpIds -> QpRecords] /\ Current = slots["S"][p] /\ "S" \in Sides
      /\ pc \in [Sides -> Positions]
  BY StateTypes, SidesAndPlanes DEF Current, TypeOK
<1>2. UNCHANGED journal
  BY DEF Sender, StartQuery, RecvQueryResp, QueryTimeout, ReplayLater, RecoverStart,
         RecoverRefused, RecoverConnect, ProbeOk, ProbeFailed, RecvAck, MarkHealthyS,
         HandshakeTimeout
<1>3. ASSUME Goal, req'["R"] = req["R"],
             pc'["S"].ph # "query" \/ req'["S"].state = "NeedsQuery"
      PROVE  RequestsSound'
  BY <1>2, <1>3 DEF RequestsSound, QueryOK, JournalOK, In
<1>4. ASSUME NEW ph, NEW o, NEW n, GotoOn("S", ph, o, n) \/ Goto("S", ph)
      PROVE  pc'["S"].ph = ph
  BY <1>1, <1>4 DEF GotoOn, Goto, At
<1>5. CASE StartQuery \/ QueryTimeout \/ HandshakeTimeout
  <2>1. UNCHANGED <<slots, qps, req>>
    BY <1>5 DEF StartQuery, QueryTimeout, HandshakeTimeout
  <2>2. Goal
    BY <1>1, <2>1, FollowsItself, RequestStep
  <2>3. \/ Goto("S", "query") /\ req["S"].state = "NeedsQuery"
        \/ Goto("S", "replayed") \/ Goto("S", "failed")
    BY <1>5 DEF StartQuery, QueryTimeout, HandshakeTimeout
  <2>4. pc'["S"].ph # "query" \/ req["S"].state = "NeedsQuery"
    BY <1>4, <2>3
  <2> QED BY <1>3, <2>1, <2>2, <2>4
<1>6. CASE RecvQueryResp \/ ReplayLater
  <2>1. UNCHANGED slots /\ Goto("S", "replayed") /\ Outstanding(r)
    BY <1>6 DEF RecvQueryResp, ReplayLater, RequestsSound, QueryOK, Outstanding
  <2>2. \/ Replay(r)
        \/ req' = [req EXCEPT !["S"].state = "Done"] /\ UNCHANGED qps
        \/ UNCHANGED <<req, qps>>
    BY <1>6 DEF RecvQueryResp, ReplayLater
  <2>3. Goal /\ req'["R"] = req["R"]
    <3>1. CASE Replay(r)
      BY <2>1, <3>1, ReplayRequests, SidesAndPlanes
    <3>2. CASE req' = [req EXCEPT !["S"].state = "Done"] /\ UNCHANGED qps
      <4>1. /\ req'["S"].state = "Done"
            /\ \A t \in Sides : t # "S" => req'[t] = req[t]
        BY <1>1, <3>2 DEF TypeOK, Requests
      <4>2. Follows(r, req'["S"])
        BY <4>1 DEF Follows, Outstanding
      <4> QED BY <1>1, <2>1, <3>2, <4>1, <4>2, RequestStep, SidesAndPlanes
    <3>3. CASE UNCHANGED <<req, qps>>
      BY <1>1, <2>1, <3>3, FollowsItself, RequestStep
    <3> QED BY <2>2, <3>1, <3>2, <3>3
  <2>4. pc'["S"].ph = "replayed"
    BY <1>4, <2>1
  <2> QED BY <1>3, <2>3, <2>4
<1>7. ASSUME NEW o \in Planes, RecoverStart(o)
      PROVE  RequestsSound'
  <2> DEFINE slot == slots["S"][o]
             gen == table["S"][o].gen
             sl == EnsureShadow(slot, gen, FreshQp("S"))
  <2>1. slot \in Slots(QpIds) /\ gen \in Nat /\ FreshQp("S") \in QpIds
    BY <1>7, StateTypes, SidesAndPlanes, FreshQpType DEF RecoverStart, PlaneEntry
  <2>2. sl \in Slots(QpIds) /\ InUse(sl) = InUse(slot)
    BY <2>1, EnsureShadowType, OperatorsInUse
  <2>3. Install("S", o, sl, qps["S"]) /\ GotoOn("S", "resp", o, gen) /\ UNCHANGED req
    BY <1>7 DEF RecoverStart
  <2> HIDE DEF sl, gen
  <2>4. Goal
    BY <1>1, <2>2, <2>3, FollowsItself, SlotStep
  <2> QED BY <1>3, <1>4, <2>3, <2>4
<1>8. CASE RecoverGiveUp /\ UNCHANGED req
  <2>1. GotoOn("S", "recovered", p, 0)
    BY <1>8 DEF RecoverGiveUp
  <2> QED BY <1>3, <1>4, <1>8, <2>1, GiveUpRequests
<1>9. CASE RecoverConnect
  <2> DEFINE q == Current.shadow.qp
             connected == [qps["S"][q] EXCEPT !.dest = m.qp]
             probing == PostTo(connected, "S", ProbeRequest(m.gen))
             others == [qps["S"] EXCEPT ![q] = probing]
             sl == ConnectShadow(Current, m.gen)
  <2>1. m \in Messages /\ m.plane = p /\ m.gen = g /\ m.qp \in QpIds /\ q \in QpIds
    BY <1>1, <1>9, StateTypes, SidesAndPlanes, MessageFields
       DEF RecoverConnect, Arrived, Awaited, Slots, Endpoints
  <2>2. /\ connected \in QpRecords
        /\ \A n : Carries(qps["S"][q], n) => Carries(connected, n)
    <3>1. m.qp \in 0 .. MaxQp
      BY <2>1, DpfrCommAssumption DEF QpIds
    <3>2. qps["S"][q] \in QpRecords
      BY <1>1, <2>1
    <3> HIDE DEF m, q
    <3> QED BY <3>1, <3>2 DEF QpRecords, Carries
  <2>3. ProbeRequest(m.gen) \in WorkRequests
    BY <1>1, <2>1, DpfrCommAssumption DEF ProbeRequest, WorkRequests
  <2>4. probing \in QpRecords /\ \A n : Carries(connected, n) => Carries(probing, n)
    <3> HIDE DEF connected, m
    <3> QED BY <2>2, <2>3, PostToType, CarriesPost, SidesAndPlanes
  <2>5. sl \in Slots(QpIds) /\ InUse(sl) = InUse(Current)
    BY <1>1, <2>1, SlotOperatorsType, OperatorsInUse
  <2>6. Install("S", p, sl, others) /\ GotoOn("S", "probe", m.plane, m.gen) /\ UNCHANGED req
    BY <1>9, <2>1 DEF RecoverConnect
  <2> HIDE DEF sl, probing, connected, q
  <2>7. /\ others \in [QpIds -> QpRecords]
        /\ \A n : \A i \in QpIds : Carries(qps["S"][i], n) => Carries(others[i], n)
    BY <1>1, <2>1, <2>2, <2>4
  <2> HIDE DEF others
  <2>8. Goal
    BY <1>1, <2>5, <2>6, <2>7, FollowsItself, SlotStep, LiveAreQps
  <2> QED BY <1>3, <1>4, <2>6, <2>8
<1>10. CASE ProbeOk
  <2> DEFINE sl == RecordProbe(Current, "send", g, TRUE)
             popped == Popped("S", Current.shadow)
  <2>1. /\ qps["S"][Current.shadow.qp].cq # <<>> /\ Head(qps["S"][Current.shadow.qp].cq).probe
        /\ Install("S", p, sl, popped) /\ GotoOn("S", "ack", p, g) /\ UNCHANGED req
    BY <1>10 DEF ProbeOk, ShadowCompletion, HasCompletion, Current
  <2>2. popped \in [QpIds -> QpRecords]
    BY <1>1, <2>1, ShadowPoppedType
  <2>3. \A i \in QpIds : Carries(qps["S"][i], r.gen) => Carries(popped[i], r.gen)
    BY <1>1, <2>1, PoppedKeepsWork
  <2>4. sl \in Slots(QpIds) /\ InUse(sl) = InUse(Current)
    BY <1>1, RecordProbeType, RecordProbeInUse
  <2> HIDE DEF sl, popped
  <2>5. Goal
    BY <1>1, <2>1, <2>2, <2>3, <2>4, FollowsItself, SlotStep, LiveAreQps
  <2> QED BY <1>3, <1>4, <2>1, <2>5
<1>11. CASE RecvAck /\ ~RecoverGiveUp
  <2> DEFINE committed == CommitShadow(Current)
             sl == DropUnusedRetired(committed, p, r)
  <2>1. Install("S", p, sl, qps["S"]) /\ GotoOn("S", "mark", p, g) /\ UNCHANGED req
    BY <1>11 DEF RecvAck, Arrived, Awaited
  <2>2. committed \in Slots(QpIds)
    BY <1>1, SlotOperatorsType
  <2>3. \A e \in InUse(Current) : Needs(r, p, e) => e \in InUse(committed)
    BY <1>1, RetiredInUse
  <2> HIDE DEF committed
  <2>4. /\ sl \in Slots(QpIds)
        /\ \A e \in InUse(committed) : Needs(r, p, e) => e \in InUse(sl)
    BY <2>2, DropUnusedRetiredType, RetiredInUse
  <2> HIDE DEF sl
  <2>5. Goal
    BY <1>1, <2>1, <2>3, <2>4, FollowsItself, SlotStep
  <2> QED BY <1>3, <1>4, <2>1, <2>5
<1>12. CASE MarkHealthyS
  <2>1. /\ slots' = slots \/ slots' = [slots EXCEPT !["S"][p] = Quarantine(@)]
        /\ UNCHANGED <<qps, req>> /\ GotoOn("S", "recovered", p, 0)
    BY <1>12 DEF MarkHealthyS, MarkRecovered
  <2>2. InUse(Quarantine(Current)) = InUse(Current)
    BY <1>1, OperatorsInUse
  <2>3. \A o \in Planes : InUse(slots'["S"][o]) = InUse(slots["S"][o])
    <3>1. slots["S"] \in [Planes -> Slots(QpIds)] /\ slots \in [Sides -> [Planes -> Slots(QpIds)]]
      BY <1>1 DEF TypeOK
    <3>2. slots'["S"] = slots["S"] \/ slots'["S"] = [slots["S"] EXCEPT ![p] = Quarantine(Current)]
      BY <1>1, <2>1, <3>1
    <3> QED BY <1>1, <2>2, <3>1, <3>2
  <2>4. RequestOK(r, slots["S"], qps["S"])
    BY <1>1 DEF RequestsSound
  <2>5. RequestOK(r, slots'["S"], qps["S"])
    BY <1>1, <2>3, <2>4, FollowsItself, FollowedOK
  <2>6. \A t \in Sides : t # "S" => slots'[t] = slots[t]
    BY <2>1, SidesAndPlanes DEF TypeOK
  <2>7. Goal
    BY <1>1, <2>1, <2>5, <2>6, OneSide
  <2> QED BY <1>3, <1>4, <2>1, <2>7
<1> HIDE DEF Goal
<1>13. CASE RecoverRefused \/ ProbeFailed
  BY <1>8, <1>13 DEF RecoverRefused, ProbeFailed
<1>14. CASE RecvAck
  BY <1>8, <1>11, <1>14 DEF RecvAck
<1> QED BY <1>5, <1>6, <1>7, <1>9, <1>10, <1>12, <1>13, <1>14 DEF Sender

\* A query posts the receive again unless it has been received.
LEMMA QueryRequests ==
    ASSUME TypeOK, TypeOK', RequestsSound, RecvQuery
    PROVE  RequestsSound'
<1> DEFINE seq == Head(net["R"]).seq
           r == req["R"]
<1>1. "R" \in Sides /\ "S" \in Sides /\ r \in Requests
  BY StateTypes, SidesAndPlanes
<1>2. UNCHANGED <<slots, journal>> /\ AfterHandle("R")
  BY DEF RecvQuery
<1>3. pc'["S"] = pc["S"]
  BY <1>1, <1>2 DEF AfterHandle, Goto, TypeOK
<1>4. ASSUME \A t \in Sides : RequestOK(req'[t], slots'[t], qps'[t]),
             req'["S"] = req["S"],
             req'["R"] = req["R"] \/ Outstanding(req'["R"])
      PROVE  RequestsSound'
  BY <1>2, <1>3, <1>4 DEF RequestsSound, QueryOK, JournalOK, In
<1>5. CASE UNCHANGED <<qps, req>>
  <2>1. \A t \in Sides : RequestOK(req'[t], slots'[t], qps'[t])
    BY <1>1, <1>2, <1>5, FollowsItself, RequestStep
  <2> QED BY <1>4, <1>5, <2>1
<1>6. CASE PostRequest("R", r)
  <2>1. /\ RequestOK(req'["R"], slots'["R"], qps'["R"]) /\ req'["R"].state = "Posted"
        /\ \A t \in Sides : t # "R" => req'[t] = req[t] /\ qps'[t] = qps[t]
    BY <1>1, <1>2, <1>6, PostOK
  <2>2. \A t \in Sides : RequestOK(req'[t], slots'[t], qps'[t])
    BY <1>1, <1>2, <2>1, OneSide
  <2> QED BY <1>1, <1>4, <2>1, <2>2 DEF Outstanding
<1>7. CASE /\ seq \notin journal /\ r.seq = seq
           /\ req' = [req EXCEPT !["R"].state = "NeedsReplay"] /\ UNCHANGED qps
  <2> DEFINE f == [r EXCEPT !.state = "NeedsReplay"]
  <2>1. req'["R"] = f /\ \A t \in Sides : t # "R" => req'[t] = req[t]
    BY <1>1, <1>7 DEF TypeOK
  <2>2. /\ f.state = "NeedsReplay" /\ f.plane = r.plane /\ f.gen = r.gen
        /\ Outstanding(f)
    BY <1>1 DEF Requests, Outstanding
  <2>3. Outstanding(r) \/ r.plane = NoPlane
    BY <1>7 DEF RequestsSound, JournalOK
  <2> HIDE DEF f
  <2>4. \A t \in Sides : RequestOK(req'[t], slots'[t], qps'[t])
    <3>1. CASE Outstanding(r)
      BY <1>1, <1>2, <1>7, <2>1, <2>2, <3>1, RequestStep DEF Follows
    <3>2. CASE r.plane = NoPlane
      <4>1. RequestOK(req'["R"], slots'["R"], qps'["R"])
        BY <2>1, <2>2, <3>2 DEF RequestOK, Tracked
      <4> QED BY <1>1, <1>2, <1>7, <2>1, <4>1, OneSide
    <3> QED BY <2>3, <3>1, <3>2
  <2> QED BY <1>1, <1>4, <2>1, <2>2, <2>4
<1> QED BY <1>5, <1>6, <1>7 DEF RecvQuery

\* The queue pair a replacement gets carried nothing before.
LEMMA RecoveryReqRequests ==
    ASSUME TypeOK, TypeOK', RequestsSound, NEW ready \in BOOLEAN, RecvRecoveryReq(ready)
    PROVE  \A t \in Sides : RequestOK(req'[t], slots'[t], qps'[t])
<1> DEFINE m == Head(net["R"])
           p == m.plane
           q == FreshQp("R")
           old == slots["R"][p]
           idle == IF old.shadow.qp # NoQp THEN AbortRecovery(old) ELSE old
           made == EnsureShadow(idle, m.gen, q)
           sl == ConnectShadow(made, m.gen)
           connected == [NullQp EXCEPT !.dest = m.qp]
           probing == PostTo(connected, "R", ProbeRequest(m.gen))
           others == [qps["R"] EXCEPT ![q] = probing]
<1>1. /\ m \in Messages /\ p \in Planes /\ m.gen \in Nat /\ m.qp \in QpIds
      /\ q \in QpIds /\ q \notin NamedQps("R")
  BY StateTypes, SidesAndPlanes, MessageFields, FreshQpType DEF RecvRecoveryReq, Arrived
<1>2. /\ old \in Slots(QpIds) /\ qps["R"] \in [QpIds -> QpRecords] /\ "R" \in Sides
      /\ UNCHANGED req
  BY <1>1, StateTypes, SidesAndPlanes DEF RecvRecoveryReq
<1>3. idle \in Slots(QpIds) /\ InUse(idle) = InUse(old)
  BY <1>1, <1>2, SlotOperatorsType, OperatorsInUse
<1>4. \/ UNCHANGED <<slots, qps>>
      \/ Install("R", p, idle, qps["R"])
      \/ Install("R", p, sl, others)
  BY DEF RecvRecoveryReq
<1>5. CASE UNCHANGED <<slots, qps>>
  BY <1>2, <1>5, FollowsItself, RequestStep
<1>6. CASE Install("R", p, idle, qps["R"])
  <2> HIDE DEF idle, p
  <2> QED BY <1>1, <1>2, <1>3, <1>6, FollowsItself, SlotStep
<1>7. CASE Install("R", p, sl, others)
  <2>1. q \notin LiveQps(slots["R"])
    BY <1>1 DEF NamedQps
  <2>2. sl \in Slots(QpIds) /\ InUse(sl) = InUse(old)
    <3> HIDE DEF idle, m, q, old
    <3>1. made \in Slots(QpIds) /\ InUse(made) = InUse(idle)
      BY <1>1, <1>3, EnsureShadowType, OperatorsInUse
    <3> HIDE DEF made
    <3> QED BY <1>1, <1>3, <3>1, SlotOperatorsType, OperatorsInUse
  <2>3. probing \in QpRecords
    <3>1. m.qp \in 0 .. MaxQp
      BY <1>1, DpfrCommAssumption DEF QpIds
    <3>2. connected \in QpRecords
      BY <3>1, EmptySeq DEF NullQp, QpRecords
    <3>3. ProbeRequest(m.gen) \in WorkRequests
      BY <1>1, DpfrCommAssumption DEF ProbeRequest, WorkRequests
    <3> QED BY <3>2, <3>3, PostToType, SidesAndPlanes
  <2> HIDE DEF probing, q, sl, p
  <2>4. /\ others \in [QpIds -> QpRecords]
        /\ \A i \in LiveQps(slots["R"]) : others[i] = qps["R"][i]
    BY <1>1, <1>2, <2>1, <2>3, LiveAreQps
  <2> HIDE DEF others
  <2> QED BY <1>1, <1>2, <1>7, <2>2, <2>4, FollowsItself, SlotStep
<1> QED BY <1>4, <1>5, <1>6, <1>7

LEMMA ReceiverRequests ==
    ASSUME TypeOK, TypeOK', RequestsSound, Receiver
    PROVE  RequestsSound'
<1> DEFINE p == pc["R"].plane
           g == pc["R"].gen
           m == Head(net["R"])
           r == req["R"]
           Goal == \A t \in Sides : RequestOK(req'[t], slots'[t], qps'[t])
<1>1. /\ p \in Planes /\ g \in Nat /\ r \in Requests /\ Probed \in Slots(QpIds) /\ 0 \in Nat
      /\ qps["R"] \in [QpIds -> QpRecords] /\ Probed = slots["R"][p] /\ "R" \in Sides
  BY StateTypes, SidesAndPlanes DEF Probed
<1>2. CASE RecvQuery
  BY <1>2, QueryRequests
<1>3. ASSUME ~RecvQuery
      PROVE  UNCHANGED <<req, journal>> /\ pc'["S"] = pc["S"]
  <2>1. UNCHANGED <<req, journal>>
    BY <1>3 DEF Receiver, RecvRecoveryReq, RecvRecoveryReady, CommitR, RProbeFailed, MarkHealthyR
  <2>2. AfterHandle("R") \/ (\E o, n : GotoOn("R", "rprobe", o, n) \/ GotoOn("R", "rmark", o, n))
        \/ Goto("R", "control")
    BY <1>3 DEF Receiver, RecvRecoveryReq, RecvRecoveryReady, CommitR, RProbeFailed, MarkHealthyR
  <2>3. pc \in [Sides -> Positions] /\ "S" \in Sides
    BY SidesAndPlanes DEF TypeOK
  <2>4. pc'["S"] = pc["S"]
    BY <2>2, <2>3 DEF AfterHandle, Goto, GotoOn
  <2> QED BY <2>1, <2>4
<1>4. ASSUME Goal, ~RecvQuery
      PROVE  RequestsSound'
  BY <1>3, <1>4 DEF RequestsSound, QueryOK, JournalOK, In
<1>5. ASSUME NEW ready \in BOOLEAN, RecvRecoveryReq(ready)
      PROVE  Goal
  BY <1>5, RecoveryReqRequests
<1>6. ASSUME RecvRecoveryReady
      PROVE  Goal
  <2> DEFINE o == m.plane
             sl == AbortRecovery(slots["R"][o])
  <2>1. o \in Planes
    BY <1>1, <1>6, StateTypes, MessageFields DEF RecvRecoveryReady, Arrived
  <2>2. sl \in Slots(QpIds) /\ InUse(sl) = InUse(slots["R"][o])
    BY <1>1, <2>1, StateTypes, SlotOperatorsType, OperatorsInUse
  <2>3. /\ UNCHANGED <<slots, qps>> \/ Install("R", o, sl, qps["R"])
        /\ UNCHANGED req
    BY <1>6 DEF RecvRecoveryReady
  <2> HIDE DEF o, sl
  <2>4. CASE UNCHANGED <<slots, qps>>
    BY <1>1, <2>3, <2>4, FollowsItself, RequestStep
  <2>5. CASE Install("R", o, sl, qps["R"])
    BY <1>1, <2>1, <2>2, <2>3, <2>5, FollowsItself, SlotStep
  <2> QED BY <2>3, <2>4, <2>5
<1>7. ASSUME CommitR
      PROVE  Goal
  <2> DEFINE polled == ~Probed.probe.recvDone
             seen == IF polled THEN RecordProbe(Probed, "recv", g, TRUE) ELSE Probed
             committed == CommitShadow(seen)
             sl == DropUnusedRetired(committed, p, r)
             popped == IF polled THEN Popped("R", Probed.shadow) ELSE qps["R"]
  <2>1. seen \in Slots(QpIds) /\ InUse(seen) = InUse(Probed)
    BY <1>1, RecordProbeType, RecordProbeInUse
  <2>2. popped \in [QpIds -> QpRecords]
        /\ \A i \in QpIds : Carries(qps["R"][i], r.gen) => Carries(popped[i], r.gen)
    <3>1. CASE polled
      <4>1. /\ qps["R"][Probed.shadow.qp].cq # <<>>
            /\ Head(qps["R"][Probed.shadow.qp].cq).probe
        BY <1>7, <3>1 DEF CommitR, ShadowCompletion, HasCompletion, Probed
      <4>2. Popped("R", Probed.shadow) \in [QpIds -> QpRecords]
        BY <1>1, <4>1, ShadowPoppedType
      <4>3. \A i \in QpIds :
                Carries(qps["R"][i], r.gen) => Carries(Popped("R", Probed.shadow)[i], r.gen)
        BY <1>1, <4>1, PoppedKeepsWork
      <4> QED BY <3>1, <4>2, <4>3
    <3>2. CASE ~polled
      BY <1>1, <3>2
    <3> QED BY <3>1, <3>2
  <2>3. Install("R", p, sl, popped) /\ UNCHANGED req
    BY <1>7 DEF CommitR
  <2> HIDE DEF seen, popped
  <2>4. /\ committed \in Slots(QpIds)
        /\ \A e \in InUse(seen) : Needs(r, p, e) => e \in InUse(committed)
    BY <1>1, <2>1, SlotOperatorsType, RetiredInUse
  <2> HIDE DEF committed
  <2>5. /\ sl \in Slots(QpIds)
        /\ \A e \in InUse(committed) : Needs(r, p, e) => e \in InUse(sl)
    BY <2>4, DropUnusedRetiredType, RetiredInUse
  <2> HIDE DEF sl, p
  <2> QED BY <1>1, <2>1, <2>2, <2>3, <2>4, <2>5, FollowsItself, SlotStep, LiveAreQps
<1>8. ASSUME RProbeFailed
      PROVE  Goal
  <2> DEFINE sl == AbortRecovery(Probed)
  <2>1. sl \in Slots(QpIds) /\ InUse(sl) = InUse(Probed)
    BY <1>1, SlotOperatorsType, OperatorsInUse
  <2>2. Install("R", p, sl, qps["R"]) /\ UNCHANGED req
    BY <1>8 DEF RProbeFailed
  <2> HIDE DEF sl, p
  <2> QED BY <1>1, <2>1, <2>2, FollowsItself, SlotStep
<1>9. ASSUME MarkHealthyR
      PROVE  Goal
  <2>1. /\ slots' = slots \/ slots' = [slots EXCEPT !["R"][p] = Quarantine(@)]
        /\ UNCHANGED <<qps, req>>
    BY <1>9 DEF MarkHealthyR, MarkRecovered
  <2>2. InUse(Quarantine(Probed)) = InUse(Probed)
    BY <1>1, OperatorsInUse
  <2>3. \A o \in Planes : InUse(slots'["R"][o]) = InUse(slots["R"][o])
    <3>1. slots["R"] \in [Planes -> Slots(QpIds)] /\ slots \in [Sides -> [Planes -> Slots(QpIds)]]
      BY <1>1 DEF TypeOK
    <3>2. slots'["R"] = slots["R"] \/ slots'["R"] = [slots["R"] EXCEPT ![p] = Quarantine(Probed)]
      BY <1>1, <2>1, <3>1
    <3> QED BY <1>1, <2>2, <3>1, <3>2
  <2>4. RequestOK(r, slots["R"], qps["R"])
    BY <1>1 DEF RequestsSound
  <2>5. RequestOK(r, slots'["R"], qps["R"])
    BY <1>1, <2>3, <2>4, FollowsItself, FollowedOK
  <2>6. \A t \in Sides : t # "R" => slots'[t] = slots[t]
    BY <2>1, SidesAndPlanes DEF TypeOK
  <2> QED BY <1>1, <2>1, <2>5, <2>6, OneSide
<1> HIDE DEF Goal
<1> QED BY <1>2, <1>4, <1>5, <1>6, <1>7, <1>8, <1>9 DEF Receiver

-----------------------------------------------------------------------------
LEMMA InitRequests == Init => RequestsSound
<1> SUFFICES ASSUME Init PROVE RequestsSound
  OBVIOUS
<1>1. \A s \in Sides : req[s].state = "Free" /\ req[s].plane = NoPlane /\ pc[s].ph = "idle"
  BY DEF Init, At
<1> QED BY <1>1, SidesAndPlanes
        DEF RequestsSound, RequestOK, Tracked, QueryOK, JournalOK, Outstanding, In

LEMMA NextRequests == TypeOK /\ TypeOK' /\ RequestsSound /\ [Next]_vars => RequestsSound'
<1>1. TypeOK /\ TypeOK' /\ RequestsSound /\ Next => RequestsSound'
  BY FabricRequests, MonitorsRequests, ControlRequests, SenderRequests, ReceiverRequests,
     CallsRequests DEF Next
<1>2. RequestsSound /\ UNCHANGED vars => RequestsSound'
  BY DEF RequestsSound, QueryOK, JournalOK, In, vars
<1> QED BY <1>1, <1>2

LEMMA RequestsStaySound == Spec => []RequestsSound
  BY InitRequests, NextRequests, ConnectionTypes, PTL DEF Spec

\* What the sound requests say of the endpoints that are polled.
LEMMA SoundRequestsTracked == TypeOK /\ RequestsSound => RequestQpKept /\ PostedIsTracked
<1> SUFFICES ASSUME TypeOK, RequestsSound, NEW s \in Sides,
                    Outstanding(req[s]), req[s].plane # NoPlane
             PROVE  \E e \in PolledEndpoints(slots[s][req[s].plane]) :
                        /\ e.gen = req[s].gen
                        /\ req[s].state = "Posted" =>
                              LET qp == qps[s][e.qp]
                              IN \E w \in ToSet(qp.sq) \cup ToSet(qp.rq) \cup ToSet(qp.cq) :
                                    ~w.probe /\ w.gen = req[s].gen
  BY DEF RequestQpKept, PostedIsTracked, RequestsSound, RequestOK, Outstanding
<1> DEFINE sl == slots[s][req[s].plane]
<1>1. PICK e \in InUse(sl) :
          /\ e.qp # NoQp /\ e.gen = req[s].gen
          /\ req[s].state = "Posted" => Carries(qps[s][e.qp], req[s].gen)
  BY DEF RequestsSound, RequestOK, Tracked
<1>2. e \in PolledEndpoints(sl)
  BY <1>1 DEF InUse, PolledEndpoints
<1>3. sl \in Slots(QpIds)
  BY StateTypes DEF Requests
<1>4. e.qp \in QpIds
  BY <1>1, <1>3 DEF InUse, Slots, Endpoints
<1> DEFINE qp == qps[s][e.qp]
<1>5. qp.sq \in Seq(WorkRequests) /\ qp.rq \in Seq(WorkRequests) /\ qp.cq \in Seq(Completions)
  BY <1>4, StateTypes DEF QpRecords
<1> HIDE DEF qp
<1>6. ASSUME Carries(qp, req[s].gen)
      PROVE  \E w \in ToSet(qp.sq) \cup ToSet(qp.rq) \cup ToSet(qp.cq) :
                 ~w.probe /\ w.gen = req[s].gen
  BY <1>5, <1>6 DEF Carries, Holds, ToSet
<1> QED BY <1>1, <1>2, <1>6 DEF qp

(* An unfinished request always finds a queue pair of its generation on    *)
(* its plane: retireActive and destroyRetiredIfUnused never take away what *)
(* an outstanding request refers to.                                       *)
THEOREM RequestsKeepTheirQp == Spec => []RequestQpKept
  BY RequestsStaySound, ConnectionTypes, SoundRequestsTracked, PTL

(* A posted request is never orphaned: a queue pair the connection polls   *)
(* holds its work request or a completion for it, whatever completions of  *)
(* other generations progressCqs drops and whatever the recovery retires.  *)
THEOREM PostedStaysTracked == Spec => []PostedIsTracked
  BY RequestsStaySound, ConnectionTypes, SoundRequestsTracked, PTL

-----------------------------------------------------------------------------
(* Data.  Without reports and faults the connection stays as established:  *)
(* the tables, slots and sockets do not change, a request goes to the      *)
(* queue pair its number picks, on both sides the same, and that queue     *)
(* pair carries nothing else.  QuietInv says so, with m the number of      *)
(* messages that have reached R's buffers.                                 *)

DestOf(q) == IF q <= NPlanes THEN q ELSE 0

QpWith(q, sq, rq, cq) ==
    [dest |-> DestOf(q), sq |-> sq, rq |-> rq, cq |-> cq, err |-> FALSE]

IdleQps == [q \in QpIds |-> QpWith(q, <<>>, <<>>, <<>>)]

\* The queue pair of request k, and the side's queue pairs when it is as x.
HomeQp(k) == (k % NPlanes) + 1

QpsAt(k, x) == [IdleQps EXCEPT ![HomeQp(k)] = x]

\* Request k is posted; it is posted and its message has moved.
AskingQp(s, k) ==
    IF s = "S" THEN QpWith(HomeQp(k), <<DataRequest(k, 1)>>, <<>>, <<>>)
    ELSE QpWith(HomeQp(k), <<>>, <<DataRequest(k, 1)>>, <<>>)

SentQp(k) == QpWith(HomeQp(k), <<[DataRequest(k, 1) EXCEPT !.sent = TRUE]>>, <<>>, <<>>)

CompletedQp(k) == QpWith(HomeQp(k), <<>>, <<>>, <<Completion(DataRequest(k, 1), TRUE)>>)

FirstEndpoint(p) == [qp |-> p + 1, gen |-> 1, ready |-> TRUE]

FirstSlot(p) ==
    [state |-> "Active", active |-> FirstEndpoint(p), shadow |-> NoEndpoint, retired |-> {},
     probe |-> FreshProbe(0)]

Undisturbed ==
    /\ table = [s \in Sides |-> [p \in Planes |-> InitialEntry]]
    /\ slots = [s \in Sides |-> [p \in Planes |-> FirstSlot(p)]]
    /\ net = [s \in Sides |-> <<>>]
    /\ mon = [s \in Sides |-> [t \in Threads |-> NoDelivery]]
    /\ \A s \in Sides : pc[s].ph \in {"idle", "cqs"}

\* The request is NCCL's last operation, and one not finished is not tested.
Counted(s) ==
    /\ req[s].step = nccl.posted[s] /\ nextSeq[s] = nccl.posted[s] + 1
    /\ nccl.done[s] <= nccl.posted[s]
    /\ req[s].state = "Posted" => nccl.done[s] < nccl.posted[s] /\ req[s].gen = 1

\* Where a side is when m messages have moved: between requests, with request
\* m still to be completed, or with the next one posted.
RestsAt(s, m) == req[s].state \in {"Free", "Done"} /\ req[s].step = m /\ qps[s] = IdleQps

MovedAt(s, m) ==
    /\ req[s].state = "Posted" /\ req[s].step = m
    /\ qps[s] = QpsAt(m, CompletedQp(m)) \/ (s = "S" /\ qps[s] = QpsAt(m, SentQp(m)))

AsksAt(s, m) ==
    /\ req[s].state = "Posted" /\ req[s].step = m + 1
    /\ qps[s] = QpsAt(m + 1, AskingQp(s, m + 1))

InStep(m) ==
    /\ \A s \in Sides : RestsAt(s, m) \/ MovedAt(s, m) \/ AsksAt(s, m)
    /\ \A k \in Steps : k <= m => nccl.buf[k] = k

QuietInv ==
    /\ Undisturbed
    /\ \A s \in Sides : Counted(s)
    /\ \E m \in Nat : InStep(m)

\* The queue pair of a request is one of the established ones.
LEMMA HomeQpType ==
    ASSUME NEW k \in Nat
    PROVE  /\ k % NPlanes \in Planes
           /\ HomeQp(k) \in QpIds /\ HomeQp(k) <= NPlanes /\ HomeQp(k) = (k % NPlanes) + 1
           /\ \A x : QpsAt(k, x)[HomeQp(k)] = x
           /\ \A x : \A q \in QpIds : q # HomeQp(k) => QpsAt(k, x)[q] = IdleQps[q]
           /\ \A x : DOMAIN QpsAt(k, x) = QpIds
<1>1. NPlanes \in Nat \ {0} /\ MaxQp \in Nat /\ MaxQp >= NPlanes
  BY DpfrCommAssumption
<1> DEFINE r == k % NPlanes
<1>2. r \in 0 .. NPlanes - 1
  BY <1>1
<1> HIDE DEF r
<1>3. r \in Planes /\ r + 1 \in QpIds /\ r + 1 <= NPlanes
  BY <1>1, <1>2 DEF Planes, QpIds
<1>4. HomeQp(k) = r + 1
  BY DEF HomeQp, r
<1>5. \A x : /\ QpsAt(k, x)[HomeQp(k)] = x
             /\ \A q \in QpIds : q # HomeQp(k) => QpsAt(k, x)[q] = IdleQps[q]
             /\ DOMAIN QpsAt(k, x) = QpIds
  BY <1>3, <1>4 DEF QpsAt, IdleQps
<1> QED BY <1>3, <1>4, <1>5 DEF r

\* Two planes that are both at distance 0 from a request's are the same.
LEMMA NearestPlane ==
    ASSUME NEW n \in Nat \ {0}, NEW p \in 0 .. n - 1, NEW r \in 0 .. n - 1,
           (p + n - r) % n = 0
    PROVE  p = r
<1> DEFINE a == p + n - r
           d == a \div n
<1>1. a \in Nat /\ a >= 1 /\ a < 2 * n
  OBVIOUS
<1>2. d \in Nat /\ a = d * n + (a % n)
  BY <1>1
<1> HIDE DEF d
<1>3. a = d * n
  BY <1>1, <1>2
<1>4. CASE d = 1
  BY <1>3, <1>4
<1>5. CASE d = 0
  BY <1>1, <1>3, <1>5
<1>6. CASE d >= 2
  <2>1. (d - 2) * n >= 0
    BY <1>2, <1>6
  <2> QED BY <1>1, <1>2, <1>3, <2>1
<1> QED BY <1>2, <1>4, <1>5, <1>6

\* The slots as established: one endpoint each, selectable and live.
LEMMA FaultlessSlots ==
    ASSUME Undisturbed, NEW s \in Sides
    PROVE  /\ \A p \in Planes :
                 /\ PolledEndpoints(slots[s][p]) = {FirstEndpoint(p)}
                 /\ slots[s][p].active = FirstEndpoint(p)
                 /\ SlotAtGeneration(slots[s][p], table[s][p].gen)
                 /\ \A r : DropUnusedRetired(slots[s][p], p, r) = slots[s][p]
           /\ SelectablePlanes(s) = Planes
           /\ LiveQps(slots[s]) = 1 .. NPlanes
<1>1. \A p \in Planes :
          /\ slots[s][p].state = "Active" /\ slots[s][p].active = FirstEndpoint(p)
          /\ slots[s][p].shadow = NoEndpoint /\ slots[s][p].retired = {}
          /\ slots[s][p] = [slots[s][p] EXCEPT !.retired = {}]
          /\ table[s][p].gen = 1 /\ table[s][p].health = "Healthy"
  <2> TAKE p \in Planes
  <2>1. slots[s][p] = FirstSlot(p) /\ table[s][p] = InitialEntry
    BY DEF Undisturbed
  <2> DEFINE e == FirstEndpoint(p)
             f == FreshProbe(0)
             x == [state |-> "Active", active |-> e, shadow |-> NoEndpoint, retired |-> {},
                   probe |-> f]
  <2>2. FirstSlot(p) = x
    BY DEF FirstSlot
  <2> HIDE DEF e, f
  <2>3. /\ x.state = "Active" /\ x.active = e /\ x.shadow = NoEndpoint /\ x.retired = {}
        /\ x = [x EXCEPT !.retired = {}]
    OBVIOUS
  <2> HIDE DEF x
  <2>4. InitialEntry.gen = 1 /\ InitialEntry.health = "Healthy"
    BY DEF InitialEntry
  <2> QED BY <2>1, <2>2, <2>3, <2>4 DEF e
<1>2. \A p \in Planes :
          FirstEndpoint(p).qp = p + 1 /\ FirstEndpoint(p).gen = 1 /\ FirstEndpoint(p).ready
  BY DEF FirstEndpoint
<1>3. \A p \in Planes : p + 1 # NoQp
  BY DpfrCommAssumption DEF Planes, NoQp
<1>4. NoEndpoint.qp = NoQp
  BY DEF NoEndpoint
<1>5. ASSUME NEW p \in Planes
      PROVE  /\ PolledEndpoints(slots[s][p]) = {FirstEndpoint(p)}
             /\ SlotAtGeneration(slots[s][p], table[s][p].gen)
             /\ Selectable(slots[s][p], table[s][p])
             /\ QpsOf(slots[s][p]) = {p + 1}
  <2> DEFINE e == FirstEndpoint(p)
  <2>1. /\ slots[s][p].active = e /\ e.qp = p + 1 /\ e.gen = 1 /\ e.ready
        /\ p + 1 # NoQp
    BY <1>1, <1>2, <1>3
  <2> HIDE DEF e
  <2>2. PolledEndpoints(slots[s][p]) = {e}
    BY <1>1, <1>4, <2>1 DEF PolledEndpoints
  <2>3. SlotAtGeneration(slots[s][p], table[s][p].gen)
    BY <1>1, <2>1 DEF SlotAtGeneration
  <2>4. QpsOf(slots[s][p]) = {p + 1}
    BY <1>1, <1>4, <2>1 DEF QpsOf
  <2> QED BY <1>1, <2>2, <2>3, <2>4 DEF Selectable, e
<1>6. ASSUME NEW p \in Planes, NEW r
      PROVE  DropUnusedRetired(slots[s][p], p, r) = slots[s][p]
  <2> DEFINE kept == {e \in slots[s][p].retired : Outstanding(r) /\ r.plane = p /\ r.gen = e.gen}
  <2>1. kept = {}
    BY <1>1
  <2>2. DropUnusedRetired(slots[s][p], p, r) = [slots[s][p] EXCEPT !.retired = kept]
    BY DEF DropUnusedRetired
  <2> HIDE DEF kept
  <2> QED BY <1>1, <2>1, <2>2
<1>7. SelectablePlanes(s) = Planes
  BY <1>5 DEF SelectablePlanes
<1>8. LiveQps(slots[s]) = 1 .. NPlanes
  <2>1. LiveQps(slots[s]) = UNION {{p + 1} : p \in Planes}
    BY <1>5 DEF LiveQps
  <2>2. \A q \in 1 .. NPlanes : q - 1 \in Planes /\ q = (q - 1) + 1
    BY DpfrCommAssumption DEF Planes
  <2>3. \A p \in Planes : p + 1 \in 1 .. NPlanes
    BY DpfrCommAssumption DEF Planes
  <2> QED BY <2>1, <2>2, <2>3
<1> QED BY <1>1, <1>5, <1>6, <1>7, <1>8

\* All planes being usable, a request goes to the one its number picks.
LEMMA QuietSelected ==
    ASSUME Undisturbed, NEW s \in Sides, NEW n \in Nat, NEW p \in Selected(s, n)
    PROVE  p = n % NPlanes
<1> DEFINE r == n % NPlanes
           distance(o) == (o + NPlanes - r) % NPlanes
<1>1. NPlanes \in Nat \ {0}
  BY DpfrCommAssumption
<1>2. r \in Planes
  BY HomeQpType
<1>3. p \in Planes /\ distance(p) <= distance(r)
  BY <1>2, FaultlessSlots DEF Selected
<1> HIDE DEF r
<1>4. distance(r) = 0
  <2>1. r + NPlanes - r = NPlanes
    BY <1>1, <1>2 DEF Planes
  <2>2. NPlanes % NPlanes = 0
    BY <1>1
  <2> QED BY <2>1, <2>2
<1>5. distance(p) \in Nat
  <2>1. p + NPlanes - r \in Nat
    BY <1>1, <1>2, <1>3 DEF Planes
  <2> DEFINE a == p + NPlanes - r
  <2> HIDE DEF a
  <2>2. a % NPlanes \in Nat
    BY <1>1, <2>1 DEF a
  <2> QED BY <2>2 DEF a
<1>6. distance(p) = 0
  BY <1>3, <1>4, <1>5
<1>7. p = r
  BY <1>1, <1>2, <1>3, <1>6, NearestPlane DEF Planes
<1> QED BY <1>7 DEF r

\* What a queue pair in one of the four conditions holds.
LEMMA QuietQpFields ==
    ASSUME NEW k \in Nat, NEW s \in Sides
    PROVE  /\ \A q \in QpIds :
                 /\ IdleQps[q].err = FALSE /\ (q <= NPlanes => IdleQps[q].dest = q)
                 /\ IdleQps[q].sq = <<>> /\ IdleQps[q].rq = <<>> /\ IdleQps[q].cq = <<>>
           /\ \A x \in {AskingQp(s, k), SentQp(k), CompletedQp(k)} :
                 x.err = FALSE /\ x.dest = HomeQp(k)
           /\ AskingQp(s, k).cq = <<>>
           /\ s = "S" => AskingQp(s, k).rq = <<>> /\ AskingQp(s, k).sq = <<DataRequest(k, 1)>>
           /\ s # "S" => AskingQp(s, k).sq = <<>> /\ AskingQp(s, k).rq = <<DataRequest(k, 1)>>
           /\ SentQp(k).rq = <<>> /\ SentQp(k).cq = <<>>
           /\ SentQp(k).sq = <<[DataRequest(k, 1) EXCEPT !.sent = TRUE]>>
           /\ CompletedQp(k).sq = <<>> /\ CompletedQp(k).rq = <<>>
           /\ CompletedQp(k).cq = <<Completion(DataRequest(k, 1), TRUE)>>
<1>1. HomeQp(k) <= NPlanes /\ DestOf(HomeQp(k)) = HomeQp(k)
  BY HomeQpType DEF DestOf
<1>2. \A q, sq, rq, cq :
          /\ QpWith(q, sq, rq, cq).err = FALSE
          /\ QpWith(q, sq, rq, cq).dest = DestOf(q)
          /\ QpWith(q, sq, rq, cq).sq = sq /\ QpWith(q, sq, rq, cq).rq = rq
          /\ QpWith(q, sq, rq, cq).cq = cq
  BY DEF QpWith
<1>3. \A q \in QpIds : IdleQps[q] = QpWith(q, <<>>, <<>>, <<>>)
  BY DEF IdleQps
<1> DEFINE w == DataRequest(k, 1)
           v == [DataRequest(k, 1) EXCEPT !.sent = TRUE]
           c == Completion(DataRequest(k, 1), TRUE)
           h == HomeQp(k)
<1>4. AskingQp(s, k) = IF s = "S" THEN QpWith(h, <<w>>, <<>>, <<>>)
                       ELSE QpWith(h, <<>>, <<w>>, <<>>)
  BY DEF AskingQp
<1>5. SentQp(k) = QpWith(h, <<v>>, <<>>, <<>>) /\ CompletedQp(k) = QpWith(h, <<>>, <<>>, <<c>>)
  BY DEF SentQp, CompletedQp
<1> HIDE DEF w, v, c, h
<1>6. \A q \in QpIds :
          /\ IdleQps[q].err = FALSE /\ (q <= NPlanes => IdleQps[q].dest = q)
          /\ IdleQps[q].sq = <<>> /\ IdleQps[q].rq = <<>> /\ IdleQps[q].cq = <<>>
  BY <1>2, <1>3 DEF DestOf
<1>7. /\ AskingQp(s, k).err = FALSE /\ AskingQp(s, k).dest = h /\ AskingQp(s, k).cq = <<>>
      /\ s = "S" => AskingQp(s, k).rq = <<>> /\ AskingQp(s, k).sq = <<w>>
      /\ s # "S" => AskingQp(s, k).sq = <<>> /\ AskingQp(s, k).rq = <<w>>
  BY <1>1, <1>2, <1>4 DEF h
<1>8. /\ SentQp(k).err = FALSE /\ SentQp(k).dest = h /\ SentQp(k).rq = <<>>
      /\ SentQp(k).cq = <<>> /\ SentQp(k).sq = <<v>>
  BY <1>1, <1>2, <1>5 DEF h
<1>9. /\ CompletedQp(k).err = FALSE /\ CompletedQp(k).dest = h /\ CompletedQp(k).sq = <<>>
      /\ CompletedQp(k).rq = <<>> /\ CompletedQp(k).cq = <<c>>
  BY <1>1, <1>2, <1>5 DEF h
<1> QED BY <1>6, <1>7, <1>8, <1>9 DEF w, v, c, h

\* Which queues hold something, and what.
LEMMA QuietQueues ==
    ASSUME NEW m \in Nat, InStep(m), NEW s \in Sides, NEW q \in QpIds
    PROVE  /\ qps[s][q].err = FALSE /\ (q <= NPlanes => qps[s][q].dest = q)
           /\ qps[s][q].sq # <<>> =>
                 /\ s = "S"
                 /\ \/ AsksAt(s, m) /\ q = HomeQp(m + 1) /\ qps[s][q].sq = <<DataRequest(m + 1, 1)>>
                    \/ /\ MovedAt(s, m) /\ q = HomeQp(m) /\ qps[s] = QpsAt(m, SentQp(m))
                       /\ qps[s][q].sq = <<[DataRequest(m, 1) EXCEPT !.sent = TRUE]>>
           /\ qps[s][q].rq # <<>> =>
                 /\ s = "R" /\ AsksAt(s, m) /\ q = HomeQp(m + 1)
                 /\ qps[s][q].rq = <<DataRequest(m + 1, 1)>>
           /\ qps[s][q].cq # <<>> =>
                 /\ MovedAt(s, m) /\ q = HomeQp(m) /\ qps[s] = QpsAt(m, CompletedQp(m))
                 /\ qps[s][q].cq = <<Completion(DataRequest(m, 1), TRUE)>>
<1>1. s = "S" \/ s = "R"
  BY DEF Sides
<1>2. /\ IdleQps[q].err = FALSE /\ (q <= NPlanes => IdleQps[q].dest = q)
      /\ IdleQps[q].sq = <<>> /\ IdleQps[q].rq = <<>> /\ IdleQps[q].cq = <<>>
  BY QuietQpFields
<1>3. CASE RestsAt(s, m)
  BY <1>2, <1>3 DEF RestsAt
<1>4. CASE MovedAt(s, m)
  <2>1. CASE qps[s] = QpsAt(m, CompletedQp(m))
    <3>1. q # HomeQp(m) => qps[s][q] = IdleQps[q]
      BY <2>1, HomeQpType
    <3>2. q = HomeQp(m) => qps[s][q] = CompletedQp(m)
      BY <2>1, HomeQpType
    <3> QED BY <1>2, <1>4, <2>1, <3>1, <3>2, QuietQpFields
  <2>2. CASE s = "S" /\ qps[s] = QpsAt(m, SentQp(m))
    <3>1. q # HomeQp(m) => qps[s][q] = IdleQps[q]
      BY <2>2, HomeQpType
    <3>2. q = HomeQp(m) => qps[s][q] = SentQp(m)
      BY <2>2, HomeQpType
    <3> QED BY <1>2, <1>4, <2>2, <3>1, <3>2, QuietQpFields
  <2> QED BY <1>4, <2>1, <2>2 DEF MovedAt
<1>5. CASE AsksAt(s, m)
  <2>1. m + 1 \in Nat
    OBVIOUS
  <2>2. qps[s] = QpsAt(m + 1, AskingQp(s, m + 1))
    BY <1>5 DEF AsksAt
  <2>3. q # HomeQp(m + 1) => qps[s][q] = IdleQps[q]
    BY <2>1, <2>2, HomeQpType
  <2>4. q = HomeQp(m + 1) => qps[s][q] = AskingQp(s, m + 1)
    BY <2>1, <2>2, HomeQpType
  <2>5. CASE q # HomeQp(m + 1)
    BY <1>2, <2>3, <2>5
  <2>6. CASE q = HomeQp(m + 1)
    <3> DEFINE x == AskingQp(s, m + 1)
    <3>1. /\ x.err = FALSE /\ x.dest = HomeQp(m + 1) /\ x.cq = <<>>
          /\ s = "S" => x.rq = <<>> /\ x.sq = <<DataRequest(m + 1, 1)>>
          /\ s # "S" => x.sq = <<>> /\ x.rq = <<DataRequest(m + 1, 1)>>
      BY <2>1, QuietQpFields
    <3> HIDE DEF x
    <3>2. qps[s][q] = x
      BY <2>4, <2>6 DEF x
    <3> QED BY <1>1, <1>5, <2>6, <3>1, <3>2
  <2> QED BY <2>5, <2>6
<1> QED BY <1>3, <1>4, <1>5 DEF InStep

\* The completion that is waiting, if one is.
LEMMA QuietCompletion ==
    ASSUME NEW m \in Nat, InStep(m), NEW s \in Sides, NEW q \in QpIds, qps[s][q].cq # <<>>
    PROVE  /\ MovedAt(s, m) /\ q = HomeQp(m) /\ qps[s] = QpsAt(m, CompletedQp(m))
           /\ qps[s][q].cq = <<Completion(DataRequest(m, 1), TRUE)>>
  BY QuietQueues

\* The fields of data requests and their completions.
LEMMA DataFields ==
    ASSUME NEW k
    PROVE  /\ DataRequest(k, 1).probe = FALSE /\ DataRequest(k, 1).step = k
           /\ DataRequest(k, 1).sent = FALSE
           /\ Completion(DataRequest(k, 1), TRUE).probe = FALSE
           /\ Completion(DataRequest(k, 1), TRUE).ok = TRUE
           /\ Completion(DataRequest(k, 1), TRUE).gen = 1
           /\ [DataRequest(k, 1) EXCEPT !.sent = TRUE].sent = TRUE
           /\ Completion([DataRequest(k, 1) EXCEPT !.sent = TRUE], TRUE)
                 = Completion(DataRequest(k, 1), TRUE)
  BY DEF DataRequest, Completion

\* Of the actions of Next these are the ones that can happen.
LEMMA QuietSteps ==
    ASSUME TypeOK, Undisturbed, \A s \in Sides : Counted(s), NEW m \in Nat, InStep(m), Next,
           MaxEvents = 0, MaxFaults = 0
    PROVE  \/ \E s \in Sides : Post(s) \/ Test(s) \/ Return(s)
           \/ \E s \in Sides, p \in Planes : PollSuccess(s, p, FirstEndpoint(p))
           \/ \E q \in QpIds : Deliver(q) \/ Acknowledge(q)
<1>1. \A s \in Sides : net[s] = <<>> /\ pc[s].ph \in {"idle", "cqs"}
  BY DEF Undisturbed
<1>2. \A s \in Sides : req[s].state \in {"Free", "Done", "Posted"}
  BY DEF InStep, RestsAt, MovedAt, AsksAt
<1>3. ~Monitors
  <2> SUFFICES ASSUME NEW s \in Sides, NEW t \in Threads
               PROVE  /\ \A p \in Planes, up \in BOOLEAN : ~MonitorMark(s, t, p, up)
                      /\ ~MonitorNotify(s, t) /\ ~MonitorSend(s, t)
    BY DEF Monitors
  <2>1. mon[s][t].stage = "wait"
    BY DEF Undisturbed, NoDelivery
  <2>2. ~(spent.events < MaxEvents)
    BY DEF TypeOK, Spendings
  <2> QED BY <2>1, <2>2 DEF MonitorMark, MonitorNotify, MonitorSend
<1>4. ~Control
  BY <1>1 DEF Control, RecvPlaneEvent, IgnoreAnswer, Arrived
<1>5. ~Sender
  <2>1. "S" \in Sides /\ \A p \in Planes : SlotAtGeneration(slots["S"][p], table["S"][p].gen)
    BY FaultlessSlots, SidesAndPlanes
  <2>2. \A p \in Planes : ~RecoverStart(p)
    BY <2>1 DEF RecoverStart
  <2>3. ~StartQuery /\ ~QueryTimeout /\ ~ReplayLater /\ ~ProbeOk /\ ~ProbeFailed
        /\ ~MarkHealthyS /\ ~HandshakeTimeout
    BY <1>1, <1>2, <2>1 DEF StartQuery, QueryTimeout, ReplayLater, ProbeOk, ProbeFailed,
                            MarkHealthyS, HandshakeTimeout, In
  <2>4. ~RecvQueryResp /\ ~RecoverRefused /\ ~RecoverConnect /\ ~RecvAck
    BY <1>1, <2>1 DEF RecvQueryResp, RecoverRefused, RecoverConnect, RecvAck, Arrived
  <2> QED BY <2>2, <2>3, <2>4 DEF Sender
<1>6. ~Receiver
  <2>1. "R" \in Sides
    BY SidesAndPlanes
  <2>2. ~RecvQuery /\ (\A ready \in BOOLEAN : ~RecvRecoveryReq(ready)) /\ ~RecvRecoveryReady
    BY <1>1, <2>1 DEF RecvQuery, RecvRecoveryReq, RecvRecoveryReady, Arrived
  <2>3. ~CommitR /\ ~RProbeFailed /\ ~MarkHealthyR
    BY <1>1, <2>1 DEF CommitR, RProbeFailed, MarkHealthyR, In
  <2> QED BY <2>2, <2>3 DEF Receiver
<1>7. ASSUME NEW s \in Sides, NEW q \in QpIds, QpError(s, q) PROVE FALSE
  <2> DEFINE qp == qps[s][q]
  <2>1. qp.sq # <<>> => Reachable(s, q)
    <3> SUFFICES ASSUME qp.sq # <<>> PROVE Reachable(s, q)
      OBVIOUS
    <3>1. s = "S" /\ (q = HomeQp(m) \/ q = HomeQp(m + 1))
      BY QuietQueues
    <3>2. q <= NPlanes
      BY <3>1, HomeQpType
    <3>3. Peer(s) \in Sides
      BY SidesAndPlanes
    <3>4. /\ qps[s][q].dest = q /\ qps[Peer(s)][q].dest = q
          /\ qps[Peer(s)][q].err = FALSE
      BY <3>2, <3>3, QuietQueues
    <3>5. q \in LiveQps(slots[Peer(s)])
      BY <3>2, <3>3, FaultlessSlots, DpfrCommAssumption DEF QpIds
    <3> QED BY <3>4, <3>5 DEF Reachable
  <2>2. ~(spent.faults < MaxFaults)
    BY DEF TypeOK, Spendings
  <2> HIDE DEF qp
  <2> QED BY <1>7, <2>1, <2>2 DEF QpError, qp
<1>8. ASSUME NEW s \in Sides, PollCq(s)
      PROVE  \E p \in Planes : PollSuccess(s, p, FirstEndpoint(p))
  <2>1. PICK p \in Planes : \E e \in PolledEndpoints(slots[s][p]) :
            \/ \E ok \in BOOLEAN : PollProbe(s, p, e, ok) \/ PollStale(s, p, e, ok)
            \/ PollSuccess(s, p, e) \/ PollStaleError(s, p, e) \/ PollError(s, p, e)
    BY <1>8 DEF PollCq
  <2> DEFINE e == FirstEndpoint(p)
  <2>2. \/ \E ok \in BOOLEAN : PollProbe(s, p, e, ok) \/ PollStale(s, p, e, ok)
        \/ PollSuccess(s, p, e) \/ PollStaleError(s, p, e) \/ PollError(s, p, e)
    BY <2>1, FaultlessSlots
  <2>3. e.qp = p + 1 /\ p + 1 \in QpIds
    BY DpfrCommAssumption DEF FirstEndpoint, Planes, QpIds
  <2> HIDE DEF e
  <2>4. qps[s][e.qp].cq # <<>> =>
            LET c == Head(qps[s][e.qp].cq)
            IN c.probe = FALSE /\ c.ok = TRUE /\ c.gen = 1 /\ req[s].state = "Posted"
    <3> SUFFICES ASSUME qps[s][e.qp].cq # <<>>
                 PROVE  LET c == Head(qps[s][e.qp].cq)
                        IN c.probe = FALSE /\ c.ok = TRUE /\ c.gen = 1 /\ req[s].state = "Posted"
      OBVIOUS
    <3>1. MovedAt(s, m) /\ qps[s][e.qp].cq = <<Completion(DataRequest(m, 1), TRUE)>>
      <4> DEFINE q == e.qp
      <4>1. q \in QpIds /\ qps[s][q].cq # <<>>
        BY <2>3
      <4> HIDE DEF q
      <4>2. MovedAt(s, m) /\ qps[s][q].cq = <<Completion(DataRequest(m, 1), TRUE)>>
        BY <4>1, QuietCompletion
      <4> QED BY <4>2 DEF q
    <3> DEFINE d == Completion(DataRequest(m, 1), TRUE)
    <3>2. d.probe = FALSE /\ d.ok = TRUE /\ d.gen = 1
      BY DataFields
    <3> HIDE DEF d
    <3>3. Head(<<d>>) = d
      OBVIOUS
    <3> QED BY <3>1, <3>2, <3>3 DEF d, MovedAt
  <2>5. req[s].state = "Posted" => req[s].gen = 1
    BY DEF Counted
  <2>6. \A ok \in BOOLEAN : ~PollProbe(s, p, e, ok) /\ ~PollStale(s, p, e, ok)
    BY <2>4, <2>5 DEF PollProbe, PollStale, HasCompletion
  <2>7. ~PollStaleError(s, p, e) /\ ~PollError(s, p, e)
    BY <2>4 DEF PollStaleError, PollError, HasCompletion
  <2> QED BY <2>2, <2>6, <2>7 DEF e
<1>9. ASSUME NEW s \in Sides PROVE ~Backpressure(s)
  <2>1. SelectablePlanes(s) # {}
    BY FaultlessSlots, SidesAndPlanes
  <2> QED BY <2>1 DEF Backpressure, CanPost
<1>10. Fabric \/ Calls
  BY <1>3, <1>4, <1>5, <1>6 DEF Next
<1>11. Fabric => \E q \in QpIds : Deliver(q) \/ Acknowledge(q)
  BY <1>7 DEF Fabric
<1>12. Calls => \/ \E s \in Sides : Post(s) \/ Test(s) \/ Return(s)
                \/ \E s \in Sides, p \in Planes : PollSuccess(s, p, FirstEndpoint(p))
  BY <1>8, <1>9 DEF Calls
<1> QED BY <1>10, <1>11, <1>12

\* A change of one queue.
LEMMA SqUpdate ==
    ASSUME NEW q, NEW sq, NEW rq, NEW cq, NEW x, NEW z, z = QpWith(q, sq, rq, cq)
    PROVE  [z EXCEPT !.sq = x] = QpWith(q, x, rq, cq)
<1> DEFINE d == DestOf(q)
           e == FALSE
<1>1. \A a, b, c : QpWith(q, a, b, c) = [dest |-> d, sq |-> a, rq |-> b, cq |-> c, err |-> e]
  BY DEF QpWith
<1> HIDE DEF d, e
<1>2. z = [dest |-> d, sq |-> sq, rq |-> rq, cq |-> cq, err |-> e]
  BY <1>1
<1>3. [z EXCEPT !.sq = x] = [dest |-> d, sq |-> x, rq |-> rq, cq |-> cq, err |-> e]
  BY <1>2
<1> QED BY <1>1, <1>3

LEMMA RqUpdate ==
    ASSUME NEW q, NEW sq, NEW rq, NEW cq, NEW x, NEW z, z = QpWith(q, sq, rq, cq)
    PROVE  [z EXCEPT !.rq = x] = QpWith(q, sq, x, cq)
<1> DEFINE d == DestOf(q)
           e == FALSE
<1>1. \A a, b, c : QpWith(q, a, b, c) = [dest |-> d, sq |-> a, rq |-> b, cq |-> c, err |-> e]
  BY DEF QpWith
<1> HIDE DEF d, e
<1>2. z = [dest |-> d, sq |-> sq, rq |-> rq, cq |-> cq, err |-> e]
  BY <1>1
<1>3. [z EXCEPT !.rq = x] = [dest |-> d, sq |-> sq, rq |-> x, cq |-> cq, err |-> e]
  BY <1>2
<1> QED BY <1>1, <1>3

LEMMA CqUpdate ==
    ASSUME NEW q, NEW sq, NEW rq, NEW cq, NEW x, NEW z, z = QpWith(q, sq, rq, cq)
    PROVE  [z EXCEPT !.cq = x] = QpWith(q, sq, rq, x)
<1> DEFINE d == DestOf(q)
           e == FALSE
<1>1. \A a, b, c : QpWith(q, a, b, c) = [dest |-> d, sq |-> a, rq |-> b, cq |-> c, err |-> e]
  BY DEF QpWith
<1> HIDE DEF d, e
<1>2. z = [dest |-> d, sq |-> sq, rq |-> rq, cq |-> cq, err |-> e]
  BY <1>1
<1>3. [z EXCEPT !.cq = x] = [dest |-> d, sq |-> sq, rq |-> rq, cq |-> x, err |-> e]
  BY <1>2
<1> QED BY <1>1, <1>3

\* The first entry of a queue of one is replaced.
LEMMA OneEntry ==
    ASSUME NEW a, NEW w, NEW v, a = <<w>>
    PROVE  [a EXCEPT ![1] = v] = <<v>>
<1>1. a \in Seq({w, v}) /\ Len(a) = 1
  OBVIOUS
<1>2. [a EXCEPT ![1] = v] \in Seq({w, v})
  BY <1>1
<1>3. Len([a EXCEPT ![1] = v]) = 1 /\ [a EXCEPT ![1] = v][1] = v
  BY <1>1
<1> QED BY <1>1, <1>2, <1>3

\* A step that moves no message leaves a side it does not touch in step.
LEMMA QuietOther ==
    ASSUME NEW s \in Sides, NEW m \in Nat, RestsAt(s, m) \/ MovedAt(s, m) \/ AsksAt(s, m),
           req'[s] = req[s], qps'[s] = qps[s]
    PROVE  (RestsAt(s, m) \/ MovedAt(s, m) \/ AsksAt(s, m))'
  BY DEF RestsAt, MovedAt, AsksAt

\* NCCL's call takes the next number, which picks the queue pair.
LEMMA QuietPost ==
    ASSUME TypeOK, Undisturbed, NEW s \in Sides, \A t \in Sides : Counted(t),
           NEW m \in Nat, InStep(m), Post(s)
    PROVE  QuietInv'
<1>1. /\ req[s].state \in {"Free", "Done"} /\ req[s].step = m /\ qps[s] = IdleQps
  <2>1. req[s].state # "Posted"
    BY DEF Post, MayPost, Outstanding
  <2> QED BY <2>1 DEF InStep, RestsAt, MovedAt, AsksAt
<1>2. nccl.posted[s] = m /\ nextSeq[s] = m + 1 /\ nccl.done[s] <= m /\ m + 1 \in Nat
  BY <1>1 DEF Counted
<1> DEFINE r == NewRequest(s)
           h == HomeQp(m + 1)
           w == DataRequest(m + 1, 1)
<1>3. r.seq = m + 1 /\ r.step = m + 1
  BY <1>2 DEF NewRequest
<1>4. PICK p \in Selected(s, r.seq) :
          req' = [req EXCEPT ![s] = PostedAs(s, r, p)] /\ qps' = WithPosted(s, r, p)
  BY DEF Post, PostRequest
<1>5. p = (m + 1) % NPlanes /\ p \in Planes /\ h = p + 1 /\ h \in QpIds
  BY <1>2, <1>3, QuietSelected, HomeQpType
<1> DEFINE e == slots[s][p].active
<1>6. e.gen = 1 /\ e.qp = h
  <2>1. FirstEndpoint(p).gen = 1 /\ FirstEndpoint(p).qp = p + 1
    BY DEF FirstEndpoint
  <2> QED BY <1>5, <2>1, FaultlessSlots
<1> HIDE DEF e, h, w
<1>7. req'[s] = PostedAs(s, r, p) /\ \A t \in Sides : t # s => req'[t] = req[t]
  BY <1>4 DEF TypeOK
<1>8. req'[s].state = "Posted" /\ req'[s].step = m + 1 /\ req'[s].gen = 1
  BY <1>3, <1>6, <1>7 DEF PostedAs, NewRequest, e
<1> HIDE DEF r
<1>9. qps' = [qps EXCEPT ![s][h] = PostTo(@, s, w)]
  BY <1>3, <1>4, <1>6 DEF WithPosted, e, w
<1>10. \A t \in Sides : t # s => qps'[t] = qps[t]
  BY <1>9 DEF TypeOK
<1>11. PostTo(IdleQps[h], s, w) = AskingQp(s, m + 1)
  <2>1. IdleQps[h] = QpWith(h, <<>>, <<>>, <<>>) /\ IdleQps[h].err = FALSE
    BY <1>2, <1>5, QuietQpFields DEF IdleQps
  <2>2. IdleQps[h].sq = <<>> /\ IdleQps[h].rq = <<>>
    BY <1>2, <1>5, QuietQpFields
  <2>3. Append(<<>>, w) = <<w>>
    OBVIOUS
  <2>4. /\ [IdleQps[h] EXCEPT !.sq = <<w>>] = QpWith(h, <<w>>, <<>>, <<>>)
        /\ [IdleQps[h] EXCEPT !.rq = <<w>>] = QpWith(h, <<>>, <<w>>, <<>>)
    <3> DEFINE z == IdleQps[h]
               x == <<w>>
    <3>1. z = QpWith(h, <<>>, <<>>, <<>>)
      BY <2>1
    <3> HIDE DEF z, x
    <3>2. [z EXCEPT !.sq = x] = QpWith(h, x, <<>>, <<>>)
      BY <3>1, SqUpdate
    <3>3. [z EXCEPT !.rq = x] = QpWith(h, <<>>, x, <<>>)
      BY <3>1, RqUpdate
    <3> QED BY <3>2, <3>3 DEF z, x
  <2>5. PostTo(IdleQps[h], s, w) = IF s = "S" THEN [IdleQps[h] EXCEPT !.sq = <<w>>]
                                   ELSE [IdleQps[h] EXCEPT !.rq = <<w>>]
    BY <2>1, <2>2, <2>3 DEF PostTo
  <2> QED BY <2>1, <2>4, <2>5 DEF AskingQp, h, w
<1>12. qps'[s] = QpsAt(m + 1, AskingQp(s, m + 1))
  <2>1. qps'[s] = [IdleQps EXCEPT ![h] = PostTo(IdleQps[h], s, w)]
    BY <1>1, <1>5, <1>9 DEF TypeOK
  <2> QED BY <1>11, <2>1 DEF QpsAt, h
<1>13. Undisturbed'
  BY DEF Post, Undisturbed
<1>14. /\ nccl' = [nccl EXCEPT !.posted[s] = @ + 1]
       /\ nextSeq' = [nextSeq EXCEPT ![s] = @ + 1]
  BY DEF Post
<1>15. /\ nccl'.posted[s] = m + 1 /\ nextSeq'[s] = m + 2 /\ nccl'.done = nccl.done
       /\ nccl'.buf = nccl.buf
       /\ \A t \in Sides : t # s => nccl'.posted[t] = nccl.posted[t] /\ nextSeq'[t] = nextSeq[t]
  BY <1>2, <1>14 DEF TypeOK, Progresses
<1>16. \A t \in Sides : Counted(t)'
  <2>1. Counted(s)'
    <3>1. nccl.done[s] \in Nat
      BY StateTypes
    <3> QED BY <1>2, <1>8, <1>15, <3>1 DEF Counted
  <2>2. ASSUME NEW t \in Sides, t # s PROVE Counted(t)'
    BY <1>7, <1>15, <2>2 DEF Counted
  <2> QED BY <2>1, <2>2
<1>17. InStep(m)'
  <2>1. AsksAt(s, m)'
    BY <1>8, <1>12 DEF AsksAt
  <2>2. ASSUME NEW t \in Sides, t # s
        PROVE  (RestsAt(t, m) \/ MovedAt(t, m) \/ AsksAt(t, m))'
    BY <1>7, <1>10, <2>2, QuietOther DEF InStep
  <2> QED BY <1>15, <2>1, <2>2 DEF InStep
<1> QED BY <1>13, <1>16, <1>17 DEF QuietInv

\* NCCL tests an operation that is done.
LEMMA QuietTest ==
    ASSUME TypeOK, Undisturbed, NEW s \in Sides, \A t \in Sides : Counted(t),
           NEW m \in Nat, InStep(m), Test(s)
    PROVE  QuietInv'
<1>1. req[s].state = "Done" /\ nccl.done[s] < nccl.posted[s]
  BY DEF Test
<1>2. RestsAt(s, m)
  BY <1>1 DEF InStep, MovedAt, AsksAt
<1>3. /\ req' = [req EXCEPT ![s].state = "Free"]
      /\ nccl' = [nccl EXCEPT !.done[s] = @ + 1]
  BY DEF Test
<1>4. /\ req'[s].state = "Free" /\ req'[s].step = req[s].step
      /\ \A t \in Sides : t # s => req'[t] = req[t]
  BY <1>3, StateTypes DEF TypeOK, Requests
<1>5. /\ nccl'.done[s] = nccl.done[s] + 1 /\ nccl'.posted = nccl.posted /\ nccl'.buf = nccl.buf
      /\ \A t \in Sides : t # s => nccl'.done[t] = nccl.done[t]
  BY <1>3 DEF TypeOK, Progresses
<1>6. nccl.done[s] \in Nat /\ nccl.posted[s] \in Nat
  BY StateTypes
<1>7. nextSeq' = nextSeq /\ qps' = qps /\ Undisturbed'
  BY DEF Test, Undisturbed
<1>8. \A t \in Sides : Counted(t)'
  <2>1. Counted(s)'
    BY <1>1, <1>4, <1>5, <1>6, <1>7 DEF Counted
  <2>2. ASSUME NEW t \in Sides, t # s PROVE Counted(t)'
    BY <1>4, <1>5, <1>7, <2>2 DEF Counted
  <2> QED BY <2>1, <2>2
<1>9. InStep(m)'
  <2>1. RestsAt(s, m)'
    BY <1>2, <1>4, <1>7 DEF RestsAt
  <2>2. ASSUME NEW t \in Sides, t # s
        PROVE  (RestsAt(t, m) \/ MovedAt(t, m) \/ AsksAt(t, m))'
    BY <1>4, <1>7, <2>2, QuietOther DEF InStep
  <2> QED BY <1>5, <2>1, <2>2 DEF InStep
<1> QED BY <1>7, <1>8, <1>9 DEF QuietInv

\* A message moves when both sides have posted its request, and it is the
\* next one.
LEMMA QuietDeliver ==
    ASSUME TypeOK, Undisturbed, \A t \in Sides : Counted(t), NEW m \in Nat, InStep(m),
           NEW q \in QpIds, Deliver(q)
    PROVE  QuietInv'
<1> DEFINE k == m + 1
           h == HomeQp(m + 1)
           w == DataRequest(m + 1, 1)
           v == [DataRequest(m + 1, 1) EXCEPT !.sent = TRUE]
           c == Completion(DataRequest(m + 1, 1), TRUE)
<1>1. "S" \in Sides /\ "R" \in Sides /\ "S" # "R" /\ k \in Nat
  BY SidesAndPlanes
<1>2. PICK i \in DOMAIN qps["S"][q].sq :
          LET d == qps["S"][q].dest
              a == qps["S"][q].sq[i]
              b == Head(qps["R"][d].rq)
          IN /\ NextUnsent(qps["S"][q], i) /\ Reachable("S", q) /\ qps["R"][d].rq # <<>>
             /\ qps' = [qps EXCEPT !["S"][q].sq[i].sent = TRUE,
                                   !["R"][d].rq = Tail(@),
                                   !["R"][d].cq = Append(@, Completion(b, TRUE))]
             /\ nccl' = IF b.probe THEN nccl ELSE [nccl EXCEPT !.buf[b.step] = a.step]
             /\ UNCHANGED <<table, slots, net, mon, pc, req, nextSeq, journal, spent>>
  BY DEF Deliver
<1> DEFINE sq == qps["S"][q].sq
<1>3. i \in DOMAIN sq /\ ~sq[i].sent
  BY <1>2 DEF NextUnsent
<1>4. \A y : /\ DOMAIN <<y>> = {1} /\ <<y>>[1] = y /\ Head(<<y>>) = y /\ Tail(<<y>>) = <<>>
             /\ DOMAIN <<>> = {}
  OBVIOUS
<1>5. AsksAt("S", m) /\ q = h /\ sq = <<w>>
  <2> DEFINE u == [DataRequest(m, 1) EXCEPT !.sent = TRUE]
  <2>1. u.sent = TRUE
    BY DataFields
  <2> HIDE DEF u, sq
  <2>2. sq # <<>>
    BY <1>3, <1>4
  <2>3. sq # <<u>>
    BY <1>3, <1>4, <2>1
  <2> QED BY <1>1, <2>2, <2>3, QuietQueues DEF u, sq
<1>6. i = 1 /\ sq[i] = w
  <2> HIDE DEF sq, w
  <2> QED BY <1>3, <1>4, <1>5
<1>7. h \in QpIds /\ h <= NPlanes
  BY <1>1, HomeQpType
<1>8. qps["S"][q].dest = h
  BY <1>1, <1>5, <1>7, QuietQueues
<1>9. AsksAt("R", m) /\ qps["R"][h].rq = <<w>>
  <2>1. qps["R"][h].rq # <<>>
    BY <1>2, <1>5, <1>8
  <2> QED BY <1>1, <1>7, <2>1, QuietQueues
<1>10. w.step = k /\ w.probe = FALSE /\ Head(<<w>>) = w /\ Tail(<<w>>) = <<>>
  BY <1>4, DataFields
<1> HIDE DEF h, w, c, v
<1>11. /\ qps'["S"] = [qps["S"] EXCEPT ![h].sq[1].sent = TRUE]
       /\ qps'["R"] = [qps["R"] EXCEPT ![h].rq = <<>>, ![h].cq = Append(@, c)]
       /\ nccl' = [nccl EXCEPT !.buf[k] = k]
       /\ UNCHANGED <<table, slots, net, mon, pc, req, nextSeq, journal, spent>>
  <2> DEFINE d == qps["S"][q].dest
             a == sq[i]
             b == Head(qps["R"][d].rq)
             x == Completion(b, TRUE)
  <2>1. /\ qps' = [qps EXCEPT !["S"][q].sq[i].sent = TRUE,
                              !["R"][d].rq = Tail(@),
                              !["R"][d].cq = Append(@, x)]
        /\ nccl' = IF b.probe THEN nccl ELSE [nccl EXCEPT !.buf[b.step] = a.step]
        /\ UNCHANGED <<table, slots, net, mon, pc, req, nextSeq, journal, spent>>
    BY <1>2
  <2>2. q = h /\ d = h
    BY <1>5, <1>8
  <2>3. b = w
    BY <1>9, <1>10, <2>2
  <2>4. x = c
    BY <2>3 DEF c, w
  <2>5. a = w /\ i = 1
    BY <1>6
  <2> HIDE DEF d, a, b, x
  <2>6. /\ qps'["S"] = [qps["S"] EXCEPT ![q].sq[i].sent = TRUE]
        /\ qps'["R"] = [qps["R"] EXCEPT ![d].rq = Tail(@), ![d].cq = Append(@, x)]
    BY <1>1, <2>1 DEF TypeOK
  <2>7. nccl' = [nccl EXCEPT !.buf[k] = k]
    BY <1>10, <2>1, <2>3, <2>5
  <2>8. qps'["S"] = [qps["S"] EXCEPT ![h].sq[1].sent = TRUE]
    BY <2>2, <2>5, <2>6
  <2>9. qps'["R"] = [qps["R"] EXCEPT ![h].rq = Tail(qps["R"][h].rq), ![h].cq = Append(@, c)]
    BY <2>2, <2>4, <2>6
  <2>10. Tail(qps["R"][h].rq) = <<>>
    BY <1>9, <1>10
  <2> QED BY <2>1, <2>7, <2>8, <2>9, <2>10
<1>12. qps'["S"] = QpsAt(k, SentQp(k))
  <2>1. qps["S"] = QpsAt(k, AskingQp("S", k))
    BY <1>5 DEF AsksAt
  <2>2. qps["S"][h] = AskingQp("S", k)
    BY <1>1, <2>1, HomeQpType DEF h
  <2>3. AskingQp("S", k) = QpWith(h, <<w>>, <<>>, <<>>)
    BY DEF AskingQp, h, w
  <2>4. SentQp(k) = QpWith(h, <<v>>, <<>>, <<>>) /\ v = [w EXCEPT !.sent = TRUE]
    BY DEF SentQp, h, v, w
  <2>5. [qps["S"][h] EXCEPT !.sq = <<v>>] = SentQp(k)
    <3> DEFINE z == qps["S"][h]
               x == <<v>>
               y == <<w>>
    <3>1. z = QpWith(h, y, <<>>, <<>>)
      BY <2>2, <2>3
    <3> HIDE DEF z, x, y
    <3>2. [z EXCEPT !.sq = x] = QpWith(h, x, <<>>, <<>>)
      BY <3>1, SqUpdate
    <3> QED BY <2>4, <3>2 DEF z, x
  <2>6. qps'["S"] = [qps["S"] EXCEPT ![h].sq[1].sent = TRUE]
    BY <1>11
  <2>7. qps'["S"] = [qps["S"] EXCEPT ![h] = [qps["S"][h] EXCEPT !.sq = <<v>>]]
    <3> DEFINE f == qps["S"]
               a == f[h].sq
    <3>1. a = <<w>>
      BY <1>5
    <3>2. qps'["S"] = [f EXCEPT ![h] = [f[h] EXCEPT !.sq =
                          [a EXCEPT ![1] = [a[1] EXCEPT !.sent = TRUE]]]]
      BY <2>6
    <3> HIDE DEF a
    <3>3. [a EXCEPT ![1] = v] = <<v>>
      BY <3>1, OneEntry
    <3>4. a[1] = w
      BY <3>1
    <3> QED BY <2>4, <3>2, <3>3, <3>4 DEF f
  <2>8. qps'["S"] = [qps["S"] EXCEPT ![h] = SentQp(k)]
    BY <2>5, <2>7
  <2> QED BY <1>7, <2>1, <2>8 DEF QpsAt, h
<1>13. qps'["R"] = QpsAt(k, CompletedQp(k))
  <2>1. qps["R"] = QpsAt(k, AskingQp("R", k))
    BY <1>9 DEF AsksAt
  <2>2. qps["R"][h] = AskingQp("R", k)
    BY <1>1, <2>1, HomeQpType DEF h
  <2>3. AskingQp("R", k) = QpWith(h, <<>>, <<w>>, <<>>) /\ AskingQp("R", k).cq = <<>>
    BY <1>1, QuietQpFields DEF AskingQp, h, w
  <2>4. Append(<<>>, c) = <<c>>
    OBVIOUS
  <2>5. [qps["R"][h] EXCEPT !.rq = <<>>, !.cq = <<c>>] = CompletedQp(k)
    <3> DEFINE z == qps["R"][h]
               x == <<c>>
               y == <<w>>
               n == <<>>
    <3>1. z = QpWith(h, n, y, n)
      BY <2>2, <2>3
    <3>2. CompletedQp(k) = QpWith(h, n, n, x)
      BY DEF CompletedQp, h, c
    <3> HIDE DEF z, x, y, n
    <3> DEFINE u == [z EXCEPT !.rq = n]
    <3>3. [z EXCEPT !.rq = n, !.cq = x] = [u EXCEPT !.cq = x]
      OBVIOUS
    <3>4. u = QpWith(h, n, n, n)
      BY <3>1, RqUpdate
    <3> HIDE DEF u
    <3>5. [u EXCEPT !.cq = x] = QpWith(h, n, n, x)
      BY <3>4, CqUpdate
    <3> QED BY <3>2, <3>3, <3>5 DEF z, x, n
  <2>6. qps'["R"] = [qps["R"] EXCEPT ![h].rq = <<>>, ![h].cq = Append(@, c)]
    BY <1>11
  <2>7. qps'["R"] = [qps["R"] EXCEPT ![h] = [qps["R"][h] EXCEPT !.rq = <<>>, !.cq = <<c>>]]
    BY <2>2, <2>3, <2>4, <2>6
  <2>8. qps'["R"] = [qps["R"] EXCEPT ![h] = CompletedQp(k)]
    BY <2>5, <2>7
  <2> QED BY <1>7, <2>1, <2>8 DEF QpsAt, h
<1>14. k \in Steps
  BY <1>1, <1>5, StateTypes DEF AsksAt, Requests, Steps
<1>15. nccl'.posted = nccl.posted /\ nccl'.done = nccl.done
       /\ \A j \in Steps : nccl'.buf[j] = IF j = k THEN k ELSE nccl.buf[j]
  BY <1>11, <1>14 DEF TypeOK, Progresses
<1>16. Undisturbed' /\ \A t \in Sides : Counted(t)'
  BY <1>11, <1>15 DEF Undisturbed, Counted
<1>17. InStep(k)'
  <2>1. MovedAt("S", k)'
    BY <1>5, <1>11, <1>12 DEF MovedAt, AsksAt
  <2>2. MovedAt("R", k)'
    BY <1>9, <1>11, <1>13 DEF MovedAt, AsksAt
  <2>3. \A j \in Steps : j <= k => nccl'.buf[j] = j
    BY <1>15 DEF InStep, Steps
  <2> QED BY <2>1, <2>2, <2>3 DEF InStep, Sides
<1> QED BY <1>1, <1>16, <1>17 DEF QuietInv

\* The sender's queue pair learns that its message has arrived.
LEMMA QuietAcknowledge ==
    ASSUME TypeOK, Undisturbed, \A t \in Sides : Counted(t), NEW m \in Nat, InStep(m),
           NEW q \in QpIds, Acknowledge(q)
    PROVE  QuietInv'
<1> DEFINE h == HomeQp(m)
           v == [DataRequest(m, 1) EXCEPT !.sent = TRUE]
           c == Completion(DataRequest(m, 1), TRUE)
<1>1. "S" \in Sides
  BY SidesAndPlanes
<1>2. qps["S"][q].sq # <<>> /\ Head(qps["S"][q].sq).sent
  BY DEF Acknowledge
<1>3. MovedAt("S", m) /\ q = h /\ qps["S"] = QpsAt(m, SentQp(m)) /\ qps["S"][q].sq = <<v>>
  <2>1. DataRequest(m + 1, 1).sent = FALSE
    BY DataFields
  <2>2. \A y : Head(<<y>>) = y
    OBVIOUS
  <2>3. qps["S"][q].sq # <<DataRequest(m + 1, 1)>>
    BY <1>2, <2>1, <2>2
  <2> QED BY <1>1, <1>2, <2>3, QuietQueues
<1>4. h \in QpIds /\ qps["S"][h] = SentQp(m)
  BY <1>3, HomeQpType
<1>5. Completion(v, TRUE) = c
  BY DataFields
<1>6. SentQp(m) = QpWith(h, <<v>>, <<>>, <<>>) /\ SentQp(m).cq = <<>>
  BY <1>1, QuietQpFields DEF SentQp
<1>7. [qps["S"][h] EXCEPT !.sq = <<>>, !.cq = <<c>>] = CompletedQp(m)
  <2> DEFINE z == qps["S"][h]
             x == <<c>>
             y == <<v>>
             n == <<>>
  <2>1. z = QpWith(h, y, n, n) /\ CompletedQp(m) = QpWith(h, n, n, x)
    BY <1>4, <1>6 DEF CompletedQp
  <2> HIDE DEF z, x, y, n
  <2> DEFINE u == [z EXCEPT !.sq = n]
  <2>2. [z EXCEPT !.sq = n, !.cq = x] = [u EXCEPT !.cq = x]
    OBVIOUS
  <2>3. u = QpWith(h, n, n, n)
    BY <2>1, SqUpdate
  <2> HIDE DEF u
  <2>4. [u EXCEPT !.cq = x] = QpWith(h, n, n, x)
    BY <2>3, CqUpdate
  <2> QED BY <2>1, <2>2, <2>4 DEF z, x, n
<1> HIDE DEF h, v, c
<1>8. Head(<<v>>) = v /\ Tail(<<v>>) = <<>> /\ Append(<<>>, c) = <<c>>
  OBVIOUS
<1>9. qps' = [qps EXCEPT !["S"][h].sq = <<>>, !["S"][h].cq = Append(@, c)]
  BY <1>3, <1>5, <1>8 DEF Acknowledge
<1>10. qps'["S"] = [qps["S"] EXCEPT ![h].sq = <<>>, ![h].cq = Append(@, c)]
  BY <1>1, <1>9 DEF TypeOK
<1>11. qps'["S"] = [qps["S"] EXCEPT ![h] = [qps["S"][h] EXCEPT !.sq = <<>>, !.cq = <<c>>]]
  BY <1>4, <1>6, <1>8, <1>10
<1>12. qps'["S"] = [qps["S"] EXCEPT ![h] = CompletedQp(m)]
  BY <1>7, <1>11
<1>13. qps'["S"] = QpsAt(m, CompletedQp(m))
  BY <1>3, <1>4, <1>12 DEF QpsAt, h
<1>14. \A t \in Sides : t # "S" => qps'[t] = qps[t]
  BY <1>9 DEF TypeOK
<1>15. UNCHANGED <<table, slots, net, mon, pc, req, nextSeq, nccl>>
  BY DEF Acknowledge
<1>16. Undisturbed' /\ \A t \in Sides : Counted(t)'
  BY <1>15 DEF Undisturbed, Counted
<1>17. InStep(m)'
  <2>1. MovedAt("S", m)'
    BY <1>3, <1>13, <1>15 DEF MovedAt
  <2>2. ASSUME NEW t \in Sides, t # "S"
        PROVE  (RestsAt(t, m) \/ MovedAt(t, m) \/ AsksAt(t, m))'
    BY <1>14, <1>15, <2>2, QuietOther DEF InStep
  <2> QED BY <1>15, <2>1, <2>2 DEF InStep
<1> QED BY <1>16, <1>17 DEF QuietInv

\* A completion that is polled finishes the request it belongs to.
LEMMA QuietPoll ==
    ASSUME TypeOK, Undisturbed, NEW s \in Sides, \A t \in Sides : Counted(t),
           NEW m \in Nat, InStep(m), NEW p \in Planes, PollSuccess(s, p, FirstEndpoint(p))
    PROVE  QuietInv'
<1> DEFINE e == FirstEndpoint(p)
           h == HomeQp(m)
           c == Completion(DataRequest(m, 1), TRUE)
           r == [req[s] EXCEPT !.state = "Done"]
<1>1. e.qp \in QpIds
  BY DpfrCommAssumption DEF FirstEndpoint, Planes, QpIds
<1>2. qps[s][e.qp].cq # <<>>
  BY DEF PollSuccess, HasCompletion
<1>3. MovedAt(s, m) /\ e.qp = h /\ qps[s] = QpsAt(m, CompletedQp(m)) /\ qps[s][h].cq = <<c>>
  <2> DEFINE q == e.qp
  <2>1. q \in QpIds /\ qps[s][q].cq # <<>>
    BY <1>1, <1>2
  <2> HIDE DEF q, h, c
  <2>2. /\ MovedAt(s, m) /\ q = HomeQp(m) /\ qps[s] = QpsAt(m, CompletedQp(m))
        /\ qps[s][q].cq = <<Completion(DataRequest(m, 1), TRUE)>>
    BY <2>1, QuietCompletion
  <2> QED BY <2>2 DEF q, h, c
<1>4. h \in QpIds /\ h <= NPlanes /\ qps[s][h] = CompletedQp(m)
  BY <1>3, HomeQpType
<1>5. /\ Install(s, p, DropUnusedRetired(slots[s][p], p, r), Popped(s, e))
      /\ req' = [req EXCEPT ![s] = r]
      /\ UNCHANGED <<table, net, mon, nextSeq, nccl>>
  BY DEF PollSuccess
<1>6. r.state = "Done" /\ r.step = req[s].step
  BY StateTypes DEF Requests
<1> HIDE DEF r
<1>7. slots' = slots
  <2>1. DropUnusedRetired(slots[s][p], p, r) = slots[s][p]
    BY FaultlessSlots
  <2> QED BY <1>5, <2>1 DEF Install, TypeOK
<1>8. CompletedQp(m) = QpWith(h, <<>>, <<>>, <<c>>)
  BY DEF CompletedQp
<1>9. [qps[s][h] EXCEPT !.cq = <<>>] = QpWith(h, <<>>, <<>>, <<>>)
  <2> DEFINE z == qps[s][h]
             x == <<c>>
             n == <<>>
  <2>1. z = QpWith(h, n, n, x)
    BY <1>4, <1>8
  <2> HIDE DEF z, x, n
  <2>2. [z EXCEPT !.cq = n] = QpWith(h, n, n, n)
    BY <2>1, CqUpdate
  <2> QED BY <2>2 DEF z, n
<1> HIDE DEF e, h, c
<1>10. Popped(s, e) = IdleQps
  <2>1. Tail(<<c>>) = <<>>
    OBVIOUS
  <2>2. Popped(s, e) = [qps[s] EXCEPT ![h] = [qps[s][h] EXCEPT !.cq = <<>>]]
    BY <1>3, <2>1 DEF Popped
  <2>3. Popped(s, e) = [qps[s] EXCEPT ![h] = QpWith(h, <<>>, <<>>, <<>>)]
    BY <1>9, <2>2
  <2>4. IdleQps[h] = QpWith(h, <<>>, <<>>, <<>>)
    BY <1>4 DEF IdleQps
  <2>5. [IdleQps EXCEPT ![h] = IdleQps[h]] = IdleQps
    BY DEF IdleQps
  <2>6. Popped(s, e) = [QpsAt(m, CompletedQp(m)) EXCEPT ![h] = IdleQps[h]]
    BY <1>3, <2>3, <2>4
  <2>7. Popped(s, e) = [IdleQps EXCEPT ![h] = IdleQps[h]]
    BY <2>6 DEF QpsAt, h, IdleQps
  <2> QED BY <2>5, <2>7
<1>11. qps'[s] = IdleQps /\ \A t \in Sides : t # s => qps'[t] = qps[t]
  <2>1. LiveQps(slots'[s]) = 1 .. NPlanes
    BY <1>7, FaultlessSlots
  <2>2. qps' = [qps EXCEPT ![s] =
                   [i \in QpIds |-> IF i \in 1 .. NPlanes THEN IdleQps[i] ELSE NullQp]]
    BY <1>5, <1>10, <2>1 DEF Install
  <2>3. \A i \in QpIds : i \notin 1 .. NPlanes => IdleQps[i] = NullQp
    <3> TAKE i \in QpIds
    <3> HAVE i \notin 1 .. NPlanes
    <3>1. DestOf(i) = 0
      BY DpfrCommAssumption DEF DestOf, QpIds
    <3>2. QpWith(i, <<>>, <<>>, <<>>) = NullQp
      BY <3>1 DEF QpWith, NullQp
    <3> QED BY <3>2 DEF IdleQps
  <2>4. [i \in QpIds |-> IF i \in 1 .. NPlanes THEN IdleQps[i] ELSE NullQp] = IdleQps
    BY <2>3 DEF IdleQps
  <2> QED BY <2>2, <2>4 DEF TypeOK
<1>12. req'[s] = r /\ \A t \in Sides : t # s => req'[t] = req[t]
  BY <1>5 DEF TypeOK
<1>13. Undisturbed'
  <2>1. \A t \in Sides : pc'[t].ph \in {"idle", "cqs"}
    BY DEF PollSuccess, PollAt, GotoOn, TypeOK, Undisturbed
  <2> QED BY <1>5, <1>7, <2>1 DEF Undisturbed
<1>14. \A t \in Sides : Counted(t)'
  BY <1>5, <1>6, <1>12 DEF Counted
<1>15. InStep(m)'
  <2>1. RestsAt(s, m)'
    BY <1>3, <1>6, <1>11, <1>12 DEF RestsAt, MovedAt
  <2>2. ASSUME NEW t \in Sides, t # s
        PROVE  (RestsAt(t, m) \/ MovedAt(t, m) \/ AsksAt(t, m))'
    BY <1>11, <1>12, <2>2, QuietOther DEF InStep
  <2> QED BY <1>5, <2>1, <2>2 DEF InStep
<1> QED BY <1>13, <1>14, <1>15 DEF QuietInv

LEMMA InitQuiet == Init => QuietInv
<1> SUFFICES ASSUME Init PROVE QuietInv
  OBVIOUS
<1>1. Undisturbed
  BY DEF Init, Undisturbed, FirstSlot, FirstEndpoint, At
<1>2. \A s \in Sides : Counted(s)
  BY DEF Init, Counted
<1>3. \A s \in Sides : qps[s] = IdleQps
  <2> DEFINE first(q) == IF q <= NPlanes THEN [NullQp EXCEPT !.dest = q] ELSE NullQp
  <2>1. \A q : first(q) = QpWith(q, <<>>, <<>>, <<>>)
    <3> TAKE q
    <3>1. CASE q <= NPlanes
      <4>1. DestOf(q) = q
        BY <3>1 DEF DestOf
      <4>2. [NullQp EXCEPT !.dest = q] = QpWith(q, <<>>, <<>>, <<>>)
        <5> DEFINE n == <<>>
                   b == FALSE
                   z == [dest |-> 0, sq |-> n, rq |-> n, cq |-> n, err |-> b]
        <5>1. NullQp = z
          BY DEF NullQp
        <5>2. QpWith(q, <<>>, <<>>, <<>>) = [dest |-> q, sq |-> n, rq |-> n, cq |-> n, err |-> b]
          BY <4>1 DEF QpWith
        <5> HIDE DEF n, b
        <5>3. \A x : x = z => [x EXCEPT !.dest = q]
                                 = [dest |-> q, sq |-> n, rq |-> n, cq |-> n, err |-> b]
          OBVIOUS
        <5> HIDE DEF z
        <5>4. [z EXCEPT !.dest = q] = [dest |-> q, sq |-> n, rq |-> n, cq |-> n, err |-> b]
          BY <5>3
        <5> QED BY <5>1, <5>2, <5>4
      <4> QED BY <3>1, <4>2
    <3>2. CASE ~(q <= NPlanes)
      <4>1. DestOf(q) = 0
        BY <3>2 DEF DestOf
      <4>2. NullQp = QpWith(q, <<>>, <<>>, <<>>)
        BY <4>1 DEF NullQp, QpWith
      <4> QED BY <3>2, <4>2
    <3> QED BY <3>1, <3>2
  <2>2. qps = [s \in Sides |-> [q \in QpIds |-> first(q)]]
    BY DEF Init
  <2> HIDE DEF first
  <2> QED BY <2>1, <2>2 DEF IdleQps
<1>4. \A s \in Sides : RestsAt(s, 0)
  BY <1>3 DEF Init, RestsAt
<1>5. InStep(0) /\ 0 \in Nat
  BY <1>4 DEF InStep, Steps
<1> QED BY <1>1, <1>2, <1>5 DEF QuietInv

LEMMA NextQuiet ==
    ASSUME MaxEvents = 0, MaxFaults = 0, TypeOK, QuietInv, [Next]_vars
    PROVE  QuietInv'
<1>1. CASE Next
  <2>1. PICK m \in Nat : InStep(m)
    BY DEF QuietInv
  <2>2. Undisturbed /\ \A s \in Sides : Counted(s)
    BY DEF QuietInv
  <2>3. ASSUME NEW s \in Sides, Return(s) PROVE QuietInv'
    <3>1. \A t \in Sides : pc'[t].ph \in {"idle", "cqs"}
      BY <2>2, <2>3 DEF Return, Goto, At, TypeOK, Undisturbed
    <3>2. Undisturbed'
      BY <2>2, <2>3, <3>1 DEF Return, Undisturbed
    <3>3. (\A t \in Sides : Counted(t)') /\ InStep(m)'
      BY <2>1, <2>2, <2>3 DEF Return, Counted, InStep, RestsAt, MovedAt, AsksAt
    <3> QED BY <2>1, <3>2, <3>3 DEF QuietInv
  <2> QED BY <1>1, <2>1, <2>2, <2>3, QuietSteps, QuietPost, QuietTest, QuietDeliver,
             QuietAcknowledge, QuietPoll
<1>2. CASE UNCHANGED vars
  BY <1>2 DEF vars, QuietInv, Undisturbed, Counted, InStep, RestsAt, MovedAt, AsksAt
<1> QED BY <1>1, <1>2

\* What R has reported done has moved.
LEMMA QuietData ==
    ASSUME TypeOK, QuietInv
    PROVE  DataCorrect
<1>1. PICK m \in Nat : InStep(m)
  BY DEF QuietInv
<1>2. "R" \in Sides
  BY SidesAndPlanes
<1>3. /\ nccl.done["R"] \in Nat /\ req["R"].step = nccl.posted["R"]
      /\ nccl.done["R"] <= nccl.posted["R"]
      /\ req["R"].state = "Posted" => nccl.done["R"] < nccl.posted["R"]
  BY <1>2, StateTypes DEF QuietInv, Counted
<1>4. nccl.done["R"] <= m
  BY <1>1, <1>2, <1>3 DEF InStep, RestsAt, MovedAt, AsksAt
<1> QED BY <1>1, <1>3, <1>4 DEF DataCorrect, InStep, Steps

(* Without reports and faults every message arrives in the buffer of the   *)
(* receive it belongs to, whatever the number of planes, of operations     *)
(* under way and of messages: both sides post request k on the queue pair  *)
(* of plane k mod n, where nothing else waits.  With faults it does not    *)
(* hold.                                                                   *)
THEOREM QuietDataCorrect ==
    ASSUME MaxEvents = 0, MaxFaults = 0
    PROVE  Spec => []DataCorrect
<1>1. TypeOK /\ QuietInv /\ [Next]_vars => QuietInv'
  BY NextQuiet
<1>2. TypeOK /\ QuietInv => DataCorrect
  BY QuietData
<1> QED BY <1>1, <1>2, InitQuiet, ConnectionTypes, PTL DEF Spec
=============================================================================
