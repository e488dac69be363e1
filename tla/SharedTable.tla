----------------------------- MODULE SharedTable -----------------------------
(***************************************************************************)
(* Several connections between two processes that share one plane table    *)
(* each (DpfrContext), for one plane.  A monitor's report reaches every    *)
(* connection of its process, one after the other; a completion error, a   *)
(* peer's event and the recovery handshake reach the shared table but only *)
(* the one connection they arrived on.  One thread per process, NCCL's     *)
(* progress thread, drives all its connections and, while a handshake of   *)
(* one waits for an answer, reads that one's messages only.                *)
(*                                                                         *)
(* The queue pairs are those of QpSlot; requests are left out, so a        *)
(* retired queue pair is freed at once and every queue pair has one name.  *)
(* A handshake's wait has no time limit here (10 s in the code), so a wait *)
(* that never ends stands for the error the code returns after it.  The    *)
(* probe of a shadow is its delivery: it fails if the peer's shadow is     *)
(* gone.  MaxReports bounds the monitors' reports, MaxFailures completion  *)
(* errors and requests refused for a port not ready together.              *)
(***************************************************************************)
EXTENDS QpSlot, Sequences

CONSTANTS
    Conns,      \* the connections
    SenderOf,   \* SenderOf[k]: the process that made connection k and sends on it
    Reporters,  \* the processes whose monitors report
    OnlyProbes, \* reports come from the probe, which says "up" of a broken plane only
    MaxReports, MaxFailures

Procs == {"P", "Q"}

Other(p) == IF p = "P" THEN "Q" ELSE "P"

Receiver(k) == Other(SenderOf[k])

ASSUME SharedAssumption ==
    /\ SenderOf \in [Conns -> Procs] /\ Reporters \subseteq Procs /\ OnlyProbes \in BOOLEAN
    /\ {MaxReports, MaxFailures} \subseteq Nat

VARIABLES
    entry,      \* entry[p]: the plane in the table of process p
    slot,       \* slot[k][p]: the slot of connection k at process p
    chan,       \* chan[k][p]: control messages of k on their way to p
    pc,         \* pc[p]: where the progress thread of p is
    mon,        \* mon[p]: the report p's monitor is passing on
    spent

vars == <<entry, slot, chan, pc, mon, spent>>

Qp == 1

NoConn == "none"

Looping == [at |-> "loop", conn |-> NoConn, gen |-> 0]

Silent == [todo |-> {}, telling |-> NoConn, gen |-> 0, up |-> FALSE]

\* A message: an event, or one of the handshake's four.
Msg(kind, g, ok) == [kind |-> kind, gen |-> g, ok |-> ok]

Msgs == [kind : {"event", "req", "resp", "ready", "ack"}, gen : Nat, ok : BOOLEAN]

TypeOK ==
    /\ entry \in [Procs -> PlaneEntry]
    /\ slot \in [Conns -> [Procs -> Slots({Qp})]]
    /\ \A k \in Conns, p \in Procs : \A i \in DOMAIN chan[k][p] : chan[k][p][i] \in Msgs
    /\ pc \in [Procs -> [at : {"loop", "resp", "ack", "commit", "mark"},
                         conn : Conns \cup {NoConn}, gen : Nat]]
    /\ mon \in [Procs -> [todo : SUBSET Conns, telling : Conns \cup {NoConn},
                          gen : Nat, up : BOOLEAN]]
    /\ spent.reports \in 0 .. MaxReports /\ spent.failures \in 0 .. MaxFailures

FirstSlot ==
    [state |-> "Active", active |-> [qp |-> Qp, gen |-> 1, ready |-> TRUE],
     shadow |-> NoEndpoint, retired |-> {}, probe |-> FreshProbe(0)]

Init ==
    /\ entry = [p \in Procs |-> InitialEntry]
    /\ slot = [k \in Conns |-> [p \in Procs |-> FirstSlot]]
    /\ chan = [k \in Conns |-> [p \in Procs |-> <<>>]]
    /\ pc = [p \in Procs |-> Looping]
    /\ mon = [p \in Procs |-> Silent]
    /\ spent = [reports |-> 0, failures |-> 0]

-----------------------------------------------------------------------------
Send(k, p, m) == chan' = [chan EXCEPT ![k][Other(p)] = Append(@, m)]

Receive(k, p) == chan' = [chan EXCEPT ![k][p] = Tail(@)]

Reply(k, p, m) ==
    chan' = [chan EXCEPT ![k][p] = Tail(@), ![k][Other(p)] = Append(@, m)]

SetSlot(k, p, s) == slot' = [slot EXCEPT ![k][p] = s]

Goto(p, at, k, g) == pc' = [pc EXCEPT ![p] = [at |-> at, conn |-> k, gen |-> g]]

Mark(e, up) == IF up THEN MarkRecovering(e) ELSE MarkBroken(e)

Freed(s) == [s EXCEPT !.retired = {}]

\* The next message of connection k for p, if p's thread would handle it: it
\* reads any connection between two handshakes, else the handshake's own.
Arrived(k, p, kind) ==
    /\ pc[p].at = "loop" \/ (pc[p].at \in {"resp", "ack"} /\ pc[p].conn = k)
    /\ chan[k][p] # <<>> /\ Head(chan[k][p]).kind = kind

\* The answer the handshake of k at p waits for.
Answered(k, p, kind, ok) ==
    /\ pc[p].at = kind /\ pc[p].conn = k
    /\ Arrived(k, p, kind)
    /\ Head(chan[k][p]).gen = pc[p].gen /\ Head(chan[k][p]).ok = ok

-----------------------------------------------------------------------------
\* applyPlaneEvent: the table first, then each connection (under its mutex,
\* which a handshake in it holds throughout) and its peer.
Report(p, up) ==
    /\ p \in Reporters /\ spent.reports < MaxReports
    /\ (OnlyProbes /\ up) => entry[p].health = "Broken"
    /\ mon[p].todo = {} /\ mon[p].telling = NoConn
    /\ entry' = [entry EXCEPT ![p] = Mark(@, up)]
    /\ mon' = [mon EXCEPT ![p] =
                 [todo |-> Conns, telling |-> NoConn, gen |-> entry'[p].gen, up |-> up]]
    /\ spent' = [spent EXCEPT !.reports = @ + 1]
    /\ UNCHANGED <<slot, chan, pc>>

OnReport(p, k) ==
    /\ k \in mon[p].todo /\ mon[p].telling = NoConn
    /\ pc[p].conn # k
    /\ SetSlot(k, p, IF mon[p].up THEN OnRecovering(slot[k][p], mon[p].gen)
                     ELSE OnBroken(slot[k][p], mon[p].gen))
    /\ mon' = [mon EXCEPT ![p].todo = @ \ {k}, ![p].telling = k]
    /\ UNCHANGED <<entry, chan, pc, spent>>

TellPeer(p, k) ==
    /\ mon[p].telling = k
    /\ Send(k, p, Msg("event", mon[p].gen, mon[p].up))
    /\ mon' = [mon EXCEPT ![p].telling = NoConn]
    /\ UNCHANGED <<entry, slot, pc, spent>>

\* A completion error of an active queue pair: it is taken for the plane's
\* whatever generation the plane has reached (currentActiveQp compares the
\* queue pair with its slot), and only connection k and its peer are told.
CqError(p, k) ==
    LET e == MarkBroken(entry[p])
    IN /\ spent.failures < MaxFailures /\ pc[p].at = "loop"
       /\ slot[k][p].state = "Active" /\ slot[k][p].active.qp # NoQp
       /\ entry' = [entry EXCEPT ![p] = e]
       /\ SetSlot(k, p, OnFailure(slot[k][p]))
       /\ Send(k, p, Msg("event", e.gen, FALSE))
       /\ spent' = [spent EXCEPT !.failures = @ + 1]
       /\ UNCHANGED <<pc, mon>>

\* A peer's event; one the table already has from another connection leaves
\* the slots of this connection as they are.
RecvEvent(p, k) ==
    LET m == Head(chan[k][p])
        e == ApplyRemoteEvent(entry[p], m.gen, IF m.ok THEN "Recovering" ELSE "Broken")
    IN /\ Arrived(k, p, "event") /\ Receive(k, p)
       /\ entry' = [entry EXCEPT ![p] = e]
       /\ IF RemoteEventApplies(entry[p], m.gen)
          THEN SetSlot(k, p, IF m.ok THEN OnRecovering(slot[k][p], e.gen)
                             ELSE OnFailure(slot[k][p]))
          ELSE UNCHANGED slot
       /\ UNCHANGED <<pc, mon, spent>>

-----------------------------------------------------------------------------
\* The sender of k has to rebuild its slot: also for a plane that is healthy
\* because another connection has recovered it.
NeedsRecovery(k) ==
    LET p == SenderOf[k]
    IN AllowsQpRecovery(entry[p]) /\ ~SlotAtGeneration(slot[k][p], entry[p].gen)

\* Mutant: a plane another connection has readmitted is not recovered again.
RecoverStart_mutant(k) ==
    LET p == SenderOf[k]
        g == entry[p].gen
    IN /\ pc[p].at = "loop" /\ NeedsRecovery(k) /\ entry[p].health = "Recovering"
       /\ SetSlot(k, p, EnsureShadow(slot[k][p], g, Qp))
       /\ Send(k, p, Msg("req", g, TRUE))
       /\ Goto(p, "resp", k, g)
       /\ UNCHANGED <<entry, mon, spent>>

RecoverStart(k) ==
    LET p == SenderOf[k]
        g == entry[p].gen
    IN /\ pc[p].at = "loop" /\ NeedsRecovery(k)
       /\ SetSlot(k, p, EnsureShadow(slot[k][p], g, Qp))
       /\ Send(k, p, Msg("req", g, TRUE))
       /\ Goto(p, "resp", k, g)
       /\ UNCHANGED <<entry, mon, spent>>

\* handleRecoveryReq: learn the recovery, build and connect a shadow, answer.
RecvReq(k, portReady) ==
    LET p == Receiver(k)
        g == Head(chan[k][p]).gen
        e == ApplyRemoteEvent(entry[p], g, "Recovering")
        idle == IF slot[k][p].shadow.qp # NoQp THEN AbortRecovery(slot[k][p]) ELSE slot[k][p]
        usable == e.gen = g /\ AllowsQpRecovery(e)
    IN /\ Arrived(k, p, "req")
       /\ entry' = [entry EXCEPT ![p] = e]
       /\ Reply(k, p, Msg("resp", g, usable /\ portReady))
       /\ IF ~usable THEN UNCHANGED slot
          ELSE SetSlot(k, p, IF portReady THEN ConnectShadow(EnsureShadow(idle, g, Qp), g)
                             ELSE idle)
       /\ IF usable /\ ~portReady
          THEN spent.failures < MaxFailures /\ spent' = [spent EXCEPT !.failures = @ + 1]
          ELSE UNCHANGED spent
       /\ UNCHANGED <<pc, mon>>

\* A retry answer, or a probe that fails, ends the attempt.
GiveUp(k) ==
    LET p == SenderOf[k]
    IN /\ \/ Answered(k, p, "resp", FALSE)
          \/ Answered(k, p, "ack", FALSE)
          \/ Answered(k, p, "resp", TRUE) /\ slot[k][Receiver(k)].shadow.qp = NoQp
       /\ Receive(k, p)
       /\ SetSlot(k, p, AbortRecovery(slot[k][p]))
       /\ pc' = [pc EXCEPT ![p] = Looping]
       /\ UNCHANGED <<entry, mon, spent>>

\* The sender connects its shadow, the probe reaches the peer's, and Ready
\* follows it.
RecvResp(k) ==
    LET p == SenderOf[k]
        q == Receiver(k)
        g == pc[p].gen
    IN /\ Answered(k, p, "resp", TRUE) /\ slot[k][q].shadow.qp # NoQp
       /\ slot' = [slot EXCEPT ![k][p] = RecordProbe(ConnectShadow(@, g), "send", g, TRUE),
                               ![k][q] = RecordProbe(@, "recv", g, TRUE)]
       /\ Reply(k, p, Msg("ready", g, TRUE))
       /\ Goto(p, "ack", k, g)
       /\ UNCHANGED <<entry, mon, spent>>

StaleReady(k, g) ==
    LET p == Receiver(k)
    IN ~AllowsQpRecovery(entry[p]) \/ entry[p].gen # g \/ slot[k][p].shadow.gen # g

\* Mutant: a refusal reads as an agreement.
RefuseReady_mutant(k) ==
    LET p == Receiver(k)
        g == Head(chan[k][p]).gen
    IN /\ Arrived(k, p, "ready")
       /\ \/ StaleReady(k, g) /\ UNCHANGED slot
          \/ /\ ~StaleReady(k, g) /\ ~CanCommit(slot[k][p], g)
             /\ SetSlot(k, p, AbortRecovery(slot[k][p]))
       /\ Reply(k, p, Msg("ack", g, TRUE))
       /\ UNCHANGED <<entry, pc, mon, spent>>

\* handleRecoveryReady: refuse a stale generation or a lost probe.
RefuseReady(k) ==
    LET p == Receiver(k)
        g == Head(chan[k][p]).gen
    IN /\ Arrived(k, p, "ready")
       /\ \/ StaleReady(k, g) /\ UNCHANGED slot
          \/ /\ ~StaleReady(k, g) /\ ~CanCommit(slot[k][p], g)
             /\ SetSlot(k, p, AbortRecovery(slot[k][p]))
       /\ Reply(k, p, Msg("ack", g, FALSE))
       /\ UNCHANGED <<entry, pc, mon, spent>>

\* Otherwise commit the shadow; the table is looked at again after that.
RecvReady(k) ==
    LET p == Receiver(k)
        g == Head(chan[k][p]).gen
    IN /\ Arrived(k, p, "ready") /\ ~StaleReady(k, g) /\ CanCommit(slot[k][p], g)
       /\ Receive(k, p)
       /\ SetSlot(k, p, Freed(CommitShadow(slot[k][p])))
       /\ Goto(p, "mark", k, g)
       /\ UNCHANGED <<entry, mon, spent>>

RecvAck(k) ==
    LET p == SenderOf[k]
        g == pc[p].gen
        current == AllowsQpRecovery(entry[p]) /\ entry[p].gen = g
    IN /\ Answered(k, p, "ack", TRUE) /\ Receive(k, p)
       /\ IF current
          THEN Goto(p, "mark", k, g) /\ SetSlot(k, p, Freed(CommitShadow(slot[k][p])))
          ELSE pc' = [pc EXCEPT ![p] = Looping] /\ SetSlot(k, p, AbortRecovery(slot[k][p]))
       /\ UNCHANGED <<entry, mon, spent>>

\* Mutant: the plane is readmitted without another look at it.
MarkHealthy_mutant(p) ==
    LET k == pc[p].conn
        g == pc[p].gen
        ok == HealthyIfGenerationOK(entry[p], g)
    IN /\ pc[p].at = "mark"
       /\ entry' = [entry EXCEPT ![p] = [@ EXCEPT !.health = "Healthy"]]
       /\ SetSlot(k, p, IF ok THEN slot[k][p] ELSE Quarantine(slot[k][p]))
       /\ IF p = Receiver(k) THEN Send(k, p, Msg("ack", g, ok)) ELSE UNCHANGED chan
       /\ pc' = [pc EXCEPT ![p] = Looping]
       /\ UNCHANGED <<mon, spent>>

\* markHealthyIfGeneration, at either end; the receiver then acknowledges.
MarkHealthy(p) ==
    LET k == pc[p].conn
        g == pc[p].gen
        ok == HealthyIfGenerationOK(entry[p], g)
    IN /\ pc[p].at = "mark"
       /\ entry' = [entry EXCEPT ![p] = MarkHealthyIfGeneration(@, g)]
       /\ SetSlot(k, p, IF ok THEN slot[k][p] ELSE Quarantine(slot[k][p]))
       /\ IF p = Receiver(k) THEN Send(k, p, Msg("ack", g, ok)) ELSE UNCHANGED chan
       /\ pc' = [pc EXCEPT ![p] = Looping]
       /\ UNCHANGED <<mon, spent>>

-----------------------------------------------------------------------------
\* A step of p's progress thread on a message of connection k.
Handle(p, k) ==
    \/ RecvEvent(p, k)
    \/ p = SenderOf[k] /\ (GiveUp(k) \/ RecvResp(k) \/ RecvAck(k))
    \/ p = Receiver(k)
          /\ ((\E ready \in BOOLEAN : RecvReq(k, ready)) \/ RefuseReady(k) \/ RecvReady(k))

Next ==
    \/ \E p \in Procs, k \in Conns :
          Handle(p, k) \/ OnReport(p, k) \/ TellPeer(p, k) \/ CqError(p, k)
    \/ \E k \in Conns : RecoverStart(k)
    \/ \E p \in Procs : MarkHealthy(p) \/ \E up \in BOOLEAN : Report(p, up)

\* A step that p's progress thread makes when it comes to connection k.
Turn(p, k) == Handle(p, k) \/ (p = SenderOf[k] /\ RecoverStart(k))

\* NCCL's progress thread goes round its connections for ever, so each gets its
\* turn between the handshakes of the others; a monitor thread gets the mutex
\* of a connection in the end.
Fairness ==
    /\ \A p \in Procs, k \in Conns : SF_vars(Turn(p, k))
    /\ \A p \in Reporters, k \in Conns : SF_vars(OnReport(p, k)) /\ WF_vars(TellPeer(p, k))
    /\ \A p \in Procs : WF_vars(MarkHealthy(p))

Spec == Init /\ [][Next]_vars /\ Fairness

-----------------------------------------------------------------------------
(* On no connection is the sender's queue pair of a later generation than  *)
(* the receiver's: the receiver commits first, whoever changed the table   *)
(* in between.                                                             *)
SenderNotAhead ==
    \A k \in Conns :
        slot[k][SenderOf[k]].active.gen <= slot[k][Receiver(k)].active.gen

(* Two tables shared by several connections keep the agreement that one    *)
(* connection gives them.                                                  *)
Agreement == INSTANCE PlaneAgreement WITH
    FaultPlanes <- {1}, Gens <- Nat,
    table <- [s \in {"S", "R"} |-> [plane \in {1} |-> entry[IF s = "S" THEN "P" ELSE "Q"]]]

AgreementSpec == Agreement!Spec

(* A thread that waits for the answer of a handshake gets it.              *)
WaitsEnd == \A p \in Procs : pc[p].at \in {"resp", "ack"} ~> pc[p].at = "loop"

(* When the reports end, a plane usable or recovering has been rebuilt on  *)
(* every connection, not only on the one that the report, the error or the *)
(* recovery that changed the shared table came through.                    *)
EveryConnectionRebuilt == <>[](\A k \in Conns : ~NeedsRecovery(k))
=============================================================================
