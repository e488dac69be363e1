------------------------------- MODULE QpSlot -------------------------------
(***************************************************************************)
(* A queue-pair slot (qp_slot.h, qp_slot.cc): what one connection keeps    *)
(* for one plane.  The active endpoint carries traffic; the shadow is the  *)
(* replacement a recovery handshake is building; retired endpoints are old *)
(* active ones that outstanding requests may still refer to.  The probe    *)
(* remembers the completions of the empty message that tests a shadow.     *)
(*                                                                         *)
(* The operators are the methods of QpSlot and the parts of comm.cc that   *)
(* read or write one slot only.  A queue pair is its number here: 0 is the *)
(* null pointer, and a queue pair no endpoint of a slot refers to has been *)
(* destroyed (DpfrComm reaps it).                                          *)
(***************************************************************************)
EXTENDS PlaneTable

NoQp == 0

Endpoints(qpIds) == [qp : qpIds \cup {NoQp}, gen : Nat, ready : BOOLEAN]

Probes == [gen : Nat, sendDone : BOOLEAN, recvDone : BOOLEAN, failed : BOOLEAN]

\* The enumeration also has Draining, which no code assigns.
SlotStates == {"Active", "Quarantined", "Rebuilding", "ReadyPending", "Dead"}

Slots(qpIds) ==
    [state : SlotStates, active : Endpoints(qpIds), shadow : Endpoints(qpIds),
     retired : SUBSET Endpoints(qpIds), probe : Probes]

NoEndpoint == [qp |-> NoQp, gen |-> 0, ready |-> FALSE]

NewEndpoint(q, g) == [qp |-> q, gen |-> g, ready |-> FALSE]

\* destroyEndpoint leaves the generation of the endpoint in place.
DestroyEndpoint(e) == [e EXCEPT !.qp = NoQp, !.ready = FALSE]

FreshProbe(g) == [gen |-> g, sendDone |-> FALSE, recvDone |-> FALSE, failed |-> FALSE]

QpsOf(slot) ==
    ({slot.active.qp, slot.shadow.qp} \cup {e.qp : e \in slot.retired}) \ {NoQp}

-----------------------------------------------------------------------------
Quarantine(slot) ==
    IF slot.state = "Active" THEN [slot EXCEPT !.state = "Quarantined"] ELSE slot

ResetProbe(slot, g) == [slot EXCEPT !.probe = FreshProbe(g)]

ClearProbe(slot) == ResetProbe(slot, 0)

AbortRecovery(slot) ==
    [ClearProbe(slot) EXCEPT
        !.shadow = DestroyEndpoint(@),
        !.state = IF @ \notin {"Rebuilding", "ReadyPending"} THEN @
                  ELSE IF slot.active.qp # NoQp THEN "Quarantined" ELSE "Dead"]

RetireActive(slot) ==
    IF slot.active.qp = NoQp THEN slot
    ELSE [slot EXCEPT !.retired = @ \cup {slot.active}, !.active = NoEndpoint]

-----------------------------------------------------------------------------
\* slotAtGeneration: nothing is left to recover for generation g.
SlotAtGeneration(slot, g) ==
    /\ slot.state = "Active"
    /\ slot.active.qp # NoQp
    /\ slot.active.ready
    /\ slot.active.gen = g

\* A request may be posted on the slot, given the plane's table entry.
Selectable(slot, entry) ==
    entry.health = "Healthy" /\ SlotAtGeneration(slot, entry.gen)

\* ensureRecoveryShadow once the port is ready: keep a shadow of generation g,
\* replace any other by the new queue pair q.
EnsureShadow(slot, g, q) ==
    IF slot.shadow.qp # NoQp /\ slot.shadow.gen = g THEN slot
    ELSE [ResetProbe(slot, g) EXCEPT !.shadow = NewEndpoint(q, g), !.state = "Rebuilding"]

\* The shadow is connected to its peer and the probe is about to be posted.
ConnectShadow(slot, g) ==
    [ResetProbe(slot, g) EXCEPT !.shadow.ready = TRUE, !.state = "ReadyPending"]

\* recordInternalCqe for a completion of the probe of generation g.
RecordProbe(slot, kind, g, ok) ==
    IF g # slot.probe.gen THEN slot
    ELSE IF ~ok THEN [slot EXCEPT !.probe.failed = TRUE]
    ELSE IF kind = "send" THEN [slot EXCEPT !.probe.sendDone = TRUE]
    ELSE [slot EXCEPT !.probe.recvDone = TRUE]

\* What commitShadow checks before it touches the slot; otherwise it fails.
CanCommit(slot, g) ==
    /\ slot.shadow.qp # NoQp /\ slot.shadow.ready /\ slot.shadow.gen = g
    /\ slot.probe.gen = g /\ ~slot.probe.failed
    /\ slot.probe.sendDone \/ slot.probe.recvDone

\* Mutant: the old queue pair is dropped, not retired.
CommitShadow_mutant(slot) ==
    [ClearProbe(slot) EXCEPT
        !.active = slot.shadow, !.shadow = NoEndpoint, !.state = "Active"]

\* Mutant: the replacement stays in the shadow's place as well.
CommitShadow_kept_mutant(slot) ==
    [ClearProbe(RetireActive(slot)) EXCEPT !.active = slot.shadow, !.state = "Active"]

\* The body of commitShadow, up to the retired endpoints it may free.
CommitShadow(slot) ==
    [ClearProbe(RetireActive(slot)) EXCEPT
        !.active = slot.shadow, !.shadow = NoEndpoint, !.state = "Active"]

-----------------------------------------------------------------------------
\* The effect of a monitor's report on the slot of its plane (onPlaneBroken).
OnBroken(slot, g) ==
    Quarantine(IF slot.shadow.qp # NoQp /\ slot.shadow.gen <= g
               THEN AbortRecovery(slot) ELSE slot)

\* Mutant: a recovered plane gets its old queue pair back.
OnRecovering_mutant(slot, g) ==
    IF slot.active.qp = NoQp THEN slot ELSE [slot EXCEPT !.state = "Active"]

\* onPlaneRecovering, and the recovered branch of a peer's plane event.
OnRecovering(slot, g) ==
    LET kept == IF slot.shadow.qp # NoQp /\ slot.shadow.gen # g
                THEN AbortRecovery(slot) ELSE slot
    IN IF kept.active.gen # g \/ kept.state # "Active"
       THEN [kept EXCEPT !.state = "Rebuilding"] ELSE kept

\* A completion error of the active queue pair, and the broken branch of a
\* peer's plane event.
OnFailure(slot) == Quarantine(AbortRecovery(slot))
=============================================================================
