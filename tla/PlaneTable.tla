----------------------------- MODULE PlaneTable -----------------------------
(***************************************************************************)
(* One entry of a process' plane table (plane_state.cc): the health of a   *)
(* fault plane and the generation that numbers its up/down transitions.    *)
(* Every method of PlaneTable runs under the table's own mutex, so each is *)
(* one atomic function from an entry to the entry it leaves behind.        *)
(*                                                                         *)
(* The timestamp and the source text of an entry are only logged and are   *)
(* left out.  The generation is a uint32_t in the code; it moves once per  *)
(* reported transition of a port, so a wrap is out of reach and it is a    *)
(* natural number here.  markHealthy is called by the unit tests only and  *)
(* has no operator.                                                        *)
(***************************************************************************)
EXTENDS Naturals

PlaneHealth == {"Healthy", "Broken", "Recovering"}

PlaneEntry == [gen : Nat, health : PlaneHealth]

\* PlaneTable::reset: every plane starts healthy at generation 1.
InitialEntry == [gen |-> 1, health |-> "Healthy"]

\* A transition to health h, which the code numbers only when it is a change.
MarkAs(e, h) == IF e.health = h THEN e ELSE [gen |-> e.gen + 1, health |-> h]

\* Mutant: the health is set to the state of a slot.
MarkBroken_mutant(e) == MarkAs(e, "Quarantined")

MarkBroken(e) == MarkAs(e, "Broken")

\* Mutant: a plane reported up is usable at once.
MarkRecovering_mutant(e) == MarkAs(e, "Healthy")

MarkRecovering(e) == MarkAs(e, "Recovering")

\* Mutant: an event of the current generation is taken over too.
RemoteEventApplies_mutant(e, g) == g # 0 /\ g >= e.gen

\* An event of generation g and health h reported by the peer is taken over
\* only when it is newer than what this process knows.
RemoteEventApplies(e, g) == g # 0 /\ g > e.gen

ApplyRemoteEvent(e, g, h) ==
    IF RemoteEventApplies(e, g) THEN [gen |-> g, health |-> h] ELSE e

\* The end of a recovery readmits the plane only at the generation recovered.
HealthyIfGenerationOK(e, g) == e.gen = g /\ e.health \in {"Recovering", "Healthy"}

MarkHealthyIfGeneration(e, g) ==
    IF HealthyIfGenerationOK(e, g) THEN [e EXCEPT !.health = "Healthy"] ELSE e

\* planeAllowsQpRecovery of comm.cc.
AllowsQpRecovery(e) == e.health \in {"Recovering", "Healthy"}
=============================================================================
