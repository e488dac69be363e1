--------------------------- MODULE PlaneAgreement ---------------------------
(***************************************************************************)
(* What the control plane promises about the plane tables of the two       *)
(* processes at the ends of a connection, with no messages, queue pairs or *)
(* threads in it.  Each end numbers the transitions its monitor reports,   *)
(* learns transitions the other end has already made, and readmits a plane *)
(* only when the other end is there too.  DpfrComm, the detailed           *)
(* connection, implements this specification.                              *)
(*                                                                         *)
(* Gens bounds the transitions when TLC checks this module by itself; it   *)
(* is all of Nat where another module implements this one.                 *)
(***************************************************************************)
EXTENDS PlaneTable

CONSTANTS
    FaultPlanes, \* the configured fault planes
    Gens         \* the generations a local transition starts from

ASSUME GensAssumption == Gens \subseteq Nat

VARIABLE table  \* table[s][p]: the entry of plane p in the process of side s

\* "S" made the connection and sends; "R" accepted it and receives.
Sides == {"S", "R"}

Peer(s) == IF s = "S" THEN "R" ELSE "S"

TypeOK == table \in [Sides -> [FaultPlanes -> PlaneEntry]]

Init == table = [s \in Sides |-> [p \in FaultPlanes |-> InitialEntry]]

-----------------------------------------------------------------------------
\* The monitor, or a completion error, reports plane p down.
LocalBroken(s, p) ==
    /\ table[s][p].gen \in Gens
    /\ table' = [table EXCEPT ![s][p] = MarkBroken(@)]

\* The monitor reports plane p up again.
LocalRecovering(s, p) ==
    /\ table[s][p].gen \in Gens
    /\ table' = [table EXCEPT ![s][p] = MarkRecovering(@)]

\* Side s may be told that its peer reached health h at generation g: the peer
\* is at that transition or has moved on to a later one.
Reached(e, g, h) ==
    \/ e.gen > g
    \/ e.gen = g /\ (e.health = "Broken" <=> h = "Broken")

Learn(s, p, g, h) ==
    /\ Reached(table[Peer(s)][p], g, h)
    /\ table' = [table EXCEPT ![s][p] = ApplyRemoteEvent(@, g, h)]

\* Mutant: an end readmits a plane without the other one.
Readmit_mutant(s, p) ==
    /\ table[s][p].health = "Recovering"
    /\ table' = [table EXCEPT ![s][p] = MarkHealthyIfGeneration(@, table[s][p].gen)]

\* The receiver readmits a plane the sender asked it to recover, the sender a
\* plane the receiver has readmitted, unless that end has moved on meanwhile.
Readmit(s, p) ==
    LET g == table[s][p].gen
        e == table[Peer(s)][p]
    IN /\ table[s][p].health = "Recovering"
       /\ Reached(e, g, "Recovering")
       /\ s = "S" => (e.gen = g => e.health = "Healthy")
       /\ table' = [table EXCEPT ![s][p] = MarkHealthyIfGeneration(@, g)]

Next ==
    \E s \in Sides, p \in FaultPlanes :
        \/ LocalBroken(s, p)
        \/ LocalRecovering(s, p)
        \/ \E g \in 1 .. table[Peer(s)][p].gen, h \in {"Broken", "Recovering"} :
              Learn(s, p, g, h)
        \/ Readmit(s, p)

Spec == Init /\ [][Next]_table

-----------------------------------------------------------------------------
(* A plane one end takes for usable is never down, at the same generation, *)
(* for the other end: the two ends cannot hold contradicting verdicts      *)
(* under one number, which no later event would correct                    *)
(* (applyRemoteEvent ignores an event of an equal generation).             *)
NoContradiction ==
    \A s \in Sides, p \in FaultPlanes :
        ~ /\ table[s][p].gen = table[Peer(s)][p].gen
          /\ table[s][p].health = "Healthy"
          /\ table[Peer(s)][p].health = "Broken"

(* An end that takes a plane for usable is never ahead of the other end:   *)
(* the recovery handshake carries the generation across before either end  *)
(* readmits the plane.                                                     *)
HealthyNotAhead ==
    \A s \in Sides, p \in FaultPlanes :
        table[s][p].health = "Healthy" => table[s][p].gen <= table[Peer(s)][p].gen

(* Generations never go back, and a generation is never given a second     *)
(* meaning: within it an entry only moves from Recovering to Healthy.      *)
EntryStep(e, f) ==
    \/ f.gen > e.gen
    \/ f.gen = e.gen /\ (f = e \/ (e.health = "Recovering" /\ f.health = "Healthy"))

GenerationsOrdered ==
    [][\A s \in Sides, p \in FaultPlanes : EntryStep(table[s][p], table'[s][p])]_table
=============================================================================
