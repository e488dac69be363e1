------------------------ MODULE PlaneAgreementProofs ------------------------
(***************************************************************************)
(* Theorems about PlaneAgreement for every set of planes and every set   *)
(* of generations.  HealthyNotAhead and NoContradiction need each      *)
(* other: the first keeps a usable entry from meeting the next generation  *)
(* the other end invents, the second is what a readmission establishes.    *)
(* Their conjunction with the type invariant is inductive.                 *)
(***************************************************************************)
EXTENDS PlaneAgreement, TLAPS

IInv == TypeOK /\ HealthyNotAhead /\ NoContradiction

-----------------------------------------------------------------------------
\* Peer is an involution on the two sides: an argument about one side covers both.
LEMMA PeerIsOther ==
    ASSUME NEW s \in Sides
    PROVE  Peer(s) \in Sides /\ Peer(s) # s /\ Peer(Peer(s)) = s
  BY DEF Peer, Sides

\* Each operator of the table's entries maps entries to entries and takes the
\* step EntryStep allows; the two marks and an applied event leave an entry
\* that is not Healthy unless it was left alone.
LEMMA MarkBrokenEntry ==
    ASSUME NEW e \in PlaneEntry
    PROVE  /\ MarkBroken(e) \in PlaneEntry
           /\ EntryStep(e, MarkBroken(e))
           /\ MarkBroken(e).gen >= e.gen
           /\ MarkBroken(e).health = "Broken"
  BY DEF MarkBroken, MarkAs, PlaneEntry, PlaneHealth, EntryStep

LEMMA MarkRecoveringEntry ==
    ASSUME NEW e \in PlaneEntry
    PROVE  /\ MarkRecovering(e) \in PlaneEntry
           /\ EntryStep(e, MarkRecovering(e))
           /\ MarkRecovering(e).gen >= e.gen
           /\ MarkRecovering(e).health = "Recovering"
  BY DEF MarkRecovering, MarkAs, PlaneEntry, PlaneHealth, EntryStep

LEMMA ApplyRemoteEventEntry ==
    ASSUME NEW e \in PlaneEntry, NEW g \in Nat, NEW h \in {"Broken", "Recovering"}
    PROVE  /\ ApplyRemoteEvent(e, g, h) \in PlaneEntry
           /\ EntryStep(e, ApplyRemoteEvent(e, g, h))
           /\ \/ ApplyRemoteEvent(e, g, h) = e
              \/ /\ ApplyRemoteEvent(e, g, h).gen > e.gen
                 /\ ApplyRemoteEvent(e, g, h).health # "Healthy"
  BY DEF ApplyRemoteEvent, RemoteEventApplies, PlaneEntry, PlaneHealth, EntryStep

LEMMA ReadmittedEntry ==
    ASSUME NEW e \in PlaneEntry, e.health = "Recovering"
    PROVE  /\ MarkHealthyIfGeneration(e, e.gen) \in PlaneEntry
           /\ EntryStep(e, MarkHealthyIfGeneration(e, e.gen))
           /\ MarkHealthyIfGeneration(e, e.gen).gen = e.gen
           /\ MarkHealthyIfGeneration(e, e.gen).health = "Healthy"
  BY DEF MarkHealthyIfGeneration, HealthyIfGenerationOK, PlaneEntry, PlaneHealth,
         EntryStep

-----------------------------------------------------------------------------
\* A step of Next replaces one entry; OneEntry says what it leaves behind.
OneEntry(s, p, f) ==
    \A t \in Sides, q \in FaultPlanes :
        table'[t][q] = IF t = s /\ q = p THEN f ELSE table[t][q]

LEMMA UpdateOneEntry ==
    ASSUME TypeOK, NEW s \in Sides, NEW p \in FaultPlanes, NEW f \in PlaneEntry,
           table' = [table EXCEPT ![s][p] = f]
    PROVE  TypeOK' /\ OneEntry(s, p, f)
  BY DEF TypeOK, OneEntry

\* What a step has to leave at the changed entry for the invariant to survive.
Compatible(e, f, peer) ==
    /\ f.gen >= e.gen
    /\ f.health = "Healthy" =>
          /\ f.gen <= peer.gen
          /\ ~(f.gen = peer.gen /\ peer.health = "Broken")
    /\ f = e \/ f.gen > e.gen \/ f.health # "Broken"

LEMMA CompatibleKeepsInvariant ==
    ASSUME IInv, NEW s \in Sides, NEW p \in FaultPlanes, NEW f \in PlaneEntry,
           table' = [table EXCEPT ![s][p] = f],
           Compatible(table[s][p], f, table[Peer(s)][p])
    PROVE  IInv'
<1>1. TypeOK' /\ OneEntry(s, p, f)
  BY UpdateOneEntry DEF IInv
<1>2. ASSUME NEW t \in Sides, NEW q \in FaultPlanes
      PROVE  /\ table[t][q] \in PlaneEntry
             /\ table[Peer(t)][q] \in PlaneEntry
             /\ table[t][q].health = "Healthy" => table[t][q].gen <= table[Peer(t)][q].gen
             /\ ~ /\ table[t][q].gen = table[Peer(t)][q].gen
                  /\ table[t][q].health = "Healthy"
                  /\ table[Peer(t)][q].health = "Broken"
  BY PeerIsOther DEF IInv, TypeOK, HealthyNotAhead, NoContradiction
<1>3. ASSUME NEW t \in Sides, NEW q \in FaultPlanes
      PROVE  /\ table'[t][q].health = "Healthy" =>
                    table'[t][q].gen <= table'[Peer(t)][q].gen
             /\ ~ /\ table'[t][q].gen = table'[Peer(t)][q].gen
                  /\ table'[t][q].health = "Healthy"
                  /\ table'[Peer(t)][q].health = "Broken"
  <2>0. Peer(t) \in Sides /\ Peer(t) # t /\ Peer(Peer(t)) = t
    BY PeerIsOther
  <2>1. CASE q # p
    <3>1. table'[t][q] = table[t][q] /\ table'[Peer(t)][q] = table[Peer(t)][q]
      BY <1>1, <2>0, <2>1 DEF OneEntry
    <3> QED BY <1>2, <3>1
  <2>2. CASE q = p /\ t = s
    <3>1. table'[t][q] = f /\ table'[Peer(t)][q] = table[Peer(s)][p]
      BY <1>1, <2>0, <2>2 DEF OneEntry
    <3> QED BY <3>1 DEF Compatible
  <2>3. CASE q = p /\ t = Peer(s)
    <3>1. table'[t][q] = table[t][q] /\ table'[Peer(t)][q] = f /\ Peer(t) = s
      BY <1>1, <2>3, PeerIsOther DEF OneEntry
    <3>2. /\ table[t][q] \in PlaneEntry /\ table[s][p] \in PlaneEntry
          /\ table[t][q].health = "Healthy" => table[t][q].gen <= table[s][p].gen
          /\ ~ /\ table[t][q].gen = table[s][p].gen
               /\ table[t][q].health = "Healthy"
               /\ table[s][p].health = "Broken"
      BY <1>2, <2>3, <3>1
    <3> QED BY <3>1, <3>2 DEF Compatible, PlaneEntry
  <2> QED BY <2>1, <2>2, <2>3 DEF Sides, Peer
<1> QED BY <1>1, <1>3 DEF IInv, HealthyNotAhead, NoContradiction

-----------------------------------------------------------------------------
\* Every step of Next replaces one entry by a compatible one, along EntryStep.
StepOfOneEntry ==
    \E s \in Sides, p \in FaultPlanes, f \in PlaneEntry :
        /\ table' = [table EXCEPT ![s][p] = f]
        /\ Compatible(table[s][p], f, table[Peer(s)][p])
        /\ EntryStep(table[s][p], f)

LEMMA NextChangesOneEntry ==
    ASSUME IInv, Next
    PROVE  StepOfOneEntry
<1>1. PICK s \in Sides, p \in FaultPlanes :
          \/ LocalBroken(s, p)
          \/ LocalRecovering(s, p)
          \/ \E g \in 1 .. table[Peer(s)][p].gen, h \in {"Broken", "Recovering"} :
                Learn(s, p, g, h)
          \/ Readmit(s, p)
  BY DEF Next
<1>2. /\ table[s][p] \in PlaneEntry /\ table[Peer(s)][p] \in PlaneEntry
      /\ table[s][p].health = "Healthy" => table[s][p].gen <= table[Peer(s)][p].gen
      /\ ~ /\ table[s][p].gen = table[Peer(s)][p].gen
           /\ table[s][p].health = "Healthy"
           /\ table[Peer(s)][p].health = "Broken"
  BY PeerIsOther DEF IInv, TypeOK, HealthyNotAhead, NoContradiction
<1>3. CASE LocalBroken(s, p)
  <2>1. table' = [table EXCEPT ![s][p] = MarkBroken(table[s][p])]
    BY <1>3 DEF LocalBroken
  <2>2. \/ MarkBroken(table[s][p]) = table[s][p]
        \/ MarkBroken(table[s][p]).gen > table[s][p].gen
    BY <1>2 DEF MarkBroken, MarkAs, PlaneEntry
  <2> QED BY <1>2, <2>1, <2>2, MarkBrokenEntry DEF StepOfOneEntry, Compatible
<1>4. CASE LocalRecovering(s, p)
  <2>1. table' = [table EXCEPT ![s][p] = MarkRecovering(table[s][p])]
    BY <1>4 DEF LocalRecovering
  <2> QED BY <1>2, <2>1, MarkRecoveringEntry DEF StepOfOneEntry, Compatible
<1>5. ASSUME NEW g \in 1 .. table[Peer(s)][p].gen, NEW h \in {"Broken", "Recovering"},
             Learn(s, p, g, h)
      PROVE  StepOfOneEntry
  <2>1. table' = [table EXCEPT ![s][p] = ApplyRemoteEvent(table[s][p], g, h)]
    BY <1>5 DEF Learn
  <2>2. g \in Nat
    BY <1>2 DEF PlaneEntry
  <2>3. ApplyRemoteEvent(table[s][p], g, h) = table[s][p] =>
            Compatible(table[s][p], ApplyRemoteEvent(table[s][p], g, h), table[Peer(s)][p])
    BY <1>2 DEF Compatible, PlaneEntry
  <2>4. ApplyRemoteEvent(table[s][p], g, h) # table[s][p] =>
            Compatible(table[s][p], ApplyRemoteEvent(table[s][p], g, h), table[Peer(s)][p])
    <3>1. ApplyRemoteEvent(table[s][p], g, h) \in PlaneEntry
      BY <1>2, <2>2, ApplyRemoteEventEntry
    <3>2. ApplyRemoteEvent(table[s][p], g, h) # table[s][p] =>
              /\ ApplyRemoteEvent(table[s][p], g, h).gen > table[s][p].gen
              /\ ApplyRemoteEvent(table[s][p], g, h).health # "Healthy"
      BY <1>2, <2>2, ApplyRemoteEventEntry
    <3> QED BY <1>2, <3>1, <3>2 DEF Compatible, PlaneEntry
  <2> QED BY <1>2, <2>1, <2>2, <2>3, <2>4, ApplyRemoteEventEntry DEF StepOfOneEntry
<1>6. CASE Readmit(s, p)
  <2>1. /\ table' = [table EXCEPT ![s][p] =
                        MarkHealthyIfGeneration(table[s][p], table[s][p].gen)]
        /\ table[s][p].health = "Recovering"
        /\ Reached(table[Peer(s)][p], table[s][p].gen, "Recovering")
    BY <1>6 DEF Readmit
  <2>2. Compatible(table[s][p], MarkHealthyIfGeneration(table[s][p], table[s][p].gen),
                   table[Peer(s)][p])
    BY <1>2, <2>1, ReadmittedEntry DEF Compatible, Reached, PlaneEntry
  <2> QED BY <1>2, <2>1, <2>2, ReadmittedEntry DEF StepOfOneEntry
<1> QED BY <1>1, <1>3, <1>4, <1>5, <1>6

-----------------------------------------------------------------------------
LEMMA InitInvariant == Init => IInv
<1> SUFFICES ASSUME Init PROVE IInv
  OBVIOUS
<1>1. TypeOK
  BY DEF Init, TypeOK, InitialEntry, PlaneEntry, PlaneHealth
<1>2. \A s \in Sides, p \in FaultPlanes : table[s][p] = InitialEntry
  BY DEF Init
<1> QED BY <1>1, <1>2, PeerIsOther
        DEF IInv, HealthyNotAhead, NoContradiction, InitialEntry

LEMMA NextInvariant == IInv /\ [Next]_table => IInv'
<1> SUFFICES ASSUME IInv, [Next]_table PROVE IInv'
  OBVIOUS
<1>1. CASE Next
  <2>1. PICK s \in Sides, p \in FaultPlanes, f \in PlaneEntry :
            /\ table' = [table EXCEPT ![s][p] = f]
            /\ Compatible(table[s][p], f, table[Peer(s)][p])
    BY <1>1, NextChangesOneEntry DEF StepOfOneEntry
  <2> QED BY <2>1, CompatibleKeepsInvariant
<1>2. CASE UNCHANGED table
  BY <1>2 DEF IInv, TypeOK, HealthyNotAhead, NoContradiction
<1> QED BY <1>1, <1>2

(* The inductive invariant: the plane tables of the two processes are well *)
(* formed, and a usable plane is neither ahead of the other end nor in     *)
(* contradiction with it.                                                  *)
THEOREM InductiveInvariant == Spec => []IInv
  BY InitInvariant, NextInvariant, PTL DEF Spec

(* Every entry of a plane table keeps a generation and one of the three    *)
(* health states (plane_state.h).                                          *)
THEOREM TypeCorrectness == Spec => []TypeOK
<1>1. IInv => TypeOK
  BY DEF IInv
<1> QED BY <1>1, InductiveInvariant, PTL

(* The two ends never hold contradicting verdicts under one generation,    *)
(* which applyRemoteEvent would never correct.                             *)
THEOREM VerdictsAgree == Spec => []NoContradiction
<1>1. IInv => NoContradiction
  BY DEF IInv
<1> QED BY <1>1, InductiveInvariant, PTL

(* An end whose table lets traffic use a plane is never at a generation    *)
(* the other end has not reached.                                          *)
THEOREM UsableNotAhead == Spec => []HealthyNotAhead
<1>1. IInv => HealthyNotAhead
  BY DEF IInv
<1> QED BY <1>1, InductiveInvariant, PTL

LEMMA StepOrdered ==
    IInv /\ [Next]_table =>
        [\A s \in Sides, p \in FaultPlanes : EntryStep(table[s][p], table'[s][p])]_table
<1> SUFFICES ASSUME IInv, Next, NEW t \in Sides, NEW q \in FaultPlanes
             PROVE  EntryStep(table[t][q], table'[t][q])
  OBVIOUS
<1>1. PICK s \in Sides, p \in FaultPlanes, f \in PlaneEntry :
          table' = [table EXCEPT ![s][p] = f] /\ EntryStep(table[s][p], f)
  BY NextChangesOneEntry DEF StepOfOneEntry
<1>2. OneEntry(s, p, f)
  BY <1>1, UpdateOneEntry DEF IInv
<1> QED BY <1>1, <1>2 DEF OneEntry, EntryStep

(* No transition reuses a generation: an entry moves to a larger one, or   *)
(* from Recovering to Healthy within its own.                              *)
THEOREM GenerationsNeverReused == Spec => GenerationsOrdered
  BY InductiveInvariant, StepOrdered, PTL DEF Spec, GenerationsOrdered
=============================================================================
