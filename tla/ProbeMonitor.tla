---------------------------- MODULE ProbeMonitor ----------------------------
(***************************************************************************)
(* The ICMP monitor (probeThreadMain) of the two processes at the ends of  *)
(* a connection, for one plane.  Each process may probe a target of its    *)
(* own every second; it reports the plane broken at the third probe in a   *)
(* row that is not answered and at each one after it, and recovered when   *)
(* it has two answers in a row and finds the plane broken.  Finding it     *)
(* broken and reporting it recovered are two steps: other threads change   *)
(* the table in between.  A report is broadcast to the peer.               *)
(*                                                                         *)
(* The handshake that readmits a plane is the Readmit of PlaneAgreement,   *)
(* which DpfrComm implements.  Silent are the processes whose target never *)
(* answers; of the probes of the others MaxLost in all go unanswered.      *)
(* MaxOrders bounds the reports of operators over TCP and UDP.  Of equal   *)
(* events in a row one is kept, as the peer ignores the second.            *)
(***************************************************************************)
EXTENDS PlaneTable, SequencesExt

CONSTANTS Probing, Silent, MaxLost, MaxOrders

VARIABLES
    entry,   \* entry[s]: the plane in the table of process s
    hits, misses,
    seenBroken,  \* seenBroken[s]: the probe is about to report a recovery
    chan,    \* chan[s]: plane events on their way to process s
    lost, orders

vars == <<entry, hits, misses, seenBroken, chan, lost, orders>>

Sides == {"S", "R"}
Peer(s) == IF s = "S" THEN "R" ELSE "S"

TypeOK ==
    /\ entry \in [Sides -> PlaneEntry]
    /\ hits \in [Sides -> 0 .. 2] /\ misses \in [Sides -> 0 .. 3]
    /\ \A s \in Sides : hits[s] = 0 \/ misses[s] = 0
    /\ seenBroken \in [Sides -> BOOLEAN]
    /\ \A s \in Sides : \A i \in DOMAIN chan[s] :
          chan[s][i] \in PlaneEntry /\ chan[s][i].health # "Healthy"
    /\ lost \in 0 .. MaxLost /\ orders \in 0 .. MaxOrders

Init ==
    /\ entry = [s \in Sides |-> InitialEntry]
    /\ hits = [s \in Sides |-> 0] /\ misses = [s \in Sides |-> 0]
    /\ seenBroken = [s \in Sides |-> FALSE]
    /\ chan = [s \in Sides |-> <<>>]
    /\ lost = 0 /\ orders = 0

-----------------------------------------------------------------------------
\* applyPlaneEvent with broadcast: mark the table and tell the peer.
Apply(s, e) ==
    LET d == Peer(s)
        told == chan[d] # <<>> /\ Last(chan[d]) = e
    IN /\ entry' = [entry EXCEPT ![s] = e]
       /\ chan' = IF told THEN chan ELSE [chan EXCEPT ![d] = Append(@, e)]

AtMost(n, bound) == IF n < bound THEN n ELSE bound

\* Mutant: the second answer in a row decides, later ones do not.
RecoverySeen_mutant(s) == hits[s] + 1 = 2 /\ entry[s].health = "Broken"

RecoverySeen(s) == hits[s] + 1 >= 2 /\ entry[s].health = "Broken"

Answered(s) ==
    /\ s \in Probing \ Silent /\ ~seenBroken[s]
    /\ misses' = [misses EXCEPT ![s] = 0]
    /\ hits' = [hits EXCEPT ![s] = AtMost(@ + 1, 2)]
    /\ seenBroken' = [seenBroken EXCEPT ![s] = RecoverySeen(s)]
    /\ UNCHANGED <<entry, chan, lost, orders>>

ReportRecovered(s) ==
    /\ seenBroken[s]
    /\ Apply(s, MarkRecovering(entry[s]))
    /\ seenBroken' = [seenBroken EXCEPT ![s] = FALSE]
    /\ UNCHANGED <<hits, misses, lost, orders>>

\* Mutant: only the third probe in a row reports.
OutageSeen_mutant(s) == misses[s] = 2

OutageSeen(s) == misses[s] + 1 >= 3

Unanswered(s) ==
    /\ s \in Probing /\ ~seenBroken[s]
    /\ IF s \in Silent THEN UNCHANGED lost ELSE lost < MaxLost /\ lost' = lost + 1
    /\ hits' = [hits EXCEPT ![s] = 0]
    /\ misses' = [misses EXCEPT ![s] = AtMost(@ + 1, 3)]
    /\ IF OutageSeen(s) THEN Apply(s, MarkBroken(entry[s])) ELSE UNCHANGED <<entry, chan>>
    /\ UNCHANGED <<seenBroken, orders>>

\* An operator reports the plane broken or recovered.
Order(s) ==
    /\ orders < MaxOrders
    /\ orders' = orders + 1
    /\ \E h \in {"Broken", "Recovering"} : Apply(s, MarkAs(entry[s], h))
    /\ UNCHANGED <<hits, misses, seenBroken, lost>>

Learn(s) ==
    /\ chan[s] # <<>>
    /\ entry' = [entry EXCEPT ![s] = ApplyRemoteEvent(@, Head(chan[s]).gen, Head(chan[s]).health)]
    /\ chan' = [chan EXCEPT ![s] = Tail(@)]
    /\ UNCHANGED <<hits, misses, seenBroken, lost, orders>>

\* Mutant: an end readmits the plane although the other calls it broken.
MayReadmit_mutant(s) == entry[s].health = "Recovering"

\* The two ends have carried out the handshake at their common generation.
MayReadmit(s) ==
    /\ entry[s].health = "Recovering" /\ entry[Peer(s)].gen = entry[s].gen
    /\ entry[Peer(s)].health \in IF s = "S" THEN {"Healthy"} ELSE {"Recovering", "Healthy"}

Readmit(s) ==
    /\ MayReadmit(s)
    /\ entry' = [entry EXCEPT ![s] = MarkHealthyIfGeneration(@, @.gen)]
    /\ UNCHANGED <<hits, misses, seenBroken, chan, lost, orders>>

Next ==
    \E s \in Sides :
        Answered(s) \/ Unanswered(s) \/ ReportRecovered(s) \/ Order(s) \/ Learn(s) \/ Readmit(s)

\* A probe every second; only the answers of a target that is there are due.
Probe(s) == Answered(s) \/ ReportRecovered(s) \/ (s \in Silent /\ Unanswered(s))

Spec == Init /\ [][Next]_vars

\* The monitor threads and the proxy threads that call progress keep running.
FairSpec ==
    /\ Spec
    /\ \A s \in Sides : WF_vars(Probe(s)) /\ WF_vars(Learn(s)) /\ WF_vars(Readmit(s))

-----------------------------------------------------------------------------
Agreement == INSTANCE PlaneAgreement WITH
    FaultPlanes <- {0}, Gens <- Nat, table <- [s \in Sides |-> [p \in {0} |-> entry[s]]]

(* The probes of two processes, operators and lost answers, with a stale   *)
(* look at the table, keep what the tables promise each other.             *)
ProbeAgreement == Agreement!Spec

(* When the targets of both processes answer again, both use the plane     *)
(* again, whatever was lost and reported before.                           *)
AnsweredIsHealthy == <>[](\A s \in Sides : entry[s].health = "Healthy")

(* A plane whose target is silent goes out of use in both processes for    *)
(* good, although operators report it recovered.  Their tables need not    *)
(* agree: reports that cross leave Broken here and Recovering there at one *)
(* generation.                                                             *)
SilentNotUsed == <>[](\A s \in Sides : entry[s].health # "Healthy")
=============================================================================
