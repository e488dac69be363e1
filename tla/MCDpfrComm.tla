----------------------------- MODULE MCDpfrComm -----------------------------
(***************************************************************************)
(* DpfrComm for TLC, where the monitor threads of a process are model      *)
(* values.  They are interchangeable: a thread is only an index of mon,    *)
(* and nothing tells which monitor a report came from.                     *)
(*                                                                         *)
(* The state space of everything together is out of reach.  TLC goes on    *)
(* from a state while it belongs to one of two settings.                   *)
(***************************************************************************)
EXTENDS DpfrComm, TLC

ThreadSymmetry == Permutations(Threads)

\* Reports of the monitors on one plane, and nothing else: neither messages nor
\* faults.
OnlyReports ==
    /\ spent.faults = 0 /\ spent.timeouts = 0 /\ spent.skips = 0
    /\ \A s \in Sides : nccl.posted[s] = 0 /\ \A p \in Planes \ {0} : table[s][p] = InitialEntry

\* Messages, with not more than one report and two reports, faults and timeouts
\* together.
TwoDisturbances ==
    spent.events <= 1 /\ spent.events + spent.faults + spent.timeouts <= 2

ReportsOrTraffic == OnlyReports \/ TwoDisturbances
=============================================================================
