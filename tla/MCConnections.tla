---------------------------- MODULE MCConnections ----------------------------
(***************************************************************************)
(* The plugin's connections between two processes, for TLC: every          *)
(* behaviour is one of the following, chosen at the start.  What belongs   *)
(* to the others stays in its initial state.                               *)
(*                                                                         *)
(*   "shared"   SharedTable, which this module extends: two connections    *)
(*   "recover"  DpfrComm: three reports and no traffic on one plane        *)
(*   "quiet"    DpfrComm: six messages over two planes, one at a time,     *)
(*              when nothing goes wrong                                    *)
(***************************************************************************)
EXTENDS MCSharedTable, TLC

VARIABLES
    component,
    planes, qpSlots, qps, net, monitors, phase, request, nextSeq, journal, nccl, used

CommVars ==
    <<planes, qpSlots, qps, net, monitors, phase, request, nextSeq, journal, nccl, used>>

QpIds == 1 .. 7

Recover == INSTANCE DpfrComm WITH
    NPlanes <- 1, Threads <- {"tcp"}, Monitored <- {"S", "R"}, MaxEvents <- 3,
    MaxFaults <- 0, MaxTimeouts <- 0, MaxSkips <- 0, MaxSteps <- 0, Window <- 1, MaxQp <- 7,
    table <- planes, slots <- qpSlots, mon <- monitors, pc <- phase, req <- request,
    spent <- used

Quiet == INSTANCE DpfrComm WITH
    NPlanes <- 2, Threads <- {"tcp"}, Monitored <- {"S", "R"}, MaxEvents <- 0,
    MaxFaults <- 0, MaxTimeouts <- 0, MaxSkips <- 0, MaxSteps <- 6, Window <- 1, MaxQp <- 7,
    table <- planes, slots <- qpSlots, mon <- monitors, pc <- phase, req <- request,
    spent <- used

-----------------------------------------------------------------------------
InitAll ==
    /\ component \in {"shared", "recover", "quiet"}
    /\ Init
    /\ IF component = "quiet" THEN Quiet!Init ELSE Recover!Init

\* A step of the chosen component c leaves the others alone.
Only(c) ==
    /\ component = c
    /\ UNCHANGED component
    /\ IF c = "shared" THEN TRUE ELSE UNCHANGED vars
    /\ IF c \in {"recover", "quiet"} THEN TRUE ELSE UNCHANGED CommVars

NextAll ==
    \/ Only("shared") /\ Next
    \/ Only("recover") /\ Recover!Next
    \/ Only("quiet") /\ Quiet!Next

\* The actions with strong fairness.  One component runs, so that one
\* conjunct can name an action of each: TLC's time doubles with every conjunct.
SideOf(p) == IF p = "P" THEN "S" ELSE "R"
Strong(p, k) ==
    \/ Only("shared") /\ Turn(p, k)
    \/ Only("recover") /\ k = k1 /\ Recover!MonitorNotify(SideOf(p), "tcp")
    \/ Only("recover") /\ k = k2 /\ p = "P" /\ Recover!RecoverStart(0)
    \/ Only("recover") /\ k = k2 /\ p = "Q" /\ Recover!RecvRecoveryReq(TRUE)
    \/ Only("quiet") /\ k = k1 /\ (Quiet!Post(SideOf(p)) \/ Quiet!Test(SideOf(p)))

FairStrong == \A p \in Procs, k \in Conns : SF_<<vars, CommVars>>(Strong(p, k))

\* The rest of the fairness, in the same way.
Weak(p, k) ==
    \/ Only("shared") /\ TellPeer("P", k) /\ p = "P"
    \/ Only("shared") /\ MarkHealthy(p) /\ k = k1 /\ p = "Q"
    \/ Only("shared") /\ MarkHealthy("P") /\ k = k2 /\ p = "Q"
    \/ Only("recover") /\ k = k1 /\ Recover!Progress(SideOf(p))
    \/ Only("recover") /\ k = k2 /\ Recover!MonitorSend(SideOf(p), "tcp")
    \/ Only("quiet") /\ k = k1 /\ Quiet!Progress(SideOf(p))

FairSteps ==
    /\ SF_vars(component = "shared" /\ \E k \in Conns : OnReport("P", k))
    /\ \A p \in Procs, k \in Conns : WF_<<vars, CommVars>>(Weak(p, k))
    /\ \A p \in Procs :
          /\ WF_CommVars(\/ component = "recover" /\ Recover!PollCq(SideOf(p))
                         \/ component = "quiet" /\ Quiet!PollCq(SideOf(p)))
          /\ WF_CommVars(\/ component = "recover" /\ Recover!Return(SideOf(p))
                         \/ component = "quiet" /\ Quiet!Return(SideOf(p)))
    /\ WF_CommVars(\E q \in QpIds : \/ (component = "recover" /\ Recover!Deliver(q))
                                   \/ (component = "quiet" /\ Quiet!Deliver(q)))
    /\ WF_CommVars(\E q \in QpIds : \/ (component = "recover" /\ Recover!Acknowledge(q))
                                   \/ (component = "quiet" /\ Quiet!Acknowledge(q)))
    /\ WF_CommVars(/\ component = "recover" /\ UNCHANGED used
                   /\ \E s \in {"S", "R"}, q \in QpIds : Recover!QpError(s, q))

FairSpec ==
    /\ InitAll /\ [][NextAll]_<<component, vars, CommVars>>
    /\ FairStrong /\ FairSteps

-----------------------------------------------------------------------------
(* The types of all components' variables.                                 *)
TypesOK ==
    /\ TypeOK
    /\ IF component = "quiet" THEN Quiet!TypeOK ELSE Recover!TypeOK

(* SharedTable: a plane that stays usable or recovering is rebuilt on      *)
(* every connection, not only on the one that the change came through.     *)
AllRebuilt == component = "shared" => EveryConnectionRebuilt

(* DpfrComm: whatever is reported in the meantime, the sender's slot of a  *)
(* plane that can be recovered becomes usable.                             *)
SenderRecovers == component = "recover" => Recover!SenderRecovers

(* DpfrComm: every receive gets the data of the send it is matched with.   *)
DataCorrect == Quiet!DataCorrect

(* DpfrComm: when nothing fails, every message is reported done at both    *)
(* ends.                                                                   *)
AllDelivered == component = "quiet" => Quiet!AllDelivered
=============================================================================
