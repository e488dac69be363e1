--------------------------- MODULE MCComponents ---------------------------
(***************************************************************************)
(* The components that share no state with one another, for TLC: every     *)
(* behaviour is a behaviour of one of them, chosen at the start, and the   *)
(* others stay in their initial state.  An invariant of a component is one *)
(* of all these behaviours; a liveness property is asked for where its     *)
(* component runs.                                                         *)
(*                                                                         *)
(*   "agreement"  PlaneAgreement, which this module extends: two planes    *)
(*   "establish"  Establish: a ring of three processes, whose connects all *)
(*                wait for one another                                     *)
(*   "socket"     ControlSocket: two threads send at each end              *)
(*   "loader"     PluginLoader: three communicators, four plugins          *)
(*   "overlap"    Lifecycle: communicators that live at the same time      *)
(*   "alone"      Lifecycle: one communicator after the other              *)
(*   "lossy"      ProbeMonitor: both processes probe, answers get lost     *)
(*   "silent"     ProbeMonitor: one process probes, nothing answers        *)
(*   "proxy"      ProxyOps: the threads of two local ranks and the         *)
(*                progress thread                                          *)
(*   "ring"       NetPipe: buffers of a ring, slices of two steps among    *)
(*                single steps                                             *)
(*   "p2p"        NetPipe: a pool of fewer buffers than steps, data that   *)
(*                lands late and is flushed                                *)
(***************************************************************************)
EXTENDS PlaneAgreement, TLC

VARIABLES
    component,
    planeTables, connector, acceptor, slots, req, resp, busy, spent,
    wire, rx, last, pos, lock, sent,
    libs, holder, at, owner, plugin, seen, want,
    comm, call, initialized, devices, stop, pc, pending, conn, reports, crashed,
    entry, hits, misses, seenBroken, chan, lost, orders,
    ops, plan, free, freed, issued, posted, thread, queue, stopped,
    sgpu, sproxy, rproxy, rgpu, shead, stail, sfifo, sbuf, rhead, rtail, roffset, rbuf,
    landing, sreq, rreq, calls, got

EstVars == <<planeTables, connector, acceptor, slots, req, resp, busy, spent>>
SockVars == <<wire, rx, last, pos, lock, sent>>
LoadVars == <<libs, holder, at, owner, plugin, seen, want>>
LifeVars == <<comm, call, initialized, devices, stop, pc, pending, conn, reports, crashed>>
ProbeVars == <<entry, hits, misses, seenBroken, chan, lost, orders>>
ProxyVars == <<ops, plan, free, freed, issued, posted, thread, queue, stopped>>
PipeVars ==
    <<sgpu, sproxy, rproxy, rgpu, shead, stail, sfifo, sbuf, rhead, rtail, roffset, rbuf,
      landing, sreq, rreq, calls, got>>

Components ==
    {"agreement", "establish", "socket", "loader", "overlap", "alone", "lossy", "silent",
     "proxy", "ring", "p2p"}

Circle == {<<1, 2>>, <<2, 3>>, <<3, 1>>}

Est == INSTANCE Establish WITH
    Procs <- {1, 2, 3}, Edges <- Circle, Planes <- {0}, MaxEvents <- 1, MaxTimeouts <- 6,
    table <- planeTables

\* At end A the proxy and a monitor send, at end B two monitors.
Sock == INSTANCE ControlSocket WITH
    Senders <- [A |-> {"proxy", "tcp"}, B |-> {"tcp", "icmp"}],
    MsgLen <- 2, Cap <- 3, MaxSends <- 1

\* NCCL does not accept the third plugin; the default file is not installed.
Accepted == {"dpfr_ib", "other", "ib"}

Load == INSTANCE PluginLoader WITH
    Comms <- {"c1", "c2", "c3"},
    Externals <- <<"dpfr_ib", "other", "gpu_only">>, Internals <- <<"ib">>,
    DefaultFile <- "libnccl-net.so", Installed <- Accepted \cup {"gpu_only"},
    NetName <- [f \in Accepted \cup {"gpu_only"} |-> f], AnyNet <- "any",
    DeviceOk <- Accepted, InitialRefs <- 0, MaxRefused <- 1,
    NoFile <- "none", Nobody <- "nobody"

Many == INSTANCE Lifecycle WITH
    Comms <- {"c1", "c2", "c3"}, Conns <- {"k1", "k2"}, Threads <- {"tcp", "udp"},
    Overlap <- TRUE, MaxReports <- 1, Nobody <- "nobody"

Alone == INSTANCE Lifecycle WITH
    Comms <- {"c1", "c2", "c3"}, Conns <- {"k1", "k2"}, Threads <- {"tcp", "udp"},
    Overlap <- FALSE, MaxReports <- 1, Nobody <- "nobody"

Lossy == INSTANCE ProbeMonitor WITH
    Probing <- {"S", "R"}, Silent <- {}, MaxLost <- 3, MaxOrders <- 1

Mute == INSTANCE ProbeMonitor WITH
    Probing <- {"S"}, Silent <- {"S"}, MaxLost <- 0, MaxOrders <- 3

\* Rank 0 has more operations than elements; its connection shares buffers.
Pool == INSTANCE ProxyOps WITH
    NRanks <- 2, MaxOps <- 3, Batch <- 1, Owner <- [a |-> 0, b |-> 1], Grouped <- {"a"},
    Total <- (0 :> 4 @@ 1 :> 1), stop <- stopped

Op(nsteps, chunk, slice) == [nsteps |-> nsteps, chunk |-> chunk, slice |-> slice]

Ring == INSTANCE NetPipe WITH
    Steps <- 4, Depth <- 4, Shared <- FALSE, Late <- FALSE, Flushes <- FALSE,
    Ops <- <<Op(1, 1, 1), Op(4, 2, 2), Op(2, 1, 1)>>

P2p == INSTANCE NetPipe WITH
    Steps <- 3, Depth <- 2, Shared <- TRUE, Late <- TRUE, Flushes <- TRUE,
    Ops <- <<Op(5, 1, 1), Op(2, 1, 1)>>

-----------------------------------------------------------------------------
InitAll ==
    /\ component \in Components
    /\ Init /\ Est!Init /\ Sock!Init /\ Load!Init /\ Many!Init /\ Lossy!Init /\ Pool!Init
    /\ IF component = "p2p" THEN P2p!Init ELSE Ring!Init

\* A step of the chosen component c leaves the others alone.
Only(c) ==
    /\ component = c
    /\ UNCHANGED component
    /\ IF c = "agreement" THEN TRUE ELSE UNCHANGED table
    /\ IF c = "establish" THEN TRUE ELSE UNCHANGED EstVars
    /\ IF c = "socket" THEN TRUE ELSE UNCHANGED SockVars
    /\ IF c = "loader" THEN TRUE ELSE UNCHANGED LoadVars
    /\ IF c \in {"overlap", "alone"} THEN TRUE ELSE UNCHANGED LifeVars
    /\ IF c \in {"lossy", "silent"} THEN TRUE ELSE UNCHANGED ProbeVars
    /\ IF c = "proxy" THEN TRUE ELSE UNCHANGED ProxyVars
    /\ IF c \in {"ring", "p2p"} THEN TRUE ELSE UNCHANGED PipeVars

NextAll ==
    \/ Only("agreement") /\ Next
    \/ Only("establish") /\ Est!Next
    \/ Only("socket") /\ Sock!Next
    \/ Only("loader") /\ Load!Next
    \/ Only("overlap") /\ Many!Next
    \/ Only("alone") /\ Alone!Next
    \/ Only("lossy") /\ Lossy!Next
    \/ Only("silent") /\ Mute!Next
    \/ Only("proxy") /\ Pool!Next
    \/ Only("ring") /\ Ring!Next
    \/ Only("p2p") /\ P2p!Next

allVars ==
    <<component, table, EstVars, SockVars, LoadVars, LifeVars, ProbeVars, ProxyVars, PipeVars>>

FairPipe ==
    /\ WF_PipeVars(\/ component = "ring" /\ Ring!SendKernel
                   \/ component = "p2p" /\ P2p!SendKernel)
    /\ WF_PipeVars(\/ component = "ring" /\ Ring!RecvKernel
                   \/ component = "p2p" /\ P2p!RecvKernel)
    /\ WF_PipeVars(\/ component = "ring" /\ Ring!SendProxy
                   \/ component = "p2p" /\ P2p!SendProxy)
    /\ WF_PipeVars(\/ component = "ring" /\ Ring!RecvProxy
                   \/ component = "p2p" /\ P2p!RecvProxy)
    /\ WF_PipeVars(\/ component = "ring" /\ Ring!Network
                   \/ component = "p2p" /\ P2p!Network)

\* The fairness of each component, while it is the one that runs.
Fairness ==
    /\ \A e \in Circle :
          /\ WF_EstVars(component = "establish" /\ Est!Connect(e))
          /\ WF_EstVars(component = "establish" /\ Est!ConnectTimeout(e))
          /\ WF_EstVars(component = "establish" /\ Est!Accept(e))
    /\ \A e \in {"A", "B"} :
          /\ WF_SockVars(component = "socket" /\ Sock!RecvStep(e))
          /\ WF_SockVars(component = "socket" /\ Sock!Sending(e))
    /\ WF_LifeVars(component \in {"overlap", "alone"} /\ Many!FinalizeStep)
    /\ \A t \in {"tcp", "udp"} :
          WF_LifeVars(component \in {"overlap", "alone"} /\ Many!RunningStep(t))
    /\ \A s \in Sides :
          /\ WF_ProbeVars(component = "lossy" /\ Lossy!Probe(s))
          /\ WF_ProbeVars(component = "silent" /\ Mute!Probe(s))
          /\ WF_ProbeVars(component \in {"lossy", "silent"} /\ Lossy!Learn(s))
          /\ WF_ProbeVars(component \in {"lossy", "silent"} /\ Lossy!Readmit(s))
    /\ WF_ProxyVars(component = "proxy" /\ Pool!ThreadStep)
    /\ SF_ProxyVars(component = "proxy" /\ Pool!Finishing)
    /\ FairPipe

FairSpec == InitAll /\ [][NextAll]_allVars /\ Fairness

-----------------------------------------------------------------------------
(* The types of all components' variables.                                 *)
TypesOK ==
    /\ TypeOK /\ Est!TypeOK /\ Sock!TypeOK /\ Load!TypeOK /\ Many!TypeOK
    /\ Pool!TypeOK /\ IF component = "p2p" THEN P2p!TypeOK ELSE Ring!TypeOK
    /\ IF component = "silent" THEN Mute!TypeOK ELSE Lossy!TypeOK

(* Establish: two ends that are both established have queue pairs of the   *)
(* same generation on every plane, however the tables changed meanwhile.   *)
PairedGenerations == Est!PairedGenerations

(* Establish: every attempt ends, also in a circle of waits, and the two   *)
(* ends differ at most once for each wait that timed out.                  *)
AttemptsEnd == component = "establish" => Est!AttemptsEnd

(* ControlSocket: the two ends see whole messages, each once, in the order *)
(* in which their sends completed.                                         *)
FifoSpec == Sock!FifoSpec

(* ControlSocket: no thread waits for the mutex or for room for ever.      *)
SendsEnd == component = "socket" => Sock!SendsEnd

(* PluginLoader: no plugin is unloaded under a communicator.               *)
LoadedWhileUsed == Load!LoadedWhileUsed

(* PluginLoader: a plugin's count is the number of families that use it.   *)
RefsCountUsers == Load!RefsCountUsers

(* Lifecycle: a monitor thread runs only while the devices are open.       *)
MonitorsJoined == Many!MonitorsJoined


(* Lifecycle: communicators that follow one another find the devices open  *)
(* as long as they use the plugin.                                         *)
DevicesWhileUsed == component = "alone" => Alone!DevicesWhileUsed

(* ProbeMonitor: probes, operators and lost answers keep what the tables   *)
(* of the two processes promise each other.                                *)
ProbeAgreement == Lossy!ProbeAgreement

(* ProbeMonitor: when all targets answer again, both processes use the     *)
(* plane again.                                                            *)
AnsweredIsHealthy == component = "lossy" => Lossy!AnsweredIsHealthy

(* ProbeMonitor: a plane whose target is silent goes out of use in both    *)
(* processes for good.                                                     *)
SilentNotUsed == component = "silent" => Mute!SilentNotUsed

(* ProxyOps: no element of the pool is lost or in two places.              *)
ElementsConserved == Pool!ElementsConserved

(* ProxyOps: an argument that runs has all operations of its group.        *)
RunningComplete == Pool!RunningComplete

(* ProxyOps: a progress thread that was stopped has finished what it took. *)
StoppedFinishes == Pool!StoppedFinishes

(* ProxyOps: what is posted runs to its end unless the thread ended.       *)
PostedRuns == component = "proxy" => Pool!PostedRuns

(* NetPipe: the receiving kernel reads what the sending one wrote, in      *)
(* order, whatever the number of buffers and the size of slices.           *)
ReadInOrder == Ring!ReadInOrder

(* NetPipe: kernels and proxies of both ends finish all operations.        *)
AllOperationsEnd ==
    component \in {"ring", "p2p"} =>
        <>(IF component = "ring" THEN Ring!AllEnded ELSE P2p!AllEnded)
=============================================================================
