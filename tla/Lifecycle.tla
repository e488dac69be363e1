----------------------------- MODULE Lifecycle -----------------------------
(***************************************************************************)
(* The plugin's one global context (context.cc) and its monitor threads    *)
(* (monitor.cc) over the life of the NCCL communicators of a process.      *)
(* Each communicator calls init, opens and closes connections, and calls   *)
(* finalize, init and finalize one at a time under NCCL's netPluginMutex;  *)
(* PluginLoader models who calls them.  The first init opens the devices   *)
(* and starts the threads; every finalize stops the threads, waits for     *)
(* them and closes the devices.  A thread that learns of a plane event     *)
(* copies the list of connections and then calls them one by one.          *)
(*                                                                         *)
(* MaxReports bounds the events.  Overlap says whether communicators live  *)
(* at the same time; each id of Comms and Conns is used once.  What a      *)
(* thread finds when it calls a connection freed meanwhile is undefined:   *)
(* the call does nothing, or the process crashes.                          *)
(***************************************************************************)
EXTENDS Naturals

CONSTANTS Comms, Conns, Threads, Overlap, MaxReports, Nobody

VARIABLES
    comm,         \* comm[c]: "new", "using" the plugin, or "gone"
    call,         \* the call under netPluginMutex: who, and what it is doing
    initialized,
    devices,      \* whether the plane devices are open
    stop,         \* Monitor::stop_
    pc,           \* pc[t]: what monitor thread t is doing
    pending,      \* pending[t]: connections thread t has yet to call
    conn,         \* conn[k]: its state and the communicator it belongs to
    reports, crashed

monitor == <<stop, pc, pending>>
context == <<initialized, devices>>
vars == <<comm, call, context, monitor, conn, reports, crashed>>

Quiet == [who |-> Nobody, op |-> "none"]
Running == {"poll", "read", "notify"}
Open == {k \in Conns : conn[k].state = "open"}

TypeOK ==
    /\ comm \in [Comms -> {"new", "using", "gone"}]
    /\ call \in [who : Comms \cup {Nobody}, op : {"none", "join", "close"}]
    /\ initialized \in BOOLEAN
    /\ devices \in BOOLEAN
    /\ stop \in BOOLEAN
    /\ pc \in [Threads -> Running \cup {"none", "exited"}]
    /\ \A t \in Threads : pending[t] \subseteq Conns /\ (pending[t] # {} => pc[t] = "notify")
    /\ conn \in [Conns -> [state : {"new", "open", "closed"}, owner : Comms \cup {Nobody}]]
    /\ reports \in 0 .. MaxReports
    /\ crashed \in BOOLEAN

Init ==
    /\ comm = [c \in Comms |-> "new"]
    /\ call = Quiet
    /\ initialized = FALSE
    /\ devices = FALSE
    /\ stop = FALSE
    /\ pc = [t \in Threads |-> "none"]
    /\ pending = [t \in Threads |-> {}]
    /\ conn = [k \in Conns |-> [state |-> "new", owner |-> Nobody]]
    /\ reports = 0
    /\ crashed = FALSE

-----------------------------------------------------------------------------
MayStart == Overlap \/ \A c \in Comms : comm[c] # "using"

InitContext(c) ==
    /\ comm[c] = "new" /\ call = Quiet /\ MayStart
    /\ comm' = [comm EXCEPT ![c] = "using"]
    /\ IF initialized
       THEN UNCHANGED <<context, monitor>>
       ELSE /\ devices' = TRUE
            /\ stop' = FALSE
            /\ pc' = [t \in Threads |-> "poll"]
            /\ initialized' = TRUE
            /\ UNCHANGED pending
    /\ UNCHANGED <<call, conn, reports, crashed>>

OpenConn(c, k) ==
    /\ comm[c] = "using" /\ call.who # c /\ devices
    /\ conn[k].state = "new"
    /\ conn' = [conn EXCEPT ![k] = [state |-> "open", owner |-> c]]
    /\ UNCHANGED <<comm, call, context, monitor, reports, crashed>>

\* closeSend, closeRecv: the connection is unregistered and deleted.
CloseConn(k) ==
    /\ k \in Open
    /\ conn' = [conn EXCEPT ![k].state = "closed"]
    /\ UNCHANGED <<comm, call, context, monitor, reports, crashed>>

\* finalize: Monitor::stop sets the flag if there is a monitor.
StartFinalize(c) ==
    /\ comm[c] = "using" /\ call = Quiet
    /\ \A k \in Open : conn[k].owner # c
    /\ call' = [who |-> c, op |-> IF initialized THEN "join" ELSE "close"]
    /\ stop' = (stop \/ initialized)
    /\ UNCHANGED <<comm, context, pc, pending, conn, reports, crashed>>

\* Mutant: the thread that reads the control socket is not waited for.
Joined_mutant == \A t \in Threads : pc[t] \in {"none", "exited", "read"}

Joined == \A t \in Threads : pc[t] \in {"none", "exited"}

Join ==
    /\ call.op = "join" /\ Joined
    /\ call' = [call EXCEPT !.op = "close"]
    /\ UNCHANGED <<comm, context, monitor, conn, reports, crashed>>

\* Mutant: initialized_ is not reset.
CloseDevices_mutant ==
    /\ call.op = "close"
    /\ devices' = FALSE
    /\ comm' = [comm EXCEPT ![call.who] = "gone"]
    /\ call' = Quiet
    /\ UNCHANGED <<initialized, monitor, conn, reports, crashed>>

CloseDevices ==
    /\ call.op = "close"
    /\ devices' = FALSE
    /\ initialized' = FALSE
    /\ comm' = [comm EXCEPT ![call.who] = "gone"]
    /\ call' = Quiet
    /\ UNCHANGED <<monitor, conn, reports, crashed>>

-----------------------------------------------------------------------------

Exit(t) ==
    /\ pc[t] = "poll" /\ stop
    /\ pc' = [pc EXCEPT ![t] = "exited"]
    /\ UNCHANGED <<comm, call, context, stop, pending, conn, reports, crashed>>

\* The control socket is connected: the thread blocks until a line comes.
StartRead(t) ==
    /\ t = "tcp" /\ pc[t] = "poll" /\ ~stop
    /\ pc' = [pc EXCEPT ![t] = "read"]
    /\ UNCHANGED <<comm, call, context, stop, pending, conn, reports, crashed>>

EndRead(t) ==
    /\ pc[t] = "read"
    /\ pc' = [pc EXCEPT ![t] = "poll"]
    /\ UNCHANGED <<comm, call, context, stop, pending, conn, reports, crashed>>

\* applyPlaneEvent: the table is marked and comms_ copied.
Report(t) ==
    /\ pc[t] = "read" \/ (t # "tcp" /\ pc[t] = "poll" /\ ~stop)
    /\ reports < MaxReports
    /\ reports' = reports + 1
    /\ pending' = [pending EXCEPT ![t] = Open]
    /\ pc' = [pc EXCEPT ![t] = "notify"]
    /\ UNCHANGED <<comm, call, context, stop, conn, crashed>>

\* onPlaneBroken or onPlaneRecovering, and sendPlaneEvent, of one connection.
Notify(t, k) ==
    /\ pc[t] = "notify" /\ k \in pending[t]
    /\ pending' = [pending EXCEPT ![t] = @ \ {k}]
    /\ crashed' \in IF k \in Open THEN {crashed} ELSE BOOLEAN
    /\ UNCHANGED <<comm, call, context, stop, pc, conn, reports>>

\* Mutant: the loop over the connections is left early.
EndReport_mutant(t) ==
    /\ pc[t] = "notify"
    /\ pc' = [pc EXCEPT ![t] = IF t = "tcp" /\ ~stop THEN "read" ELSE "poll"]
    /\ UNCHANGED <<comm, call, context, stop, pending, conn, reports, crashed>>

\* The thread has called all: back to its loop, the TCP thread to its socket.
EndReport(t) ==
    /\ pc[t] = "notify" /\ pending[t] = {}
    /\ pc' = [pc EXCEPT ![t] = IF t = "tcp" /\ ~stop THEN "read" ELSE "poll"]
    /\ UNCHANGED <<comm, call, context, stop, pending, conn, reports, crashed>>

NcclStep ==
    \/ Join \/ CloseDevices
    \/ \E c \in Comms : InitContext(c) \/ StartFinalize(c) \/ \E k \in Conns : OpenConn(c, k)
    \/ \E k \in Conns : CloseConn(k)

ThreadStep(t) ==
    Exit(t) \/ StartRead(t) \/ EndReport(t) \/ \E k \in Conns : Notify(t, k)

Next ==
    /\ ~crashed
    /\ NcclStep \/ \E t \in Threads : ThreadStep(t) \/ EndRead(t) \/ Report(t)

Spec == Init /\ [][Next]_vars

\* What fairness is about: NCCL's call goes on and the threads run.  Nothing
\* makes the other end of the control socket send a line or close it.
FinalizeStep == ~crashed /\ (Join \/ CloseDevices)

RunningStep(t) == ~crashed /\ ThreadStep(t)

FairSpec == Spec /\ WF_vars(FinalizeStep) /\ \A t \in Threads : WF_vars(RunningStep(t))

-----------------------------------------------------------------------------
(* A monitor thread runs only while the devices are open, also while a     *)
(* finalize is under way: it may touch queue pairs at any time.            *)
MonitorsJoined == (\E t \in Threads : pc[t] \in Running) => devices

(* The devices are open for every communicator between its init and its    *)
(* finalize.                                                               *)
DevicesWhileUsed == \A c \in Comms : comm[c] = "using" /\ call.who # c => devices

\* The thread that reads the control socket is inside recv, the others are gone.
ReaderIsLast == pc["tcp"] = "read" /\ \A t \in Threads \ {"tcp"} : pc[t] \in {"none", "exited"}

=============================================================================
