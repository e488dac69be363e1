----------------------------- MODULE Establish -----------------------------
(***************************************************************************)
(* How two processes build a connection: DpfrNet::connect and accept of    *)
(* comm.cc, called by the one proxy service thread of each process         *)
(* (ncclProxyService of NCCL's proxy.cc), which runs the connects that its *)
(* main thread posted, then polls the accepts.                             *)
(*                                                                         *)
(* The connector opens the TCP connection, creates one queue pair per      *)
(* plane at the generation its plane table has at that moment, sends them  *)
(* in an InitReq and blocks for the InitResp.  The acceptor takes the      *)
(* socket, reads the InitReq, creates its own queue pairs, refuses the     *)
(* connection unless every generation matches, answers and registers the   *)
(* connection.  Meanwhile the monitors of both processes change the plane  *)
(* tables.                                                                 *)
(*                                                                         *)
(* A queue pair is its generation; what happens to a connection once it is *)
(* registered is DpfrComm.  Failing system and verbs calls are left out.   *)
(***************************************************************************)
EXTENDS PlaneTable, FiniteSets

CONSTANTS
    Procs,        \* processes, one NCCL rank each
    Edges,        \* connections to be made: pairs <<sender, receiver>>
    Planes,       \* the configured fault planes
    MaxEvents,    \* bound on the transitions the monitors report
    MaxTimeouts   \* bound on the waits that take ten seconds

VARIABLES
    table,     \* table[p][l]: entry of plane l in the process p
    connector, \* connector[e]: where the connect of e is
    acceptor,  \* acceptor[e]: where the accept of e is
    slots,     \* slots[k][e]: generation of the queue pairs created so far, by plane
    req, resp, \* what was sent on the control socket of e: the generations, or NoMsg
    busy,      \* busy[p]: the connection whose connect or accept the thread is inside
    spent      \* events and timeouts used up

vars == <<table, connector, acceptor, slots, req, resp, busy, spent>>

NoMsg == [l \in {} |-> 0]
Idle == <<>>
Sender(e) == e[1]
Receiver(e) == e[2]
Ends == {"connect", "accept"}

IsGenerations(g) == DOMAIN g \subseteq Planes /\ \A l \in DOMAIN g : g[l] \in Nat \ {0}

TypeOK ==
    /\ table \in [Procs -> [Planes -> PlaneEntry]]
    /\ connector \in [Edges -> {"posted", "tcp", "waiting", "up", "failed"}]
    /\ acceptor \in [Edges -> {"posted", "reading", "slots", "up", "failed"}]
    /\ \A k \in Ends, e \in Edges : IsGenerations(slots[k][e])
    /\ \A e \in Edges : IsGenerations(req[e]) /\ IsGenerations(resp[e])
    /\ busy \in [Procs -> Edges \cup {Idle}]
    /\ spent \in [events : 0 .. MaxEvents, timeouts : 0 .. MaxTimeouts]

Init ==
    /\ table = [p \in Procs |-> [l \in Planes |-> InitialEntry]]
    /\ connector = [e \in Edges |-> "posted"]
    /\ acceptor = [e \in Edges |-> "posted"]
    /\ slots = [k \in Ends |-> [e \in Edges |-> NoMsg]]
    /\ req = [e \in Edges |-> NoMsg]
    /\ resp = [e \in Edges |-> NoMsg]
    /\ busy = [p \in Procs |-> Idle]
    /\ spent = [events |-> 0, timeouts |-> 0]

-----------------------------------------------------------------------------
\* createInitialSlots walks the devices; each generation is read on its own.
Missing(k, e) == Planes \ DOMAIN slots[k][e]

NextPlane(k, e) == CHOOSE l \in Missing(k, e) : \A o \in Missing(k, e) : l <= o

CreateSlot(k, e, p) ==
    /\ Missing(k, e) # {}
    /\ slots' = [slots EXCEPT ![k][e] =
          [l \in DOMAIN @ \cup {NextPlane(k, e)} |->
              IF l \in DOMAIN @ THEN @[l] ELSE table[p][l].gen]]

\* Mutant: only the planes are compared.
Matches_mutant(local, remote) == DOMAIN local = DOMAIN remote

\* importRemoteQps compares the generations plane by plane.
Matches(local, remote) == local = remote

Return(p) == busy' = [busy EXCEPT ![p] = Idle]

\* The service thread starts a connect; the peer's kernel takes the connection.
StartConnect(e) ==
    /\ busy[Sender(e)] = Idle /\ connector[e] = "posted"
    /\ connector' = [connector EXCEPT ![e] = "tcp"]
    /\ busy' = [busy EXCEPT ![Sender(e)] = e]
    /\ UNCHANGED <<table, acceptor, slots, req, resp, spent>>

ConnectorSlot(e) ==
    /\ connector[e] = "tcp"
    /\ CreateSlot("connect", e, Sender(e))
    /\ UNCHANGED <<table, connector, acceptor, req, resp, busy, spent>>

\* The InitReq is sent and connect blocks for the answer.
SendInitReq(e) ==
    /\ connector[e] = "tcp" /\ Missing("connect", e) = {}
    /\ req' = [req EXCEPT ![e] = slots["connect"][e]]
    /\ connector' = [connector EXCEPT ![e] = "waiting"]
    /\ UNCHANGED <<table, acceptor, slots, resp, busy, spent>>

\* The answer is there, or the acceptor has closed the socket.
RecvInitResp(e) ==
    /\ connector[e] = "waiting"
    /\ \/ /\ resp[e] # NoMsg
          /\ connector' = [connector EXCEPT ![e] =
                 IF Matches(slots["connect"][e], resp[e]) THEN "up" ELSE "failed"]
       \/ /\ resp[e] = NoMsg /\ acceptor[e] = "failed"
          /\ connector' = [connector EXCEPT ![e] = "failed"]
    /\ Return(Sender(e))
    /\ UNCHANGED <<table, acceptor, slots, req, resp, spent>>

\* Mutant: the ten seconds start when the answer does.
ConnectTimeout_mutant(e) ==
    /\ connector[e] = "waiting" /\ resp[e] # NoMsg /\ spent.timeouts < MaxTimeouts
    /\ connector' = [connector EXCEPT ![e] = "failed"]
    /\ Return(Sender(e))
    /\ spent' = [spent EXCEPT !.timeouts = @ + 1]
    /\ UNCHANGED <<table, acceptor, slots, req, resp>>

\* Ten seconds without an answer: connect fails and closes the socket.
ConnectTimeout(e) ==
    /\ connector[e] = "waiting" /\ spent.timeouts < MaxTimeouts
    /\ connector' = [connector EXCEPT ![e] = "failed"]
    /\ Return(Sender(e))
    /\ spent' = [spent EXCEPT !.timeouts = @ + 1]
    /\ UNCHANGED <<table, acceptor, slots, req, resp>>

-----------------------------------------------------------------------------
\* The main thread posts the connects before the accepts.
ConnectsStarted(p) == \A e \in Edges : Sender(e) = p => connector[e] # "posted"

\* accept finds a connection in the listen queue; without one it returns at once.
StartAccept(e) ==
    /\ busy[Receiver(e)] = Idle /\ ConnectsStarted(Receiver(e))
    /\ acceptor[e] = "posted" /\ connector[e] # "posted"
    /\ acceptor' = [acceptor EXCEPT ![e] = "reading"]
    /\ busy' = [busy EXCEPT ![Receiver(e)] = e]
    /\ UNCHANGED <<table, connector, slots, req, resp, spent>>

\* recvAll of the InitReq; the connector always sends it before it can fail.
ReadInitReq(e) ==
    /\ acceptor[e] = "reading" /\ req[e] # NoMsg
    /\ acceptor' = [acceptor EXCEPT ![e] = "slots"]
    /\ UNCHANGED <<table, connector, slots, req, resp, busy, spent>>

AcceptTimeout(e) ==
    /\ acceptor[e] = "reading" /\ req[e] = NoMsg /\ spent.timeouts < MaxTimeouts
    /\ acceptor' = [acceptor EXCEPT ![e] = "failed"]
    /\ Return(Receiver(e))
    /\ spent' = [spent EXCEPT !.timeouts = @ + 1]
    /\ UNCHANGED <<table, connector, slots, req, resp>>

AcceptorSlot(e) ==
    /\ acceptor[e] = "slots"
    /\ CreateSlot("accept", e, Receiver(e))
    /\ UNCHANGED <<table, connector, acceptor, req, resp, busy, spent>>

\* initFromAcceptedFd: compare, answer and register, or close without an answer.
Answer(e) ==
    /\ acceptor[e] = "slots" /\ Missing("accept", e) = {}
    /\ IF Matches(slots["accept"][e], req[e])
       THEN /\ resp' = [resp EXCEPT ![e] = slots["accept"][e]]
            /\ acceptor' = [acceptor EXCEPT ![e] = "up"]
       ELSE /\ acceptor' = [acceptor EXCEPT ![e] = "failed"]
            /\ UNCHANGED resp
    /\ Return(Receiver(e))
    /\ UNCHANGED <<table, connector, slots, req, spent>>

-----------------------------------------------------------------------------
\* A monitor thread of process p reports a transition of plane l.
Report(p, l) ==
    /\ spent.events < MaxEvents
    /\ \E f \in {MarkBroken(table[p][l]), MarkRecovering(table[p][l])} :
          table' = [table EXCEPT ![p][l] = f]
    /\ spent' = [spent EXCEPT !.events = @ + 1]
    /\ UNCHANGED <<connector, acceptor, slots, req, resp, busy>>

Connect(e) == StartConnect(e) \/ ConnectorSlot(e) \/ SendInitReq(e) \/ RecvInitResp(e)

Accept(e) == StartAccept(e) \/ ReadInitReq(e) \/ AcceptorSlot(e) \/ Answer(e)

Next ==
    \/ \E e \in Edges : Connect(e) \/ Accept(e) \/ ConnectTimeout(e) \/ AcceptTimeout(e)
    \/ \E p \in Procs, l \in Planes : Report(p, l)

Spec == Init /\ [][Next]_vars

\* The service threads keep running, and a connect gives up after ten seconds.
FairSpec ==
    Spec /\ \A e \in Edges :
               WF_vars(Connect(e)) /\ WF_vars(ConnectTimeout(e)) /\ WF_vars(Accept(e))

-----------------------------------------------------------------------------
(* Two ends that are both established have queue pairs of the same         *)
(* generation on every plane, however the tables changed while they were   *)
(* being built: traffic and recovery compare generations across the ends.  *)
PairedGenerations ==
    \A e \in Edges : connector[e] = "up" /\ acceptor[e] = "up"
        => slots["connect"][e] = slots["accept"][e]

(* Every attempt ends, also when the processes connect in a circle and all *)
(* wait for one another; and the two ends of a connection come to the same *)
(* verdict, but for one connection for each wait that timed out.           *)
AttemptsEnd ==
    <>(/\ \A e \in Edges :
            connector[e] \in {"up", "failed"} /\ acceptor[e] \in {"up", "failed"}
       /\ Cardinality({e \in Edges : connector[e] # acceptor[e]}) <= spent.timeouts)

\* p is inside a connect that waits for the answer of q.
WaitsFor(p, q) ==
    \E e \in Edges : busy[p] = e /\ e = <<p, q>> /\ connector[e] = "waiting" /\ resp[e] = NoMsg

(* Connects do not wait in a circle: no processes are all inside a connect *)
(* that waits for an answer which another one of them would have to give.  *)
(* None of them would get to its accepts before its own connect returns.   *)
NoCircularWait ==
    \A S \in SUBSET Procs \ {{}} : \E p \in S : \A q \in S : ~WaitsFor(p, q)
=============================================================================
